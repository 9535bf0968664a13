\* One execution; it ends, so behaviours do.
SPECIFICATION Spec
CONSTANTS
    Alerts = {a1, a2}
    FirstAlert = a1
    Sources = {"prometheus", "kubernetes", "loki"}
    CorrelationDebounce = 2
    CorrelationHardCap = 5
    ExecutionTimeout = 9
    StateAttempts = 2
    EnrichAttempts = 3
    AgentAttempts = 5
    StoreAttempts = 3
INVARIANTS CorrelationTakesAll CorrelationBounded
PROPERTIES ImplementsRun
CHECK_DEADLOCK FALSE
