\* A webhook request, a re-triage request, the dashboard and the workflows.
SPECIFICATION Spec
CONSTANTS
    Hooks = {h1}
    Operators = {o1}
    NoHook = NoHook
    DeadSession = DeadSession
    WebActions = {"acknowledge", "resolve", "toggle"}
    MaxAttempt = 3
    FlapWindow = 2
    WorkflowExecutionTimeout = 3
    MaxAttemptProbe = 2
    MaxActive = 3
    HandlingBound = 1
    MaxTime = 4
    MaxStamp = 2
INVARIANTS AttemptsContiguous RunHasRow
PROPERTIES ResolvedIsFinal ImplementsLedger
