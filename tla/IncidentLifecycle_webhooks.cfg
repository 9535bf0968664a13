\* Two webhook requests, acknowledges and the workflows; nobody re-triages, and the
\* dashboard, which takes no stem lock, resolves nothing.
SPECIFICATION Spec
CONSTANTS
    Hooks = {h1, h2}
    Operators = {}
    NoHook = NoHook
    DeadSession = DeadSession
    WebActions = {"acknowledge"}
    MaxAttempt = 3
    FlapWindow = 2
    WorkflowExecutionTimeout = 3
    MaxAttemptProbe = 2
    MaxActive = 3
    HandlingBound = 1
    MaxTime = 4
    MaxStamp = 3
SYMMETRY HookSymmetry
INVARIANTS TypeOK OpenRowsFarApart CreationOrder MintIsFresh FlapGuardHolds
