\* A re-triage reserves an attempt inside a webhook's transaction.
SPECIFICATION Spec
CONSTANTS
    Hooks = {h1}
    Operators = {o1}
    NoHook = NoHook
    DeadSession = DeadSession
    WebActions = {"resolve"}
    MaxAttempt = 3
    FlapWindow = 2
    WorkflowExecutionTimeout = 3
    MaxAttemptProbe = 2
    MaxActive = 3
    HandlingBound = 1
    MaxTime = 4
    MaxStamp = 3
INVARIANTS CreationOrder
