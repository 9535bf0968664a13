\* A group of three alerts and two identities under fairness; one request at a
\* time, others that only lock.
SPECIFICATION FairSpec
CONSTANTS
    Alerts = {"a1", "a2", "a3"}
    Labels <- MCLabels
    Workload <- MCWorkload
    Catalogue <- MCCatalogue
    Symbols <- MCSymbols
    Ordinals = {"0", "28840860"}
    Stamps = {"28840860"}
    PodHashes = {"x2k4z", "q8w7r"}
    SetHashes = {"7d9f6c5b8"}
    Rejected = {"#", "/"}
    Numeral <- MCNumeral
    MaxAttempt = 3
    Hooks = {h1}
    MaxFaults = 1
    Free = Free
    Other = Other
    DeadSession = DeadSession
INVARIANTS TypeOK PodsShareIncident WorkflowIdsDistinct
PROPERTIES AnswersHonest RequestsAnswered FiringSurfaces ResolvedCloses
