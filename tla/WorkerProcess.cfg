\* One request, one stream and one activity; the process really ends.
SPECIFICATION FairSpec
CONSTANTS
    Requests = {r1}
    Streams = {c1}
    Activities = {a1}
INVARIANTS RequestsDrained MigratesAlone
PROPERTIES ShutdownEnds ReadyAgain LockGivenBack StartEnds
CHECK_DEADLOCK FALSE
