\* Two calls share the provider; ticks of 50 s, the code's buffer of 150 s and activity
\* timeout of 300 s, a fetch of one tick; tokens of 150 s and of 300 s.
SPECIFICATION FairSpec
CONSTANTS
    Calls = {c1, c2}
    Free = Free
    Lifetimes = {3, 6}
    Buffer = 3
    FetchTimeout = 1
    AgentTimeout = 6
    MaxTime = 11
INVARIANTS BufferCovers
PROPERTIES TokenLiveAtHandOut TokenAnswered
