CONSTANTS
    a1 = a1
    a2 = a2
    c1 = c1
    c2 = c2
    Task <- MCTask
    NoTask = NoTask
    Caller <- MCCaller
    HasSuccess <- MCWithCallbacks
    HasError <- MCWithCallbacks
SPECIFICATION FairSpec
INVARIANTS
    TypeOK
    TrackedUntilRun
    Reported
PROPERTIES
    InterruptsAll
    AddedEnds
