CONSTANTS
    k1 = k1
    k2 = k2
    k3 = k3
    Check <- MCCheck
    NoCheck = NoCheck
    MaxCancels = 1
    ListenerOnMain = FALSE
    FinishedOnMain = TRUE
    ListenerRaises = TRUE
SPECIFICATION FairSpec
CHECK_DEADLOCK FALSE
INVARIANTS
    TypeOK
    ToldInOrder
    FinishedLast
    CancelStopsPending
PROPERTIES
    SuiteGoesOn
