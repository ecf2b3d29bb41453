CONSTANTS
    t1 = t1
    t2 = t2
    Task <- MCTask
    MaxCalls = 1
    MaxNested = 1
    UseHooks = TRUE
SPECIFICATION FairSpec
PROPERTIES
    ImplementsFairCalls
    EveryCallReturns
