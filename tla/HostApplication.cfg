CONSTANTS
    t1 = t1
    t2 = t2
    Task <- MCTask
    MaxCalls = 1
    MaxNested = 0
    UseHooks = TRUE
SPECIFICATION HostSpec
CHECK_DEADLOCK FALSE
INVARIANTS
    NoForgottenAction
PROPERTIES
    KeepsImplementingCalls
    OnlyMainThreadHolds
