CONSTANTS
    t1 = t1
    t2 = t2
    Task <- MCTask
    MaxCalls = 2
    MaxNested = 0
    UseHooks = FALSE
SPECIFICATION Spec
SYMMETRY TaskSymmetry
INVARIANTS
    TypeOK
    ServedRight
    NobodyStuck
PROPERTIES
    ImplementsCalls
