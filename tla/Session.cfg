CONSTANTS
    t1 = t1
    t2 = t2
    Thread <- MCThread
    Attempts = 2
    LoginAttempts = 2
SPECIFICATION FairSpec
INVARIANTS
    TypeOK
    AuthErrorJustified
    LoginStaysKnown
PROPERTIES
    EveryCallEnds
