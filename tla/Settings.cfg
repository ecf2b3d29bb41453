CONSTANTS
    p1 = p1
    p2 = p2
    film = film
    spot = spot
    ack = ack
    Process <- MCProcess
    Key <- MCKey
    FileOf <- MCFileOf
    MaxPuts = 4
SPECIFICATION Spec
SYMMETRY SettingsSymmetry
INVARIANTS
    TypeOK
    BrokenHasReason
    NothingLost
CHECK_DEADLOCK FALSE
