CONSTANTS
    Attempts = 2
    Redirections = 1
    MaxSubmissions = 2
    MaxRequests = 5
SPECIFICATION FairSpec
INVARIANTS
    TypeOK
    KnowsItsJobs
    RepeatsHaveReason
PROPERTIES
    CallEnds
