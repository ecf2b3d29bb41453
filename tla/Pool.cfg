CONSTANTS
    t1 = t1
    t2 = t2
    c1 = c1
    c2 = c2
    w1 = w1
    w2 = w2
    Task <- MCTask
    Client <- MCOneClient
    Worker <- MCWorker
    NoJob = NoJob
    MaxAdds = 2
    HasHandler = TRUE
SPECIFICATION FairSpec
INVARIANTS
    TypeOK
    JobsEndRight
    TasksTracked
PROPERTIES
    ImplementsFairThreadPool
    ShutdownReturns
