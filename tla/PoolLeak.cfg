CONSTANTS
    t1 = t1
    t2 = t2
    c1 = c1
    c2 = c2
    w1 = w1
    w2 = w2
    Task <- MCTask
    Client <- MCClient
    Worker <- MCWorker
    NoJob = NoJob
    MaxAdds = 1
    HasHandler = TRUE
SPECIFICATION Spec
INVARIANT TasksMeanWork
