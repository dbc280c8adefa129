\* One parallelFor on a pool of two threads, under the fair scheduler.
CONSTANTS
    NoTask = NoTask
    NoFn = NoFn
    MaxThreads = 2
    Clients = {c1, c2}
    Tasks = {t1, t2}
    Throwing = {t2}
    MaxEpoch = 1
    MaxSpurious = 0
SPECIFICATION FairSpec
PROPERTIES
    ParallelForReturns
CHECK_DEADLOCK FALSE
