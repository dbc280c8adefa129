\* Two workers, two client threads, two tasks of which one throws.
CONSTANTS
    NoTask = NoTask
    NoFn = NoFn
    MaxThreads = 2
    Clients = {c1, c2}
    Tasks = {t1, t2}
    Throwing = {t2}
    MaxEpoch = 2
    MaxSpurious = 1
SPECIFICATION FairSpec
INVARIANTS
    TypeOK
    SlotContextAlive
    BarrierComplete
    ShutdownDrains
PROPERTIES
    ImplementsAbs
    AcceptedTaskFinishes
    WaitReturns
    ShutdownReturns
CHECK_DEADLOCK FALSE
