\* A mapping that failed may be move-assigned over.
CONSTANTS
    Null = Null
    MaxFd = 1
    MaxOpens = 2
    Data = {d1, d2, d3}
    Handles = {h1, h2}
    Maps = {m1}
    Threads = {th1, th2}
    SharedWraps = FALSE
    FailedRemap = TRUE
SPECIFICATION Spec
PROPERTY ClosedOnlyWhenUnused
CHECK_DEADLOCK FALSE
