\* Two threads, two handles, one mapping, two descriptors, two files.
CONSTANTS
    Null = Null
    MaxFd = 1
    MaxOpens = 2
    Data = {d1, d2, d3}
    Handles = {h1, h2}
    Maps = {m1}
    Threads = {th1, th2}
    SharedWraps = FALSE
    FailedRemap = FALSE
SPECIFICATION FairSpec
INVARIANTS
    TypeOK
    HandleMeansItsFile
    RefsExact
    PointersAlive
PROPERTIES
    ClosedOnlyWhenUnused
    LastDropCloses
    OpenCompletes
CHECK_DEADLOCK FALSE
