\* Two threads, a file of three bytes, three writes, four calls, one failure.
CONSTANTS
    th1 = th1
    th2 = th2
    None = None
    Threads <- MCThreads
    Size = 3
    MaxLen = 2
    MaxWrites = 3
    MaxCalls = 4
    MaxErrors = 1
    SharedCursor = FALSE
    CursorOverQueue = FALSE
SPECIFICATION Spec
SYMMETRY Symmetry
INVARIANTS
    TypeOK
    ReadsLatest
    SettledFile
    TransactionAtomic
    MutexHeldByRunner
PROPERTIES
    GrowthCutsOnlyNewer
CHECK_DEADLOCK FALSE
