\* A thread may seek while another one is in a transaction.
CONSTANTS
    th1 = th1
    th2 = th2
    None = None
    Threads <- MCThreads
    Size = 3
    MaxLen = 2
    MaxWrites = 3
    MaxCalls = 4
    MaxErrors = 1
    SharedCursor = TRUE
    CursorOverQueue = FALSE
SPECIFICATION Spec
INVARIANT TransactionAtomic
CHECK_DEADLOCK FALSE
