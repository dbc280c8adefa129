\* Calls of two threads at any time.
CONSTANTS
    NoCaller = NoCaller
    Callers = {th1, th2}
    Lengths = {1, 2, 3}
    NodeSize = 2
    Align = 2
    MaxFileEnd = 12
    MaxSplits = 2
    Serial = FALSE
SPECIFICATION SpaceSpec
INVARIANT NodesIntact
CHECK_DEADLOCK FALSE
