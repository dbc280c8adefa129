\* Operands of which one may be a batch of one matrix or of two.
CONSTANTS
    AxisLengths = {1, 2}
    Arrays = {alpha}
    Views = {view1}
    Buffers = {m1}
    External = External
    NoBuffer = NoBuffer
    Shapes = {}
    MaxElements = 4
    MaxCalls = 4
SPECIFICATION OperandsSpec
INVARIANT BatchKeepsItsAxis
CHECK_DEADLOCK FALSE
