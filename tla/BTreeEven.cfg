\* Nodes of an even number of keys.
CONSTANTS
    N = 4
    MaxKeys = 5
    MaxNodes = 12
SPECIFICATION Spec
INVARIANT NeverCorrupt
