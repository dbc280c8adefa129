\* Every part of the library apart from pool, handles and B-tree, one at a time.
CONSTANTS
    alpha = alpha
    beta = beta
    Threads = {t1, t2}
    Handles = {h1, h2, h3}
    Blocks = {b1, b2}
    NoDetails = NoDetails
    WordBlocks = 2
    Addresses = {a1, a2}
    Sizes = {40, 48}
    Counts = {3, 4}
    MaxBlocks = 8
    Users = {u1, u2}
    Pointers <- MCMaps
    MaxHeld = 2
    NoBlock = NoBlock
    ObjectSize = 3
    Factor = 5
    Capacities = {3, 5, 8}
    Requests = {1, 2, 7}
    MaxPools = 4
    MaxGiven = 5
    MaxAllocators = 2
    HeapAddresses = {1, 2, 3}
    Bytes = {0, 1, 17}
    MaxTotal = 72
    HashOf <- MCHashOf
    Hole = Hole
    MapKeys = {0, 1, 3}
    MapValues = {0, 1}
    Maps <- MCMaps
    FirstCapacity = 2
    MaxCapacity = 8
    SetKeys = {0, 1, 3}
    Sets <- MCMaps
    FirstSetCapacity = 1
    MaxSetCapacity = 6
    Lists <- MCMaps
    Items = {v, w}
    MaxNodes = 3
    NoCell = NoCell
    Queues <- MCMaps
    QueueItems = {v, w}
    MaxQueue = 2
    NoNode = NoNode
    ArrayLists <- MCMaps
    Objects = {v}
    Default = Default
    Raw = Raw
    FirstAllocated = 2
    Portion = 2
    MaxAllocated = 4
    SortedSets <- MCMaps
    Numbers = {1, 2, 3, 4, 5}
    PQCapacity = 3
    Priorities = {1, 2, 3}
    Highest = 9
    Room = 3
    Ranks = {1, 2, 3}
    Marks = {v, w}
    Widths = {2, 3, 4}
    MaxItems = 40
    DiskKeys <- MCKeys
    DiskValues = {1}
    LeafRoom = 2
    GrowthRoom = 1
    MaxEnd = 2280
    Callers = {th1, th2}
    NoCaller = NoCaller
    Lengths = {1, 3}
    NodeSize = 2
    Align = 2
    MaxFileEnd = 12
    MaxSplits = 2
    Serial = TRUE
    W = 2
    ByteBits = 2
    N = 3
    Seconds = {0, 1, 2, 3, 5, 7, 8, 15, 16, 17, 31, 32, 33, 40, 48, 62, 63}
    Quarters <- MCQuarters
    WideExp = 4
    WideMan = 5
    HalfExp = 3
    HalfMan = 2
    BrainMan = 2
    MaxLanes = 67
    Builds = {"AVX512FP16", "AVX512", "AVX2", "F16C", "NEON_FP16", "NEON", "portable"}
    AccumulatorBits = 12
    Arrays <- MCMaps
    Views = {view1}
    Buffers = {m1, m2}
    External = External
    NoBuffer = NoBuffer
    Shapes <- MCShapes
    MaxElements = 4
    MaxCalls = 4
    Nibbles = 4
    Bits = 3
    Block = 2
    MaxPacked = 10
    Seeds = {0, 1, 2, 3, 4, 5, 6, 7}
    ItemValues = {0, 1}
    NaN = NaN
    VectorLanes = 2
    Chunk = 3
    WordLanes = 2
    MaxLength = 7
    PoolSizes = {0, 1, 2}
    Clients <- MCMaps
    Products <- MCProducts
    Nobody = Nobody
    TileRows = 2
    PanelRows = 4
    PanelDepth = {4, 8}
    RowCounts = {1, 3, 5}
    ColumnCounts = {1, 2, 3, 4, 6, 8}
    MaxDepth = 9
    AxisLengths = {0, 1, 2}
SPECIFICATION LibrarySpec
SYMMETRY Interchangeable
INVARIANTS
    LibraryTypeOK
    CountsExact
    AllocatorsRight
    ContainersRight
    SequencesRight
    TreesRight
    RegionsDisjoint
    InsideFile
    NumbersAndTypesRight
    ArraysRight
    StripsRight
PROPERTIES
    WritesPrivate
CHECK_DEADLOCK FALSE
