\* A leaf that a split moved gets two children and falls over the leaf behind it.
CONSTANTS
    DiskKeys <- MCKeys
    DiskValues = {1}
    LeafRoom = 4
    GrowthRoom = 2
    MaxEnd = 2400
SPECIFICATION DiskSpec
INVARIANT FindsWhatWasInserted
CHECK_DEADLOCK FALSE
