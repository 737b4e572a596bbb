\* The same calls: the space behind aset.
CONSTANTS
    Tags = {1, 2}
    Null = Null
    Arrays <- ShortArrays
    Modes <- AllModes
    Ops <- AllOps
    ChunkLimit = 8192
SPECIFICATION TagsSpec
INVARIANTS AsetFits
CHECK_DEADLOCK FALSE
