\* The arguments in fcinfo after a call.
CONSTANTS
    NullArg = NullArg
    Empty = Empty
    BadRegexp = BadRegexp
    RandChunk = RandChunk
    DigitsChunk = DigitsChunk
    VarChunk = VarChunk
    Other = other
    chunk1 = chunk1
    chunk2 = chunk2
    Chunks <- AllChunks
    Queries <- SmallQueries
    REGEXP_SPLIT_MAX_TOKENS = 4
SPECIFICATION RegexpSpec
INVARIANTS ArgumentsRestored
CHECK_DEADLOCK FALSE
