\* Rules of up to ten chunks, the limit of the program.
CONSTANTS
    NullArg = NullArg
    Empty = Empty
    BadRegexp = BadRegexp
    RandChunk = RandChunk
    DigitsChunk = DigitsChunk
    VarChunk = VarChunk
    Other = other
    chunk1 = chunk1
    chunk2 = chunk2
    Chunks <- AllChunks
    Queries <- TenRules
    REGEXP_SPLIT_MAX_TOKENS = 10
SPECIFICATION RegexpSpec
INVARIANTS ChunksToLimitTried
CHECK_DEADLOCK FALSE
