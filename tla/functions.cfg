\* One call of each function that keeps nothing between calls.
CONSTANTS
    \* tag_compare, tag_action: every array of up to three elements
    Tags = {1, 2, 3}
    Null = Null
    Arrays <- ShortArrays
    Modes <- AllModes
    Ops <- AllOps
    ChunkLimit = 8192
    \* parsers: lengths and bytes on and around the boundaries of the header checks
    Lens = {0, 3, 4, 5, 6, 7, 8, 9, 10, 11, 263, 2048}
    Bytes = {0, 1, 2, 3, 4, 255}
    TopBytes = {0, 1, 126}
    Texts = {0, 1, 2, 15, 127, 128, 255}
    JsonTexts = {1, 2, 255, 256, 257, 1000, 2039, 2040}
    Sizes = {11}
    \* rank_dns_srv: partitions up to and beyond the context
    SrvWeights <- SmallWeights
    NoWeight = NoWeight
    Partitions = {1, 2, 3, 4, 5}
    CTX_MAX_ROWS = 3
    CtxSlots = 4
    INT_MAX = 6
    RAND_MAX = 6
    \* replace_rand: texts of up to four fragments
    RAND_START_1 = char_r
    RAND_START_2 = open_bracket
    RAND_END = close_bracket
    Other = other
    Chars <- TextChars
    Numbers <- TextNumbers
    RandomDigit = random_digit
    RandTexts <- FragmentedTexts
    RAND_MAX_LEN = 3
    CACHE_SIZE_INC_START = 1
    CACHE_SIZE_INC_SCALE = 2
    CACHE_SIZE_INC_MAX = 2
    \* process_templates: two variables, texts of up to five pieces
    Open = opening
    Close = closing
    Pieces <- TemplatePieces
    Names = {var1, var2}
    NoText = NoText
    NotObject = NotObject
    NonScalar = NonScalar
    TemplateCalls <- SmallTemplateCalls
    \* regexp_replace_rand: up to four chunks, one more than is tried
    NullArg = NullArg
    Empty = Empty
    BadRegexp = BadRegexp
    RandChunk = RandChunk
    DigitsChunk = DigitsChunk
    VarChunk = VarChunk
    chunk1 = chunk1
    chunk2 = chunk2
    Chunks <- AllChunks
    Queries <- SmallQueries
    REGEXP_SPLIT_MAX_TOKENS = 4
    \* endpoints: parts up to, at and beyond their sizes
    Colon = colon
    Slash = slash
    PortNumbers = {7, 9}
    Hosts = {}
    NoPart = NoPart
    UriChars <- AddrChars
    UriParts <- SmallUriParts
    SOCKADDR_SIZE = 11
    PROTOCOL_SIZE = 1
    HOST_SIZE = 2
SPECIFICATION Spec
INVARIANTS
    VerdictMatchesSets ResultIsSetOperation OrderKept RsetFits
    ParseInBounds RoundTrip
    RanksComplete
    PlaceholdersApart BufferFilled ReplacedInPlace NoneMissed
    TemplatesRendered NoPlaceholderLeft
    FirstMatchWins ElementsIndependent SubstitutionUndone
    AddressTakenApart
PROPERTIES RowsDrawnByWeight Returns
CHECK_DEADLOCK FALSE
