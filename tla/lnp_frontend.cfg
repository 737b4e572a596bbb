\* One endpoint, buffers of two bytes, two requests; replies may be late.
CONSTANTS
    MAX_ENDPOINTS = 1
    a = a
    Uris = {a}
    ParsableUris = {a}
    HostUris = {a}
    NullUri = NullUri
    Inputs <- One
    TimeoutArgs <- Timed
    ID_MOD = 16
    RandValues = {1}
    DataSizes = {1, 3}
    Replies <- Answers
    MaxIds = 2
    MaxReplies = 2
    MaxInbox = 1
    EC_KEY_MAX_LENGTH = 2
    EC_RESPONSE_MAX_LENGTH = 2
    KeyTexts <- Numbers
    ResponseTexts <- LongAndEmpty
    ErrorTexts <- Short
SPECIFICATION FrontSpec
INVARIANTS AnswerIsOurs AnswerIsThisCalls
PROPERTIES LookupService
