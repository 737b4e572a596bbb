\* One or two endpoints; late, repeated and reordered replies: whose ends a call?
CONSTANTS
    MAX_ENDPOINTS = 2
    a = a
    b = b
    c = c
    Uris = {a, b, c}
    ParsableUris = {a, b, c}
    HostUris = {a, b, c}
    NullUri = NullUri
    Inputs <- TwoThenOne
    TimeoutArgs <- Timed
    ID_MOD = 16
    RandValues = {1}
    DataSizes = {3, 2042}
    Replies <- AnswersAndErrors
    MaxIds = 3
    MaxReplies = 2
    MaxInbox = 2
SPECIFICATION Spec
INVARIANTS ReplyIsOurs
