\* Three endpoints or none, every kind of timeout; late and lost replies across calls.
CONSTANTS
    MAX_ENDPOINTS = 3
    a = a
    b = b
    c = c
    Uris = {a, b, c}
    ParsableUris = {a, b, c}
    HostUris = {a, b, c}
    NullUri = NullUri
    Inputs <- ThreeOrNone
    TimeoutArgs <- TimedOrNot
    ID_MOD = 16
    RandValues = {1}
    DataSizes = {3, 2042}
    Replies <- AnswersAndErrors
    MaxIds = 5
    MaxReplies = 1
    MaxInbox = 1
SPECIFICATION FairSpec
INVARIANTS TypeOK EndpointsUsable AnswerIsOurs ErrorMatchesOutcome FailoverOnce FullRound
PROPERTIES CallEnds
