\* One rate of 1.5 tokens a second (burst 3), half-second ticks, a table of one entry.
CONSTANTS
    Backends = {b1, b2}
    NoBackend = NoBackend
    Buckets = {x, y}
    Paddings = {p1}
    Rates = {0, 3}
    NullArg = NullArg
    RateUnit = 2
    TicksPerSec = 2
    MaxEntries = 1
    SizeMod = 16
    Wraps = FALSE
    MaxClock = 4
    MaxGrants = 5
SPECIFICATION FairSpec
INVARIANTS TypeOK LockHeldByHolder Conformance TokensBounded NoStarvation
PROPERTIES LockReleased AddedByTimeDiff
