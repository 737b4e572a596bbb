\* As tbf_limit, with the conversion to Size that wraps (x86-64).
CONSTANTS
    Backends = {b1, b2}
    NoBackend = NoBackend
    Buckets = {x}
    Paddings = {p1}
    Rates = {0, 3}
    NullArg = NullArg
    RateUnit = 2
    TicksPerSec = 2
    MaxEntries = 1
    SizeMod = 16
    Wraps = TRUE
    MaxClock = 4
    MaxGrants = 5
SPECIFICATION Spec
PROPERTIES AddedByTimeDiff
