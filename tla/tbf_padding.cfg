\* As tbf_limit, with one bucket and two contents of the key padding.
CONSTANTS
    Backends = {b1, b2}
    NoBackend = NoBackend
    Buckets = {x}
    Paddings = {p1, p2}
    Rates = {0, 3}
    NullArg = NullArg
    RateUnit = 2
    TicksPerSec = 2
    MaxEntries = 2
    SizeMod = 16
    Wraps = FALSE
    MaxClock = 4
    MaxGrants = 5
SYMMETRY BackendSymmetry
SPECIFICATION Spec
INVARIANTS BucketConformance
