\* One peer, four clock ticks over a ring of two periods, the sampling
\* goroutine and one warm-up, both savers.
CONSTANTS
    Peers = {p1}
    Warmers = {w1}
    Ticker = ticker
    Savers = {goroutine, signal}
    BucketMs = 1
    MaxBaseBuckets = 2
    MaxNow = 4
    MaxBytes = 1
    None = None
SPECIFICATION Spec
SYMMETRY Symmetry
CONSTRAINT SavesApart
INVARIANTS
    TypeOK
    BookedOnce
    PageShowsBooked
PROPERTIES
    SavesMoveForward
