\* Two requests in flight about two devices, a limit of two messages in two
\* ticks, a tunnel that changes twice, a restart.
CONSTANTS
    Tokens = {t1, t2}
    Jobs = {j1, j2}
    Limit = 2
    Minute = 2
    MaxNow = 2
    MaxChanges = 2
    MaxRestarts = 1
    Torn = Torn
    None = None
SPECIFICATION Spec
SYMMETRY Symmetry
CONSTRAINT Concerns
INVARIANTS
    TypeOK
    FileHoldsAnswers
    RateLimitHolds
    AnnouncedOnlyChanges
