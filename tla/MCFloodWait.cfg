\* Two users, two administrators' requests at a time, a wait of two minutes.
CONSTANTS
    TgUsers = {u1, u2}
    Requests = {r1, r2}
    Wait = 2
    None = None
SPECIFICATION Spec
INVARIANTS
    TypeOK
    OncePerWait
    MarkEndsWithWait
PROPERTIES
    WaitEnds
