\* Two Telegram users, two clients, two requests at a time.
CONSTANTS
    TgUsers = {u1, u2}
    ClientIDs = {c1, c2}
    Requests = {r1, r2}
    Records <- SomeRecords
    None = None
SPECIFICATION Spec
SYMMETRY Symmetry
CONSTRAINT ChangesApart
INVARIANTS
    TypeOK
    IndexMatchesStore
    DeliveryComplete
    OnlyOwnClients
