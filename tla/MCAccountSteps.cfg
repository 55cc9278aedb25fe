\* One handler at a time, cut short anywhere or ended by a failing write.
CONSTANTS
    Names = {a, b}
    Browsers = {x, y}
    PwHashes = {p1, p2}
    Creds = {k1}
    Labels = {l1}
    Profiles = {f1}
    MaxEpoch = 1
    Jobs = {j1}
    None = None
SPECIFICATION StepsSpec
SYMMETRY Symmetry
CONSTRAINT FewTroubles
INVARIANTS
    StepsTypeOK
    IdleCacheMatchesStore
PROPERTIES
    RefinesAccounts
