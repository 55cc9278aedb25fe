\* Two administrators, each logged in, send one request each.
CONSTANTS
    Names = {a, b}
    Browsers = {x, y}
    PwHashes = {p1, p2}
    Creds = {k1}
    Labels = {l1}
    Profiles = {f1}
    MaxEpoch = 1
    Jobs = {j1, j2}
    None = None
SPECIFICATION RaceSpec
INVARIANTS
    ActiveAdminKept
