\* Sequential handlers; the smallest instance in which an account is suspended
\* and re-enabled while one of its sessions exists.
CONSTANTS
    Names = {a, b}
    Browsers = {x, y}
    PwHashes = {p1, p2}
    Creds = {k1}
    Labels = {l1}
    Profiles = {f1}
    MaxEpoch = 1
    None = None
SPECIFICATION Spec
PROPERTIES
    EnableRevivesNoSession
