\* Three names, two browsers, two password changes or new accounts, one passkey.
CONSTANTS
    Names = {a, b, c}
    Browsers = {x, y}
    PwHashes = {p1, p2, p3}
    Creds = {k1}
    Labels = {l1, l2}
    Profiles = {f1}
    MaxEpoch = 1
    None = None
SPECIFICATION Spec
SYMMETRY Symmetry
INVARIANTS
    TypeOK
    IInv
    ActiveAdminRemains
    SessionMatchesAccount
    RevokedStaysOut
PROPERTIES
    ChangeSignsOutOthers
