\* Two requests in flight, two clients; the networks of the server change.
CONSTANTS
    Width = 3
    Ids = {c1, c2}
    Keys = {k1, k2}
    Jobs = {j1, j2}
    Servers <- MCServers
    Ranges <- MCRanges
    Requests <- MCRequests
    None = None
    NoAddr = NoAddr
SPECIFICATION Spec
CONSTRAINT Bound
SYMMETRY Symmetry
INVARIANTS
    TypeOK
    AddressSharedOnlyByOverlap
    KeySharedOnlyByOverlap
    KeyPairsMatch
    SuggestionsAccepted
