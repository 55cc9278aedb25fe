\* One job at a time, edits in between; three saves.
CONSTANTS
    Jobs = {j1}
    MaxEdits = 3
    None = None
SPECIFICATION Spec

INVARIANTS
    TypeOK
    PendingNotOlder
    StoppedStaysStopped
    SuccessMeansApplied
PROPERTIES
    CanonicalUntouchedWhileStopped
