\* One job at a time; an edit, then a save of the settings.
CONSTANTS
    Jobs = {j1}
    MaxEdits = 2
    None = None
SPECIFICATION Spec

INVARIANTS
    ChangesDetected
