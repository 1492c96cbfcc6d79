SPECIFICATION Spec
CONSTANTS
    NumNotes = 1
    EmptyNotes = {}
    MaxRevision = 3
    MaxText = 2
    MaxTlm = 1
    Slot = {s1, s2}
    None = None
PROPERTY RefreshBringsCurrent
CHECK_DEADLOCK FALSE
