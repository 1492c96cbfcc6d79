SPECIFICATION Spec
CONSTANTS
    NumNotes = 2
    EmptyNotes = {2}
    MaxRevision = 4
    MaxText = 3
    MaxTlm = 1
    Slot = {s1, s2}
    None = None
SYMMETRY Symmetry
INVARIANTS TypeOK NothingTypedIsLost EditorHoldsWhatWasTyped ShownOrNoticed
CHECK_DEADLOCK FALSE
