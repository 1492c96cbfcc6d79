SPECIFICATION Spec
CONSTANTS
    Content = {A, B}
    PageSize = 1
    ChildKind = {"comment", "file"}
    TranslationEnabled = TRUE
    Failures = {Refused, Lost}
    Refused = Refused
    Lost = Lost
    MaxItem = 3
    MaxText = 1
    MaxTlm = 1
    MaxCall = 2
    None = None
INVARIANTS TypeOK UndisturbedAreRight NothingHiddenAtTheEnd LoadingIsUnderWay
CHECK_DEADLOCK FALSE
SYMMETRY Symmetry
