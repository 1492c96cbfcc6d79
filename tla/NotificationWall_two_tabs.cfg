SPECIFICATION WallSpec
CONSTANTS
    A = A
    B = B
    Content = {A, B}
    OtherSpace = {B}
    L = L
    O = O
    Tab = {L, O}
    Leader = L
    PageSize = 2
    Window = 3
    Existing <- MCExisting
    MaxMessage = 3
    MaxList = 4
    MaxCall = 2
    MaxMark = 1
    None = None
INVARIANTS NothingMissing WallIsFilled MarksReachEveryTab
CHECK_DEADLOCK FALSE
