SPECIFICATION Spec
CONSTANTS
    A = A
    B = B
    S = S
    T = T
    Content = {A, B}
    Space = {S, T}
    SpaceOf <- MCSpaceOf
    Elsewhere = Elsewhere
    Kinds <- MCKinds
    PageSize = 1
    BatchCount = 1
    LoadCount = 1
    Failing = TRUE
    MaxMessage = 2
    MaxVisit = 2
    MaxCall = 3
    None = None
INVARIANTS TypeOK NoDuplicate FeedIsRight FlagIsHeld
PROPERTY LoadsBringTheirSpace
CHECK_DEADLOCK FALSE
SYMMETRY Symmetry
