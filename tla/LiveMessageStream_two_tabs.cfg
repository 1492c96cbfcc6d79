\* Two tabs; the leader may be closed and the other one takes over.
SPECIFICATION Spec
CONSTANTS
    Tab = {t1, t2}
    MaxEvent = 4
    MaxBroadcast = 2
    None = None
SYMMETRY Symmetry
INVARIANTS TypeOK DispatchedOnce NothingMissedIsForgotten CaughtUp
CHECK_DEADLOCK FALSE
