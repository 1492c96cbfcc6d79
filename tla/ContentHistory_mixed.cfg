\* Every operation, on SQLite with its lock files: one writer at a time.
CONSTANTS
    Session = {s1, s2}
    NumContents = 1
    Operation = {"patch", "update_file", "delete", "undelete", "set_status", "archive", "unarchive"}
    Dialect = "sqlite"
    FilelockEnabled = TRUE
    MaxRevision = 5
    None = None
SPECIFICATION FairSpec
INVARIANTS TypeOK OnePatchPerBase PatchIsOfItsBase CurrentIsNewest
PROPERTIES LocksAreReleased
CHECK_DEADLOCK FALSE
