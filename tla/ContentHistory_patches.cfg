\* Patches are the only writers, on PostgreSQL: the history is a chain.
CONSTANTS
    Session = {s1, s2, s3}
    NumContents = 2
    Operation = {"patch"}
    Dialect = "postgresql"
    FilelockEnabled = TRUE
    MaxRevision = 6
    None = None
SYMMETRY SessionPermutations
SPECIFICATION Spec
PROPERTIES PatchReplacesItsBase HistoryIsAChain
CHECK_DEADLOCK FALSE
