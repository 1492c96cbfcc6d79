\* Synchronous publishing, one request at a time.
SPECIFICATION Spec
CONSTANTS
    Request = {r1}
    Worker = {w1}
    User = {boss, ada, bob}
    Administrator = {boss}
    Manager = boss
    InitialMember = {boss, ada}
    Operation = {"content", "file", "join", "leave"}
    Mode = "sync"
    CrashAllowed = FALSE
    MaxEvent = 5
    None = None
INVARIANTS TypeOK ContentIsForMembers HistoryIsComplete NoIntegrityError
CHECK_DEADLOCK FALSE
