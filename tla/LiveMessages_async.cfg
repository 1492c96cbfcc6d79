\* Asynchronous publishing without new members; processes may die.
SPECIFICATION FairSpec
CONSTANTS
    Request = {r1, r2}
    Worker = {w1, w2}
    User = {boss, ada, bob}
    Administrator = {boss}
    Manager = boss
    InitialMember = {boss, ada, bob}
    Operation = {"content", "file", "leave"}
    Mode = "async"
    CrashAllowed = TRUE
    MaxEvent = 3
    None = None
PROPERTIES EventsReachMembers
CHECK_DEADLOCK FALSE
