\* Requests one after the other, on an open workspace and one on request.
CONSTANTS
    Session = {s1}
    User = {u1, u2}
    Workspace = {w1, w2}
    OpenSpace = {w1}
    OnRequestSpace = {w2}
    RoleLevel = {2, 8}
    Profile = {1, 2, 3, 4}
    DefaultRole = 2
    MaxGuestSpaces = 1
    Operation = {"add_member", "join", "submit", "resubmit", "accept", "reject", "update_role", "remove_member", "set_profile", "delete_space", "undelete_space"}
    None = None
SYMMETRY Symmetry
SPECIFICATION Spec
INVARIANTS TypeOK SpaceHasManager GuestsAreContributors
PROPERTIES GuestSpacesAreLimited
CHECK_DEADLOCK FALSE
