\* Requests one after the other, every kind of change of the tree.
CONSTANTS
    Session = {s1}
    Content = {c1, c2, c3}
    Name = {n1}
    Date = {d1, d2}
    Label <- Labels
    Dated <- DatedLabels
    Workspace = {w1, w2}
    Operation = {"create", "create_file", "rename", "move", "delete", "undelete", "archive", "unarchive"}
    None = None
SYMMETRY Symmetry
SPECIFICATION Spec
INVARIANTS TypeOK UndatedNamesUnique TreeHasNoCycle ChildrenFollowTheirParent
CHECK_DEADLOCK FALSE
