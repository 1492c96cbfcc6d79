----------------------------- MODULE ContentTree -----------------------------
(***************************************************************************)
(* The tree of contents of the workspaces: create, rename, move, trash and *)
(* restore.  A request reads the database and evaluates every guard of its *)
(* handler (Check), then flushes the revisions it has cloned and commits   *)
(* (Commit).  No constraint of the database repeats the guards, and the    *)
(* transactions are READ COMMITTED, so that what another request commits   *)
(* between the two steps is not seen.                                      *)
(*                                                                         *)
(* Content types are left out: every content may have children.            *)
(***************************************************************************)
EXTENDS Naturals, FiniteSets

CONSTANTS
    Session,        \* concurrent requests
    Content,        \* ids of contents, bound of the model
    Label,          \* file names; a user may type any of them
    Dated,          \* <<l, d>>: d is l with "-deleted-" or "-archived-" and a date
    Workspace,
    Operation,      \* the handlers that may be called
    None

AllOperations ==
    {"create", "create_file", "rename", "move", "delete", "undelete", "archive", "unarchive"}

ASSUME ContentAssumption == IsFiniteSet(Content) /\ Content # {}
ASSUME OperationAssumption == Operation \subseteq AllOperations

Namespace == {"content", "publication"}

ASSUME DatedAssumption == Dated \subseteq Label \X Label

Node ==
    [parent : Content \cup {None}, workspace : Workspace, namespace : Namespace,
     label : Label, is_deleted : BOOLEAN, is_archived : BOOLEAN]

ASSUME NoneAssumption ==
    None \notin Session \cup Content \cup Label \cup Workspace /\ None \notin Node

VARIABLES
    node,       \* the committed current revision of each content, None before it exists
    writes      \* the uncommitted revisions of each session, None when it has no request

vars == <<node, writes>>

Init ==
    /\ node = [i \in Content |-> None]
    /\ writes = [s \in Session |-> None]
-----------------------------------------------------------------------------
Exists(i) == node[i] # None

Children(P) == {i \in Content : Exists(i) /\ node[i].parent \in P}

\* recursive_children: children of children, trashed ones included.
Descendants(i) ==
    LET closed == {S \in SUBSET Content : Children({i} \cup S) \subseteq S}
    IN  {j \in Content : \A S \in closed : j \in S}

IsActive(i) == ~ node[i].is_deleted /\ ~ node[i].is_archived

\* What a ContentApi sees with show_deleted and show_archived set or not.
Sees(showTrashed, i) == Exists(i) /\ (showTrashed \/ IsActive(i))

\* _is_filename_available: i may bear this label in this folder of this namespace.
NameAvailable(label, workspace, parent, namespace, i, showTrashed) ==
    \A j \in Content \ {i} :
       Sees(showTrashed, j) =>
          \/ node[j].label # label
          \/ node[j].workspace # workspace
          \/ node[j].parent # parent
          \/ node[j].namespace # namespace

\* The namespace _is_filename_available_or_raise takes when its caller names none.
DefaultNamespace == "content"

NameAvailableByDefault(label, i) ==
    NameAvailable(label, node[i].workspace, node[i].parent, DefaultNamespace, i, TRUE)

Idle(s) == writes[s] = None

Unused(i) == ~ Exists(i) /\ \A t \in Session : ~ Idle(t) => i \notin DOMAIN writes[t]

Flush(s, new) == writes' = [writes EXCEPT ![s] = new]

WriteOne(s, i, new) == Flush(s, [j \in {i} |-> new])
-----------------------------------------------------------------------------
(***************************************************************************)
(* create, from create_generic_empty_content, which sees no trashed        *)
(* content, and from create_file, which sees them and then checks the name *)
(* again in update_file_data, in the default namespace.                    *)
(***************************************************************************)
ParentAccepts(parent, workspace, namespace, showTrashed) ==
    parent # None =>
       /\ Sees(showTrashed, parent)
       /\ node[parent].workspace = workspace
       /\ node[parent].namespace = namespace

Create(s, i, parent, workspace, namespace, label, showTrashed) ==
    /\ Idle(s)
    /\ (IF showTrashed THEN "create_file" ELSE "create") \in Operation
    /\ Unused(i)
    /\ ParentAccepts(parent, workspace, namespace, showTrashed)
    /\ NameAvailable(label, workspace, parent, namespace, i, showTrashed)
    /\ showTrashed => NameAvailable(label, workspace, parent, DefaultNamespace, i, TRUE)
    /\ WriteOne(s, i, [parent |-> parent, workspace |-> workspace, namespace |-> namespace,
                       label |-> label, is_deleted |-> FALSE, is_archived |-> FALSE])
    /\ UNCHANGED node

\* update_content, update_file_data: the caller names no namespace.
Rename(s, i, label) ==
    /\ Idle(s)
    /\ "rename" \in Operation
    /\ Exists(i)
    /\ IsActive(i)
    /\ label # node[i].label
    /\ NameAvailableByDefault(label, i)
    /\ WriteOne(s, i, [node[i] EXCEPT !.label = label])
    /\ UNCHANGED node
-----------------------------------------------------------------------------
(***************************************************************************)
(* move_content: the target namespace is always "content".  The children   *)
(* that are not yet in the target workspace and namespace are moved after  *)
(* their parent; below a child that is, nothing is visited.                *)
(***************************************************************************)
\* Mutant: get_children without recursively=True.
NoMoveInDirectChild(i, parent) == parent # i /\ parent \notin Children({i})

NoMoveConflict(i, parent) == parent # i /\ parent \notin Descendants(i)

TargetAccepts(parent, workspace) ==
    parent # None =>
       /\ Exists(parent)
       /\ node[parent].workspace = workspace
       /\ node[parent].namespace = DefaultNamespace

\* Mutant: a child of the target workspace stays in its namespace.
IsElsewhereByWorkspace(i, workspace) == node[i].workspace # workspace

IsElsewhere(i, workspace) ==
    node[i].workspace # workspace \/ node[i].namespace # DefaultNamespace

Moved(i, workspace) ==
    LET follow(S) == {j \in Children(S) : IsElsewhere(j, workspace)}
        closed == {S \in SUBSET Content : {i} \cup follow(S) \subseteq S}
    IN  {j \in Content : \A S \in closed : j \in S}

Move(s, i, parent, workspace) ==
    LET moved == Moved(i, workspace)
        target(j) == IF j = i THEN parent ELSE node[j].parent
    IN
    /\ Idle(s)
    /\ "move" \in Operation
    /\ Exists(i)
    /\ NoMoveConflict(i, parent)
    /\ TargetAccepts(parent, workspace)
    /\ \A j \in moved :
          NameAvailable(node[j].label, workspace, target(j), DefaultNamespace, j, TRUE)
    /\ \A j, k \in moved : j # k /\ target(j) = target(k) => node[j].label # node[k].label
    /\ Flush(s, [j \in moved |-> [node[j] EXCEPT !.parent = target(j), !.workspace = workspace,
                                                 !.namespace = DefaultNamespace]])
    /\ UNCHANGED node
-----------------------------------------------------------------------------
(***************************************************************************)
(* delete and archive give the content a dated label, undelete and         *)
(* unarchive leave it its label and check nothing.                         *)
(***************************************************************************)
\* Mutants: the label keeps no date; the label is computed and not returned.
LabelsWithoutDate(i) == {node[i].label}
LabelsOfNothing(i) == {None}

TrashLabels(i) == {label \in Label : <<node[i].label, label>> \in Dated}

Trash(s, i, op) ==
    /\ Idle(s)
    /\ op \in Operation \cap {"delete", "archive"}
    /\ Exists(i)
    /\ \E label \in TrashLabels(i) :
          /\ NameAvailableByDefault(label, i)
          /\ LET dated == [node[i] EXCEPT !.label = label]
             IN  WriteOne(s, i, IF op = "delete" THEN [dated EXCEPT !.is_deleted = TRUE]
                                                 ELSE [dated EXCEPT !.is_archived = TRUE])
    /\ UNCHANGED node

Restore(s, i, op) ==
    /\ Idle(s)
    /\ op \in Operation \cap {"undelete", "unarchive"}
    /\ Exists(i)
    /\ WriteOne(s, i, IF op = "undelete" THEN [node[i] EXCEPT !.is_deleted = FALSE]
                                         ELSE [node[i] EXCEPT !.is_archived = FALSE])
    /\ UNCHANGED node
-----------------------------------------------------------------------------
Commit(s) ==
    /\ ~ Idle(s)
    /\ node' = [i \in Content |-> IF i \in DOMAIN writes[s] THEN writes[s][i] ELSE node[i]]
    /\ writes' = [writes EXCEPT ![s] = None]

\* An exception, a disconnected database, a killed process: nothing is committed.
Abort(s) ==
    /\ ~ Idle(s)
    /\ writes' = [writes EXCEPT ![s] = None]
    /\ UNCHANGED node

Check(s) ==
    \E i \in Content :
       \/ \E parent \in Content \cup {None}, w \in Workspace, ns \in Namespace, label \in Label,
             showTrashed \in BOOLEAN : Create(s, i, parent, w, ns, label, showTrashed)
       \/ \E label \in Label : Rename(s, i, label)
       \/ \E parent \in Content \cup {None}, w \in Workspace : Move(s, i, parent, w)
       \/ \E op \in Operation : Trash(s, i, op)
       \/ \E op \in Operation : Restore(s, i, op)

Next == \E s \in Session : Check(s) \/ Commit(s) \/ Abort(s)

Spec == Init /\ [][Next]_vars
-----------------------------------------------------------------------------
(***************************************************************************)
(* Every content has the columns of a node and its parent exists.          *)
(***************************************************************************)
TypeOK ==
    /\ node \in [Content -> Node \cup {None}]
    /\ \A i \in Content : Exists(i) /\ node[i].parent # None => Exists(node[i].parent)
    /\ \A s \in Session : ~ Idle(s) =>
          DOMAIN writes[s] \subseteq Content /\ \A i \in DOMAIN writes[s] : writes[s][i] \in Node

SameFolder(i, j) ==
    /\ node[i].parent = node[j].parent
    /\ node[i].workspace = node[j].workspace
    /\ node[i].namespace = node[j].namespace

\* Two files that a folder of contents may not hold.
SameFile(i, j) ==
    /\ Exists(i) /\ Exists(j)
    /\ node[i].namespace = "content"
    /\ SameFolder(i, j)
    /\ node[i].label = node[j].label

(***************************************************************************)
(* "Content filename should be unique in a same folder in database"        *)
(* (_is_filename_available), trashed contents included.  It is not: the    *)
(* creation of a note, a folder or a thread does not see trashed contents, *)
(* and a user may type the name that the trash has given to one.           *)
(***************************************************************************)
FileNamesUnique == \A i, j \in Content : SameFile(i, j) => i = j

IsDated(label) == \E l \in Label : <<l, label>> \in Dated

(***************************************************************************)
(* What is left of it: names are unique, trashed contents included, but    *)
(* for those with a date that the trash gives, through renames, moves of   *)
(* subtrees and restorations.  Not for publications: their renaming looks  *)
(* for the name in the other namespace.                                    *)
(***************************************************************************)
UndatedNamesUnique ==
    \A i, j \in Content : SameFile(i, j) /\ ~ IsDated(node[i].label) => i = j

(***************************************************************************)
(* No content is moved under itself, however deep its new parent is        *)
(* (_check_move_conflicts): following the parents reaches a root, which    *)
(* content_path and the recursive query of the children need to end.       *)
(***************************************************************************)
TreeHasNoCycle == \A i \in Content : Exists(i) => i \notin Descendants(i)

(***************************************************************************)
(* A child is in the workspace and the namespace of its parent, whatever   *)
(* subtrees are moved between workspaces (create and move refuse a parent  *)
(* of another one): the access rights of a content are those of its        *)
(* workspace.                                                              *)
(***************************************************************************)
ChildrenFollowTheirParent ==
    \A i \in Content :
       Exists(i) /\ node[i].parent # None =>
          /\ node[i].workspace = node[node[i].parent].workspace
          /\ node[i].namespace = node[node[i].parent].namespace
=============================================================================
