--------------------------- MODULE ContentTreeProofs ---------------------------
(***************************************************************************)
(* Proofs about ContentTree: its types for any number of requests at once, *)
(* and, for requests one after the other, names that are unique, a tree    *)
(* without cycles and children in the space of their parent.               *)
(***************************************************************************)
EXTENDS ContentTree, TLAPS

(* What a request writes has a parent that exists.                         *)
WritesHaveParents ==
    /\ writes = [s \in Session |-> writes[s]]
    /\ \A s \in Session : ~ Idle(s) =>
          \A i \in DOMAIN writes[s] :
             writes[s][i].parent # None => Exists(writes[s][i].parent)

TypeInv == TypeOK /\ WritesHaveParents

-----------------------------------------------------------------------------
LEMMA InitType == Init => TypeInv
BY NoneAssumption DEF Init, TypeInv, TypeOK, WritesHaveParents, Exists, Idle

(* What is moved is the least set with the content and the children that   *)
(* are elsewhere of what is moved.                                         *)
Elsewhere(S, w) == {j \in Children(S) : IsElsewhere(j, w)}

LEMMA MovedIsLeast ==
    ASSUME NEW i, NEW w, NEW S \in SUBSET Content, i \in S, Elsewhere(S, w) \subseteq S
    PROVE  Moved(i, w) \subseteq S
<1>1. ASSUME NEW j \in Moved(i, w) PROVE j \in S
      <2>1. {i} \cup {k \in Children(S) : IsElsewhere(k, w)} \subseteq S
            BY DEF Elsewhere
      <2>2. QED BY <2>1 DEF Moved
<1>2. QED BY <1>1

LEMMA MovedIsClosed ==
    ASSUME NEW i \in Content, NEW w
    PROVE  i \in Moved(i, w) /\ Elsewhere(Moved(i, w), w) \subseteq Moved(i, w)
<1>1. i \in Moved(i, w)
      BY DEF Moved
<1>2. ASSUME NEW j \in Elsewhere(Moved(i, w), w),
             NEW S \in SUBSET Content, i \in S, Elsewhere(S, w) \subseteq S
      PROVE  j \in S
      <2>1. Moved(i, w) \subseteq S
            BY <1>2, MovedIsLeast
      <2>2. j \in Elsewhere(S, w)
            BY <1>2, <2>1 DEF Elsewhere, Children
      <2>3. QED BY <1>2, <2>2
<1>3. ASSUME NEW j \in Elsewhere(Moved(i, w), w)
      PROVE  j \in Moved(i, w)
      <2>1. j \in Content
            BY DEF Elsewhere, Children
      <2>2. \A S \in SUBSET Content :
               {i} \cup {k \in Children(S) : IsElsewhere(k, w)} \subseteq S => j \in S
            BY <1>2 DEF Elsewhere
      <2>3. QED BY <2>1, <2>2 DEF Moved
<1>4. QED BY <1>1, <1>3

LEMMA MovedExist ==
    ASSUME NEW i \in Content, NEW w, Exists(i)
    PROVE  \A j \in Moved(i, w) : j \in Content /\ Exists(j)
<1> DEFINE S == {j \in Content : Exists(j)}
<1>1. S \in SUBSET Content /\ i \in S /\ Elsewhere(S, w) \subseteq S
      BY DEF Elsewhere, Children
<1>2. Moved(i, w) \subseteq S
      BY <1>1, MovedIsLeast
<1>3. QED BY <1>2

(* A request that has checked writes nodes whose parents exist.            *)
LEMMA WritingKeepsType ==
    ASSUME TypeInv, NEW s \in Session, NEW new, Flush(s, new), UNCHANGED node,
           DOMAIN new \subseteq Content,
           \A i \in DOMAIN new : /\ new[i] \in Node
                                 /\ new[i].parent # None => Exists(new[i].parent)
    PROVE  TypeInv'
<1>1. /\ writes' = [t \in Session |-> writes'[t]] /\ writes'[s] = new
      /\ \A t \in Session \ {s} : writes'[t] = writes[t]
      BY DEF Flush, TypeInv, WritesHaveParents
<1>2. ASSUME NEW t \in Session, ~ Idle(t)', NEW i \in DOMAIN writes'[t]
      PROVE  /\ i \in Content /\ writes'[t][i] \in Node
             /\ writes'[t][i].parent # None => Exists(writes'[t][i].parent)
      <2>1. CASE t = s
            BY <1>1, <1>2, <2>1
      <2>2. CASE t # s
            BY <1>1, <1>2, <2>2 DEF TypeInv, TypeOK, WritesHaveParents, Idle
      <2>3. QED BY <2>1, <2>2
<1>3. QED BY <1>1, <1>2 DEF TypeInv, TypeOK, WritesHaveParents, Exists, Idle

LEMMA CheckKeepsType ==
    ASSUME TypeInv, NEW s \in Session, Check(s)
    PROVE  TypeInv'
<1>1. PICK i \in Content :
         \/ \E parent \in Content \cup {None}, w \in Workspace, ns \in Namespace, label \in Label,
               showTrashed \in BOOLEAN : Create(s, i, parent, w, ns, label, showTrashed)
         \/ \E label \in Label : Rename(s, i, label)
         \/ \E parent \in Content \cup {None}, w \in Workspace : Move(s, i, parent, w)
         \/ \E op \in Operation : Trash(s, i, op) \/ Restore(s, i, op)
      BY DEF Check
<1>2. \A j \in Content : Exists(j) =>
         node[j] \in Node /\ (node[j].parent # None => Exists(node[j].parent))
      BY DEF TypeInv, TypeOK, Exists
<1>3. ASSUME NEW new \in Node, WriteOne(s, i, new), UNCHANGED node,
             new.parent # None => Exists(new.parent)
      PROVE  TypeInv'
      BY <1>3, WritingKeepsType DEF WriteOne
<1>4. ASSUME NEW parent \in Content \cup {None}, NEW w \in Workspace, NEW ns \in Namespace,
             NEW label \in Label, NEW showTrashed \in BOOLEAN,
             Create(s, i, parent, w, ns, label, showTrashed)
      PROVE  TypeInv'
      <2> DEFINE new == [parent |-> parent, workspace |-> w, namespace |-> ns,
                         label |-> label, is_deleted |-> FALSE, is_archived |-> FALSE]
      <2>1. new \in Node /\ (new.parent # None => Exists(new.parent))
            BY <1>4 DEF Create, ParentAccepts, Sees, Node
      <2>2. WriteOne(s, i, new) /\ UNCHANGED node
            BY <1>4 DEF Create
      <2> HIDE DEF new
      <2>3. QED BY <1>3, <2>1, <2>2
<1>5. ASSUME NEW label \in Label, Rename(s, i, label)
      PROVE  TypeInv'
      <2> DEFINE new == [node[i] EXCEPT !.label = label]
      <2>1. new \in Node /\ (new.parent # None => Exists(new.parent))
            BY <1>2, <1>5 DEF Rename, Node
      <2>2. WriteOne(s, i, new) /\ UNCHANGED node
            BY <1>5 DEF Rename
      <2> HIDE DEF new
      <2>3. QED BY <1>3, <2>1, <2>2
<1>6. ASSUME NEW op \in Operation, Trash(s, i, op) \/ Restore(s, i, op)
      PROVE  TypeInv'
      <2>1. Exists(i) /\ UNCHANGED node /\ node[i] \in Node
            BY <1>2, <1>6 DEF Trash, Restore
      <2>2. CASE Trash(s, i, op)
            <3>1. PICK label \in TrashLabels(i) :
                     LET dated == [node[i] EXCEPT !.label = label]
                     IN  \/ WriteOne(s, i, [dated EXCEPT !.is_deleted = TRUE])
                         \/ WriteOne(s, i, [dated EXCEPT !.is_archived = TRUE])
                  BY <2>2 DEF Trash
            <3> DEFINE dated == [node[i] EXCEPT !.label = label]
                       deleted == [dated EXCEPT !.is_deleted = TRUE]
                       archived == [dated EXCEPT !.is_archived = TRUE]
            <3>2. deleted \in Node /\ archived \in Node
                  BY <2>1, <3>1 DEF Node, TrashLabels
            <3>3. deleted.parent = node[i].parent /\ archived.parent = node[i].parent
                  BY <2>1 DEF Node
            <3>4. WriteOne(s, i, deleted) \/ WriteOne(s, i, archived)
                  BY <3>1
            <3> HIDE DEF deleted, archived
            <3>5. QED BY <1>2, <1>3, <2>1, <3>2, <3>3, <3>4
      <2>3. CASE Restore(s, i, op)
            <3> DEFINE undeleted == [node[i] EXCEPT !.is_deleted = FALSE]
                       unarchived == [node[i] EXCEPT !.is_archived = FALSE]
            <3>1. /\ undeleted \in Node /\ unarchived \in Node
                  /\ undeleted.parent = node[i].parent /\ unarchived.parent = node[i].parent
                  BY <2>1 DEF Node
            <3>2. WriteOne(s, i, undeleted) \/ WriteOne(s, i, unarchived)
                  BY <2>3 DEF Restore
            <3> HIDE DEF undeleted, unarchived
            <3>3. QED BY <1>2, <1>3, <2>1, <3>1, <3>2
      <2>4. QED BY <1>6, <2>2, <2>3
<1>7. ASSUME NEW parent \in Content \cup {None}, NEW w \in Workspace, Move(s, i, parent, w)
      PROVE  TypeInv'
      <2> DEFINE new == [j \in Moved(i, w) |->
                           [node[j] EXCEPT !.parent = IF j = i THEN parent ELSE node[j].parent,
                                           !.workspace = w, !.namespace = DefaultNamespace]]
      <2>1. Flush(s, new) /\ UNCHANGED node
            BY <1>7 DEF Move
      <2>2. \A j \in Moved(i, w) : j \in Content /\ Exists(j)
            BY <1>7, MovedExist DEF Move
      <2>3. parent # None => Exists(parent)
            BY <1>7 DEF Move, TargetAccepts
      <2>4. \A j \in DOMAIN new : /\ new[j] \in Node
                                  /\ new[j].parent # None => Exists(new[j].parent)
            <3>1. ASSUME NEW j \in Moved(i, w)
                  PROVE  /\ new[j] \in Node
                         /\ new[j].parent = IF j = i THEN parent ELSE node[j].parent
                  <4> DEFINE target == IF j = i THEN parent ELSE node[j].parent
                  <4>1. node[j] \in Node
                        BY <1>2, <2>2
                  <4>2. target \in Content \cup {None}
                        BY <4>1 DEF Node
                  <4>3. new[j] = [node[j] EXCEPT !.parent = target, !.workspace = w,
                                                 !.namespace = DefaultNamespace]
                        OBVIOUS
                  <4> HIDE DEF target, new
                  <4>4. new[j] \in Node /\ new[j].parent = target
                        BY <4>1, <4>2, <4>3 DEF Node, Namespace, DefaultNamespace
                  <4>5. QED BY <4>4 DEF target
            <3>2. QED BY <1>2, <2>2, <2>3, <3>1
      <2>5. DOMAIN new \subseteq Content
            BY <2>2
      <2> HIDE DEF new
      <2>6. QED BY <2>1, <2>4, <2>5, WritingKeepsType
<1>8. QED BY <1>1, <1>4, <1>5, <1>6, <1>7

LEMMA CommitKeepsType ==
    ASSUME TypeInv, NEW s \in Session, Commit(s) \/ Abort(s)
    PROVE  TypeInv'
<1>1. /\ writes' = [t \in Session |-> writes'[t]] /\ writes'[s] = None
      /\ \A t \in Session \ {s} : writes'[t] = writes[t]
      BY DEF Commit, Abort, TypeInv, WritesHaveParents
<1>2. CASE Commit(s)
      <2>1. /\ DOMAIN writes[s] \subseteq Content
            /\ \A i \in DOMAIN writes[s] :
                  /\ writes[s][i] \in Node
                  /\ writes[s][i].parent # None => Exists(writes[s][i].parent)
            BY <1>2 DEF Commit, TypeInv, TypeOK, WritesHaveParents
      <2>2. /\ node' = [i \in Content |-> node'[i]]
            /\ \A i \in Content : node'[i] = IF i \in DOMAIN writes[s] THEN writes[s][i] ELSE node[i]
            BY <1>2 DEF Commit
      <2>3. \A i \in Content : node'[i] \in Node \cup {None}
            BY <2>1, <2>2 DEF TypeInv, TypeOK
      <2>4. \A i \in Content : Exists(i) => Exists(i)'
            BY <2>1, <2>2, NoneAssumption DEF Exists
      <2>5. \A i \in Content : Exists(i)' /\ node'[i].parent # None => Exists(node'[i].parent)
            BY <2>1, <2>2 DEF TypeInv, TypeOK, Exists
      <2>6. \A i \in Content :
               Exists(i)' /\ node'[i].parent # None => node'[node'[i].parent] # None
            <3>1. \A i \in Content : Exists(i)' => node'[i].parent \in Content \cup {None}
                  BY <2>3 DEF Exists, Node
            <3>2. QED BY <2>4, <2>5, <3>1 DEF Exists
      <2>7. \A t \in Session : ~ Idle(t)' => t # s /\ ~ Idle(t) /\ writes'[t] = writes[t]
            BY <1>1 DEF Idle
      <2>8. \A t \in Session : ~ Idle(t)' =>
               /\ DOMAIN writes'[t] \subseteq Content
               /\ \A i \in DOMAIN writes'[t] : writes'[t][i] \in Node
            BY <2>7 DEF TypeInv, TypeOK
      <2>9. ASSUME NEW t \in Session, ~ Idle(t)', NEW i \in DOMAIN writes'[t],
                   writes'[t][i].parent # None
            PROVE  node'[writes'[t][i].parent] # None
            <3>1. writes'[t][i].parent \in Content
                  BY <2>8, <2>9 DEF Node
            <3>2. Exists(writes[t][i].parent)
                  BY <2>7, <2>9 DEF TypeInv, WritesHaveParents
            <3>3. QED BY <2>4, <2>7, <2>9, <3>1, <3>2 DEF Exists
      <2>10. QED BY <1>1, <2>2, <2>3, <2>6, <2>8, <2>9 DEF TypeInv, TypeOK, WritesHaveParents, Exists
<1>3. CASE Abort(s)
      BY <1>1, <1>3 DEF Abort, TypeInv, TypeOK, WritesHaveParents, Exists, Idle
<1>4. QED BY <1>2, <1>3

LEMMA TypeStep == TypeInv /\ [Next]_vars => TypeInv'
<1> SUFFICES ASSUME TypeInv, [Next]_vars PROVE TypeInv'
    OBVIOUS
<1>1. CASE UNCHANGED vars
      BY <1>1 DEF vars, TypeInv, TypeOK, WritesHaveParents, Exists, Idle
<1>2. QED BY <1>1, CheckKeepsType, CommitKeepsType DEF Next

(* Every content keeps the columns of a node, and a parent that exists,    *)
(* with any number of requests at once: nothing is ever removed.           *)
THEOREM TypeCorrect == Spec => []TypeOK
<1>1. TypeInv => TypeOK
      BY DEF TypeInv
<1>2. QED BY <1>1, InitType, TypeStep, PTL DEF Spec

-----------------------------------------------------------------------------
(* Requests one after the other: what the guards of a handler have         *)
(* established is still so when it commits.                                *)
Alone == \A s, t \in Session : s = t

(* The names that the creation of a note may take from a trashed content,  *)
(* which it does not see, and two contents of workspaces with one other    *)
(* name in one folder.                                                     *)
MayClash(label) == "create" \in Operation /\ IsDated(label)

Clash(m, n) ==
    /\ ~ MayClash(m.label)
    /\ m.namespace = "content"
    /\ m.parent = n.parent /\ m.workspace = n.workspace /\ m.namespace = n.namespace
    /\ m.label = n.label

NamesKept ==
    \A i, j \in Content :
       /\ i # j /\ Exists(i) /\ Exists(j)
       /\ ~ MayClash(node[i].label)
       /\ node[i].namespace = "content"
       /\ SameFolder(i, j)
       => node[i].label # node[j].label

(* A new content may not look at the names of trashed ones: they are dated.*)
TrashedAreDated == \A i \in Content : Exists(i) /\ ~ IsActive(i) => IsDated(node[i].label)

CreationPlanned(s) ==
    \E i \in Content, new \in Node :
       /\ writes[s] = [j \in {i} |-> new]
       /\ ~ Exists(i)
       /\ ~ new.is_deleted /\ ~ new.is_archived
       /\ new.parent # None =>
             /\ Exists(new.parent)
             /\ node[new.parent].workspace = new.workspace
             /\ node[new.parent].namespace = new.namespace
       /\ \A j \in Content : Exists(j) => ~ Clash(new, node[j])

ChangePlanned(s) ==
    \E i \in Content, new \in Node :
       /\ writes[s] = [j \in {i} |-> new]
       /\ Exists(i)
       /\ new.parent = node[i].parent
       /\ new.workspace = node[i].workspace /\ new.namespace = node[i].namespace
       /\ new.is_deleted \/ new.is_archived => IsDated(new.label)
       /\ \A j \in Content \ {i} : Exists(j) => ~ Clash(new, node[j])

Target(i, parent, j) == IF j = i THEN parent ELSE node[j].parent

MoveAllowed(i, parent, w) ==
    /\ Exists(i)
    /\ NoMoveConflict(i, parent)
    /\ TargetAccepts(parent, w)
    /\ \A j \in Moved(i, w) :
          NameAvailable(node[j].label, w, Target(i, parent, j), DefaultNamespace, j, TRUE)
    /\ \A j, k \in Moved(i, w) :
          j # k /\ Target(i, parent, j) = Target(i, parent, k) => node[j].label # node[k].label

MovedNodes(i, parent, w) ==
    [j \in Moved(i, w) |->
       [node[j] EXCEPT !.parent = Target(i, parent, j), !.workspace = w,
                       !.namespace = DefaultNamespace]]

MovePlanned(s) ==
    \E i \in Content, parent \in Content \cup {None}, w \in Workspace :
       MoveAllowed(i, parent, w) /\ writes[s] = MovedNodes(i, parent, w)

PlanInv ==
    \A s \in Session : ~ Idle(s) => CreationPlanned(s) \/ ChangePlanned(s) \/ MovePlanned(s)

TreeIsSound ==
    TrashedAreDated /\ NamesKept /\ TreeHasNoCycle /\ ChildrenFollowTheirParent

Inv == TypeInv /\ PlanInv /\ TreeIsSound

-----------------------------------------------------------------------------
(* What a handler writes once its guards hold.                             *)
LEMMA CreateIsPlanned ==
    ASSUME Inv, NEW s \in Session, NEW i \in Content, NEW parent \in Content \cup {None},
           NEW w \in Workspace, NEW ns \in Namespace, NEW label \in Label,
           NEW showTrashed \in BOOLEAN, Create(s, i, parent, w, ns, label, showTrashed)
    PROVE  CreationPlanned(s)'
<1> DEFINE new == [parent |-> parent, workspace |-> w, namespace |-> ns,
                   label |-> label, is_deleted |-> FALSE, is_archived |-> FALSE]
<1>1. new \in Node
      BY DEF Node
<1>2. UNCHANGED node /\ writes'[s] = [j \in {i} |-> new] /\ ~ Exists(i)
      BY DEF Create, WriteOne, Flush, Unused, Inv, TypeInv, WritesHaveParents
<1>3. new.parent # None =>
         /\ Exists(new.parent)
         /\ node[new.parent].workspace = new.workspace
         /\ node[new.parent].namespace = new.namespace
      BY DEF Create, ParentAccepts, Sees
<1>4. ASSUME NEW j \in Content, Exists(j) PROVE ~ Clash(new, node[j])
      <2>1. CASE Sees(showTrashed, j)
            <3>1. j # i
                  BY <1>2, <1>4
            <3>2. NameAvailable(label, w, parent, ns, i, showTrashed)
                  BY DEF Create
            <3>3. QED BY <2>1, <3>1, <3>2 DEF NameAvailable, Clash
      <2>2. CASE ~ Sees(showTrashed, j)
            <3>1. ~ IsActive(j)
                  BY <1>4, <2>2 DEF Sees
            <3>2. IsDated(node[j].label)
                  BY <1>4, <3>1 DEF Inv, TreeIsSound, TrashedAreDated
            <3>3. "create" \in Operation
                  BY <1>4, <2>2 DEF Sees, Create
            <3>4. QED BY <3>2, <3>3 DEF Clash, MayClash
      <2>3. QED BY <2>1, <2>2
<1>5. ~ new.is_deleted /\ ~ new.is_archived
      OBVIOUS
<1> HIDE DEF new
<1>6. QED BY <1>1, <1>2, <1>3, <1>4, <1>5 DEF CreationPlanned, Exists

(* A renaming, the trash and the restoration of a content.                 *)
LEMMA WriteIsPlanned ==
    ASSUME Inv, NEW s \in Session, NEW i \in Content, NEW new \in Node,
           WriteOne(s, i, new), UNCHANGED node, Exists(i),
           new.parent = node[i].parent,
           new.workspace = node[i].workspace, new.namespace = node[i].namespace,
           new.is_deleted \/ new.is_archived => IsDated(new.label),
           NameAvailableByDefault(new.label, i) \/ new.label = node[i].label
    PROVE  ChangePlanned(s)'
<1>1. writes'[s] = [j \in {i} |-> new]
      BY DEF WriteOne, Flush, Inv, TypeInv, WritesHaveParents
<1>2. ASSUME NEW j \in Content \ {i}, Exists(j) PROVE ~ Clash(new, node[j])
      <2>1. CASE NameAvailableByDefault(new.label, i)
            BY <1>2, <2>1 DEF NameAvailableByDefault, NameAvailable, DefaultNamespace, Sees, Clash
      <2>2. CASE new.label = node[i].label
            BY <1>2, <2>2 DEF Inv, TreeIsSound, NamesKept, SameFolder, Clash
      <2>3. QED BY <2>1, <2>2
<1>3. QED BY <1>1, <1>2 DEF ChangePlanned, Exists

LEMMA RenameIsPlanned ==
    ASSUME Inv, NEW s \in Session, NEW i \in Content, NEW label \in Label, Rename(s, i, label)
    PROVE  ChangePlanned(s)'
<1> DEFINE new == [node[i] EXCEPT !.label = label]
<1>1. Exists(i) /\ node[i] \in Node
      BY DEF Rename, Exists, Inv, TypeInv, TypeOK
<1>2. /\ new \in Node /\ new.label = label
      /\ new.parent = node[i].parent
      /\ new.workspace = node[i].workspace /\ new.namespace = node[i].namespace
      /\ new.is_deleted = node[i].is_deleted /\ new.is_archived = node[i].is_archived
      BY <1>1 DEF Node
<1>3. ~ new.is_deleted /\ ~ new.is_archived
      BY <1>2 DEF Rename, IsActive
<1>4. WriteOne(s, i, new) /\ UNCHANGED node /\ NameAvailableByDefault(new.label, i)
      BY <1>2 DEF Rename
<1> HIDE DEF new
<1>5. QED BY <1>1, <1>2, <1>3, <1>4, WriteIsPlanned

LEMMA TrashIsPlanned ==
    ASSUME Inv, NEW s \in Session, NEW i \in Content, NEW op, Trash(s, i, op)
    PROVE  ChangePlanned(s)'
<1>0. PICK label \in TrashLabels(i) :
         /\ NameAvailableByDefault(label, i)
         /\ LET dated == [node[i] EXCEPT !.label = label]
            IN  \/ WriteOne(s, i, [dated EXCEPT !.is_deleted = TRUE])
                \/ WriteOne(s, i, [dated EXCEPT !.is_archived = TRUE])
      BY DEF Trash
<1> DEFINE dated == [node[i] EXCEPT !.label = label]
           deleted == [dated EXCEPT !.is_deleted = TRUE]
           archived == [dated EXCEPT !.is_archived = TRUE]
<1>1. Exists(i) /\ node[i] \in Node
      BY DEF Trash, Exists, Inv, TypeInv, TypeOK
<1>2. label \in Label /\ IsDated(label)
      BY <1>1, DatedAssumption DEF TrashLabels, IsDated, Node
<1>3. ASSUME NEW new \in {deleted, archived}
      PROVE  /\ new \in Node /\ new.label = label
             /\ new.parent = node[i].parent
             /\ new.workspace = node[i].workspace /\ new.namespace = node[i].namespace
      BY <1>1, <1>2 DEF Node
<1>4. WriteOne(s, i, deleted) \/ WriteOne(s, i, archived)
      BY <1>0
<1>5. UNCHANGED node /\ NameAvailableByDefault(label, i)
      BY <1>0 DEF Trash
<1> HIDE DEF deleted, archived
<1>6. QED BY <1>1, <1>2, <1>3, <1>4, <1>5, WriteIsPlanned

LEMMA RestoreIsPlanned ==
    ASSUME Inv, NEW s \in Session, NEW i \in Content, NEW op, Restore(s, i, op)
    PROVE  ChangePlanned(s)'
<1> DEFINE undeleted == [node[i] EXCEPT !.is_deleted = FALSE]
           unarchived == [node[i] EXCEPT !.is_archived = FALSE]
<1>1. Exists(i) /\ node[i] \in Node
      BY DEF Restore, Exists, Inv, TypeInv, TypeOK
<1>2. ASSUME NEW new \in {undeleted, unarchived}
      PROVE  /\ new \in Node /\ new.label = node[i].label
             /\ new.parent = node[i].parent
             /\ new.workspace = node[i].workspace /\ new.namespace = node[i].namespace
             /\ new.is_deleted \/ new.is_archived => node[i].is_deleted \/ node[i].is_archived
      BY <1>1 DEF Node
<1>3. WriteOne(s, i, undeleted) \/ WriteOne(s, i, unarchived)
      BY DEF Restore
<1>4. UNCHANGED node
      BY DEF Restore
<1>5. node[i].is_deleted \/ node[i].is_archived => IsDated(node[i].label)
      BY <1>1 DEF Inv, TreeIsSound, TrashedAreDated, IsActive
<1> HIDE DEF undeleted, unarchived
<1>6. QED BY <1>1, <1>2, <1>3, <1>4, <1>5, WriteIsPlanned

LEMMA MoveIsStable ==
    ASSUME UNCHANGED node, NEW i, NEW parent, NEW w, MoveAllowed(i, parent, w)
    PROVE  MoveAllowed(i, parent, w)' /\ MovedNodes(i, parent, w)' = MovedNodes(i, parent, w)
<1>1. MovedNodes(i, parent, w)' = MovedNodes(i, parent, w)
      BY DEF MovedNodes, Moved, Children, Exists, IsElsewhere, Target
<1>2. MoveAllowed(i, parent, w)'
      BY DEF MoveAllowed, Exists, NoMoveConflict, Descendants, Children, TargetAccepts, Moved,
             IsElsewhere, NameAvailable, Sees, IsActive, Target
<1>3. QED BY <1>1, <1>2

LEMMA MoveIsPlanned ==
    ASSUME Inv, NEW s \in Session, NEW i \in Content, NEW parent \in Content \cup {None},
           NEW w \in Workspace, Move(s, i, parent, w)
    PROVE  MovePlanned(s)'
<1>1. UNCHANGED node
      BY DEF Move
<1>2. writes'[s] = MovedNodes(i, parent, w)
      BY DEF Move, Flush, Target, MovedNodes, Inv, TypeInv, WritesHaveParents
<1>3. MoveAllowed(i, parent, w)
      BY DEF Move, Target, MoveAllowed
<1>4. MoveAllowed(i, parent, w)' /\ MovedNodes(i, parent, w)' = MovedNodes(i, parent, w)
      BY <1>1, <1>3, MoveIsStable
<1>5. QED BY <1>2, <1>4 DEF MovePlanned

LEMMA CheckPlans ==
    ASSUME Inv, Alone, NEW s \in Session, Check(s)
    PROVE  Inv'
<1>1. TypeInv'
      BY CheckKeepsType DEF Inv
<1>2. CreationPlanned(s)' \/ ChangePlanned(s)' \/ MovePlanned(s)'
      BY CreateIsPlanned, RenameIsPlanned, MoveIsPlanned, TrashIsPlanned, RestoreIsPlanned DEF Check
<1>3. PlanInv'
      BY <1>2 DEF PlanInv, Alone
<1>4. UNCHANGED node
      BY DEF Check, Create, Rename, Move, Trash, Restore
<1>5. TreeIsSound'
      BY <1>4 DEF Inv, TreeIsSound, TrashedAreDated, NamesKept, TreeHasNoCycle,
                  ChildrenFollowTheirParent, Exists, IsActive, SameFolder, Descendants, Children
<1>6. QED BY <1>1, <1>3, <1>5 DEF Inv

-----------------------------------------------------------------------------
(* The descendants of a content are the least set with its children and    *)
(* the children of its members.                                            *)
LEMMA DescendantsAreLeast ==
    ASSUME NEW i, NEW S \in SUBSET Content, Children({i} \cup S) \subseteq S
    PROVE  Descendants(i) \subseteq S
BY DEF Descendants

LEMMA DescendantsAreClosed ==
    ASSUME NEW i
    PROVE  /\ Descendants(i) \subseteq Content
           /\ Children({i} \cup Descendants(i)) \subseteq Descendants(i)
<1>1. Descendants(i) \subseteq Content
      BY DEF Descendants
<1>2. ASSUME NEW j \in Children({i} \cup Descendants(i)),
             NEW S \in SUBSET Content, Children({i} \cup S) \subseteq S
      PROVE  j \in S
      <2>1. Descendants(i) \subseteq S
            BY <1>2, DescendantsAreLeast
      <2>2. j \in Children({i} \cup S)
            BY <1>2, <2>1 DEF Children
      <2>3. QED BY <1>2, <2>2
<1>3. ASSUME NEW j \in Children({i} \cup Descendants(i))
      PROVE  j \in Descendants(i)
      <2>1. j \in Content
            BY DEF Children
      <2>2. \A S \in SUBSET Content : Children({i} \cup S) \subseteq S => j \in S
            BY <1>2
      <2>3. QED BY <2>1, <2>2 DEF Descendants
<1>4. QED BY <1>1, <1>3

LEMMA DescendantsOfDescendant ==
    ASSUME NEW i, NEW j \in Descendants(i)
    PROVE  Descendants(j) \subseteq Descendants(i)
<1>1. /\ Descendants(i) \in SUBSET Content
      /\ Children({i} \cup Descendants(i)) \subseteq Descendants(i)
      BY DescendantsAreClosed
<1>2. Children({j} \cup Descendants(i)) \subseteq Descendants(i)
      BY <1>1 DEF Children
<1>3. QED BY <1>1, <1>2, DescendantsAreLeast

(* After a step, a content out of a set that its children and theirs are   *)
(* in is not under itself.                                                 *)
LEMMA StaysOut ==
    ASSUME NEW j, NEW S \in SUBSET Content, j \notin S,
           \A k \in Content : node'[k] # None /\ node'[k].parent \in {j} \cup S => k \in S
    PROVE  j \notin Descendants(j)'
BY DEF Descendants, Children, Exists

(* What is moved below the content is under something that is moved.       *)
LEMMA MovedUnderMoved ==
    ASSUME NEW i \in Content, NEW w, NEW k \in Moved(i, w), k # i
    PROVE  node[k].parent \in Moved(i, w)
<1> DEFINE S == {i} \cup Elsewhere(Moved(i, w), w)
<1>1. S \in SUBSET Content /\ i \in S
      BY DEF Elsewhere, Children
<1>2. S \subseteq Moved(i, w)
      BY MovedIsClosed
<1>3. Elsewhere(S, w) \subseteq S
      BY <1>2 DEF Elsewhere, Children
<1>4. Moved(i, w) \subseteq S
      <2> HIDE DEF S
      <2>1. QED BY <1>1, <1>3, MovedIsLeast
<1>5. QED BY <1>4 DEF Elsewhere, Children

-----------------------------------------------------------------------------
(* What a commit makes of the tree.                                        *)
LEMMA CommitOfCreation ==
    ASSUME Inv, NEW s \in Session, CreationPlanned(s), Commit(s)
    PROVE  TreeIsSound'
<1>1. PICK i \in Content, new \in Node :
         /\ writes[s] = [j \in {i} |-> new]
         /\ ~ Exists(i)
         /\ ~ new.is_deleted /\ ~ new.is_archived
         /\ new.parent # None =>
               /\ Exists(new.parent)
               /\ node[new.parent].workspace = new.workspace
               /\ node[new.parent].namespace = new.namespace
         /\ \A j \in Content : Exists(j) => ~ Clash(new, node[j])
      BY DEF CreationPlanned
<1>2. node'[i] = new /\ \A j \in Content \ {i} : node'[j] = node[j]
      BY <1>1 DEF Commit
<1>3. \A j \in Content : Exists(j) =>
         node[j].parent # i /\ (node[j].parent # None => node[j].parent \in Content)
      <2>1. i # None
            BY NoneAssumption
      <2>2. ASSUME NEW j \in Content, Exists(j)
            PROVE  /\ node[j].parent \in Content \cup {None}
                   /\ node[j].parent # None => Exists(node[j].parent)
            BY <2>2 DEF Inv, TypeInv, TypeOK, Exists, Node
      <2>3. QED BY <1>1, <2>1, <2>2
<1>4. TrashedAreDated'
      BY <1>1, <1>2 DEF Inv, TreeIsSound, TrashedAreDated, Exists, IsActive
<1>5. NamesKept'
      <2>1. ASSUME NEW j \in Content, NEW k \in Content, j # k, Exists(j)', Exists(k)',
                   ~ MayClash(node'[j].label),
                   node'[j].namespace = "content", SameFolder(j, k)'
            PROVE  node'[j].label # node'[k].label
            <3>1. CASE j = i
                  BY <1>1, <1>2, <2>1, <3>1 DEF Exists, SameFolder, Clash
            <3>2. CASE k = i
                  BY <1>1, <1>2, <2>1, <3>2 DEF Exists, SameFolder, Clash
            <3>3. CASE j # i /\ k # i
                  BY <1>2, <2>1, <3>3 DEF Inv, TreeIsSound, NamesKept, Exists, SameFolder
            <3>4. QED BY <3>1, <3>2, <3>3
      <2>2. QED BY <2>1 DEF NamesKept
<1>6. TreeHasNoCycle'
      <2>1. ASSUME NEW j \in Content, Exists(j)'
            PROVE  j \notin Descendants(j)'
            <3>1. CASE j = i
                  <4>1. \A k \in Content : node'[k] # None => node'[k].parent # i
                        BY <1>1, <1>2, <1>3, NoneAssumption DEF Exists
                  <4> DEFINE S == {}
                  <4>2. /\ S \in SUBSET Content /\ j \notin S
                        /\ \A k \in Content : node'[k] # None /\ node'[k].parent \in {j} \cup S => k \in S
                        BY <3>1, <4>1
                  <4> HIDE DEF S
                  <4>3. QED BY <4>2, StaysOut
            <3>2. CASE j # i
                  <4> DEFINE S == Descendants(j) \cup {i}
                  <4>1. /\ Descendants(j) \subseteq Content
                        /\ Children({j} \cup Descendants(j)) \subseteq Descendants(j)
                        BY DescendantsAreClosed
                  <4>2. S \in SUBSET Content
                        BY <4>1
                  <4>3. j \notin S
                        BY <1>2, <2>1, <3>2 DEF Inv, TreeIsSound, TreeHasNoCycle, Exists
                  <4>4. ASSUME NEW k \in Content, node'[k] # None, node'[k].parent \in {j} \cup S
                        PROVE  k \in S
                        BY <1>2, <1>3, <4>1, <4>4 DEF Children, Exists
                  <4> HIDE DEF S
                  <4>5. QED BY <4>2, <4>3, <4>4, StaysOut
            <3>3. QED BY <3>1, <3>2
      <2>2. QED BY <2>1 DEF TreeHasNoCycle
<1>7. ChildrenFollowTheirParent'
      <2>1. ASSUME NEW j \in Content, Exists(j)', node'[j].parent # None
            PROVE  /\ node'[j].workspace = node'[node'[j].parent].workspace
                   /\ node'[j].namespace = node'[node'[j].parent].namespace
            <3>1. CASE j = i
                  <4>1. new.parent \in Content \ {i}
                        BY <1>1, <1>2, <2>1, <3>1 DEF Node
                  <4>2. QED BY <1>1, <1>2, <2>1, <3>1, <4>1
            <3>2. CASE j # i
                  <4>1. node[j].parent \in Content \ {i}
                        BY <1>2, <1>3, <2>1, <3>2 DEF Exists
                  <4>2. QED BY <1>2, <2>1, <3>2, <4>1
                            DEF Inv, TreeIsSound, ChildrenFollowTheirParent, Exists
            <3>3. QED BY <3>1, <3>2
      <2>2. QED BY <2>1 DEF ChildrenFollowTheirParent
<1>8. QED BY <1>4, <1>5, <1>6, <1>7 DEF TreeIsSound

LEMMA CommitOfChange ==
    ASSUME Inv, NEW s \in Session, ChangePlanned(s), Commit(s)
    PROVE  TreeIsSound'
<1>1. PICK i \in Content, new \in Node :
         /\ writes[s] = [j \in {i} |-> new]
         /\ Exists(i)
         /\ new.parent = node[i].parent
         /\ new.workspace = node[i].workspace /\ new.namespace = node[i].namespace
         /\ new.is_deleted \/ new.is_archived => IsDated(new.label)
         /\ \A j \in Content \ {i} : Exists(j) => ~ Clash(new, node[j])
      BY DEF ChangePlanned
<1>2. node'[i] = new /\ \A j \in Content \ {i} : node'[j] = node[j]
      BY <1>1 DEF Commit
<1>3. \A j \in Content :
         /\ Exists(j)' <=> Exists(j)
         /\ node'[j] # None =>
               /\ node[j] # None
               /\ node'[j].parent = node[j].parent
               /\ node'[j].workspace = node[j].workspace
               /\ node'[j].namespace = node[j].namespace
      BY <1>1, <1>2, NoneAssumption DEF Exists
<1>4. TrashedAreDated'
      BY <1>1, <1>2 DEF Inv, TreeIsSound, TrashedAreDated, Exists, IsActive
<1>5. NamesKept'
      <2>1. ASSUME NEW j \in Content, NEW k \in Content, j # k, Exists(j)', Exists(k)',
                   ~ MayClash(node'[j].label),
                   node'[j].namespace = "content", SameFolder(j, k)'
            PROVE  node'[j].label # node'[k].label
            <3>1. CASE j = i
                  BY <1>1, <1>2, <2>1, <3>1 DEF Exists, SameFolder, Clash
            <3>2. CASE k = i
                  BY <1>1, <1>2, <2>1, <3>2 DEF Exists, SameFolder, Clash
            <3>3. CASE j # i /\ k # i
                  BY <1>2, <2>1, <3>3 DEF Inv, TreeIsSound, NamesKept, Exists, SameFolder
            <3>4. QED BY <3>1, <3>2, <3>3
      <2>2. QED BY <2>1 DEF NamesKept
<1>6. TreeHasNoCycle'
      <2>1. ASSUME NEW j \in Content, Exists(j)'
            PROVE  j \notin Descendants(j)'
            <3> DEFINE S == Descendants(j)
            <3>1. S \in SUBSET Content /\ Children({j} \cup S) \subseteq S
                  BY DescendantsAreClosed
            <3>2. j \notin S
                  BY <1>3, <2>1 DEF Inv, TreeIsSound, TreeHasNoCycle
            <3> HIDE DEF S
            <3>3. \A k \in Content : node'[k] # None /\ node'[k].parent \in {j} \cup S => k \in S
                  BY <1>3, <3>1 DEF Children, Exists
            <3>4. QED BY <3>1, <3>2, <3>3, StaysOut
      <2>2. QED BY <2>1 DEF TreeHasNoCycle
<1>7. ChildrenFollowTheirParent'
      <2>1. ASSUME NEW j \in Content, Exists(j)', node'[j].parent # None
            PROVE  /\ node'[j].workspace = node'[node'[j].parent].workspace
                   /\ node'[j].namespace = node'[node'[j].parent].namespace
            <3>1. /\ Exists(j) /\ node'[j].parent = node[j].parent
                  /\ node'[j].workspace = node[j].workspace
                  /\ node'[j].namespace = node[j].namespace
                  BY <1>3, <2>1 DEF Exists
            <3>2. node[j].parent \in Content /\ Exists(node[j].parent)
                  BY <2>1, <3>1 DEF Inv, TypeInv, TypeOK, Exists, Node
            <3>3. /\ node'[node[j].parent].workspace = node[node[j].parent].workspace
                  /\ node'[node[j].parent].namespace = node[node[j].parent].namespace
                  BY <1>1, <1>2, <3>2
            <3>4. QED BY <2>1, <3>1, <3>3 DEF Inv, TreeIsSound, ChildrenFollowTheirParent
      <2>2. QED BY <2>1 DEF ChildrenFollowTheirParent
<1>8. QED BY <1>4, <1>5, <1>6, <1>7 DEF TreeIsSound

LEMMA CommitOfMove ==
    ASSUME Inv, NEW s \in Session, MovePlanned(s), Commit(s)
    PROVE  TreeIsSound'
<1>1. PICK i \in Content, parent \in Content \cup {None}, w \in Workspace :
         MoveAllowed(i, parent, w) /\ writes[s] = MovedNodes(i, parent, w)
      BY DEF MovePlanned
<1> DEFINE M == Moved(i, w)
<1>2. i \in M /\ Elsewhere(M, w) \subseteq M
      BY MovedIsClosed
<1>3. \A j \in M : j \in Content /\ Exists(j)
      BY <1>1, MovedExist DEF MoveAllowed
<1>4. \A j \in M : j # i => node[j].parent \in M
      BY MovedUnderMoved
<1>5. \A j \in Content : Exists(j) =>
         /\ node[j] \in Node /\ node[j].parent \in Content \cup {None}
         /\ node[j].parent # None => Exists(node[j].parent)
      BY DEF Inv, TypeInv, TypeOK, Exists, Node
<1>6. \A j \in Content \ M : node'[j] = node[j]
      BY <1>1 DEF Commit, MovedNodes
<1>7. ASSUME NEW j \in M
      PROVE  /\ node'[j] # None
             /\ node'[j].parent = Target(i, parent, j)
             /\ node'[j].workspace = w /\ node'[j].namespace = "content"
             /\ node'[j].label = node[j].label
             /\ node'[j].is_deleted = node[j].is_deleted
             /\ node'[j].is_archived = node[j].is_archived
      <2>1. node'[j] = [node[j] EXCEPT !.parent = Target(i, parent, j), !.workspace = w,
                                      !.namespace = DefaultNamespace]
            BY <1>1, <1>3, <1>7 DEF Commit, MovedNodes
      <2>2. node[j] \in Node
            BY <1>3, <1>5
      <2>3. Target(i, parent, j) \in Content \cup {None}
            BY <1>3, <1>5 DEF Target
      <2> HIDE DEF M
      <2>4. node'[j] \in Node
            BY <2>1, <2>2, <2>3 DEF Node, Namespace, DefaultNamespace
      <2>5. QED BY <2>1, <2>2, <2>4, NoneAssumption DEF Node, DefaultNamespace
<1> HIDE DEF M
<1>8. \A j \in Content : Exists(j)' => Exists(j) /\ node'[j].label = node[j].label
      BY <1>3, <1>6, <1>7 DEF Exists
<1>9. TrashedAreDated'
      BY <1>3, <1>6, <1>7 DEF Inv, TreeIsSound, TrashedAreDated, Exists, IsActive
<1>10. NamesKept'
      <2>1. ASSUME NEW j \in M, NEW k \in Content \ M, Exists(k)', SameFolder(j, k)'
            PROVE  node'[j].label # node'[k].label
            <3>1. NameAvailable(node[j].label, w, Target(i, parent, j), DefaultNamespace, j, TRUE)
                  BY <1>1 DEF MoveAllowed, M
            <3>2. k \in Content \ {j} /\ Sees(TRUE, k)
                  BY <1>8, <2>1 DEF Sees
            <3>3. node[k].workspace = w /\ node[k].parent = Target(i, parent, j)
                  /\ node[k].namespace = "content"
                  BY <1>6, <1>7, <2>1 DEF SameFolder
            <3>4. node[k].label # node[j].label
                  BY <3>1, <3>2, <3>3 DEF NameAvailable, DefaultNamespace
            <3>5. QED BY <1>6, <1>7, <2>1, <3>4
      <2>2. ASSUME NEW j \in M, NEW k \in M, j # k, SameFolder(j, k)'
            PROVE  node'[j].label # node'[k].label
            <3>1. Target(i, parent, j) = Target(i, parent, k)
                  BY <1>7, <2>2 DEF SameFolder
            <3>2. node[j].label # node[k].label
                  BY <1>1, <2>2, <3>1 DEF MoveAllowed, M
            <3>3. QED BY <1>7, <2>2, <3>2
      <2>3. ASSUME NEW j \in Content \ M, NEW k \in Content \ M, j # k, Exists(j)', Exists(k)',
                   ~ MayClash(node'[j].label),
                   node'[j].namespace = "content", SameFolder(j, k)'
            PROVE  node'[j].label # node'[k].label
            BY <1>6, <2>3 DEF Inv, TreeIsSound, NamesKept, Exists, SameFolder
      <2>4. \A j, k \in Content : SameFolder(j, k)' => SameFolder(k, j)'
            BY DEF SameFolder
      <2>5. QED BY <2>1, <2>2, <2>3, <2>4 DEF NamesKept
<1>11. TreeHasNoCycle'
      <2>1. parent \notin {i} \cup Descendants(i)
            BY <1>1 DEF MoveAllowed, NoMoveConflict
      <2>2. ASSUME NEW k \in Content, node'[k] # None
            PROVE  Exists(k) /\ node'[k].parent = Target(i, parent, k)
            BY <1>2, <1>6, <1>7, <1>8, <2>2 DEF Target, Exists
      <2>3. \A j \in Content : /\ Descendants(j) \subseteq Content
                              /\ Children({j} \cup Descendants(j)) \subseteq Descendants(j)
            BY DescendantsAreClosed
      <2>4. \A j \in Content : Exists(j) => j \notin Descendants(j)
            BY DEF Inv, TreeIsSound, TreeHasNoCycle
      <2>5. ASSUME NEW j \in Content, Exists(j)'
            PROVE  j \notin Descendants(j)'
            <3>1. CASE j \in {i} \cup Descendants(i)
                  <4> DEFINE S == Descendants(j)
                  <4>1. S \in SUBSET Content /\ j \notin S
                        BY <1>8, <2>3, <2>4, <2>5
                  <4>2. S \subseteq Descendants(i)
                        BY <3>1, DescendantsOfDescendant
                  <4>3. Children({j} \cup S) \subseteq S
                        BY <2>3
                  <4> HIDE DEF S
                  <4>4. parent \notin {j} \cup S
                        BY <2>1, <3>1, <4>2
                  <4>5. \A k \in Content : node'[k] # None /\ node'[k].parent \in {j} \cup S => k \in S
                        BY <2>2, <4>3, <4>4 DEF Children, Target
                  <4>6. QED BY <4>1, <4>5, StaysOut
            <3>2. CASE j \notin {i} \cup Descendants(i)
                  <4> DEFINE S == Descendants(j) \cup {i} \cup Descendants(i)
                  <4>1. S \in SUBSET Content /\ j \notin S
                        BY <1>8, <2>3, <2>4, <2>5, <3>2
                  <4>2. ASSUME NEW k \in Content, node'[k] # None, node'[k].parent \in {j} \cup S
                        PROVE  k \in S
                        BY <2>2, <2>3, <4>2 DEF Children, Target
                  <4> HIDE DEF S
                  <4>3. QED BY <4>1, <4>2, StaysOut
            <3>3. QED BY <3>1, <3>2
      <2>6. QED BY <2>5 DEF TreeHasNoCycle
<1>12. ChildrenFollowTheirParent'
      <2>1. ASSUME NEW j \in Content, Exists(j)', node'[j].parent # None
            PROVE  /\ node'[j].workspace = node'[node'[j].parent].workspace
                   /\ node'[j].namespace = node'[node'[j].parent].namespace
            <3>1. CASE j = i
                  <4>1. /\ node'[j].parent = parent /\ parent \in Content
                        /\ node[parent].workspace = w /\ node[parent].namespace = "content"
                        BY <1>1, <1>2, <1>7, <2>1, <3>1
                           DEF Target, MoveAllowed, TargetAccepts, DefaultNamespace
                  <4>2. node'[parent].workspace = w /\ node'[parent].namespace = "content"
                        BY <1>6, <1>7, <4>1
                  <4>3. QED BY <1>2, <1>7, <3>1, <4>1, <4>2
            <3>2. CASE j \in M /\ j # i
                  BY <1>4, <1>7, <3>2 DEF Target
            <3>3. CASE j \notin M
                  <4>1. /\ node'[j] = node[j] /\ Exists(j)
                        /\ node[j].parent \in Content
                        BY <1>5, <1>6, <1>8, <2>1, <3>3
                  <4>2. CASE node[j].parent \in M
                        <5>1. ~ IsElsewhere(j, w)
                              BY <1>2, <3>3, <4>1, <4>2 DEF Elsewhere, Children
                        <5>2. QED BY <1>7, <4>1, <4>2, <5>1 DEF IsElsewhere, DefaultNamespace
                  <4>3. CASE node[j].parent \notin M
                        BY <1>6, <2>1, <4>1, <4>3 DEF Inv, TreeIsSound, ChildrenFollowTheirParent
                  <4>4. QED BY <4>2, <4>3
            <3>4. QED BY <3>1, <3>2, <3>3
      <2>2. QED BY <2>1 DEF ChildrenFollowTheirParent
<1>13. QED BY <1>9, <1>10, <1>11, <1>12 DEF TreeIsSound

-----------------------------------------------------------------------------
LEMMA InitInv == Init => Inv
<1>1. ASSUME Init PROVE PlanInv /\ TreeIsSound
      BY <1>1, NoneAssumption
         DEF Init, PlanInv, Idle, TreeIsSound, TrashedAreDated, NamesKept, TreeHasNoCycle,
             ChildrenFollowTheirParent, Exists
<1>2. QED BY <1>1, InitType DEF Inv

LEMMA EndingIsSound ==
    ASSUME Inv, Alone, NEW s \in Session, Commit(s) \/ Abort(s)
    PROVE  Inv'
<1>1. TypeInv'
      BY CommitKeepsType DEF Inv
<1>2. PlanInv'
      <2>1. writes'[s] = None
            BY DEF Commit, Abort, Inv, TypeInv, WritesHaveParents
      <2>2. QED BY <2>1 DEF PlanInv, Idle, Alone
<1>3. CASE Commit(s)
      <2>1. CreationPlanned(s) \/ ChangePlanned(s) \/ MovePlanned(s)
            BY <1>3 DEF Commit, Inv, PlanInv
      <2>2. QED BY <1>1, <1>2, <1>3, <2>1, CommitOfCreation, CommitOfChange, CommitOfMove DEF Inv
<1>4. CASE Abort(s)
      <2>1. UNCHANGED node
            BY <1>4 DEF Abort
      <2>2. TreeIsSound'
            BY <2>1 DEF Inv, TreeIsSound, TrashedAreDated, NamesKept, TreeHasNoCycle,
                        ChildrenFollowTheirParent, Exists, IsActive, SameFolder, Descendants, Children
      <2>3. QED BY <1>1, <1>2, <2>2 DEF Inv
<1>5. QED BY <1>3, <1>4

LEMMA InvStep == Alone /\ Inv /\ [Next]_vars => Inv'
<1> SUFFICES ASSUME Alone, Inv, [Next]_vars PROVE Inv'
    OBVIOUS
<1>1. CASE UNCHANGED vars
      <2>1. TypeInv'
            BY TypeStep DEF Inv
      <2>2. UNCHANGED <<node, writes>>
            BY <1>1 DEF vars
      <2>3. TreeIsSound'
            BY <2>2 DEF Inv, TreeIsSound, TrashedAreDated, NamesKept, TreeHasNoCycle,
                        ChildrenFollowTheirParent, Exists, IsActive, SameFolder, Descendants, Children
      <2>4. PlanInv'
            <3>1. ASSUME NEW s \in Session, CreationPlanned(s) PROVE CreationPlanned(s)'
                  BY <2>2, <3>1 DEF CreationPlanned, Exists
            <3>2. ASSUME NEW s \in Session, ChangePlanned(s) PROVE ChangePlanned(s)'
                  BY <2>2, <3>2 DEF ChangePlanned, Exists
            <3>3. ASSUME NEW s \in Session, MovePlanned(s) PROVE MovePlanned(s)'
                  <4>1. PICK i \in Content, parent \in Content \cup {None}, w \in Workspace :
                           MoveAllowed(i, parent, w) /\ writes[s] = MovedNodes(i, parent, w)
                        BY <3>3 DEF MovePlanned
                  <4>2. MoveAllowed(i, parent, w)' /\ MovedNodes(i, parent, w)' = MovedNodes(i, parent, w)
                        BY <2>2, <4>1, MoveIsStable
                  <4>3. writes'[s] = MovedNodes(i, parent, w)'
                        BY <2>2, <4>1, <4>2
                  <4>4. QED BY <4>2, <4>3 DEF MovePlanned
            <3>4. QED BY <2>2, <3>1, <3>2, <3>3 DEF Inv, PlanInv, Idle
      <2>5. QED BY <2>1, <2>3, <2>4 DEF Inv
<1>2. CASE Next
      BY <1>2, CheckPlans, EndingIsSound DEF Next
<1>3. QED BY <1>1, <1>2

(* In the contents of workspaces, no folder ever has two contents of one   *)
(* name that bears no date of the trash, trashed ones included, when the   *)
(* requests do not overlap, whatever names users type.                     *)
THEOREM NamesAreUnique == ASSUME Alone PROVE Spec => []UndatedNamesUnique
<1>1. Inv => UndatedNamesUnique
      BY DEF Inv, TreeIsSound, NamesKept, UndatedNamesUnique, SameFile, MayClash
<1>2. Inv /\ [Next]_vars => Inv'
      BY InvStep
<1>3. QED BY <1>1, <1>2, InitInv, PTL DEF Spec

(* Names with a date clash only through the creation of notes, folders and *)
(* threads: with that of files, which sees trashed contents, and all other *)
(* operations no folder of a space ever has two contents of one name.      *)
THEOREM OnlyCreationsClash ==
    ASSUME Alone, "create" \notin Operation PROVE Spec => []FileNamesUnique
<1>1. Inv => FileNamesUnique
      BY DEF Inv, TreeIsSound, NamesKept, FileNamesUnique, SameFile, MayClash
<1>2. Inv /\ [Next]_vars => Inv'
      BY InvStep
<1>3. QED BY <1>1, <1>2, InitInv, PTL DEF Spec

(* No move, however deep the target and whatever the subtree, puts a       *)
(* content under itself, when the requests do not overlap.                 *)
THEOREM TreeStaysATree == ASSUME Alone PROVE Spec => []TreeHasNoCycle
<1>1. Inv => TreeHasNoCycle
      BY DEF Inv, TreeIsSound
<1>2. Inv /\ [Next]_vars => Inv'
      BY InvStep
<1>3. QED BY <1>1, <1>2, InitInv, PTL DEF Spec

(* A content never is in another workspace or namespace than its parent,   *)
(* although a move does not visit below a child that is already there,     *)
(* when the requests do not overlap.                                       *)
THEOREM ChildrenStayWithTheirParent == ASSUME Alone PROVE Spec => []ChildrenFollowTheirParent
<1>1. Inv => ChildrenFollowTheirParent
      BY DEF Inv, TreeIsSound
<1>2. Inv /\ [Next]_vars => Inv'
      BY InvStep
<1>3. QED BY <1>1, <1>2, InitInv, PTL DEF Spec
=============================================================================
