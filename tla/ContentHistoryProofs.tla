------------------------ MODULE ContentHistoryProofs ------------------------
(***************************************************************************)
(* Proofs about ContentHistory, for any number of sessions and contents    *)
(* and histories of any length.                                            *)
(***************************************************************************)
EXTENDS ContentHistory, TLAPS

(***************************************************************************)
(* What a session holds at each step of its request: ColumnTypes is inductive   *)
(* only with it, since a revision is inserted from the one that is loaded. *)
(***************************************************************************)
HasView(s) == req[s].pc \in {"loaded", "checked", "inserted", "flushed"}
Pending(s) == req[s].pc \in {"inserted", "flushed"}

RequestShape ==
    \A s \in Session :
       /\ req[s].pc # "idle" => req[s].op \in Operation
       /\ req[s].pc \in {"locked", "checked"} => req[s].op = "patch"
       /\ HasView(s) => req[s].view \in Revision /\ req[s].view.content = req[s].content
       /\ ~ Pending(s) => req[s].new = None
       /\ Pending(s) => /\ req[s].new \in Revision
                        /\ req[s].new.content = req[s].content
                        /\ req[s].new.from = req[s].view.id
                        /\ req[s].new.by = req[s].op
                        /\ req[s].new.base = req[s].base

ColumnTypes ==
    /\ revisions \subseteq Revision
    /\ cached \in [Content -> RevisionId]
    /\ nextId \in RevisionId
    /\ held \subseteq Content \X Nat \X Session
    /\ rowOwner \in [Content -> Session \cup {None}]
    /\ req \in [Session -> Request]

TypeInv == ColumnTypes /\ RequestShape

\* A request that returns to idle is a request.
LEMMA IdleRequestType == IdleRequest \in Request
  BY NumContentsAssumption DEF IdleRequest, Request, Phase, Content

\* Editing a clone leaves its identity alone.
LEMMA EditedType ==
    ASSUME NEW r \in Revision, NEW op \in AllOperations
    PROVE  /\ Edited(r, op) \in Revision
           /\ Edited(r, op).id = r.id
           /\ Edited(r, op).content = r.content
           /\ Edited(r, op).from = r.from
           /\ Edited(r, op).by = r.by
           /\ Edited(r, op).base = r.base
<1>1. op \in {"patch", "update_file", "set_status", "delete", "undelete", "archive", "unarchive"}
  BY DEF AllOperations
<1>2. CASE op \in {"patch", "update_file"}
  BY <1>2 DEF Edited
<1>3. CASE op = "set_status"
  BY <1>3 DEF Edited, Revision
<1>4. CASE op \in {"delete", "undelete"}
  BY <1>4 DEF Edited, Revision
<1>5. CASE op \in {"archive", "unarchive"}
  BY <1>5 DEF Edited, Revision
<1> QED
  BY <1>1, <1>2, <1>3, <1>4, <1>5

\* The revision a session inserts is a clone of the one it has loaded.
LEMMA NewRevisionType ==
    ASSUME TypeInv, NEW s \in Session, ReadyToInsert(s)
    PROVE  /\ req[s].op \in Operation
           /\ Edited(NewFrom(s), req[s].op) \in Revision
           /\ Edited(NewFrom(s), req[s].op).id = nextId
           /\ Edited(NewFrom(s), req[s].op).content = req[s].content
           /\ Edited(NewFrom(s), req[s].op).from = req[s].view.id
           /\ Edited(NewFrom(s), req[s].op).by = req[s].op
           /\ Edited(NewFrom(s), req[s].op).base = req[s].base
<1>1. /\ req[s].pc \in {"loaded", "checked"}
      /\ req[s].op \in Operation
      /\ req[s].op \in AllOperations
  BY OperationAssumption DEF TypeInv, RequestShape, ReadyToInsert
<1>2. req[s].view \in Revision /\ req[s].view.content = req[s].content
  BY <1>1 DEF TypeInv, RequestShape, HasView
<1>3. /\ NewFrom(s) \in Revision
      /\ NewFrom(s).id = nextId
      /\ NewFrom(s).content = req[s].content
      /\ NewFrom(s).from = req[s].view.id
      /\ NewFrom(s).by = req[s].op
      /\ NewFrom(s).base = req[s].base
  <2>1. req[s].base \in Nat /\ nextId \in Nat \ {0} /\ req[s].view.id \in Nat
    BY <1>2 DEF TypeInv, ColumnTypes, Request, Revision, RevisionId
  <2> QED
    BY <1>1, <1>2, <2>1 DEF NewFrom, Revision, RevisionId
<1> QED
  BY <1>1, <1>3, EditedType

\* Rolling back leaves a typed state in which the session is idle.
LEMMA RollbackType ==
    ASSUME TypeInv, NEW s \in Session, Rollback(s)
    PROVE  TypeInv'
<1>1. nextId' \in RevisionId
  <2>1. CASE req[s].new = None
    BY <2>1 DEF Rollback, TypeInv, ColumnTypes
  <2>2. CASE req[s].new # None
    <3>1. req[s].new \in Revision
      BY <2>2 DEF TypeInv, RequestShape
    <3> QED
      BY <3>1 DEF Rollback, TypeInv, ColumnTypes, Revision
  <2> QED
    BY <2>1, <2>2
<1>2. ColumnTypes'
  BY <1>1, IdleRequestType DEF TypeInv, ColumnTypes, Rollback, EndTransaction, LocksOf
<1>3. RequestShape'
  BY DEF TypeInv, ColumnTypes, RequestShape, HasView, Pending, Rollback, EndTransaction, IdleRequest
<1> QED
  BY <1>2, <1>3 DEF TypeInv

\* The contents that exist at start have one typed revision each.
LEMMA TypeInit == Init => TypeInv
<1> SUFFICES ASSUME Init PROVE TypeInv
  OBVIOUS
<1>1. \A c \in Content : FirstRevision(c) \in Revision
  BY NumContentsAssumption DEF FirstRevision, Revision, Content, RevisionId
<1>2. ColumnTypes
  BY <1>1, IdleRequestType, NumContentsAssumption DEF Init, ColumnTypes, Content, RevisionId
<1>3. RequestShape
  BY DEF Init, RequestShape, HasView, Pending, IdleRequest
<1> QED
  BY <1>2, <1>3 DEF TypeInv

\* Every step keeps the types and the shape of the requests.
LEMMA TypeStep == TypeInv /\ [Next]_vars => TypeInv'
<1> SUFFICES ASSUME TypeInv, [Next]_vars PROVE TypeInv'
  OBVIOUS
<1> USE DEF TypeInv
<1>1. CASE UNCHANGED vars
  BY <1>1 DEF vars, ColumnTypes, RequestShape, HasView, Pending
<1>2. ASSUME NEW s \in Session, NEW base \in revisions, TryLockForContent(s, base)
      PROVE  TypeInv'
  <2>1. base \in Revision /\ base.content \in Content /\ base.id \in Nat
    BY <1>2 DEF ColumnTypes, Revision, RevisionId
  <2>2. [IdleRequest EXCEPT !.pc = "locked", !.op = "patch", !.content = base.content,
                            !.base = base.id] \in Request
    BY <2>1 DEF IdleRequest, Request, Phase, AllOperations
  <2>3. LockedRevision(base.id) \in Nat
    BY <2>1 DEF LockedRevision
  <2>4. ColumnTypes'
    BY <1>2, <2>1, <2>2, <2>3 DEF ColumnTypes, TryLockForContent
  <2>5. RequestShape'
    BY <1>2 DEF ColumnTypes, RequestShape, HasView, Pending, TryLockForContent, IdleRequest
  <2> QED
    BY <2>4, <2>5
<1>3. ASSUME NEW s \in Session, LoadForPatch(s)
      PROVE  TypeInv'
  <2>1. PICK r \in Current(req[s].content) :
           req' = [req EXCEPT ![s].pc = "loaded", ![s].view = r]
    BY <1>3 DEF LoadForPatch
  <2>2. r \in Revision /\ r.content = req[s].content
    BY DEF Current, ColumnTypes
  <2>3. ColumnTypes'
    <3>1. req' \in [Session -> Request]
      BY <2>1, <2>2 DEF ColumnTypes, Request, Phase
    <3> QED
      BY <1>3, <3>1 DEF ColumnTypes, LoadForPatch
  <2>4. RequestShape'
    BY <1>3, <2>1, <2>2 DEF ColumnTypes, RequestShape, HasView, Pending, LoadForPatch, Request
  <2> QED
    BY <2>3, <2>4
<1>4. ASSUME NEW s \in Session, NEW c \in Content, NEW op \in Operation, LoadForWrite(s, c, op)
      PROVE  TypeInv'
  <2>1. PICK r \in Current(c) :
           req' = [req EXCEPT ![s] = [IdleRequest EXCEPT !.pc = "loaded", !.op = op,
                                                         !.content = c, !.view = r]]
    BY <1>4 DEF LoadForWrite
  <2>2. r \in Revision /\ r.content = c
    BY DEF Current, ColumnTypes
  <2>3. [IdleRequest EXCEPT !.pc = "loaded", !.op = op, !.content = c, !.view = r] \in Request
    BY <2>2, OperationAssumption DEF IdleRequest, Request, Phase
  <2>4. ColumnTypes'
    BY <1>4, <2>1, <2>3 DEF ColumnTypes, LoadForWrite
  <2>5. RequestShape'
    BY <1>4, <2>1, <2>2 DEF ColumnTypes, RequestShape, HasView, Pending, LoadForWrite, IdleRequest
  <2> QED
    BY <2>4, <2>5
<1>5. ASSUME NEW s \in Session, CheckBase(s)
      PROVE  TypeInv'
  <2>1. CASE BaseIsUpToDate(s)
    <3>1. ColumnTypes'
      BY <1>5, <2>1 DEF ColumnTypes, CheckBase, Request, Phase
    <3>2. RequestShape'
      BY <1>5, <2>1 DEF ColumnTypes, RequestShape, HasView, Pending, CheckBase, Request
    <3> QED
      BY <3>1, <3>2
  <2>2. CASE ~ BaseIsUpToDate(s)
    BY <1>5, <2>2, RollbackType DEF CheckBase
  <2> QED
    BY <2>1, <2>2
<1>6. ASSUME NEW s \in Session, InsertRevision(s)
      PROVE  TypeInv'
  <2> DEFINE new == Edited(NewFrom(s), req[s].op)
  <2>1. /\ new \in Revision
        /\ new.content = req[s].content
        /\ new.from = req[s].view.id
        /\ new.by = req[s].op
        /\ new.base = req[s].base
    BY <1>6, NewRevisionType DEF InsertRevision
  <2>2. req' = [req EXCEPT ![s].pc = "inserted", ![s].new = new]
    BY <1>6 DEF InsertRevision
  <2>3. req[s].pc \in {"loaded", "checked"}
    BY <1>6 DEF InsertRevision, ReadyToInsert
  <2> HIDE DEF new
  <2>4. ColumnTypes'
    <3>1. req' \in [Session -> Request]
      BY <2>1, <2>2 DEF ColumnTypes, Request, Phase
    <3>2. rowOwner' \in [Content -> Session \cup {None}]
      BY <1>6 DEF ColumnTypes, InsertRevision
    <3> QED
      BY <1>6, <3>1, <3>2 DEF ColumnTypes, InsertRevision, RevisionId
  <2>5. RequestShape'
    BY <2>1, <2>2, <2>3 DEF ColumnTypes, RequestShape, HasView, Pending, Request
  <2> QED
    BY <2>4, <2>5
<1>7. ASSUME NEW s \in Session, RefuseUpdate(s)
      PROVE  TypeInv'
  BY <1>7, RollbackType DEF RefuseUpdate
<1>8. ASSUME NEW s \in Session, RepointContent(s)
      PROVE  TypeInv'
  <2>1. ColumnTypes'
    BY <1>8 DEF ColumnTypes, RepointContent, Request, Phase
  <2>2. RequestShape'
    BY <1>8 DEF ColumnTypes, RequestShape, HasView, Pending, RepointContent, Request
  <2> QED
    BY <2>1, <2>2
<1>9. ASSUME NEW s \in Session, Commit(s)
      PROVE  TypeInv'
  <2>1. req[s].new \in Revision
    BY <1>9 DEF Commit, RequestShape, Pending
  <2>2. ColumnTypes'
    BY <1>9, <2>1, IdleRequestType DEF ColumnTypes, Commit, EndTransaction, LocksOf, Request, Revision
  <2>3. RequestShape'
    BY <1>9 DEF ColumnTypes, RequestShape, HasView, Pending, Commit, EndTransaction, IdleRequest
  <2> QED
    BY <2>2, <2>3
<1>10. ASSUME NEW s \in Session, Abort(s)
       PROVE  TypeInv'
  BY <1>10, RollbackType DEF Abort
<1> QED
  BY <1>1, <1>2, <1>3, <1>4, <1>5, <1>6, <1>7, <1>8, <1>9, <1>10 DEF Next, Progress

-----------------------------------------------------------------------------
(***************************************************************************)
(* Revision ids are never given twice, though SQLite gives one that was    *)
(* rolled back again: there, only one session has a pending revision, and  *)
(* it is the newest.                                                       *)
(***************************************************************************)
IdInv ==
    /\ \A r \in revisions : r.id < nextId
    /\ \A s \in Session : Pending(s) =>
          /\ req[s].new.id < nextId
          /\ \A r \in revisions : r.id # req[s].new.id
          /\ \A t \in Session \ {s} : Pending(t) => req[t].new.id # req[s].new.id
          /\ Dialect = "sqlite" =>
                /\ \A c \in Content : rowOwner[c] = s
                /\ nextId = req[s].new.id + 1

\* A step is one of these: all that ends in an error is a rollback.
LEMMA StepCases ==
    ASSUME [Next]_vars
    PROVE  \/ UNCHANGED vars
           \/ \E s \in Session :
                 \/ \E base \in revisions : TryLockForContent(s, base)
                 \/ LoadForPatch(s)
                 \/ \E c \in Content, op \in Operation : LoadForWrite(s, c, op)
                 \/ CheckBase(s) /\ BaseIsUpToDate(s)
                 \/ InsertRevision(s)
                 \/ RepointContent(s)
                 \/ Commit(s)
                 \/ Rollback(s)
  BY DEF Next, Progress, CheckBase, RefuseUpdate, Abort

\* Only a commit changes what is stored, and it stores what it makes current.
LEMMA CurrentIsStored ==
    /\ Init => \A c \in Content : Current(c) # {}
    /\ TypeInv /\ (\A c \in Content : Current(c) # {}) /\ [Next]_vars
          => \A c \in Content : Current(c)' # {}
<1>1. ASSUME Init, NEW c \in Content PROVE Current(c) # {}
  <2>1. FirstRevision(c) \in Current(c)
    BY <1>1 DEF Init, Current, FirstRevision
  <2> QED
    BY <2>1
<1>2. ASSUME TypeInv, \A c \in Content : Current(c) # {}, [Next]_vars, NEW c \in Content
      PROVE  Current(c)' # {}
  <2>1. CASE UNCHANGED <<revisions, cached>>
    BY <1>2, <2>1 DEF Current
  <2>2. ASSUME NEW s \in Session, Commit(s) PROVE Current(c)' # {}
    <3>1. req[s].new.content = req[s].content /\ cached \in [Content -> RevisionId]
      BY <1>2, <2>2 DEF TypeInv, ColumnTypes, RequestShape, Pending, Commit
    <3>2. CASE c = req[s].content
      <4>1. req[s].new \in Current(c)'
        BY <2>2, <3>1, <3>2 DEF Commit, Current
      <4> QED
        BY <4>1
    <3>3. CASE c # req[s].content
      <4>1. cached'[c] = cached[c] /\ revisions \subseteq revisions'
        BY <2>2, <3>1, <3>3 DEF Commit
      <4>2. Current(c) \subseteq Current(c)'
        BY <4>1 DEF Current
      <4> QED
        BY <1>2, <4>2
    <3> QED
      BY <3>2, <3>3
  <2> QED
    BY <1>2, <2>1, <2>2, StepCases
       DEF vars, TryLockForContent, LoadForPatch, LoadForWrite, CheckBase, InsertRevision,
           RepointContent, Rollback
<1> QED
  BY <1>1, <1>2

(***************************************************************************)
(* In every reachable state the columns, lock tables and sessions hold     *)
(* what their types allow, and no content is left without its current      *)
(* revision.                                                               *)
(***************************************************************************)
THEOREM TypeCorrect == Spec => []TypeOK
<1> DEFINE Stored == \A c \in Content : Current(c) # {}
<1>1. TypeInv /\ Stored => TypeOK
  BY DEF TypeInv, ColumnTypes, TypeOK
<1>2. Init => Stored
  BY CurrentIsStored
<1>3. TypeInv /\ Stored /\ [Next]_vars => Stored'
  BY CurrentIsStored
<1> HIDE DEF Stored
<1> QED
  BY <1>1, <1>2, <1>3, TypeInit, TypeStep, PTL DEF Spec

\* At start the ids given are those of the first revisions.
LEMMA IdInit == Init => IdInv
  BY NumContentsAssumption DEF Init, IdInv, Pending, IdleRequest, FirstRevision, Content

\* No step gives an id that a committed or pending revision bears.
LEMMA IdStep == TypeInv /\ IdInv /\ [Next]_vars => IdInv'
<1> SUFFICES ASSUME TypeInv, IdInv, [Next]_vars PROVE IdInv'
  OBVIOUS
<1>0. /\ nextId \in Nat
      /\ \A r \in revisions : r.id \in Nat
      /\ \A s \in Session : Pending(s) => req[s].new \in Revision /\ req[s].new.id \in Nat
      /\ req \in [Session -> Request]
      /\ rowOwner \in [Content -> Session \cup {None}]
  BY DEF TypeInv, ColumnTypes, RequestShape, Revision, RevisionId
<1>1. CASE UNCHANGED vars
  BY <1>1 DEF vars, IdInv, Pending
<1>2. ASSUME NEW s \in Session, NEW base \in revisions, TryLockForContent(s, base)
      PROVE  IdInv'
  BY <1>2, <1>0 DEF IdInv, Pending, TryLockForContent, IdleRequest
<1>3. ASSUME NEW s \in Session, LoadForPatch(s)
      PROVE  IdInv'
  BY <1>3, <1>0 DEF IdInv, Pending, LoadForPatch
<1>4. ASSUME NEW s \in Session, NEW c \in Content, NEW op \in Operation, LoadForWrite(s, c, op)
      PROVE  IdInv'
  BY <1>4, <1>0 DEF IdInv, Pending, LoadForWrite, IdleRequest
<1>5. ASSUME NEW s \in Session, CheckBase(s), BaseIsUpToDate(s)
      PROVE  IdInv'
  <2>1. /\ req[s].pc = "loaded"
        /\ req' = [req EXCEPT ![s].pc = "checked"]
        /\ UNCHANGED <<revisions, nextId, rowOwner>>
    BY <1>5 DEF CheckBase
  <2>2. \A t \in Session : /\ Pending(t)' <=> Pending(t)
                           /\ Pending(t) => req'[t] = req[t]
    BY <2>1, <1>0 DEF Pending, Request
  <2> QED
    BY <2>1, <2>2 DEF IdInv
<1>6. ASSUME NEW s \in Session, InsertRevision(s)
      PROVE  IdInv'
  <2> DEFINE new == Edited(NewFrom(s), req[s].op)
  <2>1. new.id = nextId
    BY <1>6, NewRevisionType DEF InsertRevision
  <2>2. req' = [req EXCEPT ![s].pc = "inserted", ![s].new = new]
    BY <1>6 DEF InsertRevision
  <2> HIDE DEF new
  <2>3. Dialect = "sqlite" => \A t \in Session : ~ Pending(t)
    BY <1>6, SessionAssumption, NumContentsAssumption DEF InsertRevision, MayWrite, IdInv, Content
  <2>4. /\ nextId' = nextId + 1
        /\ revisions' = revisions
        /\ Dialect = "sqlite" => \A c \in Content : rowOwner'[c] = s
    BY <1>6 DEF InsertRevision
  <2>5. \A t \in Session \ {s} : req'[t] = req[t]
    BY <2>2, <1>0
  <2>6. req'[s].new = new /\ req'[s].pc = "inserted"
    BY <2>2, <1>0 DEF Request
  <2> QED
    BY <1>0, <2>1, <2>3, <2>4, <2>5, <2>6 DEF IdInv, Pending
<1>7. ASSUME NEW s \in Session, RepointContent(s)
      PROVE  IdInv'
  <2>1. /\ req' = [req EXCEPT ![s].pc = "flushed"]
        /\ rowOwner' = [rowOwner EXCEPT ![req[s].content] = s]
        /\ revisions' = revisions /\ nextId' = nextId
        /\ Pending(s)
    BY <1>7 DEF RepointContent, Pending
  <2>2. \A t \in Session : /\ Pending(t)' <=> Pending(t)
                           /\ req'[t].new = req[t].new
    BY <2>1, <1>0 DEF Pending, Request
  <2>3. Dialect = "sqlite" => \A t \in Session : Pending(t) => t = s
    BY <2>1, NumContentsAssumption DEF IdInv, Content
  <2> QED
    BY <1>0, <2>1, <2>2, <2>3 DEF IdInv
<1>8. ASSUME NEW s \in Session, Commit(s)
      PROVE  IdInv'
  <2>1. /\ req' = [req EXCEPT ![s] = IdleRequest]
        /\ rowOwner' = [c \in Content |-> IF rowOwner[c] = s THEN None ELSE rowOwner[c]]
        /\ revisions' = revisions \cup {req[s].new}
        /\ nextId' = nextId
        /\ Pending(s)
    BY <1>8 DEF Commit, EndTransaction, Pending
  <2>2. \A t \in Session : Pending(t)' => t # s /\ Pending(t) /\ req'[t] = req[t]
    BY <2>1, <1>0 DEF Pending, IdleRequest
  <2> QED
    BY <1>0, <2>1, <2>2 DEF IdInv
<1>9. ASSUME NEW s \in Session, Rollback(s)
      PROVE  IdInv'
  <2>1. /\ req' = [req EXCEPT ![s] = IdleRequest]
        /\ rowOwner' = [c \in Content |-> IF rowOwner[c] = s THEN None ELSE rowOwner[c]]
        /\ revisions' = revisions
        /\ nextId' = IF Dialect = "sqlite" /\ req[s].new # None THEN req[s].new.id ELSE nextId
    BY <1>9 DEF Rollback, EndTransaction
  <2>2. \A t \in Session : Pending(t)' => t # s /\ Pending(t) /\ req'[t] = req[t]
    BY <2>1, <1>0 DEF Pending, IdleRequest
  <2>3. CASE Dialect = "sqlite" /\ req[s].new # None
    <3>1. Pending(s)
      BY <2>3 DEF TypeInv, RequestShape
    <3>2. \A t \in Session : ~ Pending(t)'
      BY <2>2, <2>3, <3>1, NumContentsAssumption DEF IdInv, Content
    <3>3. \A r \in revisions : r.id < req[s].new.id
      BY <2>3, <3>1, <1>0 DEF IdInv
    <3> QED
      BY <2>1, <2>3, <3>2, <3>3 DEF IdInv
  <2>4. CASE ~ (Dialect = "sqlite" /\ req[s].new # None)
    BY <1>0, <2>1, <2>2, <2>4 DEF IdInv
  <2> QED
    BY <2>3, <2>4
<1> QED
  BY <1>1, <1>2, <1>3, <1>4, <1>5, <1>6, <1>7, <1>8, <1>9, StepCases

(***************************************************************************)
(* On SQLite the current revision of a content is its newest one, with any *)
(* mix of operations: the one session that has a pending revision holds    *)
(* the last id given.                                                      *)
(***************************************************************************)
THEOREM SQLiteKeepsIdOrder == ASSUME Dialect = "sqlite" PROVE Spec => []CurrentIsNewest
<1>1. Init => CurrentIsNewest
  <2> SUFFICES ASSUME Init, NEW c \in Content PROVE FirstRevision(c).id <= cached[FirstRevision(c).content]
    BY DEF Init, CurrentIsNewest
  <2>1. c \in Nat /\ cached[c] = c
    BY NumContentsAssumption DEF Init, Content
  <2> QED
    BY <2>1 DEF FirstRevision
<1>2. TypeInv /\ IdInv /\ CurrentIsNewest /\ [Next]_vars => CurrentIsNewest'
  <2> SUFFICES ASSUME TypeInv, IdInv, CurrentIsNewest, [Next]_vars PROVE CurrentIsNewest'
    OBVIOUS
  <2>1. CASE UNCHANGED <<revisions, cached>>
    BY <2>1 DEF CurrentIsNewest
  <2>2. ASSUME NEW s \in Session, Commit(s)
        PROVE  CurrentIsNewest'
    <3>1. /\ revisions' = revisions \cup {req[s].new}
          /\ cached' = [cached EXCEPT ![req[s].content] = req[s].new.id]
          /\ Pending(s)
      BY <2>2 DEF Commit, Pending
    <3>2. /\ req[s].new.content = req[s].content
          /\ req[s].content \in Content
          /\ req[s].new.id \in Nat
          /\ cached \in [Content -> RevisionId]
          /\ \A r \in revisions : r.id \in Nat
      BY <3>1 DEF TypeInv, ColumnTypes, RequestShape, Request, Revision, RevisionId
    <3>3. \A r \in revisions : r.id <= req[s].new.id
      BY <3>1, <3>2 DEF IdInv
    <3> QED
      BY <3>1, <3>2, <3>3 DEF CurrentIsNewest
  <2> QED
    BY <2>1, <2>2, StepCases DEF vars, TryLockForContent, LoadForPatch, LoadForWrite, CheckBase,
       InsertRevision, RepointContent, Rollback
<1> QED
  BY <1>1, <1>2, TypeInit, TypeStep, IdInit, IdStep, PTL DEF Spec

-----------------------------------------------------------------------------
(***************************************************************************)
(* A request that patches holds its content lock from its first step to    *)
(* its last, and no two sessions hold the same one.                        *)
(***************************************************************************)
IsPatching(s) == req[s].op = "patch" /\ req[s].pc # "idle"
HoldsLock(s) == <<req[s].content, LockedRevision(req[s].base), s>> \in held
LockedOnce == \A k, l \in held : k[1] = l[1] /\ k[2] = l[2] => k[3] = l[3]

LockInv == LockedOnce /\ \A s \in Session : LockInUse /\ IsPatching(s) => HoldsLock(s)

\* At start nobody patches and no lock is held.
LEMMA LockInit == Init => LockInv
  BY DEF Init, LockInv, LockedOnce, IsPatching, IdleRequest

\* A lock is taken with the request that patches and given back with it.
LEMMA LockStep == TypeInv /\ LockInv /\ [Next]_vars => LockInv'
<1> SUFFICES ASSUME TypeInv, LockInv, [Next]_vars PROVE LockInv'
  OBVIOUS
<1>0. /\ req \in [Session -> Request]
      /\ \A k \in held : /\ k[1] \in Content /\ k[2] \in Nat /\ k[3] \in Session
                         /\ k = <<k[1], k[2], k[3]>>
  BY DEF TypeInv, ColumnTypes
\* A step that keeps the locks and starts no patch.
<1>a. ASSUME UNCHANGED held,
             \A t \in Session : IsPatching(t)' => /\ IsPatching(t)
                                                 /\ req'[t].content = req[t].content
                                                 /\ req'[t].base = req[t].base
      PROVE  LockInv'
  BY <1>a DEF LockInv, LockedOnce, HoldsLock, LockedRevision
\* A transaction that ends gives back its own locks only.
<1>b. ASSUME NEW s \in Session, EndTransaction(s)
      PROVE  LockInv'
  <2>1. \A t \in Session : IsPatching(t)' => t # s /\ IsPatching(t) /\ req'[t] = req[t]
    BY <1>b, <1>0 DEF EndTransaction, IsPatching, IdleRequest
  <2>2. held' \subseteq held
    BY <1>b DEF EndTransaction
  <2>3. \A t \in Session \ {s} : HoldsLock(t) /\ req'[t] = req[t] => HoldsLock(t)'
    <3> SUFFICES ASSUME NEW t \in Session \ {s}, HoldsLock(t), req'[t] = req[t]
                 PROVE  HoldsLock(t)'
      OBVIOUS
    <3> DEFINE k == <<req[t].content, LockedRevision(req[t].base), t>>
    <3>1. k \in held /\ k[3] # s
      BY DEF HoldsLock
    <3>2. k \in held'
      BY <1>b, <3>1 DEF EndTransaction, LocksOf
    <3> QED
      BY <3>2 DEF HoldsLock, LockedRevision
  <2> QED
    BY <2>1, <2>2, <2>3 DEF LockInv, LockedOnce
<1>1. CASE UNCHANGED vars
  BY <1>1, <1>a DEF vars, IsPatching
<1>2. ASSUME NEW s \in Session, NEW base \in revisions, TryLockForContent(s, base)
      PROVE  LockInv'
  <2>1. base.content \in Content /\ base.id \in Nat
    BY DEF TypeInv, ColumnTypes, Revision, RevisionId
  <2>2. \A t \in Session \ {s} : req'[t] = req[t]
    BY <1>2, <1>0 DEF TryLockForContent
  <2>3. req'[s].content = base.content /\ req'[s].base = base.id
    BY <1>2, <1>0 DEF TryLockForContent, IdleRequest
  <2>4. CASE ~ LockInUse
    BY <1>2, <2>4 DEF LockInv, LockedOnce, TryLockForContent, LockInUse
  <2>5. CASE LockInUse
    <3> DEFINE new == <<base.content, LockedRevision(base.id), s>>
    <3>1. held' = held \cup {new} /\ ~ LockHeld(base.content, base.id)
      BY <1>2, <2>5 DEF TryLockForContent
    <3>2. \A k \in held : ~ (k[1] = new[1] /\ k[2] = new[2])
      BY <3>1, <1>0 DEF LockHeld
    <3>3. LockedOnce'
      BY <3>1, <3>2 DEF LockInv, LockedOnce
    <3>4. HoldsLock(s)'
      BY <3>1, <2>3 DEF HoldsLock, LockedRevision
    <3>5. \A t \in Session \ {s} : (LockInUse /\ IsPatching(t) => HoldsLock(t))'
      BY <3>1, <2>2 DEF LockInv, IsPatching, HoldsLock, LockedRevision, LockInUse
    <3> QED
      BY <3>3, <3>4, <3>5 DEF LockInv
  <2> QED
    BY <2>4, <2>5
<1>3. ASSUME NEW s \in Session, LoadForPatch(s)
      PROVE  LockInv'
  BY <1>3, <1>a, <1>0 DEF LoadForPatch, IsPatching, Request
<1>4. ASSUME NEW s \in Session, NEW c \in Content, NEW op \in Operation, LoadForWrite(s, c, op)
      PROVE  LockInv'
  BY <1>4, <1>a, <1>0 DEF LoadForWrite, IsPatching, IdleRequest
<1>5. ASSUME NEW s \in Session, CheckBase(s), BaseIsUpToDate(s)
      PROVE  LockInv'
  BY <1>5, <1>a, <1>0 DEF CheckBase, IsPatching, Request
<1>6. ASSUME NEW s \in Session, InsertRevision(s)
      PROVE  LockInv'
  <2>1. /\ UNCHANGED held
        /\ req[s].pc # "idle"
        /\ req' = [req EXCEPT ![s].pc = "inserted", ![s].new = Edited(NewFrom(s), req[s].op)]
    BY <1>6 DEF InsertRevision, ReadyToInsert
  <2> QED
    BY <2>1, <1>a, <1>0 DEF IsPatching, Request
<1>7. ASSUME NEW s \in Session, RepointContent(s)
      PROVE  LockInv'
  BY <1>7, <1>a, <1>0 DEF RepointContent, IsPatching, Request
<1>8. ASSUME NEW s \in Session, Commit(s)
      PROVE  LockInv'
  BY <1>8, <1>b DEF Commit
<1>9. ASSUME NEW s \in Session, Rollback(s)
      PROVE  LockInv'
  BY <1>9, <1>b DEF Rollback
<1> QED
  BY <1>1, <1>2, <1>3, <1>4, <1>5, <1>6, <1>7, <1>8, <1>9, StepCases

-----------------------------------------------------------------------------
(***************************************************************************)
(* The base of a patch is a committed revision.  An id becomes current     *)
(* once, when its revision is committed; so a base that is current at      *)
(* check 2 was current when the content was loaded.                        *)
(***************************************************************************)
Committed(i) == \E r \in revisions : r.id = i

BaseInv ==
    /\ \A s \in Session : IsPatching(s) => Committed(req[s].base)
    /\ \A p \in Patches : Committed(p.base)
    /\ \A s \in Session :
          IsPatching(s) /\ req[s].pc = "loaded" /\ BaseIsUpToDate(s) => req[s].view.id = req[s].base
    /\ PatchIsOfItsBase

\* At start nobody patches.
LEMMA BaseInit == Init => BaseInv
  BY DEF Init, BaseInv, IsPatching, IdleRequest, Patches, FirstRevision, PatchIsOfItsBase, PastChecks

\* A content that was loaded before its base became current fails check 2.
LEMMA BaseStep == TypeInv /\ IdInv /\ BaseInv /\ [Next]_vars => BaseInv'
<1> SUFFICES ASSUME TypeInv, IdInv, BaseInv, [Next]_vars PROVE BaseInv'
  OBVIOUS
<1>0. req \in [Session -> Request]
  BY DEF TypeInv, ColumnTypes
\* A step that commits nothing, for the sessions it leaves alone or idle.
<1>a. ASSUME UNCHANGED <<revisions, cached>>, NEW s \in Session,
             \A t \in Session \ {s} : req'[t] = req[t],
             IsPatching(s)' => /\ Committed(req'[s].base)
                               /\ req'[s].pc = "loaded" /\ BaseIsUpToDate(s)' =>
                                     req'[s].view.id = req'[s].base
                               /\ PastChecks(s)' => req'[s].view.id = req'[s].base
      PROVE  BaseInv'
  BY <1>a DEF BaseInv, IsPatching, Committed, Patches, PatchIsOfItsBase, PastChecks, BaseIsUpToDate
<1>1. CASE UNCHANGED vars
  BY <1>1 DEF vars, BaseInv, IsPatching, Committed, Patches, PatchIsOfItsBase, PastChecks,
              BaseIsUpToDate
<1>2. ASSUME NEW s \in Session, NEW base \in revisions, TryLockForContent(s, base)
      PROVE  BaseInv'
  <2>1. /\ UNCHANGED <<revisions, cached>>
        /\ \A t \in Session \ {s} : req'[t] = req[t]
        /\ req'[s].base = base.id /\ req'[s].pc = "locked"
    BY <1>2, <1>0 DEF TryLockForContent, IdleRequest
  <2> QED
    BY <2>1, <1>a DEF Committed, PastChecks
<1>3. ASSUME NEW s \in Session, LoadForPatch(s)
      PROVE  BaseInv'
  <2>1. PICK r \in Current(req[s].content) :
           req' = [req EXCEPT ![s].pc = "loaded", ![s].view = r]
    BY <1>3 DEF LoadForPatch
  <2>2. /\ UNCHANGED <<revisions, cached>>
        /\ \A t \in Session \ {s} : req'[t] = req[t]
        /\ req'[s].base = req[s].base /\ req'[s].content = req[s].content
        /\ req'[s].op = req[s].op /\ req'[s].pc = "loaded" /\ req'[s].view = r
        /\ req[s].pc = "locked"
    BY <1>3, <2>1, <1>0 DEF LoadForPatch, Request
  <2>3. r.id = cached[req[s].content]
    BY DEF Current
  <2> QED
    BY <2>2, <2>3, <1>a DEF BaseInv, IsPatching, PastChecks, BaseIsUpToDate
<1>4. ASSUME NEW s \in Session, NEW c \in Content, NEW op \in Operation, LoadForWrite(s, c, op)
      PROVE  BaseInv'
  <2>1. /\ UNCHANGED <<revisions, cached>>
        /\ \A t \in Session \ {s} : req'[t] = req[t]
        /\ req'[s].op = op /\ op # "patch"
    BY <1>4, <1>0 DEF LoadForWrite, IdleRequest
  <2> QED
    BY <2>1, <1>a DEF IsPatching
<1>5. ASSUME NEW s \in Session, CheckBase(s), BaseIsUpToDate(s)
      PROVE  BaseInv'
  <2>1. /\ UNCHANGED <<revisions, cached>>
        /\ \A t \in Session \ {s} : req'[t] = req[t]
        /\ req'[s].base = req[s].base /\ req'[s].view = req[s].view
        /\ req'[s].pc = "checked"
        /\ req[s].pc = "loaded" /\ req[s].op = "patch"
    BY <1>5, <1>0 DEF CheckBase, Request
  <2> QED
    BY <2>1, <1>5, <1>a DEF BaseInv, IsPatching, Committed
<1>6. ASSUME NEW s \in Session, InsertRevision(s)
      PROVE  BaseInv'
  <2>1. /\ UNCHANGED <<revisions, cached>>
        /\ ReadyToInsert(s)
        /\ req' = [req EXCEPT ![s].pc = "inserted", ![s].new = Edited(NewFrom(s), req[s].op)]
    BY <1>6 DEF InsertRevision
  <2>2. /\ \A t \in Session \ {s} : req'[t] = req[t]
        /\ req'[s].base = req[s].base /\ req'[s].view = req[s].view
        /\ req'[s].pc = "inserted" /\ req'[s].op = req[s].op
    BY <2>1, <1>0 DEF Request
  <2>3. IsPatching(s)' => /\ IsPatching(s) /\ PastChecks(s)
                          /\ Committed(req'[s].base)
                          /\ req'[s].view.id = req'[s].base
    BY <2>1, <2>2 DEF BaseInv, IsPatching, PastChecks, PatchIsOfItsBase, ReadyToInsert
  <2> QED
    BY <2>1, <2>2, <2>3, <1>a
<1>7. ASSUME NEW s \in Session, RepointContent(s)
      PROVE  BaseInv'
  <2>1. /\ UNCHANGED <<revisions, cached>>
        /\ req[s].pc = "inserted"
        /\ req' = [req EXCEPT ![s].pc = "flushed"]
    BY <1>7 DEF RepointContent
  <2>2. /\ \A t \in Session \ {s} : req'[t] = req[t]
        /\ req'[s].base = req[s].base /\ req'[s].view = req[s].view
        /\ req'[s].pc = "flushed" /\ req'[s].op = req[s].op
    BY <2>1, <1>0 DEF Request
  <2>3. IsPatching(s)' => /\ IsPatching(s) /\ PastChecks(s)
                          /\ Committed(req'[s].base)
                          /\ req'[s].view.id = req'[s].base
    BY <2>1, <2>2 DEF BaseInv, IsPatching, PastChecks, PatchIsOfItsBase
  <2> QED
    BY <2>1, <2>2, <2>3, <1>a
<1>8. ASSUME NEW s \in Session, Commit(s)
      PROVE  BaseInv'
  <2>1. /\ revisions' = revisions \cup {req[s].new}
        /\ cached' = [cached EXCEPT ![req[s].content] = req[s].new.id]
        /\ req' = [req EXCEPT ![s] = IdleRequest]
        /\ Pending(s)
    BY <1>8 DEF Commit, EndTransaction, Pending
  <2>2. /\ \A t \in Session \ {s} : req'[t] = req[t]
        /\ ~ IsPatching(s)' /\ ~ PastChecks(s)'
    BY <2>1, <1>0 DEF IsPatching, PastChecks, IdleRequest
  <2>3. \A i : Committed(i) => Committed(i)' /\ i # req[s].new.id
    BY <2>1 DEF Committed, IdInv
  <2>4. \A p \in Patches' : Committed(p.base)'
    <3>1. req[s].new.by = "patch" => IsPatching(s) /\ req[s].new.base = req[s].base
      BY <2>1 DEF TypeInv, RequestShape, IsPatching, Pending
    <3> QED
      BY <2>1, <2>3, <3>1 DEF Patches, BaseInv
  <2>5. ASSUME NEW t \in Session \ {s}, IsPatching(t), req[t].pc = "loaded", BaseIsUpToDate(t)'
        PROVE  req[t].view.id = req[t].base
    <3>1. req[t].base # req[s].new.id
      BY <2>3, <2>5 DEF BaseInv
    <3>2. req[t].content \in Content /\ cached \in [Content -> RevisionId]
      BY <1>0 DEF Request, TypeInv, ColumnTypes
    <3>3. BaseIsUpToDate(t)
      BY <2>1, <2>2, <2>5, <3>1, <3>2 DEF BaseIsUpToDate
    <3> QED
      BY <2>5, <3>3 DEF BaseInv
  <2> QED
    BY <2>2, <2>3, <2>4, <2>5 DEF BaseInv, IsPatching, PatchIsOfItsBase, PastChecks
<1>9. ASSUME NEW s \in Session, Rollback(s)
      PROVE  BaseInv'
  <2>1. /\ UNCHANGED <<revisions, cached>>
        /\ \A t \in Session \ {s} : req'[t] = req[t]
        /\ ~ IsPatching(s)'
    BY <1>9, <1>0 DEF Rollback, EndTransaction, IsPatching, IdleRequest
  <2> QED
    BY <2>1, <1>a
<1> QED
  BY <1>1, <1>2, <1>3, <1>4, <1>5, <1>6, <1>7, <1>8, <1>9, StepCases

(***************************************************************************)
(* A patch that has passed its checks is computed on the file of its base, *)
(* on every database and with or without locks.                            *)
(***************************************************************************)
THEOREM PatchedFileIsTheBase == Spec => []PatchIsOfItsBase
<1>1. BaseInv => PatchIsOfItsBase
  BY DEF BaseInv
<1> QED
  BY <1>1, TypeInit, TypeStep, IdInit, IdStep, BaseInit, BaseStep, PTL DEF Spec

-----------------------------------------------------------------------------
(***************************************************************************)
(* With the lock in use, nobody else patches a base between the check of a *)
(* request and its commit, and a base that was patched is never current    *)
(* again.                                                                  *)
(***************************************************************************)
PatchInv ==
    /\ \A p \in Patches : cached[p.content] # p.base
    /\ \A s \in Session : PastChecks(s) =>
          \A p \in Patches : p.content = req[s].content => p.base # req[s].base
    /\ OnePatchPerBase

\* At start there is no patch.
LEMMA PatchInit == Init => PatchInv
  BY DEF Init, PatchInv, Patches, FirstRevision, OnePatchPerBase

\* Two requests past their checks with one base are one request.
LEMMA LockExcludes ==
    ASSUME LockInUse, LockInv, NEW s \in Session, NEW t \in Session, PastChecks(s), PastChecks(t),
           req[s].content = req[t].content, req[s].base = req[t].base
    PROVE  s = t
<1>1. HoldsLock(s) /\ HoldsLock(t)
  BY DEF LockInv, PastChecks, IsPatching
<1> QED
  BY <1>1 DEF LockInv, LockedOnce, HoldsLock

\* The only session that may commit a patch on a base is the one that locks it.
LEMMA PatchStep ==
    ASSUME LockInUse
    PROVE  TypeInv /\ IdInv /\ LockInv /\ BaseInv /\ PatchInv /\ [Next]_vars => PatchInv'
<1> SUFFICES ASSUME TypeInv, IdInv, LockInv, BaseInv, PatchInv, [Next]_vars PROVE PatchInv'
  OBVIOUS
<1>0. req \in [Session -> Request] /\ cached \in [Content -> RevisionId]
  BY DEF TypeInv, ColumnTypes
\* A step that commits nothing and passes no check.
<1>a. ASSUME UNCHANGED <<revisions, cached>>,
             \A t \in Session : PastChecks(t)' => /\ PastChecks(t)
                                                 /\ req'[t].content = req[t].content
                                                 /\ req'[t].base = req[t].base
      PROVE  PatchInv'
  BY <1>a DEF PatchInv, Patches, OnePatchPerBase
<1>1. CASE UNCHANGED vars
  BY <1>1, <1>a DEF vars, PastChecks
<1>2. ASSUME NEW s \in Session, NEW base \in revisions, TryLockForContent(s, base)
      PROVE  PatchInv'
  BY <1>2, <1>a, <1>0 DEF TryLockForContent, PastChecks, IdleRequest
<1>3. ASSUME NEW s \in Session, LoadForPatch(s)
      PROVE  PatchInv'
  BY <1>3, <1>a, <1>0 DEF LoadForPatch, PastChecks, Request
<1>4. ASSUME NEW s \in Session, NEW c \in Content, NEW op \in Operation, LoadForWrite(s, c, op)
      PROVE  PatchInv'
  BY <1>4, <1>a, <1>0 DEF LoadForWrite, PastChecks, IdleRequest
<1>5. ASSUME NEW s \in Session, CheckBase(s), BaseIsUpToDate(s)
      PROVE  PatchInv'
  <2>1. /\ UNCHANGED <<revisions, cached>>
        /\ req' = [req EXCEPT ![s].pc = "checked"]
    BY <1>5 DEF CheckBase
  <2>2. \A t \in Session : /\ req'[t].content = req[t].content
                           /\ req'[t].base = req[t].base
                           /\ PastChecks(t)' => t = s \/ PastChecks(t)
    BY <2>1, <1>0 DEF PastChecks, Request
  <2>3. \A p \in Patches : p.content = req[s].content => p.base # req[s].base
    BY <1>5 DEF BaseIsUpToDate, PatchInv
  <2> QED
    BY <2>1, <2>2, <2>3 DEF PatchInv, Patches, OnePatchPerBase
<1>6. ASSUME NEW s \in Session, InsertRevision(s)
      PROVE  PatchInv'
  <2>1. /\ UNCHANGED <<revisions, cached>>
        /\ ReadyToInsert(s)
        /\ req' = [req EXCEPT ![s].pc = "inserted", ![s].new = Edited(NewFrom(s), req[s].op)]
    BY <1>6 DEF InsertRevision
  <2> QED
    BY <2>1, <1>a, <1>0 DEF PastChecks, Request, ReadyToInsert
<1>7. ASSUME NEW s \in Session, RepointContent(s)
      PROVE  PatchInv'
  <2>1. /\ UNCHANGED <<revisions, cached>>
        /\ req[s].pc = "inserted"
        /\ req' = [req EXCEPT ![s].pc = "flushed"]
    BY <1>7 DEF RepointContent
  <2> QED
    BY <2>1, <1>a, <1>0 DEF PastChecks, Request
<1>8. ASSUME NEW s \in Session, Commit(s)
      PROVE  PatchInv'
  <2> DEFINE new == req[s].new
  <2>1. /\ revisions' = revisions \cup {new}
        /\ cached' = [cached EXCEPT ![req[s].content] = new.id]
        /\ req' = [req EXCEPT ![s] = IdleRequest]
        /\ Pending(s)
    BY <1>8 DEF Commit, EndTransaction, Pending
  <2>2. new.content = req[s].content /\ new.by = req[s].op /\ new.base = req[s].base
    BY <2>1 DEF TypeInv, RequestShape
  <2>3. \A t \in Session : PastChecks(t)' => t # s /\ PastChecks(t) /\ req'[t] = req[t]
    BY <2>1, <1>0 DEF PastChecks, IdleRequest
  <2>4. new.by = "patch" => PastChecks(s)
    BY <2>1, <2>2 DEF PastChecks, Pending
  <2>5. \A i : Committed(i) => i # new.id
    BY <2>1 DEF Committed, IdInv
  <2>6. Patches' = IF new.by = "patch" THEN Patches \cup {new} ELSE Patches
    BY <2>1 DEF Patches
  <2>7. \A p \in Patches' : cached'[p.content] # p.base
    <3> SUFFICES ASSUME NEW p \in Patches' PROVE cached'[p.content] # p.base
      OBVIOUS
    <3>1. Committed(p.base)
      BY <2>2, <2>4, <2>6 DEF BaseInv, PastChecks, IsPatching
    <3>2. CASE p.content = req[s].content
      BY <2>1, <2>5, <3>1, <3>2, <1>0 DEF Request
    <3>3. CASE p.content # req[s].content
      BY <2>1, <2>2, <2>6, <3>3 DEF PatchInv
    <3> QED
      BY <3>2, <3>3
  <2>8. \A t \in Session : PastChecks(t)' =>
           \A p \in Patches' : p.content = req'[t].content => p.base # req'[t].base
    BY <2>2, <2>3, <2>4, <2>6, LockExcludes DEF PatchInv
  <2>9. OnePatchPerBase'
    BY <2>2, <2>4, <2>6 DEF PatchInv, OnePatchPerBase
  <2> QED
    BY <2>7, <2>8, <2>9 DEF PatchInv
<1>9. ASSUME NEW s \in Session, Rollback(s)
      PROVE  PatchInv'
  BY <1>9, <1>a, <1>0 DEF Rollback, EndTransaction, PastChecks, IdleRequest
<1> QED
  BY <1>1, <1>2, <1>3, <1>4, <1>5, <1>6, <1>7, <1>8, <1>9, StepCases

(***************************************************************************)
(* Only one patch is ever applied on a given base revision, provided the   *)
(* content locks are in use: always on PostgreSQL, by default on SQLite.   *)
(***************************************************************************)
THEOREM PatchesAreExclusive == ASSUME LockInUse PROVE Spec => []OnePatchPerBase
<1>1. PatchInv => OnePatchPerBase
  BY DEF PatchInv
<1> QED
  BY <1>1, TypeInit, TypeStep, IdInit, IdStep, LockInit, LockStep, BaseInit, BaseStep, PatchInit,
     PatchStep, PTL DEF Spec

-----------------------------------------------------------------------------
(***************************************************************************)
(* Where patches are the only writers, the base a request has checked      *)
(* stays current until it commits.                                         *)
(***************************************************************************)
ChainInv ==
    /\ \A s \in Session : PastChecks(s) => BaseIsUpToDate(s)
    /\ \A c \in Content : Committed(c)

\* At start nobody patches and every content has its first revision.
LEMMA ChainInit == Init => ChainInv
<1> SUFFICES ASSUME Init PROVE ChainInv
  OBVIOUS
<1>1. \A s \in Session : ~ PastChecks(s)
  BY DEF Init, PastChecks, IdleRequest
<1>2. \A c \in Content : FirstRevision(c) \in revisions /\ FirstRevision(c).id = c
  BY DEF Init, FirstRevision
<1> QED
  BY <1>1, <1>2 DEF ChainInv, Committed

\* A commit makes the base of its own content old, for which nobody else is past the checks.
LEMMA ChainStep ==
    ASSUME LockInUse, Operation = {"patch"}
    PROVE  TypeInv /\ LockInv /\ ChainInv /\ [Next]_vars => ChainInv'
<1> SUFFICES ASSUME TypeInv, LockInv, ChainInv, [Next]_vars PROVE ChainInv'
  OBVIOUS
<1>0. req \in [Session -> Request] /\ cached \in [Content -> RevisionId]
  BY DEF TypeInv, ColumnTypes
<1>a. ASSUME UNCHANGED <<revisions, cached>>,
             \A t \in Session : PastChecks(t)' => /\ PastChecks(t)
                                                 /\ req'[t].content = req[t].content
                                                 /\ req'[t].base = req[t].base
      PROVE  ChainInv'
  BY <1>a DEF ChainInv, BaseIsUpToDate, Committed
<1>1. CASE UNCHANGED vars
  BY <1>1, <1>a DEF vars, PastChecks
<1>2. ASSUME NEW s \in Session, NEW base \in revisions, TryLockForContent(s, base)
      PROVE  ChainInv'
  BY <1>2, <1>a, <1>0 DEF TryLockForContent, PastChecks, IdleRequest
<1>3. ASSUME NEW s \in Session, LoadForPatch(s)
      PROVE  ChainInv'
  BY <1>3, <1>a, <1>0 DEF LoadForPatch, PastChecks, Request
<1>4. ASSUME NEW s \in Session, NEW c \in Content, NEW op \in Operation, LoadForWrite(s, c, op)
      PROVE  ChainInv'
  BY <1>4, <1>a, <1>0 DEF LoadForWrite, PastChecks, IdleRequest
<1>5. ASSUME NEW s \in Session, CheckBase(s), BaseIsUpToDate(s)
      PROVE  ChainInv'
  <2>1. /\ UNCHANGED <<revisions, cached>>
        /\ req' = [req EXCEPT ![s].pc = "checked"]
    BY <1>5 DEF CheckBase
  <2>2. \A t \in Session : /\ req'[t].content = req[t].content
                           /\ req'[t].base = req[t].base
                           /\ PastChecks(t)' => t = s \/ PastChecks(t)
    BY <2>1, <1>0 DEF PastChecks, Request
  <2> QED
    BY <2>1, <2>2, <1>5 DEF ChainInv, BaseIsUpToDate, Committed
<1>6. ASSUME NEW s \in Session, InsertRevision(s)
      PROVE  ChainInv'
  <2>1. /\ UNCHANGED <<revisions, cached>>
        /\ ReadyToInsert(s)
        /\ req' = [req EXCEPT ![s].pc = "inserted", ![s].new = Edited(NewFrom(s), req[s].op)]
    BY <1>6 DEF InsertRevision
  <2> QED
    BY <2>1, <1>a, <1>0 DEF PastChecks, Request, ReadyToInsert
<1>7. ASSUME NEW s \in Session, RepointContent(s)
      PROVE  ChainInv'
  <2>1. /\ UNCHANGED <<revisions, cached>>
        /\ req[s].pc = "inserted"
        /\ req' = [req EXCEPT ![s].pc = "flushed"]
    BY <1>7 DEF RepointContent
  <2> QED
    BY <2>1, <1>a, <1>0 DEF PastChecks, Request
<1>8. ASSUME NEW s \in Session, Commit(s)
      PROVE  ChainInv'
  <2>1. /\ revisions' = revisions \cup {req[s].new}
        /\ cached' = [cached EXCEPT ![req[s].content] = req[s].new.id]
        /\ req' = [req EXCEPT ![s] = IdleRequest]
        /\ req[s].pc = "flushed"
    BY <1>8 DEF Commit, EndTransaction
  <2>2. PastChecks(s)
    BY <2>1 DEF PastChecks, TypeInv, RequestShape
  <2>3. \A t \in Session : PastChecks(t)' => t # s /\ PastChecks(t) /\ req'[t] = req[t]
    BY <2>1, <1>0 DEF PastChecks, IdleRequest
  <2>4. \A t \in Session : PastChecks(t)' => req[t].content # req[s].content
    BY <2>2, <2>3, LockExcludes DEF ChainInv, BaseIsUpToDate
  <2>5. \A t \in Session : PastChecks(t)' => BaseIsUpToDate(t)'
    BY <2>1, <2>3, <2>4 DEF ChainInv, BaseIsUpToDate
  <2> QED
    BY <2>1, <2>5 DEF ChainInv, Committed
<1>9. ASSUME NEW s \in Session, Rollback(s)
      PROVE  ChainInv'
  BY <1>9, <1>a, <1>0 DEF Rollback, EndTransaction, PastChecks, IdleRequest
<1> QED
  BY <1>1, <1>2, <1>3, <1>4, <1>5, <1>6, <1>7, <1>8, <1>9, StepCases

(***************************************************************************)
(* Where patches are the only writers and the locks are in use, the        *)
(* revision a patch replaces is the base its author knew.                  *)
(***************************************************************************)
THEOREM PatchesReplaceTheirBase ==
    ASSUME LockInUse, Operation = {"patch"}
    PROVE  Spec => PatchReplacesItsBase
<1> DEFINE Replaces == \A r \in revisions' \ revisions : r.by = "patch" => r.base = cached[r.content]
<1>1. TypeInv /\ ChainInv /\ [Next]_vars => [Replaces]_vars
  <2> SUFFICES ASSUME TypeInv, ChainInv, [Next]_vars PROVE Replaces
    OBVIOUS
  <2>1. CASE UNCHANGED revisions
    BY <2>1
  <2>2. ASSUME NEW s \in Session, Commit(s)
        PROVE  Replaces
    <3>1. revisions' \ revisions \subseteq {req[s].new} /\ req[s].pc = "flushed"
      BY <2>2 DEF Commit
    <3>2. /\ req[s].new.base = req[s].base
          /\ req[s].new.content = req[s].content
          /\ PastChecks(s)
      BY <3>1 DEF TypeInv, RequestShape, Pending, PastChecks
    <3> QED
      BY <3>1, <3>2 DEF ChainInv, BaseIsUpToDate
  <2> QED
    BY <2>1, <2>2, StepCases DEF vars, TryLockForContent, LoadForPatch, LoadForWrite, CheckBase,
       InsertRevision, RepointContent, Rollback
<1> QED
  BY <1>1, TypeInit, TypeStep, LockInit, LockStep, ChainInit, ChainStep, PTL
     DEF Spec, PatchReplacesItsBase

\* A commit appends to the chain of its content.
LEMMA CommitAppends ==
    ASSUME Operation = {"patch"}, TypeInv, IdInv, BaseInv, ChainInv, NEW s \in Session, Commit(s)
    PROVE  Chain!Append(req[s].content)
<1> DEFINE new == req[s].new
           c == req[s].content
<1>1. /\ revisions' = revisions \cup {new}
      /\ cached' = [cached EXCEPT ![c] = new.id]
      /\ req[s].pc = "flushed"
  BY DEF Commit
<1>2. /\ c \in Content
      /\ cached \in [Content -> RevisionId]
  BY DEF TypeInv, ColumnTypes, Request
<1>3. PastChecks(s) /\ Pending(s)
  BY <1>1 DEF PastChecks, Pending, TypeInv, RequestShape
<1>4. new.from = cached[c] /\ new.from # 0
  BY <1>2, <1>3 DEF TypeInv, RequestShape, BaseInv, PatchIsOfItsBase, ChainInv, BaseIsUpToDate,
                    RevisionId
<1>5. \A r \in revisions : r.id # new.id
  BY <1>3 DEF IdInv
<1>6. new.id \notin Content
  BY <1>5 DEF ChainInv, Committed
<1>7. cached'[c] = new.id
  BY <1>1, <1>2
<1> DEFINE parent == {<<r.id, r.from>> : r \in {q \in revisions : q.from # 0}}
<1>8. parent' = parent \cup {<<new.id, cached[c]>>}
  BY <1>1, <1>4
<1>9. new.id \notin {p[1] : p \in parent} \cup Content
  BY <1>5, <1>6
<1> QED
  BY <1>1, <1>7, <1>8, <1>9 DEF Chain!Append, Chain!Used, Chain!Content, Content

(***************************************************************************)
(* Where patches are the only writers and the locks are in use, the        *)
(* history of every content is a chain: no change is ever overwritten.     *)
(***************************************************************************)
THEOREM PatchesMakeAChain ==
    ASSUME LockInUse, Operation = {"patch"}
    PROVE  Spec => HistoryIsAChain
<1>1. Init => Chain!Init
  BY DEF Init, Chain!Init, Chain!Content, Content, FirstRevision
<1>2. TypeInv /\ IdInv /\ BaseInv /\ ChainInv /\ [Next]_vars => [Chain!Next]_Chain!vars
  <2> SUFFICES ASSUME TypeInv, IdInv, BaseInv, ChainInv, [Next]_vars PROVE [Chain!Next]_Chain!vars
    OBVIOUS
  <2>1. CASE UNCHANGED <<revisions, cached>>
    BY <2>1 DEF Chain!vars
  <2>2. ASSUME NEW s \in Session, Commit(s)
        PROVE  Chain!Next
    <3>1. req[s].content \in Chain!Content
      BY DEF TypeInv, ColumnTypes, Request, Content, Chain!Content
    <3>2. Chain!Append(req[s].content)
      BY <2>2, CommitAppends
    <3>3. \E c \in Chain!Content : Chain!Append(c)
      BY <3>1, <3>2 DEF Chain!Append
    <3> QED
      BY <3>3 DEF Chain!Next
  <2> QED
    BY <2>1, <2>2, StepCases DEF vars, TryLockForContent, LoadForPatch, LoadForWrite, CheckBase,
       InsertRevision, RepointContent, Rollback
<1> QED
  BY <1>1, <1>2, TypeInit, TypeStep, IdInit, IdStep, LockInit, LockStep, BaseInit, BaseStep,
     ChainInit, ChainStep, PTL DEF Spec, HistoryIsAChain, Chain!Spec
=============================================================================
