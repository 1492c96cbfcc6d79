--------------------------- MODULE ContentHistory ---------------------------
(***************************************************************************)
(* The revision history of contents: every change of a content inserts a   *)
(* revision cloned from the one its session has loaded, and repoints       *)
(* content.cached_revision_id to it when the database transaction commits. *)
(* Web requests, jobs and DAV sessions do so concurrently, each in one     *)
(* transaction of the isolation level the database uses by default, READ   *)
(* COMMITTED.  Only apply_patch takes a lock and checks its base revision. *)
(***************************************************************************)
EXTENDS Naturals, FiniteSets

CONSTANTS
    Session,            \* concurrent database sessions (requests, jobs)
    NumContents,        \* contents that exist at start
    Operation,          \* the operations the sessions perform
    Dialect,            \* "postgresql" or "sqlite"
    FilelockEnabled,    \* content_apply_patch.sqlite_filelock.enabled
    MaxRevision,        \* bound on revision ids, for model checking
    None

Content == 1 .. NumContents
RevisionId == Nat \ {0}

AllOperations ==
    {"patch", "update_file", "set_status", "delete", "undelete", "archive", "unarchive"}

Revision ==
    [id : RevisionId, content : Content, from : Nat, by : AllOperations \cup {"create"},
     base : Nat, is_deleted : BOOLEAN, is_archived : BOOLEAN, is_open : BOOLEAN]

ASSUME SessionAssumption == None \notin Session
ASSUME NumContentsAssumption == NumContents \in Nat \ {0}
ASSUME OperationAssumption == Operation \subseteq AllOperations
ASSUME DialectAssumption == Dialect \in {"postgresql", "sqlite"}
ASSUME FilelockAssumption == FilelockEnabled \in BOOLEAN
ASSUME NoneAssumption == None \notin Revision /\ None \notin AllOperations

VARIABLES
    revisions,      \* committed rows of content_revisions
    cached,         \* committed content.cached_revision_id of each content
    nextId,         \* the next value of the revision id generator
    held,           \* content locks: <<content, revision, session>>
    rowOwner,       \* the session whose uncommitted UPDATE locks the content row
    req             \* what each session is doing

vars == <<revisions, cached, nextId, held, rowOwner, req>>

(***************************************************************************)
(* A session: pc is the step it has reached, view the Content.revision it  *)
(* loaded, new the revision it has inserted and not yet committed.         *)
(***************************************************************************)
Phase == {"idle", "locked", "loaded", "checked", "inserted", "flushed"}

Request ==
    [pc : Phase, op : AllOperations \cup {None}, content : Content, base : Nat,
     view : Revision \cup {None}, new : Revision \cup {None}]

IdleRequest ==
    [pc |-> "idle", op |-> None, content |-> 1, base |-> 0, view |-> None, new |-> None]

FirstRevision(c) ==
    [id |-> c, content |-> c, from |-> 0, by |-> "create", base |-> 0,
     is_deleted |-> FALSE, is_archived |-> FALSE, is_open |-> TRUE]

Init ==
    /\ revisions = {FirstRevision(c) : c \in Content}
    /\ cached = [c \in Content |-> c]
    /\ nextId = NumContents + 1
    /\ held = {}
    /\ rowOwner = [c \in Content |-> None]
    /\ req = [s \in Session |-> IdleRequest]

-----------------------------------------------------------------------------
(***************************************************************************)
(* The content locks of TracimSession.                                     *)
(***************************************************************************)
LockInUse == Dialect = "postgresql" \/ FilelockEnabled

\* The advisory lock names the revision, the lock file only the content.
LockedRevision(b) == IF Dialect = "postgresql" THEN b ELSE 0

\* Mutant: the lock of another session is not seen.
LockHeldByNobody(c, b) == FALSE

LockHeld(c, b) == \E t \in Session : <<c, LockedRevision(b), t>> \in held

LocksOf(s) == {k \in held : k[3] = s}

\* Mutant: the locks survive the transaction.
EndTransactionKeepsLocks(s) ==
    /\ rowOwner' = [c \in Content |-> IF rowOwner[c] = s THEN None ELSE rowOwner[c]]
    /\ req' = [req EXCEPT ![s] = IdleRequest]
    /\ UNCHANGED held

(***************************************************************************)
(* The end of a transaction, committed or not, frees what it holds.        *)
(***************************************************************************)
EndTransaction(s) ==
    /\ held' = held \ LocksOf(s)
    /\ rowOwner' = [c \in Content |-> IF rowOwner[c] = s THEN None ELSE rowOwner[c]]
    /\ req' = [req EXCEPT ![s] = IdleRequest]

\* SQLite takes the greatest rowid plus one: an id that was rolled back is given again.
Rollback(s) ==
    /\ EndTransaction(s)
    /\ nextId' = IF Dialect = "sqlite" /\ req[s].new # None THEN req[s].new.id ELSE nextId
    /\ UNCHANGED <<revisions, cached>>

-----------------------------------------------------------------------------
Active == {s \in Session : req[s].pc # "idle"}

\* Bound of the model: every request started can still get its revision id.
IdsRemain == nextId + Cardinality(Active) <= MaxRevision

(***************************************************************************)
(* check 1 of apply_patch.  A client sends as base the id of a revision it *)
(* has seen, current or not.  When the lock is taken the request is        *)
(* answered with PatchRevisionOlderThanContentRevision: nothing changes.   *)
(***************************************************************************)
TryLockForContent(s, base) ==
    /\ req[s].pc = "idle"
    /\ "patch" \in Operation
    /\ IdsRemain
    /\ LockInUse => ~ LockHeld(base.content, base.id)
    /\ held' = IF LockInUse
               THEN held \cup {<<base.content, LockedRevision(base.id), s>>}
               ELSE held
    /\ req' = [req EXCEPT ![s] = [IdleRequest EXCEPT
                  !.pc = "locked", !.op = "patch", !.content = base.content, !.base = base.id]]
    /\ UNCHANGED <<revisions, cached, nextId, rowOwner>>

\* The revision content.cached_revision_id names, as a set of one.
Current(c) == {r \in revisions : r.content = c /\ r.id = cached[c]}

(***************************************************************************)
(* get_one: the content and its current revision enter the session.        *)
(***************************************************************************)
LoadForPatch(s) ==
    /\ req[s].pc = "locked"
    /\ \E r \in Current(req[s].content) :
          req' = [req EXCEPT ![s].pc = "loaded", ![s].view = r]
    /\ UNCHANGED <<revisions, cached, nextId, held, rowOwner>>

LoadForWrite(s, c, op) ==
    /\ req[s].pc = "idle"
    /\ op \in Operation \ {"patch"}
    /\ IdsRemain
    /\ \E r \in Current(c) :
          req' = [req EXCEPT ![s] = [IdleRequest EXCEPT !.pc = "loaded", !.op = op,
                                                        !.content = c, !.view = r]]
    /\ UNCHANGED <<revisions, cached, nextId, held, rowOwner>>

(***************************************************************************)
(* check 2 of apply_patch: only cached_revision_id is read again from the  *)
(* database, the revision object loaded before stays in the session.       *)
(***************************************************************************)
\* Mutant: only a base that does not exist yet is refused.
BaseIsNotNewer(s) == req[s].base <= cached[req[s].content]

BaseIsUpToDate(s) == req[s].base = cached[req[s].content]

CheckBase(s) ==
    /\ req[s].pc = "loaded"
    /\ req[s].op = "patch"
    /\ IF BaseIsUpToDate(s)
       THEN /\ req' = [req EXCEPT ![s].pc = "checked"]
            /\ UNCHANGED <<revisions, cached, nextId, held, rowOwner>>
       ELSE Rollback(s)

(***************************************************************************)
(* new_revision clones the loaded revision, the operation sets attributes  *)
(* of the clone, and the flush inserts it.                                 *)
(***************************************************************************)
IsEditable(r) == ~ r.is_deleted /\ ~ r.is_archived /\ r.is_open

NewFrom(s) ==
    [req[s].view EXCEPT !.id = nextId, !.from = req[s].view.id, !.by = req[s].op,
                        !.base = req[s].base]

Edited(r, op) ==
    CASE op \in {"patch", "update_file"} -> r
      [] op = "set_status" -> [r EXCEPT !.is_open = ~ r.is_open]
      [] op \in {"delete", "undelete"} -> [r EXCEPT !.is_deleted = (op = "delete")]
      [] op \in {"archive", "unarchive"} -> [r EXCEPT !.is_archived = (op = "archive")]

Accepted(s) == req[s].op \in {"patch", "update_file"} => IsEditable(req[s].view)

ReadyToInsert(s) == req[s].pc = IF req[s].op = "patch" THEN "checked" ELSE "loaded"

\* SQLite has one writer at a time, from its first statement that writes to its commit.
MayWrite(s) == Dialect = "sqlite" => \A c \in Content : rowOwner[c] = None

InsertRevision(s) ==
    /\ ReadyToInsert(s)
    /\ Accepted(s)
    /\ MayWrite(s)
    /\ req' = [req EXCEPT ![s].pc = "inserted", ![s].new = Edited(NewFrom(s), req[s].op)]
    /\ nextId' = nextId + 1
    /\ rowOwner' = IF Dialect = "sqlite" THEN [c \in Content |-> s] ELSE rowOwner
    /\ UNCHANGED <<revisions, cached, held>>

\* ContentInNotEditableState: new_revision rolls the session back and raises.
RefuseUpdate(s) ==
    /\ ReadyToInsert(s)
    /\ ~ Accepted(s)
    /\ Rollback(s)

(***************************************************************************)
(* The second statement of the flush (post_update): UPDATE content SET     *)
(* cached_revision_id, which waits for the row when another transaction    *)
(* has updated it.                                                         *)
(***************************************************************************)
\* Mutant: the statement takes effect before the transaction is committed.
RepointAtOnce(s) ==
    /\ req[s].pc = "inserted"
    /\ rowOwner[req[s].content] \in {None, s}
    /\ cached' = [cached EXCEPT ![req[s].content] = req[s].new.id]
    /\ req' = [req EXCEPT ![s].pc = "flushed"]
    /\ UNCHANGED <<revisions, nextId, held, rowOwner>>

RepointContent(s) ==
    /\ req[s].pc = "inserted"
    /\ rowOwner[req[s].content] \in {None, s}
    /\ rowOwner' = [rowOwner EXCEPT ![req[s].content] = s]
    /\ req' = [req EXCEPT ![s].pc = "flushed"]
    /\ UNCHANGED <<revisions, cached, nextId, held>>

\* Mutant: the new revision is stored, current_revision still names the old one.
CommitWithoutRepoint(s) ==
    /\ req[s].pc = "flushed"
    /\ revisions' = revisions \cup {req[s].new}
    /\ EndTransaction(s)
    /\ UNCHANGED <<cached, nextId>>

Commit(s) ==
    /\ req[s].pc = "flushed"
    /\ revisions' = revisions \cup {req[s].new}
    /\ cached' = [cached EXCEPT ![req[s].content] = req[s].new.id]
    /\ EndTransaction(s)
    /\ UNCHANGED nextId

\* An exception anywhere in the handler, a failed statement, a lost connection, a crash.
Abort(s) ==
    /\ req[s].pc # "idle"
    /\ Rollback(s)

Progress(s) ==
    \/ LoadForPatch(s)
    \/ CheckBase(s)
    \/ InsertRevision(s)
    \/ RefuseUpdate(s)
    \/ RepointContent(s)
    \/ Commit(s)

Next ==
    \E s \in Session :
       \/ \E base \in revisions : TryLockForContent(s, base)
       \/ \E c \in Content, op \in Operation : LoadForWrite(s, c, op)
       \/ Progress(s)
       \/ Abort(s)

Spec == Init /\ [][Next]_vars

\* A statement that waits for SQLite's writer fails when its busy timeout is over.
GiveUp(s) == ReadyToInsert(s) /\ ~ MayWrite(s) /\ Abort(s)

\* A thread that handles a request keeps running it.
FairSpec == Spec /\ \A s \in Session : WF_vars(Progress(s) \/ GiveUp(s))
-----------------------------------------------------------------------------
(***************************************************************************)
(* The history seen as a chain: a revision hangs from the one it is cloned *)
(* from.  When patches are the only writers, the locks make it linear.     *)
(***************************************************************************)
Chain == INSTANCE LinearHistory WITH
    parent <- {<<r.id, r.from>> : r \in {q \in revisions : q.from # 0}},
    head <- cached

\* Every commit appends to the chain of one content (see LinearHistory).
HistoryIsAChain == Chain!Spec

(***************************************************************************)
(* Every variable holds what its column, lock table or session may hold,   *)
(* and the current revision of a content is one of its revisions (the      *)
(* foreign key of cached_revision_id), whatever is rolled back.            *)
(***************************************************************************)
TypeOK ==
    /\ revisions \subseteq Revision
    /\ cached \in [Content -> RevisionId]
    /\ nextId \in RevisionId
    /\ held \subseteq Content \X Nat \X Session
    /\ rowOwner \in [Content -> Session \cup {None}]
    /\ req \in [Session -> Request]
    /\ \A c \in Content : Current(c) # {}

Patches == {r \in revisions : r.by = "patch"}

(***************************************************************************)
(* Only one patch is ever applied on a given base revision (apply_patch):  *)
(* however clients race or retry, one of them wins and the others are told *)
(* that their base is old.                                                 *)
(***************************************************************************)
OnePatchPerBase ==
    \A p, q \in Patches : p.content = q.content /\ p.base = q.base => p = q

(***************************************************************************)
(* A patch that has passed both checks of apply_patch is computed on the   *)
(* file of its base revision, though the content was loaded before         *)
(* cached_revision_id was refreshed and may have changed in between.       *)
(***************************************************************************)
PastChecks(s) == req[s].op = "patch" /\ req[s].pc \in {"checked", "inserted", "flushed"}

PatchIsOfItsBase == \A s \in Session : PastChecks(s) => req[s].view.id = req[s].base

(***************************************************************************)
(* A patch is committed on top of its base: when its revision becomes the  *)
(* current one, the revision it replaces is the base its author knew       *)
(* (apply_patch refuses a base that is not the latest revision).           *)
(***************************************************************************)
PatchReplacesItsBase ==
    [][\A r \in revisions' \ revisions : r.by = "patch" => r.base = cached[r.content]]_vars

(***************************************************************************)
(* Content.last_persisted_revision relies on revisions being created in id *)
(* order: the current revision of a content is its newest one.  SQLite's   *)
(* single writer makes it so; on PostgreSQL two sessions may insert in one *)
(* order and repoint the content in the other.                             *)
(***************************************************************************)
CurrentIsNewest == \A r \in revisions : r.id <= cached[r.content]

(***************************************************************************)
(* A session that holds a content lock gives it back, whatever its request *)
(* ends in: no content is locked for patches forever.                      *)
(***************************************************************************)
LocksAreReleased == \A s \in Session : (LocksOf(s) # {}) ~> (LocksOf(s) = {})
=============================================================================
