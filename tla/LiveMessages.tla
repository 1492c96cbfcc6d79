---------------------------- MODULE LiveMessages ----------------------------
(***************************************************************************)
(* The events of one confidential space and the messages made of them      *)
(* (lib/core/event.py, lib/crud_hook/caller.py, lib/rq/worker.py).         *)
(*                                                                         *)
(* Every change a request flushes makes an Event through the CRUD hooks.   *)
(* A Message is the pair of an event and a user who receives it; its       *)
(* primary key is that pair.  With JOBS__PROCESSING_MODE "sync" the        *)
(* request builds the messages of its pending events before it commits, in *)
(* its own transaction; with "async" it enqueues one job per event after   *)
(* it has committed, and RQ workers build the messages, each job in a      *)
(* transaction of its own.  A user who joins the space gets messages for   *)
(* its past events, one who leaves loses the messages of the space.        *)
(*                                                                         *)
(* Transactions are READ COMMITTED: a query sees what is committed at that *)
(* moment and the transaction's own changes.                               *)
(***************************************************************************)
EXTENDS Naturals, Sequences, FiniteSets, Functions

CONSTANTS Request,        \* requests the web server can be processing
          Worker,         \* RQ workers of the event queue
          User,
          Administrator,  \* users with the administrator profile
          Manager,        \* the space manager who never leaves
          InitialMember,  \* members of the space at the start
          Operation,      \* operations the requests perform
          Mode,           \* JOBS__PROCESSING_MODE: "sync" or "async"
          CrashAllowed,   \* whether a process may die between two steps
          MaxEvent,       \* bound on the number of events
          None

ASSUME ModeAssumption == Mode \in {"sync", "async"}
ASSUME MemberAssumption == /\ Administrator \subseteq User
                           /\ Manager \in InitialMember
                           /\ InitialMember \subseteq User
ASSUME OperationAssumption ==
    Operation \subseteq {"content", "file", "join", "leave"}
ASSUME BoundAssumption == MaxEvent \in Nat

VARIABLES
    members,   \* users with a role in the space
    events,    \* committed rows of the events table
    messages,  \* committed rows of the messages table: <<receiver, event id>>
    queue,     \* RQ event queue: ids of the events to publish
    req,       \* what each request has flushed and not yet finished
    job,       \* the job each worker is running
    nextId,    \* next event id
    lost       \* history: ids of the events a dead process was to publish

vars == <<members, events, messages, queue, req, job, nextId, lost>>

EventId == 1..MaxEvent
Event == [id : EventId, type : {"content", "workspace_member"},
          user : User \cup {None}]
Message == User \X EventId

IdleRequest == [pc |-> "idle", op |-> None, user |-> None, new |-> {},
                pending |-> <<>>, added |-> {}, removed |-> {}]
IdleJob == [pc |-> "idle", event |-> 0, added |-> {}]

-----------------------------------------------------------------------------
(* Who receives an event, given the members the transaction sees. *)
Receivers(e, seen) ==
    IF e.type = "content" THEN seen
                          ELSE Administrator \cup seen \cup {e.user}

MessagesOf(e, seen) == Receivers(e, seen) \X {e.id}

(* create_messages_history_for_user: the messages u lacks of the past      *)
(* events of the space.  The request's own pending events are not          *)
(* committed, hence not among them.                                        *)
\* Mutant: the messages the user has are not excluded.
NoneKnown(u) == {}

AlreadyKnown(u) == {m[2] : m \in {n \in messages : n[1] = u}}
\* Mutant: the receivers are computed without the user who joins.
MessagesHistoryOfReceivers(u) ==
    {<<u, e.id>> : e \in {f \in events : /\ f.id \notin AlreadyKnown(u)
                                         /\ u \in Receivers(f, members)}}

MessagesHistory(u) ==
    {<<u, e.id>> : e \in {f \in events : /\ f.id \notin AlreadyKnown(u)
                                         /\ u \in Receivers(f, members \cup {u})}}

(* delete_message_for_user_in_workspace *)
\* Mutant: only the messages about members are deleted.
MemberMessages(u) ==
    {m \in messages : m[1] = u /\ \E e \in events : e.id = m[2] /\ e.user # None}

MessagesInWorkspace(u) == {m \in messages : m[1] = u}

(* The members a request sees: the committed ones and its own change. *)
Seen(r) == CASE req[r].op = "join"  -> members \cup {req[r].user}
             [] req[r].op = "leave" -> members \ {req[r].user}
             [] OTHER               -> members

(* A request flushes its change; the hooks add one event per flush (n of   *)
(* them) to the pending events, and the changes to the messages.  Their    *)
(* ids come from the database's sequence when the events are flushed.      *)
Flush(r, op, u, type, n, added, removed) ==
    /\ req[r].pc = "idle"
    /\ op \in Operation
    /\ nextId + n <= MaxEvent + 1
    /\ LET event(i) == [id |-> nextId + i - 1, type |-> type, user |-> u]
       IN req' = [req EXCEPT ![r] =
            [pc |-> "flushed", op |-> op, user |-> u,
             new |-> {event(i) : i \in 1..n}, pending |-> [i \in 1..n |-> event(i)],
             added |-> added, removed |-> removed]]
    /\ nextId' = nextId + n
    /\ UNCHANGED <<members, events, messages, queue, job, lost>>

(* Content created or modified: one flush, one event. *)
CreateContent(r) == Flush(r, "content", None, "content", 1, {}, {})

(* create_file: "This will create 2 revisions", hence two events. *)
CreateFile(r) == Flush(r, "file", None, "content", 2, {}, {})

(* create_workspaces_members_role or join_workspace *)
Join(r, u) ==
    /\ u \notin members
    /\ Flush(r, "join", u, "workspace_member", 1, MessagesHistory(u), {})

(* delete_workspaces_members_role *)
Leave(r, u) ==
    /\ u \in members \ {Manager}
    /\ Flush(r, "leave", u, "workspace_member", 1, {}, MessagesInWorkspace(u))

-----------------------------------------------------------------------------
(* EventPublisher.publish as "before_commit" listener with the             *)
(* SyncLiveMessageBuilder.                                                 *)
PublishBeforeCommit(r) ==
    /\ Mode = "sync"
    /\ req[r].pc = "flushed"
    /\ req' = [req EXCEPT
         ![r].pc = "published",
         ![r].pending = <<>>,
         ![r].added = @ \cup UNION {MessagesOf(e, Seen(r)) : e \in Range(req[r].pending)}]
    /\ UNCHANGED <<members, events, messages, queue, job, nextId, lost>>

ReadyToCommit(r) == req[r].pc = (IF Mode = "sync" THEN "published" ELSE "flushed")

(* A primary key already taken: of the role, or of a message. *)
RoleIsTaken(r) == req[r].op = "join" /\ req[r].user \in members
MessageIsTaken(added) == added \cap messages # {}

Commit(r) ==
    /\ ReadyToCommit(r)
    /\ ~RoleIsTaken(r)
    /\ ~MessageIsTaken(req[r].added)
    /\ members' = Seen(r)
    /\ events' = events \cup req[r].new
    /\ messages' = (messages \ req[r].removed) \cup req[r].added
    /\ req' = [req EXCEPT ![r] = IF Mode = "sync" THEN IdleRequest
                                                  ELSE [@ EXCEPT !.pc = "committed"]]
    /\ UNCHANGED <<queue, job, nextId, lost>>

(* The request fails before its commit, or its commit does: it rolls back. *)
\* Mutant: the messages are written in a transaction of their own.
RollbackWithoutMessages(r) ==
    /\ req[r].pc \in {"flushed", "published"}
    /\ messages' = messages \cup req[r].added
    /\ req' = [req EXCEPT ![r] = IdleRequest]
    /\ UNCHANGED <<members, events, queue, job, nextId, lost>>

Rollback(r) ==
    /\ req[r].pc \in {"flushed", "published"}
    /\ req' = [req EXCEPT ![r] = IdleRequest]
    /\ UNCHANGED <<members, events, messages, queue, job, nextId, lost>>

(* EventPublisher.publish as "after_commit" listener with the              *)
(* AsyncLiveMessageBuilder: one job per pending event, and then the        *)
(* pending events are forgotten.                                           *)
\* Mutant: they are forgotten inside the loop.
NoneLeft(pending) == <<>>

LeftAfterEnqueue(pending) == Tail(pending)

PublishAfterCommit(r) ==
    /\ req[r].pc = "committed"
    /\ queue' = Append(queue, Head(req[r].pending).id)
    /\ req' = [req EXCEPT ![r] =
         LET left == LeftAfterEnqueue(req[r].pending)
         IN IF left = <<>> THEN IdleRequest ELSE [@ EXCEPT !.pending = left]]
    /\ UNCHANGED <<members, events, messages, job, nextId, lost>>

-----------------------------------------------------------------------------
(* A worker takes a job, reads its event and the receivers, and adds the  *)
(* messages to its session; an event that is not there is skipped.         *)
BuildMessages(w) ==
    /\ job[w].pc = "idle"
    /\ queue # <<>>
    /\ queue' = Tail(queue)
    /\ LET found == {e \in events : e.id = Head(queue)}
       IN job' = [job EXCEPT ![w] =
            [pc |-> "built", event |-> Head(queue),
             added |-> UNION {MessagesOf(e, members) : e \in found}]]
    /\ UNCHANGED <<members, events, messages, req, nextId, lost>>

(* worker_context commits; an integrity error aborts the job, and nothing  *)
(* runs it again.                                                          *)
CommitJob(w) ==
    /\ job[w].pc = "built"
    /\ messages' = IF MessageIsTaken(job[w].added) THEN messages
                                                   ELSE messages \cup job[w].added
    /\ job' = [job EXCEPT ![w] = IdleJob]
    /\ UNCHANGED <<members, events, queue, req, nextId, lost>>

(* The web process or the worker dies: what it holds in memory is gone. *)
Die ==
    /\ CrashAllowed
    /\ \/ \E r \in Request : /\ req[r].pc = "committed"
                             /\ lost' = lost \cup {e.id : e \in Range(req[r].pending)}
                             /\ req' = [req EXCEPT ![r] = IdleRequest]
                             /\ UNCHANGED job
       \/ \E w \in Worker : /\ job[w].pc = "built"
                            /\ lost' = lost \cup {job[w].event}
                            /\ job' = [job EXCEPT ![w] = IdleJob]
                            /\ UNCHANGED req
    /\ UNCHANGED <<members, events, messages, queue, nextId>>

-----------------------------------------------------------------------------
Init ==
    /\ members = InitialMember
    /\ events = {}
    /\ messages = {}
    /\ queue = <<>>
    /\ req = [r \in Request |-> IdleRequest]
    /\ job = [w \in Worker |-> IdleJob]
    /\ nextId = 1
    /\ lost = {}

Next ==
    \/ \E r \in Request :
         \/ CreateContent(r) \/ CreateFile(r)
         \/ \E u \in User : Join(r, u) \/ Leave(r, u)
         \/ PublishBeforeCommit(r) \/ Commit(r) \/ Rollback(r)
         \/ PublishAfterCommit(r)
    \/ \E w \in Worker : BuildMessages(w) \/ CommitJob(w)
    \/ Die

Spec == Init /\ [][Next]_vars

(* A request that has begun goes on, and so does a worker as long as there *)
(* are jobs; no request is obliged to begin.                               *)
Fairness ==
    /\ \A r \in Request : /\ WF_vars(PublishBeforeCommit(r))
                          /\ WF_vars(Commit(r) \/ Rollback(r))
                          /\ WF_vars(PublishAfterCommit(r))
    /\ \A w \in Worker : WF_vars(BuildMessages(w)) /\ WF_vars(CommitJob(w))

FairSpec == Spec /\ Fairness

-----------------------------------------------------------------------------
(* The state is well formed, and every message is of an event of the       *)
(* events table: the foreign key of the messages table holds.              *)
TypeOK ==
    /\ members \subseteq User
    /\ events \subseteq Event
    /\ messages \subseteq User \X {e.id : e \in events}
    /\ queue \in Seq(EventId)
    /\ req \in [Request -> [pc : {"idle", "flushed", "published", "committed"},
                            op : Operation \cup {None}, user : User \cup {None},
                            new : SUBSET Event, pending : Seq(Event),
                            added : SUBSET Message, removed : SUBSET Message]]
    /\ job \in [Worker -> [pc : {"idle", "built"}, event : 0..MaxEvent,
                           added : SUBSET Message]]
    /\ nextId \in 1..(MaxEvent + 1)
    /\ lost \subseteq EventId

ContentEvent == {e \in events : e.type = "content"}

(* "Content event are returned to workspace members only."  Once a user    *)
(* has left the space, none of the messages about its contents is left to  *)
(* them: leaving deletes the ones there are, and none is added later.      *)
ContentIsForMembers ==
    \A e \in ContentEvent, u \in User : <<u, e.id>> \in messages => u \in members

(* With synchronous publishing every member has a message for every        *)
(* committed event of a content: a user who joins gets the past ones, and  *)
(* every later one is built with that user among the receivers.            *)
HistoryIsComplete ==
    Mode = "sync" =>
        \A e \in ContentEvent, u \in members : <<u, e.id>> \in messages

(* The messages a transaction is about to add are not there yet: neither   *)
(* the history of a joining user, nor the messages of the pending events,  *)
(* nor those of a job meet the primary key of a message another            *)
(* transaction committed.                                                  *)
NoIntegrityError ==
    /\ \A r \in Request : ReadyToCommit(r) /\ ~RoleIsTaken(r)
                              => ~MessageIsTaken(req[r].added)
    /\ \A w \in Worker : ~MessageIsTaken(job[w].added)

(* "A message will be created for each users to which Tracim should send   *)
(* the event": the messages of every committed event of a content come to  *)
(* exist for everyone who stays a member, unless the process that was to   *)
(* make them died: their events are in memory only from the commit to the  *)
(* enqueueing, and in a job that nothing runs again afterwards.            *)
EventsReachMembers ==
    \A i \in EventId, u \in User :
        (u \in members /\ \E e \in ContentEvent : e.id = i)
            ~> (<<u, i>> \in messages \/ u \notin members \/ i \in lost)

=============================================================================
