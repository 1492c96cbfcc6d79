------------------------- MODULE LiveMessagesProofs -------------------------
(***************************************************************************)
(* Proofs about LiveMessages: its types and the foreign key of messages in *)
(* either mode; and, with synchronous publishing and requests one after    *)
(* the other, that content events are for all members and nobody else.     *)
(***************************************************************************)
EXTENDS LiveMessages, TLAPS

Ids(S) == {e.id : e \in S}

RequestRecord ==
    [pc : {"idle", "flushed", "published", "committed"},
     op : Operation \cup {None}, user : User \cup {None}, new : SUBSET Event,
     pending : Seq(Event), added : SUBSET Message, removed : SUBSET Message]

(* Who an event about members is about is a user.                          *)
IsAboutUser(e) == e.type = "workspace_member" => e.user \in User

(* What a request has flushed: its pending events are among its new ones,  *)
(* some are left until they are published, and the messages it adds are of *)
(* its own events or of those it has read.                                 *)
RequestInv ==
    \A r \in Request :
       /\ Range(req[r].pending) \subseteq req[r].new
       /\ req[r].pc \in {"flushed", "committed"} => req[r].pending # <<>>
       /\ req[r].pc # "idle" /\ req[r].op \in {"join", "leave"} => req[r].user \in User
       /\ \A e \in req[r].new : IsAboutUser(e)
       /\ req[r].added \subseteq User \X Ids(events \cup req[r].new)

(* What a worker has built is of events that are committed.                *)
JobInv ==
    \A w \in Worker :
       /\ job[w].added \subseteq User \X Ids(events)
       /\ job[w].pc = "built" => job[w].event \in EventId

TypeInv == TypeOK /\ RequestInv /\ JobInv /\ \A e \in events : IsAboutUser(e)

-----------------------------------------------------------------------------
LEMMA ReceiversAreUsers ==
    ASSUME NEW e, IsAboutUser(e), e.type \in {"content", "workspace_member"},
           NEW seen \in SUBSET User
    PROVE  MessagesOf(e, seen) \subseteq User \X {e.id}
BY MemberAssumption DEF MessagesOf, Receivers, IsAboutUser

LEMMA InitType == Init => TypeInv
<1> SUFFICES ASSUME Init PROVE TypeInv
    OBVIOUS
<1>1. IdleRequest \in RequestRecord
      BY DEF IdleRequest, RequestRecord
<1>2. TypeOK
      BY <1>1, MemberAssumption, BoundAssumption DEF Init, TypeOK, IdleJob, RequestRecord
<1>3. RequestInv
      BY DEF Init, RequestInv, IdleRequest, Range, Ids
<1>4. JobInv /\ \A e \in events : IsAboutUser(e)
      BY DEF Init, JobInv, IdleJob
<1>5. QED BY <1>2, <1>3, <1>4 DEF TypeInv

(* A flush of n events, one or two.                                        *)
LEMMA FlushKeepsType ==
    ASSUME TypeInv, NEW r \in Request, NEW op, NEW u \in User \cup {None},
           NEW type \in {"content", "workspace_member"}, NEW n \in 1..2,
           NEW added \in SUBSET (User \X Ids(events)), NEW removed \in SUBSET messages,
           type = "workspace_member" \/ op \in {"join", "leave"} => u \in User,
           Flush(r, op, u, type, n, added, removed)
    PROVE  TypeInv'
<1> DEFINE event(i) == [id |-> nextId + i - 1, type |-> type, user |-> u]
           new == {event(i) : i \in 1..n}
           pending == [i \in 1..n |-> event(i)]
           q == [pc |-> "flushed", op |-> op, user |-> u, new |-> new, pending |-> pending,
                 added |-> added, removed |-> removed]
<1>1. /\ req' = [req EXCEPT ![r] = q] /\ nextId' = nextId + n /\ nextId + n <= MaxEvent + 1
      /\ op \in Operation
      /\ UNCHANGED <<members, events, messages, queue, job, lost>>
      BY DEF Flush
<1>2. nextId \in Nat /\ nextId >= 1 /\ nextId' \in 1..(MaxEvent + 1)
      BY <1>1, BoundAssumption DEF TypeInv, TypeOK
<1>3. \A i \in 1..n : event(i) \in Event
      BY <1>1, <1>2, BoundAssumption DEF Event, EventId
<1>4. Ids(events) \subseteq EventId
      BY DEF Ids, TypeInv, TypeOK, Event
<1>5. new \in SUBSET Event /\ pending \in Seq(Event) /\ Range(pending) \subseteq new
      <2> HIDE DEF event
      <2>1. QED BY <1>3 DEF Range
<1>6. pending # <<>>
      OBVIOUS
<1>7. \A e \in new : IsAboutUser(e)
      BY DEF IsAboutUser
<1>8. added \in SUBSET Message /\ removed \in SUBSET Message
      BY <1>4 DEF Message, TypeInv, TypeOK, Ids
<1> HIDE DEF new, pending
<1>9. q \in RequestRecord
      BY <1>1, <1>5, <1>8 DEF RequestRecord
<1>10. /\ q.pc = "flushed" /\ q.op = op /\ q.user = u /\ q.new = new /\ q.pending = pending
       /\ q.added = added
      OBVIOUS
<1> HIDE DEF q
<1>11. TypeOK'
      BY <1>1, <1>2, <1>9 DEF TypeInv, TypeOK, RequestRecord
<1>12. RequestInv'
      <2>1. added \subseteq User \X Ids(events \cup new)
            BY DEF Ids
      <2>2. req'[r] = q /\ \A t \in Request \ {r} : req'[t] = req[t]
            BY <1>1 DEF TypeInv, TypeOK
      <2>3. QED BY <1>1, <1>5, <1>6, <1>7, <1>10, <2>1, <2>2 DEF TypeInv, RequestInv
<1>13. QED BY <1>1, <1>11, <1>12 DEF TypeInv, JobInv

(* A request that goes on: what its record may become.                     *)
LEMMA RequestStepKeepsType ==
    ASSUME TypeInv, NEW r \in Request, NEW q \in RequestRecord, req' = [req EXCEPT ![r] = q],
           UNCHANGED <<members, events, messages, job, nextId>>,
           queue' \in Seq(EventId), lost' \subseteq EventId,
           Range(q.pending) \subseteq q.new,
           q.pc \in {"flushed", "committed"} => q.pending # <<>>,
           q.pc # "idle" /\ q.op \in {"join", "leave"} => q.user \in User,
           \A e \in q.new : IsAboutUser(e),
           q.added \subseteq User \X Ids(events \cup q.new)
    PROVE  TypeInv'
<1>1. req'[r] = q /\ \A t \in Request \ {r} : req'[t] = req[t]
      BY DEF TypeInv, TypeOK
<1>2. TypeOK'
      BY DEF TypeInv, TypeOK, RequestRecord
<1>3. RequestInv'
      BY <1>1 DEF TypeInv, RequestInv
<1>4. QED BY <1>2, <1>3 DEF TypeInv, JobInv

LEMMA IdleIsRequest ==
    /\ IdleRequest \in RequestRecord /\ IdleRequest.pc = "idle"
    /\ Range(IdleRequest.pending) = {} /\ IdleRequest.new = {} /\ IdleRequest.added = {}
BY DEF IdleRequest, RequestRecord, Range

LEMMA RollbackKeepsType ==
    ASSUME TypeInv, NEW r \in Request, Rollback(r)
    PROVE  TypeInv'
<1>1. /\ req' = [req EXCEPT ![r] = IdleRequest]
      /\ UNCHANGED <<members, events, messages, queue, job, nextId, lost>>
      BY DEF Rollback
<1>2. queue' \in Seq(EventId) /\ lost' \subseteq EventId
      BY <1>1 DEF TypeInv, TypeOK
<1>3. QED BY <1>1, <1>2, IdleIsRequest, RequestStepKeepsType

LEMMA SeenAreUsers ==
    ASSUME TypeInv, NEW r \in Request, req[r].pc # "idle"
    PROVE  Seen(r) \subseteq User
BY DEF TypeInv, TypeOK, RequestInv, Seen

LEMMA PublishBeforeKeepsType ==
    ASSUME TypeInv, NEW r \in Request, PublishBeforeCommit(r)
    PROVE  TypeInv'
<1> DEFINE built == UNION {MessagesOf(e, Seen(r)) : e \in Range(req[r].pending)}
           all == req[r].added \cup built
           q == [req[r] EXCEPT !.pc = "published", !.pending = <<>>, !.added = all]
<1>1. /\ req' = [req EXCEPT ![r] = q] /\ req[r].pc = "flushed"
      /\ UNCHANGED <<members, events, messages, queue, job, nextId, lost>>
      BY DEF PublishBeforeCommit, TypeInv, TypeOK
<1>2. req[r] \in RequestRecord
      BY DEF TypeInv, TypeOK, RequestRecord
<1>3. built \subseteq User \X Ids(req[r].new)
      <2>1. ASSUME NEW e \in Range(req[r].pending)
            PROVE  MessagesOf(e, Seen(r)) \subseteq User \X Ids(req[r].new)
            <3>1. e \in req[r].new /\ IsAboutUser(e)
                  BY <2>1 DEF TypeInv, RequestInv
            <3>2. e.type \in {"content", "workspace_member"}
                  BY <1>2, <3>1 DEF RequestRecord, Event
            <3>3. MessagesOf(e, Seen(r)) \subseteq User \X {e.id}
                  BY <1>1, <3>1, <3>2, SeenAreUsers, ReceiversAreUsers
            <3>4. QED BY <3>1, <3>3 DEF Ids
      <2>2. QED BY <2>1
<1>4. Ids(req[r].new) \subseteq EventId
      BY <1>2 DEF Ids, RequestRecord, Event
<1>5. all \in SUBSET Message
      BY <1>2, <1>3, <1>4 DEF RequestRecord, Message
<1>6. all \subseteq User \X Ids(events \cup req[r].new)
      BY <1>3 DEF TypeInv, RequestInv, Ids
<1> HIDE DEF built, all
<1>7. /\ q \in RequestRecord /\ q.pc = "published" /\ q.pending = <<>>
      /\ q.op = req[r].op /\ q.user = req[r].user /\ q.new = req[r].new
      /\ q.added = all
      <2>1. <<>> \in Seq(Event)
            OBVIOUS
      <2>2. QED BY <1>2, <1>5, <2>1 DEF RequestRecord
<1> HIDE DEF q
<1>8. Range(q.pending) \subseteq q.new
      BY <1>7 DEF Range
<1>9. /\ q.op \in {"join", "leave"} => q.user \in User
      /\ \A e \in q.new : IsAboutUser(e)
      BY <1>1, <1>7 DEF TypeInv, RequestInv
<1>10. queue' \in Seq(EventId) /\ lost' \subseteq EventId
      BY <1>1 DEF TypeInv, TypeOK
<1>11. QED BY <1>1, <1>6, <1>7, <1>8, <1>9, <1>10, RequestStepKeepsType

LEMMA PublishAfterKeepsType ==
    ASSUME TypeInv, NEW r \in Request, PublishAfterCommit(r)
    PROVE  TypeInv'
<1> DEFINE pending == req[r].pending
           q == [req[r] EXCEPT !.pending = Tail(pending)]
<1>1. /\ req' = [req EXCEPT ![r] = IF Tail(pending) = <<>> THEN IdleRequest ELSE q]
      /\ req[r].pc = "committed" /\ queue' = Append(queue, Head(pending).id)
      /\ UNCHANGED <<members, events, messages, job, nextId, lost>>
      BY DEF PublishAfterCommit, LeftAfterEnqueue, TypeInv, TypeOK
<1>2. req[r] \in RequestRecord /\ pending \in Seq(Event) /\ pending # <<>>
      BY <1>1 DEF TypeInv, TypeOK, RequestInv, RequestRecord
<1>3. Range(pending) \subseteq req[r].new
      BY DEF TypeInv, RequestInv
<1> HIDE DEF pending
<1>4. Head(pending) \in Event /\ Tail(pending) \in Seq(Event)
      BY <1>2
<1>5. Range(Tail(pending)) \subseteq Range(pending)
      BY <1>2 DEF Range
<1>6. queue' \in Seq(EventId) /\ lost' \subseteq EventId
      BY <1>1, <1>4 DEF TypeInv, TypeOK, Event
<1>7. /\ q \in RequestRecord /\ q.pc = "committed" /\ q.pending = Tail(pending)
      /\ q.op = req[r].op /\ q.user = req[r].user /\ q.new = req[r].new
      /\ q.added = req[r].added
      BY <1>1, <1>2, <1>4 DEF RequestRecord
<1> HIDE DEF q
<1>8. /\ q.op \in {"join", "leave"} => q.user \in User
      /\ \A e \in q.new : IsAboutUser(e)
      /\ q.added \subseteq User \X Ids(events \cup q.new)
      BY <1>1, <1>7 DEF TypeInv, RequestInv
<1>9. CASE Tail(pending) = <<>>
      BY <1>1, <1>6, <1>9, IdleIsRequest, RequestStepKeepsType
<1>10. CASE Tail(pending) # <<>>
      <2>1. Range(q.pending) \subseteq q.new /\ q.pending # <<>>
            BY <1>3, <1>5, <1>7, <1>10
      <2>2. req' = [req EXCEPT ![r] = q]
            BY <1>1, <1>10
      <2>3. QED BY <1>1, <1>6, <1>7, <1>8, <2>1, <2>2, RequestStepKeepsType
<1>11. QED BY <1>9, <1>10

LEMMA CommitKeepsType ==
    ASSUME TypeInv, NEW r \in Request, Commit(r)
    PROVE  TypeInv'
<1> DEFINE q == [req[r] EXCEPT !.pc = "committed"]
           left == IF Mode = "sync" THEN IdleRequest ELSE q
<1>1. /\ req' = [req EXCEPT ![r] = left]
      /\ members' = Seen(r) /\ events' = events \cup req[r].new
      /\ messages' = (messages \ req[r].removed) \cup req[r].added
      /\ UNCHANGED <<queue, job, nextId, lost>>
      BY DEF Commit, TypeInv, TypeOK
<1>2. /\ req[r].pc # "idle" /\ (Mode # "sync" => req[r].pc = "flushed")
      BY DEF Commit, ReadyToCommit
<1>3. req[r] \in RequestRecord
      BY DEF TypeInv, TypeOK, RequestRecord
<1>4. members' \subseteq User
      BY <1>1, <1>2, SeenAreUsers
<1>5. /\ q \in RequestRecord /\ q.pc = "committed" /\ q.pending = req[r].pending
      /\ q.op = req[r].op /\ q.user = req[r].user /\ q.new = req[r].new
      /\ q.added = req[r].added
      BY <1>3 DEF RequestRecord
<1> HIDE DEF q
<1>6. /\ left \in RequestRecord
      /\ Range(left.pending) \subseteq left.new
      /\ left.pc \in {"flushed", "committed"} => left.pending # <<>>
      /\ left.pc # "idle" /\ left.op \in {"join", "leave"} => left.user \in User
      /\ \A e \in left.new : IsAboutUser(e)
      /\ left.added \subseteq User \X Ids(events \cup left.new)
      <2>1. CASE Mode = "sync"
            <3>1. left = IdleRequest
                  BY <2>1
            <3> HIDE DEF left
            <3>2. QED BY <3>1, IdleIsRequest
      <2>2. CASE Mode # "sync"
            <3>1. left = q
                  BY <2>2
            <3> HIDE DEF left
            <3>2. QED BY <1>2, <1>5, <2>2, <3>1 DEF TypeInv, RequestInv
      <2>3. QED BY <2>1, <2>2
<1> HIDE DEF left
<1>7. req'[r] = left /\ \A t \in Request \ {r} : req'[t] = req[t]
      BY <1>1 DEF TypeInv, TypeOK
<1>8. \A S, T : S \subseteq T => User \X Ids(events \cup S) \subseteq User \X Ids(events' \cup T)
      BY <1>1 DEF Ids
<1>9. messages' \subseteq User \X {e.id : e \in events'}
      <2>1. /\ req[r].added \subseteq User \X Ids(events \cup req[r].new)
            /\ messages \subseteq User \X Ids(events)
            BY DEF TypeInv, TypeOK, RequestInv, Ids
      <2>2. QED BY <1>1, <2>1 DEF Ids
<1>10. TypeOK'
      BY <1>1, <1>3, <1>4, <1>6, <1>9 DEF TypeInv, TypeOK, RequestRecord
<1>11. RequestInv'
      <2>1. ASSUME NEW t \in Request
            PROVE  /\ Range(req'[t].pending) \subseteq req'[t].new
                   /\ req'[t].pc \in {"flushed", "committed"} => req'[t].pending # <<>>
                   /\ req'[t].pc # "idle" /\ req'[t].op \in {"join", "leave"} => req'[t].user \in User
                   /\ \A e \in req'[t].new : IsAboutUser(e)
                   /\ req'[t].added \subseteq User \X Ids(events \cup req'[t].new)
            BY <1>6, <1>7 DEF TypeInv, RequestInv
      <2>2. QED BY <1>8, <2>1 DEF RequestInv
<1>12. JobInv'
      BY <1>1 DEF TypeInv, JobInv, Ids
<1>13. \A e \in events' : IsAboutUser(e)
      BY <1>1 DEF TypeInv, RequestInv
<1>14. QED BY <1>10, <1>11, <1>12, <1>13 DEF TypeInv

LEMMA JobsKeepType ==
    ASSUME TypeInv, NEW w \in Worker, BuildMessages(w) \/ CommitJob(w)
    PROVE  TypeInv'
<1>1. UNCHANGED <<members, events, req, nextId, lost>>
      BY DEF BuildMessages, CommitJob
<1>2. CASE BuildMessages(w)
      <2> DEFINE found == {e \in events : e.id = Head(queue)}
                 built == UNION {MessagesOf(e, members) : e \in found}
                 j == [pc |-> "built", event |-> Head(queue), added |-> built]
      <2>1. /\ job' = [job EXCEPT ![w] = j] /\ queue # <<>> /\ queue' = Tail(queue)
            /\ UNCHANGED messages
            BY <1>2 DEF BuildMessages
      <2>2. Head(queue) \in EventId /\ Tail(queue) \in Seq(EventId)
            BY <2>1 DEF TypeInv, TypeOK
      <2>3. built \subseteq User \X Ids(events)
            <3>1. ASSUME NEW e \in found
                  PROVE  MessagesOf(e, members) \subseteq User \X {e.id}
                  <4>1. IsAboutUser(e) /\ e.type \in {"content", "workspace_member"}
                        BY DEF TypeInv, TypeOK, Event
                  <4>2. members \subseteq User
                        BY DEF TypeInv, TypeOK
                  <4>3. QED BY <4>1, <4>2, ReceiversAreUsers
            <3>2. QED BY <3>1 DEF Ids
      <2>4. built \in SUBSET Message
            <3>1. Ids(events) \subseteq EventId
                  BY DEF Ids, TypeInv, TypeOK, Event
            <3>2. QED BY <2>3, <3>1 DEF Message
      <2> HIDE DEF built, found
      <2>5. /\ j \in [pc : {"idle", "built"}, event : 0..MaxEvent, added : SUBSET Message]
            /\ j.added = built /\ j.event \in EventId
            BY <2>2, <2>4 DEF EventId
      <2> HIDE DEF j
      <2>6. TypeOK'
            BY <1>1, <2>1, <2>2, <2>5 DEF TypeInv, TypeOK
      <2>7. JobInv'
            BY <1>1, <2>1, <2>3, <2>5 DEF TypeInv, TypeOK, JobInv
      <2>8. QED BY <1>1, <2>6, <2>7 DEF TypeInv, RequestInv
<1>3. CASE CommitJob(w)
      <2>1. /\ job' = [job EXCEPT ![w] = IdleJob] /\ UNCHANGED queue
            /\ messages' \subseteq messages \cup job[w].added
            BY <1>3 DEF CommitJob
      <2>2. /\ IdleJob \in [pc : {"idle", "built"}, event : 0..MaxEvent, added : SUBSET Message]
            /\ IdleJob.added = {} /\ IdleJob.pc = "idle"
            BY BoundAssumption DEF IdleJob
      <2>3. messages' \subseteq User \X {e.id : e \in events}
            BY <2>1 DEF TypeInv, TypeOK, JobInv, Ids
      <2>4. TypeOK'
            BY <1>1, <2>1, <2>2, <2>3 DEF TypeInv, TypeOK
      <2>5. JobInv'
            BY <1>1, <2>1, <2>2 DEF TypeInv, TypeOK, JobInv
      <2>6. QED BY <1>1, <2>4, <2>5 DEF TypeInv, RequestInv
<1>4. QED BY <1>2, <1>3

LEMMA DieKeepsType ==
    ASSUME TypeInv, Die
    PROVE  TypeInv'
<1>1. UNCHANGED <<members, events, messages, queue, nextId>>
      BY DEF Die
<1>2. CASE \E r \in Request : /\ req[r].pc = "committed"
                             /\ lost' = lost \cup {e.id : e \in Range(req[r].pending)}
                             /\ req' = [req EXCEPT ![r] = IdleRequest]
                             /\ UNCHANGED job
      <2>1. PICK r \in Request : /\ lost' = lost \cup {e.id : e \in Range(req[r].pending)}
                                /\ req' = [req EXCEPT ![r] = IdleRequest]
                                /\ UNCHANGED job
            BY <1>2
      <2>2. \A e \in req[r].new : e.id \in EventId
            BY DEF TypeInv, TypeOK, Event
      <2>3. queue' \in Seq(EventId) /\ lost' \subseteq EventId
            BY <1>1, <2>1, <2>2 DEF TypeInv, TypeOK, RequestInv
      <2>4. QED BY <1>1, <2>1, <2>3, IdleIsRequest, RequestStepKeepsType
<1>3. CASE \E w \in Worker : /\ job[w].pc = "built"
                            /\ lost' = lost \cup {job[w].event}
                            /\ job' = [job EXCEPT ![w] = IdleJob]
                            /\ UNCHANGED req
      <2>1. PICK w \in Worker : /\ job[w].pc = "built"
                               /\ lost' = lost \cup {job[w].event}
                               /\ job' = [job EXCEPT ![w] = IdleJob]
                               /\ UNCHANGED req
            BY <1>3
      <2>2. /\ IdleJob \in [pc : {"idle", "built"}, event : 0..MaxEvent, added : SUBSET Message]
            /\ IdleJob.added = {} /\ IdleJob.pc = "idle"
            BY BoundAssumption DEF IdleJob
      <2>3. lost' \subseteq EventId
            BY <2>1 DEF TypeInv, TypeOK, JobInv
      <2>4. TypeOK'
            BY <1>1, <2>1, <2>2, <2>3 DEF TypeInv, TypeOK
      <2>5. JobInv'
            BY <1>1, <2>1, <2>2 DEF TypeInv, TypeOK, JobInv
      <2>6. QED BY <1>1, <2>1, <2>4, <2>5 DEF TypeInv, RequestInv
<1>4. QED BY <1>2, <1>3 DEF Die

LEMMA BeginningKeepsType ==
    ASSUME TypeInv, NEW r \in Request,
           \/ CreateContent(r) \/ CreateFile(r)
           \/ \E u \in User : Join(r, u) \/ Leave(r, u)
    PROVE  TypeInv'
<1>1. {} \subseteq User \X Ids(events) /\ {} \subseteq messages
      OBVIOUS
<1>2. ASSUME NEW op \in {"content", "file"}, NEW n \in 1..2,
             Flush(r, op, None, "content", n, {}, {})
      PROVE  TypeInv'
      <2>1. PICK u, type, added, removed :
               u = None /\ type = "content" /\ added = {} /\ removed = {}
            OBVIOUS
      <2>2. Flush(r, op, u, type, n, added, removed)
            BY <1>2, <2>1
      <2>3. /\ u \in User \cup {None} /\ type \in {"content", "workspace_member"}
            /\ added \in SUBSET (User \X Ids(events)) /\ removed \in SUBSET messages
            /\ ~ (type = "workspace_member" \/ op \in {"join", "leave"})
            BY <1>1, <2>1
      <2>4. QED BY <2>2, <2>3, FlushKeepsType
<1>3. CASE CreateContent(r) \/ CreateFile(r)
      BY <1>2, <1>3 DEF CreateContent, CreateFile
<1>4. ASSUME NEW u \in User, Join(r, u)
      PROVE  TypeInv'
      <2>1. MessagesHistory(u) \subseteq User \X Ids(events)
            BY DEF MessagesHistory, Ids
      <2>2. QED BY <1>1, <1>4, <2>1, FlushKeepsType DEF Join
<1>5. ASSUME NEW u \in User, Leave(r, u)
      PROVE  TypeInv'
      <2>1. MessagesInWorkspace(u) \subseteq messages
            BY DEF MessagesInWorkspace
      <2>2. QED BY <1>1, <1>5, <2>1, FlushKeepsType DEF Leave
<1>6. QED BY <1>3, <1>4, <1>5

LEMMA TypeStep == TypeInv /\ [Next]_vars => TypeInv'
<1> SUFFICES ASSUME TypeInv, [Next]_vars PROVE TypeInv'
    OBVIOUS
<1>1. CASE UNCHANGED vars
      BY <1>1 DEF vars, TypeInv, TypeOK, RequestInv, JobInv
<1>2. CASE Next
      BY <1>2, BeginningKeepsType, PublishBeforeKeepsType, CommitKeepsType, RollbackKeepsType,
         PublishAfterKeepsType, JobsKeepType, DieKeepsType DEF Next
<1>3. QED BY <1>1, <1>2

(* The state is well formed, and every message is of a committed event, in *)
(* either mode, with any number of requests and workers, whatever dies.    *)
THEOREM TypeCorrect == Spec => []TypeOK
<1>1. TypeInv => TypeOK
      BY DEF TypeInv
<1>2. QED BY <1>1, InitType, TypeStep, PTL DEF Spec

-----------------------------------------------------------------------------
(* Synchronous publishing, one request after the other: what a request has *)
(* read of members and messages is still so when it commits.               *)
SyncAlone == Mode = "sync" /\ \A r, t \in Request : r = t

(* Nothing is left to workers.                                             *)
QuietInv == queue = <<>> /\ \A w \in Worker : job[w] = IdleJob

EventInv ==
    /\ \A e \in events : e.id < nextId
    /\ \A e, f \in events : e.id = f.id => e = f

History(op, u) == IF op = "join" THEN MessagesHistory(u) ELSE {}

Deleted(op, u) == IF op = "leave" THEN MessagesInWorkspace(u) ELSE {}

SeenBy(op, u) ==
    IF op = "join" THEN members \cup {u} ELSE IF op = "leave" THEN members \ {u} ELSE members

Built(op, u, new) == UNION {MessagesOf(e, SeenBy(op, u)) : e \in new}

(* The ids of the new events are theirs alone, and the changes to the      *)
(* messages are the history, the deletions and, once it is published, what *)
(* the new events give.                                                    *)
Plan(r, op, u, new) ==
    /\ req[r].op = op /\ req[r].user = u /\ req[r].new = new
    /\ \A e \in new : e.id < nextId /\ \A f \in events : f.id # e.id
    /\ \A e, f \in new : e.id = f.id => e = f
    /\ op = "join" => u \notin members
    /\ req[r].removed = Deleted(op, u)
    /\ \/ /\ req[r].pc = "flushed" /\ Range(req[r].pending) = new
          /\ req[r].added = History(op, u)
       \/ /\ req[r].pc = "published"
          /\ req[r].added = History(op, u) \cup Built(op, u, new)

PlanInv == \A r \in Request : req[r].pc # "idle" => \E op, u, new : Plan(r, op, u, new)

Inv ==
    /\ TypeInv /\ QuietInv /\ EventInv /\ PlanInv
    /\ ContentIsForMembers /\ HistoryIsComplete

LEMMA InitInv == Init => Inv
<1>1. ASSUME Init PROVE QuietInv /\ EventInv /\ PlanInv /\ ContentIsForMembers /\ HistoryIsComplete
      BY <1>1 DEF Init, QuietInv, EventInv, PlanInv, ContentIsForMembers, HistoryIsComplete,
                  ContentEvent, IdleRequest
<1>2. QED BY <1>1, InitType DEF Inv

LEMMA FlushPlans ==
    ASSUME SyncAlone, Inv, TypeInv', NEW r \in Request, NEW op, NEW u, NEW type, NEW n \in 1..2,
           NEW added, NEW removed, Flush(r, op, u, type, n, added, removed),
           op = "join" => u \notin members,
           added = History(op, u), removed = Deleted(op, u)
    PROVE  Inv'
<1> DEFINE event(i) == [id |-> nextId + i - 1, type |-> type, user |-> u]
           new == {event(i) : i \in 1..n}
           pending == [i \in 1..n |-> event(i)]
           q == [pc |-> "flushed", op |-> op, user |-> u, new |-> new, pending |-> pending,
                 added |-> added, removed |-> removed]
<1>1. /\ req' = [req EXCEPT ![r] = q] /\ nextId' = nextId + n
      /\ UNCHANGED <<members, events, messages, queue, job, lost>>
      BY DEF Flush
<1>2. nextId \in Nat /\ \A e \in events : e.id \in Nat /\ e.id < nextId
      BY DEF Inv, TypeInv, TypeOK, EventInv, Event, EventId
<1>3. /\ \A e \in new : e.id < nextId + n /\ \A f \in events : f.id # e.id
      /\ \A e, f \in new : e.id = f.id => e = f
      BY <1>2
<1>4. Range(pending) = new
      <2> HIDE DEF event
      <2>1. QED BY DEF Range
<1> HIDE DEF new, pending
<1>5. /\ q.pc = "flushed" /\ q.op = op /\ q.user = u /\ q.new = new /\ q.pending = pending
      /\ q.added = added /\ q.removed = removed
      OBVIOUS
<1> HIDE DEF q
<1>6. req'[r] = q /\ \A t \in Request : t = r
      BY <1>1 DEF SyncAlone, Inv, TypeInv, TypeOK
<1>7. History(op, u)' = added /\ Deleted(op, u)' = removed
      BY <1>1 DEF History, Deleted, MessagesHistory, AlreadyKnown, Receivers, MessagesInWorkspace
<1>8. PlanInv'
      <2>1. PICK flushed : flushed = new
            OBVIOUS
      <2>2. Plan(r, op, u, flushed)'
            BY <1>1, <1>3, <1>4, <1>5, <1>6, <1>7, <2>1 DEF Plan
      <2>3. QED BY <1>6, <2>2 DEF PlanInv
<1>9. EventInv'
      BY <1>1, <1>2 DEF Inv, EventInv
<1>10. QED BY <1>1, <1>8, <1>9 DEF Inv, QuietInv, ContentIsForMembers, HistoryIsComplete, ContentEvent

LEMMA BeginningIsSound ==
    ASSUME SyncAlone, Inv, NEW r \in Request,
           \/ CreateContent(r) \/ CreateFile(r)
           \/ \E u \in User : Join(r, u) \/ Leave(r, u)
    PROVE  Inv'
<1>1. TypeInv'
      BY BeginningKeepsType DEF Inv
<1>2. ASSUME NEW op \in {"content", "file"}, NEW n \in 1..2,
             Flush(r, op, None, "content", n, {}, {})
      PROVE  Inv'
      <2>1. PICK u, type, added, removed :
               u = None /\ type = "content" /\ added = {} /\ removed = {}
            OBVIOUS
      <2>2. Flush(r, op, u, type, n, added, removed)
            BY <1>2, <2>1
      <2>3. /\ op # "join" /\ op # "leave"
            /\ added = History(op, u) /\ removed = Deleted(op, u)
            BY <2>1 DEF History, Deleted
      <2>4. QED BY <1>1, <2>2, <2>3, FlushPlans
<1>3. CASE CreateContent(r) \/ CreateFile(r)
      BY <1>2, <1>3 DEF CreateContent, CreateFile
<1>4. ASSUME NEW u \in User, Join(r, u)
      PROVE  Inv'
      <2>1. PICK op, type, added, removed :
               /\ op = "join" /\ type = "workspace_member"
               /\ added = MessagesHistory(u) /\ removed = {}
            OBVIOUS
      <2>2. Flush(r, op, u, type, 1, added, removed) /\ u \notin members
            BY <1>4, <2>1 DEF Join
      <2>3. added = History(op, u) /\ removed = Deleted(op, u)
            BY <2>1 DEF History, Deleted
      <2>4. QED BY <1>1, <2>2, <2>3, FlushPlans
<1>5. ASSUME NEW u \in User, Leave(r, u)
      PROVE  Inv'
      <2>1. PICK op, type, added, removed :
               /\ op = "leave" /\ type = "workspace_member"
               /\ added = {} /\ removed = MessagesInWorkspace(u)
            OBVIOUS
      <2>2. Flush(r, op, u, type, 1, added, removed) /\ op # "join"
            BY <1>5, <2>1 DEF Leave
      <2>3. added = History(op, u) /\ removed = Deleted(op, u)
            BY <2>1 DEF History, Deleted
      <2>4. QED BY <1>1, <2>2, <2>3, FlushPlans
<1>6. QED BY <1>3, <1>4, <1>5

LEMMA SeenIsSeenBy ==
    ASSUME NEW r, NEW op, NEW u, req[r].op = op, req[r].user = u
    PROVE  Seen(r) = SeenBy(op, u)
BY DEF Seen, SeenBy

LEMMA PublishBeforeIsSound ==
    ASSUME SyncAlone, Inv, NEW r \in Request, PublishBeforeCommit(r)
    PROVE  Inv'
<1>1. TypeInv'
      BY PublishBeforeKeepsType DEF Inv
<1>2. /\ req[r].pc = "flushed"
      /\ UNCHANGED <<members, events, messages, queue, job, nextId, lost>>
      BY DEF PublishBeforeCommit
<1>3. PICK op, u, new : Plan(r, op, u, new)
      BY <1>2 DEF Inv, PlanInv
<1>4. /\ req'[r].pc = "published" /\ req'[r].op = op /\ req'[r].user = u /\ req'[r].new = new
      /\ req'[r].removed = req[r].removed
      /\ req'[r].added =
           req[r].added \cup UNION {MessagesOf(e, Seen(r)) : e \in Range(req[r].pending)}
      BY <1>3 DEF PublishBeforeCommit, Plan, Inv, TypeInv, TypeOK
<1>5. req'[r].added = History(op, u) \cup Built(op, u, new)
      <2>1. Seen(r) = SeenBy(op, u)
            BY <1>3, SeenIsSeenBy DEF Plan
      <2>2. Range(req[r].pending) = new /\ req[r].added = History(op, u)
            BY <1>2, <1>3 DEF Plan
      <2>3. QED BY <1>4, <2>1, <2>2 DEF Built
<1>6. /\ History(op, u)' = History(op, u) /\ Deleted(op, u)' = Deleted(op, u)
      /\ Built(op, u, new)' = Built(op, u, new)
      BY <1>2 DEF History, Deleted, Built, SeenBy, MessagesHistory, AlreadyKnown, MessagesInWorkspace
<1>7. Plan(r, op, u, new)'
      BY <1>2, <1>3, <1>4, <1>5, <1>6 DEF Plan
<1>8. PlanInv'
      BY <1>7 DEF PlanInv, SyncAlone
<1>9. QED BY <1>1, <1>2, <1>8
          DEF Inv, QuietInv, EventInv, ContentIsForMembers, HistoryIsComplete, ContentEvent

(* No new message is there yet: those of the history are not known, and    *)
(* the others are of new events.                                           *)
LEMMA NothingIsTaken ==
    ASSUME Inv, NEW r \in Request, NEW op, NEW u, NEW new, Plan(r, op, u, new)
    PROVE  req[r].added \cap messages = {}
<1>1. History(op, u) \cap messages = {}
      BY DEF History, MessagesHistory, AlreadyKnown
<1>2. Built(op, u, new) \cap messages = {}
      <2>1. ASSUME NEW e \in new, NEW m \in MessagesOf(e, SeenBy(op, u)), m \in messages
            PROVE  FALSE
            <3>1. m[2] = e.id
                  BY DEF MessagesOf
            <3>2. PICK f \in events : f.id = m[2]
                  BY <2>1 DEF Inv, TypeInv, TypeOK
            <3>3. QED BY <3>1, <3>2 DEF Plan
      <2>2. QED BY <2>1 DEF Built
<1>3. QED BY <1>1, <1>2 DEF Plan

LEMMA CommitIsSound ==
    ASSUME SyncAlone, Inv, NEW r \in Request, Commit(r)
    PROVE  Inv'
<1>1. TypeInv'
      BY CommitKeepsType DEF Inv
<1>2. PICK op, u, new : Plan(r, op, u, new)
      BY DEF Commit, ReadyToCommit, SyncAlone, Inv, PlanInv
<1>3. /\ req' = [req EXCEPT ![r] = IdleRequest]
      /\ members' = SeenBy(op, u) /\ events' = events \cup new
      /\ messages' = (messages \ Deleted(op, u)) \cup History(op, u) \cup Built(op, u, new)
      /\ UNCHANGED <<queue, job, nextId>>
      BY <1>2, SeenIsSeenBy DEF Commit, ReadyToCommit, SyncAlone, Plan
<1>4. /\ \A e \in new : e.id < nextId /\ \A f \in events : f.id # e.id
      /\ \A e, f \in new : e.id = f.id => e = f
      /\ op = "join" => u \notin members
      BY <1>2 DEF Plan
<1>5. EventInv'
      BY <1>3, <1>4 DEF Inv, EventInv
<1>6. PlanInv' /\ QuietInv'
      BY <1>3 DEF Inv, TypeInv, TypeOK, SyncAlone, PlanInv, QuietInv, IdleRequest
<1>7. \A m \in messages : \E e \in events : e.id = m[2]
      BY DEF Inv, TypeInv, TypeOK
<1>8. ContentIsForMembers'
      <2>1. ASSUME NEW e \in events', e.type = "content", NEW v \in User, <<v, e.id>> \in messages'
            PROVE  v \in members'
            <3>1. CASE <<v, e.id>> \in messages \ Deleted(op, u)
                  <4>1. PICK f \in events : f.id = e.id
                        BY <1>7, <3>1
                  <4>2. e \in events
                        BY <1>3, <1>4, <4>1
                  <4>3. v \in members
                        BY <2>1, <3>1, <4>2 DEF Inv, ContentIsForMembers, ContentEvent
                  <4>4. op = "leave" => v # u
                        BY <3>1 DEF Deleted, MessagesInWorkspace
                  <4>5. QED BY <1>3, <4>3, <4>4 DEF SeenBy
            <3>2. CASE <<v, e.id>> \in History(op, u)
                  BY <1>3, <3>2 DEF History, MessagesHistory, SeenBy
            <3>3. CASE <<v, e.id>> \in Built(op, u, new)
                  <4>1. PICK f \in new : <<v, e.id>> \in MessagesOf(f, SeenBy(op, u))
                        BY <3>3 DEF Built
                  <4>2. f.id = e.id /\ v \in Receivers(f, SeenBy(op, u))
                        BY <4>1 DEF MessagesOf
                  <4>3. f = e
                        BY <1>3, <1>4, <4>2
                  <4>4. QED BY <1>3, <2>1, <4>2, <4>3 DEF Receivers
            <3>4. QED BY <1>3, <2>1, <3>1, <3>2, <3>3
      <2>2. QED BY <2>1 DEF ContentIsForMembers, ContentEvent
<1>9. HistoryIsComplete'
      <2>1. ASSUME NEW e \in events', e.type = "content", NEW v \in members'
            PROVE  <<v, e.id>> \in messages'
            <3>1. CASE e \in new
                  <4>1. <<v, e.id>> \in MessagesOf(e, SeenBy(op, u))
                        BY <1>3, <2>1 DEF MessagesOf, Receivers
                  <4>2. QED BY <1>3, <3>1, <4>1 DEF Built
            <3>2. CASE e \in events /\ v \in members
                  <4>1. <<v, e.id>> \in messages
                        BY <2>1, <3>2 DEF SyncAlone, Inv, HistoryIsComplete, ContentEvent
                  <4>2. <<v, e.id>> \notin Deleted(op, u)
                        BY <1>3, <2>1 DEF Deleted, MessagesInWorkspace, SeenBy
                  <4>3. QED BY <1>3, <4>1, <4>2
            <3>3. CASE e \in events /\ v \notin members
                  <4>1. op = "join" /\ v = u
                        BY <1>3, <2>1, <3>3 DEF SeenBy
                  <4>2. v \in Receivers(e, members \cup {v})
                        BY <2>1 DEF Receivers
                  <4>3. CASE e.id \in AlreadyKnown(v)
                        <5>1. PICK m \in messages : m[1] = v /\ m[2] = e.id
                              BY <4>3 DEF AlreadyKnown
                        <5>2. m = <<v, e.id>>
                              BY <5>1 DEF Inv, TypeInv, TypeOK
                        <5>3. QED BY <1>3, <4>1, <5>1, <5>2 DEF Deleted
                  <4>4. CASE e.id \notin AlreadyKnown(v)
                        BY <1>3, <3>3, <4>1, <4>2, <4>4 DEF History, MessagesHistory
                  <4>5. QED BY <4>3, <4>4
            <3>4. QED BY <1>3, <3>1, <3>2, <3>3
      <2>2. QED BY <2>1 DEF HistoryIsComplete, ContentEvent
<1>10. QED BY <1>1, <1>5, <1>6, <1>8, <1>9 DEF Inv

LEMMA RollbackIsSound ==
    ASSUME SyncAlone, Inv, NEW r \in Request, Rollback(r)
    PROVE  Inv'
<1>1. TypeInv'
      BY RollbackKeepsType DEF Inv
<1>2. /\ req' = [req EXCEPT ![r] = IdleRequest]
      /\ UNCHANGED <<members, events, messages, queue, job, nextId, lost>>
      BY DEF Rollback
<1>3. PlanInv'
      BY <1>2 DEF Inv, TypeInv, TypeOK, SyncAlone, PlanInv, IdleRequest
<1>4. QED BY <1>1, <1>2, <1>3
          DEF Inv, QuietInv, EventInv, ContentIsForMembers, HistoryIsComplete, ContentEvent

(* No request is between its commit and its publication, and no worker has *)
(* a job.                                                                  *)
LEMMA NothingIsLate ==
    ASSUME Inv
    PROVE  /\ \A r \in Request : req[r].pc # "committed"
           /\ queue = <<>> /\ \A w \in Worker : job[w].pc = "idle"
BY DEF Inv, PlanInv, Plan, QuietInv, IdleJob

LEMMA InvStep == SyncAlone /\ Inv /\ [Next]_vars => Inv'
<1> SUFFICES ASSUME SyncAlone, Inv, [Next]_vars PROVE Inv'
    OBVIOUS
<1>1. CASE UNCHANGED vars
      <2>1. UNCHANGED <<members, events, messages, queue, req, job, nextId, lost>>
            BY <1>1 DEF vars
      <2>2. TypeInv'
            BY TypeStep DEF Inv
      <2>3. PlanInv'
            <3>1. ASSUME NEW r \in Request, NEW op, NEW u, NEW new, Plan(r, op, u, new)
                  PROVE  Plan(r, op, u, new)'
                  <4>1. /\ History(op, u)' = History(op, u) /\ Deleted(op, u)' = Deleted(op, u)
                        /\ Built(op, u, new)' = Built(op, u, new)
                        BY <2>1 DEF History, Deleted, Built, SeenBy, MessagesHistory, AlreadyKnown,
                                    MessagesInWorkspace
                  <4>2. QED BY <2>1, <3>1, <4>1 DEF Plan
            <3>2. QED BY <2>1, <3>1 DEF Inv, PlanInv
      <2>4. QED BY <2>1, <2>2, <2>3
                DEF Inv, QuietInv, EventInv, ContentIsForMembers, HistoryIsComplete, ContentEvent
<1>2. ASSUME NEW r \in Request, PublishAfterCommit(r)
      PROVE  FALSE
      BY <1>2, NothingIsLate DEF PublishAfterCommit
<1>3. ASSUME NEW w \in Worker, BuildMessages(w) \/ CommitJob(w)
      PROVE  FALSE
      BY <1>3, NothingIsLate DEF BuildMessages, CommitJob
<1>4. ~ Die
      BY NothingIsLate DEF Die
<1>5. CASE Next
      BY <1>2, <1>3, <1>4, <1>5, BeginningIsSound, PublishBeforeIsSound, CommitIsSound,
         RollbackIsSound DEF Next
<1>6. QED BY <1>1, <1>5

(* With synchronous publishing and one request after the other, a user who *)
(* is not a member has no message about a content of the space, whatever   *)
(* he was before.                                                          *)
THEOREM ContentStaysWithMembers == ASSUME SyncAlone PROVE Spec => []ContentIsForMembers
<1>1. Inv => ContentIsForMembers
      BY DEF Inv
<1>2. Inv /\ [Next]_vars => Inv'
      BY InvStep
<1>3. QED BY <1>1, <1>2, InitInv, PTL DEF Spec

(* In the same mode every member has a message for each event of a         *)
(* content, the past ones included, however often he joined and left.      *)
THEOREM MembersHaveTheHistory == ASSUME SyncAlone PROVE Spec => []HistoryIsComplete
<1>1. Inv => HistoryIsComplete
      BY DEF Inv
<1>2. Inv /\ [Next]_vars => Inv'
      BY InvStep
<1>3. QED BY <1>1, <1>2, InitInv, PTL DEF Spec

(* In the same mode no commit meets the primary key of a message that is   *)
(* there: history and new messages are disjoint from what the user has.    *)
THEOREM NoKeyIsTaken == ASSUME SyncAlone PROVE Spec => []NoIntegrityError
<1>1. Inv => NoIntegrityError
      <2>1. ASSUME Inv, NEW r \in Request, ReadyToCommit(r)
            PROVE  ~ MessageIsTaken(req[r].added)
            <3>1. PICK op, u, new : Plan(r, op, u, new)
                  BY <2>1 DEF Inv, PlanInv, ReadyToCommit, SyncAlone
            <3>2. QED BY <2>1, <3>1, NothingIsTaken DEF MessageIsTaken
      <2>2. ASSUME Inv, NEW w \in Worker
            PROVE  ~ MessageIsTaken(job[w].added)
            BY <2>2 DEF Inv, QuietInv, IdleJob, MessageIsTaken
      <2>3. QED BY <2>1, <2>2 DEF NoIntegrityError
<1>2. Inv /\ [Next]_vars => Inv'
      BY InvStep
<1>3. QED BY <1>1, <1>2, InitInv, PTL DEF Spec
=============================================================================
