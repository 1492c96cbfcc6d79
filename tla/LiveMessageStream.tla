-------------------------- MODULE LiveMessageStream --------------------------
(***************************************************************************)
(* How the messages of one user come to the tabs of a browser              *)
(* (frontend_lib/src/LiveMessageManager.js, open_message_stream of         *)
(* user_controller.py, lib/core/live_messages.py).                         *)
(*                                                                         *)
(* The server pushes a TLM for a message and commits the message after-    *)
(* wards; ids are taken before, so neither happens in the order of ids,    *)
(* and not every event has a message for this user.  One tab, the leader,  *)
(* holds the stream and passes what it receives to the other tabs over a   *)
(* BroadcastChannel.  A connection asks for the messages after an id: the  *)
(* answer is read from the database first, and the proxy subscribes the    *)
(* connection to the user's channel when it gets that answer.  What is     *)
(* pushed to nobody is gone.                                               *)
(***************************************************************************)
EXTENDS Tabs, Naturals, Sequences, FiniteSets, Functions, SequencesExt

CONSTANTS MaxEvent,      \* bound on the event ids
          MaxBroadcast   \* bound on the TLMs waiting in a tab's channel

ASSUME BoundAssumption == MaxEvent \in Nat /\ MaxBroadcast \in Nat

VARIABLES
    pushed,      \* ids of the events a TLM was published for
    stored,      \* ids of the user's committed messages
    leader,      \* the tab that won the election, or None
    alive,       \* tabs that are open
    connection,  \* state of the leader's EventSource
    after,       \* after_event_id of that connection, 0 for none
    stream,      \* TLMs sent to the connection and not yet received
    channel,     \* TLMs broadcast to a tab and not yet heard
    lastEventId, leftoverEventIdList,   \* fields of each tab's manager
    dispatched,  \* history: how often each tab dispatched each id
    snapshot     \* history: the messages committed when it was answered

serverVars == <<pushed, stored>>
connectionVars == <<leader, alive, connection, after, snapshot>>
tabVars == <<lastEventId, leftoverEventIdList, dispatched>>
vars == <<serverVars, connectionVars, stream, channel, tabVars>>

EventId == 1..MaxEvent
Larger(i, j) == IF i > j THEN i ELSE j

Init ==
    /\ pushed = {} /\ stored = {}
    /\ leader = None /\ alive = Tab
    /\ connection = "closed" /\ after = 0 /\ snapshot = {}
    /\ stream = <<>>
    /\ channel = [t \in Tab |-> <<>>]
    /\ lastEventId = [t \in Tab |-> 0]
    /\ leftoverEventIdList = [t \in Tab |-> {}]
    /\ dispatched = [t \in Tab |-> [i \in EventId |-> 0]]

-----------------------------------------------------------------------------
(* publish_message_to_user, before the commit of the message's transaction *)
Push(i) ==
    /\ i \notin pushed
    /\ pushed' = pushed \cup {i}
    /\ stream' = IF connection = "subscribed" THEN Append(stream, i) ELSE stream
    /\ UNCHANGED <<stored, connectionVars, channel, tabVars>>

(* The commit; a transaction that fails never stores what it pushed. *)
Store(i) ==
    /\ i \in pushed \ stored
    /\ stored' = stored \cup {i}
    /\ UNCHANGED <<pushed, connectionVars, stream, channel, tabVars>>

-----------------------------------------------------------------------------
\* Mutant: the leftovers are not asked for again.
LastReceived(t) == lastEventId[t]

(* "restart from the last received event id or from the predecessor of the *)
(* last leftover event id if there are leftovers"                          *)
AfterId(t) ==
    IF leftoverEventIdList[t] = {} THEN lastEventId[t]
    ELSE (CHOOSE i \in leftoverEventIdList[t] :
            \A j \in leftoverEventIdList[t] : i <= j) - 1

Open(t) ==
    /\ connection' = "requested"
    /\ after' = AfterId(t)
    /\ stream' = <<>>
    /\ snapshot' = {}

(* awaitLeadership().then(openEventSourceConnection) *)
Elect(t) ==
    /\ leader = None /\ t \in alive
    /\ leader' = t
    /\ Open(t)
    /\ UNCHANGED <<serverVars, alive, channel, tabVars>>

(* The callback of restartEventSourceConnection's timer. *)
Reconnect(t) ==
    /\ leader = t /\ connection = "closed"
    /\ Open(t)
    /\ UNCHANGED <<serverVars, leader, alive, channel, tabVars>>

(* open_message_stream reads the committed messages; the query has no      *)
(* ORDER BY.                                                               *)
AnswerStream ==
    /\ connection = "requested"
    /\ stream' \in SetToSeqs(IF after = 0 THEN {} ELSE {i \in stored : i > after})
    /\ snapshot' = stored
    /\ connection' = "answered"
    /\ UNCHANGED <<serverVars, leader, alive, after, channel, tabVars>>

(* The proxy acts on the answer's Grip-Hold and Grip-Channel headers. *)
Subscribe ==
    /\ connection = "answered"
    /\ connection' = "subscribed"
    /\ UNCHANGED <<serverVars, leader, alive, after, snapshot, stream, channel, tabVars>>

(* onerror, or the heartbeat timer: closeEventSourceConnection. *)
LoseConnection ==
    /\ connection # "closed"
    /\ connection' = "closed"
    /\ stream' = <<>>
    /\ UNCHANGED <<serverVars, leader, alive, after, snapshot, channel, tabVars>>

\* Mutant: a leader that is closed is not replaced.
CloseTabKeepingTheLead(t) ==
    /\ t \in alive /\ alive # {t}
    /\ alive' = alive \ {t}
    /\ channel' = [channel EXCEPT ![t] = <<>>]
    /\ UNCHANGED <<leader, connection, stream>>
    /\ UNCHANGED <<serverVars, after, snapshot, tabVars>>

CloseTab(t) ==
    /\ t \in alive /\ alive # {t}
    /\ alive' = alive \ {t}
    /\ channel' = [channel EXCEPT ![t] = <<>>]
    /\ IF leader = t
       THEN leader' = None /\ connection' = "closed" /\ stream' = <<>>
       ELSE UNCHANGED <<leader, connection, stream>>
    /\ UNCHANGED <<serverVars, after, snapshot, tabVars>>

-----------------------------------------------------------------------------
IsLeftover(t, i) == i \in leftoverEventIdList[t]

\* Mutant: the last id is let through a second time.
IsOlder(t, i) == lastEventId[t] > i /\ ~IsLeftover(t, i)

IsKnown(t, i) == lastEventId[t] >= i /\ ~IsLeftover(t, i)

\* Mutant: the loop begins one id too late.
MissedFromNextButOne(t, i) ==
    IF lastEventId[t] = 0 THEN {} ELSE (lastEventId[t] + 2)..(i - 1)

(* The ids skipped by i; none as long as nothing was received. *)
Missed(t, i) == IF lastEventId[t] = 0 THEN {} ELSE (lastEventId[t] + 1)..(i - 1)

DispatchLiveMessage(t, i) ==
    IF IsKnown(t, i) THEN UNCHANGED tabVars
    ELSE /\ leftoverEventIdList' =
              [leftoverEventIdList EXCEPT ![t] = (@ \ {i}) \cup Missed(t, i)]
         /\ lastEventId' = [lastEventId EXCEPT ![t] = Larger(@, i)]
         /\ dispatched' = [dispatched EXCEPT ![t][i] = @ + 1]

(* onmessage: the leader broadcasts the TLM and dispatches it. *)
Receive(t) ==
    /\ leader = t /\ connection \in {"answered", "subscribed"} /\ stream # <<>>
    /\ \A o \in alive \ {t} : Len(channel[o]) < MaxBroadcast
    /\ stream' = Tail(stream)
    /\ channel' = [o \in Tab |-> IF o \in alive \ {t} THEN Append(channel[o], Head(stream))
                                                      ELSE channel[o]]
    /\ DispatchLiveMessage(t, Head(stream))
    /\ UNCHANGED <<serverVars, connectionVars>>

(* broadcastChannelMessageReceived: a tab that holds an EventSource takes  *)
(* the sender for a second leader and gives up the lead, with its channel. *)
Hear(t) ==
    /\ channel[t] # <<>>
    /\ DispatchLiveMessage(t, Head(channel[t]))
    /\ IF leader = t /\ connection # "closed"
       THEN /\ leader' = None /\ connection' = "closed" /\ stream' = <<>>
            /\ channel' = [channel EXCEPT ![t] = <<>>]
       ELSE /\ UNCHANGED <<leader, connection, stream>>
            /\ channel' = [channel EXCEPT ![t] = Tail(@)]
    /\ UNCHANGED <<serverVars, alive, after, snapshot>>

Next ==
    \/ \E i \in EventId : Push(i) \/ Store(i)
    \/ \E t \in Tab : Elect(t) \/ Reconnect(t) \/ CloseTab(t) \/ Receive(t) \/ Hear(t)
    \/ AnswerStream \/ Subscribe \/ LoseConnection

Spec == Init /\ [][Next]_vars

-----------------------------------------------------------------------------
DispatchedIn(t) == {i \in EventId : dispatched[t][i] > 0}
AboveFirst(t) == {i \in EventId : \E j \in DispatchedIn(t) : j < i}

(* The state is well formed, and no TLM is on its way that was not pushed. *)
TypeOK ==
    /\ pushed \subseteq EventId /\ stored \subseteq pushed
    /\ leader \in alive \cup {None} /\ alive \subseteq Tab
    /\ connection \in {"closed", "requested", "answered", "subscribed"}
    /\ after \in 0..MaxEvent /\ snapshot \subseteq stored
    /\ stream \in Seq(pushed)
    /\ channel \in [Tab -> Seq(pushed)]
    /\ lastEventId \in [Tab -> {0} \cup pushed]
    /\ leftoverEventIdList \in [Tab -> SUBSET EventId]
    /\ dispatched \in [Tab -> [EventId -> Nat]]

(* "should not dispatch the same message twice" (LiveMessageManager.spec): *)
(* whatever is refetched, broadcast or handed over to another tab, a tab   *)
(* dispatches a message at most once.                                      *)
DispatchedOnce == \A t \in Tab, i \in EventId : dispatched[t][i] <= 1

(* "keep track of event ids we didn't receive yet": an id between the      *)
(* first and the last a tab received is dispatched or waited for.          *)
NothingMissedIsForgotten ==
    \A t \in Tab : AboveFirst(t) \cap (1..lastEventId[t])
                       \subseteq DispatchedIn(t) \cup leftoverEventIdList[t]

(* A reconnection makes up for what was lost: of the messages committed    *)
(* when it was answered, each one above the first the leader received is   *)
(* dispatched or still in the answer.                                      *)
CaughtUp ==
    connection \in {"answered", "subscribed"} /\ after # 0 =>
        snapshot \cap AboveFirst(leader) \subseteq DispatchedIn(leader) \cup Range(stream)

(* Every TLM a tab is handed is dispatched, once, in whatever order they   *)
(* come: none is taken for one the tab already knows.  Not kept by the     *)
(* code (LiveMessageManager.js 261-264): the ids below the first message a *)
(* tab receives are no leftovers, and are taken for known when they come.  *)
EveryTlmIsDispatched ==
    [][\A t \in Tab : Receive(t) => dispatched'[t][Head(stream)] = 1]_vars

=============================================================================
