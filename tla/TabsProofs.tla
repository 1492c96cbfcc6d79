------------------------------ MODULE TabsProofs ------------------------------
(***************************************************************************)
(* The tabs of a browser.  First what a tab dispatches, for any number of  *)
(* tabs and of events, whatever the server pushes and the connection       *)
(* loses: never a message twice, and never an id skipped and forgotten.    *)
(* Then what the notification wall of a tab shows, for any number of tabs, *)
(* messages, calls and marks: nothing it was given is missing, what was    *)
(* marked in another tab is read, and a wall that waits for no page is     *)
(* filled.                                                                 *)
(***************************************************************************)
EXTENDS LiveMessageStream, NotificationWall,
        FiniteSetTheorems, SequenceTheorems, WellFoundedInduction, TLAPS

\* The answer of a connection is a queue of the messages it asked for.
LEMMA AnswerType ==
    ASSUME NEW S, S \subseteq EventId, NEW q \in SetToSeqs(S)
    PROVE  q \in Seq(S)
<1>1. IsFiniteSet(EventId)
  BY BoundAssumption, FS_Interval DEF EventId
<1>2. Cardinality(S) \in Nat
  BY <1>1, FS_Subset, FS_CardinalityType
<1>3. q \in [1..Cardinality(S) -> S]
  BY DEF SetToSeqs
<1> QED
  BY <1>2, <1>3, SeqDef

(***************************************************************************)
(* The fields of one tab.  What it dispatched is not above its last id and *)
(* not among its leftovers, hence known; it dispatched its last id; and a  *)
(* leftover is between an id it dispatched and its last id.                *)
(***************************************************************************)
KnownOnce ==
    \A t \in Tab, i \in EventId : dispatched[t][i] > 0 =>
       /\ dispatched[t][i] = 1
       /\ i <= lastEventId[t]
       /\ i \notin leftoverEventIdList[t]

LastIsDispatched ==
    \A t \in Tab : lastEventId[t] # 0 => lastEventId[t] \in DispatchedIn(t)

LeftoversAreAboveFirst == \A t \in Tab : leftoverEventIdList[t] \subseteq AboveFirst(t)

LeftoversAreBelowLast ==
    \A t \in Tab : \A k \in leftoverEventIdList[t] : k < lastEventId[t]

TabInv ==
    /\ KnownOnce
    /\ LastIsDispatched
    /\ LeftoversAreAboveFirst
    /\ LeftoversAreBelowLast
    /\ NothingMissedIsForgotten

TabTypes ==
    /\ lastEventId \in [Tab -> {0} \cup pushed]
    /\ leftoverEventIdList \in [Tab -> SUBSET EventId]
    /\ dispatched \in [Tab -> [EventId -> Nat]]

\* The tabs start with nothing received.
LEMMA TabInit == Init => TabInv
  BY DEF Init, TabInv, KnownOnce, LastIsDispatched, LeftoversAreAboveFirst,
         LeftoversAreBelowLast, NothingMissedIsForgotten, AboveFirst, DispatchedIn

\* The last id is a number.
LEMMA LastEventIdType ==
    ASSUME TabTypes, pushed \subseteq EventId, NEW t \in Tab
    PROVE  lastEventId[t] \in Nat
<1>1. lastEventId[t] = 0 \/ lastEventId[t] \in pushed
  BY DEF TabTypes
<1>2. \A i \in pushed : i \in Nat
  BY BoundAssumption DEF EventId
<1> QED
  BY <1>1, <1>2

\* The ids skipped are ids of events.
LEMMA MissedType ==
    ASSUME TabTypes, pushed \subseteq EventId, NEW t \in Tab, NEW i \in EventId
    PROVE  /\ Missed(t, i) \subseteq EventId
           /\ \A k \in Missed(t, i) : lastEventId[t] # 0 /\ lastEventId[t] < k /\ k < i
<1>1. MaxEvent \in Nat /\ i \in 1..MaxEvent
  BY BoundAssumption DEF EventId
<1>2. lastEventId[t] \in Nat
  BY LastEventIdType
<1>3. \A k \in Missed(t, i) : k \in Nat /\ lastEventId[t] # 0 /\ lastEventId[t] < k /\ k < i
  BY <1>1, <1>2 DEF Missed
<1> QED
  BY <1>1, <1>2, <1>3 DEF EventId

\* Dispatching a TLM that was pushed keeps the types of the tabs' fields.
LEMMA DispatchType ==
    ASSUME TabTypes, pushed \subseteq EventId, UNCHANGED pushed,
           NEW t \in Tab, NEW i \in pushed, DispatchLiveMessage(t, i)
    PROVE  TabTypes'
<1>1. CASE IsKnown(t, i)
  BY <1>1 DEF DispatchLiveMessage, TabTypes, tabVars
<1>2. CASE ~ IsKnown(t, i)
  <2>1. /\ leftoverEventIdList' =
             [leftoverEventIdList EXCEPT ![t] = (@ \ {i}) \cup Missed(t, i)]
        /\ lastEventId' = [lastEventId EXCEPT ![t] = Larger(@, i)]
        /\ dispatched' = [dispatched EXCEPT ![t][i] = @ + 1]
    BY <1>2 DEF DispatchLiveMessage
  <2>2. (leftoverEventIdList[t] \ {i}) \cup Missed(t, i) \in SUBSET EventId
    BY MissedType DEF TabTypes
  <2>3. Larger(lastEventId[t], i) \in {0} \cup pushed
    BY DEF Larger, TabTypes
  <2>4. dispatched[t][i] + 1 \in Nat
    BY DEF TabTypes
  <2> QED
    BY <2>1, <2>2, <2>3, <2>4 DEF TabTypes
<1> QED
  BY <1>1, <1>2

\* Dispatching a TLM keeps the invariant of the tabs.
LEMMA DispatchKeepsTabInv ==
    ASSUME TabTypes, TabInv, pushed \subseteq EventId, UNCHANGED pushed,
           NEW t \in Tab, NEW i \in pushed, DispatchLiveMessage(t, i)
    PROVE  TabInv'
<1>1. CASE IsKnown(t, i)
  BY <1>1 DEF DispatchLiveMessage, tabVars, TabInv, KnownOnce, LastIsDispatched,
     LeftoversAreAboveFirst, LeftoversAreBelowLast, NothingMissedIsForgotten, AboveFirst, DispatchedIn
<1>2. CASE ~ IsKnown(t, i)
  <2> DEFINE last == lastEventId[t]
             left == leftoverEventIdList[t]
  <2>1. /\ leftoverEventIdList' =
             [leftoverEventIdList EXCEPT ![t] = (left \ {i}) \cup Missed(t, i)]
        /\ lastEventId' = [lastEventId EXCEPT ![t] = Larger(last, i)]
        /\ dispatched' = [dispatched EXCEPT ![t][i] = dispatched[t][i] + 1]
    BY <1>2 DEF DispatchLiveMessage
  <2>2. /\ i \in EventId /\ EventId \subseteq Nat
        /\ last \in Nat
        /\ left \subseteq EventId
        /\ \A k \in EventId : dispatched[t][k] \in Nat
    <3>1. EventId \subseteq Nat
      BY BoundAssumption DEF EventId
    <3>2. last \in Nat
      BY LastEventIdType
    <3>3. left \subseteq EventId /\ \A k \in EventId : dispatched[t][k] \in Nat
      BY DEF TabTypes
    <3> QED
      BY <3>1, <3>2, <3>3
  <2>3. \/ last < i
        \/ i \in left
    BY <1>2, <2>2 DEF IsKnown, IsLeftover
  <2>4. dispatched[t][i] = 0
    BY <2>2, <2>3 DEF TabInv, KnownOnce
  <2>5. \A o \in Tab \ {t} : /\ leftoverEventIdList'[o] = leftoverEventIdList[o]
                             /\ lastEventId'[o] = lastEventId[o]
                             /\ dispatched'[o] = dispatched[o]
    BY <2>1 DEF TabTypes
  <2>6. /\ leftoverEventIdList'[t] = (left \ {i}) \cup Missed(t, i)
        /\ lastEventId'[t] = Larger(last, i)
        /\ \A k \in EventId : dispatched'[t][k] = IF k = i THEN 1 ELSE dispatched[t][k]
    BY <2>1, <2>4 DEF TabTypes
  <2>7. /\ Missed(t, i) \subseteq EventId
        /\ \A k \in Missed(t, i) : last # 0 /\ last < k /\ k < i
    BY <2>2, MissedType
  <2>8. DispatchedIn(t)' = DispatchedIn(t) \cup {i}
    <3>1. \A k \in EventId : dispatched'[t][k] > 0 <=> k = i \/ dispatched[t][k] > 0
      BY <2>2, <2>6
    <3> QED
      BY <2>2, <3>1, Zenon DEF DispatchedIn, EventId
  <2>9. KnownOnce'
    <3> SUFFICES ASSUME NEW o \in Tab, NEW k \in EventId, dispatched'[o][k] > 0
                 PROVE  /\ dispatched'[o][k] = 1
                        /\ k <= lastEventId'[o]
                        /\ k \notin leftoverEventIdList'[o]
      BY DEF KnownOnce
    <3>1. CASE o # t
      BY <2>5, <3>1 DEF TabInv, KnownOnce
    <3>2. CASE o = t /\ k = i
      BY <2>2, <2>6, <2>7, <3>2 DEF Larger
    <3>3. CASE o = t /\ k # i
      <4>1. dispatched[t][k] = 1 /\ k <= last /\ k \notin left
        BY <2>6, <3>3 DEF TabInv, KnownOnce
      <4> QED
        BY <2>2, <2>6, <2>7, <3>3, <4>1 DEF Larger
    <3> QED
      BY <3>1, <3>2, <3>3
  <2>10. LastIsDispatched'
    <3> SUFFICES ASSUME NEW o \in Tab, lastEventId'[o] # 0
                 PROVE  lastEventId'[o] \in DispatchedIn(o)'
      BY DEF LastIsDispatched
    <3>1. CASE o # t
      BY <2>5, <3>1 DEF TabInv, LastIsDispatched, DispatchedIn
    <3>2. CASE o = t
      BY <2>6, <2>8, <3>2 DEF TabInv, LastIsDispatched, Larger
    <3> QED
      BY <3>1, <3>2
  <2>11. LeftoversAreAboveFirst'
    <3> SUFFICES ASSUME NEW o \in Tab, NEW k \in leftoverEventIdList'[o]
                 PROVE  k \in AboveFirst(o)'
      BY DEF LeftoversAreAboveFirst
    <3>1. CASE o # t
      BY <2>5, <3>1 DEF TabInv, LeftoversAreAboveFirst, AboveFirst, DispatchedIn
    <3>2. CASE o = t /\ k \in left
      BY <2>8, <3>2 DEF TabInv, LeftoversAreAboveFirst, AboveFirst
    <3>3. CASE o = t /\ k \in Missed(t, i)
      <4>1. last \in DispatchedIn(t) /\ last < k /\ k \in EventId
        BY <2>7, <3>3 DEF TabInv, LastIsDispatched
      <4> QED
        BY <2>8, <3>3, <4>1 DEF AboveFirst
    <3> QED
      BY <2>6, <3>1, <3>2, <3>3
  <2>13. LeftoversAreBelowLast'
    <3> SUFFICES ASSUME NEW o \in Tab, NEW k \in leftoverEventIdList'[o]
                 PROVE  k < lastEventId'[o]
      BY DEF LeftoversAreBelowLast
    <3>0. last <= lastEventId'[t] /\ i <= lastEventId'[t] /\ lastEventId'[t] \in Nat
      BY <2>2, <2>6 DEF Larger
    <3>1. CASE o # t
      BY <2>5, <3>1 DEF TabInv, LeftoversAreBelowLast
    <3>2. CASE o = t /\ k \in left
      <4>1. k < last /\ k \in Nat
        BY <2>2, <3>2 DEF TabInv, LeftoversAreBelowLast
      <4> QED
        BY <2>2, <3>0, <3>2, <4>1
    <3>3. CASE o = t /\ k \in Missed(t, i)
      <4>1. k < i /\ k \in Nat /\ i \in Nat
        BY <2>2, <2>7, <3>3
      <4> QED
        BY <3>0, <3>3, <4>1
    <3> QED
      BY <2>6, <3>1, <3>2, <3>3
  <2>12. NothingMissedIsForgotten'
    <3> SUFFICES ASSUME NEW o \in Tab, NEW k \in AboveFirst(o)', k \in 1..lastEventId'[o]
                 PROVE  k \in DispatchedIn(o)' \/ k \in leftoverEventIdList'[o]
      BY DEF NothingMissedIsForgotten
    <3>1. CASE o # t
      BY <2>5, <3>1 DEF TabInv, NothingMissedIsForgotten, AboveFirst, DispatchedIn
    <3>2. CASE o = t /\ k = i
      BY <2>8, <3>2
    <3>3. CASE o = t /\ k # i /\ k <= last
      <4>1. PICK j \in DispatchedIn(t)' : k \in EventId /\ j < k
        BY <3>3 DEF AboveFirst
      <4>2. k \in AboveFirst(t)
        <5>1. CASE j # i
          BY <2>8, <4>1, <5>1 DEF AboveFirst
        <5>2. CASE j = i
          <6>1. i \in left
            BY <2>2, <2>3, <3>3, <4>1, <5>2
          <6>2. PICK first \in DispatchedIn(t) : first < i
            BY <6>1 DEF TabInv, LeftoversAreAboveFirst, AboveFirst
          <6> QED
            BY <2>2, <4>1, <5>2, <6>2 DEF AboveFirst, DispatchedIn
        <5> QED
          BY <5>1, <5>2
      <4>3. k \in DispatchedIn(t) \/ k \in left
        BY <2>2, <3>3, <4>1, <4>2 DEF TabInv, NothingMissedIsForgotten
      <4> QED
        BY <2>6, <2>8, <3>3, <4>3
    <3>4. CASE o = t /\ k # i /\ k > last
      <4>1. last < i /\ k < i
        BY <2>2, <2>6, <3>4 DEF Larger
      <4>2. last # 0
        <5>1. PICK j \in DispatchedIn(t)' : j < k
          BY <3>4 DEF AboveFirst
        <5>2. j \in EventId /\ dispatched[t][j] > 0
          BY <2>2, <2>8, <4>1, <5>1 DEF DispatchedIn
        <5> QED
          BY <2>2, <5>2 DEF TabInv, KnownOnce, EventId
      <4>3. k \in Missed(t, i)
        BY <2>2, <3>4, <4>1, <4>2 DEF Missed
      <4> QED
        BY <2>6, <3>4, <4>3
    <3> QED
      BY <2>2, <2>6, <3>1, <3>2, <3>3, <3>4
  <2> QED
    BY <2>9, <2>10, <2>11, <2>12, <2>13 DEF TabInv
<1> QED
  BY <1>1, <1>2
-----------------------------------------------------------------------------
\* At start there is no TLM anywhere.
LEMMA TypeInit == Init => TypeOK
<1> SUFFICES ASSUME Init PROVE TypeOK
  OBVIOUS
<1>1. 0 \in 0..MaxEvent
  BY BoundAssumption
<1>2. <<>> \in Seq(pushed)
  OBVIOUS
<1> QED
  BY <1>1, <1>2 DEF Init, TypeOK

\* A set of ids that is not empty has a least one.
LEMMA LeastId ==
    ASSUME NEW S \in SUBSET EventId, S # {}
    PROVE  \E i \in S : \A j \in S : i <= j
<1>1. S \subseteq Nat
  BY BoundAssumption DEF EventId
<1>2. \E i \in S : \A j \in S : <<j, i>> \notin OpToRel(<, Nat)
  BY <1>1, NatLessThanWellFounded, WFMin
<1>3. \A i, j \in Nat : <<j, i>> \notin OpToRel(<, Nat) => i <= j
  BY DEF OpToRel
<1> QED
  BY <1>1, <1>2, <1>3

\* AfterId is an id or zero: a leftover is at least 1.
LEMMA AfterIdType ==
    ASSUME TypeOK, NEW t \in Tab
    PROVE  AfterId(t) \in 0..MaxEvent
<1> DEFINE left == leftoverEventIdList[t]
           least == CHOOSE i \in left : \A j \in left : i <= j
<1>1. TabTypes /\ pushed \subseteq EventId
  BY DEF TypeOK, TabTypes
<1>2. CASE left = {}
  <2>1. lastEventId[t] = 0 \/ lastEventId[t] \in EventId
    BY <1>1 DEF TabTypes
  <2> QED
    BY <1>2, <2>1, BoundAssumption DEF AfterId, EventId
<1>3. CASE left # {}
  <2>1. left \subseteq EventId
    BY <1>1 DEF TabTypes
  <2>2. \E i \in left : \A j \in left : i <= j
    BY <1>3, <2>1, LeastId
  <2>3. least \in left
    BY <2>2
  <2>4. least \in EventId
    BY <2>1, <2>3
  <2> QED
    BY <1>3, <2>4, BoundAssumption DEF AfterId, EventId
<1> QED
  BY <1>2, <1>3

(***************************************************************************)
(* The channels and the stream hold TLMs that were pushed, through every   *)
(* step of the server, the connection and the tabs.                        *)
(***************************************************************************)
LEMMA TypeStep == TypeOK /\ [Next]_vars => TypeOK'
<1> SUFFICES ASSUME TypeOK, [Next]_vars PROVE TypeOK'
  OBVIOUS
<1> USE DEF TypeOK, serverVars, connectionVars, tabVars
<1>0. TabTypes
  BY DEF TabTypes
<1>1. CASE UNCHANGED vars
  BY <1>1 DEF vars
<1>2. ASSUME NEW i \in EventId, Push(i)
      PROVE  TypeOK'
  <2>1. pushed \subseteq pushed' /\ i \in pushed'
    BY <1>2 DEF Push
  <2>2. stream' \in Seq(pushed')
    <3>1. stream \in Seq(pushed')
      BY <2>1, SeqMonotonic
    <3> QED
      BY <1>2, <2>1, <3>1, AppendProperties DEF Push
  <2>3. channel' \in [Tab -> Seq(pushed')]
    BY <1>2, <2>1, SeqMonotonic DEF Push
  <2>4. lastEventId' \in [Tab -> {0} \cup pushed']
    BY <1>2, <2>1 DEF Push
  <2> QED
    BY <1>2, <2>2, <2>3, <2>4 DEF Push
<1>3. ASSUME NEW i \in EventId, Store(i)
      PROVE  TypeOK'
  BY <1>3 DEF Store
<1>4. ASSUME NEW t \in Tab, Elect(t)
      PROVE  TypeOK'
  BY <1>4, AfterIdType, EmptySeq DEF Elect, Open
<1>5. ASSUME NEW t \in Tab, Reconnect(t)
      PROVE  TypeOK'
  BY <1>5, AfterIdType, EmptySeq DEF Reconnect, Open
<1>6. ASSUME NEW t \in Tab, CloseTab(t)
      PROVE  TypeOK'
  <2>1. \A o \in Tab : channel'[o] \in Seq(pushed)
    BY <1>6, EmptySeq DEF CloseTab
  <2> QED
    BY <1>6, <2>1, EmptySeq DEF CloseTab
<1>7. CASE AnswerStream
  <2> DEFINE answer == IF after = 0 THEN {} ELSE {i \in stored : i > after}
  <2>1. answer \subseteq pushed /\ answer \subseteq EventId
    OBVIOUS
  <2>2. stream' \in Seq(pushed)
    <3>1. stream' \in SetToSeqs(answer)
      BY <1>7 DEF AnswerStream
    <3> HIDE DEF answer
    <3>2. stream' \in Seq(answer)
      BY <2>1, <3>1, AnswerType
    <3> QED
      BY <2>1, <3>2, SeqMonotonic
  <2> QED
    BY <1>7, <2>2 DEF AnswerStream
<1>8. CASE Subscribe
  BY <1>8 DEF Subscribe
<1>9. CASE LoseConnection
  BY <1>9, EmptySeq DEF LoseConnection
<1>10. ASSUME NEW t \in Tab, Receive(t)
       PROVE  TypeOK'
  <2>1. Head(stream) \in pushed /\ stream' \in Seq(pushed)
    BY <1>10, HeadTailProperties DEF Receive
  <2>2. channel' \in [Tab -> Seq(pushed)]
    BY <1>10, <2>1, AppendProperties DEF Receive
  <2>3. TabTypes'
    BY <1>0, <1>10, <2>1, DispatchType DEF Receive
  <2> QED
    BY <1>10, <2>1, <2>2, <2>3 DEF Receive, TabTypes
<1>11. ASSUME NEW t \in Tab, Hear(t)
       PROVE  TypeOK'
  <2>1. Head(channel[t]) \in pushed /\ Tail(channel[t]) \in Seq(pushed)
    BY <1>11, HeadTailProperties DEF Hear
  <2>2. channel' \in [Tab -> Seq(pushed)] /\ stream' \in Seq(pushed)
    BY <1>11, <2>1, EmptySeq DEF Hear
  <2>3. TabTypes'
    BY <1>0, <1>11, <2>1, DispatchType DEF Hear
  <2> QED
    BY <1>11, <2>2, <2>3 DEF Hear, TabTypes
<1> QED
  BY <1>1, <1>2, <1>3, <1>4, <1>5, <1>6, <1>7, <1>8, <1>9, <1>10, <1>11 DEF Next

(***************************************************************************)
(* The state of the stream is always well formed.                          *)
(***************************************************************************)
THEOREM StreamTypeCorrect == Spec => []TypeOK
  BY TypeInit, TypeStep, PTL DEF Spec

-----------------------------------------------------------------------------
\* Only receiving and hearing a TLM changes what a tab knows.
LEMMA TabStep == TypeOK /\ TabInv /\ [Next]_vars => TabInv'
<1> SUFFICES ASSUME TypeOK, TabInv, [Next]_vars PROVE TabInv'
  OBVIOUS
<1>1. CASE UNCHANGED tabVars
  BY <1>1 DEF tabVars, TabInv, KnownOnce, LastIsDispatched, LeftoversAreAboveFirst,
     LeftoversAreBelowLast, NothingMissedIsForgotten, AboveFirst, DispatchedIn
<1>2. TabTypes /\ pushed \subseteq EventId
  BY DEF TypeOK, TabTypes
<1>3. ASSUME NEW t \in Tab, Receive(t)
      PROVE  TabInv'
  <2>1. Head(stream) \in pushed
    BY <1>3, HeadTailProperties DEF Receive, TypeOK
  <2> QED
    BY <1>2, <1>3, <2>1, DispatchKeepsTabInv DEF Receive, serverVars
<1>4. ASSUME NEW t \in Tab, Hear(t)
      PROVE  TabInv'
  <2>1. Head(channel[t]) \in pushed
    BY <1>4, HeadTailProperties DEF Hear, TypeOK
  <2> QED
    BY <1>2, <1>4, <2>1, DispatchKeepsTabInv DEF Hear, serverVars
<1> QED
  BY <1>1, <1>3, <1>4 DEF Next, vars, Push, Store, Elect, Reconnect, CloseTab, AnswerStream,
     Subscribe, LoseConnection

(***************************************************************************)
(* A tab dispatches a message at most once, whatever is pushed, refetched, *)
(* broadcast, lost or handed over to another tab.                          *)
(***************************************************************************)
THEOREM NeverDispatchedTwice == Spec => []DispatchedOnce
<1>1. TypeOK /\ TabInv => DispatchedOnce
  <2> SUFFICES ASSUME TypeOK, TabInv, NEW t \in Tab, NEW i \in EventId
               PROVE  dispatched[t][i] <= 1
    BY DEF DispatchedOnce
  <2>1. dispatched[t][i] \in Nat
    BY DEF TypeOK
  <2> QED
    BY <2>1 DEF TabInv, KnownOnce
<1> QED
  BY <1>1, TypeInit, TypeStep, TabInit, TabStep, PTL DEF Spec

(***************************************************************************)
(* An id that was skipped is dispatched or waited for, so that a           *)
(* reconnection asks for it again.                                         *)
(***************************************************************************)
THEOREM SkippedIdsAreKept == Spec => []NothingMissedIsForgotten
<1>1. TabInv => NothingMissedIsForgotten
  BY DEF TabInv
<1> QED
  BY <1>1, TypeInit, TypeStep, TabInit, TabStep, PTL DEF Spec

-----------------------------------------------------------------------------
(***************************************************************************)
(* What a connection asks for.  It is opened by the leader, which has      *)
(* dispatched every id above its first up to the one it asks from, and     *)
(* changes nothing of that before it is answered.                          *)
(***************************************************************************)
DispatchedUpTo(t, n) == \A i \in AboveFirst(t) : i <= n => i \in DispatchedIn(t)

ConnectionInv ==
    connection # "closed" =>
       /\ leader \in Tab
       /\ after # 0 => DispatchedIn(leader) # {} /\ DispatchedUpTo(leader, after)

\* Where a reconnection starts, nothing before it is missing.
LEMMA NothingMissingBefore ==
    ASSUME TypeOK, TabInv, NEW t \in Tab, AfterId(t) # 0
    PROVE  DispatchedIn(t) # {} /\ DispatchedUpTo(t, AfterId(t))
<1> DEFINE last == lastEventId[t]
           left == leftoverEventIdList[t]
<1>1. /\ TabTypes /\ pushed \subseteq EventId
      /\ left \in SUBSET EventId
      /\ EventId \subseteq Nat \ {0}
  BY BoundAssumption DEF TypeOK, TabTypes, EventId
<1>2. last \in Nat
  BY <1>1, LastEventIdType
<1>3. CASE left = {}
  <2>1. AfterId(t) = last
    BY <1>3 DEF AfterId
  <2>2. last \in DispatchedIn(t)
    BY <2>1 DEF TabInv, LastIsDispatched
  <2>3. \A i \in AboveFirst(t) : i <= last => i \in DispatchedIn(t)
    BY <1>1, <1>2, <1>3 DEF TabInv, NothingMissedIsForgotten, AboveFirst
  <2> QED
    BY <2>1, <2>2, <2>3 DEF DispatchedUpTo
<1>4. CASE left # {}
  <2> DEFINE least == CHOOSE i \in left : \A j \in left : i <= j
  <2>1. least \in left /\ \A j \in left : least <= j
    BY <1>1, <1>4, LeastId
  <2>2. AfterId(t) = least - 1
    BY <1>4 DEF AfterId
  <2> HIDE DEF least
  <2>3. least \in AboveFirst(t) /\ least < last /\ least \in Nat
    BY <1>1, <2>1 DEF TabInv, LeftoversAreAboveFirst, LeftoversAreBelowLast
  <2>4. DispatchedIn(t) # {}
    BY <2>3 DEF AboveFirst
  <2>5. ASSUME NEW i \in AboveFirst(t), i <= least - 1
        PROVE  i \in DispatchedIn(t)
    <3>1. i \in EventId /\ i \in Nat \ {0}
      BY <1>1 DEF AboveFirst
    <3>2. i \in 1..last /\ i \notin left
      BY <1>2, <2>1, <2>3, <2>5, <3>1
    <3> QED
      BY <3>2 DEF TabInv, NothingMissedIsForgotten
  <2> QED
    BY <2>2, <2>4, <2>5 DEF DispatchedUpTo
<1> QED
  BY <1>3, <1>4

\* A tab that has dispatched something keeps its first id, and what it has dispatched.
LEMMA DispatchKeepsFirst ==
    ASSUME TabTypes, TabInv, pushed \subseteq EventId, NEW t \in Tab, NEW i \in pushed,
           DispatchLiveMessage(t, i), DispatchedIn(t) # {}
    PROVE  /\ AboveFirst(t)' = AboveFirst(t)
           /\ DispatchedIn(t) \subseteq DispatchedIn(t)'
           /\ i \in AboveFirst(t) => i \in DispatchedIn(t)'
<1>0. /\ i \in EventId /\ EventId \subseteq Nat \ {0}
      /\ lastEventId[t] \in Nat
  BY BoundAssumption, LastEventIdType DEF EventId
<1>1. CASE IsKnown(t, i)
  <2>1. UNCHANGED tabVars
    BY <1>1 DEF DispatchLiveMessage
  <2>2. i \in 1..lastEventId[t] /\ i \notin leftoverEventIdList[t]
    BY <1>0, <1>1 DEF IsKnown, IsLeftover
  <2>3. i \in AboveFirst(t) => i \in DispatchedIn(t)
    BY <2>2 DEF TabInv, NothingMissedIsForgotten
  <2> QED
    BY <2>1, <2>3 DEF tabVars, AboveFirst, DispatchedIn
<1>2. CASE ~ IsKnown(t, i)
  <2>1. \A k \in EventId : dispatched'[t][k] = IF k = i THEN dispatched[t][i] + 1
                                                       ELSE dispatched[t][k]
    BY <1>0, <1>2 DEF DispatchLiveMessage, TabTypes
  <2>2. dispatched[t][i] \in Nat
    BY <1>0 DEF TabTypes
  <2>3. \A k \in EventId : dispatched'[t][k] > 0 <=> k = i \/ dispatched[t][k] > 0
    BY <1>0, <2>1, <2>2
  <2>4. DispatchedIn(t)' = DispatchedIn(t) \cup {i}
    BY <1>0, <2>3, Zenon DEF DispatchedIn, EventId
  <2>5. \E first \in DispatchedIn(t) : first < i
    <3>1. CASE IsLeftover(t, i)
      BY <3>1 DEF IsLeftover, TabInv, LeftoversAreAboveFirst, AboveFirst
    <3>2. CASE lastEventId[t] < i
      <4>1. PICK first \in DispatchedIn(t) : TRUE
        OBVIOUS
      <4>2. first \in Nat /\ i \in Nat /\ first <= lastEventId[t]
        BY <1>0 DEF TabInv, KnownOnce, DispatchedIn
      <4> QED
        BY <1>0, <3>2, <4>2
    <3> QED
      BY <1>0, <1>2, <3>1, <3>2 DEF IsKnown
  <2>6. AboveFirst(t)' = AboveFirst(t)
    <3>1. PICK first \in DispatchedIn(t) : first < i
      BY <2>5
    <3>2. first \in Nat /\ \A k \in EventId : i < k => first < k
      BY <1>0, <3>1 DEF DispatchedIn
    <3>3. \A k \in EventId : (\E j \in DispatchedIn(t)' : j < k) <=> (\E j \in DispatchedIn(t) : j < k)
      BY <2>4, <3>2
    <3> QED
      BY <3>3, Zenon DEF AboveFirst, EventId
  <2> QED
    BY <2>4, <2>6
<1> QED
  BY <1>1, <1>2

\* A dispatch changes nothing for the other tabs.
LEMMA OthersKeepTheirs ==
    ASSUME TabTypes, NEW t \in Tab, NEW i \in EventId, DispatchLiveMessage(t, i),
           NEW o \in Tab \ {t}
    PROVE  DispatchedIn(o)' = DispatchedIn(o) /\ AboveFirst(o)' = AboveFirst(o)
<1>1. dispatched'[o] = dispatched[o]
  BY DEF DispatchLiveMessage, TabTypes, tabVars
<1> QED
  BY <1>1 DEF AboveFirst, DispatchedIn

\* A dispatch leaves what a connection asked for asked for.
LEMMA DispatchKeepsConnectionInv ==
    ASSUME TabTypes, TabInv, pushed \subseteq EventId, NEW t \in Tab, NEW i \in pushed,
           DispatchLiveMessage(t, i), ConnectionInv, UNCHANGED <<leader, connection, after>>
    PROVE  ConnectionInv'
<1> SUFFICES ASSUME connection # "closed", leader \in Tab, after # 0
             PROVE  DispatchedIn(leader)' # {} /\ DispatchedUpTo(leader, after)'
  BY DEF ConnectionInv
<1>1. DispatchedIn(leader) # {} /\ DispatchedUpTo(leader, after)
  BY DEF ConnectionInv
<1>2. CASE t = leader
  BY <1>1, <1>2, DispatchKeepsFirst DEF DispatchedUpTo
<1>3. CASE t # leader
  BY <1>1, <1>3, OthersKeepTheirs DEF DispatchedUpTo
<1> QED
  BY <1>2, <1>3

\* Every step leaves the connection with what it was opened for.
LEMMA ConnectionStep == TypeOK /\ TabInv /\ ConnectionInv /\ [Next]_vars => ConnectionInv'
<1> SUFFICES ASSUME TypeOK, TabInv, ConnectionInv, [Next]_vars PROVE ConnectionInv'
  OBVIOUS
<1>0. TabTypes /\ pushed \subseteq EventId
  BY DEF TypeOK, TabTypes
<1>1. CASE UNCHANGED <<leader, connection, after, dispatched>>
  BY <1>1 DEF ConnectionInv, DispatchedUpTo, AboveFirst, DispatchedIn
<1>2. CASE connection' = "closed"
  BY <1>2 DEF ConnectionInv
<1>3. ASSUME NEW t \in Tab, leader' = t, Open(t), UNCHANGED tabVars
      PROVE  ConnectionInv'
  <2>1. /\ after' = AfterId(t)
        /\ DispatchedIn(t)' = DispatchedIn(t)
        /\ AboveFirst(t)' = AboveFirst(t)
    BY <1>3 DEF Open, tabVars, AboveFirst, DispatchedIn
  <2> QED
    BY <1>3, <2>1, NothingMissingBefore DEF ConnectionInv, DispatchedUpTo
<1>4. CASE connection # "closed" /\ UNCHANGED <<leader, after, dispatched>>
  BY <1>4 DEF ConnectionInv, DispatchedUpTo, AboveFirst, DispatchedIn
<1>5. ASSUME NEW t \in Tab, Receive(t)
      PROVE  ConnectionInv'
  <2>1. Head(stream) \in pushed
    BY <1>5, HeadTailProperties DEF Receive, TypeOK
  <2> QED
    BY <1>0, <1>5, <2>1, DispatchKeepsConnectionInv DEF Receive, connectionVars
<1>6. ASSUME NEW t \in Tab, Hear(t)
      PROVE  ConnectionInv'
  <2>1. Head(channel[t]) \in pushed
    BY <1>6, HeadTailProperties DEF Hear, TypeOK
  <2> QED
    BY <1>0, <1>2, <1>6, <2>1, DispatchKeepsConnectionInv DEF Hear
<1>7. ASSUME NEW t \in Tab, CloseTab(t)
      PROVE  ConnectionInv'
  BY <1>1, <1>2, <1>7 DEF CloseTab, tabVars
<1> QED
  BY <1>1, <1>2, <1>3, <1>4, <1>5, <1>6, <1>7 DEF Next, vars, Push, Store, Elect, Reconnect,
     AnswerStream, Subscribe, LoseConnection, tabVars, connectionVars

-----------------------------------------------------------------------------
\* The answer of a connection contains every message it asked for.
LEMMA AnswerIsComplete ==
    ASSUME NEW S, S \subseteq EventId, NEW q \in SetToSeqs(S)
    PROVE  Range(q) = S
<1> DEFINE D == 1..Cardinality(S)
<1>1. IsFiniteSet(S) /\ Cardinality(S) \in Nat
  <2>1. IsFiniteSet(EventId)
    BY BoundAssumption, FS_Interval DEF EventId
  <2> QED
    BY <2>1, FS_Subset, FS_CardinalityType
<1>2. q \in [D -> S] /\ \A i, j \in D : i # j => q[i] # q[j]
  BY DEF SetToSeqs
<1>3. q \in Injection(D, S)
  BY <1>2 DEF Injection, IsInjective
<1>4. Cardinality(D) = Cardinality(S)
  BY <1>1, FS_Interval
<1>5. q \in Surjection(D, S)
  BY <1>1, <1>3, <1>4, FS_Injection
<1> QED
  BY <1>2, <1>5 DEF Surjection, Range

\* A TLM sent to the connection leaves those before it in the stream.
LEMMA RangeOfAppend ==
    ASSUME NEW S, NEW q \in Seq(S), NEW i \in S
    PROVE  Range(q) \subseteq Range(Append(q, i))
<1>1. /\ Len(q) \in Nat
      /\ DOMAIN q = 1..Len(q)
      /\ DOMAIN Append(q, i) = 1..(Len(q) + 1)
      /\ \A k \in 1..Len(q) : Append(q, i)[k] = q[k]
  BY LenProperties, AppendProperties
<1> QED
  BY <1>1 DEF Range

\* Receiving takes the first TLM and leaves the others.
LEMMA RangeOfTail ==
    ASSUME NEW S, NEW q \in Seq(S), q # <<>>
    PROVE  Range(q) = {Head(q)} \cup Range(Tail(q))
<1>1. /\ Len(q) \in Nat \ {0}
      /\ DOMAIN q = 1..Len(q)
      /\ Tail(q) \in Seq(S)
      /\ Len(Tail(q)) = Len(q) - 1
      /\ DOMAIN Tail(q) = 1..(Len(q) - 1)
      /\ \A k \in 1..(Len(q) - 1) : Tail(q)[k] = q[k + 1]
      /\ Head(q) = q[1]
  BY EmptySeq, LenProperties, HeadTailProperties
<1>2. \A k \in 1..Len(q) : k = 1 \/ k - 1 \in 1..(Len(q) - 1)
  BY <1>1
<1>3. \A k \in 1..Len(q) : q[k] = Head(q) \/ q[k] = Tail(q)[k - 1]
  BY <1>1, <1>2
<1>4. Range(q) \subseteq {Head(q)} \cup Range(Tail(q))
  <2> SUFFICES ASSUME NEW x \in Range(q), x # Head(q) PROVE x \in Range(Tail(q))
    OBVIOUS
  <2>1. PICK k \in 1..Len(q) : x = q[k]
    BY <1>1 DEF Range
  <2>2. k - 1 \in 1..(Len(q) - 1) /\ x = Tail(q)[k - 1]
    BY <1>1, <1>2, <1>3, <2>1
  <2> QED
    BY <1>1, <2>2 DEF Range
<1>5. Range(Tail(q)) \subseteq Range(q) /\ Head(q) \in Range(q)
  BY <1>1 DEF Range
<1> QED
  BY <1>4, <1>5

(***************************************************************************)
(* The messages committed when a connection is answered: those up to the   *)
(* id it asks from are dispatched, the others are in its answer, and what  *)
(* leaves the answer is dispatched or was known.                           *)
(***************************************************************************)
LEMMA CaughtUpStep ==
    TypeOK /\ TabInv /\ ConnectionInv /\ CaughtUp /\ [Next]_vars => CaughtUp'
<1> SUFFICES ASSUME TypeOK, TabInv, ConnectionInv, CaughtUp, [Next]_vars,
                    connection' \in {"answered", "subscribed"}, after' # 0
             PROVE  (snapshot \cap AboveFirst(leader))'
                        \subseteq (DispatchedIn(leader) \cup Range(stream))'
  BY DEF CaughtUp
<1>0. TabTypes /\ pushed \subseteq EventId
  BY DEF TypeOK, TabTypes
<1>1. CASE UNCHANGED <<connection, leader, after, snapshot, dispatched>> /\ Range(stream) \subseteq Range(stream')
  BY <1>1 DEF CaughtUp, AboveFirst, DispatchedIn
<1>2. ASSUME NEW i \in EventId, Push(i)
      PROVE  Range(stream) \subseteq Range(stream')
  <2>1. stream \in Seq(EventId)
    BY <1>0, SeqMonotonic DEF TypeOK
  <2> QED
    BY <1>2, <2>1, RangeOfAppend DEF Push
<1>3. CASE AnswerStream
  <2> DEFINE answer == {i \in stored : i > after}
  <2>1. /\ after' = after /\ leader' = leader /\ after # 0 /\ connection # "closed"
        /\ snapshot' = stored
        /\ DispatchedIn(leader)' = DispatchedIn(leader)
        /\ AboveFirst(leader)' = AboveFirst(leader)
    BY <1>3 DEF AnswerStream, tabVars, AboveFirst, DispatchedIn
  <2>2. stream' \in SetToSeqs(answer)
    BY <1>3, <2>1 DEF AnswerStream
  <2>3. answer \subseteq EventId
    BY <1>0 DEF TypeOK
  <2>4. Range(stream') = answer
    BY <2>2, <2>3, AnswerIsComplete
  <2>5. \A i \in AboveFirst(leader) : i <= after => i \in DispatchedIn(leader)
    BY <2>1 DEF ConnectionInv, DispatchedUpTo
  <2>6. \A i \in stored : i <= after \/ i \in answer
    BY <1>0, BoundAssumption DEF TypeOK, EventId
  <2> QED
    BY <2>1, <2>4, <2>5, <2>6
<1>4. CASE Subscribe
  <2>1. /\ UNCHANGED <<leader, after, snapshot, dispatched, stream>>
        /\ connection = "answered"
    BY <1>4 DEF Subscribe, tabVars
  <2> QED
    BY <2>1 DEF CaughtUp, AboveFirst, DispatchedIn
<1>5. ASSUME NEW t \in Tab, Receive(t)
      PROVE  (snapshot \cap AboveFirst(leader))' \subseteq (DispatchedIn(leader) \cup Range(stream))'
  <2>1. /\ t = leader
        /\ UNCHANGED <<leader, after, snapshot, connection>>
        /\ stream # <<>> /\ stream' = Tail(stream)
        /\ DispatchLiveMessage(t, Head(stream))
    BY <1>5 DEF Receive, connectionVars
  <2>2. Head(stream) \in pushed
    BY <2>1, HeadTailProperties DEF TypeOK
  <2>3. DispatchedIn(leader) # {}
    BY <2>1 DEF ConnectionInv
  <2>4. /\ AboveFirst(leader)' = AboveFirst(leader)
        /\ DispatchedIn(leader) \subseteq DispatchedIn(leader)'
        /\ Head(stream) \in AboveFirst(leader) => Head(stream) \in DispatchedIn(leader)'
    BY <1>0, <2>1, <2>2, <2>3, DispatchKeepsFirst
  <2>5. Range(stream) = {Head(stream)} \cup Range(stream')
    BY <2>1, RangeOfTail DEF TypeOK
  <2>6. snapshot \cap AboveFirst(leader) \subseteq DispatchedIn(leader) \cup Range(stream)
    BY <2>1 DEF CaughtUp
  <2> QED
    BY <2>1, <2>4, <2>5, <2>6
<1>6. ASSUME NEW t \in Tab, Hear(t)
      PROVE  (snapshot \cap AboveFirst(leader))' \subseteq (DispatchedIn(leader) \cup Range(stream))'
  <2>1. /\ connection # "closed" /\ leader # t
        /\ UNCHANGED <<leader, after, snapshot, connection, stream>>
        /\ DispatchLiveMessage(t, Head(channel[t]))
        /\ channel[t] # <<>>
    BY <1>6 DEF Hear
  <2>2. leader \in Tab \ {t}
    BY <2>1 DEF ConnectionInv
  <2>3. Head(channel[t]) \in EventId
    BY <1>0, <2>1, HeadTailProperties DEF TypeOK
  <2>4. DispatchedIn(leader)' = DispatchedIn(leader) /\ AboveFirst(leader)' = AboveFirst(leader)
    BY <1>0, <2>1, <2>2, <2>3, OthersKeepTheirs
  <2> QED
    BY <2>1, <2>4 DEF CaughtUp
<1>7. ASSUME NEW t \in Tab, Elect(t) \/ Reconnect(t)
      PROVE  FALSE
  BY <1>7 DEF Elect, Reconnect, Open
<1>8. CASE LoseConnection
  BY <1>8 DEF LoseConnection
<1>9. ASSUME NEW t \in Tab, CloseTab(t)
      PROVE  UNCHANGED <<connection, leader, after, snapshot, dispatched, stream>>
  BY <1>9 DEF CloseTab, tabVars
<1> QED
  BY <1>1, <1>2, <1>3, <1>4, <1>5, <1>6, <1>7, <1>8, <1>9 DEF Next, vars, Push, Store, tabVars,
     connectionVars

(***************************************************************************)
(* A reconnection makes up for what was lost: every message committed when *)
(* it was answered, above the first the leader received, is dispatched or  *)
(* still in the answer.                                                    *)
(***************************************************************************)
THEOREM ReconnectionCatchesUp == Spec => []CaughtUp
<1>1. Init => ConnectionInv /\ CaughtUp
  BY DEF Init, ConnectionInv, CaughtUp
<1> QED
  BY <1>1, TypeInit, TypeStep, TabInit, TabStep, ConnectionStep, CaughtUpStep, PTL DEF Spec

-----------------------------------------------------------------------------
(* Ranks that differ are onto: each from 1 to the number of elements.      *)
LEMMA RanksAreOnto ==
    ASSUME NEW S, IsFiniteSet(S), NEW f \in [S -> 1..Cardinality(S)],
           \A x, y \in S : f[x] = f[y] => x = y
    PROVE  \A n \in 1..Cardinality(S) : \E x \in S : f[x] = n
<1>1. Cardinality(S) \in Nat
      BY FS_CardinalityType
<1>2. IsFiniteSet(1..Cardinality(S)) /\ Cardinality(1..Cardinality(S)) = Cardinality(S)
      BY <1>1, FS_Interval
<1>3. f \in Injection(S, 1..Cardinality(S))
      BY DEF Injection, IsInjective
<1>4. f \in Surjection(S, 1..Cardinality(S))
      BY <1>2, <1>3, FS_Injection
<1>5. QED BY <1>4 DEF Surjection

(* A part of a finite set has no more elements, and fewer when it leaves   *)
(* one out.                                                                *)
LEMMA FewerElements ==
    ASSUME NEW T, IsFiniteSet(T), NEW S \in SUBSET T
    PROVE  /\ Cardinality(S) \in Nat /\ Cardinality(T) \in Nat
           /\ Cardinality(S) <= Cardinality(T)
           /\ \A x \in T : x \notin S => Cardinality(S) < Cardinality(T)
BY FS_Subset, FS_CardinalityType

(* In an order, the rank of an element is the number of those up to it.    *)
LEMMA RanksOfAnOrder ==
    ASSUME NEW S, IsFiniteSet(S), NEW upTo,
           \A x \in S : upTo[x] \in SUBSET S /\ x \in upTo[x],
           \A x, y \in S : x # y =>
              \/ upTo[x] \subseteq upTo[y] /\ y \notin upTo[x]
              \/ upTo[y] \subseteq upTo[x] /\ x \notin upTo[y]
    PROVE  /\ \A x \in S : Cardinality(upTo[x]) \in 1..Cardinality(S)
           /\ \A x, y \in S : Cardinality(upTo[x]) = Cardinality(upTo[y]) => x = y
           /\ \A n \in 1..Cardinality(S) : \E x \in S : Cardinality(upTo[x]) = n
<1>1. \A x \in S : Cardinality(upTo[x]) \in 1..Cardinality(S)
      <2> SUFFICES ASSUME NEW x \in S PROVE Cardinality(upTo[x]) \in 1..Cardinality(S)
          OBVIOUS
      <2>1. Cardinality(upTo[x]) \in Nat /\ Cardinality(S) \in Nat
            /\ Cardinality(upTo[x]) <= Cardinality(S) /\ IsFiniteSet(upTo[x])
            BY FewerElements, FS_Subset
      <2>2. Cardinality(upTo[x]) # 0
            BY <2>1, FS_EmptySet
      <2>3. QED BY <2>1, <2>2
<1>2. ASSUME NEW x \in S, NEW y \in S, x # y
      PROVE  Cardinality(upTo[x]) # Cardinality(upTo[y])
      <2>1. IsFiniteSet(upTo[x]) /\ IsFiniteSet(upTo[y])
            BY FS_Subset
      <2>2. CASE upTo[x] \subseteq upTo[y] /\ y \notin upTo[x]
            BY <2>1, <2>2, FewerElements
      <2>3. CASE upTo[y] \subseteq upTo[x] /\ x \notin upTo[y]
            BY <2>1, <2>3, FewerElements
      <2>4. QED BY <1>2, <2>2, <2>3
<1> DEFINE f == [x \in S |-> Cardinality(upTo[x])]
<1>3. f \in [S -> 1..Cardinality(S)] /\ \A x, y \in S : f[x] = f[y] => x = y
      BY <1>1, <1>2
<1>4. \A n \in 1..Cardinality(S) : \E x \in S : f[x] = n
      <2> HIDE DEF f
      <2>1. QED BY <1>3, RanksAreOnto
<1>5. QED BY <1>1, <1>2, <1>4

-----------------------------------------------------------------------------
(* The wall.  What the server, the channels, the lists and the calls hold  *)
(* when there are n messages.                                              *)
Token(n) == 1..n \cup {FirstPage}
Noted(n) == [id : 1..n, read : BOOLEAN, known : BOOLEAN]
Tlm(n) == [kind : {"message"}, event : 1..n]
Mark == [kind : {"all", "list", "content"}, ids : SUBSET Message, content : Content \cup {None}]
Page(n) == [items : Seq(Noted(n)), hasNext : BOOLEAN, token : Token(n), last : 0..n]
LoadCalls(n) ==
    [op : {"load"}, tab : Tab, token : Token(n), mutes : BOOLEAN, answer : Page(n) \cup {None}]
MarkCalls(n) ==
    [op : {"mark"}, tab : Tab, here : BOOLEAN, phase : {"asked", "answered"},
     covered : SUBSET (1..n), mark : Mark]
FetchCalls(n) == [op : {"fetch"}, tab : Tab, event : 1..n]
Call(n) == {None} \cup LoadCalls(n) \cup MarkCalls(n) \cup FetchCalls(n)

(* None is not one of the records that calls and answers are.              *)
NoneIsNoCall ==
    /\ \A call : "op" \in DOMAIN call => call # None
    /\ \A page : "items" \in DOMAIN page => page # None

MessageTypes(n) ==
    /\ n \in 0..MaxMessage /\ messages \in [1..n -> Content]
    /\ read \in SUBSET (1..n) /\ muted \in BOOLEAN
    /\ tlms \in Seq(Tlm(n)) /\ link \in [Tab \X Tab -> Seq(Tlm(n) \cup Mark)]
StoreTypes(n) ==
    /\ rawList \in [Tab -> Seq(Noted(n))] /\ applied \in [Tab -> BOOLEAN]
    /\ hasNextPage \in [Tab -> BOOLEAN] /\ nextPageToken \in [Tab -> Token(n)]
    /\ isLoading \in [Tab -> BOOLEAN] /\ failed \in [Tab -> BOOLEAN]
HistoryTypes(n) ==
    /\ firstRead \in [Tab -> 0..n]
    /\ handled \in [Tab -> SUBSET (1..n)]
    /\ marked \in [Tab -> SUBSET (1..n)] /\ stale \in [Tab -> SUBSET (1..n)]
CallTypes(n) == calls \in [Slot -> Call(n)]

Types(n) == MessageTypes(n) /\ StoreTypes(n) /\ HistoryTypes(n) /\ CallTypes(n)
WallTypes == Types(Len(messages))

IsLoad(call, t) == call # None /\ call.op = "load" /\ call.tab = t
IsAnsweredMark(call) == call # None /\ call.op = "mark" /\ call.phase = "answered"
IsFetch(call, t, e) == call # None /\ call.op = "fetch" /\ call.tab = t /\ call.event = e

(* What a tab was given is in its list.                                    *)
HasAll(raw, heard, has, token, first) ==
    /\ \A e \in heard : e \in IdsOf(raw)
    /\ \A e \in 1..first : (has => e >= token) => e \in IdsOf(raw)

(* A page that was asked for with a token has all there is below it, down  *)
(* to its own token when there is more.                                    *)
Covers(token, page) ==
    /\ \A e \in 1..(IF token = FirstPage THEN page.last ELSE token - 1) :
          (page.hasNext => e >= page.token) => e \in IdsOf(page.items)
    /\ page.hasNext => page.token # FirstPage

(* The loads of a tab.  Its first page is asked for alone; a later one     *)
(* when the list has all that comes before it.                             *)
TabPages(t, cs, raw, has, token, first) ==
    /\ has => token # FirstPage
    /\ \A s \in Slot : IsLoad(cs[s], t) =>
          /\ cs[s].token = FirstPage =>
                ~has /\ \A r \in Slot : IsLoad(cs[r], t) => r = s
          /\ cs[s].token # FirstPage =>
                \A e \in 1..first : e >= cs[s].token => e \in IdsOf(raw)
          /\ cs[s].answer # None => Covers(cs[s].token, cs[s].answer)

PagesInv ==
    \A t \in Tab :
       /\ HasAll(rawList[t], handled[t], hasNextPage[t], nextPageToken[t], firstRead[t])
       /\ TabPages(t, calls, rawList[t], hasNextPage[t], nextPageToken[t], firstRead[t])

(* What an item of a channel says of a message.                            *)
Selects(ms, item, e) ==
    /\ item.kind # "message"
    /\ item.kind = "all" \/ e \in item.ids \/ ms[e] = item.content
Tells(item, e) == item.kind = "message" /\ item.event = e

(* A list does not show a message as unread, unless it has not its content *)
(* or a mark is to come.                                                   *)
ShownRead(raw, e) == \A i \in DOMAIN raw : raw[i].id = e /\ raw[i].known => raw[i].read
MarkComes(t, ms, lk, e) ==
    \E u \in Tab : \E j \in DOMAIN lk[<<u, t>>] : Selects(ms, lk[<<u, t>>][j], e)
MarkReaches(t, ms, lk, raw, e) == ShownRead(raw, e) \/ MarkComes(t, ms, lk, e)

(* Of a message that is read nothing is on its way to a tab, unless it was *)
(* when it was marked; and one the tab was told to mark is shown as read,  *)
(* or the mark is on its way.                                              *)
CallsShowRead(t, cs, e) ==
    \A s \in Slot : /\ IsLoad(cs[s], t) /\ cs[s].answer # None => ShownRead(cs[s].answer.items, e)
                    /\ ~ IsFetch(cs[s], t, e)
NotTold(t, tl, lk, e) ==
    /\ \A i \in DOMAIN tl : tl[i].event # e
    /\ \A u \in Tab : \A i \in DOMAIN lk[<<u, t>>] : ~ Tells(lk[<<u, t>>][i], e)
TabMarks(t, ms, rd, st, mk, tl, lk, raw, cs) ==
    /\ mk \subseteq rd
    /\ \A e \in rd \ st : CallsShowRead(t, cs, e) /\ NotTold(t, tl, lk, e)
    /\ \A e \in mk \ st : MarkReaches(t, ms, lk, raw, e)

MarksInv ==
    \A t \in Tab : TabMarks(t, messages, read, stale[t], marked[t], tlms, link, rawList[t], calls)

(* A mark the server has answered covers what it selects.                  *)
MarkIsTold(call, ms, rd) ==
    /\ call.covered \subseteq rd
    /\ \A e \in call.covered : Selects(ms, call.mark, e)

MarkCallsInv ==
    \A s \in Slot : IsAnsweredMark(calls[s]) => MarkIsTold(calls[s], messages, read)

(* The list of a rendering, and a wall that waits for no page.             *)
ListIn(ms, raw, mutes) ==
    PickedFrom(raw, {i \in DOMAIN raw : ~mutes \/ ms[raw[i].id] \notin OtherSpace})
FilledFor(t, ms, has, fl, raw, ap, cs) ==
    has /\ ~fl /\ (\A s \in Slot : ~IsLoad(cs[s], t)) => Len(ListIn(ms, raw, ap)) >= Window
FilledInv ==
    \A t \in Tab :
       FilledFor(t, messages, hasNextPage[t], failed[t], rawList[t], applied[t], calls)

(* The calls after a rendering of a tab: others, and perhaps one more.     *)
CallsFrom(t, others, cs, has, token, mutes) ==
    \A s \in Slot :
       \/ cs[s] = others[s]
       \/ others[s] = None /\ has /\ cs[s] = LoadCall(t, token, mutes)

-----------------------------------------------------------------------------
(* Lists.                                                                  *)
LEMMA ListOfSeq ==
    ASSUME NEW S, NEW raw \in Seq(S)
    PROVE  /\ Len(raw) \in Nat /\ DOMAIN raw = 1..Len(raw)
           /\ raw \in [1..Len(raw) -> S] /\ \A i \in DOMAIN raw : raw[i] \in S
BY LenProperties

(* What is picked from a list is in it, and nothing is left out.           *)
LEMMA PickedAreListed ==
    ASSUME NEW S, NEW raw \in Seq(S), NEW places \in SUBSET (DOMAIN raw)
    PROVE  LET l == PickedFrom(raw, places)
           IN /\ l \in Seq(S)
              /\ \A k \in DOMAIN l : \E i \in places : l[k] = raw[i]
              /\ \A i \in places : \E k \in DOMAIN l : l[k] = raw[i]
<1> DEFINE upTo == [n \in places |-> {m \in places : m <= n}]
           Rank(n) == Cardinality({m \in places : m <= n})
           c == Cardinality(places)
           l == PickedFrom(raw, places)
<1>1. /\ DOMAIN raw = 1..Len(raw) /\ Len(raw) \in Nat
      /\ \A i \in DOMAIN raw : raw[i] \in S
      BY ListOfSeq
<1>2. IsFiniteSet(places) /\ places \in SUBSET Int
      <2>1. IsFiniteSet(1..Len(raw)) /\ (1..Len(raw)) \subseteq Int
            BY <1>1, FS_Interval
      <2>2. QED BY <1>1, <2>1, FS_Subset
<1>3. /\ \A n \in places : upTo[n] \in SUBSET places /\ n \in upTo[n]
      /\ \A m, n \in places : m # n =>
            \/ upTo[m] \subseteq upTo[n] /\ n \notin upTo[m]
            \/ upTo[n] \subseteq upTo[m] /\ m \notin upTo[n]
      <2>1. ASSUME NEW m \in places, NEW n \in places, m < n
            PROVE  upTo[m] \subseteq upTo[n] /\ n \notin upTo[m]
            <3>1. m \in Int /\ n \in Int /\ \A g \in places : g \in Int
                  BY <1>2
            <3>2. upTo[m] = {g \in places : g <= m} /\ upTo[n] = {g \in places : g <= n}
                  OBVIOUS
            <3> HIDE DEF upTo
            <3>3. \A g \in places : g <= m => g <= n
                  BY <2>1, <3>1
            <3>4. QED BY <2>1, <3>1, <3>2, <3>3
      <2>2. \A n \in places : upTo[n] \in SUBSET places /\ n \in upTo[n]
            BY <1>2
      <2>3. \A m, n \in places : m # n => m < n \/ n < m
            BY <1>2
      <2> HIDE DEF upTo
      <2>4. QED BY <2>1, <2>2, <2>3
<1>4. c \in Nat
      BY <1>2, FS_CardinalityType
<1>5. \A n \in places : Cardinality(upTo[n]) = Rank(n)
      OBVIOUS
<1>6. /\ \A n \in places : Rank(n) \in 1..c
      /\ \A i \in 1..c : \E n \in places : Rank(n) = i
      /\ \A m, n \in places : Rank(m) = Rank(n) => m = n
      <2> HIDE DEF upTo, Rank
      <2>1. /\ \A n \in places : Cardinality(upTo[n]) \in 1..c
            /\ \A m, n \in places : Cardinality(upTo[m]) = Cardinality(upTo[n]) => m = n
            /\ \A i \in 1..c : \E n \in places : Cardinality(upTo[n]) = i
            BY <1>2, <1>3, RanksOfAnOrder
      <2>2. QED BY <1>5, <2>1
<1>7. l = [i \in 1..c |-> raw[CHOOSE n \in places : Rank(n) = i]]
      BY DEF PickedFrom
<1> HIDE DEF upTo, Rank, l, c
<1>8. DOMAIN l = 1..c /\ \A k \in 1..c : \E i \in places : Rank(i) = k /\ l[k] = raw[i]
      BY <1>6, <1>7
<1>9. \A i \in places : l[Rank(i)] = raw[i]
      BY <1>6, <1>8
<1>10. l \in Seq(S)
      <2>1. l \in [1..c -> S]
            BY <1>1, <1>6, <1>7
      <2>2. QED BY <1>4, <2>1, SeqDef
<1>11. QED BY <1>6, <1>8, <1>9, <1>10 DEF l

(* Sorting a list reorders it.                                             *)
LEMMA SortReorders ==
    ASSUME NEW n \in Nat, NEW raw \in Seq(Noted(n))
    PROVE  LET l == SortByCreatedDate(raw)
           IN /\ l \in Seq(Noted(n))
              /\ \A k \in DOMAIN l : \E i \in DOMAIN raw : l[k] = raw[i]
              /\ \A i \in DOMAIN raw : \E k \in DOMAIN l : l[k] = raw[i]
<1> DEFINE c == Len(raw)
           upTo == [i \in 1..c |->
                       {j \in 1..c : \/ raw[j].id > raw[i].id
                                     \/ raw[j].id = raw[i].id /\ j <= i}]
           l == SortByCreatedDate(raw)
<1>1. c \in Nat /\ DOMAIN raw = 1..c /\ \A i \in 1..c : raw[i] \in Noted(n)
      BY ListOfSeq
<1>2. \A i \in 1..c : raw[i].id \in Int
      BY <1>1 DEF Noted
<1>3. /\ \A i \in 1..c : upTo[i] \in SUBSET (1..c) /\ i \in upTo[i]
      /\ \A i, j \in 1..c : i # j =>
            \/ upTo[i] \subseteq upTo[j] /\ j \notin upTo[i]
            \/ upTo[j] \subseteq upTo[i] /\ i \notin upTo[j]
      BY <1>1, <1>2
<1>4. \A i \in 1..c : Cardinality(upTo[i]) = PlaceOf(raw, i)
      BY <1>1 DEF PlaceOf
<1>5. IsFiniteSet(1..c) /\ Cardinality(1..c) = c
      <2>1. c \in Nat
            BY <1>1
      <2> HIDE DEF c
      <2>2. QED BY <2>1, FS_Interval
<1>6. /\ \A i \in 1..c : PlaceOf(raw, i) \in 1..c
      /\ \A i, j \in 1..c : PlaceOf(raw, i) = PlaceOf(raw, j) => i = j
      /\ \A k \in 1..c : \E i \in 1..c : PlaceOf(raw, i) = k
      <2> DEFINE D == 1..c
      <2>0. /\ IsFiniteSet(D) /\ Cardinality(D) = c
            /\ \A i \in D : upTo[i] \in SUBSET D /\ i \in upTo[i]
            /\ \A i, j \in D : i # j =>
                  \/ upTo[i] \subseteq upTo[j] /\ j \notin upTo[i]
                  \/ upTo[j] \subseteq upTo[i] /\ i \notin upTo[j]
            BY <1>3, <1>5
      <2> HIDE DEF upTo, l, c, D
      <2>1. /\ \A i \in D : Cardinality(upTo[i]) \in 1..Cardinality(D)
            /\ \A i, j \in D : Cardinality(upTo[i]) = Cardinality(upTo[j]) => i = j
            /\ \A k \in 1..Cardinality(D) : \E i \in D : Cardinality(upTo[i]) = k
            BY <2>0, RanksOfAnOrder
      <2>2. QED BY <1>4, <2>0, <2>1 DEF D
<1>7. l = [k \in 1..c |-> raw[CHOOSE i \in 1..c : PlaceOf(raw, i) = k]]
      BY <1>1 DEF SortByCreatedDate
<1> HIDE DEF upTo, l, c
<1>8. DOMAIN l = 1..c /\ \A k \in 1..c : \E i \in 1..c : PlaceOf(raw, i) = k /\ l[k] = raw[i]
      BY <1>6, <1>7
<1>9. \A i \in 1..c : l[PlaceOf(raw, i)] = raw[i]
      BY <1>6, <1>8
<1>10. l \in Seq(Noted(n))
      <2>1. l \in [1..c -> Noted(n)]
            BY <1>1, <1>6, <1>7
      <2>2. QED BY <1>1, <2>1, SeqDef
<1>11. QED BY <1>1, <1>6, <1>8, <1>9, <1>10 DEF l

(* What a mark leaves of a list: the same messages, those it selects read. *)
MarksList(raw, mark, l) ==
    /\ \A e : e \in IdsOf(l) <=> e \in IdsOf(raw)
    /\ \A k \in DOMAIN l : \E i \in DOMAIN raw :
          /\ l[k].id = raw[i].id
          /\ raw[i].read => l[k].read
          /\ l[k].known = raw[i].known
          /\ Selected(mark, raw[i].id) /\ raw[i].known => l[k].read

(* Marking a list leaves its messages, those the mark selects read.        *)
LEMMA MarkedList ==
    ASSUME NEW n \in Nat, NEW raw \in Seq(Noted(n)), NEW mark
    PROVE  Marked(mark, raw) \in Seq(Noted(n)) /\ MarksList(raw, mark, Marked(mark, raw))
<1> DEFINE l == Marked(mark, raw)
<1>1. /\ DOMAIN raw = 1..Len(raw) /\ Len(raw) \in Nat
      /\ \A i \in DOMAIN raw : raw[i] \in Noted(n)
      BY ListOfSeq
<1>2. DOMAIN l = DOMAIN raw
      BY DEF Marked
<1>3. \A i \in DOMAIN raw :
         /\ l[i] \in Noted(n) /\ l[i].id = raw[i].id
         /\ raw[i].read => l[i].read
         /\ l[i].known = raw[i].known
         /\ Selected(mark, raw[i].id) /\ raw[i].known => l[i].read
      BY <1>1 DEF Marked, SelectedItem, Noted
<1> HIDE DEF l
<1>4. l \in Seq(Noted(n))
      <2>1. l = [i \in 1..Len(raw) |-> l[i]]
            BY <1>1, <1>2 DEF l, Marked
      <2>2. l \in [1..Len(raw) -> Noted(n)]
            BY <1>1, <1>3, <2>1
      <2>3. QED BY <1>1, <2>2, SeqDef
<1>5. \A e : e \in IdsOf(l) <=> e \in IdsOf(raw)
      BY <1>2, <1>3 DEF IdsOf
<1>6. QED BY <1>2, <1>3, <1>4, <1>5 DEF l, MarksList

(* The places of a list where an id is for the first time have them all.   *)
LEMMA FirstPlaces ==
    ASSUME NEW n \in Nat, NEW raw \in Seq(Noted(n)), NEW i \in DOMAIN raw
    PROVE  \E j \in DOMAIN raw :
              raw[j].id = raw[i].id /\ \A k \in 1..j - 1 : raw[k].id # raw[j].id
<1>1. DOMAIN raw = 1..Len(raw) /\ Len(raw) \in Nat
      BY ListOfSeq
<1> DEFINE S == {j \in DOMAIN raw : raw[j].id = raw[i].id}
           R == OpToRel(<, Nat)
<1>2. S \in SUBSET Nat /\ i \in S
      BY <1>1
<1>3. IsWellFoundedOn(R, Nat)
      BY NatLessThanWellFounded, Zenon
<1>4. \A p, q \in Nat : p < q => <<p, q>> \in R
      BY DEF OpToRel
<1> HIDE DEF R, S
<1>5. PICK j \in S : \A k \in S : ~ (<<k, j>> \in R)
      BY <1>2, <1>3, WFMin
<1>6. j \in DOMAIN raw /\ raw[j].id = raw[i].id
      BY <1>5 DEF S
<1>7. ASSUME NEW k \in 1..j - 1, raw[k].id = raw[j].id PROVE FALSE
      <2>1. k \in DOMAIN raw /\ k < j /\ k \in Nat /\ j \in Nat
            BY <1>1, <1>6
      <2>2. k \in S
            BY <1>6, <1>7, <2>1 DEF S
      <2>3. QED BY <1>4, <1>5, <2>1, <2>2
<1>8. QED BY <1>6, <1>7

(* _uniqBy leaves one notification of each id, the first.                  *)
LEMMA UniqListed ==
    ASSUME NEW n \in Nat, NEW raw \in Seq(Noted(n))
    PROVE  LET l == UniqById(raw)
           IN /\ l \in Seq(Noted(n))
              /\ \A e : e \in IdsOf(l) <=> e \in IdsOf(raw)
              /\ \A k \in DOMAIN l : \E i \in DOMAIN raw : l[k] = raw[i]
<1> DEFINE places == {i \in DOMAIN raw : \A j \in 1..i - 1 : raw[j].id # raw[i].id}
           l == UniqById(raw)
<1>1. places \in SUBSET (DOMAIN raw)
      OBVIOUS
<1>2. \A i \in DOMAIN raw : \E j \in places : raw[j].id = raw[i].id
      BY FirstPlaces
<1>3. l = PickedFrom(raw, places)
      BY DEF UniqById
<1> HIDE DEF places, l
<1>4. /\ l \in Seq(Noted(n))
      /\ \A k \in DOMAIN l : \E i \in places : l[k] = raw[i]
      /\ \A i \in places : \E k \in DOMAIN l : l[k] = raw[i]
      BY <1>1, <1>3, PickedAreListed
<1>5. \A e : e \in IdsOf(l) <=> e \in IdsOf(raw)
      <2>1. ASSUME NEW k \in DOMAIN l PROVE \E i \in DOMAIN raw : raw[i].id = l[k].id
            BY <1>1, <1>4
      <2>2. ASSUME NEW i \in DOMAIN raw PROVE \E k \in DOMAIN l : l[k].id = raw[i].id
            BY <1>2, <1>4
      <2>3. QED BY <2>1, <2>2 DEF IdsOf
<1>6. QED BY <1>1, <1>4, <1>5 DEF l

(* Marking a list and dropping what it has twice leaves the same messages. *)
LEMMA UniqMarkedList ==
    ASSUME NEW n \in Nat, NEW raw \in Seq(Noted(n)), NEW mark
    PROVE  LET l == UniqById(Marked(mark, raw))
           IN l \in Seq(Noted(n)) /\ MarksList(raw, mark, l)
<1> DEFINE m == Marked(mark, raw)
           l == UniqById(m)
<1>1. m \in Seq(Noted(n)) /\ MarksList(raw, mark, m)
      BY MarkedList
<1> HIDE DEF m
<1>2. /\ l \in Seq(Noted(n))
      /\ \A e : e \in IdsOf(l) <=> e \in IdsOf(m)
      /\ \A k \in DOMAIN l : \E i \in DOMAIN m : l[k] = m[i]
      BY <1>1, UniqListed
<1> HIDE DEF l
<1>3. MarksList(raw, mark, l)
      BY <1>1, <1>2 DEF MarksList
<1>4. QED BY <1>2, <1>3 DEF l, m

(* A live message is added to a list as unread.                            *)
LEMMA AddedList ==
    ASSUME NEW n \in Nat, NEW raw \in Seq(Noted(n)), NEW e \in 1..n, NEW known \in BOOLEAN
    PROVE  LET l == SortByCreatedDate(Append(raw, [id |-> e, read |-> FALSE, known |-> known]))
           IN /\ l \in Seq(Noted(n))
              /\ \A d : d \in IdsOf(l) <=> d \in IdsOf(raw) \/ d = e
              /\ \A k \in DOMAIN l : l[k].id = e \/ \E i \in DOMAIN raw : l[k] = raw[i]
<1> DEFINE new == [id |-> e, read |-> FALSE, known |-> known]
           m == Append(raw, new)
           l == SortByCreatedDate(m)
<1>1. new \in Noted(n) /\ new.id = e
      BY DEF Noted
<1>2. Len(raw) \in Nat /\ DOMAIN raw = 1..Len(raw)
      BY ListOfSeq
<1> HIDE DEF new
<1>3. /\ m \in Seq(Noted(n)) /\ DOMAIN m = 1..(Len(raw) + 1)
      /\ \A i \in 1..Len(raw) : m[i] = raw[i]
      /\ m[Len(raw) + 1] = new
      BY <1>1, <1>2, AppendProperties, LenProperties
<1> HIDE DEF m
<1>4. /\ l \in Seq(Noted(n))
      /\ \A k \in DOMAIN l : \E i \in DOMAIN m : l[k] = m[i]
      /\ \A i \in DOMAIN m : \E k \in DOMAIN l : l[k] = m[i]
      BY <1>3, SortReorders
<1> HIDE DEF l
<1>5. \A i \in DOMAIN m : m[i] = new \/ (i \in DOMAIN raw /\ m[i] = raw[i])
      BY <1>2, <1>3
<1>6. /\ \A i \in DOMAIN raw : i \in DOMAIN m /\ m[i] = raw[i]
      /\ \E i \in DOMAIN m : m[i] = new
      BY <1>2, <1>3
<1>7. \A d : d \in IdsOf(l) <=> d \in IdsOf(raw) \/ d = e
      <2>1. ASSUME NEW k \in DOMAIN l
            PROVE  l[k].id = e \/ \E i \in DOMAIN raw : raw[i].id = l[k].id
            BY <1>1, <1>4, <1>5
      <2>2. ASSUME NEW i \in DOMAIN raw PROVE \E k \in DOMAIN l : l[k].id = raw[i].id
            BY <1>4, <1>6
      <2>3. \E k \in DOMAIN l : l[k].id = e
            BY <1>1, <1>4, <1>6
      <2>4. QED BY <2>1, <2>2, <2>3 DEF IdsOf
<1>8. \A k \in DOMAIN l : l[k].id = e \/ \E i \in DOMAIN raw : l[k] = raw[i]
      BY <1>1, <1>4, <1>5
<1>9. QED BY <1>4, <1>7, <1>8 DEF l, m, new

(* A page goes behind a list.                                              *)
LEMMA AppendedList ==
    ASSUME NEW n \in Nat, NEW raw \in Seq(Noted(n)), NEW items \in Seq(Noted(n))
    PROVE  LET l == raw \o items
           IN /\ l \in Seq(Noted(n))
              /\ \A d : d \in IdsOf(l) <=> d \in IdsOf(raw) \/ d \in IdsOf(items)
              /\ \A k \in DOMAIN l : \/ \E i \in DOMAIN raw : l[k] = raw[i]
                                     \/ \E i \in DOMAIN items : l[k] = items[i]
<1> DEFINE l == raw \o items
           a == Len(raw)
           b == Len(items)
<1>1. a \in Nat /\ b \in Nat /\ DOMAIN raw = 1..a /\ DOMAIN items = 1..b
      BY ListOfSeq
<1>2. /\ l \in Seq(Noted(n)) /\ DOMAIN l = 1..(a + b)
      /\ \A i \in 1..(a + b) : l[i] = IF i <= a THEN raw[i] ELSE items[i - a]
      BY ConcatProperties, LenProperties
<1> HIDE DEF l, a, b
<1>3. \A i \in 1..a : i \in 1..(a + b) /\ l[i] = raw[i]
      BY <1>1, <1>2
<1>4. \A i \in 1..b : a + i \in 1..(a + b) /\ l[a + i] = items[i]
      <2> SUFFICES ASSUME NEW i \in 1..b PROVE a + i \in 1..(a + b) /\ l[a + i] = items[i]
          OBVIOUS
      <2>1. a + i \in 1..(a + b) /\ ~(a + i <= a) /\ (a + i) - a = i
            BY <1>1
      <2>2. QED BY <1>2, <2>1
<1>5. \A k \in 1..(a + b) : \/ k \in 1..a /\ l[k] = raw[k]
                            \/ k - a \in 1..b /\ l[k] = items[k - a]
      BY <1>1, <1>2
<1>6. \A k \in DOMAIN l : \/ \E i \in DOMAIN raw : l[k] = raw[i]
                          \/ \E i \in DOMAIN items : l[k] = items[i]
      BY <1>1, <1>2, <1>5
<1>7. \A d : d \in IdsOf(l) <=> d \in IdsOf(raw) \/ d \in IdsOf(items)
      <2>1. ASSUME NEW d \in IdsOf(l) PROVE d \in IdsOf(raw) \/ d \in IdsOf(items)
            BY <1>6 DEF IdsOf
      <2>2. ASSUME NEW d \in IdsOf(raw) PROVE d \in IdsOf(l)
            BY <1>1, <1>2, <1>3 DEF IdsOf
      <2>3. ASSUME NEW d \in IdsOf(items) PROVE d \in IdsOf(l)
            <3>1. PICK i \in DOMAIN items : items[i].id = d
                  BY DEF IdsOf
            <3>2. a + i \in DOMAIN l /\ l[a + i].id = d
                  BY <1>1, <1>2, <1>4, <3>1
            <3>3. QED BY <3>2 DEF IdsOf
      <2>4. QED BY <2>1, <2>2, <2>3
<1>8. QED BY <1>2, <1>6, <1>7 DEF l

-----------------------------------------------------------------------------
(* The calls of the tabs.                                                  *)
LEMMA MinIsLeast ==
    ASSUME NEW S \in SUBSET Nat, S # {}
    PROVE  Min(S) \in S /\ \A y \in S : Min(S) <= y
<1> DEFINE R == OpToRel(<, Nat)
<1>1. IsWellFoundedOn(R, Nat)
      BY NatLessThanWellFounded, Zenon
<1>2. \A m, n \in Nat : m < n => <<m, n>> \in R
      BY DEF OpToRel
<1> HIDE DEF R
<1>3. PICK x \in S : \A y \in S : ~ (<<y, x>> \in R)
      BY <1>1, WFMin
<1>4. ASSUME NEW y \in S PROVE x <= y
      <2>1. x \in Nat /\ y \in Nat
            OBVIOUS
      <2>2. ~ (y < x)
            BY <1>2, <1>3, <2>1, Zenon
      <2>3. QED BY <2>1, <2>2
<1>5. QED BY <1>4 DEF Min

(* A new call takes a slot that is free.                                   *)
LEMMA FreeSlot ==
    ASSUME NEW slots, FreeIn(slots) # {}
    PROVE  Min(FreeIn(slots)) \in Slot /\ slots[Min(FreeIn(slots))] = None
<1>1. FreeIn(slots) \in SUBSET Nat
      BY WallCountAssumption DEF FreeIn, Slot
<1>2. Min(FreeIn(slots)) \in FreeIn(slots)
      BY <1>1, MinIsLeast
<1>3. QED BY <1>2 DEF FreeIn

(* A call that asks for a page is a call.                                  *)
LEMMA LoadCallType ==
    ASSUME NEW n \in Nat, NEW t \in Tab, NEW token \in Token(n), NEW mutes \in BOOLEAN
    PROVE  LoadCall(t, token, mutes) \in Call(n)
BY DEF LoadCall, Call, LoadCalls

(* A new call is a load of its own tab, not answered yet.                  *)
LEMMA LoadCallIsLoad ==
    ASSUME NoneIsNoCall, NEW t, NEW token, NEW mutes
    PROVE  /\ IsLoad(LoadCall(t, token, mutes), t)
           /\ LoadCall(t, token, mutes).answer = None /\ LoadCall(t, token, mutes).token = token
           /\ ~ IsAnsweredMark(LoadCall(t, token, mutes))
           /\ \A u, e : ~ IsFetch(LoadCall(t, token, mutes), u, e)
           /\ \A u : u # t => ~ IsLoad(LoadCall(t, token, mutes), u)
BY DEF LoadCall, IsLoad, IsFetch, IsAnsweredMark, NoneIsNoCall

(* What is rendered of a list is what ListIn picks from it.                *)
LEMMA LenOfList ==
    ASSUME NEW n \in Nat, NEW raw \in Seq(Noted(n)), NEW mutes
    PROVE  ListOf(raw, mutes) = ListIn(messages, raw, mutes) /\ Len(ListOf(raw, mutes)) \in Nat
<1> DEFINE places == {i \in DOMAIN raw : Kept(raw[i].id, mutes)}
<1>1. ListOf(raw, mutes) = PickedFrom(raw, places)
      BY DEF ListOf
<1>2. places = {i \in DOMAIN raw : ~mutes \/ messages[raw[i].id] \notin OtherSpace}
      BY DEF Kept
<1>3. places \in SUBSET (DOMAIN raw)
      OBVIOUS
<1> HIDE DEF places
<1>4. PickedFrom(raw, places) \in Seq(Noted(n))
      BY <1>3, PickedAreListed
<1>5. QED BY <1>1, <1>2, <1>4, LenProperties DEF ListIn

(* A list that is set is rendered: the wall is filled, there is no more    *)
(* page, or one is asked for.                                              *)
LEMMA SetListStep ==
    ASSUME NoneIsNoCall, NEW n \in Nat, NEW t \in Tab, NEW raw \in Seq(Noted(n)),
           NEW mutes \in BOOLEAN, NEW others \in [Slot -> Call(n)], NEW loading \in BOOLEAN,
           StoreTypes(n), muted \in BOOLEAN,
           hasNextPage' \in [Tab -> BOOLEAN], nextPageToken' \in [Tab -> Token(n)],
           SetList(t, raw, mutes, others, loading)
    PROVE  /\ StoreTypes(n)' /\ CallTypes(n)'
           /\ rawList'[t] = raw
           /\ \A u \in Tab : u # t => /\ rawList'[u] = rawList[u] /\ applied'[u] = applied[u]
                                      /\ failed'[u] = failed[u]
           /\ CallsFrom(t, others, calls', hasNextPage'[t], nextPageToken'[t], muted)
           /\ FilledFor(t, messages, hasNextPage'[t], failed'[t], raw, applied'[t], calls')
<1> DEFINE unfilled == Unfilled(t, raw, mutes)
           slot == Min(FreeIn(others))
           load == LoadCall(t, nextPageToken'[t], muted)
<1>1. /\ rawList' = [rawList EXCEPT ![t] = raw]
      /\ applied' = [applied EXCEPT ![t] = mutes]
      /\ failed' = [failed EXCEPT ![t] = FALSE]
      /\ Rendered(t, unfilled, others, loading)
      BY DEF SetList
<1>2. /\ rawList \in [Tab -> Seq(Noted(n))] /\ applied \in [Tab -> BOOLEAN]
      /\ isLoading \in [Tab -> BOOLEAN] /\ failed \in [Tab -> BOOLEAN]
      BY DEF StoreTypes
<1>3. /\ rawList' \in [Tab -> Seq(Noted(n))] /\ applied' \in [Tab -> BOOLEAN]
      /\ failed' \in [Tab -> BOOLEAN]
      /\ rawList'[t] = raw /\ applied'[t] = mutes
      /\ \A u \in Tab : u # t => /\ rawList'[u] = rawList[u] /\ applied'[u] = applied[u]
                                 /\ failed'[u] = failed[u]
      BY <1>1, <1>2
<1>4. unfilled <=> Len(ListIn(messages, raw, mutes)) < Window /\ hasNextPage'[t]
      BY LenOfList DEF Unfilled
<1>5. Len(ListIn(messages, raw, mutes)) \in Nat /\ Window \in Nat
      BY LenOfList, WallCountAssumption
<1>6. load \in Call(n)
      BY LoadCallType
<1> HIDE DEF unfilled
<1>7. CASE unfilled
      <2>1. /\ FreeIn(others) # {}
            /\ calls' = [others EXCEPT ![slot] = load]
            /\ isLoading' = [isLoading EXCEPT ![t] = TRUE]
            BY <1>1, <1>7 DEF Rendered
      <2>2. slot \in Slot /\ others[slot] = None
            BY <2>1, FreeSlot
      <2>3. IsLoad(load, t)
            BY LoadCallIsLoad
      <2> HIDE DEF slot, load
      <2>4. calls' \in [Slot -> Call(n)] /\ isLoading' \in [Tab -> BOOLEAN]
            BY <1>2, <1>6, <2>1, <2>2
      <2>5. calls'[slot] = load /\ \A s \in Slot : s # slot => calls'[s] = others[s]
            BY <2>1, <2>2
      <2>6. CallsFrom(t, others, calls', hasNextPage'[t], nextPageToken'[t], muted)
            BY <1>4, <1>7, <2>2, <2>5 DEF CallsFrom, load
      <2>7. FilledFor(t, messages, hasNextPage'[t], failed'[t], raw, applied'[t], calls')
            BY <2>2, <2>3, <2>5 DEF FilledFor
      <2>8. QED BY <1>3, <2>4, <2>6, <2>7 DEF StoreTypes, CallTypes
<1>8. CASE ~unfilled
      <2> HIDE DEF slot, load
      <2>1. calls' = others /\ isLoading' = [isLoading EXCEPT ![t] = loading]
            BY <1>1, <1>8 DEF Rendered
      <2>2. calls' \in [Slot -> Call(n)] /\ isLoading' \in [Tab -> BOOLEAN]
            BY <1>2, <2>1
      <2>3. CallsFrom(t, others, calls', hasNextPage'[t], nextPageToken'[t], muted)
            BY <2>1 DEF CallsFrom
      <2>4. FilledFor(t, messages, hasNextPage'[t], failed'[t], raw, applied'[t], calls')
            BY <1>3, <1>4, <1>5, <1>8 DEF FilledFor
      <2>5. StoreTypes(n)' /\ CallTypes(n)'
            BY <1>3, <2>2 DEF StoreTypes, CallTypes
      <2>6. QED BY <1>3, <2>3, <2>4, <2>5
<1>9. QED BY <1>7, <1>8

(* A mark in a tab.                                                        *)
LEMMA ReadStep ==
    ASSUME NoneIsNoCall, NEW n \in Nat, NEW t \in Tab, NEW mark,
           NEW others \in [Slot -> Call(n)], StoreTypes(n), muted \in BOOLEAN,
           Read(t, mark, others)
    PROVE  /\ StoreTypes(n)' /\ CallTypes(n)'
           /\ UNCHANGED <<hasNextPage, nextPageToken>>
           /\ MarksList(rawList[t], mark, rawList'[t])
           /\ \A u \in Tab : u # t => /\ rawList'[u] = rawList[u] /\ applied'[u] = applied[u]
                                      /\ failed'[u] = failed[u]
           /\ CallsFrom(t, others, calls', hasNextPage[t], nextPageToken[t], muted)
           /\ \/ FilledFor(t, messages, hasNextPage[t], failed'[t], rawList'[t], applied'[t], calls')
              \/ calls' = others /\ UNCHANGED <<rawList, applied, failed>>
<1>1. UNCHANGED <<hasNextPage, nextPageToken>>
      BY DEF Read
<1>2. /\ rawList \in [Tab -> Seq(Noted(n))] /\ applied \in [Tab -> BOOLEAN]
      /\ isLoading \in [Tab -> BOOLEAN] /\ failed \in [Tab -> BOOLEAN]
      /\ hasNextPage' \in [Tab -> BOOLEAN] /\ nextPageToken' \in [Tab -> Token(n)]
      BY <1>1 DEF StoreTypes
<1>3. rawList[t] \in Seq(Noted(n)) /\ applied[t] \in BOOLEAN /\ isLoading[t] \in BOOLEAN
      BY <1>2
<1>4. ASSUME NEW raw \in Seq(Noted(n)), MarksList(rawList[t], mark, raw),
             SetList(t, raw, applied[t], others, isLoading[t])
      PROVE  /\ StoreTypes(n)' /\ CallTypes(n)'
             /\ MarksList(rawList[t], mark, rawList'[t])
             /\ \A u \in Tab : u # t => /\ rawList'[u] = rawList[u] /\ applied'[u] = applied[u]
                                        /\ failed'[u] = failed[u]
             /\ CallsFrom(t, others, calls', hasNextPage[t], nextPageToken[t], muted)
             /\ FilledFor(t, messages, hasNextPage[t], failed'[t], rawList'[t], applied'[t], calls')
      <2>1. /\ StoreTypes(n)' /\ CallTypes(n)'
            /\ rawList'[t] = raw
            /\ \A u \in Tab : u # t => /\ rawList'[u] = rawList[u] /\ applied'[u] = applied[u]
                                       /\ failed'[u] = failed[u]
            /\ CallsFrom(t, others, calls', hasNextPage'[t], nextPageToken'[t], muted)
            /\ FilledFor(t, messages, hasNextPage'[t], failed'[t], raw, applied'[t], calls')
            <3>1. PICK mutes \in BOOLEAN, loading \in BOOLEAN : SetList(t, raw, mutes, others, loading)
                  BY <1>3, <1>4
            <3>2. QED BY <1>2, <3>1, SetListStep
      <2>2. QED BY <1>1, <1>4, <2>1
<1>5. CASE mark.kind # "list"
      <2> DEFINE raw == UniqById(Marked(mark, rawList[t]))
      <2>1. raw \in Seq(Noted(n)) /\ MarksList(rawList[t], mark, raw)
            BY <1>3, UniqMarkedList
      <2>2. SetList(t, raw, applied[t], others, isLoading[t])
            BY <1>5 DEF Read
      <2> HIDE DEF raw
      <2>3. QED BY <1>1, <1>4, <2>1, <2>2
<1>6. CASE mark.kind = "list" /\ Marked(mark, rawList[t]) # rawList[t]
      <2> DEFINE raw == Marked(mark, rawList[t])
      <2>1. raw \in Seq(Noted(n)) /\ MarksList(rawList[t], mark, raw)
            BY <1>3, MarkedList
      <2>2. SetList(t, raw, applied[t], others, isLoading[t])
            BY <1>6 DEF Read
      <2> HIDE DEF raw
      <2>3. QED BY <1>1, <1>4, <2>1, <2>2
<1>7. CASE mark.kind = "list" /\ Marked(mark, rawList[t]) = rawList[t]
      <2>1. calls' = others /\ UNCHANGED <<rawList, applied, isLoading, failed>>
            BY <1>7 DEF Read
      <2>2. MarksList(rawList[t], mark, rawList[t])
            BY <1>3, <1>7, MarkedList
      <2>3. CallsFrom(t, others, calls', hasNextPage[t], nextPageToken[t], muted)
            BY <2>1 DEF CallsFrom
      <2>4. StoreTypes(n)' /\ CallTypes(n)'
            BY <1>1, <2>1 DEF StoreTypes, CallTypes
      <2>5. QED BY <1>1, <2>1, <2>2, <2>3, <2>4
<1>8. QED BY <1>5, <1>6, <1>7

(* A live message in a tab.                                                *)
LEMMA HandleNotificationStep ==
    ASSUME NoneIsNoCall, NEW n \in Nat, Types(n), NEW t \in Tab, NEW e \in 1..n,
           NEW known \in BOOLEAN, NEW others \in [Slot -> Call(n)],
           HandleNotification(t, e, known, others)
    PROVE  /\ StoreTypes(n)' /\ CallTypes(n)'
           /\ UNCHANGED <<hasNextPage, nextPageToken>>
           /\ \A d : d \in IdsOf(rawList[t]) => d \in IdsOf(rawList'[t])
           /\ \A k \in DOMAIN rawList'[t] :
                 \/ rawList'[t][k].id = e
                 \/ \E i \in DOMAIN rawList[t] : rawList'[t][k] = rawList[t][i]
           /\ \/ handled' = [handled EXCEPT ![t] = @ \cup {e}] /\ e \in IdsOf(rawList'[t])
              \/ handled' = handled
           /\ \A u \in Tab : u # t => /\ rawList'[u] = rawList[u] /\ applied'[u] = applied[u]
                                      /\ failed'[u] = failed[u]
           /\ CallsFrom(t, others, calls', hasNextPage[t], nextPageToken[t], muted)
           /\ \/ FilledFor(t, messages, hasNextPage[t], failed'[t], rawList'[t], applied'[t], calls')
              \/ calls' = others /\ UNCHANGED <<rawList, applied, failed>>
<1>1. /\ UNCHANGED <<hasNextPage, nextPageToken>>
      /\ StoreTypes(n) /\ muted \in BOOLEAN
      BY DEF HandleNotification, Types, MessageTypes
<1>2. /\ rawList[t] \in Seq(Noted(n)) /\ isLoading[t] \in BOOLEAN
      /\ hasNextPage' \in [Tab -> BOOLEAN] /\ nextPageToken' \in [Tab -> Token(n)]
      BY <1>1 DEF StoreTypes
<1>3. CASE Kept(e, muted)
      <2> DEFINE raw == SortByCreatedDate(Append(rawList[t], [id |-> e, read |-> FALSE, known |-> known]))
      <2>1. /\ raw \in Seq(Noted(n))
            /\ \A d : d \in IdsOf(raw) <=> d \in IdsOf(rawList[t]) \/ d = e
            /\ \A k \in DOMAIN raw : raw[k].id = e \/ \E i \in DOMAIN rawList[t] : raw[k] = rawList[t][i]
            BY <1>2, AddedList
      <2>2. /\ SetList(t, raw, muted, others, isLoading[t])
            /\ handled' = [handled EXCEPT ![t] = @ \cup {e}]
            BY <1>3 DEF HandleNotification
      <2> HIDE DEF raw
      <2>3. /\ StoreTypes(n)' /\ CallTypes(n)'
            /\ rawList'[t] = raw
            /\ \A u \in Tab : u # t => /\ rawList'[u] = rawList[u] /\ applied'[u] = applied[u]
                                       /\ failed'[u] = failed[u]
            /\ CallsFrom(t, others, calls', hasNextPage'[t], nextPageToken'[t], muted)
            /\ FilledFor(t, messages, hasNextPage'[t], failed'[t], raw, applied'[t], calls')
            BY <1>1, <1>2, <2>1, <2>2, SetListStep
      <2>4. QED BY <1>1, <2>1, <2>2, <2>3
<1>4. CASE ~Kept(e, muted)
      <2>1. calls' = others /\ UNCHANGED <<rawList, applied, isLoading, failed, handled>>
            BY <1>4 DEF HandleNotification
      <2>2. StoreTypes(n)' /\ CallTypes(n)'
            BY <1>1, <2>1 DEF StoreTypes, CallTypes
      <2>3. CallsFrom(t, others, calls', hasNextPage[t], nextPageToken[t], muted)
            BY <2>1 DEF CallsFrom
      <2>4. QED BY <1>1, <2>1, <2>2, <2>3
<1>5. QED BY <1>3, <1>4

-----------------------------------------------------------------------------
(* What a call is.                                                         *)
LEMMA CallKinds ==
    ASSUME NEW n \in Nat, NEW call \in Call(n), call # None
    PROVE  /\ call.op = "load" => call \in LoadCalls(n)
           /\ call.op = "mark" => call \in MarkCalls(n)
           /\ call.op = "fetch" => call \in FetchCalls(n)
BY DEF Call, LoadCalls, MarkCalls, FetchCalls

(* Setting one call leaves the others.                                     *)
LEMMA OneCallSet ==
    ASSUME NEW n \in Nat, CallTypes(n), NEW s \in Slot, NEW call \in Call(n)
    PROVE  /\ [calls EXCEPT ![s] = call] \in [Slot -> Call(n)]
           /\ \A r \in Slot : [calls EXCEPT ![s] = call][r] = IF r = s THEN call ELSE calls[r]
BY DEF CallTypes

(* The messages are as many as their events.                               *)
LEMMA NumberOfMessages ==
    ASSUME NEW n \in Nat, MessageTypes(n)
    PROVE  Len(messages) = n /\ DOMAIN messages = 1..n /\ messages \in Seq(Content)
<1>1. messages \in [1..n -> Content]
      BY DEF MessageTypes
<1>2. messages \in Seq(Content) /\ DOMAIN messages = 1..n
      BY <1>1, SeqDef
<1>3. Len(messages) \in Nat /\ DOMAIN messages = 1..Len(messages)
      BY <1>2, LenProperties
<1>4. QED BY <1>2, <1>3

(* A page below a token.                                                   *)
LEMMA PageBelowIsPage ==
    ASSUME NEW n \in Nat, MessageTypes(n), NEW token \in Token(n)
    PROVE  /\ PageBelow(token) \in Page(n) /\ Covers(token, PageBelow(token))
           /\ \A i \in DOMAIN PageBelow(token).items :
                 PageBelow(token).items[i].read <=> PageBelow(token).items[i].id \in read
<1> DEFINE top == IF token = FirstPage THEN n ELSE token - 1
           count == Min({PageSize, top})
           items == [i \in 1..count |->
                       [id |-> top + 1 - i, read |-> top + 1 - i \in read, known |-> TRUE]]
           next == IF count = 0 THEN token ELSE top + 1 - count
           page == [items |-> items, hasNext |-> count < top, token |-> next, last |-> top]
<1>1. Len(messages) = n /\ n <= MaxMessage /\ MaxMessage \in Nat /\ PageSize \in Nat \ {0}
      BY NumberOfMessages, WallCountAssumption DEF MessageTypes
<1>2. PageBelow(token) = page
      BY <1>1 DEF PageBelow
<1>3. token \in 1..n \/ token = FirstPage
      BY DEF Token
<1>4. top \in 0..n
      BY <1>1, <1>3
<1> HIDE DEF top
<1>5. count \in 0..top /\ (top # 0 => count # 0)
      <2>1. {PageSize, top} \in SUBSET Nat
            BY <1>1, <1>4
      <2>2. count \in {PageSize, top} /\ count <= PageSize /\ count <= top
            BY <2>1, MinIsLeast
      <2>3. QED BY <1>1, <1>4, <2>2
<1> HIDE DEF count
<1>6. next \in Token(n)
      BY <1>3, <1>4, <1>5 DEF Token
<1>7. items \in Seq(Noted(n))
      <2>1. \A i \in 1..count : top + 1 - i \in 1..n
            BY <1>4, <1>5
      <2>2. items \in [1..count -> Noted(n)]
            BY <2>1 DEF Noted
      <2>3. count \in Nat
            BY <1>4, <1>5
      <2>4. QED BY <2>2, <2>3, SeqDef
<1>8. page \in Page(n)
      BY <1>4, <1>6, <1>7 DEF Page
<1>9. \A i \in DOMAIN items : items[i].read <=> items[i].id \in read
      OBVIOUS
<1>10. ASSUME NEW e \in 1..top, count < top => e >= next
       PROVE  e \in IdsOf(items)
       <2>1. top \in Nat /\ count \in Nat /\ count <= top /\ count # 0 /\ next = top + 1 - count
             BY <1>4, <1>5
       <2> HIDE DEF next
       <2>2. top + 1 - e \in 1..count
             BY <1>10, <2>1
       <2>3. items[top + 1 - e].id = e
             <3>1. items[top + 1 - e].id = top + 1 - (top + 1 - e)
                   BY <2>2
             <3>2. QED BY <2>1, <3>1
       <2>4. QED BY <2>2, <2>3 DEF IdsOf
<1>11. count < top => next # FirstPage
       BY <1>1, <1>4, <1>5 DEF FirstPage
<1>12. top = IF token = FirstPage THEN page.last ELSE token - 1
       BY DEF top
<1>13. Covers(token, page)
       <2>1. page.hasNext = (count < top) /\ page.token = next /\ page.items = items
             OBVIOUS
       <2> HIDE DEF page, items, next
       <2>2. QED BY <1>10, <1>11, <1>12, <2>1 DEF Covers
<1>14. QED BY <1>2, <1>8, <1>9, <1>13

-----------------------------------------------------------------------------
(* Types.                                                                  *)
LEMMA WallTypeInit == WallInit => Types(Len(Existing))
<1> SUFFICES ASSUME WallInit PROVE Types(Len(Existing))
    OBVIOUS
<1> DEFINE n == Len(Existing)
<1>1. n \in 0..MaxMessage /\ Existing \in [1..n -> Content] /\ messages = Existing
      <2>1. Existing \in Seq(Content) /\ Len(Existing) <= MaxMessage /\ MaxMessage \in Nat
            BY WallCountAssumption
      <2>2. n \in Nat /\ Existing \in [1..n -> Content]
            BY <2>1, LenProperties
      <2>3. messages = Existing
            BY DEF WallInit
      <2>4. n \in 0..MaxMessage
            BY <2>1, <2>2
      <2>5. QED BY <2>2, <2>3, <2>4
<1>0. n \in Nat
      BY WallCountAssumption, LenProperties
<1> HIDE DEF n
<1>2. FirstPage \in Token(n)
      BY DEF Token
<1>3. \A t \in Tab : LoadCall(t, FirstPage, FALSE) \in Call(n)
      BY <1>0, <1>2, LoadCallType
<1>4. MessageTypes(n)
      <2>1. \A S : <<>> \in Seq(S)
            BY EmptySeq
      <2>2. QED BY <1>1, <2>1 DEF WallInit, MessageTypes
<1>5. StoreTypes(n)
      <2>1. <<>> \in Seq(Noted(n))
            BY EmptySeq
      <2>2. QED BY <1>2, <2>1 DEF WallInit, StoreTypes
<1>6. HistoryTypes(n)
      <2>1. 0 \in 0..n /\ {} \in SUBSET (1..n)
            BY <1>0
      <2>2. QED BY <2>1 DEF WallInit, HistoryTypes
<1>7. CallTypes(n)
      <2>1. PICK slot : calls = [s \in Slot |->
                     IF \E t \in Tab : slot[t] = s
                     THEN LoadCall(CHOOSE t \in Tab : slot[t] = s, FirstPage, FALSE)
                     ELSE None]
            BY DEF WallInit
      <2>2. None \in Call(n)
            BY DEF Call
      <2>3. \A s \in Slot : calls[s] \in Call(n)
            BY <1>3, <2>1, <2>2
      <2>4. QED BY <2>1, <2>3 DEF CallTypes
<1>8. QED BY <1>4, <1>5, <1>6, <1>7 DEF Types, n

(* Someone acts: there is one more message, and a TLM of it.               *)
LEMMA SomeoneActsTypes ==
    ASSUME NEW n \in Nat, Types(n), SomeoneActs
    PROVE  /\ n + 1 \in 0..MaxMessage /\ Types(n + 1)'
           /\ \A e \in 1..n : messages'[e] = messages[e]
           /\ tlms' = Append(tlms, [kind |-> "message", event |-> n + 1])
<1>1. /\ Len(messages) = n /\ messages \in Seq(Content) /\ MaxMessage \in Nat
      BY NumberOfMessages, WallCountAssumption DEF Types
<1>2. PICK content \in Content : messages' = Append(messages, content)
      BY DEF SomeoneActs
<1>3. /\ messages' \in [1..(n + 1) -> Content]
      /\ \A e \in 1..n : messages'[e] = messages[e]
      <2>1. messages' \in Seq(Content) /\ Len(messages') = n + 1
            /\ \A e \in 1..n : messages'[e] = messages[e]
            BY <1>1, <1>2, AppendProperties
      <2>2. QED BY <2>1, LenProperties
<1>4. tlms' = Append(tlms, [kind |-> "message", event |-> n + 1])
      BY <1>1 DEF SomeoneActs
<1>5. n + 1 \in 0..MaxMessage
      BY <1>1 DEF SomeoneActs
<1>6. /\ 1..n \subseteq 1..(n + 1) /\ 0..n \subseteq 0..(n + 1)
      /\ Noted(n) \subseteq Noted(n + 1) /\ Tlm(n) \subseteq Tlm(n + 1)
      /\ Token(n) \subseteq Token(n + 1)
      BY DEF Noted, Tlm, Token
<1>7. /\ Seq(Noted(n)) \subseteq Seq(Noted(n + 1)) /\ Seq(Tlm(n)) \subseteq Seq(Tlm(n + 1))
      /\ Seq(Tlm(n) \cup Mark) \subseteq Seq(Tlm(n + 1) \cup Mark)
      <2>1. (Tlm(n) \cup Mark) \subseteq (Tlm(n + 1) \cup Mark)
            BY <1>6
      <2>2. QED BY <1>6, <2>1, SeqMonotonic
<1>8. MessageTypes(n + 1)'
      <2>1. /\ read' = read /\ muted' = muted /\ link' = link
            BY DEF SomeoneActs, channelVars
      <2>2. [kind |-> "message", event |-> n + 1] \in Tlm(n + 1)
            BY DEF Tlm
      <2>3. /\ read \in SUBSET (1..n) /\ muted \in BOOLEAN
            /\ tlms \in Seq(Tlm(n)) /\ link \in [Tab \X Tab -> Seq(Tlm(n) \cup Mark)]
            BY DEF Types, MessageTypes
      <2>4. tlms' \in Seq(Tlm(n + 1))
            BY <1>4, <1>7, <2>2, <2>3, AppendProperties
      <2>5. link \in [Tab \X Tab -> Seq(Tlm(n + 1) \cup Mark)]
            BY <1>7, <2>3
      <2>6. read \in SUBSET (1..(n + 1))
            BY <1>6, <2>3
      <2>7. QED BY <1>3, <1>5, <2>1, <2>3, <2>4, <2>5, <2>6 DEF MessageTypes
<1>9. StoreTypes(n + 1)'
      BY <1>6, <1>7 DEF SomeoneActs, storeVars, Types, StoreTypes
<1>10. HistoryTypes(n + 1)'
      <2>1. UNCHANGED <<firstRead, handled, marked, stale>>
            BY DEF SomeoneActs, historyVars
      <2>2. /\ firstRead \in [Tab -> 0..n] /\ handled \in [Tab -> SUBSET (1..n)]
            /\ marked \in [Tab -> SUBSET (1..n)] /\ stale \in [Tab -> SUBSET (1..n)]
            BY DEF Types, HistoryTypes
      <2>3. SUBSET (1..n) \subseteq SUBSET (1..(n + 1))
            BY <1>6
      <2>4. /\ firstRead \in [Tab -> 0..(n + 1)] /\ handled \in [Tab -> SUBSET (1..(n + 1))]
            /\ marked \in [Tab -> SUBSET (1..(n + 1))] /\ stale \in [Tab -> SUBSET (1..(n + 1))]
            BY <1>6, <2>2, <2>3
      <2>5. QED BY <2>1, <2>4 DEF HistoryTypes
<1>11. CallTypes(n + 1)'
      <2>1. Page(n) \subseteq Page(n + 1)
            BY <1>6, <1>7 DEF Page
      <2>2. LoadCalls(n) \subseteq LoadCalls(n + 1)
            BY <1>6, <2>1 DEF LoadCalls
      <2>3. MarkCalls(n) \subseteq MarkCalls(n + 1)
            BY <1>6 DEF MarkCalls
      <2>8. FetchCalls(n) \subseteq FetchCalls(n + 1)
            BY <1>6 DEF FetchCalls
      <2>4. Call(n) \subseteq Call(n + 1)
            BY <2>2, <2>3, <2>8 DEF Call
      <2>5. calls' = calls /\ calls \in [Slot -> Call(n)]
            BY DEF SomeoneActs, Types, CallTypes
      <2>6. calls' \in [Slot -> Call(n + 1)]
            BY <2>4, <2>5
      <2>7. QED BY <2>6 DEF CallTypes
<1>12. QED BY <1>3, <1>4, <1>5, <1>8, <1>9, <1>10, <1>11 DEF Types

(* A load is answered with the page below its token.                       *)
LEMMA AnswerLoadTypes ==
    ASSUME NEW n \in Nat, Types(n), NEW s \in Slot, AnswerLoad(s)
    PROVE  /\ Types(n)'
           /\ calls[s] # None /\ calls[s] \in LoadCalls(n) /\ calls[s].answer = None
           /\ calls'[s] = [calls[s] EXCEPT !.answer = PageBelow(calls[s].token)]
           /\ \A r \in Slot : r # s => calls'[r] = calls[r]
           /\ UNCHANGED <<messageVars, channelVars, storeVars, isLoading, marks, historyVars, failed>>
<1>1. /\ calls[s] # None /\ calls[s].op = "load" /\ calls[s].answer = None
      /\ calls' = [calls EXCEPT ![s].answer = PageBelow(calls[s].token)]
      /\ UNCHANGED <<messageVars, channelVars, storeVars, isLoading, marks, historyVars, failed>>
      BY DEF AnswerLoad
<1>2. calls \in [Slot -> Call(n)]
      BY DEF Types, CallTypes
<1>3. calls[s] \in LoadCalls(n)
      BY <1>1, <1>2, CallKinds
<1>4. PageBelow(calls[s].token) \in Page(n)
      BY <1>3, PageBelowIsPage DEF Types, LoadCalls
<1>5. [calls[s] EXCEPT !.answer = PageBelow(calls[s].token)] \in LoadCalls(n)
      BY <1>3, <1>4 DEF LoadCalls
<1>6. /\ calls' = [calls EXCEPT ![s] = [calls[s] EXCEPT !.answer = PageBelow(calls[s].token)]]
      BY <1>1, <1>2
<1>7. CallTypes(n)' /\ calls'[s] = [calls[s] EXCEPT !.answer = PageBelow(calls[s].token)]
      /\ \A r \in Slot : r # s => calls'[r] = calls[r]
      BY <1>2, <1>5, <1>6 DEF CallTypes, Call
<1>8. MessageTypes(n)' /\ StoreTypes(n)' /\ HistoryTypes(n)'
      BY <1>1 DEF Types, MessageTypes, StoreTypes, HistoryTypes, messageVars, channelVars,
                  storeVars, historyVars
<1>9. QED BY <1>1, <1>3, <1>7, <1>8 DEF Types

(* What is shown to the other tabs stays.                                  *)
ListsOfOthers(t) ==
    \A u \in Tab : u # t => /\ rawList'[u] = rawList[u] /\ applied'[u] = applied[u]
                            /\ failed'[u] = failed[u]

(* A load of a tab that ends: its page goes behind the list.               *)
EndsLoad(s, t, page, token) ==
    /\ IsLoad(calls[s], t) /\ calls[s].token = token /\ calls[s].answer = page /\ page # None
    /\ UNCHANGED <<messageVars, channelVars, marks, handled, marked, stale>>
    /\ hasNextPage' = [hasNextPage EXCEPT ![t] = page.hasNext]
    /\ nextPageToken' = [nextPageToken EXCEPT ![t] = page.token]
    /\ firstRead' = IF token = FirstPage THEN [firstRead EXCEPT ![t] = page.last] ELSE firstRead
    /\ rawList'[t] = rawList[t] \o page.items
    /\ ListsOfOthers(t)
    /\ CallsFrom(t, [calls EXCEPT ![s] = None], calls', page.hasNext, page.token, muted)
    /\ FilledFor(t, messages, page.hasNext, failed'[t], rawList'[t], applied'[t], calls')

(* The end of a load keeps the types, and is what EndsLoad says.           *)
LEMMA EndLoadTypes ==
    ASSUME NoneIsNoCall, NEW n \in Nat, Types(n), NEW s \in Slot, EndLoad(s)
    PROVE  /\ Types(n)'
           /\ \E t \in Tab, page \in Page(n), token \in Token(n) : EndsLoad(s, t, page, token)
<1>0. PICK t, page, token :
         t = calls[s].tab /\ page = calls[s].answer /\ token = calls[s].token
      OBVIOUS
<1>1. /\ calls[s] # None /\ calls[s].op = "load" /\ page # None
      /\ hasNextPage' = [hasNextPage EXCEPT ![t] = page.hasNext]
      /\ nextPageToken' = [nextPageToken EXCEPT ![t] = page.token]
      /\ SetList(t, rawList[t] \o page.items, calls[s].mutes, [calls EXCEPT ![s] = None], FALSE)
      /\ firstRead' = IF token = FirstPage THEN [firstRead EXCEPT ![t] = page.last] ELSE firstRead
      /\ UNCHANGED <<messageVars, channelVars, marks, handled, marked, stale>>
      BY <1>0 DEF EndLoad, Appended
<1>2. calls \in [Slot -> Call(n)] /\ StoreTypes(n) /\ muted \in BOOLEAN
      BY DEF Types, CallTypes, MessageTypes
<1>3. calls[s] \in LoadCalls(n)
      BY <1>1, <1>2, CallKinds
<1>4. page \in Page(n) /\ t \in Tab /\ calls[s].mutes \in BOOLEAN /\ token \in Token(n)
      BY <1>0, <1>1, <1>3 DEF LoadCalls
<1>5. /\ page.items \in Seq(Noted(n)) /\ page.hasNext \in BOOLEAN /\ page.token \in Token(n)
      /\ page.last \in 0..n
      BY <1>4 DEF Page
<1>6. /\ hasNextPage' \in [Tab -> BOOLEAN] /\ nextPageToken' \in [Tab -> Token(n)]
      /\ hasNextPage'[t] = page.hasNext /\ nextPageToken'[t] = page.token
      /\ rawList[t] \in Seq(Noted(n))
      BY <1>1, <1>2, <1>4, <1>5 DEF StoreTypes
<1> DEFINE raw == rawList[t] \o page.items
           others == [calls EXCEPT ![s] = None]
<1>7. raw \in Seq(Noted(n))
      BY <1>5, <1>6, AppendedList
<1>8. others \in [Slot -> Call(n)]
      <2>1. None \in Call(n)
            BY DEF Call
      <2>2. QED BY <1>2, <2>1
<1>9. /\ StoreTypes(n)' /\ CallTypes(n)'
      /\ rawList'[t] = raw
      /\ \A u \in Tab : u # t => /\ rawList'[u] = rawList[u] /\ applied'[u] = applied[u]
                                 /\ failed'[u] = failed[u]
      /\ CallsFrom(t, others, calls', hasNextPage'[t], nextPageToken'[t], muted)
      /\ FilledFor(t, messages, hasNextPage'[t], failed'[t], raw, applied'[t], calls')
      <2>1. PICK mutes \in BOOLEAN, loading \in BOOLEAN : SetList(t, raw, mutes, others, loading)
            BY <1>1, <1>4
      <2> HIDE DEF raw, others
      <2>2. QED BY <1>2, <1>4, <1>6, <1>7, <1>8, <2>1, SetListStep
<1>10. MessageTypes(n)'
      BY <1>1 DEF Types, MessageTypes, messageVars, channelVars
<1>11. HistoryTypes(n)'
      BY <1>1, <1>4, <1>5 DEF Types, HistoryTypes
<1>12. IsLoad(calls[s], t)
      BY <1>0, <1>1 DEF IsLoad
<1>13. Types(n)'
      BY <1>9, <1>10, <1>11 DEF Types
<1> HIDE DEF raw, others
<1>14. EndsLoad(s, t, page, token)
      BY <1>0, <1>1, <1>6, <1>9, <1>12 DEF raw, others, EndsLoad, ListsOfOthers
<1>15. QED BY <1>4, <1>13, <1>14

-----------------------------------------------------------------------------
(* Steps that set one call and change no list.                             *)
OneCall(s, call) == calls'[s] = call /\ \A r \in Slot : r # s => calls'[r] = calls[r]

(* A load that is refused ends, and marks its tab as failed.               *)
LEMMA LoadRefusedTypes ==
    ASSUME NEW n \in Nat, Types(n), NEW s \in Slot, LoadRefused(s)
    PROVE  /\ Types(n)' /\ OneCall(s, None)
           /\ calls[s] # None /\ calls[s] \in LoadCalls(n) /\ calls[s].answer = None
           /\ failed'[calls[s].tab] = TRUE
           /\ \A u \in Tab : u # calls[s].tab => failed'[u] = failed[u]
           /\ UNCHANGED <<messageVars, channelVars, storeVars, marks, historyVars>>
<1>1. /\ calls[s] # None /\ calls[s].op = "load" /\ calls[s].answer = None
      /\ calls' = [calls EXCEPT ![s] = None]
      /\ isLoading' = [isLoading EXCEPT ![calls[s].tab] = FALSE]
      /\ failed' = [failed EXCEPT ![calls[s].tab] = TRUE]
      /\ UNCHANGED <<messageVars, channelVars, storeVars, marks, historyVars>>
      BY DEF LoadRefused
<1>2. calls \in [Slot -> Call(n)] /\ StoreTypes(n)
      BY DEF Types, CallTypes
<1>3. calls[s] \in LoadCalls(n)
      BY <1>1, <1>2, CallKinds
<1>4. calls[s].tab \in Tab
      BY <1>3 DEF LoadCalls
<1>5. /\ failed'[calls[s].tab] = TRUE
      /\ \A u \in Tab : u # calls[s].tab => failed'[u] = failed[u]
      /\ failed' \in [Tab -> BOOLEAN] /\ isLoading' \in [Tab -> BOOLEAN]
      BY <1>1, <1>2, <1>4 DEF StoreTypes
<1>6. None \in Call(n)
      BY DEF Call
<1>7. CallTypes(n)' /\ OneCall(s, None)
      BY <1>1, <1>2, <1>6 DEF CallTypes, OneCall
<1>8. MessageTypes(n)' /\ StoreTypes(n)' /\ HistoryTypes(n)'
      BY <1>1, <1>5 DEF Types, MessageTypes, StoreTypes, HistoryTypes, messageVars, channelVars,
                  storeVars, historyVars
<1>9. QED BY <1>1, <1>3, <1>5, <1>7, <1>8 DEF Types

(* Scrolling adds one load of the page that comes next.                    *)
LEMMA HandleScrollTypes ==
    ASSUME NEW n \in Nat, Types(n), NEW t \in Tab, HandleScroll(t)
    PROVE  /\ Types(n)' /\ hasNextPage[t]
           /\ \E s \in Slot : calls[s] = None /\ OneCall(s, LoadCall(t, nextPageToken[t], muted))
           /\ UNCHANGED <<messageVars, channelVars, storeVars, marks, historyVars, failed>>
<1> DEFINE s == Min(FreeIn(calls))
           load == LoadCall(t, nextPageToken[t], muted)
<1>1. /\ hasNextPage[t] /\ FreeIn(calls) # {}
      /\ isLoading' = [isLoading EXCEPT ![t] = TRUE]
      /\ calls' = [calls EXCEPT ![s] = load]
      /\ UNCHANGED <<messageVars, channelVars, storeVars, marks, historyVars, failed>>
      BY DEF HandleScroll
<1>2. s \in Slot /\ calls[s] = None
      BY <1>1, FreeSlot
<1>3. /\ calls \in [Slot -> Call(n)] /\ StoreTypes(n) /\ muted \in BOOLEAN
      /\ nextPageToken[t] \in Token(n)
      BY DEF Types, CallTypes, MessageTypes, StoreTypes
<1>4. load \in Call(n)
      BY <1>3, LoadCallType
<1> HIDE DEF s, load
<1>5. CallTypes(n)' /\ OneCall(s, load)
      BY <1>1, <1>2, <1>3, <1>4 DEF CallTypes, OneCall
<1>6. MessageTypes(n)' /\ StoreTypes(n)' /\ HistoryTypes(n)'
      BY <1>1 DEF Types, MessageTypes, StoreTypes, HistoryTypes, messageVars, channelVars,
                  storeVars, historyVars
<1>7. QED BY <1>1, <1>2, <1>5, <1>6 DEF Types, load

(* The user marks something.                                               *)
LEMMA ClickMarkTypes ==
    ASSUME NEW n \in Nat, Types(n), NEW t \in Tab, NEW kind \in {"all", "list", "content"},
           NEW ids \in SUBSET Message, NEW content \in Content \cup {None}, NEW here \in BOOLEAN,
           ClickMark(t, kind, ids, content, here)
    PROVE  /\ Types(n)'
           /\ \E s \in Slot, call \in MarkCalls(n) :
                 calls[s] = None /\ OneCall(s, call) /\ call.phase = "asked"
           /\ UNCHANGED <<messageVars, channelVars, storeVars, historyVars, failed>>
<1> DEFINE s == Min(FreeIn(calls))
           call == [op |-> "mark", tab |-> t, here |-> here, phase |-> "asked", covered |-> {},
                    mark |-> [kind |-> kind, ids |-> ids, content |-> content]]
<1>1. /\ FreeIn(calls) # {}
      /\ calls' = [calls EXCEPT ![s] = call]
      /\ UNCHANGED <<messageVars, channelVars, storeVars, isLoading, historyVars, failed>>
      BY DEF ClickMark
<1>2. s \in Slot /\ calls[s] = None
      BY <1>1, FreeSlot
<1>3. [kind |-> kind, ids |-> ids, content |-> content] \in Mark
      BY DEF Mark
<1>4. call \in MarkCalls(n) /\ call.phase = "asked"
      BY <1>3 DEF MarkCalls
<1> HIDE DEF s, call
<1>5. CallTypes(n)' /\ OneCall(s, call)
      BY <1>1, <1>2, <1>4 DEF Types, CallTypes, Call, OneCall
<1>6. MessageTypes(n)' /\ StoreTypes(n)' /\ HistoryTypes(n)'
      BY <1>1 DEF Types, MessageTypes, StoreTypes, HistoryTypes, messageVars, channelVars,
                  storeVars, historyVars
<1>7. QED BY <1>1, <1>2, <1>4, <1>5, <1>6 DEF Types

(* What is rendered are messages.                                          *)
LEMMA ListedAreMessages ==
    ASSUME NEW n \in Nat, Types(n), NEW t \in Tab
    PROVE  LET list == ListOf(rawList[t], applied[t])
           IN \A i \in DOMAIN list : list[i].id \in Message
<1>1. rawList[t] \in Seq(Noted(n)) /\ n \in 0..MaxMessage
      BY DEF Types, StoreTypes, MessageTypes
<1> DEFINE places == {i \in DOMAIN rawList[t] : Kept(rawList[t][i].id, applied[t])}
           list == ListOf(rawList[t], applied[t])
<1>2. places \in SUBSET (DOMAIN rawList[t])
      OBVIOUS
<1>3. list = PickedFrom(rawList[t], places)
      BY DEF ListOf
<1> HIDE DEF places
<1>4. list \in Seq(Noted(n))
      BY <1>1, <1>2, <1>3, PickedAreListed
<1> HIDE DEF list
<1>5. \A i \in DOMAIN list : list[i] \in Noted(n)
      BY <1>4, ListOfSeq
<1>6. 1..n \subseteq Message
      BY <1>1, WallCountAssumption DEF Message
<1>7. QED BY <1>5, <1>6 DEF Noted, list

(* Each way to mark something as read adds one call that asks for it.      *)
LEMMA MarkingTypes ==
    ASSUME NEW n \in Nat, Types(n), NEW t \in Tab,
           \/ HandleClickMarkAllAsRead(t) \/ HandleClickMarkNotificationListAsRead(t)
           \/ ReadContentNotifications(t) \/ HandleReadSpaceNotifications(t)
    PROVE  /\ Types(n)'
           /\ \E s \in Slot, call \in MarkCalls(n) :
                 calls[s] = None /\ OneCall(s, call) /\ call.phase = "asked"
           /\ UNCHANGED <<messageVars, channelVars, storeVars, historyVars, failed>>
<1> DEFINE list == ListOf(rawList[t], applied[t])
<1>1. \A i \in DOMAIN list : list[i].id \in Message
      BY ListedAreMessages
<1> HIDE DEF list
<1>2. SUFFICES \E kind \in {"all", "list", "content"}, ids \in SUBSET Message,
                  content \in Content \cup {None}, here \in BOOLEAN :
                  ClickMark(t, kind, ids, content, here)
      BY ClickMarkTypes
<1>3. CASE HandleClickMarkAllAsRead(t)
      BY <1>3 DEF HandleClickMarkAllAsRead
<1>4. CASE HandleClickMarkNotificationListAsRead(t)
      <2>1. PICK e \in IdsOf(list) : ClickMark(t, "list", {e}, None, FALSE)
            BY <1>4 DEF HandleClickMarkNotificationListAsRead, list
      <2>2. {e} \in SUBSET Message
            BY <1>1 DEF IdsOf
      <2>3. QED BY <2>1, <2>2
<1>5. CASE ReadContentNotifications(t)
      BY <1>5 DEF ReadContentNotifications
<1>6. CASE HandleReadSpaceNotifications(t)
      <2>1. PICK space \in {OtherSpace, Content \ OtherSpace} :
               ClickMark(t, "list", {list[i].id : i \in {j \in DOMAIN list :
                          ~list[j].read /\ messages[list[j].id] \in space}}, None, TRUE)
            BY <1>6 DEF HandleReadSpaceNotifications, list
      <2> DEFINE ids == {list[i].id : i \in {j \in DOMAIN list :
                          ~list[j].read /\ messages[list[j].id] \in space}}
      <2>2. ids \in SUBSET Message
            BY <1>1
      <2> HIDE DEF ids
      <2>3. ClickMark(t, "list", ids, None, TRUE)
            BY <2>1 DEF ids
      <2>4. QED BY <2>2, <2>3
<1>7. QED BY <1>3, <1>4, <1>5, <1>6

(* The server marks what the call selects, and the call remembers it.      *)
LEMMA PutReadTypes ==
    ASSUME NEW n \in Nat, Types(n), NEW s \in Slot, PutRead(s)
    PROVE  LET covered == {e \in 1..n : Selected(calls[s].mark, e)}
           IN /\ Types(n)'
              /\ calls[s] # None /\ calls[s] \in MarkCalls(n) /\ calls[s].phase = "asked"
              /\ read' = read \cup covered
              /\ OneCall(s, [calls[s] EXCEPT !.phase = "answered", !.covered = covered])
              /\ stale' = [t \in Tab |-> stale[t] \cup (covered \cap OnTheWay(t))]
              /\ UNCHANGED <<messages, muted, channelVars, storeVars, isLoading, marks,
                             firstRead, handled, marked, failed>>
<1> DEFINE covered == {e \in 1..n : Selected(calls[s].mark, e)}
           call == [calls[s] EXCEPT !.phase = "answered", !.covered = covered]
<1>1. DOMAIN messages = 1..n
      BY NumberOfMessages DEF Types
<1>2. /\ calls[s] # None /\ calls[s].op = "mark" /\ calls[s].phase = "asked"
      /\ read' = read \cup covered
      /\ calls' = [calls EXCEPT ![s].phase = "answered", ![s].covered = covered]
      /\ stale' = [t \in Tab |-> stale[t] \cup (covered \cap OnTheWay(t))]
      /\ UNCHANGED <<messages, muted, channelVars, storeVars, isLoading, marks,
                     firstRead, handled, marked, failed>>
      BY <1>1 DEF PutRead
<1>3. calls \in [Slot -> Call(n)]
      BY DEF Types, CallTypes
<1>4. calls[s] \in MarkCalls(n)
      BY <1>2, <1>3, CallKinds
<1>5. covered \in SUBSET (1..n)
      OBVIOUS
<1> HIDE DEF covered
<1>6. call \in MarkCalls(n)
      BY <1>4, <1>5 DEF MarkCalls
<1>7. calls' = [calls EXCEPT ![s] = call]
      BY <1>2, <1>3
<1> HIDE DEF call
<1>8. CallTypes(n)' /\ OneCall(s, call)
      BY <1>3, <1>6, <1>7 DEF CallTypes, Call, OneCall
<1>9. MessageTypes(n)'
      BY <1>2, <1>5 DEF Types, MessageTypes, channelVars
<1>10. StoreTypes(n)'
      BY <1>2 DEF Types, StoreTypes, storeVars
<1>11. HistoryTypes(n)'
      <2>1. stale \in [Tab -> SUBSET (1..n)]
            BY DEF Types, HistoryTypes
      <2>2. stale' \in [Tab -> SUBSET (1..n)]
            BY <1>2, <1>5, <2>1
      <2>3. QED BY <1>2, <2>2 DEF Types, HistoryTypes
<1>12. QED BY <1>2, <1>4, <1>8, <1>9, <1>10, <1>11 DEF Types, covered, call

(* A mark that is lost ends, and a content that does not come.             *)
LEMMA MarkRefusedTypes ==
    ASSUME NEW n \in Nat, Types(n), NEW s \in Slot, MarkRefused(s) \/ FetchRefused(s)
    PROVE  /\ Types(n)' /\ OneCall(s, None)
           /\ calls[s] # None /\ calls[s].op # "load"
           /\ UNCHANGED <<messageVars, channelVars, storeVars, isLoading, marks, historyVars, failed>>
<1>1. /\ calls[s] # None /\ calls[s].op # "load"
      /\ calls' = [calls EXCEPT ![s] = None]
      /\ UNCHANGED <<messageVars, channelVars, storeVars, isLoading, marks, historyVars, failed>>
      BY DEF MarkRefused, FetchRefused
<1>2. None \in Call(n)
      BY DEF Call
<1>3. CallTypes(n)' /\ OneCall(s, None)
      BY <1>1, <1>2 DEF Types, CallTypes, OneCall
<1>4. MessageTypes(n)' /\ StoreTypes(n)' /\ HistoryTypes(n)'
      BY <1>1 DEF Types, MessageTypes, StoreTypes, HistoryTypes, messageVars, channelVars,
                  storeVars, historyVars
<1>5. QED BY <1>1, <1>3, <1>4 DEF Types

-----------------------------------------------------------------------------
(* Steps that change what is said over the channels.                       *)
(* A mark that comes to a tab: its list is marked and rendered, or is as   *)
(* it was.                                                                 *)
MarkIsSeen(t, mark, others) ==
    /\ UNCHANGED <<hasNextPage, nextPageToken>>
    /\ MarksList(rawList[t], mark, rawList'[t])
    /\ ListsOfOthers(t)
    /\ CallsFrom(t, others, calls', hasNextPage[t], nextPageToken[t], muted)
    /\ \/ FilledFor(t, messages, hasNextPage[t], failed'[t], rawList'[t], applied'[t], calls')
       \/ calls' = others /\ UNCHANGED <<rawList, applied, failed>>

(* A mark that is answered is seen in its tab and told the others.         *)
LEMMA MarkAnsweredTypes ==
    ASSUME NoneIsNoCall, NEW n \in Nat, Types(n), NEW s \in Slot, MarkAnswered(s)
    PROVE  LET call == calls[s] IN
           /\ Types(n)'
           /\ call # None /\ call \in MarkCalls(n) /\ call.phase = "answered"
           /\ MarkIsSeen(call.tab, call.mark, [calls EXCEPT ![s] = None])
           /\ Told(call.tab, call.mark, call.here)
           /\ marked' = [t \in Tab |->
                           IF call.here /\ t # call.tab THEN marked[t]
                           ELSE marked[t] \cup call.covered]
           /\ UNCHANGED <<messageVars, tlms, marks, firstRead, handled, stale>>
<1>1. PICK call, others : call = calls[s] /\ others = [calls EXCEPT ![s] = None]
      OBVIOUS
<1>2. /\ call # None /\ call.op = "mark" /\ call.phase = "answered"
      /\ Read(call.tab, call.mark, others)
      /\ Told(call.tab, call.mark, call.here)
      /\ marked' = [t \in Tab |->
                       IF call.here /\ t # call.tab THEN marked[t]
                       ELSE marked[t] \cup call.covered]
      /\ UNCHANGED <<messageVars, tlms, marks, firstRead, handled, stale>>
      BY <1>1 DEF MarkAnswered
<1>3. calls \in [Slot -> Call(n)] /\ None \in Call(n)
      BY DEF Types, CallTypes, Call
<1>4. call \in MarkCalls(n) /\ others \in [Slot -> Call(n)]
      BY <1>1, <1>2, <1>3, CallKinds
<1>5. /\ call.tab \in Tab /\ call.mark \in Mark /\ call.covered \in SUBSET (1..n)
      /\ call.here \in BOOLEAN
      BY <1>4 DEF MarkCalls
<1>6. StoreTypes(n) /\ muted \in BOOLEAN
      BY DEF Types, MessageTypes
<1>7. StoreTypes(n)' /\ CallTypes(n)' /\ MarkIsSeen(call.tab, call.mark, others)
      BY <1>2, <1>4, <1>5, <1>6, ReadStep DEF MarkIsSeen, ListsOfOthers
<1>8. MessageTypes(n)'
      <2>1. /\ link \in [Tab \X Tab -> Seq(Tlm(n) \cup Mark)]
            BY DEF Types, MessageTypes
      <2>2. \A q \in Seq(Tlm(n) \cup Mark) : Append(q, call.mark) \in Seq(Tlm(n) \cup Mark)
            BY <1>5, AppendProperties
      <2>3. link' \in [Tab \X Tab -> Seq(Tlm(n) \cup Mark)]
            <3>1. CASE call.here
                  BY <1>2, <2>1, <3>1 DEF Told
            <3>2. CASE ~call.here
                  <4>1. link' = [p \in Tab \X Tab |->
                                  IF p[1] = call.tab /\ p[2] # call.tab THEN Append(link[p], call.mark)
                                  ELSE link[p]]
                        BY <1>2, <3>2 DEF Told
                  <4>2. QED BY <2>1, <2>2, <4>1
            <3>3. QED BY <3>1, <3>2
      <2>4. QED BY <1>2, <2>3 DEF Types, MessageTypes, messageVars
<1>9. HistoryTypes(n)'
      <2>1. marked \in [Tab -> SUBSET (1..n)]
            BY DEF Types, HistoryTypes
      <2>2. marked' \in [Tab -> SUBSET (1..n)]
            BY <1>2, <1>5, <2>1
      <2>3. QED BY <1>2, <2>2 DEF Types, HistoryTypes
<1>10. Types(n)'
       BY <1>7, <1>8, <1>9 DEF Types
<1>11. QED BY <1>1, <1>2, <1>4, <1>7, <1>10

(* A live message that is added to the list of a tab as unread, or is not  *)
(* kept.                                                                   *)
TlmIsSeen(t, e, others) ==
    /\ UNCHANGED <<hasNextPage, nextPageToken>>
    /\ \A d : d \in IdsOf(rawList[t]) => d \in IdsOf(rawList'[t])
    /\ \A k \in DOMAIN rawList'[t] :
          \/ rawList'[t][k].id = e
          \/ \E i \in DOMAIN rawList[t] : rawList'[t][k] = rawList[t][i]
    /\ \/ handled' = [handled EXCEPT ![t] = @ \cup {e}] /\ e \in IdsOf(rawList'[t])
       \/ handled' = handled
    /\ ListsOfOthers(t)
    /\ CallsFrom(t, others, calls', hasNextPage[t], nextPageToken[t], muted)
    /\ \/ FilledFor(t, messages, hasNextPage[t], failed'[t], rawList'[t], applied'[t], calls')
       \/ calls' = others /\ UNCHANGED <<rawList, applied, failed>>

(* One whose content the tab asks for.                                     *)
TlmWaits(t, e) ==
    /\ \E s \in Slot : calls[s] = None /\ OneCall(s, [op |-> "fetch", tab |-> t, event |-> e])
    /\ UNCHANGED <<storeVars, failed, handled>>

TlmIsHandled(t, e) == TlmIsSeen(t, e, calls) \/ TlmWaits(t, e)

(* A live message is added, or waits.                                      *)
LEMMA AddedTypes ==
    ASSUME NoneIsNoCall, NEW n \in Nat, Types(n), NEW t \in Tab, NEW e \in 1..n,
           NEW known \in BOOLEAN, NEW others \in [Slot -> Call(n)],
           HandleNotification(t, e, known, others)
    PROVE  /\ StoreTypes(n)' /\ CallTypes(n)' /\ handled' \in [Tab -> SUBSET (1..n)]
           /\ TlmIsSeen(t, e, others)
<1>1. StoreTypes(n)' /\ CallTypes(n)' /\ TlmIsSeen(t, e, others)
      BY HandleNotificationStep DEF TlmIsSeen, ListsOfOthers
<1>2. handled \in [Tab -> SUBSET (1..n)]
      BY DEF Types, HistoryTypes
<1>3. CASE handled' = handled
      BY <1>1, <1>2, <1>3
<1>4. CASE handled' = [handled EXCEPT ![t] = @ \cup {e}]
      BY <1>1, <1>2, <1>4
<1>5. QED BY <1>1, <1>3, <1>4 DEF TlmIsSeen

LEMMA WaitingTypes ==
    ASSUME NEW n \in Nat, Types(n), NEW t \in Tab, NEW e \in 1..n, FetchContent(t, e)
    PROVE  /\ StoreTypes(n)' /\ CallTypes(n)' /\ handled' \in [Tab -> SUBSET (1..n)]
           /\ TlmWaits(t, e)
<1> DEFINE s == Min(FreeIn(calls))
           call == [op |-> "fetch", tab |-> t, event |-> e]
<1>1. /\ FreeIn(calls) # {}
      /\ calls' = [calls EXCEPT ![s] = call]
      /\ UNCHANGED <<storeVars, isLoading, failed, handled>>
      BY DEF FetchContent
<1>2. s \in Slot /\ calls[s] = None
      BY <1>1, FreeSlot
<1>3. call \in Call(n)
      BY DEF Call, FetchCalls
<1> HIDE DEF s, call
<1>4. CallTypes(n)' /\ OneCall(s, call)
      BY <1>1, <1>2, <1>3 DEF Types, CallTypes, OneCall
<1>5. StoreTypes(n)' /\ handled' \in [Tab -> SUBSET (1..n)]
      BY <1>1 DEF Types, StoreTypes, HistoryTypes, storeVars
<1>6. TlmWaits(t, e)
      BY <1>1, <1>2, <1>4 DEF TlmWaits, call
<1>7. QED BY <1>4, <1>5, <1>6

(* What a tab hears is a live message, or a mark it shows.                 *)
LEMMA HandleTypes ==
    ASSUME NoneIsNoCall, NEW n \in Nat, Types(n), NEW t \in Tab, NEW item \in Tlm(n) \cup Mark,
           Handle(t, item)
    PROVE  /\ StoreTypes(n)' /\ CallTypes(n)'
           /\ handled' \in [Tab -> SUBSET (1..n)]
           /\ \/ item \in Tlm(n) /\ TlmIsHandled(t, item.event)
              \/ item \in Mark /\ MarkIsSeen(t, item, calls) /\ handled' = handled
<1>1. /\ StoreTypes(n) /\ muted \in BOOLEAN /\ calls \in [Slot -> Call(n)]
      /\ handled \in [Tab -> SUBSET (1..n)]
      BY DEF Types, MessageTypes, CallTypes, HistoryTypes
<1>2. CASE item \in Tlm(n)
      <2>1. item.kind = "message" /\ item.event \in 1..n
            BY <1>2 DEF Tlm
      <2>2. CASE HandleNotification(t, item.event, TRUE, calls)
            BY <1>1, <1>2, <2>1, <2>2, AddedTypes DEF TlmIsHandled
      <2>3. CASE FetchContent(t, item.event)
            BY <1>2, <2>1, <2>3, WaitingTypes DEF TlmIsHandled
      <2>4. QED BY <2>1, <2>2, <2>3 DEF Handle
<1>3. CASE item \in Mark
      <2>1. item.kind \in {"all", "list", "content"}
            BY <1>3 DEF Mark
      <2>2. Read(t, item, calls) /\ handled' = handled
            BY <2>1 DEF Handle
      <2>3. StoreTypes(n)' /\ CallTypes(n)' /\ MarkIsSeen(t, item, calls)
            BY <1>1, <2>2, ReadStep DEF MarkIsSeen, ListsOfOthers
      <2>4. QED BY <1>1, <1>3, <2>2, <2>3
<1>4. QED BY <1>2, <1>3

(* The content comes: the notification is added, or is not kept.           *)
LEMMA EndFetchTypes ==
    ASSUME NoneIsNoCall, NEW n \in Nat, Types(n), NEW s \in Slot, EndFetch(s)
    PROVE  /\ Types(n)'
           /\ calls[s] # None /\ calls[s] \in FetchCalls(n)
           /\ TlmIsSeen(calls[s].tab, calls[s].event, [calls EXCEPT ![s] = None])
           /\ UNCHANGED <<messageVars, channelVars, marks, firstRead, marked, stale>>
<1>1. PICK t, e, others :
         t = calls[s].tab /\ e = calls[s].event /\ others = [calls EXCEPT ![s] = None]
      OBVIOUS
<1>2. /\ calls[s] # None /\ calls[s].op = "fetch"
      /\ \E known \in BOOLEAN : HandleNotification(t, e, known, others)
      /\ UNCHANGED <<messageVars, channelVars, marks, firstRead, marked, stale>>
      BY <1>1 DEF EndFetch
<1>3. calls \in [Slot -> Call(n)] /\ None \in Call(n)
      BY DEF Types, CallTypes, Call
<1>4. calls[s] \in FetchCalls(n) /\ others \in [Slot -> Call(n)]
      BY <1>1, <1>2, <1>3, CallKinds
<1>5. t \in Tab /\ e \in 1..n
      BY <1>1, <1>4 DEF FetchCalls
<1>6. /\ StoreTypes(n)' /\ CallTypes(n)' /\ handled' \in [Tab -> SUBSET (1..n)]
      /\ TlmIsSeen(t, e, others)
      BY <1>2, <1>4, <1>5, AddedTypes
<1>7. MessageTypes(n)'
      BY <1>2 DEF Types, MessageTypes, messageVars, channelVars
<1>8. HistoryTypes(n)'
      BY <1>2, <1>6 DEF Types, HistoryTypes
<1>9. Types(n)'
      BY <1>6, <1>7, <1>8 DEF Types
<1>10. QED BY <1>1, <1>2, <1>4, <1>6, <1>9

(* The head of a channel.                                                  *)
LEMMA HeadOfChannel ==
    ASSUME NEW S, NEW q \in Seq(S), q # <<>>
    PROVE  /\ Head(q) \in S /\ Tail(q) \in Seq(S) /\ Head(q) = q[1]
           /\ Len(q) \in Nat \ {0} /\ DOMAIN q = 1..Len(q)
           /\ DOMAIN Tail(q) = 1..(Len(q) - 1)
           /\ \A i \in 1..(Len(q) - 1) : Tail(q)[i] = q[i + 1]
BY HeadTailProperties, LenProperties, EmptySeq

(* The tab that leads takes a live message and passes it on.               *)
LEMMA ReceiveTlmTypes ==
    ASSUME NoneIsNoCall, NEW n \in Nat, Types(n), ReceiveTlm
    PROVE  /\ Types(n)' /\ Leader \in Tab /\ tlms # <<>> /\ Head(tlms) \in Tlm(n)
           /\ TlmIsHandled(Leader, Head(tlms).event) /\ tlms' = Tail(tlms)
           /\ link' = [p \in Tab \X Tab |->
                         IF p[1] = Leader /\ p[2] # Leader THEN Append(link[p], Head(tlms))
                         ELSE link[p]]
           /\ UNCHANGED <<messageVars, marks, firstRead, marked, stale>>
<1>1. PICK item : item = Head(tlms)
      OBVIOUS
<1>2. /\ tlms # <<>> /\ tlms' = Tail(tlms) /\ Handle(Leader, item)
      /\ link' = [p \in Tab \X Tab |->
                    IF p[1] = Leader /\ p[2] # Leader THEN Append(link[p], item) ELSE link[p]]
      /\ UNCHANGED <<messageVars, marks, firstRead, marked, stale>>
      BY <1>1 DEF ReceiveTlm
<1>3. /\ tlms \in Seq(Tlm(n)) /\ link \in [Tab \X Tab -> Seq(Tlm(n) \cup Mark)]
      BY DEF Types, MessageTypes
<1>4. item \in Tlm(n) /\ tlms' \in Seq(Tlm(n))
      BY <1>1, <1>2, <1>3, HeadOfChannel
<1>5. item \notin Mark
      BY <1>4 DEF Tlm, Mark
<1>6. Leader \in Tab
      BY WallAssumption
<1>7. /\ StoreTypes(n)' /\ CallTypes(n)' /\ handled' \in [Tab -> SUBSET (1..n)]
      /\ TlmIsHandled(Leader, item.event)
      BY <1>2, <1>4, <1>5, <1>6, HandleTypes
<1>8. \A q \in Seq(Tlm(n) \cup Mark) : Append(q, item) \in Seq(Tlm(n) \cup Mark)
      BY <1>4, AppendProperties
<1>9. link' \in [Tab \X Tab -> Seq(Tlm(n) \cup Mark)]
      BY <1>2, <1>3, <1>8
<1>10. MessageTypes(n)'
       BY <1>2, <1>4, <1>9 DEF Types, MessageTypes, messageVars
<1>11. HistoryTypes(n)'
       BY <1>2, <1>7 DEF Types, HistoryTypes
<1>12. Types(n)'
       BY <1>7, <1>10, <1>11 DEF Types
<1>13. QED BY <1>1, <1>2, <1>4, <1>6, <1>7, <1>12

(* Another tab hears what it was told.                                     *)
LEMMA BroadcastTypes ==
    ASSUME NoneIsNoCall, NEW n \in Nat, Types(n), NEW u \in Tab, NEW t \in Tab,
           BroadcastChannelMessageReceived(u, t)
    PROVE  LET item == Head(link[<<u, t>>]) IN
           /\ Types(n)' /\ link[<<u, t>>] # <<>>
           /\ \/ item \in Tlm(n) /\ TlmIsHandled(t, item.event)
              \/ item \in Mark /\ MarkIsSeen(t, item, calls) /\ handled' = handled
           /\ link' = [link EXCEPT ![<<u, t>>] = Tail(link[<<u, t>>])]
           /\ UNCHANGED <<messageVars, tlms, marks, firstRead, marked, stale>>
<1>1. PICK item, q : q = link[<<u, t>>] /\ item = Head(q)
      OBVIOUS
<1>2. /\ q # <<>> /\ link' = [link EXCEPT ![<<u, t>>] = Tail(q)]
      /\ Handle(t, item)
      /\ UNCHANGED <<messageVars, tlms, marks, firstRead, marked, stale>>
      BY <1>1 DEF BroadcastChannelMessageReceived
<1>3. link \in [Tab \X Tab -> Seq(Tlm(n) \cup Mark)]
      BY DEF Types, MessageTypes
<1>4. q \in Seq(Tlm(n) \cup Mark)
      BY <1>1, <1>3
<1>5. item \in Tlm(n) \cup Mark /\ Tail(q) \in Seq(Tlm(n) \cup Mark)
      BY <1>1, <1>2, <1>4, HeadOfChannel
<1>6. /\ StoreTypes(n)' /\ CallTypes(n)' /\ handled' \in [Tab -> SUBSET (1..n)]
      /\ \/ item \in Tlm(n) /\ TlmIsHandled(t, item.event)
         \/ item \in Mark /\ MarkIsSeen(t, item, calls) /\ handled' = handled
      BY <1>2, <1>5, HandleTypes
<1>7. link' \in [Tab \X Tab -> Seq(Tlm(n) \cup Mark)]
      BY <1>2, <1>3, <1>5
<1>8. MessageTypes(n)'
      BY <1>2, <1>7 DEF Types, MessageTypes, messageVars
<1>9. HistoryTypes(n)'
      BY <1>2, <1>6 DEF Types, HistoryTypes
<1>10. Types(n)'
       BY <1>6, <1>8, <1>9 DEF Types
<1>11. QED BY <1>1, <1>2, <1>6, <1>10

-----------------------------------------------------------------------------
(* A list with the places 1 to m has the length m.                         *)
LEMMA LenOfFunction ==
    ASSUME NEW m \in Nat, NEW S, NEW f \in [1..m -> S]
    PROVE  Len(f) = m
<1>1. f \in Seq(S) /\ DOMAIN f = 1..m
      BY SeqDef
<1>2. Len(f) \in Nat /\ DOMAIN f = 1..Len(f)
      BY <1>1, LenProperties
<1>3. QED BY <1>1, <1>2

(* The steps, but for a message that is made, keep their number.           *)
LEMMA TypesOfSteps ==
    ASSUME NoneIsNoCall, NEW n \in Nat, Types(n), [WallNext]_wallVars, ~SomeoneActs
    PROVE  Types(n)' /\ messages' = messages
<1>1. ASSUME NEW s \in Slot,
             \/ AnswerLoad(s) \/ EndLoad(s) \/ LoadRefused(s) \/ PutRead(s) \/ MarkAnswered(s)
             \/ MarkRefused(s) \/ EndFetch(s) \/ FetchRefused(s)
      PROVE  Types(n)' /\ messages' = messages
      <2>1. CASE AnswerLoad(s)
            BY <2>1, AnswerLoadTypes DEF messageVars
      <2>2. CASE EndLoad(s)
            BY <2>2, EndLoadTypes DEF EndsLoad, messageVars
      <2>3. CASE LoadRefused(s)
            BY <2>3, LoadRefusedTypes DEF messageVars
      <2>4. CASE PutRead(s)
            BY <2>4, PutReadTypes
      <2>5. CASE MarkAnswered(s)
            BY <2>5, MarkAnsweredTypes DEF messageVars
      <2>6. CASE MarkRefused(s) \/ FetchRefused(s)
            BY <2>6, MarkRefusedTypes DEF messageVars
      <2>7. CASE EndFetch(s)
            BY <2>7, EndFetchTypes DEF messageVars
      <2>8. QED BY <1>1, <2>1, <2>2, <2>3, <2>4, <2>5, <2>6, <2>7
<1>2. ASSUME NEW t \in Tab, HandleScroll(t)
      PROVE  Types(n)' /\ messages' = messages
      BY <1>2, HandleScrollTypes DEF messageVars
<1>3. ASSUME NEW t \in Tab,
             \/ HandleClickMarkAllAsRead(t) \/ HandleClickMarkNotificationListAsRead(t)
             \/ ReadContentNotifications(t) \/ HandleReadSpaceNotifications(t)
      PROVE  Types(n)' /\ messages' = messages
      BY <1>3, MarkingTypes DEF messageVars
<1>4. CASE ReceiveTlm
      BY <1>4, ReceiveTlmTypes DEF messageVars
<1>5. ASSUME NEW u \in Tab, NEW t \in Tab, BroadcastChannelMessageReceived(u, t)
      PROVE  Types(n)' /\ messages' = messages
      BY <1>5, BroadcastTypes DEF messageVars
<1>6. CASE UNCHANGED wallVars
      BY <1>6 DEF wallVars, messageVars, channelVars, storeVars, historyVars, Types, MessageTypes,
                  StoreTypes, HistoryTypes, CallTypes
<1>7. QED BY <1>1, <1>2, <1>3, <1>4, <1>5, <1>6 DEF WallNext

(* The number of messages is the length of their list.                     *)
LEMMA TypesOfWall ==
    /\ WallTypes => Len(messages) \in Nat /\ Types(Len(messages))
    /\ \A n \in Nat : Types(n) => n = Len(messages)
<1>1. WallTypes => Len(messages) \in Nat
      BY DEF WallTypes, Types, MessageTypes
<1>2. ASSUME NEW n \in Nat, Types(n) PROVE n = Len(messages)
      BY <1>2, LenOfFunction DEF Types, MessageTypes
<1>3. QED BY <1>1, <1>2 DEF WallTypes

(* A step leaves everything of its type.                                   *)
LEMMA WallTypeStep ==
    ASSUME NoneIsNoCall
    PROVE  WallTypes /\ [WallNext]_wallVars => WallTypes'
<1> SUFFICES ASSUME WallTypes, [WallNext]_wallVars PROVE WallTypes'
    OBVIOUS
<1>1. PICK n \in Nat : Types(n)
      BY TypesOfWall
<1>2. PICK m \in Nat : Types(m)'
      <2>1. CASE SomeoneActs
            <3>1. PICK k \in Nat : k = n + 1
                  OBVIOUS
            <3>2. Types(n + 1)'
                  BY <1>1, <2>1, SomeoneActsTypes
            <3>3. QED BY <3>1, <3>2
      <2>2. CASE ~SomeoneActs
            BY <1>1, <2>2, TypesOfSteps
      <2>3. QED BY <2>1, <2>2
<1>3. messages' \in [1..m -> Content]
      BY <1>2 DEF Types, MessageTypes
<1>4. Len(messages') = m
      BY <1>3, LenOfFunction
<1>5. Types(Len(messages))'
      BY <1>2, <1>4 DEF Types, MessageTypes, StoreTypes, HistoryTypes, CallTypes
<1>6. QED BY <1>5 DEF WallTypes

(* The server, the channels, the lists and the calls of the wall hold what *)
(* they should, for any number of tabs, messages, calls and marks.         *)
THEOREM WallTypeCorrect == NoneIsNoCall => (WallSpec => []WallTypes)
<1> SUFFICES ASSUME NoneIsNoCall PROVE WallSpec => []WallTypes
    OBVIOUS
<1>1. WallInit => WallTypes
      <2> SUFFICES ASSUME WallInit PROVE Types(Len(messages))
          BY DEF WallTypes
      <2>1. Types(Len(Existing)) /\ messages = Existing
            BY WallTypeInit DEF WallInit
      <2>2. QED BY <2>1
<1>2. WallTypes /\ [WallNext]_wallVars => WallTypes'
      BY WallTypeStep
<1>3. QED BY <1>1, <1>2, PTL DEF WallSpec

-----------------------------------------------------------------------------
(* Walls that are filled.                                                  *)
LEMMA FilledStays ==
    ASSUME NEW u, NEW ms, NEW has, NEW fl, NEW raw, NEW ap, NEW cs, NEW ds,
           FilledFor(u, ms, has, fl, raw, ap, cs),
           \A s \in Slot : IsLoad(cs[s], u) => IsLoad(ds[s], u)
    PROVE  FilledFor(u, ms, has, fl, raw, ap, ds)
BY DEF FilledFor

(* A call that does not end is still there.                                *)
LEMMA LoadsStay ==
    ASSUME NEW t, NEW others, NEW cs, NEW has, NEW token, NEW mutes,
           CallsFrom(t, others, cs, has, token, mutes), NEW u, NEW s \in Slot, IsLoad(others[s], u)
    PROVE  IsLoad(cs[s], u)
BY DEF CallsFrom, IsLoad

(* A list is rendered the same as long as its messages are about the same  *)
(* contents.                                                               *)
LEMMA ListInStays ==
    ASSUME NEW n \in Nat, NEW raw \in Seq(Noted(n)), NEW ms, NEW more, NEW mutes,
           \A e \in 1..n : ms[e] = more[e]
    PROVE  ListIn(ms, raw, mutes) = ListIn(more, raw, mutes)
<1>1. \A i \in DOMAIN raw : ms[raw[i].id] = more[raw[i].id]
      <2>1. \A i \in DOMAIN raw : raw[i] \in Noted(n)
            BY ListOfSeq
      <2>2. QED BY <2>1 DEF Noted
<1>2. QED BY <1>1 DEF ListIn

(* A step that only sets a call, and ends no load of a tab that has not    *)
(* failed.                                                                 *)
LEMMA FilledWithOneCall ==
    ASSUME FilledInv, NEW s \in Slot, NEW call, OneCall(s, call),
           UNCHANGED <<messages, rawList, applied, hasNextPage>>,
           \A t \in Tab : \/ failed'[t] = TRUE
                          \/ failed'[t] = failed[t] /\ (IsLoad(calls[s], t) => IsLoad(call, t))
    PROVE  FilledInv'
<1> SUFFICES ASSUME NEW t \in Tab
             PROVE  FilledFor(t, messages', hasNextPage'[t], failed'[t], rawList'[t],
                              applied'[t], calls')
    BY DEF FilledInv
<1>1. FilledFor(t, messages, hasNextPage[t], failed[t], rawList[t], applied[t], calls)
      BY DEF FilledInv
<1>2. CASE failed'[t] = TRUE
      BY <1>2 DEF FilledFor
<1>3. CASE failed'[t] = failed[t] /\ (IsLoad(calls[s], t) => IsLoad(call, t))
      <2>1. \A r \in Slot : IsLoad(calls[r], t) => IsLoad(calls'[r], t)
            BY <1>3 DEF OneCall
      <2>2. FilledFor(t, messages, hasNextPage[t], failed[t], rawList[t], applied[t], calls')
            BY <1>1, <2>1, FilledStays
      <2>3. QED BY <1>3, <2>2
<1>4. QED BY <1>2, <1>3

(* A step of a tab that renders its list or leaves it.                     *)
LEMMA FilledWithList ==
    ASSUME FilledInv, NEW t \in Tab, NEW others, NEW has, NEW token, NEW mutes,
           messages' = messages, ListsOfOthers(t),
           \A u \in Tab : u # t => hasNextPage'[u] = hasNextPage[u],
           \A u \in Tab, s \in Slot : IsLoad(calls[s], u) => IsLoad(others[s], u) \/ u = t,
           CallsFrom(t, others, calls', has, token, mutes),
           \/ FilledFor(t, messages, hasNextPage'[t], failed'[t], rawList'[t], applied'[t], calls')
           \/ /\ calls' = others /\ UNCHANGED <<hasNextPage, rawList, applied, failed>>
              /\ \A s \in Slot : IsLoad(calls[s], t) => IsLoad(others[s], t)
    PROVE  FilledInv'
<1> SUFFICES ASSUME NEW u \in Tab
             PROVE  FilledFor(u, messages', hasNextPage'[u], failed'[u], rawList'[u],
                              applied'[u], calls')
    BY DEF FilledInv
<1>1. FilledFor(u, messages, hasNextPage[u], failed[u], rawList[u], applied[u], calls)
      BY DEF FilledInv
<1>2. CASE u # t
      <2>1. \A s \in Slot : IsLoad(calls[s], u) => IsLoad(calls'[s], u)
            BY <1>2, LoadsStay
      <2>2. FilledFor(u, messages, hasNextPage[u], failed[u], rawList[u], applied[u], calls')
            BY <1>1, <2>1, FilledStays
      <2>3. QED BY <1>2, <2>2 DEF ListsOfOthers
<1>3. CASE u = t
      <2>1. CASE FilledFor(t, messages, hasNextPage'[t], failed'[t], rawList'[t], applied'[t], calls')
            BY <1>3, <2>1
      <2>2. CASE /\ calls' = others /\ UNCHANGED <<hasNextPage, rawList, applied, failed>>
                 /\ \A s \in Slot : IsLoad(calls[s], t) => IsLoad(others[s], t)
            <3>1. FilledFor(t, messages, hasNextPage[t], failed[t], rawList[t], applied[t], calls')
                  BY <1>1, <1>3, <2>2, FilledStays
            <3>2. QED BY <1>3, <2>2, <3>1
      <2>3. QED BY <2>1, <2>2
<1>4. QED BY <1>2, <1>3

(* A step leaves the walls filled: whoever makes a list shorter than the   *)
(* window asks for a page at once.                                         *)
LEMMA FilledStep ==
    ASSUME NoneIsNoCall
    PROVE  WallTypes /\ FilledInv /\ [WallNext]_wallVars => FilledInv'
<1> SUFFICES ASSUME WallTypes, FilledInv, [WallNext]_wallVars PROVE FilledInv'
    OBVIOUS
<1>1. PICK n \in Nat : Types(n)
      BY TypesOfWall
<1>2. calls \in [Slot -> Call(n)]
      BY <1>1 DEF Types, CallTypes
<1>3. CASE SomeoneActs
      <2>1. /\ \A e \in 1..n : messages[e] = messages'[e]
            /\ UNCHANGED <<rawList, applied, hasNextPage, calls, failed>>
            BY <1>1, <1>3, SomeoneActsTypes DEF SomeoneActs, storeVars
      <2>2. \A t \in Tab : ListIn(messages, rawList[t], applied[t])
                             = ListIn(messages', rawList[t], applied[t])
            BY <1>1, <2>1, ListInStays DEF Types, StoreTypes
      <2>3. QED BY <2>1, <2>2 DEF FilledInv, FilledFor
<1>4. ASSUME NEW s \in Slot, AnswerLoad(s) PROVE FilledInv'
      <2>1. PICK call : call = calls'[s]
            OBVIOUS
      <2>2. /\ calls[s] # None /\ calls[s] \in LoadCalls(n)
            /\ call = [calls[s] EXCEPT !.answer = PageBelow(calls[s].token)]
            /\ OneCall(s, call)
            /\ UNCHANGED <<messages, rawList, applied, hasNextPage, failed>>
            BY <1>1, <1>4, <2>1, AnswerLoadTypes DEF OneCall, messageVars, storeVars
      <2>3. \A t \in Tab : IsLoad(calls[s], t) => IsLoad(call, t)
            BY <2>2 DEF IsLoad, LoadCalls, NoneIsNoCall
      <2>4. QED BY <2>2, <2>3, FilledWithOneCall
<1>5. ASSUME NEW s \in Slot, EndLoad(s) PROVE FilledInv'
      <2>1. PICK t \in Tab, page \in Page(n), token \in Token(n) : EndsLoad(s, t, page, token)
            BY <1>1, <1>5, EndLoadTypes
      <2>2. PICK others : others = [calls EXCEPT ![s] = None]
            OBVIOUS
      <2>3. /\ IsLoad(calls[s], t) /\ t \in Tab /\ messages' = messages
            /\ hasNextPage' = [hasNextPage EXCEPT ![t] = page.hasNext]
            /\ ListsOfOthers(t)
            /\ CallsFrom(t, others, calls', page.hasNext, page.token, muted)
            /\ FilledFor(t, messages, page.hasNext, failed'[t], rawList'[t], applied'[t], calls')
            BY <2>1, <2>2 DEF EndsLoad, messageVars
      <2>4. /\ hasNextPage'[t] = page.hasNext
            /\ \A u \in Tab : u # t => hasNextPage'[u] = hasNextPage[u]
            BY <1>1, <2>3 DEF Types, StoreTypes
      <2>5. \A u \in Tab, r \in Slot : IsLoad(calls[r], u) => IsLoad(others[r], u) \/ u = t
            BY <1>2, <2>2, <2>3 DEF IsLoad
      <2>6. QED BY <2>3, <2>4, <2>5, FilledWithList
<1>6. ASSUME NEW s \in Slot, LoadRefused(s) PROVE FilledInv'
      <2>1. /\ OneCall(s, None) /\ failed'[calls[s].tab] = TRUE
            /\ \A u \in Tab : u # calls[s].tab => failed'[u] = failed[u]
            /\ UNCHANGED <<messages, rawList, applied, hasNextPage>>
            BY <1>1, <1>6, LoadRefusedTypes DEF messageVars, storeVars
      <2>2. \A t \in Tab : failed'[t] = TRUE \/ (failed'[t] = failed[t] /\ ~IsLoad(calls[s], t))
            BY <2>1 DEF IsLoad
      <2>3. QED BY <2>1, <2>2, FilledWithOneCall
<1>7. ASSUME NEW t \in Tab, HandleScroll(t) PROVE FilledInv'
      <2>1. PICK s, call : s \in Slot /\ calls[s] = None /\ OneCall(s, call)
            BY <1>1, <1>7, HandleScrollTypes
      <2>2. UNCHANGED <<messages, rawList, applied, hasNextPage, failed>>
            BY <1>1, <1>7, HandleScrollTypes DEF messageVars, storeVars
      <2>3. QED BY <2>1, <2>2, FilledWithOneCall DEF IsLoad
<1>8. ASSUME NEW t \in Tab,
             \/ HandleClickMarkAllAsRead(t) \/ HandleClickMarkNotificationListAsRead(t)
             \/ ReadContentNotifications(t) \/ HandleReadSpaceNotifications(t)
      PROVE  FilledInv'
      <2>1. PICK s, call : s \in Slot /\ calls[s] = None /\ OneCall(s, call)
            BY <1>1, <1>8, MarkingTypes
      <2>2. UNCHANGED <<messages, rawList, applied, hasNextPage, failed>>
            BY <1>1, <1>8, MarkingTypes DEF messageVars, storeVars
      <2>3. QED BY <2>1, <2>2, FilledWithOneCall DEF IsLoad
<1>9. ASSUME NEW s \in Slot, PutRead(s) PROVE FilledInv'
      <2>1. PICK call : OneCall(s, call) /\ UNCHANGED <<messages, rawList, applied, hasNextPage, failed>>
            BY <1>1, <1>9, PutReadTypes DEF storeVars
      <2>2. calls[s].op = "mark"
            BY <1>9 DEF PutRead
      <2>3. QED BY <2>1, <2>2, FilledWithOneCall DEF IsLoad
<1>10. ASSUME NEW s \in Slot, MarkRefused(s) \/ FetchRefused(s) PROVE FilledInv'
      <2>1. /\ OneCall(s, None) /\ calls[s].op # "load"
            /\ UNCHANGED <<messages, rawList, applied, hasNextPage, failed>>
            BY <1>1, <1>10, MarkRefusedTypes DEF messageVars, storeVars
      <2>2. QED BY <2>1, FilledWithOneCall DEF IsLoad
<1>11. ASSUME NEW s \in Slot, MarkAnswered(s) PROVE FilledInv'
      <2>1. PICK call, others : call = calls[s] /\ others = [calls EXCEPT ![s] = None]
            OBVIOUS
      <2>2. /\ call \in MarkCalls(n) /\ MarkIsSeen(call.tab, call.mark, others)
            /\ messages' = messages
            BY <1>1, <1>11, <2>1, MarkAnsweredTypes DEF messageVars
      <2>3. call.tab \in Tab /\ call.op = "mark"
            BY <2>2 DEF MarkCalls
      <2>4. \A u \in Tab, r \in Slot : IsLoad(calls[r], u) => IsLoad(others[r], u)
            BY <1>2, <2>1, <2>3 DEF IsLoad
      <2>5. QED BY <2>2, <2>3, <2>4, FilledWithList DEF MarkIsSeen
<1>12. ASSUME NEW t \in Tab, NEW e, TlmIsHandled(t, e), messages' = messages
       PROVE  FilledInv'
      <2>1. CASE TlmIsSeen(t, e, calls)
            BY <1>12, <2>1, FilledWithList DEF TlmIsSeen
      <2>2. CASE TlmWaits(t, e)
            <3>1. PICK s, call : s \in Slot /\ calls[s] = None /\ OneCall(s, call)
                  BY <2>2 DEF TlmWaits
            <3>2. UNCHANGED <<messages, rawList, applied, hasNextPage, failed>>
                  BY <1>12, <2>2 DEF TlmWaits, storeVars
            <3>3. QED BY <3>1, <3>2, FilledWithOneCall DEF IsLoad
      <2>3. QED BY <1>12, <2>1, <2>2 DEF TlmIsHandled
<1>13. CASE ReceiveTlm
      BY <1>1, <1>12, <1>13, ReceiveTlmTypes DEF messageVars
<1>14. ASSUME NEW u \in Tab, NEW t \in Tab, BroadcastChannelMessageReceived(u, t)
       PROVE  FilledInv'
      <2>1. PICK item : /\ TlmIsHandled(t, item.event) \/ MarkIsSeen(t, item, calls)
                        /\ messages' = messages
            BY <1>1, <1>14, BroadcastTypes DEF messageVars
      <2>2. CASE TlmIsHandled(t, item.event)
            BY <1>12, <2>1, <2>2
      <2>3. CASE MarkIsSeen(t, item, calls)
            BY <2>1, <2>3, FilledWithList DEF MarkIsSeen
      <2>4. QED BY <2>1, <2>2, <2>3
<1>15. ASSUME NEW s \in Slot, EndFetch(s) PROVE FilledInv'
      <2>1. PICK call, others : call = calls[s] /\ others = [calls EXCEPT ![s] = None]
            OBVIOUS
      <2>2. /\ call \in FetchCalls(n) /\ TlmIsSeen(call.tab, call.event, others)
            /\ messages' = messages
            BY <1>1, <1>15, <2>1, EndFetchTypes DEF messageVars
      <2>3. call.tab \in Tab /\ call.op = "fetch"
            BY <2>2 DEF FetchCalls
      <2>4. \A u \in Tab, r \in Slot : IsLoad(calls[r], u) => IsLoad(others[r], u)
            BY <1>2, <2>1, <2>3 DEF IsLoad
      <2>5. QED BY <2>2, <2>3, <2>4, FilledWithList DEF TlmIsSeen
<1>16. CASE UNCHANGED wallVars
      BY <1>16 DEF wallVars, messageVars, storeVars, FilledInv
<1>17. QED BY <1>3, <1>4, <1>5, <1>6, <1>7, <1>8, <1>9, <1>10, <1>11, <1>13, <1>14, <1>15, <1>16
           DEF WallNext

-----------------------------------------------------------------------------
(* Pages leave no hole.                                                    *)

(* A load that was there, perhaps answered since, or one that was made for *)
(* the page that comes next.                                               *)
LoadIsOf(call, old, t, has, token) ==
    \/ /\ IsLoad(old, t) /\ call.token = old.token
       /\ call.answer # None => call.answer = old.answer \/ Covers(call.token, call.answer)
    \/ has /\ call.token = token /\ call.answer = None

(* The loads of a tab, when it has all it had and only loads that come     *)
(* from one that was there or from its next page.                          *)
LEMMA PagesStay ==
    ASSUME NEW t, NEW cs, NEW ds, NEW raw, NEW more, NEW heard, NEW has, NEW token, NEW first,
           HasAll(raw, heard, has, token, first), TabPages(t, cs, raw, has, token, first),
           \A d : d \in IdsOf(raw) => d \in IdsOf(more),
           \A s \in Slot : IsLoad(ds[s], t) => LoadIsOf(ds[s], cs[s], t, has, token)
    PROVE  TabPages(t, ds, more, has, token, first)
<1>1. has => token # FirstPage
      BY DEF TabPages
<1>2. ASSUME NEW s \in Slot, IsLoad(ds[s], t), ds[s].token = FirstPage
      PROVE  ~has /\ \A r \in Slot : IsLoad(ds[r], t) => r = s
      <2>1. IsLoad(cs[s], t) /\ cs[s].token = FirstPage
            BY <1>1, <1>2 DEF LoadIsOf
      <2>2. ~has /\ \A r \in Slot : IsLoad(cs[r], t) => r = s
            BY <2>1 DEF TabPages
      <2>3. QED BY <2>2 DEF LoadIsOf
<1>3. ASSUME NEW s \in Slot, IsLoad(ds[s], t), ds[s].token # FirstPage,
             NEW e \in 1..first, e >= ds[s].token
      PROVE  e \in IdsOf(more)
      <2>1. CASE IsLoad(cs[s], t) /\ ds[s].token = cs[s].token
            BY <1>3, <2>1 DEF TabPages
      <2>2. CASE has /\ ds[s].token = token
            BY <1>3, <2>2 DEF HasAll
      <2>3. QED BY <1>3, <2>1, <2>2 DEF LoadIsOf
<1>4. ASSUME NEW s \in Slot, IsLoad(ds[s], t), ds[s].answer # None
      PROVE  Covers(ds[s].token, ds[s].answer)
      BY <1>4 DEF LoadIsOf, TabPages
<1>5. QED BY <1>1, <1>2, <1>3, <1>4 DEF TabPages

(* A step that sets one call.                                              *)
LEMMA PagesWithOneCall ==
    ASSUME PagesInv, NEW s \in Slot, NEW call, OneCall(s, call),
           UNCHANGED <<rawList, hasNextPage, nextPageToken, firstRead, handled>>,
           \A t \in Tab : IsLoad(call, t) =>
              LoadIsOf(call, calls[s], t, hasNextPage[t], nextPageToken[t])
    PROVE  PagesInv'
<1> SUFFICES ASSUME NEW t \in Tab
             PROVE  /\ HasAll(rawList'[t], handled'[t], hasNextPage'[t], nextPageToken'[t], firstRead'[t])
                    /\ TabPages(t, calls', rawList'[t], hasNextPage'[t], nextPageToken'[t], firstRead'[t])
    BY DEF PagesInv
<1>1. PICK raw, has, token, first :
         /\ raw = rawList[t] /\ has = hasNextPage[t] /\ token = nextPageToken[t]
         /\ first = firstRead[t]
      OBVIOUS
<1>2. HasAll(raw, handled[t], has, token, first) /\ TabPages(t, calls, raw, has, token, first)
      BY <1>1 DEF PagesInv
<1>3. \A r \in Slot : IsLoad(calls'[r], t) => LoadIsOf(calls'[r], calls[r], t, has, token)
      <2> SUFFICES ASSUME NEW r \in Slot, IsLoad(calls'[r], t)
                   PROVE  LoadIsOf(calls'[r], calls[r], t, has, token)
          OBVIOUS
      <2>1. CASE r = s
            BY <1>1, <2>1 DEF OneCall
      <2>2. CASE r # s
            BY <2>2 DEF OneCall, LoadIsOf
      <2>3. QED BY <2>1, <2>2
<1>4. TabPages(t, calls', raw, has, token, first)
      BY <1>2, <1>3, PagesStay
<1>5. QED BY <1>1, <1>2, <1>4

(* A rendering of a tab makes loads of its own only.                       *)
LEMMA LoadsOfRendering ==
    ASSUME NoneIsNoCall, NEW t, NEW others, NEW cs, NEW has, NEW token, NEW mutes,
           CallsFrom(t, others, cs, has, token, mutes), NEW u, NEW s \in Slot, IsLoad(cs[s], u)
    PROVE  \/ IsLoad(others[s], u) /\ cs[s] = others[s]
           \/ u = t /\ has /\ cs[s].token = token /\ cs[s].answer = None
<1>1. CASE cs[s] = others[s]
      BY <1>1
<1>2. CASE has /\ cs[s] = LoadCall(t, token, mutes)
      BY <1>2, LoadCallIsLoad
<1>3. QED BY <1>1, <1>2 DEF CallsFrom

(* A list that is rendered with all it had.                                *)
LEMMA PagesWithList ==
    ASSUME NoneIsNoCall, PagesInv, NEW t \in Tab, NEW others,
           UNCHANGED <<hasNextPage, nextPageToken, firstRead>>, ListsOfOthers(t),
           \A d : d \in IdsOf(rawList[t]) => d \in IdsOf(rawList'[t]),
           \A u \in Tab : \A e \in handled'[u] : e \in handled[u] \/ e \in IdsOf(rawList'[u]),
           \A s \in Slot : others[s] = calls[s] \/ others[s] = None,
           CallsFrom(t, others, calls', hasNextPage[t], nextPageToken[t], muted)
    PROVE  PagesInv'
<1> SUFFICES ASSUME NEW u \in Tab
             PROVE  /\ HasAll(rawList'[u], handled'[u], hasNextPage'[u], nextPageToken'[u], firstRead'[u])
                    /\ TabPages(u, calls', rawList'[u], hasNextPage'[u], nextPageToken'[u], firstRead'[u])
    BY DEF PagesInv
<1>1. PICK raw, more, heard, has, token, first :
         /\ raw = rawList[u] /\ more = rawList'[u] /\ heard = handled[u] /\ has = hasNextPage[u]
         /\ token = nextPageToken[u] /\ first = firstRead[u]
      OBVIOUS
<1>2. HasAll(raw, heard, has, token, first) /\ TabPages(u, calls, raw, has, token, first)
      BY <1>1 DEF PagesInv
<1>3. \A d : d \in IdsOf(raw) => d \in IdsOf(more)
      BY <1>1 DEF ListsOfOthers
<1>4. \A s \in Slot : IsLoad(calls'[s], u) => LoadIsOf(calls'[s], calls[s], u, has, token)
      <2> SUFFICES ASSUME NEW s \in Slot, IsLoad(calls'[s], u)
                   PROVE  LoadIsOf(calls'[s], calls[s], u, has, token)
          OBVIOUS
      <2>1. \/ IsLoad(others[s], u) /\ calls'[s] = others[s]
            \/ u = t /\ has /\ calls'[s].token = token /\ calls'[s].answer = None
            BY <1>1, LoadsOfRendering
      <2>2. IsLoad(others[s], u) => others[s] = calls[s]
            BY DEF IsLoad
      <2>3. QED BY <2>1, <2>2 DEF LoadIsOf
<1>5. TabPages(u, calls', more, has, token, first)
      BY <1>2, <1>3, <1>4, PagesStay
<1>6. HasAll(more, handled'[u], has, token, first)
      <2>1. \A e \in handled'[u] : e \in heard \/ e \in IdsOf(more)
            BY <1>1
      <2>2. QED BY <1>2, <1>3, <2>1 DEF HasAll
<1>7. QED BY <1>1, <1>5, <1>6

(* A page goes behind the list of its tab.                                 *)
PageCame(t, s, token, page, cs, others, ds, mutes) ==
    /\ IsLoad(cs[s], t) /\ cs[s].token = token /\ cs[s].answer = page /\ page # None
    /\ others[s] = None /\ \A r \in Slot : r # s => others[r] = cs[r]
    /\ CallsFrom(t, others, ds, page.hasNext, page.token, mutes)

(* With the page of a load behind it, a list has all there is down to the  *)
(* token of the page, and the loads that are left go on from there.        *)
LEMMA PageEnds ==
    ASSUME NoneIsNoCall, NEW n \in Nat, NEW t, NEW raw \in Seq(Noted(n)), NEW heard, NEW has, NEW old,
           NEW first \in 0..n, NEW token \in Token(n), NEW page \in Page(n),
           NEW s \in Slot, NEW cs, NEW others, NEW ds, NEW mutes,
           PageCame(t, s, token, page, cs, others, ds, mutes),
           HasAll(raw, heard, has, old, first), TabPages(t, cs, raw, has, old, first),
           NEW last, last = IF token = FirstPage THEN page.last ELSE first
    PROVE  /\ HasAll(raw \o page.items, heard, page.hasNext, page.token, last)
           /\ TabPages(t, ds, raw \o page.items, page.hasNext, page.token, last)
<1> DEFINE more == raw \o page.items
<1>0. /\ IsLoad(cs[s], t) /\ cs[s].token = token /\ cs[s].answer = page /\ page # None
      /\ others[s] = None /\ \A r \in Slot : r # s => others[r] = cs[r]
      /\ CallsFrom(t, others, ds, page.hasNext, page.token, mutes)
      BY DEF PageCame
<1>1. /\ page.items \in Seq(Noted(n)) /\ page.token \in Token(n) /\ page.last \in 0..n
      BY DEF Page
<1>2. \A d : d \in IdsOf(more) <=> d \in IdsOf(raw) \/ d \in IdsOf(page.items)
      BY <1>1, AppendedList
<1> HIDE DEF more
<1>3. Covers(token, page)
      BY <1>0 DEF TabPages
<1>4. FirstPage \in Int /\ token \in Int /\ page.token \in Int /\ last \in Int
      <2>1. FirstPage \in Int
            BY WallCountAssumption DEF FirstPage
      <2>2. QED BY <1>1, <2>1 DEF Token
<1>5. HasAll(more, heard, page.hasNext, page.token, last)
      <2>1. ASSUME NEW e \in heard PROVE e \in IdsOf(more)
            BY <1>2 DEF HasAll
      <2>2. ASSUME NEW e \in 1..last, page.hasNext => e >= page.token PROVE e \in IdsOf(more)
            <3>1. CASE token = FirstPage
                  BY <1>2, <1>3, <2>2, <3>1 DEF Covers
            <3>2. CASE token # FirstPage /\ e >= token
                  BY <1>0, <1>2, <2>2, <3>2 DEF TabPages
            <3>3. CASE token # FirstPage /\ ~(e >= token)
                  <4>1. e \in 1..(token - 1)
                        BY <1>4, <3>3
                  <4>2. QED BY <1>2, <1>3, <2>2, <3>3, <4>1 DEF Covers
            <3>4. QED BY <3>1, <3>2, <3>3
      <2>3. QED BY <2>1, <2>2 DEF HasAll
<1>6. page.hasNext => page.token # FirstPage
      BY <1>3 DEF Covers
<1>7. ASSUME NEW r \in Slot, IsLoad(ds[r], t)
      PROVE  /\ ds[r].token # FirstPage
             /\ \A e \in 1..last : e >= ds[r].token => e \in IdsOf(more)
             /\ ds[r].answer # None => Covers(ds[r].token, ds[r].answer)
      <2>1. \/ IsLoad(others[r], t) /\ ds[r] = others[r]
            \/ page.hasNext /\ ds[r].token = page.token /\ ds[r].answer = None
            <3>1. PICK more2, token2 : more2 = page.hasNext /\ token2 = page.token
                  OBVIOUS
            <3>2. CallsFrom(t, others, ds, more2, token2, mutes)
                  BY <1>0, <3>1
            <3>3. \/ IsLoad(others[r], t) /\ ds[r] = others[r]
                  \/ t = t /\ more2 /\ ds[r].token = token2 /\ ds[r].answer = None
                  BY ONLY NoneIsNoCall, <1>7, <3>2, LoadsOfRendering
            <3>4. QED BY <3>1, <3>3
      <2>2. CASE page.hasNext /\ ds[r].token = page.token /\ ds[r].answer = None
            BY <1>5, <1>6, <2>2 DEF HasAll
      <2>3. CASE IsLoad(others[r], t) /\ ds[r] = others[r]
            <3>1. r # s /\ ds[r] = cs[r] /\ IsLoad(cs[r], t)
                  BY <1>0, <2>3 DEF IsLoad
            <3>2. token # FirstPage /\ cs[r].token # FirstPage
                  BY <1>0, <3>1 DEF TabPages
            <3>3. QED BY <1>2, <3>1, <3>2 DEF TabPages
      <2>4. QED BY <2>1, <2>2, <2>3
<1>8. TabPages(t, ds, more, page.hasNext, page.token, last)
      BY <1>6, <1>7 DEF TabPages
<1>9. QED BY <1>5, <1>8 DEF more

(* The end of a load leaves no hole, whichever of the loads of its tab it  *)
(* is.                                                                     *)
LEMMA PagesAfterLoad ==
    ASSUME NoneIsNoCall, NEW n \in Nat, Types(n), PagesInv, NEW s \in Slot, EndLoad(s)
    PROVE  PagesInv'
<1>1. PICK t \in Tab, page \in Page(n), token \in Token(n) : EndsLoad(s, t, page, token)
      BY EndLoadTypes
<1>2. PICK others, mutes : others = [calls EXCEPT ![s] = None] /\ mutes = muted
      OBVIOUS
<1>3. calls \in [Slot -> Call(n)] /\ StoreTypes(n) /\ HistoryTypes(n)
      BY DEF Types, CallTypes
<1>4. others[s] = None /\ \A r \in Slot : r # s => others[r] = calls[r]
      BY <1>2, <1>3
<1>5. /\ IsLoad(calls[s], t) /\ calls[s].token = token /\ calls[s].answer = page /\ page # None
      /\ handled' = handled /\ rawList'[t] = rawList[t] \o page.items /\ ListsOfOthers(t)
      /\ CallsFrom(t, others, calls', page.hasNext, page.token, mutes)
      BY <1>1, <1>2 DEF EndsLoad
<1>6. /\ hasNextPage'[t] = page.hasNext /\ nextPageToken'[t] = page.token
      /\ firstRead'[t] = IF token = FirstPage THEN page.last ELSE firstRead[t]
      /\ \A u \in Tab : u # t => /\ hasNextPage'[u] = hasNextPage[u]
                                 /\ nextPageToken'[u] = nextPageToken[u]
                                 /\ firstRead'[u] = firstRead[u]
      BY <1>1, <1>3 DEF EndsLoad, StoreTypes, HistoryTypes
<1> SUFFICES ASSUME NEW u \in Tab
             PROVE  /\ HasAll(rawList'[u], handled'[u], hasNextPage'[u], nextPageToken'[u], firstRead'[u])
                    /\ TabPages(u, calls', rawList'[u], hasNextPage'[u], nextPageToken'[u], firstRead'[u])
    BY DEF PagesInv
<1>7. PICK raw, heard, has, old, first, cs, ds :
         /\ raw = rawList[u] /\ heard = handled[u] /\ has = hasNextPage[u]
         /\ old = nextPageToken[u] /\ first = firstRead[u] /\ cs = calls /\ ds = calls'
      OBVIOUS
<1>8. HasAll(raw, heard, has, old, first) /\ TabPages(u, cs, raw, has, old, first)
      BY <1>7 DEF PagesInv
<1>9. CASE u = t
      <2>1. raw \in Seq(Noted(n)) /\ first \in 0..n
            BY <1>3, <1>7 DEF StoreTypes, HistoryTypes
      <2>2. PICK last : last = IF token = FirstPage THEN page.last ELSE first
            OBVIOUS
      <2>3. /\ PageCame(t, s, token, page, cs, others, ds, mutes)
            /\ HasAll(raw, heard, has, old, first) /\ TabPages(t, cs, raw, has, old, first)
            BY <1>4, <1>5, <1>7, <1>8, <1>9 DEF PageCame
      <2>4. /\ HasAll(raw \o page.items, heard, page.hasNext, page.token, last)
            /\ TabPages(t, ds, raw \o page.items, page.hasNext, page.token, last)
            BY ONLY NoneIsNoCall, <2>1, <2>2, <2>3, PageEnds, n \in Nat, page \in Page(n), token \in Token(n), s \in Slot
      <2>5. /\ rawList'[u] = raw \o page.items /\ handled'[u] = heard /\ firstRead'[u] = last
            /\ hasNextPage'[u] = page.hasNext /\ nextPageToken'[u] = page.token
            BY <1>5, <1>6, <1>7, <1>9, <2>2
      <2>6. HasAll(rawList'[u], handled'[u], hasNextPage'[u], nextPageToken'[u], firstRead'[u])
            BY <2>4, <2>5
      <2>7. TabPages(u, calls', rawList'[u], hasNextPage'[u], nextPageToken'[u], firstRead'[u])
            BY <1>7, <1>9, <2>4, <2>5
      <2>8. QED BY <2>6, <2>7
<1>10. CASE u # t
      <2>1. \A r \in Slot : IsLoad(ds[r], u) => LoadIsOf(ds[r], cs[r], u, has, old)
            <3> SUFFICES ASSUME NEW r \in Slot, IsLoad(ds[r], u)
                         PROVE  LoadIsOf(ds[r], cs[r], u, has, old)
                OBVIOUS
            <3>1. CallsFrom(t, others, ds, page.hasNext, page.token, mutes)
                  BY <1>5, <1>7
            <3>2. IsLoad(others[r], u) /\ ds[r] = others[r]
                  BY <1>10, <3>1, LoadsOfRendering
            <3>3. others[r] = cs[r]
                  BY <1>4, <1>7, <3>2 DEF IsLoad
            <3>4. QED BY <3>2, <3>3 DEF LoadIsOf
      <2>2. TabPages(u, ds, raw, has, old, first)
            BY <1>8, <2>1, PagesStay
      <2>3. QED BY <1>5, <1>6, <1>7, <1>8, <1>10, <2>2 DEF ListsOfOthers
<1>11. QED BY <1>9, <1>10

(* A step leaves no hole in a list.                                        *)
LEMMA PagesStep ==
    ASSUME NoneIsNoCall
    PROVE  WallTypes /\ PagesInv /\ [WallNext]_wallVars => PagesInv'
<1> SUFFICES ASSUME WallTypes, PagesInv, [WallNext]_wallVars PROVE PagesInv'
    OBVIOUS
<1>1. PICK n \in Nat : Types(n)
      BY TypesOfWall
<1>2. calls \in [Slot -> Call(n)]
      BY <1>1 DEF Types, CallTypes
<1>3. CASE SomeoneActs
      BY <1>3 DEF SomeoneActs, storeVars, historyVars, PagesInv
<1>4. ASSUME NEW s \in Slot, AnswerLoad(s) PROVE PagesInv'
      <2>1. PICK call : call = calls'[s]
            OBVIOUS
      <2>2. /\ calls[s] # None /\ calls[s] \in LoadCalls(n)
            /\ call = [calls[s] EXCEPT !.answer = PageBelow(calls[s].token)]
            /\ OneCall(s, call)
            /\ UNCHANGED <<rawList, hasNextPage, nextPageToken, firstRead, handled>>
            BY <1>1, <1>4, <2>1, AnswerLoadTypes DEF OneCall, storeVars, historyVars
      <2>3. /\ calls[s].token \in Token(n) /\ calls[s].op = "load"
            /\ call.token = calls[s].token /\ call.tab = calls[s].tab
            /\ call.answer = PageBelow(calls[s].token)
            BY <2>2 DEF LoadCalls
      <2>4. Covers(call.token, call.answer)
            BY <1>1, <2>3, PageBelowIsPage DEF Types
      <2>5. \A t \in Tab : IsLoad(call, t) =>
               LoadIsOf(call, calls[s], t, hasNextPage[t], nextPageToken[t])
            BY <2>2, <2>3, <2>4 DEF IsLoad, LoadIsOf
      <2>6. QED BY <2>2, <2>5, PagesWithOneCall
<1>5. ASSUME NEW s \in Slot, EndLoad(s) PROVE PagesInv'
      BY <1>1, <1>5, PagesAfterLoad
<1>6. ASSUME NEW s \in Slot, LoadRefused(s) \/ MarkRefused(s) \/ FetchRefused(s) PROVE PagesInv'
      <2>1. /\ OneCall(s, None)
            /\ UNCHANGED <<rawList, hasNextPage, nextPageToken, firstRead, handled>>
            BY <1>1, <1>6, LoadRefusedTypes, MarkRefusedTypes DEF storeVars, historyVars
      <2>2. \A t \in Tab : ~IsLoad(None, t)
            BY DEF IsLoad
      <2>3. QED BY <2>1, <2>2, PagesWithOneCall
<1>7. ASSUME NEW t \in Tab, HandleScroll(t) PROVE PagesInv'
      <2>1. PICK s \in Slot : OneCall(s, LoadCall(t, nextPageToken[t], muted))
            BY <1>1, <1>7, HandleScrollTypes
      <2>2. /\ hasNextPage[t]
            /\ UNCHANGED <<rawList, hasNextPage, nextPageToken, firstRead, handled>>
            BY <1>1, <1>7, HandleScrollTypes DEF storeVars, historyVars
      <2>3. PICK call, token : call = LoadCall(t, nextPageToken[t], muted) /\ token = nextPageToken[t]
            OBVIOUS
      <2>4. call.token = token /\ call.answer = None /\ \A u : u # t => ~IsLoad(call, u)
            BY <2>3, LoadCallIsLoad
      <2>5. \A u \in Tab : IsLoad(call, u) =>
               LoadIsOf(call, calls[s], u, hasNextPage[u], nextPageToken[u])
            BY <2>2, <2>3, <2>4 DEF LoadIsOf
      <2>6. QED BY <2>1, <2>2, <2>3, <2>5, PagesWithOneCall
<1>8. ASSUME NEW t \in Tab,
             \/ HandleClickMarkAllAsRead(t) \/ HandleClickMarkNotificationListAsRead(t)
             \/ ReadContentNotifications(t) \/ HandleReadSpaceNotifications(t)
      PROVE  PagesInv'
      <2>1. PICK s \in Slot, call \in MarkCalls(n) : OneCall(s, call)
            BY <1>1, <1>8, MarkingTypes
      <2>2. UNCHANGED <<rawList, hasNextPage, nextPageToken, firstRead, handled>>
            BY <1>1, <1>8, MarkingTypes DEF storeVars, historyVars
      <2>3. \A u : ~IsLoad(call, u)
            BY DEF IsLoad, MarkCalls
      <2>4. QED BY <2>1, <2>2, <2>3, PagesWithOneCall
<1>9. ASSUME NEW s \in Slot, PutRead(s) PROVE PagesInv'
      <2>1. PICK call : call = calls'[s]
            OBVIOUS
      <2>2. /\ OneCall(s, call) /\ calls[s] \in MarkCalls(n)
            /\ UNCHANGED <<rawList, hasNextPage, nextPageToken, firstRead, handled>>
            BY <1>1, <1>9, <2>1, PutReadTypes DEF OneCall, storeVars
      <2>3. call.op = "mark"
            <3>1. PICK covered : OneCall(s, [calls[s] EXCEPT !.phase = "answered", !.covered = covered])
                  BY <1>1, <1>9, PutReadTypes
            <3>2. PICK old : old = calls[s]
                  OBVIOUS
            <3>3. call = [old EXCEPT !.phase = "answered", !.covered = covered]
                  BY <2>1, <3>1, <3>2 DEF OneCall
            <3>4. old \in MarkCalls(n)
                  BY <2>2, <3>2
            <3>5. QED BY <3>3, <3>4 DEF MarkCalls
      <2>4. QED BY <2>2, <2>3, PagesWithOneCall DEF IsLoad
<1>10. ASSUME NEW s \in Slot, MarkAnswered(s) PROVE PagesInv'
      <2>1. PICK call, others : call = calls[s] /\ others = [calls EXCEPT ![s] = None]
            OBVIOUS
      <2>2. /\ call \in MarkCalls(n) /\ MarkIsSeen(call.tab, call.mark, others)
            /\ firstRead' = firstRead /\ handled' = handled
            BY <1>1, <1>10, <2>1, MarkAnsweredTypes
      <2>3. call.tab \in Tab
            BY <2>2 DEF MarkCalls
      <2>4. \A r \in Slot : others[r] = calls[r] \/ others[r] = None
            BY <1>2, <2>1
      <2>5. QED BY <2>2, <2>3, <2>4, PagesWithList DEF MarkIsSeen, MarksList
<1>11. ASSUME NEW t \in Tab, NEW e, NEW others, TlmIsSeen(t, e, others),
              \A r \in Slot : others[r] = calls[r] \/ others[r] = None, firstRead' = firstRead
       PROVE  PagesInv'
      <2>1. \A u \in Tab : \A d \in handled'[u] : d \in handled[u] \/ d \in IdsOf(rawList'[u])
            <3>1. CASE handled' = handled
                  BY <3>1
            <3>2. CASE handled' = [handled EXCEPT ![t] = @ \cup {e}] /\ e \in IdsOf(rawList'[t])
                  <4>1. handled \in [Tab -> SUBSET (1..n)]
                        BY <1>1 DEF Types, HistoryTypes
                  <4>2. QED BY <3>2, <4>1
            <3>3. QED BY <1>11, <3>1, <3>2 DEF TlmIsSeen
      <2>2. QED BY <1>11, <2>1, PagesWithList DEF TlmIsSeen
<1>12. ASSUME NEW t \in Tab, NEW mark, MarkIsSeen(t, mark, calls), handled' = handled,
              firstRead' = firstRead
       PROVE  PagesInv'
      BY <1>12, PagesWithList DEF MarkIsSeen, MarksList
<1>13. ASSUME NEW t \in Tab, NEW e, TlmIsHandled(t, e), firstRead' = firstRead
       PROVE  PagesInv'
      <2>1. CASE TlmIsSeen(t, e, calls)
            BY <1>11, <1>13, <2>1
      <2>2. CASE TlmWaits(t, e)
            <3>1. PICK s \in Slot : OneCall(s, [op |-> "fetch", tab |-> t, event |-> e])
                  BY <2>2 DEF TlmWaits
            <3>2. UNCHANGED <<rawList, hasNextPage, nextPageToken, firstRead, handled>>
                  BY <1>13, <2>2 DEF TlmWaits, storeVars
            <3>3. PICK call : call = [op |-> "fetch", tab |-> t, event |-> e]
                  OBVIOUS
            <3>4. \A u : ~IsLoad(call, u)
                  BY <3>3 DEF IsLoad
            <3>5. QED BY <3>1, <3>2, <3>3, <3>4, PagesWithOneCall
      <2>3. QED BY <1>13, <2>1, <2>2 DEF TlmIsHandled
<1>14. CASE ReceiveTlm
      BY <1>1, <1>13, <1>14, ReceiveTlmTypes
<1>15. ASSUME NEW u \in Tab, NEW t \in Tab, BroadcastChannelMessageReceived(u, t)
       PROVE  PagesInv'
      BY <1>1, <1>12, <1>13, <1>15, BroadcastTypes
<1>16. ASSUME NEW s \in Slot, EndFetch(s) PROVE PagesInv'
      <2>1. PICK call, others : call = calls[s] /\ others = [calls EXCEPT ![s] = None]
            OBVIOUS
      <2>2. /\ call \in FetchCalls(n) /\ TlmIsSeen(call.tab, call.event, others)
            /\ firstRead' = firstRead
            BY <1>1, <1>16, <2>1, EndFetchTypes
      <2>3. call.tab \in Tab
            BY <2>2 DEF FetchCalls
      <2>4. \A r \in Slot : others[r] = calls[r] \/ others[r] = None
            BY <1>2, <2>1
      <2>5. QED BY <1>11, <2>2, <2>3, <2>4
<1>17. CASE UNCHANGED wallVars
      BY <1>17 DEF wallVars, storeVars, historyVars, PagesInv
<1>18. QED BY <1>3, <1>4, <1>5, <1>6, <1>7, <1>8, <1>9, <1>10, <1>14, <1>15, <1>16, <1>17 DEF WallNext

-----------------------------------------------------------------------------
(* Marks reach every tab.                                                  *)

(* A channel with one more item.                                           *)
LEMMA ItemAppended ==
    ASSUME NEW S, NEW q \in Seq(S), NEW item \in S, NEW ms, NEW e
    PROVE  /\ (\E j \in DOMAIN q : Selects(ms, q[j], e)) =>
                 \E j \in DOMAIN Append(q, item) : Selects(ms, Append(q, item)[j], e)
           /\ Selects(ms, item, e) =>
                 \E j \in DOMAIN Append(q, item) : Selects(ms, Append(q, item)[j], e)
           /\ (\E j \in DOMAIN Append(q, item) : Tells(Append(q, item)[j], e)) =>
                 Tells(item, e) \/ \E j \in DOMAIN q : Tells(q[j], e)
<1> DEFINE r == Append(q, item)
           m == Len(q)
<1>1. m \in Nat /\ DOMAIN q = 1..m
      BY LenProperties
<1>2. /\ DOMAIN r = 1..(m + 1) /\ r[m + 1] = item
      /\ \A i \in 1..m : r[i] = q[i]
      <2>1. r \in Seq(S) /\ Len(r) = m + 1 /\ r[m + 1] = item /\ \A i \in 1..m : r[i] = q[i]
            BY AppendProperties
      <2>2. QED BY <2>1, LenProperties
<1> HIDE DEF r, m
<1>3. /\ \A j \in DOMAIN q : j \in DOMAIN r /\ r[j] = q[j]
      /\ m + 1 \in DOMAIN r
      /\ \A j \in DOMAIN r : r[j] = item \/ (j \in DOMAIN q /\ r[j] = q[j])
      BY <1>1, <1>2
<1>4. QED BY <1>2, <1>3 DEF r

(* A channel without its first item.                                       *)
LEMMA ItemReceived ==
    ASSUME NEW S, NEW q \in Seq(S), q # <<>>, NEW ms, NEW e
    PROVE  /\ (\E j \in DOMAIN q : Selects(ms, q[j], e)) =>
                 Selects(ms, Head(q), e) \/ \E j \in DOMAIN Tail(q) : Selects(ms, Tail(q)[j], e)
           /\ (\E j \in DOMAIN Tail(q) : Tells(Tail(q)[j], e)) => \E j \in DOMAIN q : Tells(q[j], e)
           /\ Tells(Head(q), e) => \E j \in DOMAIN q : Tells(q[j], e)
<1> DEFINE r == Tail(q)
           m == Len(q)
           h == Head(q)
<1>1. /\ m \in Nat \ {0} /\ DOMAIN q = 1..m /\ DOMAIN r = 1..(m - 1) /\ h = q[1]
      /\ \A i \in 1..(m - 1) : r[i] = q[i + 1]
      BY HeadOfChannel
<1> HIDE DEF r, m, h
<1>2. ASSUME NEW j \in DOMAIN q, j # 1
      PROVE  j - 1 \in DOMAIN r /\ r[j - 1] = q[j]
      <2>1. j - 1 \in 1..(m - 1) /\ (j - 1) + 1 = j
            BY <1>1, <1>2
      <2>2. QED BY <1>1, <2>1
<1>3. ASSUME NEW i \in DOMAIN r
      PROVE  i + 1 \in DOMAIN q /\ r[i] = q[i + 1]
      BY <1>1
<1>4. (\E j \in DOMAIN q : Selects(ms, q[j], e)) =>
         Selects(ms, h, e) \/ \E j \in DOMAIN r : Selects(ms, r[j], e)
      <2> SUFFICES ASSUME NEW j \in DOMAIN q, Selects(ms, q[j], e), ~ Selects(ms, h, e)
                   PROVE  \E k \in DOMAIN r : Selects(ms, r[k], e)
          OBVIOUS
      <2>1. j # 1
            BY <1>1
      <2>2. QED BY <1>2, <2>1
<1>5. (\E j \in DOMAIN r : Tells(r[j], e)) => \E j \in DOMAIN q : Tells(q[j], e)
      <2> SUFFICES ASSUME NEW j \in DOMAIN r, Tells(r[j], e)
                   PROVE  \E k \in DOMAIN q : Tells(q[k], e)
          OBVIOUS
      <2>1. QED BY <1>3
<1>6. Tells(h, e) => \E j \in DOMAIN q : Tells(q[j], e)
      <2>1. 1 \in DOMAIN q
            BY <1>1
      <2>2. QED BY <1>1, <2>1
<1>7. QED BY <1>4, <1>5, <1>6 DEF r, h

(* What a tab asked for, and what a call that is left has to tell, after a *)
(* rendering.                                                              *)
LEMMA CallsAfterRendering ==
    ASSUME NoneIsNoCall, NEW t, NEW cs, NEW others, NEW ds, NEW has, NEW token, NEW mutes,
           \A s \in Slot : others[s] = cs[s] \/ others[s] = None,
           CallsFrom(t, others, ds, has, token, mutes)
    PROVE  /\ \A u, e : CallsShowRead(u, cs, e) => CallsShowRead(u, ds, e)
           /\ \A s \in Slot : IsAnsweredMark(ds[s]) => ds[s] = cs[s]
<1>1. \A s \in Slot : ds[s] = cs[s] \/ ds[s] = None \/ ds[s] = LoadCall(t, token, mutes)
      BY DEF CallsFrom
<1>2. ASSUME NEW call, call = None \/ call = LoadCall(t, token, mutes)
      PROVE  /\ ~ IsAnsweredMark(call) /\ \A u, e : ~ IsFetch(call, u, e)
             /\ \A u : IsLoad(call, u) => call.answer = None
      <2>1. CASE call = None
            BY <2>1 DEF IsAnsweredMark, IsFetch, IsLoad
      <2>2. CASE call = LoadCall(t, token, mutes)
            BY <2>2, LoadCallIsLoad
      <2>3. QED BY <1>2, <2>1, <2>2
<1>3. ASSUME NEW u, NEW e, CallsShowRead(u, cs, e), NEW s \in Slot
      PROVE  /\ IsLoad(ds[s], u) /\ ds[s].answer # None => ShownRead(ds[s].answer.items, e)
             /\ ~ IsFetch(ds[s], u, e)
      <2>1. CASE ds[s] = cs[s]
            BY <1>3, <2>1 DEF CallsShowRead
      <2>2. CASE ds[s] = None \/ ds[s] = LoadCall(t, token, mutes)
            BY <1>2, <2>2
      <2>3. QED BY <1>1, <2>1, <2>2
<1>4. ASSUME NEW s \in Slot, IsAnsweredMark(ds[s])
      PROVE  ds[s] = cs[s]
      BY <1>1, <1>2, <1>4
<1>5. QED BY <1>3, <1>4 DEF CallsShowRead

(* A list after a mark, or with what is added to it.                       *)
LEMMA MarkedIsShown ==
    ASSUME NEW raw, NEW mark, NEW l, MarksList(raw, mark, l), NEW e
    PROVE  ShownRead(raw, e) \/ Selected(mark, e) => ShownRead(l, e)
BY DEF MarksList, ShownRead

(* A step that sets one call.                                              *)
LEMMA CallsWithOneCall ==
    ASSUME NEW s \in Slot, NEW call, OneCall(s, call), NEW t, NEW e,
           CallsShowRead(t, calls, e), ~ IsFetch(call, t, e),
           IsLoad(call, t) /\ call.answer # None => ShownRead(call.answer.items, e)
    PROVE  CallsShowRead(t, calls', e)
<1> SUFFICES ASSUME NEW r \in Slot
             PROVE  /\ IsLoad(calls'[r], t) /\ calls'[r].answer # None =>
                          ShownRead(calls'[r].answer.items, e)
                    /\ ~ IsFetch(calls'[r], t, e)
    BY DEF CallsShowRead
<1>1. CASE r = s
      BY <1>1 DEF OneCall
<1>2. CASE r # s
      BY <1>2 DEF OneCall, CallsShowRead
<1>3. QED BY <1>1, <1>2

LEMMA MarksWithOneCall ==
    ASSUME MarksInv, NEW s \in Slot, NEW call, OneCall(s, call),
           UNCHANGED <<messages, read, stale, marked, tlms, link, rawList>>,
           \A t, e : ~ IsFetch(call, t, e),
           \A t \in Tab : IsLoad(call, t) /\ call.answer # None =>
              \A e \in read : ShownRead(call.answer.items, e)
    PROVE  MarksInv'
<1> SUFFICES ASSUME NEW t \in Tab
             PROVE  TabMarks(t, messages', read', stale'[t], marked'[t], tlms', link',
                             rawList'[t], calls')
    BY DEF MarksInv
<1>1. TabMarks(t, messages, read, stale[t], marked[t], tlms, link, rawList[t], calls)
      BY DEF MarksInv
<1>2. ASSUME NEW e \in read, CallsShowRead(t, calls, e)
      PROVE  CallsShowRead(t, calls', e)
      BY <1>2, CallsWithOneCall
<1>3. TabMarks(t, messages, read, stale[t], marked[t], tlms, link, rawList[t], calls')
      BY <1>1, <1>2 DEF TabMarks
<1>4. QED BY <1>3

(* A step that sets one call leaves what the marks have to tell.           *)
LEMMA MarkCallsWithOneCall ==
    ASSUME MarkCallsInv, NEW s \in Slot, NEW call, OneCall(s, call), ~ IsAnsweredMark(call),
           UNCHANGED <<messages, read>>
    PROVE  MarkCallsInv'
<1> SUFFICES ASSUME NEW r \in Slot, IsAnsweredMark(calls'[r])
             PROVE  MarkIsTold(calls'[r], messages', read')
    BY DEF MarkCallsInv
<1>1. r # s
      BY DEF OneCall
<1>2. calls'[r] = calls[r]
      BY <1>1 DEF OneCall
<1>3. MarkIsTold(calls[r], messages, read)
      BY <1>2 DEF MarkCallsInv
<1>4. QED BY <1>2, <1>3

-----------------------------------------------------------------------------
(* What a step leaves of a tab when the messages and what is read and      *)
(* stale stay.                                                             *)
Nothing(t, tl, lk, cs, e) == CallsShowRead(t, cs, e) /\ NotTold(t, tl, lk, e)

LEMMA MarksOfTab ==
    ASSUME NEW t, NEW ms, NEW rd, NEW st, NEW mk, NEW tl, NEW lk, NEW raw, NEW cs,
           TabMarks(t, ms, rd, st, mk, tl, lk, raw, cs),
           NEW now, NEW left, NEW links, NEW more, NEW ds,
           now \subseteq rd,
           \A e \in rd \ st : Nothing(t, tl, lk, cs, e) => Nothing(t, left, links, ds, e),
           \A e \in now \ st :
              Nothing(t, tl, lk, cs, e) /\ (e \in mk => MarkReaches(t, ms, lk, raw, e)) =>
                 MarkReaches(t, ms, links, more, e)
    PROVE  TabMarks(t, ms, rd, st, now, left, links, more, ds)
<1>1. \A e \in rd \ st : Nothing(t, tl, lk, cs, e) /\ Nothing(t, left, links, ds, e)
      BY DEF TabMarks, Nothing
<1>2. \A e \in now \ st : MarkReaches(t, ms, links, more, e)
      <2> SUFFICES ASSUME NEW e \in now \ st PROVE MarkReaches(t, ms, links, more, e)
          OBVIOUS
      <2>1. Nothing(t, tl, lk, cs, e)
            BY <1>1
      <2>2. e \in mk => MarkReaches(t, ms, lk, raw, e)
            BY DEF TabMarks
      <2>3. QED BY <2>1, <2>2
<1>3. QED BY <1>1, <1>2 DEF TabMarks, Nothing

(* An item selects the same messages when they are about the same          *)
(* contents.                                                               *)
LEMMA SameMessages ==
    ASSUME NEW n, NEW ms, NEW news, \A e \in 1..n : news[e] = ms[e], NEW e \in 1..n
    PROVE  /\ \A item : Selects(news, item, e) <=> Selects(ms, item, e)
           /\ \A t, lk, raw : MarkReaches(t, ms, lk, raw, e) => MarkReaches(t, news, lk, raw, e)
<1>1. \A item : Selects(news, item, e) <=> Selects(ms, item, e)
      BY DEF Selects
<1>2. QED BY <1>1 DEF MarkReaches, MarkComes

(* A new message is not read, and no mark that was made selects it as one  *)
(* of those it covers.                                                     *)
LEMMA MarksWhenSomeoneActs ==
    ASSUME NEW n \in Nat, Types(n), MarksInv, MarkCallsInv, SomeoneActs
    PROVE  MarksInv' /\ MarkCallsInv'
<1>1. /\ \A e \in 1..n : messages'[e] = messages[e]
      /\ tlms' = Append(tlms, [kind |-> "message", event |-> n + 1])
      BY SomeoneActsTypes
<1>2. UNCHANGED <<read, stale, marked, link, rawList, calls>>
      BY DEF SomeoneActs, storeVars, historyVars
<1>3. /\ read \in SUBSET (1..n) /\ tlms \in Seq(Tlm(n))
      /\ stale \in [Tab -> SUBSET (1..n)] /\ marked \in [Tab -> SUBSET (1..n)]
      BY DEF Types, MessageTypes, HistoryTypes
<1>4. \A i \in DOMAIN tlms' : tlms'[i].event = n + 1 \/ \E j \in DOMAIN tlms : tlms'[i] = tlms[j]
      <2>1. PICK item : item = [kind |-> "message", event |-> n + 1]
            OBVIOUS
      <2>2. PICK S : S = Tlm(n) \cup {item}
            OBVIOUS
      <2>3. tlms \in Seq(S) /\ item \in S
            <3>1. Tlm(n) \subseteq S
                  BY <2>2
            <3>2. QED BY <1>3, <2>2, <3>1, SeqMonotonic
      <2>4. /\ DOMAIN tlms' = 1..(Len(tlms) + 1) /\ DOMAIN tlms = 1..Len(tlms) /\ Len(tlms) \in Nat
            /\ tlms'[Len(tlms) + 1] = item /\ \A i \in 1..Len(tlms) : tlms'[i] = tlms[i]
            BY <1>1, <2>1, <2>3, AppendProperties, LenProperties
      <2>5. QED BY <2>1, <2>4
<1>5. MarksInv'
      <2> SUFFICES ASSUME NEW t \in Tab
                   PROVE  TabMarks(t, messages', read', stale'[t], marked'[t], tlms', link',
                                   rawList'[t], calls')
          BY DEF MarksInv
      <2>1. TabMarks(t, messages, read, stale[t], marked[t], tlms, link, rawList[t], calls)
            BY DEF MarksInv
      <2>2. ASSUME NEW e \in read \ stale[t]
            PROVE  CallsShowRead(t, calls, e) /\ NotTold(t, tlms', link, e)
            <3>1. CallsShowRead(t, calls, e) /\ NotTold(t, tlms, link, e) /\ e # n + 1
                  BY <1>3, <2>1 DEF TabMarks
            <3>2. QED BY <1>4, <3>1 DEF NotTold
      <2>3. ASSUME NEW e \in marked[t] \ stale[t]
            PROVE  MarkReaches(t, messages', link, rawList[t], e)
            <3>1. e \in 1..n /\ MarkReaches(t, messages, link, rawList[t], e)
                  BY <1>3, <2>1 DEF TabMarks
            <3>2. QED BY <1>1, <3>1, SameMessages
      <2>4. TabMarks(t, messages', read, stale[t], marked[t], tlms', link, rawList[t], calls)
            BY <2>1, <2>2, <2>3 DEF TabMarks
      <2>5. QED BY <1>2, <2>4
<1>6. MarkCallsInv'
      <2> SUFFICES ASSUME NEW s \in Slot, IsAnsweredMark(calls'[s])
                   PROVE  MarkIsTold(calls'[s], messages', read')
          BY DEF MarkCallsInv
      <2>1. PICK call : call = calls[s]
            OBVIOUS
      <2>2. MarkIsTold(call, messages, read)
            BY <1>2, <2>1 DEF MarkCallsInv
      <2>3. \A e \in call.covered : Selects(messages', call.mark, e)
            <3> SUFFICES ASSUME NEW e \in call.covered PROVE Selects(messages', call.mark, e)
                OBVIOUS
            <3>1. e \in 1..n /\ Selects(messages, call.mark, e)
                  BY <1>3, <2>2 DEF MarkIsTold
            <3>2. QED BY <1>1, <3>1, SameMessages
      <2>4. MarkIsTold(call, messages', read)
            BY <2>2, <2>3 DEF MarkIsTold
      <2>5. QED BY <1>2, <2>1, <2>4
<1>7. QED BY <1>5, <1>6

(* The page that comes behind a list shows as read what is read.           *)
LEMMA MarksAfterLoad ==
    ASSUME NoneIsNoCall, NEW n \in Nat, Types(n), MarksInv, MarkCallsInv, NEW s \in Slot, EndLoad(s)
    PROVE  MarksInv' /\ MarkCallsInv'
<1>1. PICK t \in Tab, page \in Page(n), token \in Token(n) : EndsLoad(s, t, page, token)
      BY EndLoadTypes
<1>2. PICK others, mutes, cs, ds, has, next :
         /\ others = [calls EXCEPT ![s] = None] /\ mutes = muted /\ cs = calls /\ ds = calls'
         /\ has = page.hasNext /\ next = page.token
      OBVIOUS
<1>3. /\ calls \in [Slot -> Call(n)] /\ rawList[t] \in Seq(Noted(n))
      /\ page.items \in Seq(Noted(n))
      BY DEF Types, CallTypes, StoreTypes, Page
<1>4. \A r \in Slot : others[r] = cs[r] \/ others[r] = None
      BY <1>2, <1>3
<1>5. /\ IsLoad(cs[s], t) /\ cs[s].answer = page /\ page # None
      /\ UNCHANGED <<messages, read, tlms, link, marked, stale>>
      /\ rawList'[t] = rawList[t] \o page.items
      /\ \A u \in Tab : u # t => rawList'[u] = rawList[u]
      /\ CallsFrom(t, others, ds, has, next, mutes)
      BY <1>1, <1>2 DEF EndsLoad, messageVars, channelVars, ListsOfOthers
<1>6. /\ \A u, e : CallsShowRead(u, cs, e) => CallsShowRead(u, ds, e)
      /\ \A r \in Slot : IsAnsweredMark(ds[r]) => ds[r] = cs[r]
      BY <1>4, <1>5, CallsAfterRendering
<1>7. MarkCallsInv'
      BY <1>2, <1>5, <1>6 DEF MarkCallsInv
<1>8. MarksInv'
      <2> SUFFICES ASSUME NEW u \in Tab
                   PROVE  TabMarks(u, messages', read', stale'[u], marked'[u], tlms', link',
                                   rawList'[u], calls')
          BY DEF MarksInv
      <2>1. PICK ms, rd, st, mk, tl, lk, raw, more :
               /\ ms = messages /\ rd = read /\ st = stale[u] /\ mk = marked[u] /\ tl = tlms
               /\ lk = link /\ raw = rawList[u] /\ more = rawList'[u]
            OBVIOUS
      <2>2. TabMarks(u, ms, rd, st, mk, tl, lk, raw, cs)
            BY <1>2, <2>1 DEF MarksInv
      <2>3. ASSUME NEW e \in mk \ st, MarkReaches(u, ms, lk, raw, e)
            PROVE  MarkReaches(u, ms, lk, more, e)
            <3>1. CallsShowRead(u, cs, e)
                  BY <2>2 DEF TabMarks
            <3>2. ShownRead(raw, e) => ShownRead(more, e)
                  <4>1. CASE u # t
                        BY <1>5, <2>1, <4>1
                  <4>2. CASE u = t
                        <5>1. ShownRead(page.items, e)
                              BY <1>5, <3>1, <4>2 DEF CallsShowRead
                        <5>2. \A k \in DOMAIN more : \/ \E i \in DOMAIN raw : more[k] = raw[i]
                                                    \/ \E i \in DOMAIN page.items : more[k] = page.items[i]
                              <6>1. PICK items : items = page.items
                                    OBVIOUS
                              <6>2. raw \in Seq(Noted(n)) /\ items \in Seq(Noted(n)) /\ more = raw \o items
                                    BY <1>3, <1>5, <2>1, <4>2, <6>1
                              <6>3. \A k \in DOMAIN (raw \o items) :
                                       \/ \E i \in DOMAIN raw : (raw \o items)[k] = raw[i]
                                       \/ \E i \in DOMAIN items : (raw \o items)[k] = items[i]
                                    BY <6>2, AppendedList
                              <6>4. QED BY <6>1, <6>2, <6>3
                        <5>3. QED BY <5>1, <5>2 DEF ShownRead
                  <4>3. QED BY <4>1, <4>2
            <3>3. QED BY <2>3, <3>2 DEF MarkReaches
      <2>4. mk \subseteq rd /\ \A e \in rd \ st : Nothing(u, tl, lk, cs, e) => Nothing(u, tl, lk, ds, e)
            BY <1>6, <2>2 DEF TabMarks, Nothing
      <2>5. TabMarks(u, ms, rd, st, mk, tl, lk, more, ds)
            BY <2>2, <2>3, <2>4, MarksOfTab
      <2>6. QED BY <1>2, <1>5, <2>1, <2>5
<1>9. QED BY <1>7, <1>8

(* What is not on its way to a tab.                                        *)
LEMMA NotOnTheWay ==
    ASSUME NEW n \in Nat, Types(n), NEW t \in Tab, NEW e, e \notin OnTheWay(t)
    PROVE  CallsShowRead(t, calls, e) /\ NotTold(t, tlms, link, e)
<1> DEFINE answered == {r \in Slot \ FreeIn(calls) : calls[r].op = "load" /\ calls[r].tab = t}
           fetching == {r \in Slot \ FreeIn(calls) : calls[r].op = "fetch" /\ calls[r].tab = t}
           told(w) == {link[<<w, t>>][j].event :
                          j \in {k \in DOMAIN link[<<w, t>>] : link[<<w, t>>][k].kind = "message"}}
           Ids(r) == IdsOf(calls[r].answer.items)
<1>1. \A i \in DOMAIN tlms : tlms[i].event # e
      <2>1. tlms \in Seq(Tlm(n))
            BY DEF Types, MessageTypes
      <2>2. \A i \in DOMAIN tlms : tlms[i] \in Tlm(n)
            BY <2>1, LenProperties
      <2>3. \A i \in DOMAIN tlms : tlms[i].kind = "message"
            BY <2>2 DEF Tlm
      <2>4. QED BY <2>3 DEF OnTheWay
<1>2. ASSUME NEW s \in Slot, IsLoad(calls[s], t), calls[s].answer # None
      PROVE  ShownRead(calls[s].answer.items, e)
      <2>1. s \in {r \in answered : calls[r].answer # None}
            BY <1>2 DEF IsLoad, FreeIn
      <2>2. UNION {Ids(r) : r \in {q \in answered : calls[q].answer # None}} \subseteq OnTheWay(t)
            BY DEF OnTheWay
      <2> HIDE DEF answered, Ids
      <2>3. e \notin Ids(s)
            BY <2>1, <2>2
      <2>4. QED BY <2>3 DEF Ids, ShownRead, IdsOf
<1>3. ASSUME NEW s \in Slot, IsFetch(calls[s], t, e) PROVE FALSE
      <2>1. s \in fetching /\ calls[s].event = e
            BY <1>3 DEF IsFetch, FreeIn
      <2>2. {calls[r].event : r \in fetching} \subseteq OnTheWay(t)
            BY DEF OnTheWay
      <2> HIDE DEF fetching
      <2>3. QED BY <2>1, <2>2
<1>4. ASSUME NEW u \in Tab, NEW i \in DOMAIN link[<<u, t>>], Tells(link[<<u, t>>][i], e)
      PROVE  FALSE
      <2>1. e \in told(u)
            BY <1>4 DEF Tells
      <2>2. UNION {told(w) : w \in Tab} \subseteq OnTheWay(t)
            BY DEF OnTheWay
      <2> HIDE DEF told
      <2>3. QED BY <2>1, <2>2
<1>5. QED BY <1>1, <1>2, <1>3, <1>4 DEF CallsShowRead, NotTold

(* The server marks: what is on its way to a tab, unread, becomes stale    *)
(* there, and nothing else of what is marked comes to it.                  *)
LEMMA MarksAfterPutRead ==
    ASSUME NEW n \in Nat, Types(n), MarksInv, MarkCallsInv, NEW s \in Slot, PutRead(s)
    PROVE  MarksInv' /\ MarkCallsInv'
<1>1. PICK old, covered : old = calls[s] /\ covered = {e \in 1..n : Selected(old.mark, e)}
      OBVIOUS
<1>2. PICK call : call = [old EXCEPT !.phase = "answered", !.covered = covered]
      OBVIOUS
<1>3. /\ old \in MarkCalls(n) /\ read' = read \cup covered /\ OneCall(s, call)
      /\ stale' = [t \in Tab |-> stale[t] \cup (covered \cap OnTheWay(t))]
      /\ UNCHANGED <<messages, tlms, link, rawList, marked>>
      <2>1. /\ calls[s] \in MarkCalls(n)
            /\ read' = read \cup {e \in 1..n : Selected(calls[s].mark, e)}
            /\ OneCall(s, [calls[s] EXCEPT !.phase = "answered",
                                           !.covered = {e \in 1..n : Selected(calls[s].mark, e)}])
            /\ stale' = [t \in Tab |-> stale[t] \cup
                            ({e \in 1..n : Selected(calls[s].mark, e)} \cap OnTheWay(t))]
            BY PutReadTypes
      <2>2. UNCHANGED <<messages, channelVars, storeVars, marked>>
            BY PutReadTypes
      <2>3. UNCHANGED <<messages, tlms, link, rawList, marked>>
            BY <2>2 DEF channelVars, storeVars
      <2>4. covered = {e \in 1..n : Selected(calls[s].mark, e)}
            BY <1>1
      <2>5. QED BY <1>1, <1>2, <2>1, <2>3, <2>4
<1>4. call.op = "mark" /\ call.mark = old.mark /\ call.covered = covered /\ call.mark \in Mark
      BY <1>2, <1>3 DEF MarkCalls
<1>5. \A t \in Tab : stale'[t] = stale[t] \cup (covered \cap OnTheWay(t))
      BY <1>3
<1>6. MarksInv'
      <2> SUFFICES ASSUME NEW t \in Tab
                   PROVE  TabMarks(t, messages', read', stale'[t], marked'[t], tlms', link',
                                   rawList'[t], calls')
          BY DEF MarksInv
      <2>1. TabMarks(t, messages, read, stale[t], marked[t], tlms, link, rawList[t], calls)
            BY DEF MarksInv
      <2>2. ASSUME NEW e \in read' \ stale'[t]
            PROVE  CallsShowRead(t, calls', e) /\ NotTold(t, tlms, link, e)
            <3>1. CallsShowRead(t, calls, e) /\ NotTold(t, tlms, link, e)
                  <4>1. CASE e \in read
                        BY <1>5, <2>1, <2>2, <4>1 DEF TabMarks
                  <4>2. CASE e \notin read
                        <5>1. e \notin OnTheWay(t)
                              BY <1>3, <1>5, <2>2, <4>2
                        <5>2. QED BY <5>1, NotOnTheWay
                  <4>3. QED BY <4>1, <4>2
            <3>2. ~ IsFetch(call, t, e) /\ ~ IsLoad(call, t)
                  BY <1>4 DEF IsLoad, IsFetch
            <3>3. QED BY <1>3, <3>1, <3>2, CallsWithOneCall
      <2>3. marked[t] \subseteq read' /\ marked[t] \ stale'[t] \subseteq marked[t] \ stale[t]
            BY <1>3, <1>5, <2>1 DEF TabMarks
      <2>4. TabMarks(t, messages, read', stale'[t], marked[t], tlms, link, rawList[t], calls')
            BY <2>1, <2>2, <2>3 DEF TabMarks
      <2>5. QED BY <1>3, <2>4
<1>7. MarkIsTold(call, messages, read')
      <2>1. call.covered \subseteq read'
            BY <1>3, <1>4
      <2>2. \A e \in call.covered : Selects(messages, call.mark, e)
            <3>1. call.mark.kind # "message"
                  BY <1>4 DEF Mark
            <3>2. QED BY <1>1, <1>4, <3>1 DEF Selects, Selected
      <2>3. QED BY <2>1, <2>2 DEF MarkIsTold
<1>8. MarkCallsInv'
      <2> SUFFICES ASSUME NEW r \in Slot, IsAnsweredMark(calls'[r])
                   PROVE  MarkIsTold(calls'[r], messages', read')
          BY DEF MarkCallsInv
      <2>1. CASE r = s
            BY <1>3, <1>7, <2>1 DEF OneCall
      <2>2. CASE r # s
            <3>1. PICK one : one = calls[r]
                  OBVIOUS
            <3>2. calls'[r] = one /\ MarkIsTold(one, messages, read)
                  BY <1>3, <2>2, <3>1 DEF OneCall, MarkCallsInv
            <3>3. read \subseteq read'
                  BY <1>3
            <3>4. MarkIsTold(one, messages, read')
                  BY <3>2, <3>3 DEF MarkIsTold
            <3>5. QED BY <1>3, <3>2, <3>4
      <2>3. QED BY <2>1, <2>2
<1>9. QED BY <1>6, <1>8

-----------------------------------------------------------------------------
(* A mark is answered: the tab that asked marks its list, and tells the    *)
(* others.                                                                 *)
ToldLink(t, mark, here, u, v, old, new) ==
    \/ ~here /\ u = t /\ v # t /\ new = Append(old, mark)
    \/ (here \/ u # t \/ v = t) /\ new = old

(* What Told adds to the channels.                                         *)
LEMMA ToldLinks ==
    ASSUME NEW t \in Tab, NEW mark, NEW here, Told(t, mark, here)
    PROVE  \A u, v \in Tab : ToldLink(t, mark, here, u, v, link[<<u, v>>], link'[<<u, v>>])
<1> SUFFICES ASSUME NEW u \in Tab, NEW v \in Tab
             PROVE  ToldLink(t, mark, here, u, v, link[<<u, v>>], link'[<<u, v>>])
    OBVIOUS
<1> DEFINE p == <<u, v>>
<1>1. p \in Tab \X Tab /\ p[1] = u /\ p[2] = v
      OBVIOUS
<1> HIDE DEF p
<1>2. CASE here
      BY <1>2 DEF Told, ToldLink
<1>3. CASE ~here
      <2>1. link' = [q \in Tab \X Tab |-> IF q[1] = t /\ q[2] # t THEN Append(link[q], mark) ELSE link[q]]
            BY <1>3 DEF Told
      <2>2. link'[p] = IF u = t /\ v # t THEN Append(link[p], mark) ELSE link[p]
            BY <1>1, <2>1
      <2>3. QED BY <1>1, <1>3, <2>2 DEF p, ToldLink
<1>4. QED BY <1>2, <1>3 DEF p

(* The tab that asked shows what its mark covers, and the others are told. *)
LEMMA MarksAfterAnswer ==
    ASSUME NoneIsNoCall, NEW n \in Nat, Types(n), MarksInv, MarkCallsInv, NEW s \in Slot, MarkAnswered(s)
    PROVE  MarksInv' /\ MarkCallsInv'
<1>1. PICK call, others, cs, ds, has, token, mutes :
         /\ call = calls[s] /\ others = [calls EXCEPT ![s] = None] /\ cs = calls /\ ds = calls'
         /\ has = hasNextPage[call.tab] /\ token = nextPageToken[call.tab] /\ mutes = muted
      OBVIOUS
<1>2. /\ call # None /\ call \in MarkCalls(n) /\ call.phase = "answered"
      /\ MarkIsSeen(call.tab, call.mark, others) /\ Told(call.tab, call.mark, call.here)
      /\ marked' = [t \in Tab |-> IF call.here /\ t # call.tab THEN marked[t]
                                  ELSE marked[t] \cup call.covered]
      /\ UNCHANGED <<messageVars, tlms, marks, firstRead, handled, stale>>
      BY <1>1, MarkAnsweredTypes
<1>3. PICK from, mark, here, covered :
         from = call.tab /\ mark = call.mark /\ here = call.here /\ covered = call.covered
      OBVIOUS
<1>4. /\ from \in Tab /\ mark \in Mark /\ here \in BOOLEAN
      /\ covered \in SUBSET (1..n) /\ call.op = "mark"
      BY <1>2, <1>3 DEF MarkCalls
<1>5. /\ MarksList(rawList[from], mark, rawList'[from])
      /\ \A u \in Tab : u # from => rawList'[u] = rawList[u]
      /\ CallsFrom(from, others, ds, has, token, mutes)
      /\ UNCHANGED <<messages, read, tlms, stale>>
      BY <1>1, <1>2, <1>3 DEF MarkIsSeen, ListsOfOthers, messageVars
<1>6. /\ calls \in [Slot -> Call(n)] /\ link \in [Tab \X Tab -> Seq(Tlm(n) \cup Mark)]
      /\ marked \in [Tab -> SUBSET (1..n)]
      BY DEF Types, CallTypes, MessageTypes, HistoryTypes
<1>7. \A r \in Slot : others[r] = cs[r] \/ others[r] = None
      BY <1>1, <1>6
<1>8. /\ \A u, e : CallsShowRead(u, cs, e) => CallsShowRead(u, ds, e)
      /\ \A r \in Slot : IsAnsweredMark(ds[r]) => ds[r] = cs[r]
      BY <1>5, <1>7, CallsAfterRendering
<1>9. covered \subseteq read /\ \A e \in covered : Selects(messages, mark, e) /\ Selected(mark, e)
      <2>1. MarkIsTold(call, messages, read)
            BY <1>1, <1>2, <1>4 DEF MarkCallsInv, IsAnsweredMark
      <2>2. QED BY <1>3, <2>1 DEF MarkIsTold, Selects, Selected
<1>10. \A u, v \in Tab :
          \/ /\ ~here /\ u = from /\ v # from
             /\ link'[<<u, v>>] = Append(link[<<u, v>>], mark)
          \/ (here \/ u # from \/ v = from) /\ link'[<<u, v>>] = link[<<u, v>>]
       <2>1. Told(from, mark, here)
             BY <1>2, <1>3
       <2>2. \A u, v \in Tab : ToldLink(from, mark, here, u, v, link[<<u, v>>], link'[<<u, v>>])
             BY <1>4, <2>1, ToldLinks
       <2>3. QED BY <2>2 DEF ToldLink
<1>11. \A e : ~ Tells(mark, e)
       BY <1>4 DEF Tells, Mark
<1>12. \A u, v \in Tab : link[<<u, v>>] \in Seq(Tlm(n) \cup Mark) /\ mark \in Tlm(n) \cup Mark
       BY <1>4, <1>6
<1>13. ASSUME NEW u \in Tab, NEW t \in Tab, NEW e
       PROVE  /\ (\E j \in DOMAIN link[<<u, t>>] : Selects(messages, link[<<u, t>>][j], e)) =>
                    \E j \in DOMAIN link'[<<u, t>>] : Selects(messages, link'[<<u, t>>][j], e)
              /\ (\E j \in DOMAIN link'[<<u, t>>] : Tells(link'[<<u, t>>][j], e)) =>
                    \E j \in DOMAIN link[<<u, t>>] : Tells(link[<<u, t>>][j], e)
       <2>1. PICK q, r, ms : q = link[<<u, t>>] /\ r = link'[<<u, t>>] /\ ms = messages
             OBVIOUS
       <2>2. CASE r = q
             BY <2>1, <2>2
       <2>3. CASE r = Append(q, mark)
             BY <1>11, <1>12, <2>1, <2>3, ItemAppended
       <2>4. QED BY <1>10, <2>1, <2>2, <2>3
<1>14. MarkCallsInv'
       BY <1>1, <1>5, <1>8 DEF MarkCallsInv
<1>15. MarksInv'
       <2> SUFFICES ASSUME NEW t \in Tab
                    PROVE  TabMarks(t, messages', read', stale'[t], marked'[t], tlms', link',
                                    rawList'[t], calls')
           BY DEF MarksInv
       <2>1. PICK ms, rd, st, mk, now, tl, lk, links, raw, more :
                /\ ms = messages /\ rd = read /\ st = stale[t] /\ mk = marked[t] /\ now = marked'[t]
                /\ tl = tlms /\ lk = link /\ links = link' /\ raw = rawList[t] /\ more = rawList'[t]
             OBVIOUS
       <2>2. TabMarks(t, ms, rd, st, mk, tl, lk, raw, cs)
             BY <1>1, <2>1 DEF MarksInv
       <2>3. /\ now = IF here /\ t # from THEN mk ELSE mk \cup covered
             /\ now \subseteq rd
             BY <1>2, <1>3, <1>9, <2>1, <2>2 DEF TabMarks
       <2>4. ASSUME NEW e, Nothing(t, tl, lk, cs, e)
             PROVE  Nothing(t, tl, links, ds, e)
             BY <1>8, <1>13, <2>1, <2>4 DEF Nothing, NotTold
       <2>5. ASSUME NEW e, MarkReaches(t, ms, lk, raw, e)
             PROVE  MarkReaches(t, ms, links, more, e)
             <3>1. ShownRead(raw, e) => ShownRead(more, e)
                   <4>1. CASE t = from
                         BY <1>5, <2>1, <4>1, MarkedIsShown
                   <4>2. CASE t # from
                         BY <1>5, <2>1, <4>2
                   <4>3. QED BY <4>1, <4>2
             <3>2. MarkComes(t, ms, lk, e) => MarkComes(t, ms, links, e)
                   BY <1>13, <2>1 DEF MarkComes
             <3>3. QED BY <2>5, <3>1, <3>2 DEF MarkReaches
       <2>6. ASSUME NEW e \in covered, ~here \/ t = from
             PROVE  MarkReaches(t, ms, links, more, e)
             <3>1. CASE t = from
                   <4>1. ShownRead(more, e)
                         BY <1>5, <1>9, <2>1, <3>1, MarkedIsShown
                   <4>2. QED BY <4>1 DEF MarkReaches
             <3>2. CASE t # from
                   <4>1. links[<<from, t>>] = Append(lk[<<from, t>>], mark)
                         BY <1>4, <1>10, <2>1, <2>6, <3>2
                   <4>2. \E j \in DOMAIN links[<<from, t>>] : Selects(ms, links[<<from, t>>][j], e)
                         <5>1. PICK q : q = lk[<<from, t>>] /\ q \in Seq(Tlm(n) \cup Mark)
                               BY <1>4, <1>12, <2>1
                         <5>2. Selects(ms, mark, e)
                               BY <1>9, <2>1
                         <5>3. QED BY <1>12, <4>1, <5>1, <5>2, ItemAppended
                   <4>3. QED BY <1>4, <4>2 DEF MarkReaches, MarkComes
             <3>3. QED BY <3>1, <3>2
       <2>7. \A e \in now \ st : (e \in mk => MarkReaches(t, ms, lk, raw, e)) =>
                                    MarkReaches(t, ms, links, more, e)
             BY <2>3, <2>5, <2>6
       <2>8. TabMarks(t, ms, rd, st, now, tl, links, more, ds)
             BY <2>2, <2>3, <2>4, <2>7, MarksOfTab
       <2>9. QED BY <1>1, <1>5, <2>1, <2>8
<1>16. QED BY <1>14, <1>15

(* A live message that is added, or waits for its content, leaves the      *)
(* other messages as they were.                                            *)
LEMMA TlmLeaves ==
    ASSUME NoneIsNoCall, NEW t \in Tab, NEW d, NEW others,
           \A s \in Slot : others[s] = calls[s] \/ others[s] = None,
           TlmIsSeen(t, d, others) \/ TlmWaits(t, d)
    PROVE  /\ \A v \in Tab : \A e : v # t \/ e # d =>
                 /\ ShownRead(rawList[v], e) => ShownRead(rawList'[v], e)
                 /\ CallsShowRead(v, calls, e) => CallsShowRead(v, calls', e)
           /\ \A s \in Slot : IsAnsweredMark(calls'[s]) => calls'[s] = calls[s]
<1>1. CASE TlmIsSeen(t, d, others)
      <2>1. PICK cs, ds, has, token, mutes :
               /\ cs = calls /\ ds = calls'
               /\ has = hasNextPage[t] /\ token = nextPageToken[t] /\ mutes = muted
            OBVIOUS
      <2>2. CallsFrom(t, others, ds, has, token, mutes)
            BY <1>1, <2>1 DEF TlmIsSeen
      <2>3. /\ \A v, e : CallsShowRead(v, cs, e) => CallsShowRead(v, ds, e)
            /\ \A s \in Slot : IsAnsweredMark(ds[s]) => ds[s] = cs[s]
            BY <2>1, <2>2, CallsAfterRendering
      <2>4. ASSUME NEW v \in Tab, NEW e, v # t \/ e # d, ShownRead(rawList[v], e)
            PROVE  ShownRead(rawList'[v], e)
            <3>1. CASE v # t
                  BY <1>1, <2>4, <3>1 DEF TlmIsSeen, ListsOfOthers
            <3>2. CASE v = t
                  <4>1. \A k \in DOMAIN rawList'[t] :
                           \/ rawList'[t][k].id = d
                           \/ \E i \in DOMAIN rawList[t] : rawList'[t][k] = rawList[t][i]
                        BY <1>1 DEF TlmIsSeen
                  <4>2. QED BY <2>4, <3>2, <4>1 DEF ShownRead
            <3>3. QED BY <3>1, <3>2
      <2>5. QED BY <2>1, <2>3, <2>4
<1>2. CASE TlmWaits(t, d)
      <2>1. PICK call : call = [op |-> "fetch", tab |-> t, event |-> d]
            OBVIOUS
      <2>2. PICK s \in Slot : OneCall(s, call)
            BY <1>2, <2>1 DEF TlmWaits
      <2>3. /\ ~ IsAnsweredMark(call) /\ \A v : ~ IsLoad(call, v)
            /\ \A v, e : v # t \/ e # d => ~ IsFetch(call, v, e)
            BY <2>1 DEF IsAnsweredMark, IsLoad, IsFetch
      <2>4. rawList' = rawList
            BY <1>2 DEF TlmWaits, storeVars
      <2>5. \A v \in Tab : \A e : v # t \/ e # d =>
               (CallsShowRead(v, calls, e) => CallsShowRead(v, calls', e))
            BY <2>2, <2>3, CallsWithOneCall
      <2>6. \A r \in Slot : IsAnsweredMark(calls'[r]) => calls'[r] = calls[r]
            BY <2>2, <2>3 DEF OneCall
      <2>7. QED BY <2>4, <2>5, <2>6
<1>3. QED BY <1>1, <1>2

(* The tab that leads receives a live message: nobody has it as read, but  *)
(* those to whom it was on its way.                                        *)
LEMMA MarksAfterTlm ==
    ASSUME NoneIsNoCall, NEW n \in Nat, Types(n), MarksInv, MarkCallsInv, ReceiveTlm
    PROVE  MarksInv' /\ MarkCallsInv'
<1>1. PICK item, d, cs, ds : item = Head(tlms) /\ d = item.event /\ cs = calls /\ ds = calls'
      OBVIOUS
<1>2. /\ Leader \in Tab /\ tlms # <<>> /\ item \in Tlm(n) /\ TlmIsHandled(Leader, d)
      /\ tlms' = Tail(tlms)
      /\ link' = [p \in Tab \X Tab |->
                    IF p[1] = Leader /\ p[2] # Leader THEN Append(link[p], item) ELSE link[p]]
      /\ UNCHANGED <<messageVars, marks, firstRead, marked, stale>>
      BY <1>1, ReceiveTlmTypes
<1>3. UNCHANGED <<messages, read, marked, stale>>
      BY <1>2 DEF messageVars
<1>4. /\ tlms \in Seq(Tlm(n)) /\ link \in [Tab \X Tab -> Seq(Tlm(n) \cup Mark)]
      BY DEF Types, MessageTypes
<1>5. /\ 1 \in DOMAIN tlms /\ item = tlms[1]
      /\ \A i \in DOMAIN tlms' : \E j \in DOMAIN tlms : tlms'[i] = tlms[j]
      <2>1. /\ item = tlms[1] /\ Len(tlms) \in Nat \ {0} /\ DOMAIN tlms = 1..Len(tlms)
            /\ DOMAIN tlms' = 1..(Len(tlms) - 1)
            /\ \A i \in 1..(Len(tlms) - 1) : tlms'[i] = tlms[i + 1]
            BY <1>1, <1>2, <1>4, HeadOfChannel
      <2>2. \A i \in DOMAIN tlms' : i + 1 \in DOMAIN tlms /\ tlms'[i] = tlms[i + 1]
            BY <2>1
      <2>3. QED BY <2>1, <2>2
<1>6. /\ \A t \in Tab : \A e : t # Leader \/ e # d =>
            /\ ShownRead(rawList[t], e) => ShownRead(rawList'[t], e)
            /\ CallsShowRead(t, cs, e) => CallsShowRead(t, ds, e)
      /\ \A r \in Slot : IsAnsweredMark(ds[r]) => ds[r] = cs[r]
      <2>1. TlmIsSeen(Leader, d, calls) \/ TlmWaits(Leader, d)
            BY <1>2 DEF TlmIsHandled
      <2>2. PICK others : others = calls
            OBVIOUS
      <2>3. QED BY <1>1, <1>2, <2>1, <2>2, TlmLeaves
<1>7. \A u, v \in Tab :
         \/ link'[<<u, v>>] = Append(link[<<u, v>>], item)
         \/ link'[<<u, v>>] = link[<<u, v>>]
      <2> SUFFICES ASSUME NEW u \in Tab, NEW v \in Tab
                   PROVE  \/ link'[<<u, v>>] = Append(link[<<u, v>>], item)
                          \/ link'[<<u, v>>] = link[<<u, v>>]
          OBVIOUS
      <2> DEFINE p == <<u, v>>
      <2>1. p \in Tab \X Tab
            OBVIOUS
      <2> HIDE DEF p
      <2>2. link'[p] = IF p[1] = Leader /\ p[2] # Leader THEN Append(link[p], item) ELSE link[p]
            BY <1>2, <2>1
      <2>3. QED BY <2>1, <2>2 DEF p
<1>8. ASSUME NEW u \in Tab, NEW t \in Tab, NEW e, e # d
      PROVE  /\ (\E j \in DOMAIN link[<<u, t>>] : Selects(messages, link[<<u, t>>][j], e)) =>
                   \E j \in DOMAIN link'[<<u, t>>] : Selects(messages, link'[<<u, t>>][j], e)
             /\ (\E j \in DOMAIN link'[<<u, t>>] : Tells(link'[<<u, t>>][j], e)) =>
                   \E j \in DOMAIN link[<<u, t>>] : Tells(link[<<u, t>>][j], e)
      <2>1. PICK q, r, ms : q = link[<<u, t>>] /\ r = link'[<<u, t>>] /\ ms = messages
            OBVIOUS
      <2>2. CASE r = q
            BY <2>1, <2>2
      <2>3. CASE r = Append(q, item)
            <3>1. ~ Tells(item, e)
                  BY <1>1, <1>8 DEF Tells
            <3>2. q \in Seq(Tlm(n) \cup Mark) /\ item \in Tlm(n) \cup Mark
                  BY <1>2, <1>4, <2>1
            <3>3. QED BY <2>1, <2>3, <3>1, <3>2, ItemAppended
      <2>4. QED BY <1>7, <2>1, <2>2, <2>3
<1>9. MarkCallsInv'
      BY <1>1, <1>3, <1>6 DEF MarkCallsInv
<1>10. MarksInv'
       <2> SUFFICES ASSUME NEW t \in Tab
                    PROVE  TabMarks(t, messages', read', stale'[t], marked'[t], tlms', link',
                                    rawList'[t], calls')
           BY DEF MarksInv
       <2>1. PICK ms, rd, st, mk, tl, left, lk, links, raw, more :
                /\ ms = messages /\ rd = read /\ st = stale[t] /\ mk = marked[t]
                /\ tl = tlms /\ left = tlms' /\ lk = link /\ links = link'
                /\ raw = rawList[t] /\ more = rawList'[t]
             OBVIOUS
       <2>2. TabMarks(t, ms, rd, st, mk, tl, lk, raw, cs)
             BY <1>1, <2>1 DEF MarksInv
       <2>3. ASSUME NEW e, Nothing(t, tl, lk, cs, e)
             PROVE  e # d /\ Nothing(t, left, links, ds, e)
             <3>1. e # d
                   BY <1>1, <1>5, <2>1, <2>3 DEF Nothing, NotTold
             <3>2. CallsShowRead(t, ds, e)
                   BY <1>6, <2>3, <3>1 DEF Nothing
             <3>3. NotTold(t, left, links, e)
                   BY <1>5, <1>8, <2>1, <2>3, <3>1 DEF Nothing, NotTold
             <3>4. QED BY <3>1, <3>2, <3>3 DEF Nothing
       <2>4. ASSUME NEW e, e # d, MarkReaches(t, ms, lk, raw, e)
             PROVE  MarkReaches(t, ms, links, more, e)
             <3>1. MarkComes(t, ms, lk, e) => MarkComes(t, ms, links, e)
                   BY <1>8, <2>1, <2>4 DEF MarkComes
             <3>2. ShownRead(raw, e) => ShownRead(more, e)
                   BY <1>6, <2>1, <2>4
             <3>3. QED BY <2>4, <3>1, <3>2 DEF MarkReaches
       <2>5. mk \subseteq rd
             BY <2>2 DEF TabMarks
       <2>6. TabMarks(t, ms, rd, st, mk, left, links, more, ds)
             BY <2>2, <2>3, <2>4, <2>5, MarksOfTab
       <2>7. QED BY <1>1, <1>3, <2>1, <2>6
<1>11. QED BY <1>9, <1>10

(* A content a tab waited for comes: the message is none that is marked.   *)
LEMMA MarksAfterFetch ==
    ASSUME NoneIsNoCall, NEW n \in Nat, Types(n), MarksInv, MarkCallsInv, NEW s \in Slot, EndFetch(s)
    PROVE  MarksInv' /\ MarkCallsInv'
<1>1. PICK from, d, others, cs, ds :
         /\ from = calls[s].tab /\ d = calls[s].event /\ others = [calls EXCEPT ![s] = None]
         /\ cs = calls /\ ds = calls'
      OBVIOUS
<1>2. /\ calls[s] # None /\ calls[s] \in FetchCalls(n) /\ TlmIsSeen(from, d, others)
      /\ UNCHANGED <<messageVars, channelVars, marks, firstRead, marked, stale>>
      BY <1>1, EndFetchTypes
<1>3. UNCHANGED <<messages, read, tlms, link, marked, stale>>
      BY <1>2 DEF messageVars, channelVars
<1>4. from \in Tab /\ IsFetch(cs[s], from, d)
      BY <1>1, <1>2 DEF FetchCalls, IsFetch
<1>5. \A r \in Slot : others[r] = calls[r] \/ others[r] = None
      <2>1. calls \in [Slot -> Call(n)]
            BY DEF Types, CallTypes
      <2>2. QED BY <1>1, <2>1
<1>6. /\ \A t \in Tab : \A e : t # from \/ e # d =>
            /\ ShownRead(rawList[t], e) => ShownRead(rawList'[t], e)
            /\ CallsShowRead(t, cs, e) => CallsShowRead(t, ds, e)
      /\ \A r \in Slot : IsAnsweredMark(ds[r]) => ds[r] = cs[r]
      <2>1. TlmIsSeen(from, d, others) \/ TlmWaits(from, d)
            BY <1>2
      <2>2. from \in Tab
            BY <1>4
      <2>3. /\ \A t \in Tab : \A e : t # from \/ e # d =>
                  /\ ShownRead(rawList[t], e) => ShownRead(rawList'[t], e)
                  /\ CallsShowRead(t, calls, e) => CallsShowRead(t, calls', e)
            /\ \A r \in Slot : IsAnsweredMark(calls'[r]) => calls'[r] = calls[r]
            BY <1>5, <2>1, <2>2, TlmLeaves
      <2>4. QED BY <1>1, <2>3
<1>7. MarkCallsInv'
      BY <1>1, <1>3, <1>6 DEF MarkCallsInv
<1>8. MarksInv'
      <2> SUFFICES ASSUME NEW t \in Tab
                   PROVE  TabMarks(t, messages', read', stale'[t], marked'[t], tlms', link',
                                   rawList'[t], calls')
          BY DEF MarksInv
      <2>1. PICK ms, rd, st, mk, tl, lk, raw, more :
               /\ ms = messages /\ rd = read /\ st = stale[t] /\ mk = marked[t]
               /\ tl = tlms /\ lk = link /\ raw = rawList[t] /\ more = rawList'[t]
            OBVIOUS
      <2>2. TabMarks(t, ms, rd, st, mk, tl, lk, raw, cs)
            BY <1>1, <2>1 DEF MarksInv
      <2>3. ASSUME NEW e, Nothing(t, tl, lk, cs, e)
            PROVE  /\ Nothing(t, tl, lk, ds, e)
                   /\ MarkReaches(t, ms, lk, raw, e) => MarkReaches(t, ms, lk, more, e)
            <3>1. t # from \/ e # d
                  BY <1>4, <2>3 DEF Nothing, CallsShowRead
            <3>2. CallsShowRead(t, ds, e) /\ (ShownRead(raw, e) => ShownRead(more, e))
                  BY <1>6, <2>1, <2>3, <3>1 DEF Nothing
            <3>3. QED BY <2>3, <3>2 DEF Nothing, MarkReaches
      <2>4. mk \subseteq rd
            BY <2>2 DEF TabMarks
      <2>5. TabMarks(t, ms, rd, st, mk, tl, lk, more, ds)
            BY <2>2, <2>3, <2>4, MarksOfTab
      <2>6. QED BY <1>1, <1>3, <2>1, <2>5
<1>9. QED BY <1>7, <1>8

-----------------------------------------------------------------------------
(* A tab receives what another one says.                                   *)
LEMMA LinkTaken ==
    ASSUME NEW n \in Nat, Types(n), NEW u \in Tab, NEW t \in Tab, NEW q,
           link' = [link EXCEPT ![<<u, t>>] = q]
    PROVE  /\ link'[<<u, t>>] = q
           /\ \A w, v \in Tab : w # u \/ v # t => link'[<<w, v>>] = link[<<w, v>>]
<1>1. link \in [Tab \X Tab -> Seq(Tlm(n) \cup Mark)]
      BY DEF Types, MessageTypes
<1> DEFINE p == <<u, t>>
<1>2. p \in Tab \X Tab /\ \A w, v \in Tab : w # u \/ v # t => <<w, v>> # p
      OBVIOUS
<1>3. \A w, v \in Tab : <<w, v>> \in Tab \X Tab
      OBVIOUS
<1>4. link' = [link EXCEPT ![p] = q]
      OBVIOUS
<1> HIDE DEF p
<1>5. link'[p] = q /\ \A r \in Tab \X Tab : r # p => link'[r] = link[r]
      BY <1>1, <1>2, <1>4
<1>6. QED BY <1>2, <1>3, <1>5 DEF p

(* A tab that hears a live message was not told to mark it; one that hears *)
(* a mark shows it.                                                        *)
LEMMA MarksAfterBroadcast ==
    ASSUME NoneIsNoCall, NEW n \in Nat, Types(n), MarksInv, MarkCallsInv, NEW u \in Tab, NEW t \in Tab,
           BroadcastChannelMessageReceived(u, t)
    PROVE  MarksInv' /\ MarkCallsInv'
<1>1. PICK q, item, r, cs, ds, has, token, mutes :
         /\ q = link[<<u, t>>] /\ item = Head(q) /\ r = Tail(q) /\ cs = calls /\ ds = calls'
         /\ has = hasNextPage[t] /\ token = nextPageToken[t] /\ mutes = muted
      OBVIOUS
<1>2. /\ q # <<>>
      /\ \/ item \in Tlm(n) /\ TlmIsHandled(t, item.event)
         \/ item \in Mark /\ MarkIsSeen(t, item, cs)
      /\ link' = [link EXCEPT ![<<u, t>>] = r]
      /\ UNCHANGED <<messageVars, tlms, marks, firstRead, marked, stale>>
      <2>1. /\ link[<<u, t>>] # <<>>
            /\ \/ Head(link[<<u, t>>]) \in Tlm(n) /\ TlmIsHandled(t, Head(link[<<u, t>>]).event)
               \/ Head(link[<<u, t>>]) \in Mark /\ MarkIsSeen(t, Head(link[<<u, t>>]), calls)
            /\ link' = [link EXCEPT ![<<u, t>>] = Tail(link[<<u, t>>])]
            /\ UNCHANGED <<messageVars, tlms, marks, firstRead, marked, stale>>
            BY BroadcastTypes
      <2>2. QED BY <1>1, <2>1
<1>3. q \in Seq(Tlm(n) \cup Mark)
      <2>1. link \in [Tab \X Tab -> Seq(Tlm(n) \cup Mark)] /\ <<u, t>> \in Tab \X Tab
            BY DEF Types, MessageTypes
      <2>2. QED BY <1>1, <2>1
<1>4. UNCHANGED <<messages, read, tlms, marked, stale>>
      BY <1>2 DEF messageVars
<1>5. /\ link'[<<u, t>>] = r
      /\ \A w, v \in Tab : w # u \/ v # t => link'[<<w, v>>] = link[<<w, v>>]
      BY <1>2, LinkTaken
<1>6. \A ms, e :
         /\ (\E j \in DOMAIN q : Selects(ms, q[j], e)) =>
               Selects(ms, item, e) \/ \E j \in DOMAIN r : Selects(ms, r[j], e)
         /\ (\E j \in DOMAIN r : Tells(r[j], e)) => \E j \in DOMAIN q : Tells(q[j], e)
         /\ Tells(item, e) => \E j \in DOMAIN q : Tells(q[j], e)
      BY <1>1, <1>2, <1>3, ItemReceived
<1>7. /\ \A v \in Tab : \A e : v # t \/ ~ Tells(item, e) =>
            /\ ShownRead(rawList[v], e) => ShownRead(rawList'[v], e)
            /\ CallsShowRead(v, cs, e) => CallsShowRead(v, ds, e)
            /\ v = t /\ Selects(messages, item, e) => ShownRead(rawList'[v], e)
      /\ \A s \in Slot : IsAnsweredMark(ds[s]) => ds[s] = cs[s]
      <2>1. CASE item \in Tlm(n) /\ TlmIsHandled(t, item.event)
            <3>1. PICK d, others : d = item.event /\ others = calls
                  OBVIOUS
            <3>2. TlmIsSeen(t, d, others) \/ TlmWaits(t, d)
                  BY <2>1, <3>1 DEF TlmIsHandled
            <3>3. /\ \A v \in Tab : \A e : v # t \/ e # d =>
                        /\ ShownRead(rawList[v], e) => ShownRead(rawList'[v], e)
                        /\ CallsShowRead(v, cs, e) => CallsShowRead(v, ds, e)
                  /\ \A s \in Slot : IsAnsweredMark(ds[s]) => ds[s] = cs[s]
                  BY <1>1, <3>1, <3>2, TlmLeaves
            <3>4. item.kind = "message"
                  BY <2>1 DEF Tlm
            <3>5. \A e : (Tells(item, e) <=> e = d) /\ ~ Selects(messages, item, e)
                  BY <3>1, <3>4 DEF Tells, Selects
            <3>6. QED BY <3>3, <3>5
      <2>2. CASE item \in Mark /\ MarkIsSeen(t, item, cs)
            <3>1. /\ MarksList(rawList[t], item, rawList'[t])
                  /\ \A v \in Tab : v # t => rawList'[v] = rawList[v]
                  /\ CallsFrom(t, cs, ds, has, token, mutes)
                  BY <1>1, <2>2 DEF MarkIsSeen, ListsOfOthers
            <3>2. /\ \A v, e : CallsShowRead(v, cs, e) => CallsShowRead(v, ds, e)
                  /\ \A s \in Slot : IsAnsweredMark(ds[s]) => ds[s] = cs[s]
                  BY <3>1, CallsAfterRendering
            <3>3. \A e : Selects(messages, item, e) => Selected(item, e)
                  BY DEF Selects, Selected
            <3>4. PICK old, new : old = rawList[t] /\ new = rawList'[t]
                  OBVIOUS
            <3>5. \A e : ShownRead(old, e) \/ Selected(item, e) => ShownRead(new, e)
                  BY <3>1, <3>4, MarkedIsShown
            <3>6. \A e : ShownRead(rawList[t], e) \/ Selects(messages, item, e) => ShownRead(rawList'[t], e)
                  BY <3>3, <3>4, <3>5
            <3>7. QED BY <3>1, <3>2, <3>6
      <2>3. QED BY <1>2, <2>1, <2>2
<1>8. MarkCallsInv'
      BY <1>1, <1>4, <1>7 DEF MarkCallsInv
<1>9. MarksInv'
      <2> SUFFICES ASSUME NEW v \in Tab
                   PROVE  TabMarks(v, messages', read', stale'[v], marked'[v], tlms', link',
                                   rawList'[v], calls')
          BY DEF MarksInv
      <2>1. PICK ms, rd, st, mk, tl, lk, links, raw, more :
               /\ ms = messages /\ rd = read /\ st = stale[v] /\ mk = marked[v]
               /\ tl = tlms /\ lk = link /\ links = link'
               /\ raw = rawList[v] /\ more = rawList'[v]
            OBVIOUS
      <2>2. TabMarks(v, ms, rd, st, mk, tl, lk, raw, cs)
            BY <1>1, <2>1 DEF MarksInv
      <2>3. \A w \in Tab : w # u \/ v # t => links[<<w, v>>] = lk[<<w, v>>]
            BY <1>5, <2>1
      <2>4. v = t => lk[<<u, v>>] = q /\ links[<<u, v>>] = r
            BY <1>1, <1>5, <2>1
      <2>5. ASSUME NEW e, Nothing(v, tl, lk, cs, e)
            PROVE  /\ v # t \/ ~ Tells(item, e)
                   /\ Nothing(v, tl, links, ds, e)
            <3>1. v # t \/ ~ Tells(item, e)
                  BY <1>6, <2>4, <2>5 DEF Nothing, NotTold
            <3>2. CallsShowRead(v, ds, e)
                  BY <1>7, <2>5, <3>1 DEF Nothing
            <3>3. ASSUME NEW w \in Tab, NEW i \in DOMAIN links[<<w, v>>], Tells(links[<<w, v>>][i], e)
                  PROVE  FALSE
                  <4>1. \A k \in DOMAIN lk[<<w, v>>] : ~ Tells(lk[<<w, v>>][k], e)
                        BY <2>5 DEF Nothing, NotTold
                  <4>2. CASE w # u \/ v # t
                        BY <2>3, <3>3, <4>1, <4>2
                  <4>3. CASE w = u /\ v = t
                        BY <1>6, <2>4, <3>3, <4>1, <4>3
                  <4>4. QED BY <4>2, <4>3
            <3>4. NotTold(v, tl, links, e)
                  BY <2>5, <3>3 DEF Nothing, NotTold
            <3>5. QED BY <3>1, <3>2, <3>4 DEF Nothing
      <2>6. ASSUME NEW e, v # t \/ ~ Tells(item, e), MarkReaches(v, ms, lk, raw, e)
            PROVE  MarkReaches(v, ms, links, more, e)
            <3>1. CASE ShownRead(raw, e)
                  BY <1>7, <2>1, <2>6, <3>1 DEF MarkReaches
            <3>2. ASSUME NEW w \in Tab, \E j \in DOMAIN lk[<<w, v>>] : Selects(ms, lk[<<w, v>>][j], e)
                  PROVE  MarkReaches(v, ms, links, more, e)
                  <4>1. CASE w # u \/ v # t
                        BY <2>3, <3>2, <4>1 DEF MarkReaches, MarkComes
                  <4>2. CASE w = u /\ v = t
                        <5>1. Selects(ms, item, e) \/ \E j \in DOMAIN r : Selects(ms, r[j], e)
                              BY <1>6, <2>4, <3>2, <4>2
                        <5>2. CASE Selects(ms, item, e)
                              BY <1>7, <2>1, <2>6, <4>2, <5>2 DEF MarkReaches
                        <5>3. CASE \E j \in DOMAIN r : Selects(ms, r[j], e)
                              BY <2>4, <4>2, <5>3 DEF MarkReaches, MarkComes
                        <5>4. QED BY <5>1, <5>2, <5>3
                  <4>3. QED BY <4>1, <4>2
            <3>3. QED BY <2>6, <3>1, <3>2 DEF MarkReaches, MarkComes
      <2>7. mk \subseteq rd
            BY <2>2 DEF TabMarks
      <2>8. TabMarks(v, ms, rd, st, mk, tl, links, more, ds)
            BY <2>2, <2>5, <2>6, <2>7, MarksOfTab
      <2>9. QED BY <1>1, <1>4, <2>1, <2>8
<1>10. QED BY <1>8, <1>9

(* A step leaves what is marked shown as read, or a mark of it to come.    *)
LEMMA MarksStep ==
    ASSUME NoneIsNoCall
    PROVE  WallTypes /\ MarksInv /\ MarkCallsInv /\ [WallNext]_wallVars => MarksInv' /\ MarkCallsInv'
<1> SUFFICES ASSUME WallTypes, MarksInv, MarkCallsInv, [WallNext]_wallVars
             PROVE  MarksInv' /\ MarkCallsInv'
    OBVIOUS
<1>1. PICK n \in Nat : Types(n)
      BY TypesOfWall
<1>2. CASE SomeoneActs
      BY <1>1, <1>2, MarksWhenSomeoneActs
<1>3. ASSUME NEW s \in Slot, AnswerLoad(s) PROVE MarksInv' /\ MarkCallsInv'
      <2>1. PICK call, page : call = calls'[s] /\ page = PageBelow(calls[s].token)
            OBVIOUS
      <2>2. /\ calls[s] \in LoadCalls(n)
            /\ call = [calls[s] EXCEPT !.answer = page] /\ OneCall(s, call)
            /\ UNCHANGED <<messageVars, channelVars, storeVars, isLoading, marks, historyVars, failed>>
            BY <1>1, <1>3, <2>1, AnswerLoadTypes DEF OneCall
      <2>3. UNCHANGED <<messages, read, stale, marked, tlms, link, rawList>>
            BY <2>2 DEF messageVars, channelVars, storeVars, historyVars
      <2>4. /\ calls[s].token \in Token(n) /\ call.op = "load" /\ call.answer = page
            BY <2>2 DEF LoadCalls
      <2>5. \A e \in read : ShownRead(page.items, e)
            <3>1. \A i \in DOMAIN page.items : page.items[i].read <=> page.items[i].id \in read
                  BY <1>1, <2>1, <2>4, PageBelowIsPage DEF Types
            <3>2. QED BY <3>1 DEF ShownRead
      <2>6. ~ IsAnsweredMark(call) /\ \A t, e : ~ IsFetch(call, t, e)
            BY <2>4 DEF IsAnsweredMark, IsFetch
      <2>7. \A t \in Tab : IsLoad(call, t) /\ call.answer # None =>
                \A e \in read : ShownRead(call.answer.items, e)
            BY <2>4, <2>5
      <2>8. QED BY <2>2, <2>3, <2>6, <2>7, MarksWithOneCall, MarkCallsWithOneCall
<1>4. ASSUME NEW s \in Slot, EndLoad(s) PROVE MarksInv' /\ MarkCallsInv'
      BY <1>1, <1>4, MarksAfterLoad
<1>5. ASSUME NEW s \in Slot, LoadRefused(s) \/ MarkRefused(s) \/ FetchRefused(s)
      PROVE  MarksInv' /\ MarkCallsInv'
      <2>1. /\ OneCall(s, None)
            /\ UNCHANGED <<messageVars, channelVars, storeVars, marks, historyVars>>
            BY <1>1, <1>5, LoadRefusedTypes, MarkRefusedTypes
      <2>2. UNCHANGED <<messages, read, stale, marked, tlms, link, rawList>>
            BY <2>1 DEF messageVars, channelVars, storeVars, historyVars
      <2>3. ~ IsAnsweredMark(None) /\ \A t : ~IsLoad(None, t) /\ \A e : ~IsFetch(None, t, e)
            BY DEF IsLoad, IsAnsweredMark, IsFetch
      <2>4. QED BY <2>1, <2>2, <2>3, MarksWithOneCall, MarkCallsWithOneCall
<1>6. ASSUME NEW t \in Tab, HandleScroll(t) PROVE MarksInv' /\ MarkCallsInv'
      <2>1. PICK s \in Slot : OneCall(s, LoadCall(t, nextPageToken[t], muted))
            BY <1>1, <1>6, HandleScrollTypes
      <2>2. UNCHANGED <<messageVars, channelVars, storeVars, marks, historyVars, failed>>
            BY <1>1, <1>6, HandleScrollTypes
      <2>3. UNCHANGED <<messages, read, stale, marked, tlms, link, rawList>>
            BY <2>2 DEF messageVars, channelVars, storeVars, historyVars
      <2>4. PICK call : call = LoadCall(t, nextPageToken[t], muted)
            OBVIOUS
      <2>5. call.answer = None /\ ~ IsAnsweredMark(call) /\ \A u, e : ~ IsFetch(call, u, e)
            BY <2>4, LoadCallIsLoad
      <2>6. QED BY <2>1, <2>3, <2>4, <2>5, MarksWithOneCall, MarkCallsWithOneCall
<1>7. ASSUME NEW t \in Tab,
             \/ HandleClickMarkAllAsRead(t) \/ HandleClickMarkNotificationListAsRead(t)
             \/ ReadContentNotifications(t) \/ HandleReadSpaceNotifications(t)
      PROVE  MarksInv' /\ MarkCallsInv'
      <2>1. PICK s \in Slot, call \in MarkCalls(n) : OneCall(s, call) /\ call.phase = "asked"
            BY <1>1, <1>7, MarkingTypes
      <2>2. UNCHANGED <<messageVars, channelVars, storeVars, historyVars, failed>>
            BY <1>1, <1>7, MarkingTypes
      <2>3. UNCHANGED <<messages, read, stale, marked, tlms, link, rawList>>
            BY <2>2 DEF messageVars, channelVars, storeVars, historyVars
      <2>4. ~ IsAnsweredMark(call) /\ \A u : ~IsLoad(call, u) /\ \A e : ~IsFetch(call, u, e)
            BY <2>1 DEF IsLoad, IsAnsweredMark, IsFetch, MarkCalls
      <2>5. QED BY <2>1, <2>3, <2>4, MarksWithOneCall, MarkCallsWithOneCall
<1>8. ASSUME NEW s \in Slot, PutRead(s) PROVE MarksInv' /\ MarkCallsInv'
      BY <1>1, <1>8, MarksAfterPutRead
<1>9. ASSUME NEW s \in Slot, MarkAnswered(s) PROVE MarksInv' /\ MarkCallsInv'
      BY <1>1, <1>9, MarksAfterAnswer
<1>10. CASE ReceiveTlm
      BY <1>1, <1>10, MarksAfterTlm
<1>11. ASSUME NEW u \in Tab, NEW t \in Tab, BroadcastChannelMessageReceived(u, t)
       PROVE  MarksInv' /\ MarkCallsInv'
      BY <1>1, <1>11, MarksAfterBroadcast
<1>12. ASSUME NEW s \in Slot, EndFetch(s) PROVE MarksInv' /\ MarkCallsInv'
      BY <1>1, <1>12, MarksAfterFetch
<1>13. CASE UNCHANGED wallVars
       <2>1. UNCHANGED <<messages, read, stale, marked, tlms, link, rawList, calls>>
             BY <1>13 DEF wallVars, messageVars, channelVars, storeVars, historyVars
       <2>2. QED BY <2>1 DEF MarksInv, MarkCallsInv
<1>14. QED BY <1>2, <1>3, <1>4, <1>5, <1>6, <1>7, <1>8, <1>9, <1>10, <1>11, <1>12, <1>13
       DEF WallNext

-----------------------------------------------------------------------------
(* What the tabs start with.                                               *)
IsFirstLoad(call, t) ==
    /\ IsLoad(call, t) /\ call.token = FirstPage /\ call.answer = None /\ ~ IsAnsweredMark(call)
    /\ \A u : u # t => ~ IsLoad(call, u)

(* The calls of the initial state: one load of the first page for a tab.   *)
LEMMA FirstLoads ==
    ASSUME NoneIsNoCall, WallInit
    PROVE  /\ \A s \in Slot : calls[s] = None \/ \E t \in Tab : IsFirstLoad(calls[s], t)
           /\ \A s, r \in Slot, t \in Tab : IsLoad(calls[s], t) /\ IsLoad(calls[r], t) => r = s
<1>1. PICK slot : calls = [s \in Slot |->
                     IF \E t \in Tab : slot[t] = s
                     THEN LoadCall(CHOOSE t \in Tab : slot[t] = s, FirstPage, FALSE)
                     ELSE None]
      BY DEF WallInit
<1>2. ASSUME NEW s \in Slot
      PROVE  calls[s] = None \/ \E t \in Tab : slot[t] = s /\ IsFirstLoad(calls[s], t)
      <2>1. CASE \E t \in Tab : slot[t] = s
            <3>1. PICK t : t = CHOOSE u \in Tab : slot[u] = s
                  OBVIOUS
            <3>2. t \in Tab /\ slot[t] = s
                  BY <2>1, <3>1
            <3>3. calls[s] = LoadCall(t, FirstPage, FALSE)
                  BY <1>1, <2>1, <3>1
            <3>4. PICK token, mutes : token = FirstPage /\ mutes = FALSE
                  OBVIOUS
            <3>5. IsFirstLoad(LoadCall(t, token, mutes), t)
                  BY <3>4, LoadCallIsLoad DEF IsFirstLoad
            <3>6. QED BY <3>2, <3>3, <3>4, <3>5
      <2>2. CASE ~ \E t \in Tab : slot[t] = s
            BY <1>1, <2>2
      <2>3. QED BY <2>1, <2>2
<1>3. ASSUME NEW s \in Slot, NEW t \in Tab, IsLoad(calls[s], t)
      PROVE  slot[t] = s
      <2>1. calls[s] # None
            BY <1>3 DEF IsLoad
      <2>2. PICK u \in Tab : slot[u] = s /\ IsFirstLoad(calls[s], u)
            BY <1>2, <2>1
      <2>3. u = t
            BY <1>3, <2>2 DEF IsFirstLoad
      <2>4. QED BY <2>2, <2>3
<1>4. QED BY <1>2, <1>3

(* The invariants hold when the tabs are opened.                           *)
LEMMA WallInvInit ==
    ASSUME NoneIsNoCall
    PROVE  WallInit => PagesInv /\ MarksInv /\ MarkCallsInv /\ FilledInv
<1> SUFFICES ASSUME WallInit PROVE PagesInv /\ MarksInv /\ MarkCallsInv /\ FilledInv
    OBVIOUS
<1>1. /\ read = {} /\ tlms = <<>> /\ link = [p \in Tab \X Tab |-> <<>>]
      /\ rawList = [t \in Tab |-> <<>>] /\ hasNextPage = [t \in Tab |-> FALSE]
      /\ firstRead = [t \in Tab |-> 0] /\ handled = [t \in Tab |-> {}]
      /\ marked = [t \in Tab |-> {}]
      BY DEF WallInit
<1>2. /\ \A s \in Slot : calls[s] = None \/ \E t \in Tab : IsFirstLoad(calls[s], t)
      /\ \A s, r \in Slot, t \in Tab : IsLoad(calls[s], t) /\ IsLoad(calls[r], t) => r = s
      BY FirstLoads
<1>3. ASSUME NEW s \in Slot, NEW t \in Tab, IsLoad(calls[s], t)
      PROVE  calls[s].token = FirstPage /\ calls[s].answer = None
      BY <1>2, <1>3 DEF IsLoad, IsFirstLoad
<1>4. PagesInv
      <2> SUFFICES ASSUME NEW t \in Tab
                   PROVE  /\ HasAll(rawList[t], handled[t], hasNextPage[t], nextPageToken[t], firstRead[t])
                          /\ TabPages(t, calls, rawList[t], hasNextPage[t], nextPageToken[t], firstRead[t])
          BY DEF PagesInv
      <2>1. handled[t] = {} /\ firstRead[t] = 0 /\ ~hasNextPage[t]
            BY <1>1
      <2>2. HasAll(rawList[t], handled[t], hasNextPage[t], nextPageToken[t], firstRead[t])
            BY <2>1 DEF HasAll
      <2>3. TabPages(t, calls, rawList[t], hasNextPage[t], nextPageToken[t], firstRead[t])
            BY <1>2, <1>3, <2>1 DEF TabPages
      <2>4. QED BY <2>2, <2>3
<1>5. MarksInv
      <2> SUFFICES ASSUME NEW t \in Tab
                   PROVE  TabMarks(t, messages, read, stale[t], marked[t], tlms, link, rawList[t], calls)
          BY DEF MarksInv
      <2>1. marked[t] = {}
            BY <1>1
      <2>2. QED BY <1>1, <2>1 DEF TabMarks
<1>6. MarkCallsInv
      <2>1. \A s \in Slot : ~ IsAnsweredMark(calls[s])
            BY <1>2 DEF IsFirstLoad, IsAnsweredMark
      <2>2. QED BY <2>1 DEF MarkCallsInv
<1>7. FilledInv
      <2>1. \A t \in Tab : ~hasNextPage[t]
            BY <1>1
      <2>2. QED BY <2>1 DEF FilledInv, FilledFor
<1>8. QED BY <1>4, <1>5, <1>6, <1>7

(* What a tab was given, by a live message it added or down to its last    *)
(* page, is in its list.                                                   *)
THEOREM NothingIsMissing == NoneIsNoCall => (WallSpec => []NothingMissing)
<1> SUFFICES ASSUME NoneIsNoCall PROVE WallSpec => []NothingMissing
    OBVIOUS
<1>1. WallInit => PagesInv
      BY WallInvInit
<1>2. WallTypes /\ PagesInv /\ [WallNext]_wallVars => PagesInv'
      BY PagesStep
<1>3. WallTypes /\ PagesInv => NothingMissing
      <2> SUFFICES ASSUME WallTypes, PagesInv, NEW t \in Tab, NEW e \in DOMAIN messages,
                          \/ e \in handled[t]
                          \/ e <= firstRead[t] /\ (hasNextPage[t] => e >= nextPageToken[t])
                   PROVE  e \in IdsOf(rawList[t])
          BY DEF NothingMissing
      <2>1. PICK n \in Nat : Types(n)
            BY TypesOfWall
      <2>2. e \in 1..n /\ firstRead[t] \in 0..n
            BY <2>1 DEF Types, MessageTypes, HistoryTypes
      <2>3. HasAll(rawList[t], handled[t], hasNextPage[t], nextPageToken[t], firstRead[t])
            BY DEF PagesInv
      <2>4. QED BY <2>2, <2>3 DEF HasAll
<1>4. WallSpec => []WallTypes
      BY WallTypeCorrect
<1>5. QED BY <1>1, <1>2, <1>3, <1>4, PTL DEF WallSpec

(* A tab that has heard all other tabs shows as read what the user marked  *)
(* in the wall of any tab, by opening its content in any tab, or in its    *)
(* own sidebar; except what was on its way to the list when the server     *)
(* marked it, and a notification whose content was refused.                *)
THEOREM MarksAreShownEverywhere == NoneIsNoCall => (WallSpec => []MarksReachEveryTab)
<1> SUFFICES ASSUME NoneIsNoCall PROVE WallSpec => []MarksReachEveryTab
    OBVIOUS
<1>1. WallInit => MarksInv /\ MarkCallsInv
      BY WallInvInit
<1>2. WallTypes /\ MarksInv /\ MarkCallsInv /\ [WallNext]_wallVars => MarksInv' /\ MarkCallsInv'
      BY MarksStep
<1>3. MarksInv => MarksReachEveryTab
      <2> SUFFICES ASSUME MarksInv, NEW t \in Tab, \A u \in Tab : link[<<u, t>>] = <<>>,
                          NEW i \in DOMAIN rawList[t], rawList[t][i].known,
                          rawList[t][i].id \in marked[t] \ stale[t]
                   PROVE  rawList[t][i].read
          BY DEF MarksReachEveryTab
      <2>1. PICK e : e = rawList[t][i].id
            OBVIOUS
      <2>2. MarkReaches(t, messages, link, rawList[t], e)
            BY <2>1 DEF MarksInv, TabMarks
      <2>3. ~ MarkComes(t, messages, link, e)
            <3>1. \A q : q = <<>> => DOMAIN q = {}
                  OBVIOUS
            <3>2. \A u \in Tab : DOMAIN link[<<u, t>>] = {}
                  BY <3>1
            <3>3. QED BY <3>2 DEF MarkComes
      <2>4. ShownRead(rawList[t], e)
            BY <2>2, <2>3 DEF MarkReaches
      <2>5. QED BY <2>1, <2>4 DEF ShownRead
<1>4. WallSpec => []WallTypes
      BY WallTypeCorrect
<1>5. QED BY <1>1, <1>2, <1>3, <1>4, PTL DEF WallSpec

(* A wall that waits for no page is filled, or there is no page any more,  *)
(* or its last request has failed.                                         *)
THEOREM WallsAreFilled == NoneIsNoCall => (WallSpec => []WallIsFilled)
<1> SUFFICES ASSUME NoneIsNoCall PROVE WallSpec => []WallIsFilled
    OBVIOUS
<1>1. WallInit => FilledInv
      BY WallInvInit
<1>2. WallTypes /\ FilledInv /\ [WallNext]_wallVars => FilledInv'
      BY FilledStep
<1>3. WallTypes /\ FilledInv => WallIsFilled
      <2> SUFFICES ASSUME WallTypes, FilledInv, NEW t \in Tab,
                          hasNextPage[t], ~failed[t], Loads(t) = {}
                   PROVE  Len(ListOf(rawList[t], applied[t])) >= Window
          BY DEF WallIsFilled
      <2>1. PICK n \in Nat : Types(n)
            BY TypesOfWall
      <2>2. rawList[t] \in Seq(Noted(n))
            BY <2>1 DEF Types, StoreTypes
      <2>3. \A s \in Slot : ~ IsLoad(calls[s], t)
            BY DEF Loads, IsLoad, FreeIn
      <2>4. Len(ListIn(messages, rawList[t], applied[t])) >= Window
            BY <2>3 DEF FilledInv, FilledFor
      <2>5. ListOf(rawList[t], applied[t]) = ListIn(messages, rawList[t], applied[t])
            BY <2>2, LenOfList
      <2>6. QED BY <2>4, <2>5
<1>4. WallSpec => []WallTypes
      BY WallTypeCorrect
<1>5. QED BY <1>1, <1>2, <1>3, <1>4, PTL DEF WallSpec
=============================================================================
