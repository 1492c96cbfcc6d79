-------------------------- MODULE ActivityFeedProofs --------------------------
(***************************************************************************)
(* Proofs about ActivityFeed: the flag that keeps the updates of a feed    *)
(* apart is always given back, the lists that the store and the calls hold *)
(* name no content twice, a load brings nothing of another space, and the  *)
(* list that a feed at rest shows misses nothing it was told.              *)
(*                                                                         *)
(* Three invariants, each on top of the ones before: Inv (whose calls are  *)
(* under way, and who holds the flag), ListsInv (what the lists hold) and  *)
(* RightAll (which messages they cover).                                   *)
(***************************************************************************)
EXTENDS ActivityFeed, FiniteSetTheorems, WellFoundedInduction, SequenceTheorems, TLAPS

(* None is not one of the records that calls are.                          *)
NoneIsNoCall == \A call : "phase" \in DOMAIN call => call # None

(* A call remains what it was made for, by one of the feeds; the event of  *)
(* a live message is one the tab has received.                             *)
IsCall(call, feeds, known) ==
    /\ {"op", "feed", "phase"} \subseteq DOMAIN call
    /\ call.feed \in 1..feeds
    /\ call.op = "tlm" => "event" \in DOMAIN call /\ call.event \in known

CallsInv ==
    /\ calls = [s \in Slot |-> calls[s]]
    /\ \A s \in Busy : IsCall(calls[s], Len(visits), received)

(* The mounted feed is the last one, and the URL its dashboard; the load   *)
(* that it would cancel is under way.                                      *)
MountedInv ==
    /\ mounted \in BOOLEAN /\ url \in Space \cup {Elsewhere}
    /\ mounted => Len(visits) > 0 /\ url = visits[Feed]
    /\ mounted /\ loadActivitiesPromise # None =>
          /\ loadActivitiesPromise \in Busy
          /\ calls[loadActivitiesPromise].op = "load"
          /\ OfMounted(loadActivitiesPromise)

ServerInv ==
    /\ messages \in Seq([content : Content, kind : STRING])
    /\ received \subseteq DOMAIN messages
    /\ visits \in Seq(Space) /\ Len(visits) <= MaxVisit
    /\ changingActivityList \in [Visit -> BOOLEAN]

FeedInv == ServerInv /\ CallsInv /\ MountedInv
Inv == FeedInv /\ FlagIsHeld

-----------------------------------------------------------------------------
(* FreeSlot is a slot that is free.                                        *)
LEMMA MinIsIn ==
    ASSUME NEW S \in SUBSET Nat, S # {}
    PROVE  Min(S) \in S
<1> DEFINE R == OpToRel(<, Nat)
<1>1. IsWellFoundedOn(R, Nat)
      BY NatLessThanWellFounded, Zenon
<1>2. \A m, n \in Nat : m < n => <<m, n>> \in R
      BY DEF OpToRel
<1> HIDE DEF R
<1>3. PICK x \in S : \A y \in S : ~ (<<y, x>> \in R)
      BY <1>1, WFMin
<1>4. ASSUME NEW y \in S PROVE x <= y
      <2>1. x \in Nat /\ y \in Nat
            OBVIOUS
      <2>2. ~ (y < x)
            BY <1>2, <1>3, <2>1, Zenon
      <2>3. QED BY <2>1, <2>2
<1>5. QED BY <1>4 DEF Min

LEMMA InitInv == Init => Inv
<1> SUFFICES ASSUME Init PROVE Inv
    OBVIOUS
<1>1. ServerInv
      BY CountAssumption DEF Init, ServerInv
<1>2. CallsInv
      <2>1. Busy = {}
            BY DEF Init, Busy
      <2>2. QED BY <2>1 DEF Init, CallsInv
<1>3. MountedInv /\ FlagIsHeld
      BY DEF Init, MountedInv, FlagIsHeld
<1>4. QED BY <1>1, <1>2, <1>3 DEF Inv, FeedInv

-----------------------------------------------------------------------------
(* The calls of a step before it sets the one it is about: the same, or    *)
(* one of them cancelled.                                                  *)
SameCalls(others) ==
    /\ others = [s \in Slot |-> others[s]]
    /\ \A s \in Slot :
          /\ others[s] = None <=> calls[s] = None
          /\ calls[s] # None =>
                /\ IsCall(others[s], Len(visits), received)
                /\ others[s].op = calls[s].op /\ others[s].feed = calls[s].feed
                /\ others[s].phase = calls[s].phase

(* A step that sets one call keeps the invariant if the promise to cancel  *)
(* is still that of a load of the mounted feed, and the flag is either as  *)
(* it was, and that call no update, or set for an update by that call.     *)
LEMMA CallsStep ==
    ASSUME Inv, NoneIsNoCall, NEW s \in Slot, NEW call, NEW others,
           UNCHANGED <<url, visits, mounted, messages>>, rejected \subseteq rejected',
           received \subseteq received', received' \subseteq DOMAIN messages,
           changingActivityList' \in [Visit -> BOOLEAN],
           SameCalls(others), calls' = [others EXCEPT ![s] = call],
           call # None => IsCall(call, Len(visits), received'),
           mounted /\ loadActivitiesPromise' # None =>
              \/ /\ loadActivitiesPromise' = s
                 /\ call # None /\ call.op = "load" /\ call.feed = Feed
              \/ loadActivitiesPromise' = loadActivitiesPromise /\ loadActivitiesPromise # s,
           mounted /\ changingActivityList'[Feed] =>
              \/ changingActivityList[Feed] /\ s \notin Updating(Feed)
              \/ call # None /\ call.feed = Feed /\ call.phase \in {"asking", "building"}
    PROVE  Inv'
<1>1. calls' = [r \in Slot |-> calls'[r]] /\ calls'[s] = call
      BY DEF SameCalls
<1>2. \A r \in Slot \ {s} : calls'[r] = others[r]
      BY DEF SameCalls
<1>3. ServerInv'
      BY DEF Inv, FeedInv, ServerInv
<1>4. CallsInv'
      <2>1. ASSUME NEW r \in Slot, calls'[r] # None
            PROVE  IsCall(calls'[r], Len(visits), received')
            <3>1. CASE r = s
                  BY <1>1, <2>1, <3>1
            <3>2. CASE r # s
                  BY <1>2, <2>1, <3>2 DEF SameCalls, IsCall
            <3>3. QED BY <3>1, <3>2
      <2>2. QED BY <1>1, <2>1 DEF CallsInv, Busy
<1>5. MountedInv'
      <2>1. /\ mounted' \in BOOLEAN /\ url' \in Space \cup {Elsewhere}
            /\ mounted' => Len(visits') > 0 /\ url' = visits'[Feed']
            BY DEF Inv, FeedInv, MountedInv, Feed
      <2>2. ASSUME mounted, loadActivitiesPromise' # None
            PROVE  /\ loadActivitiesPromise' \in Busy'
                   /\ calls'[loadActivitiesPromise'].op = "load"
                   /\ calls'[loadActivitiesPromise'].feed = Feed
            <3>1. CASE loadActivitiesPromise' = s /\ call # None /\ call.op = "load" /\ call.feed = Feed
                  BY <1>1, <3>1 DEF Busy
            <3>2. CASE loadActivitiesPromise' = loadActivitiesPromise /\ loadActivitiesPromise # s
                  BY <1>2, <2>2, <3>2 DEF Inv, FeedInv, MountedInv, OfMounted, Busy, SameCalls
            <3>3. QED BY <2>2, <3>1, <3>2
      <2>3. QED BY <2>1, <2>2 DEF MountedInv, OfMounted, Feed
<1>6. FlagIsHeld'
      <2> SUFFICES ASSUME mounted, changingActivityList'[Feed],
                          ~ FlagIsLost'
                   PROVE  \E r \in Slot : /\ calls'[r] # None /\ calls'[r].feed = Feed
                                          /\ calls'[r].phase \in {"asking", "building"}
          BY DEF FlagIsHeld, Updating, Busy, Feed
      <2>1. CASE changingActivityList[Feed] /\ s \notin Updating(Feed)
            <3>1. PICK r \in Updating(Feed) : TRUE
                  BY <2>1 DEF Inv, FlagIsHeld, FlagIsLost, Feed
            <3>2. r # s /\ r \in Slot /\ calls[r] # None /\ calls[r].feed = Feed
                  /\ calls[r].phase \in {"asking", "building"}
                  BY <2>1, <3>1 DEF Updating, Busy
            <3>3. QED BY <1>2, <3>2 DEF SameCalls
      <2>2. CASE call # None /\ call.feed = Feed /\ call.phase \in {"asking", "building"}
            BY <1>1, <2>2
      <2>3. QED BY <2>1, <2>2
<1>7. QED BY <1>3, <1>4, <1>5, <1>6 DEF Inv, FeedInv

LEMMA CallsAreTheSame == Inv => SameCalls(calls)
BY DEF Inv, FeedInv, CallsInv, SameCalls, Busy

LEMMA CancelledAreTheSame ==
    ASSUME Inv, NoneIsNoCall, mounted
    PROVE  SameCalls(CancelCurrentLoadActivities)
<1> DEFINE p == loadActivitiesPromise
<1>1. CASE p = None
      BY <1>1, CallsAreTheSame DEF CancelCurrentLoadActivities
<1>2. CASE p # None
      <2>1. p \in Slot /\ calls[p] # None /\ IsCall(calls[p], Len(visits), received)
            /\ calls[p].op = "load"
            BY <1>2 DEF Inv, FeedInv, MountedInv, CallsInv, Busy
      <2>2. /\ IsCall(Forgotten(calls[p]), Len(visits), received)
            /\ Forgotten(calls[p]).op = calls[p].op /\ Forgotten(calls[p]).feed = calls[p].feed
            /\ Forgotten(calls[p]).phase = calls[p].phase
            BY <2>1 DEF Forgotten, IsCall
      <2>3. Forgotten(calls[p]) # None
            BY <2>2 DEF NoneIsNoCall, IsCall
      <2>4. CancelCurrentLoadActivities = [calls EXCEPT ![p] = Forgotten(calls[p])]
            BY <1>2 DEF CancelCurrentLoadActivities
      <2>5. QED BY <2>1, <2>2, <2>3, <2>4, CallsAreTheSame DEF SameCalls
<1>3. QED BY <1>1, <1>2

LEMMA FreeSlotIsFree == Free # {} => FreeSlot \in Slot /\ calls[FreeSlot] = None
BY MinIsIn, CountAssumption DEF FreeSlot, Free, Slot, Busy

(* The slots of the loads of a feed that mounts.                           *)
LEMMA TwoFreeSlots ==
    ASSUME Cardinality(Free) >= 2
    PROVE  /\ FreeSlot \in Slot /\ calls[FreeSlot] = None
           /\ Min(Free \ {FreeSlot}) \in Slot /\ calls[Min(Free \ {FreeSlot})] = None
           /\ Min(Free \ {FreeSlot}) # FreeSlot
<1> DEFINE first == FreeSlot
           second == Min(Free \ {first})
<1> HIDE DEF first, second
<1>1. Free # {}
      BY FS_EmptySet
<1>2. Free \ {first} # {}
      <2>1. Free # {first}
            BY FS_Singleton
      <2>2. first \in Free
            BY <1>1, FreeSlotIsFree DEF Free, Busy, first
      <2>3. QED BY <2>1, <2>2
<1>3. second \in Free \ {first}
      BY <1>2, MinIsIn, CountAssumption DEF Free, Slot, second
<1>4. QED BY <1>1, <1>3, FreeSlotIsFree DEF Free, Busy, first, second

-----------------------------------------------------------------------------
(* The steps that start a load of the mounted feed.                        *)
LEMMA LoadStarts ==
    ASSUME Inv, NoneIsNoCall, mounted, NEW s \in Slot, calls[s] = None,
           NEW goal, NEW reset, NEW others, SameCalls(others),
           LoadActivities(s, goal, reset, others),
           UNCHANGED <<url, visits, mounted, messages, received, rejected>>
    PROVE  Inv'
<1> DEFINE call == LoadCall(Feed, goal, reset)
<1>1. Feed \in 1..Len(visits) /\ Feed \in Visit
      BY LenProperties DEF Inv, FeedInv, ServerInv, MountedInv, Feed, Visit
<1>2. IsCall(call, Len(visits), received) /\ call.op = "load" /\ call.feed = Feed
      BY <1>1 DEF LoadCall, IsCall
<1>3. /\ IsCall(Entered(call), Len(visits), received)
      /\ Entered(call).op = "load" /\ Entered(call).feed = Feed /\ Entered(call).phase = "asking"
      BY <1>1 DEF LoadCall, Entered, IsCall
<1>4. s \notin Updating(Feed)
      BY DEF Updating, Busy
<1>5. changingActivityList \in [Visit -> BOOLEAN] /\ received \subseteq DOMAIN messages
      BY DEF Inv, FeedInv, ServerInv
<1>6. loadActivitiesPromise # None => loadActivitiesPromise # s
      BY DEF Inv, FeedInv, MountedInv, Busy
<1> HIDE DEF call
<1>7. CASE changingActivityList[Feed]
      <2>1. /\ calls' = [others EXCEPT ![s] = call]
            /\ UNCHANGED <<changingActivityList, loadActivitiesPromise>>
            BY <1>7 DEF LoadActivities, call
      <2>2. QED BY <1>2, <1>4, <1>5, <1>6, <1>7, <2>1, CallsStep
<1>8. CASE ~changingActivityList[Feed]
      <2>1. /\ calls' = [others EXCEPT ![s] = Entered(call)]
            /\ changingActivityList' = [changingActivityList EXCEPT ![Feed] = TRUE]
            /\ loadActivitiesPromise' = s
            BY <1>8 DEF LoadActivities, call
      <2>2. Entered(call) # None
            BY <1>3 DEF NoneIsNoCall, IsCall
      <2>3. changingActivityList' \in [Visit -> BOOLEAN]
            BY <1>5, <2>1
      <2>4. QED BY <1>3, <1>5, <2>1, <2>2, <2>3, CallsStep
<1>9. QED BY <1>7, <1>8

LEMMA SetWorkspaceListStep ==
    ASSUME Inv, NoneIsNoCall, SetWorkspaceList
    PROVE  Inv'
<1>1. CASE mounted
      BY <1>1, FreeSlotIsFree, CancelledAreTheSame, LoadStarts DEF SetWorkspaceList
<1>2. CASE ~mounted
      <2>1. UNCHANGED <<messages, received, url, visits, mounted, changingActivityList,
                        loadActivitiesPromise, calls, rejected>>
            BY <1>2 DEF SetWorkspaceList
      <2>2. QED BY <2>1 DEF Inv, FeedInv, ServerInv, CallsInv, MountedInv, FlagIsHeld,
                            FlagIsLost, Updating, Busy, Feed, OfMounted
<1>3. mounted \in BOOLEAN
      BY DEF Inv, FeedInv, MountedInv
<1>4. QED BY <1>1, <1>2, <1>3

LEMMA HandleClickLoadMoreStep ==
    ASSUME Inv, NoneIsNoCall, HandleClickLoadMore
    PROVE  Inv'
BY FreeSlotIsFree, CallsAreTheSame, LoadStarts DEF HandleClickLoadMore, pageVars

-----------------------------------------------------------------------------
(* The steps of a load.                                                    *)
LEMMA EnterLoadStep ==
    ASSUME Inv, NoneIsNoCall, NEW s \in Slot, EnterLoad(s)
    PROVE  Inv'
<1> DEFINE call == Entered(calls[s])
<1>1. calls[s] # None /\ IsCall(calls[s], Len(visits), received) /\ calls[s].op = "load"
      BY DEF EnterLoad, Inv, FeedInv, CallsInv, Busy
<1>2. /\ IsCall(call, Len(visits), received)
      /\ call.op = "load" /\ call.feed = calls[s].feed /\ call.phase = "asking"
      BY <1>1 DEF Entered, IsCall
<1>3. call # None
      BY <1>2 DEF NoneIsNoCall, IsCall
<1>4. changingActivityList \in [Visit -> BOOLEAN] /\ received \subseteq DOMAIN messages
      BY DEF Inv, FeedInv, ServerInv
<1>5. /\ calls' = [calls EXCEPT ![s] = call]
      /\ changingActivityList' = [changingActivityList EXCEPT ![calls[s].feed] = TRUE]
      /\ loadActivitiesPromise' = IF OfMounted(s) THEN s ELSE loadActivitiesPromise
      /\ UNCHANGED <<messages, received, url, visits, mounted, rejected>>
      BY DEF EnterLoad, pageVars
<1> HIDE DEF call
<1>6. changingActivityList' \in [Visit -> BOOLEAN]
      BY <1>4, <1>5
<1>7. s \in Updating(Feed) => call.feed = Feed
      BY <1>2 DEF Updating
<1>8. changingActivityList'[Feed] => changingActivityList[Feed] \/ call.feed = Feed
      BY <1>2, <1>4, <1>5
<1>9. mounted /\ loadActivitiesPromise' # None =>
         \/ loadActivitiesPromise' = s /\ call.feed = Feed
         \/ loadActivitiesPromise' = loadActivitiesPromise /\ loadActivitiesPromise # s
      BY <1>2, <1>5 DEF OfMounted, Inv, FeedInv, MountedInv
<1>10. QED BY <1>2, <1>3, <1>4, <1>5, <1>6, <1>7, <1>8, <1>9, CallsAreTheSame, CallsStep

LEMMA AnswerBatchStep ==
    ASSUME Inv, NoneIsNoCall, NEW s \in Slot, AnswerBatch(s)
    PROVE  Inv'
<1>1. PICK answer : calls' = [calls EXCEPT ![s].answer = answer]
      BY DEF AnswerBatch
<1> DEFINE call == [calls[s] EXCEPT !.answer = answer]
<1>2. calls[s] # None /\ IsCall(calls[s], Len(visits), received)
      /\ calls[s].op = "load" /\ calls[s].phase = "asking"
      BY DEF AnswerBatch, Inv, FeedInv, CallsInv, Busy
<1>3. /\ IsCall(call, Len(visits), received)
      /\ call.op = "load" /\ call.feed = calls[s].feed /\ call.phase = "asking"
      BY <1>2 DEF IsCall
<1>4. call # None
      BY <1>3 DEF NoneIsNoCall, IsCall
<1>5. /\ calls' = [calls EXCEPT ![s] = call]
      /\ UNCHANGED <<messages, received, url, visits, mounted, changingActivityList,
                     loadActivitiesPromise, rejected>>
      BY <1>1 DEF AnswerBatch, pageVars, feedVars, historyVars
<1>6. changingActivityList \in [Visit -> BOOLEAN] /\ received \subseteq DOMAIN messages
      BY DEF Inv, FeedInv, ServerInv
<1> HIDE DEF call
<1>7. s \in Updating(Feed) => call.feed = Feed
      BY <1>3 DEF Updating
<1>8. mounted /\ loadActivitiesPromise = s => call.feed = Feed \/ s = None
      BY <1>3 DEF OfMounted, Inv, FeedInv, MountedInv
<1>9. QED BY <1>3, <1>4, <1>5, <1>6, <1>7, <1>8, CallsAreTheSame, CallsStep

(* A load that ends gives the flag back, unless the feed is not mounted    *)
(* any more: the URL of a mounted feed is that of its dashboard.           *)
LEMMA ResumeLoadStep ==
    ASSUME Inv, NoneIsNoCall, NEW s \in Slot, ResumeLoad(s)
    PROVE  Inv'
<1> DEFINE feed == calls[s].feed
<1>1. calls[s] # None /\ IsCall(calls[s], Len(visits), received)
      /\ calls[s].op = "load" /\ calls[s].phase = "asking"
      BY DEF ResumeLoad, Inv, FeedInv, CallsInv, Busy
<1>2. /\ changingActivityList \in [Visit -> BOOLEAN] /\ received \subseteq DOMAIN messages
      /\ UNCHANGED <<messages, received, url, visits, mounted, rejected>>
      BY DEF ResumeLoad, pageVars, Inv, FeedInv, ServerInv
<1>3. mounted /\ loadActivitiesPromise # None => OfMounted(loadActivitiesPromise)
      BY DEF Inv, FeedInv, MountedInv
<1>4. ASSUME calls' = [calls EXCEPT ![s] = None],
             changingActivityList' = [changingActivityList EXCEPT ![feed] = FALSE],
             loadActivitiesPromise' = IF OfMounted(s) THEN None ELSE loadActivitiesPromise
      PROVE  Inv'
      <2>1. changingActivityList' \in [Visit -> BOOLEAN]
            BY <1>2, <1>4
      <2>2. s \in Updating(Feed) => feed = Feed
            BY DEF Updating
      <2>3. mounted /\ changingActivityList'[Feed] => changingActivityList[Feed] /\ feed # Feed
            <3>1. mounted => Feed \in Visit
                  BY LenProperties DEF Inv, FeedInv, ServerInv, MountedInv, Feed, Visit
            <3>2. QED BY <1>2, <1>4, <3>1
      <2>4. mounted /\ loadActivitiesPromise' # None =>
               loadActivitiesPromise' = loadActivitiesPromise /\ loadActivitiesPromise # s
            BY <1>3, <1>4
      <2>5. QED BY <1>2, <1>4, <2>1, <2>2, <2>3, <2>4, CallsAreTheSame, CallsStep
<1>5. CASE Cancelled(s)
      BY <1>4, <1>5 DEF Cancelled, EndLoad
<1>6. CASE Abandoned(s)
      <2>1. /\ calls' = [calls EXCEPT ![s] = None]
            /\ UNCHANGED <<changingActivityList, loadActivitiesPromise>>
            BY <1>6 DEF Abandoned, EndLoad
      <2>2. mounted => feed # Feed
            BY <1>6 DEF Abandoned, LeftForAnotherSpace, Inv, FeedInv, MountedInv
      <2>3. mounted => s \notin Updating(Feed)
            BY <2>2 DEF Updating
      <2>4. mounted /\ loadActivitiesPromise # None => loadActivitiesPromise # s
            BY <1>3, <2>2 DEF OfMounted
      <2>5. QED BY <1>2, <2>1, <2>3, <2>4, CallsAreTheSame, CallsStep
<1>7. CASE Dispatched(s)
      <2> DEFINE next == [calls[s] EXCEPT !.list = calls[s].answer.list,
                             !.hasNext = calls[s].answer.hasNext,
                             !.token = calls[s].answer.token, !.answer = None]
      <2>1. \/ /\ calls' = [calls EXCEPT ![s] = next]
               /\ loadActivitiesPromise' = IF OfMounted(s) THEN s ELSE loadActivitiesPromise
               /\ UNCHANGED changingActivityList
            \/ /\ calls' = [calls EXCEPT ![s] = None]
               /\ changingActivityList' = [changingActivityList EXCEPT ![feed] = FALSE]
               /\ loadActivitiesPromise' = IF OfMounted(s) THEN None ELSE loadActivitiesPromise
            BY <1>7 DEF Dispatched, EndLoad
      <2>2. /\ IsCall(next, Len(visits), received)
            /\ next.op = "load" /\ next.feed = feed /\ next.phase = "asking"
            BY <1>1 DEF IsCall
      <2>3. next # None
            BY <2>2 DEF NoneIsNoCall, IsCall
      <2> HIDE DEF next
      <2>4. CASE /\ calls' = [calls EXCEPT ![s] = next]
                 /\ loadActivitiesPromise' = IF OfMounted(s) THEN s ELSE loadActivitiesPromise
                 /\ UNCHANGED changingActivityList
            <3>1. s \in Updating(Feed) => feed = Feed
                  BY DEF Updating
            <3>2. mounted /\ loadActivitiesPromise' # None =>
                     \/ loadActivitiesPromise' = s /\ feed = Feed
                     \/ loadActivitiesPromise' = loadActivitiesPromise /\ loadActivitiesPromise # s
                  BY <1>3, <2>4 DEF OfMounted
            <3>3. QED BY <1>2, <2>2, <2>3, <2>4, <3>1, <3>2, CallsAreTheSame, CallsStep
      <2>5. QED BY <1>4, <2>1, <2>4
<1>8. QED BY <1>5, <1>6, <1>7 DEF ResumeLoad

-----------------------------------------------------------------------------
(* The steps of a live message.                                            *)
LEMMA HandleTlmStep ==
    ASSUME Inv, NoneIsNoCall, NEW e \in Message, HandleTlm(e)
    PROVE  Inv'
<1>1. /\ received \subseteq received' /\ received' \subseteq DOMAIN messages /\ e \in received'
      /\ changingActivityList \in [Visit -> BOOLEAN]
      /\ UNCHANGED <<messages, url, visits, mounted, changingActivityList, loadActivitiesPromise,
                     rejected>>
      BY DEF HandleTlm, pageVars, feedVars, historyVars, Inv, FeedInv, ServerInv
<1>2. CASE mounted /\ SpaceOfEvent(e) = url
      <2> DEFINE call == [op |-> "tlm", feed |-> Feed, phase |-> "fetching", event |-> e]
      <2>1. FreeSlot \in Slot /\ calls[FreeSlot] = None
            /\ calls' = [calls EXCEPT ![FreeSlot] = call]
            BY <1>2, FreeSlotIsFree DEF HandleTlm
      <2>2. Feed \in 1..Len(visits)
            BY <1>2, LenProperties DEF Inv, FeedInv, ServerInv, MountedInv, Feed
      <2>3. IsCall(call, Len(visits), received')
            BY <1>1, <2>2 DEF IsCall
      <2>4. FreeSlot \notin Updating(Feed)
            BY <2>1 DEF Updating, Busy
      <2>5. mounted /\ loadActivitiesPromise # None => loadActivitiesPromise # FreeSlot
            BY <2>1 DEF Inv, FeedInv, MountedInv, Busy
      <2> HIDE DEF call
      <2>6. QED BY <1>1, <2>1, <2>3, <2>4, <2>5, CallsAreTheSame, CallsStep
<1>3. CASE ~(mounted /\ SpaceOfEvent(e) = url)
      <2>1. UNCHANGED calls
            BY <1>3 DEF HandleTlm
      <2>2. CallsInv'
            BY <1>1, <2>1 DEF Inv, FeedInv, CallsInv, IsCall, Busy
      <2>3. QED BY <1>1, <2>1, <2>2 DEF Inv, FeedInv, ServerInv, MountedInv, FlagIsHeld,
                                        FlagIsLost, Updating, Busy, Feed, OfMounted
<1>4. QED BY <1>2, <1>3

(* A live message enters, or waits for the flag another update holds.      *)
LEMMA TlmEnters ==
    ASSUME Inv, NoneIsNoCall, NEW s \in Slot, UpdateActivityListFromTlm(s) \/ EnterTlm(s)
    PROVE  Inv'
<1>1. /\ calls[s] # None /\ IsCall(calls[s], Len(visits), received)
      /\ calls[s].op = "tlm" /\ calls[s].phase \in {"fetching", "waiting"}
      BY DEF UpdateActivityListFromTlm, EnterTlm, Inv, FeedInv, CallsInv, Busy
<1>2. /\ changingActivityList \in [Visit -> BOOLEAN] /\ received \subseteq DOMAIN messages
      /\ changingActivityList' = [changingActivityList EXCEPT ![calls[s].feed] = TRUE]
      /\ UNCHANGED <<messages, received, url, visits, mounted, loadActivitiesPromise, rejected>>
      BY DEF UpdateActivityListFromTlm, EnterTlm, pageVars, historyVars, Inv, FeedInv, ServerInv
<1>3. PICK call : /\ calls' = [calls EXCEPT ![s] = call]
                  /\ IsCall(call, Len(visits), received) /\ call.feed = calls[s].feed
                  /\ changingActivityList[call.feed] \/ call.phase = "building"
      <2>1. CASE UpdateActivityListFromTlm(s)
            <3> DEFINE call == [op |-> "tlm", feed |-> calls[s].feed, event |-> calls[s].event,
                                list |-> list,
                                phase |-> IF ~changingActivityList[calls[s].feed] THEN "building"
                                          ELSE "waiting"]
            <3>1. calls' = [calls EXCEPT ![s] = call]
                  BY <2>1 DEF UpdateActivityListFromTlm
            <3>2. IsCall(call, Len(visits), received) /\ call.feed = calls[s].feed
                  /\ (changingActivityList[call.feed] \/ call.phase = "building")
                  BY <1>1 DEF IsCall
            <3> HIDE DEF call
            <3>3. QED BY <3>1, <3>2
      <2>2. CASE EnterTlm(s)
            <3> DEFINE call == [calls[s] EXCEPT !.phase = "building"]
            <3>1. calls' = [calls EXCEPT ![s] = call]
                  BY <2>2 DEF EnterTlm
            <3>2. IsCall(call, Len(visits), received) /\ call.feed = calls[s].feed
                  /\ call.phase = "building"
                  BY <1>1 DEF IsCall
            <3> HIDE DEF call
            <3>3. QED BY <3>1, <3>2
      <2>3. QED BY <2>1, <2>2
<1>4. call # None
      BY <1>3 DEF NoneIsNoCall, IsCall
<1>5. changingActivityList' \in [Visit -> BOOLEAN]
      BY <1>2
<1>6. s \notin Updating(Feed)
      BY <1>1 DEF Updating
<1>7. mounted /\ loadActivitiesPromise # None => loadActivitiesPromise # s
      BY <1>1 DEF Inv, FeedInv, MountedInv
<1>8. mounted /\ changingActivityList'[Feed] =>
         \/ changingActivityList[Feed]
         \/ call.feed = Feed /\ call.phase = "building"
      <2>1. mounted => Feed \in Visit
            BY LenProperties DEF Inv, FeedInv, ServerInv, MountedInv, Feed, Visit
      <2>2. QED BY <1>2, <1>3, <2>1
<1>9. QED BY <1>2, <1>3, <1>4, <1>5, <1>6, <1>7, <1>8, CallsAreTheSame, CallsStep

(* A handler that ends gives the flag back.                                *)
LEMMA ResumeTlmStep ==
    ASSUME Inv, NoneIsNoCall, NEW s \in Slot, ResumeTlm(s)
    PROVE  Inv'
<1> DEFINE feed == calls[s].feed
<1>1. calls[s] # None /\ calls[s].op = "tlm"
      BY DEF ResumeTlm
<1>2. /\ changingActivityList \in [Visit -> BOOLEAN] /\ received \subseteq DOMAIN messages
      /\ calls' = [calls EXCEPT ![s] = None]
      /\ changingActivityList' = [changingActivityList EXCEPT ![feed] = FALSE]
      /\ UNCHANGED <<messages, received, url, visits, mounted, loadActivitiesPromise, rejected>>
      BY DEF ResumeTlm, pageVars, Inv, FeedInv, ServerInv
<1>3. mounted /\ loadActivitiesPromise # None => loadActivitiesPromise # s
      BY <1>1 DEF Inv, FeedInv, MountedInv
<1>4. changingActivityList' \in [Visit -> BOOLEAN]
      BY <1>2
<1>5. mounted /\ changingActivityList'[Feed] => changingActivityList[Feed] /\ feed # Feed
      <2>1. mounted => Feed \in Visit
            BY LenProperties DEF Inv, FeedInv, ServerInv, MountedInv, Feed, Visit
      <2>2. QED BY <1>2, <2>1
<1>6. s \in Updating(Feed) => feed = Feed
      BY DEF Updating
<1>7. QED BY <1>2, <1>3, <1>4, <1>5, <1>6, CallsAreTheSame, CallsStep

(* A handler that is rejected has not taken the flag, or the flag is lost. *)
LEMMA RejectTlmStep ==
    ASSUME Inv, NoneIsNoCall, NEW s \in Slot, RejectTlm(s)
    PROVE  Inv'
<1> DEFINE call == calls[s]
<1>1. call # None /\ call.op = "tlm" /\ call.phase \in {"fetching", "building"}
      BY DEF RejectTlm
<1>2. /\ changingActivityList \in [Visit -> BOOLEAN] /\ received \subseteq DOMAIN messages
      /\ calls' = [calls EXCEPT ![s] = None]
      /\ rejected' = rejected \cup
            {[feed |-> call.feed, event |-> call.event, phase |-> call.phase]}
      /\ UNCHANGED <<messages, received, url, visits, mounted, changingActivityList,
                     loadActivitiesPromise>>
      BY DEF RejectTlm, pageVars, feedVars, Inv, FeedInv, ServerInv
<1>3. mounted /\ loadActivitiesPromise # None => loadActivitiesPromise # s
      BY <1>1 DEF Inv, FeedInv, MountedInv
<1>4. CASE s \in Updating(Feed)
      <2>1. call.feed = Feed /\ call.phase = "building"
            BY <1>1, <1>4 DEF Updating
      <2>2. FlagIsHeld'
            <3>1. [feed |-> call.feed, event |-> call.event, phase |-> call.phase] \in rejected'
                  BY <1>2
            <3>2. Feed' = Feed
                  BY <1>2 DEF Feed
            <3>3. FlagIsLost'
                  BY <2>1, <3>1, <3>2 DEF FlagIsLost
            <3>4. QED BY <3>3 DEF FlagIsHeld
      <2>3. CallsInv' /\ MountedInv' /\ ServerInv'
            BY <1>2, <1>3 DEF Inv, FeedInv, ServerInv, CallsInv, MountedInv, Busy, Feed, OfMounted
      <2>4. QED BY <2>2, <2>3 DEF Inv, FeedInv
<1>5. CASE s \notin Updating(Feed)
      BY <1>2, <1>3, <1>5, CallsAreTheSame, CallsStep
<1>6. QED BY <1>4, <1>5

-----------------------------------------------------------------------------
(* The server and the navigation.                                          *)
LEMMA SomeoneActsStep ==
    ASSUME Inv, SomeoneActs
    PROVE  Inv'
<1>1. PICK c \in Content, kind \in Kinds[Len(messages) + 1] : messages' = Append(messages, [content |-> c, kind |-> kind])
      BY DEF SomeoneActs
<1>2. /\ messages' \in Seq([content : Content, kind : STRING])
      /\ \A e \in DOMAIN messages : e \in DOMAIN messages' /\ messages'[e] = messages[e]
    <2>1. messages \in Seq([content : Content, kind : STRING]) /\ Len(messages) \in Nat
          BY LenProperties DEF Inv, FeedInv, ServerInv
    <2>2. kind \in STRING
          BY <2>1, CountAssumption, KindAssumption DEF SomeoneActs
    <2>3. [content |-> c, kind |-> kind] \in [content : Content, kind : STRING]
          BY <2>2
    <2>4. QED BY <1>1, <2>1, <2>3, AppendProperties, LenProperties
<1>3. UNCHANGED <<received, url, visits, mounted, changingActivityList, loadActivitiesPromise, calls,
                  rejected>>
      BY DEF SomeoneActs, pageVars, feedVars, historyVars
<1>4. QED BY <1>2, <1>3 DEF Inv, FeedInv, ServerInv, CallsInv, MountedInv, FlagIsHeld, FlagIsLost,
                            Updating, Busy, Feed, OfMounted

LEMMA OpenPageStep ==
    ASSUME Inv, NoneIsNoCall, NEW page \in Space \cup {Elsewhere}, OpenPage(page)
    PROVE  Inv'
<1>1. ~mounted' /\ mounted' \in BOOLEAN /\ url' \in Space \cup {Elsewhere}
      /\ UNCHANGED <<messages, received, visits, changingActivityList>>
      BY DEF OpenPage
<1>2. SameCalls(calls')
      <2>1. CASE mounted
            BY <2>1, CancelledAreTheSame DEF OpenPage
      <2>2. CASE ~mounted
            BY <2>2, CallsAreTheSame DEF OpenPage
      <2>3. QED BY <2>1, <2>2
<1>3. CallsInv'
      BY <1>1, <1>2 DEF CallsInv, SameCalls, Busy
<1>4. QED BY <1>1, <1>3 DEF Inv, FeedInv, ServerInv, MountedInv, FlagIsHeld

(* A new feed has its flag, and a load that will give it back.             *)
LEMMA MountFeedStep ==
    ASSUME Inv, NoneIsNoCall, MountFeed
    PROVE  Inv'
<1> DEFINE v == Len(visits) + 1
           first == FreeSlot
           second == Min(Free \ {first})
           load == Entered(LoadCall(v, LoadCount, TRUE))
<1>1. /\ visits \in Seq(Space) /\ Len(visits) \in Nat /\ Len(visits) < MaxVisit /\ url \in Space
      /\ changingActivityList \in [Visit -> BOOLEAN]
      BY LenProperties DEF Inv, FeedInv, ServerInv, MountedInv, MountFeed
<1>2. /\ visits' \in Seq(Space) /\ Len(visits') = v /\ visits'[v] = url /\ v \in Visit
      BY <1>1, AppendProperties, CountAssumption DEF MountFeed, Visit
<1>3. /\ first \in Slot /\ calls[first] = None
      /\ second \in Slot /\ calls[second] = None /\ second # first
      BY TwoFreeSlots DEF MountFeed
<1>4. /\ IsCall(load, v, received)
      /\ load.op = "load" /\ load.feed = v /\ load.phase = "asking"
      BY <1>1 DEF LoadCall, Entered, IsCall
<1>5. load # None
      BY <1>4 DEF NoneIsNoCall, IsCall
<1>6. /\ mounted' /\ changingActivityList' = [changingActivityList EXCEPT ![v] = TRUE]
      /\ UNCHANGED <<messages, received, url>>
      /\ \/ /\ calls' = [calls EXCEPT ![first] = load, ![second] = load]
            /\ loadActivitiesPromise' = second
         \/ /\ calls' = [calls EXCEPT ![first] = load]
            /\ loadActivitiesPromise' = first
      BY DEF MountFeed
<1> HIDE DEF first, second, load
<1>7. /\ calls' = [s \in Slot |-> calls'[s]]
      /\ \A s \in Slot : calls'[s] = calls[s] \/ calls'[s] = load
      /\ calls'[loadActivitiesPromise'] = load /\ loadActivitiesPromise' \in Slot
      <2>1. calls = [s \in Slot |-> calls[s]]
            BY DEF Inv, FeedInv, CallsInv
      <2>2. QED BY <1>3, <1>6, <2>1
<1>8. ServerInv'
      <2>1. changingActivityList' \in [Visit -> BOOLEAN]
            BY <1>1, <1>6
      <2>2. Len(visits') <= MaxVisit
            BY <1>1, <1>2, CountAssumption
      <2>3. QED BY <1>2, <1>6, <2>1, <2>2 DEF Inv, FeedInv, ServerInv
<1>9. CallsInv'
      <2>1. ASSUME NEW s \in Slot, calls'[s] # None
            PROVE  IsCall(calls'[s], v, received)
            <3>1. CASE calls'[s] = load
                  BY <1>4, <3>1
            <3>2. CASE calls'[s] = calls[s]
                  <4>1. IsCall(calls[s], Len(visits), received)
                        BY <2>1, <3>2 DEF Inv, FeedInv, CallsInv, Busy
                  <4>2. QED BY <1>1, <3>2, <4>1 DEF IsCall
            <3>3. QED BY <1>7, <3>1, <3>2
      <2>2. QED BY <1>2, <1>6, <1>7, <2>1 DEF CallsInv, Busy
<1>10. MountedInv'
       BY <1>1, <1>2, <1>4, <1>5, <1>6, <1>7 DEF MountedInv, Feed, Busy, OfMounted
<1>11. FlagIsHeld'
       <2>1. loadActivitiesPromise' \in Updating(Feed)'
             BY <1>2, <1>4, <1>5, <1>7 DEF Updating, Busy, Feed
       <2>2. QED BY <2>1 DEF FlagIsHeld
<1>12. QED BY <1>8, <1>9, <1>10, <1>11 DEF Inv, FeedInv

-----------------------------------------------------------------------------
LEMMA InvStep == ASSUME NoneIsNoCall PROVE Inv /\ [Next]_vars => Inv'
<1> SUFFICES ASSUME Inv, [Next]_vars PROVE Inv'
    OBVIOUS
<1>1. CASE HandleRefreshClicked \/ UNCHANGED vars
      <2>1. UNCHANGED <<messages, received, url, visits, mounted, changingActivityList,
                        loadActivitiesPromise, calls, rejected>>
            BY <1>1 DEF HandleRefreshClicked, vars, pageVars, feedVars, historyVars
      <2>2. QED BY <2>1 DEF Inv, FeedInv, ServerInv, CallsInv, MountedInv, FlagIsHeld, FlagIsLost,
                            Updating, Busy, Feed, OfMounted
<1>2. ASSUME NEW s \in Slot, Continues(s)
      PROVE  Inv'
      BY <1>2, EnterLoadStep, AnswerBatchStep, ResumeLoadStep, TlmEnters, ResumeTlmStep,
         RejectTlmStep
         DEF Continues
<1>3. QED BY <1>1, <1>2, SomeoneActsStep, OpenPageStep, MountFeedStep, SetWorkspaceListStep,
             HandleClickLoadMoreStep, HandleTlmStep DEF Next

(* Whatever is cancelled, fails or waits, and for any number of feeds and  *)
(* of updates that overlap: the flag of the mounted feed is set only while *)
(* an update is under way that will give it back, or since the handler of  *)
(* a live message was rejected that had taken it (FlagIsLost).  No load    *)
(* leaves it set, however it ends.                                         *)
THEOREM TheFlagIsGivenBack == ASSUME NoneIsNoCall PROVE Spec => []FlagIsHeld
<1>1. Inv => FlagIsHeld
      BY DEF Inv
<1>2. Inv /\ [Next]_vars => Inv'
      BY InvStep
<1>3. QED BY <1>1, <1>2, InitInv, PTL DEF Spec

-----------------------------------------------------------------------------
(* Ranks that differ are onto: each from 1 to the number of elements.      *)
LEMMA RanksAreOnto ==
    ASSUME NEW S, IsFiniteSet(S), NEW f \in [S -> 1..Cardinality(S)],
           \A x, y \in S : f[x] = f[y] => x = y
    PROVE  \A n \in 1..Cardinality(S) : \E x \in S : f[x] = n
<1>1. Cardinality(S) \in Nat
      BY FS_CardinalityType
<1>2. IsFiniteSet(1..Cardinality(S)) /\ Cardinality(1..Cardinality(S)) = Cardinality(S)
      BY <1>1, FS_Interval
<1>3. f \in Injection(S, 1..Cardinality(S))
      BY DEF Injection, IsInjective
<1>4. f \in Surjection(S, 1..Cardinality(S))
      BY <1>2, <1>3, FS_Injection
<1>5. QED BY <1>4 DEF Surjection

LEMMA FewerElements ==
    ASSUME NEW T, IsFiniteSet(T), NEW S \in SUBSET T
    PROVE  /\ Cardinality(S) \in Nat /\ Cardinality(T) \in Nat
           /\ Cardinality(S) <= Cardinality(T)
           /\ \A x \in T : x \notin S => Cardinality(S) < Cardinality(T)
BY FS_Subset, FS_CardinalityType

(* A total preorder (above) ranks the elements: a rank counts the elements *)
(* at or above one.                                                        *)
LEMMA RanksOfAnOrder ==
    ASSUME NEW S, IsFiniteSet(S), NEW above,
           \A x \in S : above[x] \in SUBSET S /\ x \in above[x],
           \A x, y \in S : x # y =>
              \/ above[x] \subseteq above[y] /\ y \notin above[x]
              \/ above[y] \subseteq above[x] /\ x \notin above[y]
    PROVE  /\ \A x \in S : Cardinality(above[x]) \in 1..Cardinality(S)
           /\ \A x, y \in S : Cardinality(above[x]) = Cardinality(above[y]) => x = y
           /\ \A n \in 1..Cardinality(S) : \E x \in S : Cardinality(above[x]) = n
<1>1. \A x \in S : Cardinality(above[x]) \in 1..Cardinality(S)
      <2> SUFFICES ASSUME NEW x \in S PROVE Cardinality(above[x]) \in 1..Cardinality(S)
          OBVIOUS
      <2>1. Cardinality(above[x]) \in Nat /\ Cardinality(S) \in Nat
            /\ Cardinality(above[x]) <= Cardinality(S) /\ IsFiniteSet(above[x])
            BY FewerElements, FS_Subset
      <2>2. Cardinality(above[x]) # 0
            BY <2>1, FS_EmptySet
      <2>3. QED BY <2>1, <2>2
<1>2. ASSUME NEW x \in S, NEW y \in S, x # y
      PROVE  Cardinality(above[x]) # Cardinality(above[y])
      <2>1. IsFiniteSet(above[x]) /\ IsFiniteSet(above[y])
            BY FS_Subset
      <2>2. CASE above[x] \subseteq above[y] /\ y \notin above[x]
            BY <2>1, <2>2, FewerElements
      <2>3. CASE above[y] \subseteq above[x] /\ x \notin above[y]
            BY <2>1, <2>3, FewerElements
      <2>4. QED BY <1>2, <2>2, <2>3
<1> DEFINE f == [x \in S |-> Cardinality(above[x])]
<1>3. f \in [S -> 1..Cardinality(S)] /\ \A x, y \in S : f[x] = f[y] => x = y
      BY <1>1, <1>2
<1>4. \A n \in 1..Cardinality(S) : \E x \in S : f[x] = n
      <2> HIDE DEF f
      <2>1. QED BY <1>3, RanksAreOnto
<1>5. QED BY <1>1, <1>2, <1>4

(* The list of the activities of events has each once, and nothing else.   *)
LEMMA NewestFirstLists ==
    ASSUME NEW events \in SUBSET Int, IsFiniteSet(events)
    PROVE  LET l == NewestFirst(events)
           IN /\ Cardinality(events) \in Nat /\ DOMAIN l = 1..Cardinality(events)
              /\ \A i \in DOMAIN l : \E e \in events : l[i] = ActivityOf(e)
              /\ \A e \in events : \E i \in DOMAIN l : l[i] = ActivityOf(e)
              /\ \A i, j \in DOMAIN l : l[i] = l[j] => i = j
<1> DEFINE above == [e \in events |-> {f \in events : f >= e}]
           Rank(e) == Cardinality({f \in events : f >= e})
           n == Cardinality(events)
           At(i) == CHOOSE e \in events : Rank(e) = i
           l == NewestFirst(events)
<1>1. /\ \A e \in events : above[e] \in SUBSET events /\ e \in above[e]
      /\ \A e, f \in events : e # f =>
            \/ above[e] \subseteq above[f] /\ f \notin above[e]
            \/ above[f] \subseteq above[e] /\ e \notin above[f]
      <2>1. ASSUME NEW e \in events, NEW f \in events, e < f
            PROVE  above[f] \subseteq above[e] /\ e \notin above[f]
            <3>1. e \in Int /\ f \in Int /\ \A g \in events : g \in Int
                  OBVIOUS
            <3>2. above[e] = {g \in events : g >= e} /\ above[f] = {g \in events : g >= f}
                  OBVIOUS
            <3> HIDE DEF above
            <3>3. \A g \in above[f] : g \in events /\ g >= e
                  <4>1. \A g \in events : g >= f => g >= e
                        BY <2>1, <3>1
                  <4>2. QED BY <3>2, <4>1
            <3>4. QED BY <2>1, <3>1, <3>2, <3>3
      <2>2. \A e \in events : above[e] \in SUBSET events /\ e \in above[e]
            OBVIOUS
      <2>3. \A e, f \in events : e # f => e < f \/ f < e
            OBVIOUS
      <2> HIDE DEF above
      <2>4. QED BY <2>1, <2>2, <2>3
<1>2. n \in Nat
      BY FS_CardinalityType
<1>3. \A e \in events : Cardinality(above[e]) = Rank(e)
      OBVIOUS
<1>4. /\ \A e \in events : Rank(e) \in 1..n
      /\ \A e, f \in events : Rank(e) = Rank(f) => e = f
      /\ \A i \in 1..n : \E e \in events : Rank(e) = i
      <2> HIDE DEF above, Rank
      <2>1. /\ \A e \in events : Cardinality(above[e]) \in 1..n
            /\ \A e, f \in events : Cardinality(above[e]) = Cardinality(above[f]) => e = f
            /\ \A i \in 1..n : \E e \in events : Cardinality(above[e]) = i
            BY <1>1, RanksOfAnOrder
      <2>2. QED BY <1>3, <2>1
<1>5. l = [i \in 1..n |-> ActivityOf(At(i))]
      BY DEF NewestFirst
<1> HIDE DEF above, Rank, l, n
<1>6. \A i \in 1..n : At(i) \in events /\ Rank(At(i)) = i
      BY <1>4
<1>7. \A e \in events : At(Rank(e)) = e
      BY <1>4, <1>6
<1> HIDE DEF At
<1>8. \A e \in events : \E i \in 1..n : l[i] = ActivityOf(e)
      BY <1>4, <1>5, <1>7
<1>9. \A i, j \in 1..n : l[i] = l[j] => i = j
      BY <1>5, <1>6 DEF ActivityOf
<1>10. \A i \in 1..n : \E e \in events : l[i] = ActivityOf(e)
      BY <1>5, <1>6
<1>11. DOMAIN l = 1..n
      BY <1>5
<1>12. QED BY <1>2, <1>8, <1>9, <1>10, <1>11 DEF l, n

(* Sorting reorders: each activity of the list is there once.              *)
LEMMA SortReorders ==
    ASSUME NEW activities \in Seq(Activity)
    PROVE  LET l == SortActivityList(activities)
           IN /\ l \in Seq(Activity) /\ DOMAIN l = DOMAIN activities
              /\ ToSet(l) = ToSet(activities)
              /\ \E from \in [DOMAIN l -> DOMAIN l] :
                    \A i, j \in DOMAIN l :
                       l[i] = activities[from[i]] /\ (from[i] = from[j] => i = j)
<1> DEFINE above == [i \in DOMAIN activities |->
                       {j \in DOMAIN activities :
                          \/ activities[j].newest > activities[i].newest
                          \/ activities[j].newest = activities[i].newest /\ j <= i}]
           n == Len(activities)
           from == [k \in 1..n |-> CHOOSE i \in 1..n : Place(activities, i) = k]
           l == SortActivityList(activities)
<1>1. n \in Nat /\ DOMAIN activities = 1..n /\ activities \in [1..n -> Activity]
      BY LenProperties
<1>2. \A i \in 1..n : activities[i].newest \in Int
      BY <1>1 DEF Activity, Message
<1>3. /\ \A i \in 1..n : above[i] \in SUBSET (1..n) /\ i \in above[i]
      /\ \A i, j \in 1..n : i # j =>
            \/ above[i] \subseteq above[j] /\ j \notin above[i]
            \/ above[j] \subseteq above[i] /\ i \notin above[j]
      BY <1>1, <1>2
<1>4. \A i \in 1..n : Cardinality(above[i]) = Place(activities, i)
      BY <1>1 DEF Place
<1>5. IsFiniteSet(1..n) /\ Cardinality(1..n) = n
      BY <1>1, FS_Interval
<1>6. /\ \A i \in 1..n : Place(activities, i) \in 1..n
      /\ \A i, j \in 1..n : Place(activities, i) = Place(activities, j) => i = j
      /\ \A k \in 1..n : \E i \in 1..n : Place(activities, i) = k
      <2> HIDE DEF above
      <2>1. /\ \A i \in 1..n : Cardinality(above[i]) \in 1..n
            /\ \A i, j \in 1..n : Cardinality(above[i]) = Cardinality(above[j]) => i = j
            /\ \A k \in 1..n : \E i \in 1..n : Cardinality(above[i]) = k
            BY <1>3, <1>5, RanksOfAnOrder
      <2>2. QED BY <1>4, <2>1
<1>7. l = [k \in 1..n |-> activities[from[k]]]
      BY <1>1 DEF SortActivityList
<1>8. \A k \in 1..n : from[k] \in 1..n /\ Place(activities, from[k]) = k
      BY <1>6
<1>9. \A i \in 1..n : from[Place(activities, i)] = i
      BY <1>6, <1>8
<1>10. from \in [1..n -> 1..n]
      BY <1>8
<1> HIDE DEF above, l, from, n
<1>11. l \in [1..n -> Activity]
      BY <1>1, <1>7, <1>8
<1>12. l \in Seq(Activity) /\ DOMAIN l = 1..n
      BY <1>1, <1>11, SeqDef
<1>13. ToSet(l) = ToSet(activities)
      <2>1. \A k \in 1..n : l[k] \in ToSet(activities)
            BY <1>1, <1>7, <1>8 DEF ToSet
      <2>2. \A i \in 1..n : activities[i] \in ToSet(l)
            BY <1>6, <1>7, <1>9, <1>12 DEF ToSet
      <2>3. QED BY <1>1, <1>12, <2>1, <2>2 DEF ToSet
<1>14. \A i, j \in 1..n : l[i] = activities[from[i]] /\ (from[i] = from[j] => i = j)
      BY <1>7, <1>8
<1>15. QED BY <1>1, <1>10, <1>12, <1>13, <1>14 DEF l

(* The newest events are as new as any that is among them.                 *)
LEMMA NewestAreNewer ==
    ASSUME NEW events \in SUBSET Int, IsFiniteSet(events), NEW count \in Int
    PROVE  /\ Newest(count, events) \subseteq events
           /\ \A e \in Newest(count, events), f \in events : f >= e => f \in Newest(count, events)
<1>1. ASSUME NEW e \in Newest(count, events), NEW f \in events, f >= e
      PROVE  f \in Newest(count, events)
      <2> DEFINE A == {g \in events : g > f}
                 B == {g \in events : g > e}
      <2>1. e \in events /\ e \in Int /\ f \in Int /\ Cardinality(B) < count
            BY DEF Newest
      <2>2. A \in SUBSET B
            <3>1. \A g \in events : g \in Int
                  OBVIOUS
            <3>2. \A g \in events : g > f => g > e
                  BY <1>1, <2>1, <3>1
            <3>3. QED BY <3>2
      <2>3. IsFiniteSet(B)
            BY FS_Subset
      <2> HIDE DEF A, B
      <2>4. Cardinality(A) <= Cardinality(B) /\ Cardinality(A) \in Nat /\ Cardinality(B) \in Nat
            BY <2>2, <2>3, FewerElements
      <2>5. Cardinality(A) < count
            BY <2>1, <2>4
      <2>6. QED BY <2>5 DEF Newest, A
<1>2. QED BY <1>1 DEF Newest

-----------------------------------------------------------------------------
MessagesInv == messages \in Seq([content : Content, kind : STRING]) /\ Len(messages) <= MaxMessage

(* A list holds activities of messages that were sent, no content twice.   *)
IsList(sent, l) ==
    /\ l \in Seq(Activity)
    /\ \A x \in ToSet(l) : x.newest \in DOMAIN sent /\ sent[x.newest].content = x.id
    /\ \A i, j \in DOMAIN l : l[i].id = l[j].id => i = j

LEMMA ItemsOfList ==
    ASSUME NEW l \in Seq(Activity)
    PROVE  /\ ToSet(l) \in SUBSET Activity
           /\ \A i \in DOMAIN l : l[i] \in ToSet(l)
           /\ \A x \in ToSet(l) : \E i \in DOMAIN l : l[i] = x
           /\ Ids(l) = {x.id : x \in ToSet(l)}
<1>1. DOMAIN l = 1..Len(l) /\ l \in [1..Len(l) -> Activity]
      BY LenProperties
<1>2. QED BY <1>1 DEF ToSet, Ids

LEMMA ActivitiesOfMessages ==
    ASSUME MessagesInv, NEW e \in DOMAIN messages
    PROVE  /\ e \in Message /\ messages[e].content \in Content
           /\ ActivityOf(e) \in Activity
           /\ ActivityOf(e).id = messages[e].content /\ ActivityOf(e).newest = e
<1>1. /\ DOMAIN messages = 1..Len(messages)
      /\ messages \in [1..Len(messages) -> [content : Content, kind : STRING]]
      BY LenProperties DEF MessagesInv
<1>2. Len(messages) \in Nat /\ Len(messages) <= MaxMessage
      BY LenProperties DEF MessagesInv
<1>3. e \in Message
      BY <1>1, <1>2, CountAssumption DEF Message
<1>4. messages[e].content \in Content
      BY <1>1
<1>5. QED BY <1>3, <1>4 DEF ActivityOf, Activity

LEMMA LastOfMessages ==
    ASSUME NEW S \in SUBSET Message, S # {}
    PROVE  \E x \in S : \A y \in S : y <= x
<1> DEFINE T == {MaxMessage - x : x \in S}
           R == OpToRel(<, Nat)
<1>1. \A x \in S : x \in Nat /\ MaxMessage - x \in Nat
      BY CountAssumption DEF Message
<1>2. T \in SUBSET Nat /\ T # {}
      BY <1>1
<1>3. IsWellFoundedOn(R, Nat)
      BY NatLessThanWellFounded, Zenon
<1>4. \A m, n \in Nat : m < n => <<m, n>> \in R
      BY DEF OpToRel
<1> HIDE DEF R, T
<1>5. PICK t \in T : \A u \in T : ~ (<<u, t>> \in R)
      BY <1>2, <1>3, WFMin
<1>6. \A u \in T : ~ (u < t)
      BY <1>2, <1>4, <1>5
<1>7. PICK x \in S : t = MaxMessage - x
      BY DEF T
<1>8. ASSUME NEW y \in S PROVE y <= x
      <2>1. MaxMessage - y \in T
            BY DEF T
      <2>2. QED BY <1>1, <1>6, <1>7, <2>1, CountAssumption
<1>9. QED BY <1>8

(* The activities that were listed stay; each other one is of the newest   *)
(* of the messages read about its content, which all are listed now.       *)
LEMMA MergeLists ==
    ASSUME MessagesInv, NEW activities, IsList(messages, activities),
           NEW read \in SUBSET DOMAIN messages
    PROVE  LET l == MergeWithActivityList(read, activities)
           IN /\ IsList(messages, l)
              /\ ToSet(activities) \subseteq ToSet(l)
              /\ \A e \in read : messages[e].content \in Ids(l)
              /\ \A x \in ToSet(l) \ ToSet(activities) :
                    /\ x.newest \in read /\ x.id = messages[x.newest].content
                    /\ x.id \notin Ids(activities)
                    /\ \A f \in read : messages[f].content = x.id => f <= x.newest
<1> DEFINE IsNewest(e) == \A f \in read : messages[f].content = messages[e].content => f <= e
           events == {e \in read : messages[e].content \notin Ids(activities) /\ IsNewest(e)}
           new == NewestFirst(events)
           l == MergeWithActivityList(read, activities)
           n == Len(activities)
           m == Cardinality(events)
           Adds(i, k, e) == i = n + k /\ new[k] = ActivityOf(e) /\ l[i] = ActivityOf(e)
<1>1. activities \in Seq(Activity) /\ DOMAIN activities = 1..n /\ n \in Nat
      BY LenProperties DEF IsList
<1>2. read \in SUBSET Nat /\ IsFiniteSet(read)
      <2>1. Len(messages) \in Nat /\ DOMAIN messages = 1..Len(messages)
            BY LenProperties DEF MessagesInv
      <2>2. IsFiniteSet(1..Len(messages)) /\ read \in SUBSET (1..Len(messages))
            BY <2>1, FS_Interval
      <2>3. IsFiniteSet(read)
            BY <2>2, FS_Subset
      <2>4. QED BY <2>1, <2>2, <2>3
<1>3. events \in SUBSET Int /\ IsFiniteSet(events)
      BY <1>2, FS_Subset
<1>4. /\ m \in Nat /\ DOMAIN new = 1..m
      /\ \A i \in 1..m : \E e \in events : new[i] = ActivityOf(e)
      /\ \A e \in events : \E i \in 1..m : new[i] = ActivityOf(e)
      /\ \A i, j \in 1..m : new[i] = new[j] => i = j
      <2> HIDE DEF events
      <2>1. QED BY <1>3, NewestFirstLists
<1>5. l = activities \o new
      BY DEF MergeWithActivityList
<1>6. \A e \in events : e \in read /\ messages[e].content \notin Ids(activities) /\ IsNewest(e)
      OBVIOUS
<1>7. \A e, f \in events : messages[e].content = messages[f].content => e = f
      BY <1>2, <1>6
<1> HIDE DEF events, new, l, n, m, IsNewest
<1>8. new \in Seq(Activity) /\ Len(new) = m
      <2>1. \A i \in 1..m : new[i] \in Activity
            BY <1>4, <1>6, ActivitiesOfMessages
      <2>2. new = [i \in 1..m |-> new[i]]
            BY <1>4 DEF new, NewestFirst, m
      <2>3. new \in [1..m -> Activity]
            BY <2>1, <2>2
      <2>4. new \in Seq(Activity)
            BY <1>4, <2>3, SeqDef
      <2>5. QED BY <1>4, <2>4, LenProperties
<1>9. /\ l \in Seq(Activity) /\ Len(l) = n + m
      /\ \A i \in 1..(n + m) : l[i] = IF i <= n THEN activities[i] ELSE new[i - n]
      BY <1>1, <1>5, <1>8, ConcatProperties DEF n
<1>10. DOMAIN l = 1..(n + m)
      BY <1>9, LenProperties
<1>11. ToSet(activities) \subseteq ToSet(l)
      <2> SUFFICES ASSUME NEW i \in 1..n PROVE activities[i] \in ToSet(l)
          BY <1>1 DEF ToSet
      <2>1. i \in 1..(n + m) /\ l[i] = activities[i]
            BY <1>1, <1>4, <1>9
      <2>2. QED BY <1>10, <2>1 DEF ToSet
<1>12. \A e \in events : ActivityOf(e) \in ToSet(l)
      <2> SUFFICES ASSUME NEW e \in events PROVE ActivityOf(e) \in ToSet(l)
          OBVIOUS
      <2>1. PICK i \in 1..m : new[i] = ActivityOf(e)
            BY <1>4
      <2>2. n + i \in 1..(n + m) /\ l[n + i] = ActivityOf(e)
            BY <1>1, <1>4, <1>9, <2>1
      <2>3. QED BY <1>10, <2>2 DEF ToSet
<1>13. \A i \in DOMAIN l : \/ i \in 1..n /\ l[i] = activities[i]
                           \/ \E k \in 1..m, e \in events : Adds(i, k, e)
      <2> SUFFICES ASSUME NEW i \in 1..(n + m), ~(i <= n)
                   PROVE  \E k \in 1..m, e \in events : Adds(i, k, e)
          BY <1>1, <1>4, <1>9, <1>10
      <2>1. i - n \in 1..m /\ i = n + (i - n) /\ l[i] = new[i - n]
            BY <1>1, <1>4, <1>9
      <2>2. QED BY <1>4, <2>1
<1>14. \A e \in events : /\ ActivityOf(e).id = messages[e].content /\ ActivityOf(e).newest = e
                         /\ e \in DOMAIN messages
      BY <1>6, ActivitiesOfMessages
<1>15. Ids(activities) = {x.id : x \in ToSet(activities)} /\ Ids(l) = {x.id : x \in ToSet(l)}
      BY <1>1, <1>9, ItemsOfList
<1>16. \A x \in ToSet(l) : x \in ToSet(activities) \/ \E e \in events : x = ActivityOf(e)
      <2>1. \A i \in 1..n : activities[i] \in ToSet(activities)
            BY <1>1 DEF ToSet
      <2>2. QED BY <1>13, <2>1 DEF ToSet
<1>17. IsList(messages, l)
      <2>1. \A x \in ToSet(l) : x.newest \in DOMAIN messages /\ messages[x.newest].content = x.id
            BY <1>14, <1>16 DEF IsList
      <2>2. ASSUME NEW i \in DOMAIN l, NEW j \in DOMAIN l, l[i].id = l[j].id
            PROVE  i = j
            <3>1. \A k \in 1..n : activities[k].id \in Ids(activities)
                  BY <1>1 DEF Ids
            <3>2. CASE i \in 1..n /\ l[i] = activities[i] /\ j \in 1..n /\ l[j] = activities[j]
                  BY <1>1, <2>2, <3>2 DEF IsList
            <3>3. CASE \E k \in 1..m, e \in events : Adds(i, k, e)
                  <4>1. PICK k \in 1..m, e \in events : Adds(i, k, e)
                        BY <3>3
                  <4>2. l[j].id \notin Ids(activities)
                        BY <1>6, <1>14, <2>2, <4>1
                  <4>3. PICK h \in 1..m, f \in events : Adds(j, h, f)
                        BY <1>13, <3>1, <4>2
                  <4>4. e = f
                        BY <1>7, <1>14, <2>2, <4>1, <4>3
                  <4>5. QED BY <1>4, <4>1, <4>3, <4>4
            <3>4. CASE \E k \in 1..m, e \in events : Adds(j, k, e)
                  <4>1. PICK k \in 1..m, e \in events : Adds(j, k, e)
                        BY <3>4
                  <4>2. l[i].id \notin Ids(activities)
                        BY <1>6, <1>14, <2>2, <4>1
                  <4>3. PICK h \in 1..m, f \in events : Adds(i, h, f)
                        BY <1>13, <3>1, <4>2
                  <4>4. e = f
                        BY <1>7, <1>14, <2>2, <4>1, <4>3
                  <4>5. QED BY <1>4, <4>1, <4>3, <4>4
            <3>5. QED BY <1>13, <3>2, <3>3, <3>4
      <2>3. QED BY <1>9, <2>1, <2>2 DEF IsList
<1>18. ASSUME NEW e \in read PROVE messages[e].content \in Ids(l)
      <2>1. CASE messages[e].content \in Ids(activities)
            BY <1>11, <1>15, <2>1
      <2>2. CASE messages[e].content \notin Ids(activities)
            <3> DEFINE about == {f \in read : messages[f].content = messages[e].content}
            <3>1. PICK f \in about : \A g \in about : g <= f
                  <4>1. about # {} /\ about \in SUBSET Message
                        BY ActivitiesOfMessages
                  <4> HIDE DEF about
                  <4>2. QED BY <4>1, LastOfMessages
            <3>2. f \in events
                  BY <2>2, <3>1 DEF events, IsNewest
            <3>3. QED BY <1>12, <1>14, <1>15, <3>1, <3>2
      <2>3. QED BY <2>1, <2>2
<1>19. ASSUME NEW x \in ToSet(l) \ ToSet(activities)
      PROVE  /\ x.newest \in read /\ x.id = messages[x.newest].content
             /\ x.id \notin Ids(activities)
             /\ \A f \in read : messages[f].content = x.id => f <= x.newest
      <2>1. PICK e \in events : x = ActivityOf(e)
            BY <1>16
      <2>2. x.id = messages[e].content /\ x.newest = e
            BY <1>14, <2>1
      <2>3. QED BY <1>6, <2>2 DEF IsNewest
<1>20. QED BY <1>11, <1>17, <1>18, <1>19 DEF l

(* A page read: what is listed after it, whether more is left, and where   *)
(* the next one starts.                                                    *)
IsPage(sent, l, hasNext, token) ==
    IsList(sent, l) /\ hasNext \in BOOLEAN /\ token \in 1..FirstPage

(* For the messages known of a space: those from the token on are listed,  *)
(* and no activity listed is older than one of its messages.               *)
Covers(sent, space, listed, token, known) ==
    \A e \in known : SpaceOf[sent[e].content] = space =>
        /\ e >= token => \E x \in listed : x.id = sent[e].content
        /\ \A x \in listed : x.id = sent[e].content => x.newest >= e

(* The answer of the server to a load: it goes on from the page it has.    *)
LEMMA BatchLists ==
    ASSUME MessagesInv, NEW activities, NEW token, IsPage(messages, activities, TRUE, token),
           NEW space
    PROVE  LET b == LoadActivitiesBatch(Older(space, token), activities, token)
           IN /\ IsPage(messages, b.list, b.hasNext, b.token)
              /\ \A x \in ToSet(b.list) : x \in ToSet(activities) \/ SpaceOf[x.id] = space
              /\ \A known \in SUBSET DOMAIN messages :
                    Covers(messages, space, ToSet(activities), token, known) =>
                    Covers(messages, space, ToSet(b.list), b.token, known)
<1> DEFINE older == Older(space, token)
           Counts == {n \in 0..Cardinality(older) :
                        \/ n = Cardinality(older)
                        \/ /\ n % PageSize = 0
                           /\ Len(MergeWithActivityList(Newest(n, older), activities)) >=
                              Len(activities) + BatchCount}
           read == Newest(Min(Counts), older)
           l == MergeWithActivityList(read, activities)
           next == IF read = {} THEN token ELSE Min(read)
           b == LoadActivitiesBatch(older, activities, token)
<1>1. b = [list |-> l, hasNext |-> read # older, token |-> next]
      BY DEF LoadActivitiesBatch
<1>2. /\ DOMAIN messages = 1..Len(messages) /\ Len(messages) \in Nat
      /\ Len(messages) <= MaxMessage /\ MaxMessage \in Nat
      BY LenProperties, CountAssumption DEF MessagesInv
<1>3. older \in SUBSET (1..Len(messages)) /\ \A e \in older : SpaceOfEvent(e) = space /\ e < token
      BY <1>2 DEF Older
<1>4. IsFiniteSet(older) /\ Cardinality(older) \in Nat
      <2>1. IsFiniteSet(1..Len(messages))
            BY <1>2, FS_Interval
      <2> HIDE DEF older
      <2>2. QED BY <1>3, <2>1, FS_Subset, FS_CardinalityType
<1>5. Min(Counts) \in Nat
      <2>1. Counts \in SUBSET Nat /\ Counts # {}
            <3> HIDE DEF older
            <3>1. Cardinality(older) \in Counts
                  BY <1>4
            <3>2. QED BY <1>4, <3>1
      <2> HIDE DEF Counts
      <2>2. QED BY <2>1, MinIsIn
<1>6. read \subseteq older /\ \A e \in read, f \in older : f >= e => f \in read
      <2> HIDE DEF Counts, older
      <2>1. older \in SUBSET Int
            BY <1>2, <1>3
      <2>2. QED BY <1>4, <1>5, <2>1, NewestAreNewer
<1> HIDE DEF Counts, read, older, l, next, b
<1>7. next \in 1..FirstPage /\ (read # {} => next \in read) /\ (read = {} => next = token)
      <2>1. token \in 1..FirstPage
            BY DEF IsPage
      <2>2. read \in SUBSET Nat
            BY <1>2, <1>3, <1>6
      <2>3. read # {} => Min(read) \in read
            BY <2>2, MinIsIn
      <2>4. \A e \in read : e \in 1..FirstPage
            BY <1>2, <1>3, <1>6 DEF FirstPage
      <2>5. QED BY <2>1, <2>3, <2>4 DEF next
<1>8. /\ IsList(messages, l)
      /\ ToSet(activities) \subseteq ToSet(l)
      /\ \A e \in read : messages[e].content \in Ids(l)
      /\ \A x \in ToSet(l) \ ToSet(activities) :
            /\ x.newest \in read /\ x.id = messages[x.newest].content
            /\ x.id \notin Ids(activities)
            /\ \A f \in read : messages[f].content = x.id => f <= x.newest
      <2>1. read \in SUBSET DOMAIN messages
            BY <1>2, <1>3, <1>6
      <2>2. QED BY <2>1, MergeLists DEF l, IsPage
<1>9. \A x \in ToSet(l) : x \in ToSet(activities) \/ SpaceOf[x.id] = space
      BY <1>3, <1>6, <1>8 DEF SpaceOfEvent
<1>10. Ids(activities) = {x.id : x \in ToSet(activities)} /\ Ids(l) = {x.id : x \in ToSet(l)}
      BY <1>8, ItemsOfList DEF IsPage, IsList
<1>11. ASSUME NEW known \in SUBSET DOMAIN messages,
              Covers(messages, space, ToSet(activities), token, known)
       PROVE  Covers(messages, space, ToSet(l), next, known)
       <2> SUFFICES ASSUME NEW e \in known, SpaceOf[messages[e].content] = space
                    PROVE  /\ e >= next => \E x \in ToSet(l) : x.id = messages[e].content
                           /\ \A x \in ToSet(l) : x.id = messages[e].content => x.newest >= e
           BY DEF Covers
       <2>1. e \in 1..Len(messages) /\ e \in Nat /\ token \in Nat /\ next \in Nat
             BY <1>2, <1>7 DEF IsPage, FirstPage
       <2>2. /\ e >= token => \E x \in ToSet(activities) : x.id = messages[e].content
             /\ \A x \in ToSet(activities) : x.id = messages[e].content => x.newest >= e
             BY <1>11 DEF Covers
       <2>3. e < token => e \in older
             BY <1>2, <2>1 DEF older, Older, SpaceOfEvent
       <2>4. ASSUME e >= next PROVE \E x \in ToSet(l) : x.id = messages[e].content
             <3>1. CASE e >= token
                   BY <1>8, <2>2, <3>1
             <3>2. CASE e < token
                   BY <1>6, <1>7, <1>8, <1>10, <2>1, <2>3, <2>4, <3>2
             <3>3. QED BY <2>1, <3>1, <3>2
       <2>5. ASSUME NEW x \in ToSet(l), x.id = messages[e].content PROVE x.newest >= e
             <3>1. CASE x \in ToSet(activities)
                   BY <2>2, <2>5, <3>1
             <3>2. CASE x \notin ToSet(activities)
                   <4>1. /\ x.newest \in read /\ x.newest \in older /\ x.newest \in Nat
                         /\ x.id \notin Ids(activities)
                         /\ \A f \in read : messages[f].content = x.id => f <= x.newest
                         <5>1. x \in ToSet(l) \ ToSet(activities)
                               BY <3>2
                         <5>2. \A f \in read : f \in older /\ f \in Nat
                               BY <1>2, <1>3, <1>6
                         <5>3. QED BY <1>8, <5>1, <5>2
                   <4>2. e < token
                         BY <1>10, <2>1, <2>2, <2>5, <4>1
                   <4>3. e \in older
                         BY <2>3, <4>2
                   <4>4. CASE e \in read
                         BY <2>1, <2>5, <4>1, <4>4
                   <4>5. CASE e \notin read
                         BY <1>6, <2>1, <4>1, <4>3, <4>5
                   <4>6. QED BY <4>4, <4>5
             <3>3. QED BY <3>1, <3>2
       <2>6. QED BY <2>4, <2>5
<1>12. IsPage(messages, b.list, b.hasNext, b.token) /\ b.list = l /\ b.token = next
       BY <1>1, <1>7, <1>8 DEF IsPage
<1>13. QED BY <1>9, <1>11, <1>12 DEF b, older

(* A live message puts the activity of its content where it was, or first. *)
LEMMA AddMessageLists ==
    ASSUME MessagesInv, NEW activities, IsList(messages, activities), NEW e \in DOMAIN messages
    PROVE  LET l == AddMessageToActivityList(e, activities)
           IN /\ IsList(messages, l)
              /\ ActivityOf(e) \in ToSet(l)
              /\ \A x \in ToSet(l) \ {ActivityOf(e)} : x.id # messages[e].content /\ x \in ToSet(activities)
              /\ \A x \in ToSet(activities) : x.id # messages[e].content => x \in ToSet(l)
<1> DEFINE n == Len(activities)
           a == ActivityOf(e)
           l == AddMessageToActivityList(e, activities)
<1>1. activities \in Seq(Activity) /\ DOMAIN activities = 1..n /\ n \in Nat
      /\ activities \in [1..n -> Activity]
      BY LenProperties DEF IsList
<1>2. a \in Activity /\ a.id = messages[e].content /\ a.newest = e
      BY ActivitiesOfMessages
<1>3. \A i \in 1..n : activities[i].newest \in DOMAIN messages
                     /\ messages[activities[i].newest].content = activities[i].id
      BY <1>1 DEF IsList, ToSet
<1>4. \A i, j \in 1..n : activities[i].id = activities[j].id => i = j
      BY <1>1 DEF IsList
<1> HIDE DEF n, a, l
<1>5. CASE messages[e].content \in Ids(activities)
      <2>1. l = [i \in 1..n |-> IF activities[i].id = messages[e].content THEN a ELSE activities[i]]
            BY <1>1, <1>5 DEF l, a, AddMessageToActivityList
      <2>2. PICK k \in 1..n : activities[k].id = messages[e].content
            BY <1>1, <1>5 DEF Ids
      <2>3. l \in [1..n -> Activity]
            BY <1>1, <1>2, <2>1
      <2>4. l \in Seq(Activity) /\ DOMAIN l = 1..n
            BY <1>1, <2>3, SeqDef
      <2>5. \A i, j \in 1..n : l[i].id = l[j].id => i = j
            BY <1>2, <1>4, <2>1
      <2>6. \A i \in 1..n : l[i] = a \/ (l[i] = activities[i] /\ activities[i].id # messages[e].content)
            BY <2>1
      <2>7. a \in ToSet(l)
            BY <2>1, <2>2, <2>4 DEF ToSet
      <2>8. \A x \in ToSet(l) \ {a} : x.id # messages[e].content /\ x \in ToSet(activities)
            BY <1>1, <2>4, <2>6 DEF ToSet
      <2>9. \A x \in ToSet(activities) : x.id # messages[e].content => x \in ToSet(l)
            BY <1>1, <2>1, <2>4 DEF ToSet
      <2>10. IsList(messages, l)
            BY <1>2, <2>4, <2>5, <2>8 DEF IsList
      <2>11. QED BY <2>7, <2>8, <2>9, <2>10 DEF l, a
<1>6. CASE messages[e].content \notin Ids(activities)
      <2>1. l = <<a>> \o activities
            BY <1>6 DEF l, a, AddMessageToActivityList
      <2>2. <<a>> \in Seq(Activity) /\ Len(<<a>>) = 1 /\ <<a>>[1] = a
            BY <1>2
      <2>3. /\ l \in Seq(Activity) /\ Len(l) = 1 + n
            /\ \A i \in 1..(1 + n) : l[i] = IF i <= 1 THEN <<a>>[i] ELSE activities[i - 1]
            BY <1>1, <2>1, <2>2, ConcatProperties DEF n
      <2>4. /\ DOMAIN l = 1..(1 + n) /\ l[1] = a /\ 1 \in 1..(1 + n)
            /\ \A i \in 1..(1 + n) : i # 1 => i - 1 \in 1..n /\ l[i] = activities[i - 1]
            /\ \A i \in 1..n : i + 1 \in 1..(1 + n) /\ l[i + 1] = activities[i]
            BY <1>1, <2>2, <2>3, LenProperties
      <2>5. \A i \in 1..n : activities[i].id # messages[e].content
            BY <1>1, <1>6 DEF Ids
      <2>6. \A i \in 1..n : activities[i] \in ToSet(activities)
            BY <1>1 DEF ToSet
      <2>7. \A i \in 1..n : activities[i] \in ToSet(l)
            <3>1. \A i \in 1..(1 + n) : l[i] \in ToSet(l)
                  BY <2>4 DEF ToSet
            <3>2. QED BY <2>4, <3>1
      <2>8. a \in ToSet(l)
            BY <2>4 DEF ToSet
      <2>9. \A x \in ToSet(l) \ {a} : x.id # messages[e].content /\ x \in ToSet(activities)
            BY <2>4, <2>5, <2>6 DEF ToSet
      <2>10. \A x \in ToSet(activities) : x.id # messages[e].content => x \in ToSet(l)
            BY <1>1, <2>7 DEF ToSet
      <2>11. \A i, j \in 1..(1 + n) : l[i].id = l[j].id => i = j
            BY <1>1, <1>2, <1>4, <2>4, <2>5
      <2>12. IsList(messages, l)
            BY <1>2, <2>3, <2>4, <2>9, <2>11 DEF IsList
      <2>13. QED BY <2>8, <2>9, <2>10, <2>12 DEF l, a
<1>7. QED BY <1>5, <1>6

-----------------------------------------------------------------------------
(* A load holds the page it goes on from; an answer adds activities of the *)
(* space of its feed.                                                      *)
LoadInv(sent, spaces, call) ==
    /\ {"reset", "goal", "list", "hasNext", "token", "answer", "cancelled"} \subseteq DOMAIN call
    /\ IsPage(sent, call.list, call.hasNext, call.token)
    /\ call.reset \in BOOLEAN /\ call.cancelled \in BOOLEAN
    /\ call.phase \in {"waiting", "asking"}
    /\ call.answer # None =>
          /\ ~call.cancelled /\ call.phase = "asking"
          /\ IsPage(sent, call.answer.list, call.answer.hasNext, call.answer.token)
          /\ \A x \in ToSet(call.answer.list) :
                x \in ToSet(call.list) \/ SpaceOf[x.id] = spaces[call.feed]

TlmInv(sent, call) ==
    call.phase # "fetching" => "list" \in DOMAIN call /\ IsList(sent, call.list)

HoldsLists(sent, spaces, call) ==
    /\ call.op \in {"load", "tlm"}
    /\ call.op = "load" => LoadInv(sent, spaces, call)
    /\ call.op = "tlm" => TlmInv(sent, call)

ListsInv ==
    /\ MessagesInv
    /\ IsPage(messages, list, hasNextPage, nextPageToken)
    /\ \A s \in Slot : calls[s] # None => HoldsLists(messages, visits, calls[s])
    /\ isLoadMoreIsProgress \in BOOLEAN /\ mixed \in BOOLEAN
    /\ loadActivitiesPromise \in Slot \cup {None}

LEMMA BlankIsPage == ASSUME NEW sent PROVE IsPage(sent, <<>>, TRUE, FirstPage) /\ ToSet(<<>>) = {}
<1>1. <<>> \in Seq(Activity) /\ DOMAIN <<>> = {}
      OBVIOUS
<1>2. FirstPage \in 1..FirstPage
      BY CountAssumption DEF FirstPage
<1>3. ToSet(<<>>) = {}
      BY <1>1 DEF ToSet
<1>4. IsList(sent, <<>>)
      BY <1>1, <1>3 DEF IsList
<1>5. QED BY <1>2, <1>3, <1>4 DEF IsPage

(* What a call holds stays right when more messages are sent and more      *)
(* feeds mounted.                                                          *)
LEMMA HoldsListsKept ==
    ASSUME NEW sent, NEW more, NEW spaces, NEW later, NEW call,
           \A e \in DOMAIN sent : e \in DOMAIN more /\ more[e] = sent[e],
           later[call.feed] = spaces[call.feed],
           HoldsLists(sent, spaces, call)
    PROVE  HoldsLists(more, later, call)
<1>1. \A l : IsList(sent, l) => IsList(more, l)
      BY DEF IsList
<1>2. \A l, h, t : IsPage(sent, l, h, t) => IsPage(more, l, h, t)
      BY <1>1 DEF IsPage
<1>3. LoadInv(sent, spaces, call) => LoadInv(more, later, call)
      BY <1>2 DEF LoadInv
<1>4. TlmInv(sent, call) => TlmInv(more, call)
      BY <1>1 DEF TlmInv
<1>5. QED BY <1>3, <1>4 DEF HoldsLists

(* A step that sets one call keeps the lists, if that call holds right     *)
(* ones and the store is set to right ones.                                *)
HoldAll(others) ==
    /\ others = [s \in Slot |-> others[s]]
    /\ \A s \in Slot : others[s] # None => HoldsLists(messages, visits, others[s])

LEMMA ListsStep ==
    ASSUME ListsInv, NEW s \in Slot, NEW call, NEW others, HoldAll(others),
           UNCHANGED <<messages, visits>>,
           calls' = [others EXCEPT ![s] = call],
           call # None => HoldsLists(messages, visits, call),
           IsPage(messages, list', hasNextPage', nextPageToken'),
           isLoadMoreIsProgress' \in BOOLEAN, mixed' \in BOOLEAN,
           loadActivitiesPromise' \in Slot \cup {None}
    PROVE  ListsInv'
<1>1. MessagesInv'
      BY DEF ListsInv, MessagesInv
<1>2. IsPage(messages', list', hasNextPage', nextPageToken')
      OBVIOUS
<1>3. ASSUME NEW r \in Slot, calls'[r] # None
      PROVE  HoldsLists(messages', visits', calls'[r])
      <2>1. CASE r = s
            <3>1. calls'[r] = call
                  BY <2>1 DEF HoldAll
            <3>2. QED BY <1>3, <3>1
      <2>2. CASE r # s
            <3>1. calls'[r] = others[r]
                  BY <2>2 DEF HoldAll
            <3>2. QED BY <1>3, <3>1 DEF HoldAll
      <2>3. QED BY <2>1, <2>2
<1>4. QED BY <1>1, <1>2, <1>3 DEF ListsInv

LEMMA CallsHold == ASSUME Inv, ListsInv PROVE HoldAll(calls)
BY DEF Inv, FeedInv, CallsInv, HoldAll, ListsInv

LEMMA ForgottenHolds ==
    ASSUME NEW call, IsCall(call, Len(visits), received), call.op = "load",
           HoldsLists(messages, visits, call)
    PROVE  HoldsLists(messages, visits, Forgotten(call))
<1> DEFINE f == Forgotten(call)
<1>1. /\ f.op = "load" /\ f.feed = call.feed /\ f.phase = call.phase
      /\ f.reset = call.reset /\ f.cancelled = TRUE /\ f.answer = None
      /\ f.list = <<>> /\ f.hasNext = TRUE /\ f.token = FirstPage /\ DOMAIN f = DOMAIN call
      BY DEF Forgotten, HoldsLists, LoadInv, IsCall
<1> HIDE DEF f
<1>2. IsPage(messages, f.list, f.hasNext, f.token)
      BY <1>1, BlankIsPage
<1>3. LoadInv(messages, visits, f)
      BY <1>1, <1>2 DEF HoldsLists, LoadInv
<1>4. QED BY <1>1, <1>3 DEF HoldsLists, f

LEMMA CancelledHold ==
    ASSUME Inv, ListsInv, mounted
    PROVE  HoldAll(CancelCurrentLoadActivities)
<1> DEFINE p == loadActivitiesPromise
<1>1. CASE p = None
      BY <1>1, CallsHold DEF CancelCurrentLoadActivities
<1>2. CASE p # None
      <2>1. p \in Slot /\ calls[p] # None /\ IsCall(calls[p], Len(visits), received)
            /\ calls[p].op = "load" /\ HoldsLists(messages, visits, calls[p])
            BY <1>2 DEF Inv, FeedInv, MountedInv, CallsInv, Busy, ListsInv
      <2>2. HoldsLists(messages, visits, Forgotten(calls[p]))
            BY <2>1, ForgottenHolds
      <2>3. CancelCurrentLoadActivities = [calls EXCEPT ![p] = Forgotten(calls[p])]
            BY <1>2 DEF CancelCurrentLoadActivities
      <2>4. QED BY <2>1, <2>2, <2>3, CallsHold DEF HoldAll
<1>3. QED BY <1>1, <1>2

LEMMA LoadCallHolds ==
    ASSUME ListsInv, NEW v, NEW goal, NEW reset \in BOOLEAN
    PROVE  HoldsLists(messages, visits, LoadCall(v, goal, reset))
<1> DEFINE c == LoadCall(v, goal, reset)
<1>1. /\ c.op = "load" /\ c.phase = "waiting" /\ c.reset = reset
      /\ c.list = list /\ c.hasNext = hasNextPage /\ c.token = nextPageToken
      /\ c.answer = None /\ c.cancelled = FALSE
      /\ DOMAIN c = {"op", "feed", "phase", "goal", "reset", "list", "hasNext", "token", "answer",
                     "cancelled"}
      BY DEF LoadCall
<1> HIDE DEF c
<1>2. LoadInv(messages, visits, c)
      BY <1>1 DEF LoadInv, ListsInv
<1>3. QED BY <1>1, <1>2 DEF HoldsLists, c

LEMMA EnteredHolds ==
    ASSUME NEW call, "phase" \in DOMAIN call, "op" \in DOMAIN call, call.op = "load", call.answer = None,
           HoldsLists(messages, visits, call)
    PROVE  HoldsLists(messages, visits, Entered(call))
<1> DEFINE c == Entered(call)
<1>1. LoadInv(messages, visits, call)
      BY DEF HoldsLists
<1>2. CASE call.reset
      <2>1. /\ c.op = "load" /\ c.phase = "asking" /\ c.reset = call.reset
            /\ c.list = <<>> /\ c.hasNext = TRUE /\ c.token = FirstPage
            /\ c.answer = None /\ c.cancelled = call.cancelled /\ DOMAIN c = DOMAIN call
            BY <1>1, <1>2 DEF Entered, LoadInv
      <2> HIDE DEF c
      <2>2. IsPage(messages, c.list, c.hasNext, c.token)
            BY <2>1, BlankIsPage
      <2>3. LoadInv(messages, visits, c)
            BY <1>1, <2>1, <2>2 DEF LoadInv
      <2>4. QED BY <2>1, <2>3 DEF HoldsLists, c
<1>3. CASE ~call.reset
      <2>1. /\ c.op = "load" /\ c.phase = "asking" /\ c.reset = call.reset
            /\ c.list = call.list /\ c.hasNext = call.hasNext /\ c.token = call.token
            /\ c.answer = None /\ c.cancelled = call.cancelled /\ DOMAIN c = DOMAIN call
            BY <1>1, <1>3 DEF Entered, LoadInv
      <2> HIDE DEF c
      <2>2. LoadInv(messages, visits, c)
            BY <1>1, <2>1 DEF LoadInv
      <2>3. QED BY <2>1, <2>2 DEF HoldsLists, c
<1>4. QED BY <1>2, <1>3

LEMMA ResetIsPage ==
    ASSUME ListsInv, NEW reset, ResetActivity(reset)
    PROVE  IsPage(messages, list', hasNextPage', nextPageToken')
BY BlankIsPage DEF ResetActivity, ListsInv, storeVars

LEMMA LoadActivitiesLists ==
    ASSUME Inv, ListsInv, NEW s \in Slot, NEW goal, NEW reset \in BOOLEAN, NEW others,
           HoldAll(others), LoadActivities(s, goal, reset, others),
           UNCHANGED <<messages, visits>>, isLoadMoreIsProgress' \in BOOLEAN
    PROVE  ListsInv'
<1> DEFINE call == LoadCall(Feed, goal, reset)
<1>1. HoldsLists(messages, visits, call)
      BY LoadCallHolds
<1>2. HoldsLists(messages, visits, Entered(call))
      <2>1. "phase" \in DOMAIN call /\ "op" \in DOMAIN call /\ call.op = "load" /\ call.answer = None
            BY DEF LoadCall
      <2> HIDE DEF call
      <2>2. QED BY <1>1, <2>1, EnteredHolds
<1>3. mixed' \in BOOLEAN
      BY DEF LoadActivities, Starts, ListsInv
<1> HIDE DEF call
<1>4. CASE changingActivityList[Feed]
      <2>1. /\ calls' = [others EXCEPT ![s] = call]
            /\ UNCHANGED <<list, hasNextPage, nextPageToken, loadActivitiesPromise>>
            BY <1>4 DEF LoadActivities, call, storeVars
      <2>2. IsPage(messages, list', hasNextPage', nextPageToken')
            BY <2>1 DEF ListsInv
      <2>3. loadActivitiesPromise' \in Slot \cup {None}
            BY <2>1 DEF ListsInv
      <2>4. QED BY <1>1, <1>3, <2>1, <2>2, <2>3, ListsStep
<1>5. CASE ~changingActivityList[Feed]
      <2>1. /\ calls' = [others EXCEPT ![s] = Entered(call)]
            /\ loadActivitiesPromise' = s /\ ResetActivity(reset)
            BY <1>5 DEF LoadActivities, call
      <2>2. IsPage(messages, list', hasNextPage', nextPageToken')
            BY <2>1, ResetIsPage
      <2>3. QED BY <1>2, <1>3, <2>1, <2>2, ListsStep
<1>6. QED BY <1>4, <1>5

(* What each step leaves alone keeps what the calls hold.                  *)
LEMMA ListsKept ==
    ASSUME Inv, ListsInv, HoldAll(calls'), UNCHANGED <<messages, visits>>,
           UNCHANGED <<hasNextPage, nextPageToken, mixed>>, IsList(messages, list'),
           isLoadMoreIsProgress' \in BOOLEAN, loadActivitiesPromise' \in Slot \cup {None}
    PROVE  ListsInv'
<1>1. IsPage(messages', list', hasNextPage', nextPageToken')
      BY DEF ListsInv, IsPage
<1>2. QED BY <1>1 DEF ListsInv, HoldAll, MessagesInv

LEMMA SetWorkspaceListLists ==
    ASSUME Inv, ListsInv, SetWorkspaceList
    PROVE  ListsInv'
<1>1. CASE mounted
      BY <1>1, FreeSlotIsFree, CancelledHold, LoadActivitiesLists DEF SetWorkspaceList, ListsInv
<1>2. CASE ~mounted
      <2>1. UNCHANGED <<messages, visits, list, hasNextPage, nextPageToken, calls,
                        isLoadMoreIsProgress, mixed, loadActivitiesPromise>>
            BY <1>2 DEF SetWorkspaceList, storeVars
      <2>2. HoldAll(calls')
            BY <2>1, CallsHold
      <2>3. IsList(messages, list')
            BY <2>1 DEF ListsInv, IsPage
      <2>4. QED BY <2>1, <2>2, <2>3, ListsKept DEF ListsInv
<1>3. QED BY <1>1, <1>2

LEMMA ClickLists ==
    ASSUME Inv, ListsInv, HandleClickLoadMore
    PROVE  ListsInv'
<1>1. HoldAll(calls)
      BY CallsHold
<1>2. FreeSlot \in Slot /\ LoadActivities(FreeSlot, Len(list) + LoadCount, FALSE, calls)
      /\ UNCHANGED <<messages, visits>> /\ isLoadMoreIsProgress' \in BOOLEAN
      BY FreeSlotIsFree DEF HandleClickLoadMore, pageVars
<1>3. QED BY <1>1, <1>2, LoadActivitiesLists

LEMMA EnterLoadLists ==
    ASSUME Inv, ListsInv, NEW s \in Slot, EnterLoad(s)
    PROVE  ListsInv'
<1> DEFINE call == calls[s]
<1>1. call # None /\ IsCall(call, Len(visits), received) /\ call.op = "load" /\ call.phase = "waiting"
      /\ HoldsLists(messages, visits, call)
      BY DEF EnterLoad, Inv, FeedInv, CallsInv, Busy, ListsInv
<1>2. call.answer = None
      BY <1>1 DEF HoldsLists, LoadInv
<1>3. HoldsLists(messages, visits, Entered(call))
      <2> HIDE DEF call
      <2>1. QED BY <1>1, <1>2, EnteredHolds DEF IsCall
<1>4. /\ calls' = [calls EXCEPT ![s] = Entered(call)]
      /\ ResetActivity(call.reset)
      /\ loadActivitiesPromise' \in Slot \cup {None}
      /\ UNCHANGED <<messages, visits, isLoadMoreIsProgress>>
      BY DEF EnterLoad, pageVars, ListsInv
<1>5. mixed' \in BOOLEAN
      BY DEF EnterLoad, Starts, Writes, ListsInv
<1> HIDE DEF call
<1>6. IsPage(messages, list', hasNextPage', nextPageToken')
      BY <1>4, ResetIsPage
<1>7. isLoadMoreIsProgress' \in BOOLEAN
      BY <1>4 DEF ListsInv
<1>8. QED BY <1>3, <1>4, <1>5, <1>6, <1>7, CallsHold, ListsStep

LEMMA AnswerBatchLists ==
    ASSUME Inv, ListsInv, NEW s \in Slot, AnswerBatch(s)
    PROVE  ListsInv'
<1> DEFINE call == calls[s]
           space == visits[call.feed]
           answer == LoadActivitiesBatch(Older(space, call.token), call.list, call.token)
           next == [call EXCEPT !.answer = answer]
<1>1. /\ call # None /\ IsCall(call, Len(visits), received) /\ call.op = "load"
      /\ call.phase = "asking" /\ ~call.cancelled
      /\ HoldsLists(messages, visits, call)
      BY DEF AnswerBatch, Inv, FeedInv, CallsInv, Busy, ListsInv
<1>2. calls' = [calls EXCEPT ![s] = next]
      /\ UNCHANGED <<messages, visits, list, hasNextPage, nextPageToken, isLoadMoreIsProgress,
                     mixed, loadActivitiesPromise>>
      BY DEF AnswerBatch, pageVars, storeVars, feedVars, historyVars
<1> HIDE DEF call
<1>3. /\ IsPage(messages, answer.list, answer.hasNext, answer.token)
      /\ \A x \in ToSet(answer.list) : x \in ToSet(call.list) \/ SpaceOf[x.id] = space
      <2>1. IsPage(messages, call.list, TRUE, call.token)
            BY <1>1 DEF HoldsLists, LoadInv, IsPage
      <2>2. MessagesInv
            BY DEF ListsInv
      <2>3. QED BY <2>1, <2>2, BatchLists
<1> HIDE DEF answer
<1>4. /\ next.op = "load" /\ next.feed = call.feed /\ next.phase = "asking"
      /\ next.reset = call.reset /\ next.cancelled = call.cancelled
      /\ next.list = call.list /\ next.hasNext = call.hasNext /\ next.token = call.token
      /\ next.answer = answer /\ DOMAIN next = DOMAIN call
      BY <1>1 DEF IsCall, HoldsLists, LoadInv
<1> HIDE DEF next
<1>5. LoadInv(messages, visits, next)
      BY <1>1, <1>3, <1>4 DEF HoldsLists, LoadInv
<1>6. HoldsLists(messages, visits, next)
      BY <1>4, <1>5 DEF HoldsLists
<1>7. IsPage(messages, list', hasNextPage', nextPageToken')
      BY <1>2 DEF ListsInv
<1>8. isLoadMoreIsProgress' \in BOOLEAN /\ mixed' \in BOOLEAN /\ loadActivitiesPromise' \in Slot \cup {None}
      BY <1>2 DEF ListsInv
<1>9. QED BY <1>2, <1>6, <1>7, <1>8, CallsHold, ListsStep

LEMMA ResumeLoadLists ==
    ASSUME Inv, ListsInv, NEW s \in Slot, ResumeLoad(s)
    PROVE  ListsInv'
<1> DEFINE call == calls[s]
           next == [call EXCEPT !.list = call.answer.list, !.hasNext = call.answer.hasNext,
                             !.token = call.answer.token, !.answer = None]
<1>1. /\ call # None /\ IsCall(call, Len(visits), received) /\ call.op = "load"
      /\ HoldsLists(messages, visits, call) /\ LoadInv(messages, visits, call)
      BY DEF ResumeLoad, Inv, FeedInv, CallsInv, Busy, ListsInv, HoldsLists
<1>2. UNCHANGED <<messages, visits>>
      BY DEF ResumeLoad, pageVars
<1>3. loadActivitiesPromise' \in Slot \cup {None} /\ isLoadMoreIsProgress' \in BOOLEAN
      BY DEF ResumeLoad, Cancelled, Abandoned, Dispatched, EndLoad, ListsInv
<1>4. CASE Cancelled(s) \/ Abandoned(s)
      <2>1. calls' = [calls EXCEPT ![s] = None] /\ UNCHANGED <<list, hasNextPage, nextPageToken, mixed>>
            BY <1>4 DEF Cancelled, Abandoned, EndLoad, storeVars
      <2>2. IsPage(messages, list', hasNextPage', nextPageToken') /\ mixed' \in BOOLEAN
            BY <2>1 DEF ListsInv
      <2>3. QED BY <1>2, <1>3, <2>1, <2>2, CallsHold, ListsStep
<1>5. CASE Dispatched(s)
      <2>1. /\ call.answer # None
            /\ list' = next.list /\ hasNextPage' = next.hasNext /\ nextPageToken' = next.token
            /\ mixed' \in BOOLEAN
            /\ calls' = [calls EXCEPT ![s] = next] \/ calls' = [calls EXCEPT ![s] = None]
            BY <1>5 DEF Dispatched, EndLoad, Writes, ListsInv
      <2> HIDE DEF call
      <2>2. /\ next.op = "load" /\ next.feed = call.feed /\ next.phase = call.phase
            /\ next.reset = call.reset /\ next.cancelled = call.cancelled
            /\ next.list = call.answer.list /\ next.hasNext = call.answer.hasNext
            /\ next.token = call.answer.token
            /\ next.answer = None /\ DOMAIN next = DOMAIN call
            BY <1>1 DEF IsCall, LoadInv
      <2> HIDE DEF next
      <2>3. IsPage(messages, next.list, next.hasNext, next.token)
            BY <1>1, <2>1, <2>2 DEF LoadInv
      <2>4. HoldsLists(messages, visits, next)
            BY <1>1, <2>2, <2>3 DEF HoldsLists, LoadInv
      <2>5. IsPage(messages, list', hasNextPage', nextPageToken')
            BY <2>1, <2>3
      <2>6. CASE calls' = [calls EXCEPT ![s] = next]
            BY <1>2, <1>3, <2>1, <2>4, <2>5, <2>6, CallsHold, ListsStep
      <2>7. CASE calls' = [calls EXCEPT ![s] = None]
            BY <1>2, <1>3, <2>1, <2>5, <2>7, CallsHold, ListsStep
      <2>8. QED BY <2>1, <2>6, <2>7
<1>6. QED BY <1>4, <1>5 DEF ResumeLoad

LEMMA HandleTlmLists ==
    ASSUME Inv, ListsInv, NEW e \in Message, HandleTlm(e)
    PROVE  ListsInv'
<1>1. /\ UNCHANGED <<messages, visits, list, hasNextPage, nextPageToken, isLoadMoreIsProgress,
                     loadActivitiesPromise, mixed>>
      /\ mixed' \in BOOLEAN
      BY DEF HandleTlm, pageVars, storeVars, feedVars, historyVars, ListsInv
<1>2. /\ IsPage(messages, list', hasNextPage', nextPageToken')
      /\ isLoadMoreIsProgress' \in BOOLEAN /\ loadActivitiesPromise' \in Slot \cup {None}
      BY <1>1 DEF ListsInv
<1>3. CASE mounted /\ SpaceOfEvent(e) = url
      <2> DEFINE call == [op |-> "tlm", feed |-> Feed, phase |-> "fetching", event |-> e]
      <2>1. FreeSlot \in Slot /\ calls' = [calls EXCEPT ![FreeSlot] = call]
            BY <1>3, FreeSlotIsFree DEF HandleTlm
      <2>2. HoldsLists(messages, visits, call)
            BY DEF HoldsLists, TlmInv
      <2> HIDE DEF call
      <2>3. QED BY <1>1, <1>2, <2>1, <2>2, CallsHold, ListsStep
<1>4. CASE ~(mounted /\ SpaceOfEvent(e) = url)
      <2>1. UNCHANGED calls
            BY <1>4 DEF HandleTlm
      <2>2. HoldAll(calls') /\ IsList(messages, list')
            BY <1>2, <2>1, CallsHold DEF IsPage
      <2>3. QED BY <1>1, <1>2, <2>1, <2>2, ListsKept
<1>5. QED BY <1>3, <1>4

LEMMA TlmEntersLists ==
    ASSUME Inv, ListsInv, NEW s \in Slot, UpdateActivityListFromTlm(s) \/ EnterTlm(s)
    PROVE  ListsInv'
<1>1. /\ calls[s] # None /\ IsCall(calls[s], Len(visits), received) /\ calls[s].op = "tlm"
      /\ HoldsLists(messages, visits, calls[s])
      BY DEF UpdateActivityListFromTlm, EnterTlm, Inv, FeedInv, CallsInv, Busy, ListsInv
<1>2. UNCHANGED <<messages, visits, list, hasNextPage, nextPageToken, isLoadMoreIsProgress,
                  loadActivitiesPromise, mixed>>
      BY DEF UpdateActivityListFromTlm, EnterTlm, pageVars, storeVars, historyVars
<1>3. /\ IsPage(messages, list', hasNextPage', nextPageToken') /\ mixed' \in BOOLEAN
      /\ isLoadMoreIsProgress' \in BOOLEAN /\ loadActivitiesPromise' \in Slot \cup {None}
      BY <1>2 DEF ListsInv
<1>4. CASE UpdateActivityListFromTlm(s)
      <2> DEFINE call == [op |-> "tlm", feed |-> calls[s].feed, event |-> calls[s].event,
                          list |-> list,
                          phase |-> IF ~changingActivityList[calls[s].feed] THEN "building"
                                    ELSE "waiting"]
      <2>1. calls' = [calls EXCEPT ![s] = call]
            BY <1>4 DEF UpdateActivityListFromTlm
      <2>2. HoldsLists(messages, visits, call)
            <3>1. call.op = "tlm" /\ call.list = list /\ "list" \in DOMAIN call
                  OBVIOUS
            <3> HIDE DEF call
            <3>2. QED BY <3>1 DEF HoldsLists, TlmInv, ListsInv, IsPage
      <2> HIDE DEF call
      <2>3. QED BY <1>2, <1>3, <2>1, <2>2, CallsHold, ListsStep
<1>5. CASE EnterTlm(s)
      <2> DEFINE call == [calls[s] EXCEPT !.phase = "building"]
      <2>1. calls' = [calls EXCEPT ![s] = call] /\ calls[s].phase = "waiting"
            BY <1>5 DEF EnterTlm
      <2>2. TlmInv(messages, calls[s]) /\ "op" \in DOMAIN calls[s]
            BY <1>1 DEF HoldsLists, IsCall
      <2>3. call.op = "tlm" /\ call.list = calls[s].list /\ DOMAIN call = DOMAIN calls[s]
            BY <1>1, <2>1, <2>2 DEF TlmInv
      <2> HIDE DEF call
      <2>4. HoldsLists(messages, visits, call)
            BY <2>1, <2>2, <2>3 DEF HoldsLists, TlmInv
      <2>5. QED BY <1>2, <1>3, <2>1, <2>4, CallsHold, ListsStep
<1>6. QED BY <1>4, <1>5

LEMMA ResumeTlmLists ==
    ASSUME Inv, ListsInv, NEW s \in Slot, ResumeTlm(s)
    PROVE  ListsInv'
<1> DEFINE call == calls[s]
           updated == AddMessageToActivityList(call.event, call.list)
<1>1. /\ call # None /\ IsCall(call, Len(visits), received) /\ call.op = "tlm"
      /\ call.phase = "building" /\ HoldsLists(messages, visits, call)
      BY DEF ResumeTlm, Inv, FeedInv, CallsInv, Busy, ListsInv
<1>2. calls' = [calls EXCEPT ![s] = None]
      /\ UNCHANGED <<messages, visits, hasNextPage, nextPageToken, isLoadMoreIsProgress,
                     loadActivitiesPromise>>
      BY DEF ResumeTlm, pageVars
<1>3. mixed' \in BOOLEAN
      BY DEF ResumeTlm, ListsInv
<1>4. list' = list \/ list' = updated
      BY DEF ResumeTlm
<1> HIDE DEF call
<1>5. IsList(messages, call.list) /\ call.event \in DOMAIN messages /\ MessagesInv
      BY <1>1 DEF HoldsLists, TlmInv, IsCall, Inv, FeedInv, ServerInv, ListsInv
<1>6. IsList(messages, updated)
      BY <1>5, AddMessageLists
<1> HIDE DEF updated
<1>7. IsPage(messages, list', hasNextPage', nextPageToken')
      BY <1>2, <1>4, <1>6 DEF ListsInv, IsPage
<1>8. isLoadMoreIsProgress' \in BOOLEAN /\ loadActivitiesPromise' \in Slot \cup {None}
      BY <1>2 DEF ListsInv
<1>9. QED BY <1>2, <1>3, <1>7, <1>8, CallsHold, ListsStep

LEMMA RejectTlmLists ==
    ASSUME Inv, ListsInv, NEW s \in Slot, RejectTlm(s)
    PROVE  ListsInv'
<1>1. calls' = [calls EXCEPT ![s] = None]
      /\ UNCHANGED <<messages, visits, list, hasNextPage, nextPageToken, isLoadMoreIsProgress,
                     loadActivitiesPromise, mixed>>
      BY DEF RejectTlm, pageVars, storeVars, feedVars
<1>2. /\ IsPage(messages, list', hasNextPage', nextPageToken') /\ mixed' \in BOOLEAN
      /\ isLoadMoreIsProgress' \in BOOLEAN /\ loadActivitiesPromise' \in Slot \cup {None}
      BY <1>1 DEF ListsInv
<1>3. QED BY <1>1, <1>2, CallsHold, ListsStep

LEMMA RefreshLists ==
    ASSUME Inv, ListsInv, HandleRefreshClicked
    PROVE  ListsInv'
<1>1. list' = SortActivityList(list)
      /\ UNCHANGED <<messages, visits, hasNextPage, nextPageToken, isLoadMoreIsProgress,
                     loadActivitiesPromise, mixed, calls>>
      BY DEF HandleRefreshClicked, pageVars, feedVars, historyVars
<1>2. IsList(messages, list)
      BY DEF ListsInv, IsPage
<1>3. /\ list' \in Seq(Activity) /\ DOMAIN list' = DOMAIN list /\ ToSet(list') = ToSet(list)
      /\ \E from \in [DOMAIN list' -> DOMAIN list'] :
            \A i, j \in DOMAIN list' : list'[i] = list[from[i]] /\ (from[i] = from[j] => i = j)
      <2>1. list \in Seq(Activity)
            BY <1>2 DEF IsList
      <2>2. QED BY <1>1, <2>1, SortReorders
<1>4. IsList(messages, list')
      <2>1. PICK from \in [DOMAIN list' -> DOMAIN list'] :
               \A i, j \in DOMAIN list' : list'[i] = list[from[i]] /\ (from[i] = from[j] => i = j)
            BY <1>3
      <2>2. \A i, j \in DOMAIN list : list[i].id = list[j].id => i = j
            BY <1>2 DEF IsList
      <2>3. \A i, j \in DOMAIN list' : list'[i].id = list'[j].id => i = j
            BY <1>3, <2>1, <2>2
      <2>4. QED BY <1>2, <1>3, <2>3 DEF IsList
<1>5. HoldAll(calls')
      BY <1>1, CallsHold
<1>6. QED BY <1>1, <1>4, <1>5, ListsKept DEF ListsInv

LEMMA SomeoneActsLists ==
    ASSUME Inv, ListsInv, SomeoneActs
    PROVE  ListsInv'
<1>1. PICK c \in Content, kind \in Kinds[Len(messages) + 1] : messages' = Append(messages, [content |-> c, kind |-> kind])
      BY DEF SomeoneActs
<1>2. /\ Len(messages) < MaxMessage
      /\ UNCHANGED <<visits, list, hasNextPage, nextPageToken, isLoadMoreIsProgress,
                     loadActivitiesPromise, mixed, calls>>
      BY DEF SomeoneActs, pageVars, storeVars, feedVars, historyVars
<1>3. /\ MessagesInv'
      /\ \A e \in DOMAIN messages : e \in DOMAIN messages' /\ messages'[e] = messages[e]
    <2>1. messages \in Seq([content : Content, kind : STRING]) /\ Len(messages) \in Nat
          BY LenProperties DEF ListsInv, MessagesInv
    <2>2. kind \in STRING
          BY <1>2, <2>1, CountAssumption, KindAssumption
    <2>3. [content |-> c, kind |-> kind] \in [content : Content, kind : STRING]
          BY <2>2
    <2>4. QED BY <1>1, <1>2, <2>1, <2>3, AppendProperties, LenProperties, CountAssumption DEF MessagesInv
<1>4. IsPage(messages', list', hasNextPage', nextPageToken')
      BY <1>2, <1>3 DEF ListsInv, IsPage, IsList
<1>5. ASSUME NEW s \in Slot, calls'[s] # None
      PROVE  HoldsLists(messages', visits', calls'[s])
      BY <1>2, <1>3, <1>5, HoldsListsKept DEF ListsInv
<1>6. QED BY <1>2, <1>3, <1>4, <1>5 DEF ListsInv

LEMMA OpenPageLists ==
    ASSUME Inv, ListsInv, NEW page \in Space \cup {Elsewhere}, OpenPage(page)
    PROVE  ListsInv'
<1>1. /\ UNCHANGED <<messages, visits, list, hasNextPage, nextPageToken, mixed>>
      /\ isLoadMoreIsProgress' = FALSE /\ loadActivitiesPromise' = None
      BY DEF OpenPage, storeVars, historyVars
<1>2. HoldAll(calls')
      <2>1. CASE mounted
            BY <2>1, CancelledHold DEF OpenPage
      <2>2. CASE ~mounted
            BY <2>2, CallsHold DEF OpenPage
      <2>3. QED BY <2>1, <2>2
<1>3. IsList(messages, list')
      BY <1>1 DEF ListsInv, IsPage
<1>4. QED BY <1>1, <1>2, <1>3, ListsKept

LEMMA MountFeedLists ==
    ASSUME Inv, ListsInv, MountFeed
    PROVE  ListsInv'
<1> DEFINE v == Len(visits) + 1
           first == FreeSlot
           second == Min(Free \ {first})
           load == Entered(LoadCall(v, LoadCount, TRUE))
<1>1. first \in Slot /\ second \in Slot
      BY TwoFreeSlots DEF MountFeed
<1>2. /\ visits' = Append(visits, url) /\ UNCHANGED messages /\ ResetActivity(TRUE)
      /\ isLoadMoreIsProgress' = FALSE /\ mixed' = FALSE /\ url \in Space
      /\ \/ /\ calls' = [calls EXCEPT ![first] = load, ![second] = load]
            /\ loadActivitiesPromise' = second
         \/ /\ calls' = [calls EXCEPT ![first] = load]
            /\ loadActivitiesPromise' = first
      BY DEF MountFeed, Inv, FeedInv, MountedInv
<1>3. HoldsLists(messages, visits, load) /\ load.feed = v /\ load.op = "load" /\ load.answer = None
      <2> DEFINE call == LoadCall(v, LoadCount, TRUE)
      <2>1. /\ "phase" \in DOMAIN call /\ "op" \in DOMAIN call /\ call.op = "load" /\ call.answer = None
            /\ call.feed = v /\ call.reset = TRUE
            BY DEF LoadCall
      <2>2. HoldsLists(messages, visits, call)
            BY LoadCallHolds
      <2>3. load.feed = v /\ load.op = "load" /\ load.answer = None
            BY DEF LoadCall, Entered
      <2> HIDE DEF call
      <2>4. QED BY <2>1, <2>2, <2>3, EnteredHolds DEF call
<1> HIDE DEF first, second, load
<1>4. \A s \in Slot : calls'[s] = calls[s] \/ calls'[s] = load
      <2>1. calls = [s \in Slot |-> calls[s]]
            BY DEF Inv, FeedInv, CallsInv
      <2>2. QED BY <1>1, <1>2, <2>1
<1>5. \A w \in 1..Len(visits) : visits'[w] = visits[w]
      BY <1>2, AppendProperties DEF Inv, FeedInv, ServerInv
<1>6. ASSUME NEW s \in Slot, calls'[s] # None
      PROVE  HoldsLists(messages', visits', calls'[s])
      <2>1. CASE calls'[s] = load
            <3>1. LoadInv(messages, visits', load)
                  BY <1>3 DEF HoldsLists, LoadInv
            <3>2. QED BY <1>2, <1>3, <2>1, <3>1 DEF HoldsLists
      <2>2. CASE calls'[s] = calls[s]
            <3>1. calls[s].feed \in 1..Len(visits) /\ HoldsLists(messages, visits, calls[s])
                  BY <1>6, <2>2 DEF Inv, FeedInv, CallsInv, Busy, IsCall, ListsInv
            <3>2. HoldsLists(messages, visits', calls[s])
                  BY <1>5, <3>1, HoldsListsKept
            <3>3. QED BY <1>2, <2>2, <3>2
      <2>3. QED BY <1>4, <2>1, <2>2
<1>7. IsPage(messages', list', hasNextPage', nextPageToken')
      BY <1>2, ResetIsPage
<1>8. QED BY <1>1, <1>2, <1>6, <1>7 DEF ListsInv, MessagesInv

LEMMA ListsInit == Init => ListsInv
<1> SUFFICES ASSUME Init PROVE ListsInv
    OBVIOUS
<1>1. MessagesInv
      BY CountAssumption DEF Init, MessagesInv
<1>2. IsPage(messages, list, hasNextPage, nextPageToken)
      BY BlankIsPage DEF Init
<1>3. QED BY <1>1, <1>2 DEF Init, ListsInv

LEMMA ListsNext == Inv /\ ListsInv /\ [Next]_vars => ListsInv'
<1> SUFFICES ASSUME Inv, ListsInv, [Next]_vars PROVE ListsInv'
    OBVIOUS
<1>1. CASE UNCHANGED vars
      BY <1>1 DEF vars, pageVars, storeVars, feedVars, historyVars, ListsInv, MessagesInv
<1>2. ASSUME NEW s \in Slot, Continues(s)
      PROVE  ListsInv'
      BY <1>2, EnterLoadLists, AnswerBatchLists, ResumeLoadLists, TlmEntersLists, ResumeTlmLists,
         RejectTlmLists
         DEF Continues
<1>3. QED BY <1>1, <1>2, SomeoneActsLists, OpenPageLists, MountFeedLists, SetWorkspaceListLists,
             ClickLists, RefreshLists, HandleTlmLists DEF Next

(* The state of the feed is well formed.                                   *)
THEOREM TypeCorrect == ASSUME NoneIsNoCall PROVE Spec => []TypeOK
<1>1. Inv /\ ListsInv => TypeOK
      BY DEF Inv, FeedInv, ServerInv, ListsInv, IsPage, IsList, TypeOK
<1>2. Inv /\ [Next]_vars => Inv'
      BY InvStep
<1>3. QED BY <1>1, <1>2, InitInv, ListsInit, ListsNext, PTL DEF Spec

THEOREM NothingIsListedTwice == ASSUME NoneIsNoCall PROVE Spec => []NoDuplicate
<1>1. ListsInv => NoDuplicate
      BY DEF ListsInv, IsPage, IsList, NoDuplicate
<1>2. Inv /\ [Next]_vars => Inv'
      BY InvStep
<1>3. QED BY <1>1, <1>2, InitInv, ListsInit, ListsNext, PTL DEF Spec

(* A load of the space that was left brings nothing to the feed that is    *)
(* mounted: what a batch adds is of the space of its feed, and a batch is  *)
(* dropped when the URL is the dashboard of another.                       *)
THEOREM NoOtherSpaceIsBrought == ASSUME NoneIsNoCall PROVE Spec => LoadsBringTheirSpace
<1> DEFINE Brings(s) == \A i \in DOMAIN list' :
              \/ list'[i] \in ToSet(list) \cup ToSet(calls[s].list)
              \/ mounted => SpaceOf[list'[i].id] = url
<1>1. ASSUME Inv, ListsInv, NEW s \in Slot, ResumeLoad(s)
      PROVE  Brings(s)
      <2> DEFINE call == calls[s]
      <2>1. call # None /\ call.op = "load" /\ LoadInv(messages, visits, call)
            BY <1>1 DEF ResumeLoad, ListsInv, HoldsLists
      <2>2. CASE Cancelled(s) \/ Abandoned(s)
            <3>1. list' = list
                  BY <2>2 DEF Cancelled, Abandoned, storeVars
            <3>2. \A i \in DOMAIN list : list[i] \in ToSet(list)
                  BY <1>1, ItemsOfList DEF ListsInv, IsPage, IsList
            <3>3. QED BY <3>1, <3>2
      <2>3. CASE Dispatched(s)
            <3>1. list' = call.answer.list /\ call.answer # None /\ ~LeftForAnotherSpace(call)
                  BY <2>3 DEF Dispatched
            <3>2. /\ \A x \in ToSet(call.answer.list) :
                        x \in ToSet(call.list) \/ SpaceOf[x.id] = visits[call.feed]
                  /\ call.answer.list \in Seq(Activity)
                  BY <2>1, <3>1 DEF LoadInv, IsPage, IsList
            <3>3. mounted => url = visits[call.feed]
                  <4>1. visits \in Seq(Space) /\ url \in Space \cup {Elsewhere}
                        /\ (mounted => Len(visits) > 0 /\ url = visits[Len(visits)])
                        BY <1>1 DEF Inv, FeedInv, ServerInv, MountedInv, Feed
                  <4>2. mounted => url \in Space
                        BY <4>1, LenProperties, ElementOfSeq
                  <4>3. QED BY <3>1, <4>2, SpaceAssumption DEF LeftForAnotherSpace
            <3>4. \A i \in DOMAIN list' : list'[i] \in ToSet(call.answer.list)
                  BY <3>1, <3>2, ItemsOfList
            <3>5. QED BY <3>2, <3>3, <3>4
      <2>4. QED BY <1>1, <2>2, <2>3 DEF ResumeLoad
<1>2. Inv /\ ListsInv => [\A s \in Slot : ResumeLoad(s) => Brings(s)]_vars
      BY <1>1
<1>3. Inv /\ [Next]_vars => Inv'
      BY InvStep
<1>4. QED BY <1>2, <1>3, InitInv, ListsInit, ListsNext, PTL DEF Spec, LoadsBringTheirSpace

-----------------------------------------------------------------------------
(* The calls of the mounted feed.                                          *)
IsLoad(s) == calls[s].op = "load" /\ OfMounted(s)
IsTlm(s) == calls[s].op = "tlm" /\ OfMounted(s)

(* A load that will reset the list when it gets the flag.                  *)
Awaits(s) == IsLoad(s) /\ calls[s].phase = "waiting" /\ calls[s].reset

(* A load that is cancelled and has nothing to dispatch.                   *)
Blank(call) ==
    call.cancelled /\ call.list = <<>> /\ call.token = FirstPage /\ call.answer = None

(* Before the list of the spaces is known a feed has only the load of      *)
(* componentDidMount, which is the one it would cancel.                    *)
PromiseInv ==
    mounted /\ ~workspaceListLoaded =>
        /\ ~lastSpaceLoaded
        /\ \A s \in Busy : IsLoad(s) => loadActivitiesPromise = s

(* A load that waits to reset the list was started when that list came,    *)
(* and the one before it was cancelled.                                    *)
WaitInv ==
    mounted => \A s \in Busy : Awaits(s) =>
        /\ workspaceListLoaded
        /\ \A r \in Busy \ {s} : IsLoad(r) /\ calls[r].reset => Blank(calls[r])

(* The messages the list must know: those received, but for the ones that  *)
(* the mounted feed has dropped, or that a handler of it is busy with.     *)
Known == {e \in received \ Dropped : \A s \in Busy : IsTlm(s) => calls[s].event # e}

LoadCovers(sent, space, known, call) ==
    /\ Covers(sent, space, ToSet(call.list), call.token, known)
    /\ call.answer # None =>
          Covers(sent, space, ToSet(call.answer.list), call.answer.token, known)

(* Until the handler of a live message is overtaken, the list covers the   *)
(* messages it must know, and so do the lists that the loads will bring.   *)
RightInv ==
    mounted /\ ~mixed =>
        /\ Covers(messages, url, ToSet(list), nextPageToken, Known)
        /\ \A s \in Busy : IsLoad(s) => LoadCovers(messages, url, Known, calls[s])

RightAll == PromiseInv /\ WaitInv /\ RightInv
All == Inv /\ ListsInv /\ RightAll

LEMMA CoversFewer ==
    ASSUME NEW sent, NEW space, NEW listed, NEW token, NEW known, NEW fewer,
           Covers(sent, space, listed, token, known),
           \A e \in fewer : SpaceOf[sent[e].content] = space => e \in known
    PROVE  Covers(sent, space, listed, token, fewer)
BY DEF Covers

LEMMA LoadCoversFewer ==
    ASSUME NEW sent, NEW space, NEW known, NEW fewer, NEW call,
           LoadCovers(sent, space, known, call),
           \A e \in fewer : SpaceOf[sent[e].content] = space => e \in known
    PROVE  LoadCovers(sent, space, fewer, call)
BY CoversFewer DEF LoadCovers

(* A load that was reset covers any messages.                              *)
LEMMA BlankCovers ==
    ASSUME NEW sent, NEW space, NEW known \in SUBSET Message
    PROVE  /\ Covers(sent, space, ToSet(<<>>), FirstPage, known)
           /\ \A call : call.list = <<>> /\ call.token = FirstPage /\ call.answer = None =>
                 LoadCovers(sent, space, known, call)
<1>1. \A e \in known : ~(e >= FirstPage)
      BY CountAssumption DEF Message, FirstPage
<1>2. ToSet(<<>>) = {}
      BY BlankIsPage
<1>3. Covers(sent, space, ToSet(<<>>), FirstPage, known)
      BY <1>1, <1>2 DEF Covers
<1>4. QED BY <1>3 DEF LoadCovers

LEMMA KnownAreMessages ==
    ASSUME Inv, ListsInv
    PROVE  /\ received \in SUBSET DOMAIN messages /\ DOMAIN messages \in SUBSET Message
           /\ Known \subseteq received /\ Known \subseteq received \ InHand
BY ActivitiesOfMessages DEF Inv, FeedInv, ServerInv, ListsInv, Known, InHand, IsTlm

LEMMA KnownLater ==
    ASSUME Inv, ListsInv, [Next]_vars, NoneIsNoCall
    PROVE  received' \in SUBSET Message /\ Known' \in SUBSET Message
<1>1. Inv' /\ ListsInv'
      BY InvStep, ListsNext
<1>2. received' \subseteq DOMAIN messages' /\ MessagesInv'
      BY <1>1 DEF Inv, FeedInv, ServerInv, ListsInv
<1>3. DOMAIN messages' \in SUBSET Message
      <2>1. Len(messages') \in Nat /\ DOMAIN messages' = 1..Len(messages') /\ Len(messages') <= MaxMessage
            BY <1>2, LenProperties DEF MessagesInv
      <2>2. QED BY <2>1, CountAssumption DEF Message
<1>4. QED BY <1>2, <1>3 DEF Known

(* What is covered stays so when more messages are sent.                   *)
LEMMA SomeoneActsRight ==
    ASSUME All, SomeoneActs
    PROVE  RightAll'
<1>1. PICK c \in Content, kind \in Kinds[Len(messages) + 1] : messages' = Append(messages, [content |-> c, kind |-> kind])
      BY DEF SomeoneActs
<1>2. UNCHANGED <<received, pageVars, storeVars, feedVars, calls, mixed, rejected>>
      BY DEF SomeoneActs, historyVars
<1>3. \A e \in DOMAIN messages : messages'[e] = messages[e]
      BY <1>1, AppendProperties, LenProperties DEF All, ListsInv, MessagesInv
<1>4. \A e \in Known : messages'[e] = messages[e]
      BY <1>3, KnownAreMessages DEF All
<1>5. \A listed, token : Covers(messages, url, listed, token, Known)
                          => Covers(messages', url, listed, token, Known)
      BY <1>4 DEF Covers
<1>6. PromiseInv' /\ WaitInv'
      BY <1>2 DEF All, RightAll, PromiseInv, WaitInv, pageVars, feedVars, IsLoad,
                  Awaits, Busy, OfMounted, Feed
<1>7. Known' = Known
      BY <1>2 DEF Known, Dropped, IsTlm, Busy, OfMounted, Feed, pageVars
<1>8. RightInv'
      <2>1. \A call : LoadCovers(messages, url, Known, call) => LoadCovers(messages', url, Known, call)
            BY <1>5 DEF LoadCovers
      <2>2. QED BY <1>2, <1>5, <1>7, <2>1 DEF All, RightAll, RightInv, IsLoad, Busy, OfMounted, Feed,
                                              pageVars, storeVars
<1>9. QED BY <1>6, <1>8 DEF RightAll

LEMMA OpenPageRight ==
    ASSUME All, NEW page \in Space \cup {Elsewhere}, OpenPage(page)
    PROVE  RightAll'
BY DEF OpenPage, All, RightAll, PromiseInv, WaitInv, RightInv

(* The list of a feed that mounts is empty, and so are those of its loads. *)
LEMMA MountFeedRight ==
    ASSUME All, MountFeed, NoneIsNoCall
    PROVE  RightAll'
<1> DEFINE v == Len(visits) + 1
           first == FreeSlot
           second == Min(Free \ {first})
           load == Entered(LoadCall(v, LoadCount, TRUE))
<1>1. first \in Slot /\ second \in Slot
      BY TwoFreeSlots DEF MountFeed
<1>2. /\ visits' = Append(visits, url) /\ url \in Space
      /\ UNCHANGED <<messages, received, url, workspaceListLoaded>>
      /\ mounted' = TRUE /\ mixed' = FALSE /\ lastSpaceLoaded' = workspaceListLoaded
      /\ list' = <<>> /\ nextPageToken' = FirstPage
      /\ workspaceListLoaded =>
            /\ calls' = [calls EXCEPT ![first] = load, ![second] = load]
            /\ loadActivitiesPromise' = second
      /\ ~workspaceListLoaded =>
            /\ calls' = [calls EXCEPT ![first] = load]
            /\ loadActivitiesPromise' = first
      BY DEF MountFeed, All, Inv, FeedInv, MountedInv, ResetActivity
<1>3. /\ load.op = "load" /\ load.phase = "asking" /\ load.list = <<>> /\ load.token = FirstPage
      /\ load.answer = None
      BY DEF LoadCall, Entered
<1> HIDE DEF first, second, load
<1>4. \A s \in Slot : /\ calls'[s] = calls[s] \/ calls'[s] = load
                      /\ ~workspaceListLoaded /\ s # first => calls'[s] = calls[s]
      <2>1. calls = [s \in Slot |-> calls[s]]
            BY DEF All, Inv, FeedInv, CallsInv
      <2>2. QED BY <1>1, <1>2, <2>1
<1>5. Feed' = v /\ v = Len(visits) + 1 /\ Len(visits) \in Nat
      BY <1>2, AppendProperties, LenProperties DEF All, Inv, FeedInv, ServerInv, Feed
<1>6. \A s \in Slot : calls[s] # None => calls[s].feed \in 1..Len(visits)
      BY DEF All, Inv, FeedInv, CallsInv, Busy, IsCall
<1>7. \A s \in Busy' : calls'[s].feed = Feed' => calls'[s] = load
      BY <1>4, <1>5, <1>6 DEF Busy
<1> HIDE DEF v
<1>8. received' \in SUBSET Message /\ Known' \in SUBSET Message
      BY KnownLater DEF All, Next
<1>9. PromiseInv'
      <2>1. ~workspaceListLoaded => \A s \in Busy' : calls'[s].feed = Feed' => s = first
            BY <1>4, <1>5, <1>6 DEF Busy, v
      <2>2. QED BY <1>2, <2>1 DEF PromiseInv, IsLoad, OfMounted
<1>10. WaitInv'
       BY <1>3, <1>7 DEF WaitInv, Awaits, IsLoad, OfMounted
<1>11. RightInv'
       <2>1. Covers(messages', url', ToSet(list'), nextPageToken', Known')
             BY <1>2, <1>8, BlankCovers
       <2>2. LoadCovers(messages', url', Known', load)
             BY <1>3, <1>8, BlankCovers
       <2>3. \A s \in Busy' : IsLoad(s)' => LoadCovers(messages', url', Known', calls'[s])
             BY <1>7, <2>2 DEF IsLoad, OfMounted
       <2>4. QED BY <2>1, <2>3 DEF RightInv
<1>12. QED BY <1>9, <1>10, <1>11 DEF RightAll

LEMMA CancelledResets ==
    ASSUME Inv, ListsInv, mounted, NEW r \in Busy, calls[r].op = "load"
    PROVE  CancelCurrentLoadActivities[r].reset = calls[r].reset
<1>1. LoadInv(messages, visits, calls[r]) /\ r \in Slot /\ calls = [s \in Slot |-> calls[s]]
      BY DEF Busy, ListsInv, HoldsLists, Inv, FeedInv, CallsInv
<1>2. Forgotten(calls[r]).reset = calls[r].reset
      BY <1>1 DEF LoadInv, Forgotten
<1>3. \/ CancelCurrentLoadActivities = calls
      \/ CancelCurrentLoadActivities =
            [calls EXCEPT ![loadActivitiesPromise] = Forgotten(calls[loadActivitiesPromise])]
      BY DEF CancelCurrentLoadActivities
<1>4. QED BY <1>1, <1>2, <1>3

(* The list of the spaces: the load before is cancelled, a reset starts.   *)
LEMMA SetWorkspaceListRight ==
    ASSUME All, SetWorkspaceList, NoneIsNoCall
    PROVE  RightAll'
<1>1. workspaceListLoaded' = TRUE /\ UNCHANGED <<messages, received, url, visits, mounted, rejected>>
      /\ ~workspaceListLoaded
      BY DEF SetWorkspaceList
<1>2. CASE ~mounted
      BY <1>1, <1>2 DEF All, RightAll, PromiseInv, WaitInv, RightInv
<1>3. CASE mounted
      <2> DEFINE s == FreeSlot
                 p == loadActivitiesPromise
                 others == CancelCurrentLoadActivities
                 call == LoadCall(Feed, LoadCount, TRUE)
      <2>1. s \in Slot /\ calls[s] = None /\ LoadActivities(s, LoadCount, TRUE, others)
            BY <1>3, FreeSlotIsFree DEF SetWorkspaceList
      <2>2. /\ calls = [r \in Slot |-> calls[r]] /\ others = [r \in Slot |-> others[r]]
            /\ \A r \in Slot : others[r] = None <=> calls[r] = None
            /\ \A r \in Slot : calls[r] # None =>
                  /\ others[r].op = calls[r].op /\ others[r].feed = calls[r].feed
                  /\ others[r].phase = calls[r].phase
            BY <1>3, CancelledAreTheSame DEF All, SameCalls, Inv, FeedInv, CallsInv
      <2>3. \A r \in Busy : IsLoad(r) => r = p
            BY <1>1, <1>3 DEF All, RightAll, PromiseInv
      <2>4. \A r \in Busy : ~Awaits(r)
            BY <1>1, <1>3 DEF All, RightAll, WaitInv
      <2>5. ASSUME NEW r \in Busy, IsLoad(r) PROVE Blank(others[r])
            <3>1. r = p /\ r \in Slot
                  BY <2>3, <2>5 DEF Busy
            <3>2. r # None
                  BY <3>1, NoneAssumption DEF Slot
            <3>3. others = [calls EXCEPT ![r] = Forgotten(calls[r])]
                  BY <3>1, <3>2 DEF CancelCurrentLoadActivities
            <3>4. others[r] = Forgotten(calls[r])
                  BY <2>2, <3>1, <3>3
            <3>5. LoadInv(messages, visits, calls[r])
                  BY <2>5 DEF Busy, IsLoad, All, ListsInv, HoldsLists
            <3>6. QED BY <3>4, <3>5 DEF Forgotten, Blank, LoadInv
      <2>6. /\ call.op = "load" /\ call.phase = "waiting" /\ call.reset = TRUE
            /\ call.feed = Feed /\ call.answer = None
            /\ call.list = list /\ call.token = nextPageToken
            BY DEF LoadCall
      <2>7. /\ Entered(call).op = "load" /\ Entered(call).phase = "asking"
            /\ Entered(call).list = <<>> /\ Entered(call).token = FirstPage
            /\ Entered(call).answer = None /\ Entered(call).feed = Feed
            BY DEF LoadCall, Entered
      <2>8. PICK new : /\ calls' = [others EXCEPT ![s] = new] /\ new \in {call, Entered(call)}
                       /\ new = Entered(call) => list' = <<>> /\ nextPageToken' = FirstPage
                       /\ new = call => UNCHANGED <<list, nextPageToken, mixed>>
            <3>1. call # Entered(call)
                  BY <2>6, <2>7
            <3>2. \/ /\ calls' = [others EXCEPT ![s] = call]
                     /\ UNCHANGED <<list, nextPageToken, mixed>>
                  \/ /\ calls' = [others EXCEPT ![s] = Entered(call)]
                     /\ list' = <<>> /\ nextPageToken' = FirstPage
                  BY <2>1 DEF LoadActivities, ResetActivity, storeVars
            <3> HIDE DEF call, others, s
            <3>3. QED BY <3>1, <3>2
      <2>10. call # None /\ Entered(call) # None
             <3>1. "phase" \in DOMAIN call /\ "phase" \in DOMAIN Entered(call)
                   BY DEF LoadCall, Entered
             <3> HIDE DEF call
             <3>2. QED BY <3>1 DEF NoneIsNoCall
      <2> HIDE DEF call, s, others
      <2>11. /\ Busy' = Busy \cup {s} /\ calls'[s] = new /\ Feed' = Feed /\ s \notin Busy
             /\ \A r \in Busy : calls'[r] = others[r]
             BY <1>1, <2>1, <2>2, <2>8, <2>10 DEF Busy, Feed
      <2>12. \A r \in Busy : (IsLoad(r)' <=> IsLoad(r)) /\ (IsTlm(r)' <=> IsTlm(r))
             BY <2>2, <2>11 DEF IsLoad, IsTlm, OfMounted, Busy
      <2>13. \A r \in Busy : ~Awaits(r)'
             <3> SUFFICES ASSUME NEW r \in Busy, Awaits(r)' PROVE FALSE
                 OBVIOUS
             <3>1. IsLoad(r) /\ calls[r].phase = "waiting"
                   BY <2>2, <2>11, <2>12 DEF Awaits, Busy
             <3>2. Blank(others[r]) /\ ~calls[r].reset
                   BY <2>4, <2>5, <3>1 DEF Awaits
             <3>3. others[r].reset = calls[r].reset
                   BY <1>3, <3>1, CancelledResets DEF others, IsLoad, All
             <3>4. QED BY <2>11, <3>2, <3>3 DEF Awaits
      <2>14. WaitInv'
             BY <1>1, <2>5, <2>11, <2>12, <2>13 DEF WaitInv
      <2>15. RightInv'
             <3> SUFFICES ASSUME ~mixed' PROVE RightInv'
                 BY DEF RightInv
             <3>1. received' \in SUBSET Message /\ Known' \in SUBSET Message
                   BY KnownLater DEF All, Next
             <3>2. \A r \in Busy : IsLoad(r)' => LoadCovers(messages', url', Known', calls'[r])
                   BY <2>5, <2>11, <2>12, <3>1, BlankCovers DEF Blank
             <3>3. CASE new = call
                   <4>1. Covers(messages, url, ToSet(list), nextPageToken, Known)
                         BY <1>3, <2>8, <3>3 DEF All, RightAll, RightInv
                   <4>2. Known' = Known
                         <5>1. \A r \in Busy : IsTlm(r) => calls'[r] = calls[r]
                               <6>1. ASSUME NEW r \in Busy, IsTlm(r) PROVE r # p /\ r \in Slot
                                     <7>1. r \in Slot /\ r # None /\ calls[r].op = "tlm"
                                           BY <6>1, NoneAssumption DEF IsTlm, Busy, Slot
                                     <7>2. p # None => calls[p].op = "load"
                                           BY <1>3 DEF All, Inv, FeedInv, MountedInv
                                     <7>3. QED BY <7>1, <7>2
                               <6>2. others = calls \/ others = [calls EXCEPT ![p] = Forgotten(calls[p])]
                                     BY DEF others, CancelCurrentLoadActivities
                               <6>3. \A r \in Busy : IsTlm(r) => others[r] = calls[r]
                                     BY <2>2, <6>1, <6>2
                               <6>4. QED BY <2>11, <6>3
                         <5>2. calls'[s].op # "tlm"
                               BY <2>6, <2>11, <3>3
                         <5>3. Dropped' = Dropped /\ received' = received
                               BY <1>1 DEF Dropped, Feed
                         <5>4. \A x : /\ \A r \in Busy' : IsTlm(r)' => calls'[r].event # x
                                      <=> \A r \in Busy : IsTlm(r) => calls[r].event # x
                               BY <2>11, <2>12, <5>1, <5>2 DEF IsTlm
                         <5>5. QED BY <5>3, <5>4 DEF Known
                   <4>3. Covers(messages', url', ToSet(list'), nextPageToken', Known')
                         BY <1>1, <2>8, <3>3, <4>1, <4>2
                   <4>4. LoadCovers(messages', url', Known', calls'[s])
                         BY <1>1, <2>6, <2>11, <3>3, <4>1, <4>2 DEF LoadCovers
                   <4>5. QED BY <2>11, <3>2, <4>3, <4>4 DEF RightInv
             <3>4. CASE new = Entered(call)
                   <4>1. Covers(messages', url', ToSet(list'), nextPageToken', Known')
                         BY <2>8, <3>1, <3>4, BlankCovers
                   <4>2. LoadCovers(messages', url', Known', calls'[s])
                         BY <2>7, <2>11, <3>1, <3>4, BlankCovers
                   <4>3. QED BY <2>11, <3>2, <4>1, <4>2 DEF RightInv
             <3>5. QED BY <2>8, <3>3, <3>4
      <2>16. PromiseInv'
             BY <1>1 DEF PromiseInv
      <2>17. QED BY <2>14, <2>15, <2>16 DEF RightAll
<1>4. QED BY <1>2, <1>3

(* A step that sets the call of one slot and leaves the feed alone.        *)
OneCall(s, call) ==
    /\ calls' = [calls EXCEPT ![s] = call]
    /\ UNCHANGED <<messages, url, visits, mounted, workspaceListLoaded, lastSpaceLoaded>>

LEMMA OneCallFacts ==
    ASSUME All, NEW s \in Slot, NEW call, OneCall(s, call)
    PROVE  /\ Feed' = Feed /\ calls'[s] = call
           /\ \A r \in Slot \ {s} : /\ calls'[r] = calls[r]
                                    /\ r \in Busy' <=> r \in Busy
                                    /\ IsLoad(r)' <=> IsLoad(r)
                                    /\ IsTlm(r)' <=> IsTlm(r)
                                    /\ Awaits(r)' <=> Awaits(r)
           /\ s \in Busy' <=> call # None
           /\ IsLoad(s)' <=> call.op = "load" /\ call.feed = Feed
           /\ IsTlm(s)' <=> call.op = "tlm" /\ call.feed = Feed
           /\ Awaits(s)' <=> call.op = "load" /\ call.feed = Feed /\ call.phase = "waiting" /\ call.reset
           /\ Busy \subseteq Slot /\ Busy' \subseteq Slot
           /\ Busy' = IF call = None THEN Busy \ {s} ELSE Busy \cup {s}
<1>1. calls = [r \in Slot |-> calls[r]]
      BY DEF All, Inv, FeedInv, CallsInv
<1>2. QED BY <1>1 DEF OneCall, Busy, IsLoad, IsTlm, Awaits, OfMounted, Feed

LEMMA BusyCalls ==
    ASSUME All, NEW s \in Slot, calls[s] # None
    PROVE  /\ s \in Busy /\ IsCall(calls[s], Len(visits), received)
           /\ calls[s].op \in {"load", "tlm"}
           /\ calls[s].op = "load" => LoadInv(messages, visits, calls[s])
           /\ calls[s].op = "tlm" => TlmInv(messages, calls[s])
           /\ mounted \in BOOLEAN /\ mixed \in BOOLEAN
BY DEF All, Inv, FeedInv, CallsInv, MountedInv, Busy, ListsInv, HoldsLists

(* The messages to know are the same when the call was that of a load, or  *)
(* remains that of the same live message.                                  *)
LEMMA KnownSame ==
    ASSUME All, NEW s \in Slot, NEW call, OneCall(s, call), UNCHANGED <<received, rejected>>,
           s \in Busy /\ IsTlm(s) => call # None /\ call.op = "tlm" /\ call.feed = Feed
                                    /\ call.event = calls[s].event,
           call # None /\ call.op = "tlm" /\ call.feed = Feed => s \in Busy /\ IsTlm(s)
    PROVE  Known' = Known
<1>1. /\ Feed' = Feed /\ calls'[s] = call
      /\ \A r \in Slot \ {s} : /\ calls'[r] = calls[r]
                               /\ r \in Busy' <=> r \in Busy
                               /\ IsTlm(r)' <=> IsTlm(r)
      /\ s \in Busy' <=> call # None
      /\ IsTlm(s)' <=> call.op = "tlm" /\ call.feed = Feed
      /\ Busy \subseteq Slot /\ Busy' \subseteq Slot
      BY OneCallFacts
<1>2. Dropped' = Dropped
      BY <1>1 DEF Dropped
<1>3. \A r \in Slot : /\ r \in Busy' /\ IsTlm(r)' <=> r \in Busy /\ IsTlm(r)
                      /\ r \in Busy /\ IsTlm(r) => calls'[r].event = calls[r].event
      BY <1>1
<1>4. QED BY <1>1, <1>2, <1>3 DEF Known

(* A step that sets one call and leaves the messages to know is right when *)
(* the store, that call if it is a load, and the other loads are.          *)
LEMMA RightByOneCall ==
    ASSUME All, NEW s \in Slot, NEW call, OneCall(s, call), Known' = Known,
           mounted /\ ~mixed' =>
              /\ Covers(messages, url, ToSet(list'), nextPageToken', Known)
              /\ call # None /\ call.op = "load" /\ call.feed = Feed =>
                    LoadCovers(messages, url, Known, call)
              /\ \A r \in Busy \ {s} : IsLoad(r) => LoadCovers(messages, url, Known, calls[r])
    PROVE  RightInv'
<1>1. /\ calls'[s] = call
      /\ \A r \in Slot \ {s} : /\ calls'[r] = calls[r]
                               /\ r \in Busy' <=> r \in Busy
                               /\ IsLoad(r)' <=> IsLoad(r)
      /\ s \in Busy' <=> call # None
      /\ IsLoad(s)' <=> call.op = "load" /\ call.feed = Feed
      /\ Busy' \subseteq Slot
      BY OneCallFacts
<1>2. UNCHANGED <<messages, url, mounted>>
      BY DEF OneCall
<1> SUFFICES ASSUME mounted, ~mixed' PROVE RightInv'
    BY <1>2 DEF RightInv
<1>3. \A r \in Busy' : IsLoad(r)' => LoadCovers(messages', url', Known', calls'[r])
      <2>1. ASSUME NEW r \in Busy', IsLoad(r)' PROVE LoadCovers(messages, url, Known, calls'[r])
            <3>1. CASE r = s
                  BY <1>1, <2>1, <3>1
            <3>2. CASE r # s
                  BY <1>1, <2>1, <3>2
            <3>3. QED BY <3>1, <3>2
      <2>2. QED BY <1>2, <2>1
<1>4. Covers(messages', url', ToSet(list'), nextPageToken', Known')
      BY <1>2
<1>5. QED BY <1>3, <1>4 DEF RightInv

(* "See more": a load goes on from the list of the store.                  *)
LEMMA ClickRight ==
    ASSUME All, HandleClickLoadMore, NoneIsNoCall
    PROVE  RightAll'
<1>1. PICK s : s = FreeSlot
      OBVIOUS
<1> DEFINE goal == Len(list) + LoadCount
           first == LoadCall(Feed, goal, FALSE)
<1>2. /\ s \in Slot /\ calls[s] = None /\ LoadActivities(s, goal, FALSE, calls)
      /\ mounted /\ workspaceListLoaded
      /\ UNCHANGED <<messages, received, pageVars, rejected>>
      BY <1>1, FreeSlotIsFree DEF HandleClickLoadMore, All, RightAll, PromiseInv
<1>3. /\ first.op = "load" /\ first.reset = FALSE /\ first.feed = Feed
      /\ first.list = list /\ first.token = nextPageToken /\ first.answer = None
      /\ "phase" \in DOMAIN first
      BY DEF LoadCall
<1>4. /\ Entered(first).op = "load" /\ Entered(first).reset = FALSE /\ Entered(first).feed = Feed
      /\ Entered(first).list = list /\ Entered(first).token = nextPageToken
      /\ Entered(first).answer = None /\ "phase" \in DOMAIN Entered(first)
      BY DEF LoadCall, Entered
<1>5. PICK call : /\ calls' = [calls EXCEPT ![s] = call]
                  /\ call.op = "load" /\ call.reset = FALSE /\ call.feed = Feed
                  /\ call.list = list /\ call.token = nextPageToken /\ call.answer = None
                  /\ call # None
      <2>1. calls' = [calls EXCEPT ![s] = first] \/ calls' = [calls EXCEPT ![s] = Entered(first)]
            BY <1>2 DEF LoadActivities
      <2> HIDE DEF first
      <2>2. QED BY <1>3, <1>4, <2>1 DEF NoneIsNoCall
<1>6. UNCHANGED storeVars /\ mixed' = mixed
      BY <1>2 DEF LoadActivities, ResetActivity, Starts, All, ListsInv
<1> HIDE DEF first, goal
<1>7. OneCall(s, call)
      BY <1>2, <1>5 DEF OneCall, pageVars
<1>8. /\ Feed' = Feed /\ calls'[s] = call
      /\ \A r \in Slot \ {s} : /\ calls'[r] = calls[r]
                               /\ r \in Busy' <=> r \in Busy
                               /\ IsLoad(r)' <=> IsLoad(r)
                               /\ IsTlm(r)' <=> IsTlm(r)
                               /\ Awaits(r)' <=> Awaits(r)
      /\ ~Awaits(s)' /\ ~IsTlm(s)'
      /\ Busy \subseteq Slot /\ Busy' = Busy \cup {s} /\ s \notin Busy
      <2>1. /\ Feed' = Feed /\ calls'[s] = call
            /\ \A r \in Slot \ {s} : /\ calls'[r] = calls[r]
                                     /\ r \in Busy' <=> r \in Busy
                                     /\ IsLoad(r)' <=> IsLoad(r)
                                     /\ IsTlm(r)' <=> IsTlm(r)
                                     /\ Awaits(r)' <=> Awaits(r)
            /\ IsTlm(s)' <=> call.op = "tlm" /\ call.feed = Feed
            /\ Awaits(s)' <=> call.op = "load" /\ call.feed = Feed /\ call.phase = "waiting" /\ call.reset
            /\ Busy \subseteq Slot
            /\ Busy' = IF call = None THEN Busy \ {s} ELSE Busy \cup {s}
            BY <1>2, <1>7, OneCallFacts
      <2>2. s \notin Busy
            BY <1>2 DEF Busy
      <2>3. QED BY <1>5, <2>1, <2>2
<1>9. WaitInv'
      BY <1>2, <1>5, <1>8 DEF All, RightAll, WaitInv, pageVars
<1>10. Known' = Known
       <2>1. s \notin Busy
             BY <1>2 DEF Busy
       <2>2. QED BY <1>2, <1>5, <1>7, <2>1, KnownSame
<1>11. RightInv'
       <2>1. ASSUME ~mixed'
             PROVE  /\ Covers(messages, url, ToSet(list'), nextPageToken', Known)
                    /\ LoadCovers(messages, url, Known, call)
                    /\ \A r \in Busy : IsLoad(r) => LoadCovers(messages, url, Known, calls[r])
             <3>1. /\ Covers(messages, url, ToSet(list), nextPageToken, Known)
                   /\ \A r \in Busy : IsLoad(r) => LoadCovers(messages, url, Known, calls[r])
                   BY <1>2, <1>6, <2>1 DEF All, RightAll, RightInv
             <3>2. QED BY <1>5, <1>6, <3>1 DEF LoadCovers, storeVars
       <2>2. QED BY <1>2, <1>7, <1>10, <2>1, RightByOneCall
<1>12. PromiseInv'
       BY <1>2 DEF PromiseInv, pageVars
<1>13. QED BY <1>9, <1>11, <1>12 DEF RightAll

LEMMA EnterLoadRight ==
    ASSUME All, NEW s \in Slot, EnterLoad(s), NoneIsNoCall
    PROVE  RightAll'
<1> DEFINE old == calls[s]
           call == Entered(old)
<1>1. /\ s \in Busy /\ old # None /\ old.op = "load" /\ old.phase = "waiting"
      /\ LoadInv(messages, visits, old) /\ IsCall(old, Len(visits), received)
      /\ mounted \in BOOLEAN /\ mixed \in BOOLEAN
      BY BusyCalls DEF EnterLoad
<1>2. /\ call.op = "load" /\ call.phase = "asking" /\ call.feed = old.feed
      /\ call.reset = old.reset /\ call.answer = old.answer /\ call.cancelled = old.cancelled
      /\ old.reset => call.list = <<>> /\ call.token = FirstPage
      /\ ~old.reset => call.list = old.list /\ call.token = old.token
      /\ old.answer = None /\ "phase" \in DOMAIN call
      BY <1>1 DEF Entered, LoadInv, IsCall
<1>3. /\ calls' = [calls EXCEPT ![s] = call]
      /\ loadActivitiesPromise' = IF OfMounted(s) THEN s ELSE loadActivitiesPromise
      /\ ResetActivity(old.reset)
      /\ OfMounted(s) /\ mounted => Starts(old.reset, Busy \ {s})
      /\ ~(OfMounted(s) /\ mounted) => Writes(s)
      /\ UNCHANGED <<messages, received, pageVars, rejected>>
      BY DEF EnterLoad
<1> HIDE DEF call
<1>4. OneCall(s, call) /\ call # None
      BY <1>2, <1>3 DEF OneCall, pageVars, NoneIsNoCall
<1>5. /\ Feed' = Feed /\ calls'[s] = call
      /\ \A r \in Slot \ {s} : /\ calls'[r] = calls[r]
                               /\ r \in Busy' <=> r \in Busy
                               /\ IsLoad(r)' <=> IsLoad(r)
                               /\ IsTlm(r)' <=> IsTlm(r)
                               /\ Awaits(r)' <=> Awaits(r)
      /\ s \in Busy' /\ ~Awaits(s)' /\ ~IsTlm(s)' /\ ~IsTlm(s) /\ (IsLoad(s)' <=> IsLoad(s))
      /\ Busy \subseteq Slot /\ Busy' \subseteq Slot /\ Busy' = Busy
      <2>1. /\ Feed' = Feed /\ calls'[s] = call
            /\ \A r \in Slot \ {s} : /\ calls'[r] = calls[r]
                                     /\ r \in Busy' <=> r \in Busy
                                     /\ IsLoad(r)' <=> IsLoad(r)
                                     /\ IsTlm(r)' <=> IsTlm(r)
                                     /\ Awaits(r)' <=> Awaits(r)
            /\ s \in Busy' <=> call # None
            /\ IsLoad(s)' <=> call.op = "load" /\ call.feed = Feed
            /\ IsTlm(s)' <=> call.op = "tlm" /\ call.feed = Feed
            /\ Awaits(s)' <=> call.op = "load" /\ call.feed = Feed /\ call.phase = "waiting" /\ call.reset
            /\ Busy \subseteq Slot /\ Busy' \subseteq Slot
            /\ Busy' = IF call = None THEN Busy \ {s} ELSE Busy \cup {s}
            BY <1>4, OneCallFacts
      <2>2. s \in Busy' /\ ~Awaits(s)' /\ ~IsTlm(s)' /\ ~IsTlm(s) /\ (IsLoad(s)' <=> IsLoad(s))
            BY <1>1, <1>2, <1>4, <2>1 DEF IsLoad, IsTlm, OfMounted
      <2>3. Busy' = Busy
            BY <1>1, <1>4, <2>1
      <2>4. QED BY <2>1, <2>2, <2>3
<1> HIDE DEF old
<1>6. PromiseInv'
      <2> SUFFICES ASSUME mounted, ~workspaceListLoaded
                   PROVE  ~lastSpaceLoaded' /\ \A r \in Busy' : IsLoad(r)' => loadActivitiesPromise' = r
          BY <1>3 DEF PromiseInv, pageVars
      <2>1. ~lastSpaceLoaded /\ \A r \in Busy : IsLoad(r) => loadActivitiesPromise = r
            BY DEF All, RightAll, PromiseInv
      <2>2. OfMounted(s) => IsLoad(s)
            BY <1>1 DEF IsLoad, old
      <2>3. QED BY <1>1, <1>3, <1>5, <2>1, <2>2 DEF pageVars
<1>7. WaitInv'
      <2> SUFFICES ASSUME mounted, NEW t \in Busy, t # s, Awaits(t)
                   PROVE  /\ workspaceListLoaded
                          /\ \A r \in Busy' \ {t} : IsLoad(r)' /\ calls'[r].reset => Blank(calls'[r])
          BY <1>3, <1>5 DEF WaitInv, pageVars
      <2>1. /\ workspaceListLoaded
            /\ \A r \in Busy \ {t} : IsLoad(r) /\ calls[r].reset => Blank(calls[r])
            BY DEF All, RightAll, WaitInv
      <2>2. IsLoad(s) /\ call.reset => Blank(call)
            BY <1>1, <1>2, <2>1 DEF Blank, old
      <2>3. QED BY <1>5, <2>1, <2>2
<1>8. Known' = Known
      <2>1. ~IsTlm(s) /\ call.op # "tlm"
            BY <1>2, <1>5
      <2>2. QED BY <1>1, <1>3, <1>4, <2>1, KnownSame DEF Busy
<1>9. RightInv'
      <2>1. ASSUME mounted, ~mixed'
            PROVE  /\ Covers(messages, url, ToSet(list'), nextPageToken', Known)
                   /\ LoadCovers(messages, url, Known, call)
                   /\ \A r \in Busy \ {s} : IsLoad(r) => LoadCovers(messages, url, Known, calls[r])
            <3>1. OfMounted(s) /\ Starts(old.reset, Busy \ {s})
                  BY <1>3, <2>1 DEF Writes
            <3>2. Known \in SUBSET Message
                  BY KnownAreMessages DEF All
            <3>3. IsLoad(s)
                  BY <1>1, <3>1 DEF IsLoad, old
            <3>4. ~mixed =>
                     /\ Covers(messages, url, ToSet(list), nextPageToken, Known)
                     /\ \A r \in Busy : IsLoad(r) => LoadCovers(messages, url, Known, calls[r])
                  BY <2>1 DEF All, RightAll, RightInv
            <3>5. CASE old.reset
                  <4>1. list' = <<>> /\ nextPageToken' = FirstPage
                        BY <1>3, <3>5 DEF ResetActivity
                  <4>2. Covers(messages, url, ToSet(list'), nextPageToken', Known)
                        BY <3>2, <4>1, BlankCovers
                  <4>3. LoadCovers(messages, url, Known, call)
                        BY <1>2, <3>2, <3>5, BlankCovers
                  <4>4. Awaits(s)
                        BY <1>1, <3>3, <3>5 DEF Awaits, old
                  <4>5. mixed => \A r \in Busy \ {s} : IsLoad(r) => Blank(calls[r])
                        BY <1>1, <2>1, <3>1, <3>5, <4>4 DEF Starts, All, RightAll, WaitInv, IsLoad
                  <4>6. mixed => \A r \in Busy \ {s} : IsLoad(r) => LoadCovers(messages, url, Known, calls[r])
                        BY <3>2, <4>5, BlankCovers DEF Blank
                  <4>7. QED BY <1>1, <3>4, <4>2, <4>3, <4>6
            <3>6. CASE ~old.reset
                  <4>1. UNCHANGED storeVars /\ ~mixed
                        BY <1>1, <1>3, <2>1, <3>1, <3>6 DEF ResetActivity, Starts
                  <4>2. LoadCovers(messages, url, Known, old)
                        BY <1>1, <3>3, <3>4, <4>1 DEF old
                  <4>3. LoadCovers(messages, url, Known, call)
                        BY <1>2, <3>6, <4>2 DEF LoadCovers
                  <4>4. QED BY <3>4, <4>1, <4>3 DEF storeVars
            <3>7. QED BY <3>5, <3>6
      <2>2. QED BY <1>4, <1>8, <2>1, RightByOneCall
<1>10. QED BY <1>6, <1>7, <1>9 DEF RightAll

LEMMA AnswerBatchRight ==
    ASSUME All, NEW s \in Slot, AnswerBatch(s), NoneIsNoCall
    PROVE  RightAll'
<1> DEFINE old == calls[s]
           answer == LoadActivitiesBatch(Older(visits[old.feed], old.token), old.list, old.token)
           call == [old EXCEPT !.answer = answer]
<1>1. /\ s \in Busy /\ old # None /\ old.op = "load" /\ old.phase = "asking" /\ ~old.cancelled
      /\ LoadInv(messages, visits, old) /\ IsCall(old, Len(visits), received)
      BY BusyCalls DEF AnswerBatch
<1>2. /\ calls' = [calls EXCEPT ![s] = call]
      /\ UNCHANGED <<messages, received, pageVars, storeVars, feedVars, mixed, rejected>>
      BY DEF AnswerBatch, historyVars
<1> HIDE DEF answer
<1>3. /\ call.op = "load" /\ call.phase = "asking" /\ call.feed = old.feed /\ call.reset = old.reset
      /\ call.list = old.list /\ call.token = old.token /\ call.answer = answer
      /\ "phase" \in DOMAIN call
      BY <1>1 DEF LoadInv, IsCall
<1> HIDE DEF call
<1>4. OneCall(s, call) /\ call # None
      BY <1>2, <1>3 DEF OneCall, pageVars, NoneIsNoCall
<1>5. /\ Feed' = Feed /\ calls'[s] = call
      /\ \A r \in Slot \ {s} : /\ calls'[r] = calls[r]
                               /\ r \in Busy' <=> r \in Busy
                               /\ IsLoad(r)' <=> IsLoad(r)
                               /\ IsTlm(r)' <=> IsTlm(r)
                               /\ Awaits(r)' <=> Awaits(r)
      /\ s \in Busy' /\ ~Awaits(s)' /\ ~Awaits(s) /\ ~IsTlm(s)' /\ ~IsTlm(s) /\ (IsLoad(s)' <=> IsLoad(s))
      /\ Busy' = Busy
      <2>1. /\ Feed' = Feed /\ calls'[s] = call
            /\ \A r \in Slot \ {s} : /\ calls'[r] = calls[r]
                                     /\ r \in Busy' <=> r \in Busy
                                     /\ IsLoad(r)' <=> IsLoad(r)
                                     /\ IsTlm(r)' <=> IsTlm(r)
                                     /\ Awaits(r)' <=> Awaits(r)
            /\ s \in Busy' <=> call # None
            /\ IsLoad(s)' <=> call.op = "load" /\ call.feed = Feed
            /\ IsTlm(s)' <=> call.op = "tlm" /\ call.feed = Feed
            /\ Awaits(s)' <=> call.op = "load" /\ call.feed = Feed /\ call.phase = "waiting" /\ call.reset
            /\ Busy \subseteq Slot /\ Busy' \subseteq Slot
            /\ Busy' = IF call = None THEN Busy \ {s} ELSE Busy \cup {s}
            BY <1>4, OneCallFacts
      <2>2. s \in Busy' /\ ~Awaits(s)' /\ ~Awaits(s) /\ ~IsTlm(s)' /\ ~IsTlm(s) /\ (IsLoad(s)' <=> IsLoad(s))
            BY <1>1, <1>3, <1>4, <2>1 DEF IsLoad, IsTlm, OfMounted, Awaits
      <2>3. Busy' = Busy
            BY <1>1, <1>4, <2>1
      <2>4. QED BY <2>1, <2>2, <2>3
<1> HIDE DEF old
<1>6. PromiseInv'
      BY <1>2, <1>5 DEF All, RightAll, PromiseInv, pageVars, feedVars, Busy
<1>7. WaitInv'
      <2> SUFFICES ASSUME mounted, NEW t \in Busy, t # s, Awaits(t)
                   PROVE  /\ workspaceListLoaded
                          /\ \A r \in Busy' \ {t} : IsLoad(r)' /\ calls'[r].reset => Blank(calls'[r])
          BY <1>2, <1>5 DEF WaitInv, pageVars, Busy
      <2>1. /\ workspaceListLoaded
            /\ \A r \in Busy \ {t} : IsLoad(r) /\ calls[r].reset => Blank(calls[r])
            BY DEF All, RightAll, WaitInv
      <2>2. ~(IsLoad(s) /\ call.reset)
            BY <1>1, <1>3, <2>1 DEF Blank, old
      <2>3. QED BY <1>5, <2>1, <2>2 DEF Busy
<1>8. Known' = Known
      BY <1>2, <1>3, <1>4, <1>5, KnownSame
<1>9. RightInv'
      <2>1. ASSUME mounted, ~mixed
            PROVE  /\ Covers(messages, url, ToSet(list), nextPageToken, Known)
                   /\ \A r \in Busy : IsLoad(r) => LoadCovers(messages, url, Known, calls[r])
            BY <2>1 DEF All, RightAll, RightInv
      <2>2. ASSUME mounted, ~mixed, call.feed = Feed
            PROVE  LoadCovers(messages, url, Known, call)
            <3>1. IsLoad(s)
                  BY <1>1, <1>3, <2>2 DEF IsLoad, OfMounted, old
            <3>2. LoadCovers(messages, url, Known, old)
                  BY <1>1, <2>1, <2>2, <3>1 DEF old
            <3>3. visits[old.feed] = url
                  BY <1>3, <2>2 DEF All, Inv, FeedInv, MountedInv
            <3>4. IsPage(messages, old.list, TRUE, old.token) /\ MessagesInv
                  BY <1>1 DEF LoadInv, IsPage, All, ListsInv
            <3>5. Known \in SUBSET DOMAIN messages
                  BY KnownAreMessages DEF All
            <3>6. Covers(messages, url, ToSet(answer.list), answer.token, Known)
                  BY <3>2, <3>3, <3>4, <3>5, BatchLists DEF answer, LoadCovers
            <3>7. QED BY <1>3, <3>2, <3>6 DEF LoadCovers
      <2>3. QED BY <1>2, <1>4, <1>8, <2>1, <2>2, RightByOneCall DEF storeVars
<1>10. QED BY <1>6, <1>7, <1>9 DEF RightAll

(* A call that ends, and was not a load that awaits.                       *)
LEMMA CallEnds ==
    ASSUME All, NEW s \in Slot, calls[s] # None, ~Awaits(s), OneCall(s, None)
    PROVE  /\ WaitInv'
           /\ Busy' = Busy \ {s}
           /\ \A r \in Busy' : /\ r \in Busy /\ r # s /\ calls'[r] = calls[r]
                               /\ IsLoad(r)' <=> IsLoad(r)
                               /\ IsTlm(r)' <=> IsTlm(r)
                               /\ Awaits(r)' <=> Awaits(r)
<1>1. /\ \A r \in Slot \ {s} : /\ calls'[r] = calls[r]
                               /\ r \in Busy' <=> r \in Busy
                               /\ IsLoad(r)' <=> IsLoad(r)
                               /\ IsTlm(r)' <=> IsTlm(r)
                               /\ Awaits(r)' <=> Awaits(r)
      /\ Busy \subseteq Slot /\ Busy' = Busy \ {s}
      BY OneCallFacts
<1>2. WaitInv'
      <2> SUFFICES ASSUME mounted, NEW t \in Busy, t # s, Awaits(t)
                   PROVE  /\ workspaceListLoaded
                          /\ \A r \in Busy' \ {t} : IsLoad(r)' /\ calls'[r].reset => Blank(calls'[r])
          BY <1>1 DEF WaitInv, OneCall
      <2>1. /\ workspaceListLoaded
            /\ \A r \in Busy \ {t} : IsLoad(r) /\ calls[r].reset => Blank(calls[r])
            BY DEF All, RightAll, WaitInv
      <2>2. QED BY <1>1, <2>1
<1>3. QED BY <1>1, <1>2

LEMMA ResumeLoadRight ==
    ASSUME All, NEW s \in Slot, ResumeLoad(s), NoneIsNoCall
    PROVE  RightAll'
<1> DEFINE old == calls[s]
           next == [old EXCEPT !.list = old.answer.list, !.hasNext = old.answer.hasNext,
                            !.token = old.answer.token, !.answer = None]
<1>1. /\ s \in Busy /\ old # None /\ old.op = "load" /\ old.phase = "asking"
      /\ LoadInv(messages, visits, old) /\ IsCall(old, Len(visits), received)
      /\ UNCHANGED <<messages, received, pageVars, rejected>>
      BY BusyCalls DEF ResumeLoad
<1>2. ~Awaits(s) /\ ~IsTlm(s) /\ (IsLoad(s) <=> OfMounted(s))
      BY <1>1 DEF Awaits, IsTlm, IsLoad
<1>3. ASSUME mounted, ~mixed
      PROVE  /\ Covers(messages, url, ToSet(list), nextPageToken, Known)
             /\ \A r \in Busy : IsLoad(r) => LoadCovers(messages, url, Known, calls[r])
      BY <1>3 DEF All, RightAll, RightInv
<1>4. ASSUME NEW call, OneCall(s, call), call # None => call.op = "load"
      PROVE  Known' = Known
      BY <1>1, <1>2, <1>4, KnownSame
<1>5. ASSUME OneCall(s, None),
             mixed => mixed',
             loadActivitiesPromise' = loadActivitiesPromise \/ OfMounted(s),
             ~mixed' /\ mounted => Covers(messages, url, ToSet(list'), nextPageToken', Known)
      PROVE  RightAll'
      <2>1. /\ WaitInv'
            /\ Busy' = Busy \ {s}
            /\ \A r \in Busy' : /\ r \in Busy /\ r # s /\ calls'[r] = calls[r]
                                /\ IsLoad(r)' <=> IsLoad(r)
            BY <1>1, <1>2, <1>5, CallEnds
      <2>2. PromiseInv'
            <3> SUFFICES ASSUME mounted, ~workspaceListLoaded
                         PROVE  ~lastSpaceLoaded' /\ \A r \in Busy' : IsLoad(r)' => loadActivitiesPromise' = r
                BY <1>1 DEF PromiseInv, pageVars
            <3>1. ~lastSpaceLoaded /\ \A r \in Busy : IsLoad(r) => loadActivitiesPromise = r
                  BY DEF All, RightAll, PromiseInv
            <3>2. QED BY <1>1, <1>2, <1>5, <2>1, <3>1 DEF pageVars
      <2>3. RightInv'
            <3>1. Known' = Known
                  BY <1>4, <1>5
            <3>2. QED BY <1>3, <1>5, <3>1, RightByOneCall
      <2>4. QED BY <2>1, <2>2, <2>3 DEF RightAll
<1>6. CASE Cancelled(s) \/ Abandoned(s)
      <2>1. /\ OneCall(s, None)
            /\ UNCHANGED <<list, nextPageToken, mixed>>
            /\ loadActivitiesPromise' = loadActivitiesPromise \/ OfMounted(s)
            BY <1>1, <1>6 DEF Cancelled, Abandoned, EndLoad, OneCall, storeVars, pageVars
      <2>2. ~mixed' /\ mounted => Covers(messages, url, ToSet(list'), nextPageToken', Known)
            BY <1>3, <2>1
      <2>3. QED BY <1>5, <2>1, <2>2
<1>7. CASE Dispatched(s)
      <2>1. /\ old.answer # None
            /\ list' = old.answer.list /\ nextPageToken' = old.answer.token
            /\ mixed' = (mixed \/ ~OfMounted(s) \/ ~mounted)
            /\ \/ /\ calls' = [calls EXCEPT ![s] = next]
                  /\ loadActivitiesPromise' = IF OfMounted(s) THEN s ELSE loadActivitiesPromise
               \/ /\ calls' = [calls EXCEPT ![s] = None]
                  /\ loadActivitiesPromise' = IF OfMounted(s) THEN None ELSE loadActivitiesPromise
            BY <1>1, <1>7 DEF Dispatched, EndLoad, Writes, LoadInv
      <2>2. ASSUME ~mixed', mounted
            PROVE  Covers(messages, url, ToSet(list'), nextPageToken', Known)
            <3>1. IsLoad(s) /\ ~mixed
                  BY <1>2, <2>1, <2>2
            <3>2. LoadCovers(messages, url, Known, old)
                  BY <1>1, <1>3, <2>2, <3>1
            <3>3. QED BY <2>1, <3>2 DEF LoadCovers
      <2>3. CASE /\ calls' = [calls EXCEPT ![s] = None]
                 /\ loadActivitiesPromise' = IF OfMounted(s) THEN None ELSE loadActivitiesPromise
            <3>1. OneCall(s, None)
                  BY <1>1, <2>3 DEF OneCall, pageVars
            <3>2. QED BY <1>5, <2>1, <2>2, <2>3, <3>1
      <2>4. CASE /\ calls' = [calls EXCEPT ![s] = next]
                 /\ loadActivitiesPromise' = IF OfMounted(s) THEN s ELSE loadActivitiesPromise
            <3>1. /\ next.op = "load" /\ next.phase = "asking" /\ next.feed = old.feed
                  /\ next.reset = old.reset /\ next.list = list' /\ next.token = nextPageToken'
                  /\ next.answer = None /\ "phase" \in DOMAIN next
                  BY <1>1, <2>1 DEF LoadInv, IsCall
            <3> HIDE DEF next
            <3>2. OneCall(s, next) /\ next # None
                  BY <1>1, <2>4, <3>1 DEF OneCall, pageVars, NoneIsNoCall
            <3>3. /\ Feed' = Feed /\ calls'[s] = next
                  /\ \A r \in Slot \ {s} : /\ calls'[r] = calls[r]
                                           /\ r \in Busy' <=> r \in Busy
                                           /\ IsLoad(r)' <=> IsLoad(r)
                                           /\ IsTlm(r)' <=> IsTlm(r)
                                           /\ Awaits(r)' <=> Awaits(r)
                  /\ IsLoad(s)' <=> next.op = "load" /\ next.feed = Feed
                  /\ IsTlm(s)' <=> next.op = "tlm" /\ next.feed = Feed
                  /\ Awaits(s)' <=> next.op = "load" /\ next.feed = Feed /\ next.phase = "waiting" /\ next.reset
                  /\ Busy \subseteq Slot
                  /\ Busy' = IF next = None THEN Busy \ {s} ELSE Busy \cup {s}
                  BY <3>2, OneCallFacts
            <3>4. Busy' = Busy /\ ~Awaits(s)' /\ ~IsTlm(s)' /\ (IsLoad(s)' <=> IsLoad(s))
                  BY <1>1, <3>1, <3>2, <3>3 DEF IsLoad, OfMounted
            <3> HIDE DEF old
            <3>5. PromiseInv'
                  <4> SUFFICES ASSUME mounted, ~workspaceListLoaded
                               PROVE  ~lastSpaceLoaded' /\ \A r \in Busy' : IsLoad(r)' => loadActivitiesPromise' = r
                      BY <1>1 DEF PromiseInv, pageVars
                  <4>1. ~lastSpaceLoaded /\ \A r \in Busy : IsLoad(r) => loadActivitiesPromise = r
                        BY DEF All, RightAll, PromiseInv
                  <4>2. QED BY <1>1, <1>2, <2>4, <3>3, <3>4, <4>1 DEF pageVars
            <3>6. WaitInv'
                  <4> SUFFICES ASSUME mounted, NEW t \in Busy, t # s, Awaits(t)
                               PROVE  /\ workspaceListLoaded
                                      /\ \A r \in Busy' \ {t} : IsLoad(r)' /\ calls'[r].reset => Blank(calls'[r])
                      BY <1>1, <3>3, <3>4 DEF WaitInv, pageVars
                  <4>1. /\ workspaceListLoaded
                        /\ \A r \in Busy \ {t} : IsLoad(r) /\ calls[r].reset => Blank(calls[r])
                        BY DEF All, RightAll, WaitInv
                  <4>2. ~(IsLoad(s) /\ next.reset)
                        BY <1>1, <2>1, <3>1, <4>1 DEF Blank, old
                  <4>3. QED BY <3>3, <3>4, <4>1, <4>2
            <3>7. RightInv'
                  <4>1. Known' = Known
                        BY <1>4, <3>1, <3>2
                  <4>2. ASSUME mounted, ~mixed' PROVE LoadCovers(messages, url, Known, next)
                        BY <2>2, <3>1, <4>2 DEF LoadCovers
                  <4>3. QED BY <1>3, <2>1, <2>2, <3>2, <4>1, <4>2, RightByOneCall
            <3>8. QED BY <3>5, <3>6, <3>7 DEF RightAll
      <2>5. QED BY <2>1, <2>3, <2>4
<1>8. QED BY <1>1, <1>6, <1>7 DEF ResumeLoad

(* A live message: the list need not know one that a handler takes care    *)
(* of, nor one of another space.                                           *)
LEMMA HandleTlmRight ==
    ASSUME All, NEW e \in Message, HandleTlm(e), NoneIsNoCall
    PROVE  RightAll'
<1>1. /\ received' = received \cup {e} /\ e \in DOMAIN messages /\ e \notin received
      /\ UNCHANGED <<messages, pageVars, storeVars, feedVars, mixed, rejected>>
      BY DEF HandleTlm, historyVars
<1>2. CASE mounted /\ SpaceOfEvent(e) = url
      <2>1. PICK s : s = FreeSlot
            OBVIOUS
      <2> DEFINE call == [op |-> "tlm", feed |-> Feed, phase |-> "fetching", event |-> e]
      <2>2. s \in Slot /\ calls[s] = None /\ calls' = [calls EXCEPT ![s] = call]
            BY <1>2, <2>1, FreeSlotIsFree DEF HandleTlm
      <2>3. call.op = "tlm" /\ call.feed = Feed /\ call.phase = "fetching" /\ call.event = e
            /\ "phase" \in DOMAIN call
            OBVIOUS
      <2> HIDE DEF call
      <2>4. OneCall(s, call) /\ call # None /\ s \notin Busy
            BY <1>1, <2>2, <2>3 DEF OneCall, pageVars, NoneIsNoCall, Busy
      <2>5. /\ Feed' = Feed /\ calls'[s] = call
            /\ \A r \in Slot \ {s} : /\ calls'[r] = calls[r]
                                     /\ r \in Busy' <=> r \in Busy
                                     /\ IsLoad(r)' <=> IsLoad(r)
                                     /\ IsTlm(r)' <=> IsTlm(r)
                                     /\ Awaits(r)' <=> Awaits(r)
            /\ IsLoad(s)' <=> call.op = "load" /\ call.feed = Feed
            /\ IsTlm(s)' <=> call.op = "tlm" /\ call.feed = Feed
            /\ Awaits(s)' <=> call.op = "load" /\ call.feed = Feed /\ call.phase = "waiting" /\ call.reset
            /\ Busy \subseteq Slot
            /\ Busy' = IF call = None THEN Busy \ {s} ELSE Busy \cup {s}
            BY <2>2, <2>4, OneCallFacts
      <2>6. Busy' = Busy \cup {s} /\ ~IsLoad(s)' /\ IsTlm(s)' /\ ~Awaits(s)'
            BY <2>3, <2>4, <2>5
      <2>7. PromiseInv'
            BY <1>1, <2>5, <2>6 DEF All, RightAll, PromiseInv, pageVars, feedVars
      <2>8. WaitInv'
            BY <1>1, <2>5, <2>6 DEF All, RightAll, WaitInv, pageVars
      <2>9. Known' = Known
            <3>1. Dropped' = Dropped
                  BY <1>1, <2>5 DEF Dropped
            <3>2. \A x : /\ \A r \in Busy' : IsTlm(r)' => calls'[r].event # x
                         <=> x # e /\ \A r \in Busy : IsTlm(r) => calls[r].event # x
                  BY <2>3, <2>4, <2>5, <2>6
            <3>3. QED BY <1>1, <3>1, <3>2 DEF Known
      <2>10. RightInv'
             <3>1. mounted /\ ~mixed =>
                      /\ Covers(messages, url, ToSet(list), nextPageToken, Known)
                      /\ \A r \in Busy : IsLoad(r) => LoadCovers(messages, url, Known, calls[r])
                   BY DEF All, RightAll, RightInv
             <3>2. QED BY <1>1, <2>2, <2>3, <2>4, <2>9, <3>1, RightByOneCall DEF storeVars
      <2>11. QED BY <2>7, <2>8, <2>10 DEF RightAll
<1>3. CASE ~(mounted /\ SpaceOfEvent(e) = url)
      <2>1. UNCHANGED calls
            BY <1>3 DEF HandleTlm
      <2>2. PromiseInv' /\ WaitInv'
            BY <1>1, <2>1 DEF All, RightAll, PromiseInv, WaitInv, pageVars, feedVars, IsLoad,
                              Awaits, Busy, OfMounted, Feed
      <2>3. RightInv'
            <3> SUFFICES ASSUME mounted, ~mixed PROVE RightInv'
                BY <1>1 DEF RightInv, pageVars
            <3>1. /\ Covers(messages, url, ToSet(list), nextPageToken, Known)
                  /\ \A r \in Busy : IsLoad(r) => LoadCovers(messages, url, Known, calls[r])
                  BY DEF All, RightAll, RightInv
            <3>2. SpaceOf[messages[e].content] # url
                  BY <1>3 DEF SpaceOfEvent
            <3>3. \A x \in Known' : SpaceOf[messages[x].content] = url => x \in Known
                  BY <1>1, <2>1, <3>2 DEF Known, Dropped, IsTlm, Busy, OfMounted, Feed, pageVars
            <3>4. Covers(messages', url', ToSet(list'), nextPageToken', Known')
                  BY <1>1, <3>1, <3>3, CoversFewer DEF pageVars, storeVars
            <3>5. \A call : LoadCovers(messages, url, Known, call) => LoadCovers(messages, url, Known', call)
                  BY <3>3, LoadCoversFewer
            <3>6. \A r \in Slot : IsLoad(r)' <=> IsLoad(r)
                  BY <1>1, <2>1 DEF IsLoad, OfMounted, Feed, pageVars
            <3>7. \A r \in Busy' : IsLoad(r)' => LoadCovers(messages', url', Known', calls'[r])
                  BY <1>1, <2>1, <3>1, <3>5, <3>6 DEF Busy, pageVars
            <3>8. QED BY <3>4, <3>7 DEF RightInv
      <2>4. QED BY <2>2, <2>3 DEF RightAll
<1>4. QED BY <1>2, <1>3

(* A handler of a live message that captures the list, or takes the flag.  *)
LEMMA TlmEntersRight ==
    ASSUME All, NEW s \in Slot, UpdateActivityListFromTlm(s) \/ EnterTlm(s), NoneIsNoCall
    PROVE  RightAll'
<1> DEFINE old == calls[s]
<1>1. /\ s \in Busy /\ old # None /\ old.op = "tlm" /\ TlmInv(messages, old)
      /\ IsCall(old, Len(visits), received)
      BY BusyCalls DEF UpdateActivityListFromTlm, EnterTlm
<1>2. UNCHANGED <<messages, received, pageVars, storeVars, loadActivitiesPromise, mixed, rejected>>
      BY DEF UpdateActivityListFromTlm, EnterTlm, historyVars
<1>3. PICK call : /\ calls' = [calls EXCEPT ![s] = call]
                  /\ call.op = "tlm" /\ call.feed = old.feed /\ call.event = old.event
                  /\ "phase" \in DOMAIN call
      <2>1. CASE UpdateActivityListFromTlm(s)
            <3> DEFINE call == [op |-> "tlm", feed |-> old.feed, event |-> old.event, list |-> list,
                                phase |-> IF ~changingActivityList[old.feed] THEN "building"
                                          ELSE "waiting"]
            <3>1. calls' = [calls EXCEPT ![s] = call]
                  BY <2>1 DEF UpdateActivityListFromTlm
            <3>2. call.op = "tlm" /\ call.feed = old.feed /\ call.event = old.event
                  /\ "phase" \in DOMAIN call
                  OBVIOUS
            <3> HIDE DEF call
            <3>3. QED BY <3>1, <3>2
      <2>2. CASE EnterTlm(s)
            <3> DEFINE call == [old EXCEPT !.phase = "building"]
            <3>1. calls' = [calls EXCEPT ![s] = call] /\ old.phase = "waiting"
                  BY <2>2 DEF EnterTlm
            <3>2. call.op = "tlm" /\ call.feed = old.feed /\ call.event = old.event
                  /\ "phase" \in DOMAIN call
                  BY <1>1, <3>1 DEF IsCall, TlmInv
            <3> HIDE DEF call
            <3>3. QED BY <3>1, <3>2
      <2>3. QED BY <2>1, <2>2
<1>4. OneCall(s, call) /\ call # None
      BY <1>2, <1>3 DEF OneCall, pageVars, NoneIsNoCall
<1>5. /\ Feed' = Feed /\ calls'[s] = call
      /\ \A r \in Slot \ {s} : /\ calls'[r] = calls[r]
                               /\ r \in Busy' <=> r \in Busy
                               /\ IsLoad(r)' <=> IsLoad(r)
                               /\ IsTlm(r)' <=> IsTlm(r)
                               /\ Awaits(r)' <=> Awaits(r)
      /\ IsLoad(s)' <=> call.op = "load" /\ call.feed = Feed
      /\ IsTlm(s)' <=> call.op = "tlm" /\ call.feed = Feed
      /\ Awaits(s)' <=> call.op = "load" /\ call.feed = Feed /\ call.phase = "waiting" /\ call.reset
      /\ Busy \subseteq Slot
      /\ Busy' = IF call = None THEN Busy \ {s} ELSE Busy \cup {s}
      BY <1>4, OneCallFacts
<1>6. /\ Busy' = Busy /\ ~IsLoad(s) /\ ~IsLoad(s)' /\ ~Awaits(s) /\ ~Awaits(s)'
      /\ IsTlm(s)' <=> IsTlm(s)
      BY <1>1, <1>3, <1>4, <1>5 DEF IsLoad, IsTlm, Awaits, OfMounted
<1>7. PromiseInv'
      BY <1>2, <1>5, <1>6 DEF All, RightAll, PromiseInv, pageVars
<1>8. WaitInv'
      BY <1>2, <1>5, <1>6 DEF All, RightAll, WaitInv, pageVars
<1>9. Known' = Known
      BY <1>1, <1>2, <1>3, <1>4, <1>5, <1>6, KnownSame
<1>10. RightInv'
       <2>1. mounted /\ ~mixed =>
                /\ Covers(messages, url, ToSet(list), nextPageToken, Known)
                /\ \A r \in Busy : IsLoad(r) => LoadCovers(messages, url, Known, calls[r])
             BY DEF All, RightAll, RightInv
       <2>2. s \in Slot /\ call.op # "load"
             BY <1>3
       <2>3. QED BY <1>2, <1>4, <1>9, <2>1, <2>2, RightByOneCall DEF storeVars
<1>11. QED BY <1>7, <1>8, <1>10 DEF RightAll

(* A handler that was not overtaken has brought its message into the list. *)
LEMMA ResumeTlmRight ==
    ASSUME All, NEW s \in Slot, ResumeTlm(s), NoneIsNoCall
    PROVE  RightAll'
<1> DEFINE old == calls[s]
           updated == AddMessageToActivityList(old.event, old.list)
<1>1. /\ s \in Busy /\ old # None /\ old.op = "tlm" /\ old.phase = "building"
      /\ TlmInv(messages, old) /\ IsCall(old, Len(visits), received)
      /\ mounted \in BOOLEAN /\ mixed \in BOOLEAN
      BY BusyCalls DEF ResumeTlm
<1>2. /\ UNCHANGED <<messages, received, pageVars, nextPageToken, loadActivitiesPromise, rejected>>
      /\ OneCall(s, None)
      /\ list' = IF updated = old.list THEN list ELSE updated
      /\ mixed' = (mixed \/ ~OfMounted(s) \/ ~mounted \/ Overtaken(s))
      BY DEF ResumeTlm, OneCall, pageVars
<1>3. ~Awaits(s) /\ ~IsLoad(s)
      BY <1>1 DEF Awaits, IsLoad
<1>4. /\ WaitInv'
      /\ Busy' = Busy \ {s}
      /\ \A r \in Busy' : /\ r \in Busy /\ r # s /\ calls'[r] = calls[r]
                          /\ IsLoad(r)' <=> IsLoad(r)
                          /\ IsTlm(r)' <=> IsTlm(r)
      BY <1>1, <1>2, <1>3, CallEnds
<1>5. PromiseInv'
      BY <1>2, <1>4 DEF All, RightAll, PromiseInv, pageVars
<1>6. RightInv'
      <2> SUFFICES ASSUME mounted, ~mixed' PROVE RightInv'
          BY <1>2 DEF RightInv, pageVars
      <2>1. OfMounted(s) /\ ~mixed /\ ~Overtaken(s)
            BY <1>1, <1>2
      <2>2. Covers(messages, url, ToSet(list), nextPageToken, Known)
            BY <2>1 DEF All, RightAll, RightInv
      <2>3. PICK e : e = old.event
            OBVIOUS
      <2>4. /\ old.list = list
            /\ \A r \in Busy : ~IsLoad(r)
            /\ \A x \in received \ InHand : messages[x].content = messages[e].content => ~(x > e)
            BY <2>1, <2>3 DEF Overtaken, IsLoad
      <2>5. /\ e \in received /\ e \in DOMAIN messages /\ MessagesInv /\ IsList(messages, list)
            /\ received \in SUBSET Nat /\ e \in Nat
            BY <1>1, <2>3, KnownAreMessages DEF IsCall, All, ListsInv, IsPage, Message
      <2>6. ToSet(list') = ToSet(updated)
            BY <1>2, <2>4
      <2>7. /\ ActivityOf(e) \in ToSet(updated)
            /\ \A x \in ToSet(updated) \ {ActivityOf(e)} :
                  x.id # messages[e].content /\ x \in ToSet(list)
            /\ \A x \in ToSet(list) : x.id # messages[e].content => x \in ToSet(updated)
            BY <2>3, <2>4, <2>5, AddMessageLists
      <2>8. ActivityOf(e).id = messages[e].content /\ ActivityOf(e).newest = e
            BY <2>5, ActivitiesOfMessages
      <2>9. Known' \subseteq Known \cup {e}
            BY <1>2, <1>4, <2>3 DEF Known, Dropped, Feed, pageVars
      <2>10. \A x \in Known : messages[x].content = messages[e].content => x <= e
             BY <2>4, <2>5, KnownAreMessages DEF All
      <2> HIDE DEF updated, old
      <2>11. Covers(messages, url, ToSet(updated), nextPageToken, Known')
             <3> SUFFICES ASSUME NEW x \in Known', SpaceOf[messages[x].content] = url
                          PROVE  /\ x >= nextPageToken =>
                                       \E a \in ToSet(updated) : a.id = messages[x].content
                                 /\ \A a \in ToSet(updated) :
                                       a.id = messages[x].content => a.newest >= x
                 BY DEF Covers
             <3>1. CASE messages[x].content = messages[e].content
                   <4>1. x <= e /\ x \in Nat /\ e \in Nat
                         BY <2>5, <2>9, <2>10, <3>1, KnownAreMessages DEF All
                   <4>2. QED BY <2>7, <2>8, <3>1, <4>1
             <3>2. CASE messages[x].content # messages[e].content
                   <4>1. x \in Known
                         BY <2>9, <3>2
                   <4>2. /\ x >= nextPageToken => \E a \in ToSet(list) : a.id = messages[x].content
                         /\ \A a \in ToSet(list) : a.id = messages[x].content => a.newest >= x
                         BY <2>2, <4>1 DEF Covers
                   <4>3. QED BY <2>7, <2>8, <3>2, <4>2
             <3>3. QED BY <3>1, <3>2
      <2>12. Covers(messages', url', ToSet(list'), nextPageToken', Known')
             BY <1>2, <2>6, <2>11 DEF pageVars
      <2>13. QED BY <1>4, <2>4, <2>12 DEF RightInv
<1>7. QED BY <1>4, <1>5, <1>6 DEF RightAll

(* A handler that is rejected: its message is dropped.                     *)
LEMMA RejectTlmRight ==
    ASSUME All, NEW s \in Slot, RejectTlm(s), NoneIsNoCall
    PROVE  RightAll'
<1> DEFINE old == calls[s]
<1>1. s \in Busy /\ old # None /\ old.op = "tlm"
      BY BusyCalls DEF RejectTlm
<1>2. /\ UNCHANGED <<messages, received, pageVars, storeVars, loadActivitiesPromise, mixed>>
      /\ OneCall(s, None)
      /\ rejected' = rejected \cup {[feed |-> old.feed, event |-> old.event, phase |-> old.phase]}
      BY DEF RejectTlm, OneCall, pageVars, feedVars
<1>3. ~Awaits(s) /\ ~IsLoad(s)
      BY <1>1 DEF Awaits, IsLoad
<1>4. /\ WaitInv'
      /\ Busy' = Busy \ {s}
      /\ \A r \in Busy' : /\ r \in Busy /\ r # s /\ calls'[r] = calls[r]
                          /\ IsLoad(r)' <=> IsLoad(r)
                          /\ IsTlm(r)' <=> IsTlm(r)
      BY <1>1, <1>2, <1>3, CallEnds
<1>5. PromiseInv'
      BY <1>2, <1>4 DEF All, RightAll, PromiseInv, pageVars
<1>6. Known' \subseteq Known
      <2>1. Dropped \subseteq Dropped'
            BY <1>2 DEF Dropped, Feed, pageVars
      <2>2. IsTlm(s) => old.event \in Dropped'
            <3>1. [feed |-> old.feed, event |-> old.event, phase |-> old.phase] \in rejected'
                  BY <1>2
            <3>2. IsTlm(s) => old.feed = Feed'
                  BY <1>2 DEF IsTlm, OfMounted, Feed, pageVars
            <3>3. QED BY <3>1, <3>2 DEF Dropped
      <2>3. QED BY <1>1, <1>2, <1>4, <2>1, <2>2 DEF Known
<1>7. RightInv'
      <2> SUFFICES ASSUME mounted, ~mixed PROVE RightInv'
          BY <1>2 DEF RightInv, pageVars
      <2>1. /\ Covers(messages, url, ToSet(list), nextPageToken, Known)
            /\ \A r \in Busy : IsLoad(r) => LoadCovers(messages, url, Known, calls[r])
            BY DEF All, RightAll, RightInv
      <2>2. Covers(messages', url', ToSet(list'), nextPageToken', Known')
            BY <1>2, <1>6, <2>1, CoversFewer DEF pageVars, storeVars
      <2>3. \A r \in Busy' : IsLoad(r)' => LoadCovers(messages', url', Known', calls'[r])
            BY <1>2, <1>4, <1>6, <2>1, LoadCoversFewer DEF pageVars
      <2>4. QED BY <2>2, <2>3 DEF RightInv
<1>8. QED BY <1>4, <1>5, <1>7 DEF RightAll

LEMMA RefreshRight ==
    ASSUME All, HandleRefreshClicked
    PROVE  RightAll'
<1>1. UNCHANGED <<messages, received, pageVars, nextPageToken, feedVars, calls, mixed, rejected>>
      /\ list' = SortActivityList(list)
      BY DEF HandleRefreshClicked, historyVars
<1>2. list \in Seq(Activity)
      BY DEF All, ListsInv, IsPage, IsList
<1>3. ToSet(list') = ToSet(list)
      BY <1>1, <1>2, SortReorders
<1>4. PromiseInv' /\ WaitInv'
      BY <1>1 DEF All, RightAll, PromiseInv, WaitInv, pageVars, feedVars, IsLoad,
                  Awaits, Busy, OfMounted, Feed
<1>5. /\ \A s \in Slot : IsLoad(s)' <=> IsLoad(s)
      /\ Busy' = Busy /\ Busy \subseteq Slot /\ Known' = Known
      BY <1>1, <1>3 DEF IsLoad, IsTlm, Busy, Known, Dropped, OfMounted, Feed, pageVars
<1>6. RightInv'
      BY <1>1, <1>3, <1>5 DEF All, RightAll, RightInv, pageVars
<1>7. QED BY <1>4, <1>6 DEF RightAll

LEMMA RightInit == Init => RightAll
<1> SUFFICES ASSUME Init PROVE RightAll
    OBVIOUS
<1>1. QED BY DEF Init, RightAll, PromiseInv, WaitInv, RightInv

LEMMA AllStep == ASSUME NoneIsNoCall PROVE All /\ [Next]_vars => All'
<1> SUFFICES ASSUME All, [Next]_vars PROVE RightAll'
    BY InvStep, ListsNext DEF All
<1>1. CASE UNCHANGED vars
      BY <1>1 DEF vars, pageVars, storeVars, feedVars, historyVars, All, RightAll, PromiseInv,
                  WaitInv, RightInv, Known, Dropped, IsLoad, IsTlm, Awaits, Busy, OfMounted, Feed
<1>2. ASSUME NEW s \in Slot, Continues(s)
      PROVE  RightAll'
      BY <1>2, EnterLoadRight, AnswerBatchRight, ResumeLoadRight, TlmEntersRight, ResumeTlmRight,
         RejectTlmRight
         DEF Continues
<1>3. QED BY <1>1, <1>2, SomeoneActsRight, OpenPageRight, MountFeedRight, SetWorkspaceListRight,
             ClickRight, RefreshRight, HandleTlmRight DEF Next

(* The list that a feed at rest shows is right, for any number of feeds,   *)
(* messages and handlers: loads that run together, cancelled or not, and   *)
(* live messages that are fetched and wait while they do, leave out        *)
(* nothing that was loaded or received, and nothing old; but for the       *)
(* messages whose handler was rejected, and until the list is reset when a *)
(* handler was overtaken (Overtaken) or a feed that is gone has written.   *)
THEOREM TheFeedIsRight == ASSUME NoneIsNoCall PROVE Spec => []FeedIsRight
<1>1. ASSUME All PROVE FeedIsRight
      <2> SUFFICES ASSUME mounted, Busy = {}, received = DOMAIN messages, ~mixed,
                          NEW e \in DOMAIN messages \ Dropped,
                          SpaceOfEvent(e) = url, e >= nextPageToken
                   PROVE  \E i \in DOMAIN list : list[i].id = messages[e].content /\ list[i].newest >= e
          BY DEF FeedIsRight
      <2>1. Covers(messages, url, ToSet(list), nextPageToken, Known) /\ e \in Known
            BY <1>1 DEF All, RightAll, RightInv, Known
      <2>2. \E x \in ToSet(list) : x.id = messages[e].content /\ x.newest >= e
            BY <2>1 DEF Covers, SpaceOfEvent
      <2>3. list \in Seq(Activity)
            BY <1>1 DEF All, ListsInv, IsPage, IsList
      <2>4. QED BY <2>2, <2>3, ItemsOfList
<1>2. Init => All
      BY InitInv, ListsInit, RightInit DEF All
<1>3. All /\ [Next]_vars => All'
      BY AllStep
<1>4. QED BY <1>1, <1>2, <1>3, PTL DEF Spec
=============================================================================
