---------------------------- MODULE ActivityFeed ----------------------------
(***************************************************************************)
(* The recent activities of a space's dashboard                            *)
(* (frontend/src/container/withActivity.jsx and WorkspaceRecentActivities, *)
(* frontend/src/util/activity.js).  The list is in the store, shared by    *)
(* every feed the tab mounts one after the other; each feed updates it     *)
(* from pages of messages and from live messages (TLMs), and keeps its own *)
(* updates apart with a flag, changingActivityList.                        *)
(*                                                                         *)
(* A step is one task of the browser: what a handler does between two      *)
(* awaits.  A call is a handler that waits, for an answer or for the flag, *)
(* with what it captured before.  A request fails when its promise is      *)
(* rejected; one that is answered brings what it asked for (contents stay  *)
(* accessible).                                                            *)
(***************************************************************************)
EXTENDS Integers, Sequences, SequencesExt, FiniteSetsExt

CONSTANTS Content,
          Space,
          SpaceOf,     \* the space of a content
          Elsewhere,   \* the URL of a page that is not a dashboard
          Kinds,       \* of each message: "modified", "commented", "comment modified"
          PageSize,    \* NOTIFICATION_COUNT_PER_REQUEST
          BatchCount,  \* ACTIVITY_BATCH_COUNT
          LoadCount,   \* ACTIVITY_COUNT_PER_PAGE
          Failing,     \* whether a request may fail
          MaxMessage, MaxVisit, MaxCall,  \* bounds
          None

ASSUME SpaceAssumption == SpaceOf \in [Content -> Space] /\ Elsewhere \notin Space
ASSUME CountAssumption ==
    /\ PageSize \in Nat \ {0} /\ BatchCount \in Nat \ {0} /\ LoadCount \in Nat \ {0}
    /\ MaxMessage \in Nat /\ MaxVisit \in Nat /\ MaxCall \in Nat
ASSUME KindAssumption == Kinds \in [1..MaxMessage -> SUBSET STRING]
ASSUME NoneAssumption == None \notin 1..MaxCall

Message == 1..MaxMessage
Visit == 1..MaxVisit
Slot == 1..MaxCall
FirstPage == MaxMessage + 1   \* the page token ''

VARIABLES
    messages,       \* server: the messages, the event id is the index
    received,       \* messages whose TLM the tab has handled or dropped
    workspaceListLoaded,
    url,            \* the space whose dashboard the tab shows, or Elsewhere
    visits,         \* the spaces of the feeds mounted so far
    mounted,        \* is the last of them on the screen?
    lastSpaceLoaded,  \* has it loaded for its space from componentDidUpdate?
    list, hasNextPage, nextPageToken,  \* the store: workspaceActivity
    changingActivityList,  \* of each feed
    loadActivitiesPromise, \* of the mounted feed: the call it would cancel
    isLoadMoreIsProgress,  \* of the mounted feed
    calls,
    mixed,          \* history: a live message was overtaken, or a feed that is
                    \* gone wrote the store, since the list was reset
    rejected        \* history: the live messages whose handler was rejected, with
                    \* its feed and what it had come to

pageVars == <<workspaceListLoaded, url, visits, mounted, lastSpaceLoaded>>
storeVars == <<list, hasNextPage, nextPageToken>>
feedVars == <<changingActivityList, loadActivitiesPromise, isLoadMoreIsProgress>>
historyVars == <<mixed, rejected>>
vars == <<messages, received, pageVars, storeVars, feedVars, calls, historyVars>>

Feed == Len(visits)
Busy == {s \in Slot : calls[s] # None}
Free == Slot \ Busy
FreeSlot == Min(Free)
OfMounted(s) == calls[s].feed = Feed

Init ==
    /\ messages = <<>> /\ received = {}
    /\ workspaceListLoaded \in BOOLEAN
    /\ url = Elsewhere /\ visits = <<>> /\ mounted = FALSE /\ lastSpaceLoaded = FALSE
    /\ list = <<>> /\ hasNextPage = TRUE /\ nextPageToken = FirstPage
    /\ changingActivityList = [v \in Visit |-> FALSE]
    /\ loadActivitiesPromise = None
    /\ isLoadMoreIsProgress = FALSE
    /\ calls = [s \in Slot |-> None]
    /\ mixed = FALSE /\ rejected = {}

-----------------------------------------------------------------------------
(* The server.                                                             *)
SomeoneActs ==
    /\ Len(messages) < MaxMessage
    /\ \E c \in Content, kind \in Kinds[Len(messages) + 1] :
          messages' = Append(messages, [content |-> c, kind |-> kind])
    /\ UNCHANGED <<received, pageVars, storeVars, feedVars, calls, historyVars>>

SpaceOfEvent(e) == SpaceOf[messages[e].content]
ActivityOf(e) == [id |-> messages[e].content, newest |-> e]
Ids(activities) == {activities[i].id : i \in DOMAIN activities}

(* The messages of a space below a page token, and the newest of some.     *)
Older(space, token) == {e \in DOMAIN messages : SpaceOfEvent(e) = space /\ e < token}
Newest(count, events) == {e \in events : Cardinality({f \in events : f > e}) < count}

(* The activities of some events, the newest event first.                  *)
NewestFirst(events) ==
    [i \in 1..Cardinality(events) |->
        ActivityOf(CHOOSE e \in events : Cardinality({f \in events : f >= e}) = i)]

\* Mutant: a group is not dropped when its activity is listed already.
MergeKeepingListed(read, activities) == activities \o NewestFirst(read)

(* Messages are grouped by activity; the groups that are listed already    *)
(* are dropped, the others follow.                                         *)
MergeWithActivityList(read, activities) ==
    activities \o NewestFirst({e \in read :
                                 /\ messages[e].content \notin Ids(activities)
                                 /\ \A f \in read : messages[f].content = messages[e].content => f <= e})

\* Mutant: the next page starts one message too low.
LoadBatchSkipping(older, activities, token) ==
    LET read == Newest(PageSize, older)
    IN [list |-> MergeWithActivityList(read, activities),
        hasNext |-> read # older,
        token |-> IF read = {} THEN token ELSE Min(read) - 1]

(* Pages are read until BatchCount activities are new or nothing is left.  *)
LoadActivitiesBatch(older, activities, token) ==
    LET count == Min({n \in 0..Cardinality(older) :
                        \/ n = Cardinality(older)
                        \/ /\ n % PageSize = 0
                           /\ Len(MergeWithActivityList(Newest(n, older), activities)) >=
                              Len(activities) + BatchCount})
        read == Newest(count, older)
    IN [list |-> MergeWithActivityList(read, activities),
        hasNext |-> read # older,
        token |-> IF read = {} THEN token ELSE Min(read)]

-----------------------------------------------------------------------------
(* A feed that is gone shares the store with the one that is mounted.      *)
Writes(s) == mixed' = (mixed \/ ~OfMounted(s) \/ ~mounted)

(* A load that takes the flag and resets the list sets it right again,     *)
(* unless one that does not is under way with the list of before.          *)
Starts(reset, others) ==
    mixed' = (mixed /\ ~(reset /\ \A s \in others : calls[s].op = "load" => calls[s].reset))

(* loadActivities, waiting for the flag with the props it was called with. *)
LoadCall(v, goal, reset) ==
    [op |-> "load", feed |-> v, phase |-> "waiting", goal |-> goal, reset |-> reset,
     list |-> list, hasNext |-> hasNextPage, token |-> nextPageToken,
     answer |-> None, cancelled |-> FALSE]

(* The flag is taken: the first batch is asked for.                        *)
Entered(call) ==
    IF call.reset
    THEN [call EXCEPT !.phase = "asking", !.list = <<>>, !.hasNext = TRUE, !.token = FirstPage]
    ELSE [call EXCEPT !.phase = "asking"]

ResetActivity(reset) ==
    IF reset THEN list' = <<>> /\ hasNextPage' = TRUE /\ nextPageToken' = FirstPage
    ELSE UNCHANGED storeVars

(* The call of a click or of a lifecycle method: it enters at once when    *)
(* nothing holds the flag.                                                 *)
LoadActivities(s, goal, reset, others) ==
    LET call == LoadCall(Feed, goal, reset) IN
    /\ IF changingActivityList[Feed]
       THEN /\ calls' = [others EXCEPT ![s] = call]
            /\ UNCHANGED <<storeVars, changingActivityList, loadActivitiesPromise, mixed>>
       ELSE /\ Starts(reset, Busy)
            /\ calls' = [others EXCEPT ![s] = Entered(call)]
            /\ changingActivityList' = [changingActivityList EXCEPT ![Feed] = TRUE]
            /\ loadActivitiesPromise' = s
            /\ ResetActivity(reset)

(* waitForNoChange tests the flag again every 5 ms.                        *)
EnterLoad(s) ==
    LET call == calls[s] IN
    /\ call # None /\ call.op = "load" /\ call.phase = "waiting"
    /\ ~changingActivityList[call.feed]
    /\ calls' = [calls EXCEPT ![s] = Entered(call)]
    /\ changingActivityList' = [changingActivityList EXCEPT ![call.feed] = TRUE]
    /\ loadActivitiesPromise' = IF OfMounted(s) THEN s ELSE loadActivitiesPromise
    /\ ResetActivity(call.reset)
    /\ IF OfMounted(s) /\ mounted THEN Starts(call.reset, Busy \ {s}) ELSE Writes(s)
    /\ UNCHANGED <<messages, received, pageVars, isLoadMoreIsProgress, rejected>>

AnswerBatch(s) ==
    LET call == calls[s] IN
    /\ call # None /\ call.op = "load" /\ call.phase = "asking"
    /\ call.answer = None /\ ~call.cancelled
    /\ calls' = [calls EXCEPT ![s].answer =
                    LoadActivitiesBatch(Older(visits[call.feed], call.token), call.list, call.token)]
    /\ UNCHANGED <<messages, received, pageVars, storeVars, feedVars, historyVars>>

\* Mutant: the URL is not looked at.
NeverLeft(call) == FALSE

(* The URL is the dashboard of another space.                              *)
LeftForAnotherSpace(call) == url # Elsewhere /\ url # visits[call.feed]

EndLoad(s) ==
    /\ calls' = [calls EXCEPT ![s] = None]
    /\ isLoadMoreIsProgress' = (isLoadMoreIsProgress /\ ~(OfMounted(s) /\ ~calls[s].reset))

(* A cancellation or a request that fails rejects the promise.             *)
Rejected(call) == call.cancelled \/ (Failing /\ call.answer = None)

\* Mutant: the flag stays when the promise is rejected.
CancelledWithFlag(s) ==
    /\ Rejected(calls[s])
    /\ loadActivitiesPromise' = IF OfMounted(s) THEN None ELSE loadActivitiesPromise
    /\ EndLoad(s)
    /\ UNCHANGED <<storeVars, changingActivityList, mixed>>

Cancelled(s) ==
    /\ Rejected(calls[s])
    /\ changingActivityList' = [changingActivityList EXCEPT ![calls[s].feed] = FALSE]
    /\ loadActivitiesPromise' = IF OfMounted(s) THEN None ELSE loadActivitiesPromise
    /\ EndLoad(s)
    /\ UNCHANGED <<storeVars, mixed>>

(* The early return leaves the flag set; the feed is not mounted any more. *)
Abandoned(s) ==
    /\ calls[s].answer # None /\ ~calls[s].cancelled /\ LeftForAnotherSpace(calls[s])
    /\ EndLoad(s)
    /\ UNCHANGED <<storeVars, changingActivityList, loadActivitiesPromise, mixed>>

(* The batch is dispatched, and the next one asked for until the list is   *)
(* long enough.                                                            *)
Dispatched(s) ==
    LET call == calls[s]
        next == [call EXCEPT !.list = call.answer.list, !.hasNext = call.answer.hasNext,
                             !.token = call.answer.token, !.answer = None]
    IN /\ call.answer # None /\ ~call.cancelled /\ ~LeftForAnotherSpace(call)
       /\ list' = next.list /\ hasNextPage' = next.hasNext /\ nextPageToken' = next.token
       /\ Writes(s)
       /\ IF next.hasNext /\ Len(next.list) < call.goal
          THEN /\ calls' = [calls EXCEPT ![s] = next]
               /\ loadActivitiesPromise' = IF OfMounted(s) THEN s ELSE loadActivitiesPromise
               /\ UNCHANGED <<changingActivityList, isLoadMoreIsProgress>>
          ELSE /\ changingActivityList' = [changingActivityList EXCEPT ![call.feed] = FALSE]
               /\ loadActivitiesPromise' = IF OfMounted(s) THEN None ELSE loadActivitiesPromise
               /\ EndLoad(s)

ResumeLoad(s) ==
    /\ calls[s] # None /\ calls[s].op = "load" /\ calls[s].phase = "asking"
    /\ Cancelled(s) \/ Abandoned(s) \/ Dispatched(s)
    /\ UNCHANGED <<messages, received, pageVars, rejected>>

-----------------------------------------------------------------------------
(* Navigation.  Another page unmounts the feed, which cancels its load.    *)
(* What a cancelled load has read is not used any more.                    *)
Forgotten(call) ==
    [call EXCEPT !.cancelled = TRUE, !.answer = None, !.list = <<>>, !.hasNext = TRUE,
                 !.token = FirstPage]

CancelCurrentLoadActivities ==
    IF loadActivitiesPromise = None THEN calls
    ELSE [calls EXCEPT ![loadActivitiesPromise] = Forgotten(@)]

OpenPage(page) ==
    /\ page # url
    /\ url' = page
    /\ mounted' = FALSE
    /\ calls' = IF mounted THEN CancelCurrentLoadActivities ELSE calls
    /\ loadActivitiesPromise' = None
    /\ lastSpaceLoaded' = FALSE /\ isLoadMoreIsProgress' = FALSE
    /\ UNCHANGED <<messages, received, workspaceListLoaded, visits, storeVars,
                   changingActivityList, historyVars>>

(* The dashboard mounts its feed once the space is loaded.  The title and  *)
(* the breadcrumbs it dispatches update the feed in the same task: when    *)
(* the list of the spaces is known, componentDidMount and                  *)
(* componentDidUpdate each load, and both have found the flag free.        *)
MountFeed ==
    /\ url # Elsewhere /\ ~mounted /\ Len(visits) < MaxVisit
    /\ Cardinality(Free) >= 2
    /\ visits' = Append(visits, url)
    /\ mounted' = TRUE
    /\ lastSpaceLoaded' = workspaceListLoaded
    /\ LET v == Len(visits) + 1
           first == FreeSlot
           second == Min(Free \ {first})
           load == Entered(LoadCall(v, LoadCount, TRUE))
       IN /\ changingActivityList' = [changingActivityList EXCEPT ![v] = TRUE]
          /\ IF workspaceListLoaded
             THEN /\ calls' = [calls EXCEPT ![first] = load, ![second] = load]
                  /\ loadActivitiesPromise' = second
             ELSE /\ calls' = [calls EXCEPT ![first] = load]
                  /\ loadActivitiesPromise' = first
    /\ ResetActivity(TRUE)
    /\ isLoadMoreIsProgress' = FALSE
    /\ mixed' = FALSE
    /\ UNCHANGED <<messages, received, workspaceListLoaded, url, rejected>>

(* The list of the spaces arrives: a mounted feed loads again.             *)
SetWorkspaceList ==
    /\ ~workspaceListLoaded /\ workspaceListLoaded' = TRUE
    /\ IF mounted
       THEN /\ Free # {}
            /\ lastSpaceLoaded' = TRUE
            /\ LoadActivities(FreeSlot, LoadCount, TRUE, CancelCurrentLoadActivities)
       ELSE UNCHANGED <<lastSpaceLoaded, storeVars, changingActivityList, loadActivitiesPromise,
                        calls, mixed>>
    /\ UNCHANGED <<messages, received, url, visits, mounted, isLoadMoreIsProgress, rejected>>

(* The button "See more".                                                  *)
HandleClickLoadMore ==
    /\ mounted /\ lastSpaceLoaded /\ list # <<>> /\ hasNextPage
    /\ ~isLoadMoreIsProgress /\ Free # {}
    /\ isLoadMoreIsProgress' = TRUE
    /\ LoadActivities(FreeSlot, Len(list) + LoadCount, FALSE, calls)
    /\ UNCHANGED <<messages, received, pageVars, rejected>>

(* The place of an activity once its list is sorted, from newest to oldest *)
(* and otherwise as it was.                                                *)
Place(activities, i) ==
    Cardinality({j \in DOMAIN activities :
                    \/ activities[j].newest > activities[i].newest
                    \/ activities[j].newest = activities[i].newest /\ j <= i})

SortActivityList(activities) ==
    [n \in DOMAIN activities |-> activities[CHOOSE i \in DOMAIN activities : Place(activities, i) = n]]

(* The button "Reorder": no flag, the list of the store.                   *)
HandleRefreshClicked ==
    /\ mounted
    /\ list' = SortActivityList(list)
    /\ list' # list
    /\ UNCHANGED <<messages, received, pageVars, hasNextPage, nextPageToken, feedVars, calls,
                   historyVars>>

-----------------------------------------------------------------------------
(* Live messages.  handleTlm of the mounted feed fetches the content or    *)
(* the comment, for the messages of its space.                             *)
HandleTlm(e) ==
    /\ e \in DOMAIN messages \ received
    /\ \A o \in 1..(e - 1) : o \in received
    /\ received' = received \cup {e}
    /\ IF mounted /\ SpaceOfEvent(e) = url
       THEN /\ Free # {}
            /\ calls' = [calls EXCEPT ![FreeSlot] =
                           [op |-> "tlm", feed |-> Feed, phase |-> "fetching", event |-> e]]
       ELSE UNCHANGED calls
    /\ UNCHANGED <<messages, pageVars, storeVars, feedVars, historyVars>>

(* updateActivityListFromTlm captures the list before it waits.            *)
UpdateActivityListFromTlm(s) ==
    LET call == calls[s]
        free == ~changingActivityList[call.feed]
    IN /\ call # None /\ call.op = "tlm" /\ call.phase = "fetching"
       /\ calls' = [calls EXCEPT ![s] =
                      [op |-> "tlm", feed |-> call.feed, event |-> call.event, list |-> list,
                       phase |-> IF free THEN "building" ELSE "waiting"]]
       /\ changingActivityList' = [changingActivityList EXCEPT ![call.feed] = TRUE]
       /\ UNCHANGED <<messages, received, pageVars, storeVars, loadActivitiesPromise,
                      isLoadMoreIsProgress, historyVars>>

EnterTlm(s) ==
    LET call == calls[s] IN
    /\ call # None /\ call.op = "tlm" /\ call.phase = "waiting"
    /\ ~changingActivityList[call.feed]
    /\ calls' = [calls EXCEPT ![s].phase = "building"]
    /\ changingActivityList' = [changingActivityList EXCEPT ![call.feed] = TRUE]
    /\ UNCHANGED <<messages, received, pageVars, storeVars, loadActivitiesPromise,
                   isLoadMoreIsProgress, historyVars>>

\* Mutant: an activity that is listed is left as it is.
AddMessageUnlessListed(e, activities) ==
    IF messages[e].content \in Ids(activities) THEN activities ELSE <<ActivityOf(e)>> \o activities

(* The message's activity is updated where it is, or put first.            *)
AddMessageToActivityList(e, activities) ==
    IF messages[e].content \in Ids(activities)
    THEN [i \in DOMAIN activities |->
            IF activities[i].id = messages[e].content THEN ActivityOf(e) ELSE activities[i]]
    ELSE <<ActivityOf(e)>> \o activities

(* The comment of a content that is not listed has no contentParent: the   *)
(* handler throws.                                                         *)
Throws(call) ==
    messages[call.event].kind = "comment modified"
    /\ messages[call.event].content \notin Ids(call.list)

(* The messages whose handler the mounted feed is busy with.               *)
InHand == {calls[s].event : s \in {x \in Busy : calls[x].op = "tlm" /\ OfMounted(x)}}

(* A handler ends while a load is under way, over a list that is not the   *)
(* one it captured, or after that of a newer message of the same content.  *)
Overtaken(s) ==
    LET call == calls[s] IN
    \/ list # call.list
    \/ \E r \in Busy : calls[r].op = "load" /\ OfMounted(r)
    \/ \E e \in received \ InHand :
          e > call.event /\ messages[e].content = messages[call.event].content

ResumeTlm(s) ==
    LET call == calls[s]
        updated == AddMessageToActivityList(call.event, call.list)
    IN /\ call # None /\ call.op = "tlm" /\ call.phase = "building" /\ ~Throws(call)
       /\ calls' = [calls EXCEPT ![s] = None]
       /\ list' = IF updated = call.list THEN list ELSE updated
       /\ mixed' = (mixed \/ ~OfMounted(s) \/ ~mounted \/ Overtaken(s))
       /\ changingActivityList' = [changingActivityList EXCEPT ![call.feed] = FALSE]
       /\ UNCHANGED <<messages, received, pageVars, hasNextPage, nextPageToken,
                      loadActivitiesPromise, isLoadMoreIsProgress, rejected>>

(* No handler catches the rejection of a request: the message is dropped,  *)
(* and the flag stays set when the handler has taken it.                   *)
RejectTlm(s) ==
    LET call == calls[s] IN
    /\ call # None /\ call.op = "tlm"
    /\ \/ Failing /\ call.phase \in {"fetching", "building"}
       \/ call.phase = "building" /\ Throws(call)
    /\ calls' = [calls EXCEPT ![s] = None]
    /\ rejected' = rejected \cup {[feed |-> call.feed, event |-> call.event, phase |-> call.phase]}
    /\ UNCHANGED <<messages, received, pageVars, storeVars, feedVars, mixed>>

Continues(s) ==
    \/ EnterLoad(s) \/ AnswerBatch(s) \/ ResumeLoad(s)
    \/ UpdateActivityListFromTlm(s) \/ EnterTlm(s) \/ ResumeTlm(s) \/ RejectTlm(s)

Next ==
    \/ SomeoneActs
    \/ \E page \in Space \cup {Elsewhere} : OpenPage(page)
    \/ MountFeed \/ SetWorkspaceList
    \/ HandleClickLoadMore \/ HandleRefreshClicked
    \/ \E e \in Message : HandleTlm(e)
    \/ \E s \in Slot : Continues(s)

Spec == Init /\ [][Next]_vars

-----------------------------------------------------------------------------
Activity == [id : Content, newest : Message]

(* The state is well formed.                                               *)
TypeOK ==
    /\ list \in Seq(Activity) /\ hasNextPage \in BOOLEAN /\ nextPageToken \in 1..FirstPage
    /\ changingActivityList \in [Visit -> BOOLEAN]
    /\ loadActivitiesPromise \in Slot \cup {None} /\ isLoadMoreIsProgress \in BOOLEAN
    /\ received \subseteq DOMAIN messages

(* An activity is in the list once: the pages that are read again, the     *)
(* loads that run together and the live messages that wait with an old     *)
(* list never list a content twice.                                        *)
NoDuplicate == \A i, j \in DOMAIN list : list[i].id = list[j].id => i = j

(* The live messages that the mounted feed has dropped, and whether one of *)
(* its handlers was rejected after it had taken the flag.                  *)
Dropped == {r.event : r \in {x \in rejected : x.feed = Feed}}
FlagIsLost == \E r \in rejected : r.feed = Feed /\ r.phase = "building"

(* When no handler runs, every message of the space that was loaded or     *)
(* received is in the list, and its activity is not older: though two      *)
(* loads run together, and live messages are fetched and wait while they   *)
(* do.  It may not be so for a message whose handler was rejected; nor, as *)
(* long as the list is not reset, once the handler of a live message has   *)
(* been overtaken (see Overtaken), or a feed that is gone has written the  *)
(* store.                                                                  *)
FeedIsRight ==
    mounted /\ Busy = {} /\ received = DOMAIN messages /\ ~mixed =>
        \A e \in DOMAIN messages \ Dropped :
            SpaceOfEvent(e) = url /\ e >= nextPageToken =>
                \E i \in DOMAIN list : list[i].id = messages[e].content /\ list[i].newest >= e

(* A load never brings the activities of the space that was left into the  *)
(* feed of the dashboard that is open.                                     *)
LoadsBringTheirSpace ==
    [][\A s \in Slot : ResumeLoad(s) =>
          \A i \in DOMAIN list' :
              \/ list'[i] \in ToSet(list) \cup ToSet(calls[s].list)
              \/ mounted => SpaceOf[list'[i].id] = url]_vars

(* The updates of a feed that are between their taking the flag and their  *)
(* giving it back.                                                         *)
Updating(v) ==
    {s \in Busy : calls[s].feed = v /\ calls[s].phase \in {"asking", "building"}}

(* The flag of the mounted feed is set only while an update is under way   *)
(* that gives it back: an update that ends without it, cancelled or        *)
(* failed, would make all later ones wait for ever.  It may be left set    *)
(* for ever only by the handler of a live message that was rejected after  *)
(* it had taken the flag: a request of its failed, or the content of a     *)
(* modified comment was not listed (see RejectTlm).                        *)
FlagIsHeld ==
    mounted /\ changingActivityList[Feed] => Updating(Feed) # {} \/ FlagIsLost

(* The comment of withActivity.jsx (lines 68-71): "no other update is      *)
(* taking place".  Not kept by the code: the two loads of MountFeed have   *)
(* both found the flag free.                                               *)
OneUpdateAtATime == \A v \in Visit : Cardinality(Updating(v)) <= 1
=============================================================================
