------------------------------ MODULE Timeline ------------------------------
(***************************************************************************)
(* The timeline of the content a browser tab has opened                    *)
(* (frontend_lib/src/appContentFactory.js, which every content application *)
(* wraps): comments, files added as comments and revisions, loaded by      *)
(* pages from three routes and kept up to date by live messages (TLMs).    *)
(*                                                                         *)
(* Handlers await requests, so other handlers run between the moment the   *)
(* server reads its answer and the moment the answer is used.  A call is   *)
(* what a handler has captured before its await, with the answer once the  *)
(* server has read it; answers come back in any order.                     *)
(***************************************************************************)
EXTENDS Integers, Sequences, SequencesExt

CONSTANTS Content,
          PageSize,   \* TIMELINE_ITEM_COUNT_PER_PAGE
          ChildKind,  \* the kinds of children users add: {"comment", "file"}
          TranslationEnabled,  \* config.translation_service__enabled
          Failures,   \* how a request may fail: a subset of {Refused, Lost}
          Refused,    \* an answer with an error status
          Lost,       \* no answer: the promise is rejected
          MaxItem,    \* bound on the ids of revisions and children
          MaxText,    \* bound on the number of edits of a child
          MaxTlm,     \* bound on the TLMs that wait
          MaxCall,    \* bound on the requests in flight
          None

Kind == {"comment", "file", "revision"}

ASSUME KindAssumption == ChildKind \subseteq {"comment", "file"}
ASSUME FailureAssumption == Failures \subseteq {Refused, Lost}
ASSUME BoundAssumption ==
    /\ PageSize \in Nat \ {0} /\ MaxItem \in Nat /\ MaxText \in Nat
    /\ MaxTlm \in Nat /\ MaxCall \in Nat \ {0}
    /\ Cardinality(Content) \in 1..MaxItem

VARIABLES
    made,       \* server: every revision and child, in the order of creation
    tlms,       \* TLMs received by the tab and not handled yet
    mounted,    \* props.data.content: the content the component was mounted with
    opened,     \* state.content of the wrapped application
    content,    \* state.content of the factory
    wholeTimeline, timeline,
    pageToken, hasMore,  \* of each kind
    loadingTimeline,
    isLoadMoreTimelineInProgress,
    calls,      \* awaited requests
    disturbed   \* history: items about which two things overlapped or a request
                \* failed, and those that were restored

serverVars == <<made, tlms>>
listVars == <<wholeTimeline, timeline>>
pageVars == <<pageToken, hasMore>>
openVars == <<mounted, opened>>
vars == <<serverVars, openVars, content, listVars, pageVars, loadingTimeline,
          isLoadMoreTimelineInProgress, calls, disturbed>>

Id == 1..Len(made)
FirstPage == MaxItem + 1   \* the page token ''
ParentOf(id) == made[id].parent
IsChild(id) == made[id].kind # "revision"
Item(id, text) ==
    [id |-> id, text |-> text,
     translation |-> IF TranslationEnabled THEN "untranslated" ELSE "disabled"]
Ids(items) == {items[i].id : i \in DOMAIN items}
CurrentRevision(c) ==
    CHOOSE r \in Id : /\ made[r].kind = "revision" /\ ParentOf(r) = c
                      /\ \A s \in Id : made[s].kind = "revision" /\ ParentOf(s) = c => s <= r

Init ==
    \E order \in SetToSeqs(Content), c \in Content :
        /\ made = [i \in DOMAIN order |->
                     [kind |-> "revision", parent |-> order[i], text |-> 0, deleted |-> FALSE]]
        /\ tlms = <<>>
        /\ mounted = c /\ opened = c /\ content = c
        /\ wholeTimeline = <<>> /\ timeline = <<>>
        /\ pageToken = [k \in Kind |-> FirstPage] /\ hasMore = [k \in Kind |-> TRUE]
        /\ loadingTimeline = TRUE
        /\ isLoadMoreTimelineInProgress = FALSE
        /\ calls = <<[op |-> "load", of |-> c, count |-> PageSize, from |-> pageToken,
                      answer |-> None]>>
        /\ disturbed = {}

-----------------------------------------------------------------------------
(* The other users, seen through the server: what they do, and its TLM.    *)
Publish(event, id, text) ==
    /\ Len(tlms) < MaxTlm
    /\ tlms' = Append(tlms, [event |-> event, id |-> id, text |-> text])
    /\ disturbed' = IF event = "undeleted" THEN disturbed \cup {id} ELSE disturbed
    /\ UNCHANGED <<openVars, content, listVars, pageVars, loadingTimeline,
                   isLoadMoreTimelineInProgress, calls>>

Create(kind, c) ==
    /\ Len(made) < MaxItem
    /\ made' = Append(made, [kind |-> kind, parent |-> c, text |-> 0, deleted |-> FALSE])
    /\ Publish("created", Len(made) + 1, 0)

Edit(id) ==
    /\ IsChild(id) /\ ~made[id].deleted /\ made[id].text < MaxText
    /\ made' = [made EXCEPT ![id].text = @ + 1]
    /\ Publish("modified", id, made[id].text + 1)

Delete(id) ==
    /\ IsChild(id) /\ ~made[id].deleted
    /\ made' = [made EXCEPT ![id].deleted = TRUE]
    /\ Publish("deleted", id, made[id].text)

(* The timeline has no handler for a child that comes back from the trash. *)
Restore(id) ==
    /\ IsChild(id) /\ made[id].deleted
    /\ made' = [made EXCEPT ![id].deleted = FALSE]
    /\ Publish("undeleted", id, made[id].text)

-----------------------------------------------------------------------------
(* "timeline is a view of the last itemCount items of wholeTimeline"       *)
GetTimeline(whole, itemCount) ==
    SubSeq(whole, Max({Len(whole) - itemCount, 0}) + 1, Len(whole))

(* Where an item comes: after the older ones, those of one date as they    *)
(* were.                                                                   *)
Place(items, i) ==
    Cardinality({j \in DOMAIN items : \/ items[j].id < items[i].id
                                      \/ items[j].id = items[i].id /\ j <= i})

SortTimelineByDate(items) ==
    [n \in DOMAIN items |-> items[CHOOSE i \in DOMAIN items : Place(items, i) = n]]

(* Numbers, the least first.                                               *)
Ascending(numbers) ==
    [i \in 1..Cardinality(numbers) |->
        CHOOSE n \in numbers : Cardinality({m \in numbers : m <= n}) = i]

Without(items, id) ==
    LET kept == Ascending({i \in DOMAIN items : items[i].id # id})
    IN [n \in DOMAIN kept |-> items[kept[n]]]

SetTimeline(whole, itemCount) ==
    /\ wholeTimeline' = whole
    /\ timeline' = GetTimeline(whole, itemCount)

(* The items something is awaited about: all of them when it is a page.    *)
IsPages(call) == call.op \in {"load", "more"}
Awaited ==
    IF \E i \in DOMAIN calls : IsPages(calls[i]) THEN Id
    ELSE {calls[i].id : i \in DOMAIN calls}

Single(op, id, text) == [op |-> op, id |-> id, text |-> text, answer |-> None]

-----------------------------------------------------------------------------
(* Live messages.  Each handler leaves at once when the TLM is not about   *)
(* the content of the factory.                                             *)
Handled(id) ==
    /\ tlms' = Tail(tlms)
    /\ disturbed' = disturbed \cup ({id} \cap Awaited)
    /\ UNCHANGED <<made, openVars, content, pageVars, loadingTimeline,
                   isLoadMoreTimelineInProgress>>

Await(op, id) ==
    /\ calls' = IF ParentOf(id) = content THEN Append(calls, Single(op, id, 0)) ELSE calls
    /\ UNCHANGED listVars

HandleCommentCreated(tlm) ==
    /\ tlm.event = "created" /\ made[tlm.id].kind = "comment"
    /\ Await("add", tlm.id)

HandleContentCommentModified(tlm) ==
    /\ tlm.event = "modified" /\ made[tlm.id].kind = "comment"
    /\ Await("update", tlm.id)

HandleContentModified(tlm) ==
    /\ made[tlm.id].kind = "revision"
    /\ Await("revision", tlm.id)

AddChildContentToTimeline(item) ==
    /\ wholeTimeline' = SortTimelineByDate(Append(wholeTimeline, item))
    /\ timeline' = SortTimelineByDate(Append(timeline, item))

HandleChildContentCreated(tlm) ==
    /\ tlm.event = "created" /\ made[tlm.id].kind = "file"
    /\ IF ParentOf(tlm.id) = content THEN AddChildContentToTimeline(Item(tlm.id, tlm.text))
                                     ELSE UNCHANGED listVars
    /\ UNCHANGED calls

\* Mutant: what is displayed is filtered, the rest of the timeline is not.
DeleteFromDisplayed(tlm) ==
    /\ tlm.event = "deleted"
    /\ timeline' = Without(timeline, tlm.id)
    /\ UNCHANGED <<wholeTimeline, calls>>

HandleChildContentDeleted(tlm) ==
    /\ tlm.event = "deleted"
    /\ IF ParentOf(tlm.id) = content /\ tlm.id \in Ids(wholeTimeline)
       THEN SetTimeline(Without(wholeTimeline, tlm.id), Len(timeline) - 1)
       ELSE UNCHANGED listVars
    /\ UNCHANGED calls

(* A file is looked for under the content the component was mounted with.  *)
HandleChildContentModified(tlm) ==
    /\ tlm.event = "modified" /\ made[tlm.id].kind = "file"
    /\ IF ParentOf(tlm.id) = mounted /\ tlm.id \in Ids(wholeTimeline)
       THEN LET index == Min({i \in DOMAIN wholeTimeline : wholeTimeline[i].id = tlm.id})
            IN SetTimeline([wholeTimeline EXCEPT ![index] = Item(tlm.id, tlm.text)], Len(timeline))
       ELSE UNCHANGED listVars
    /\ UNCHANGED calls

(* handleContentModified is called, and leaves at once: the TLM is not     *)
(* about the content of the factory.                                       *)
HandleChildContentRestored(tlm) ==
    /\ tlm.event = "undeleted"
    /\ UNCHANGED <<listVars, calls>>

HandleTlm ==
    /\ tlms # <<>> /\ Len(calls) < MaxCall
    /\ LET tlm == Head(tlms) IN
        /\ \/ HandleCommentCreated(tlm)
           \/ HandleContentCommentModified(tlm)
           \/ HandleContentModified(tlm)
           \/ HandleChildContentCreated(tlm)
           \/ HandleChildContentDeleted(tlm)
           \/ HandleChildContentModified(tlm)
           \/ HandleChildContentRestored(tlm)
        /\ Handled(tlm.id)

-----------------------------------------------------------------------------
(* What follows the await of a handler.  The content is tested again for a *)
(* new comment only.                                                       *)
Resumed(i) ==
    /\ calls' = RemoveAt(calls, i)
    /\ disturbed' = IF calls[i].answer \in {Refused, Lost} THEN disturbed \cup {calls[i].id}
                    ELSE disturbed
    /\ UNCHANGED <<serverVars, openVars, content, pageVars, loadingTimeline,
                   isLoadMoreTimelineInProgress>>

\* Mutant: the error answer is taken for the comment.
AnsweredTextUnchecked(call) == call.answer

(* A refused request leaves an item without its text.                      *)
AnsweredText(call) == IF call.answer = Refused THEN None ELSE call.answer

ResumeCommentCreated(call) ==
    /\ call.op = "add"
    /\ IF ParentOf(call.id) = content
       THEN AddChildContentToTimeline(Item(call.id, AnsweredText(call)))
       ELSE UNCHANGED listVars

UpdateCommentOnTimeline(call, whole) ==
    [i \in DOMAIN whole |-> IF whole[i].id = call.id
                            THEN [whole[i] EXCEPT !.text = AnsweredText(call)] ELSE whole[i]]

ResumeCommentModified(call) ==
    /\ call.op = "update"
    /\ SetTimeline(UpdateCommentOnTimeline(call, wholeTimeline), Len(timeline) + 1)

AddRevisionFromTLM(whole, revision) ==
    IF revision \in Ids(whole) THEN whole ELSE Append(whole, Item(revision, 0))

(* The answer is the current revision; a refused request leaves the TLM's. *)
ResumeContentModified(call) ==
    /\ call.op = "revision"
    /\ SetTimeline(AddRevisionFromTLM(wholeTimeline,
                                      IF call.answer = Refused THEN call.id ELSE call.answer),
                   Len(timeline) + 1)

ReplaceComment(item, whole) ==
    [i \in DOMAIN whole |-> IF whole[i].id = item.id THEN item ELSE whole[i]]

(* The comment put back is the one captured when it was clicked.           *)
ResumeTranslate(call) ==
    /\ call.op = "translate"
    /\ SetTimeline(ReplaceComment(
                       [Item(call.id, call.text) EXCEPT !.translation =
                           IF call.answer = Refused THEN "untranslated" ELSE "translated"],
                       wholeTimeline),
                   Len(timeline))

ResumeSingle(i) ==
    /\ ~IsPages(calls[i]) /\ calls[i].answer # None
    /\ IF calls[i].answer = Lost THEN UNCHANGED listVars
       ELSE \/ ResumeCommentCreated(calls[i])
            \/ ResumeCommentModified(calls[i])
            \/ ResumeContentModified(calls[i])
            \/ ResumeTranslate(calls[i])
    /\ Resumed(i)

-----------------------------------------------------------------------------
(* Loading.  The three routes are asked at once, for the items below a     *)
(* page token, newest first.  Their answers are one here: they are used    *)
(* together, and no property relates two kinds of items.                   *)
Pages(op, c, count, from) ==
    [op |-> op, of |-> c, count |-> count, from |-> from, answer |-> None]

(* resetTimeline, then loadMoreTimelineItems with the new content.         *)
LoadTimeline(c) ==
    /\ wholeTimeline' = <<>> /\ timeline' = <<>>
    /\ pageToken' = [k \in Kind |-> FirstPage] /\ hasMore' = [k \in Kind |-> TRUE]
    /\ loadingTimeline' = TRUE
    /\ calls' = Append(calls, Pages("load", c, PageSize, pageToken'))

(* RELOAD_CONTENT changes the content of the application, whose            *)
(* componentDidUpdate loads; handleClickLastVersion loads the same again.  *)
ShowContent(c) ==
    /\ Len(calls) < MaxCall
    /\ opened' = c
    /\ LoadTimeline(c)
    /\ disturbed' = disturbed \cup Awaited
    /\ UNCHANGED <<serverVars, mounted, content, isLoadMoreTimelineInProgress>>

\* Mutant: what is loaded and not displayed is forgotten.
CanLoadMoreOnServer ==
    \E k \in Kind : hasMore[k]

CanLoadMoreTimelineItems ==
    \/ Len(wholeTimeline) > Len(timeline)
    \/ \E k \in Kind : hasMore[k]

(* The button "See more".                                                  *)
LoadMoreTimelineItems ==
    /\ disturbed' = disturbed \cup Awaited
    /\ ~loadingTimeline /\ CanLoadMoreTimelineItems /\ ~isLoadMoreTimelineInProgress
    /\ Len(calls) < MaxCall
    /\ isLoadMoreTimelineInProgress' = TRUE
    /\ calls' = Append(calls, Pages("more", content, Len(timeline) + PageSize, pageToken))
    /\ UNCHANGED <<serverVars, openVars, content, listVars, pageVars, loadingTimeline>>

(* handleTranslateComment captures the comment it was given.               *)
TranslateComment(item) ==
    /\ Len(calls) < MaxCall
    /\ made[item.id].kind = "comment" /\ item.translation = "untranslated"
    /\ SetTimeline(ReplaceComment([item EXCEPT !.translation = "pending"], wholeTimeline),
                   Len(timeline))
    /\ calls' = Append(calls, Single("translate", item.id, item.text))
    /\ disturbed' = disturbed \cup ({item.id} \cap Awaited)
    /\ UNCHANGED <<serverVars, openVars, content, pageVars, loadingTimeline,
                   isLoadMoreTimelineInProgress>>

RestoreComment(item) ==
    /\ item.translation = "translated"
    /\ SetTimeline(ReplaceComment([item EXCEPT !.translation = "untranslated"], wholeTimeline),
                   Len(timeline))
    /\ UNCHANGED <<serverVars, openVars, content, pageVars, loadingTimeline,
                   isLoadMoreTimelineInProgress, calls, disturbed>>

-----------------------------------------------------------------------------
(* The server's answers.                                                   *)
Page(kind, c, from) ==
    LET found == {id \in Id : /\ made[id].kind = kind /\ ParentOf(id) = c
                              /\ ~made[id].deleted /\ id < from}
        newest == {id \in found : Cardinality({o \in found : o >= id}) <= PageSize}
        listed == Ascending(newest)
    IN [items |-> [i \in DOMAIN listed |-> Item(listed[i], made[listed[i]].text)],
        next |-> IF newest = {} THEN from ELSE Min(newest),
        more |-> newest # found]

Answer(call) ==
    IF IsPages(call) THEN [k \in Kind |-> Page(k, call.of, call.from[k])]
    ELSE IF call.op = "revision" THEN CurrentRevision(ParentOf(call.id))
    ELSE made[call.id].text

(* A page holds what TLMs that wait are about; a request for the revision  *)
(* a TLM told of may find a later one.                                     *)
DisturbedByAnswer(call) ==
    IF IsPages(call) THEN {tlms[j].id : j \in DOMAIN tlms}
    ELSE IF call.op = "revision" /\ Answer(call) # call.id THEN {call.id, Answer(call)}
    ELSE {}

ServerAnswers(i) ==
    /\ calls[i].answer = None
    /\ \E answer \in {Answer(calls[i])} \cup Failures :
          calls' = [calls EXCEPT ![i].answer = answer]
    /\ disturbed' = disturbed \cup DisturbedByAnswer(calls[i])
    /\ UNCHANGED <<serverVars, openVars, content, listVars, pageVars, loadingTimeline,
                   isLoadMoreTimelineInProgress>>

\* Mutant: loadTimeline without its "finally".
EndOfLoadUnlessFailed(call) ==
    IF call.op = "load"
    THEN /\ loadingTimeline' = (loadingTimeline /\ call.answer = Lost)
         /\ UNCHANGED isLoadMoreTimelineInProgress
    ELSE /\ isLoadMoreTimelineInProgress' = (call.answer = Lost)
         /\ UNCHANGED loadingTimeline

(* handleLoadMoreTimelineItems resets its flag unless the promise was      *)
(* rejected; loadTimeline resets loadingTimeline "finally".                *)
EndOfLoad(call) ==
    IF call.op = "load"
    THEN loadingTimeline' = FALSE /\ UNCHANGED isLoadMoreTimelineInProgress
    ELSE /\ isLoadMoreTimelineInProgress' = (call.answer = Lost)
         /\ UNCHANGED loadingTimeline

LoadedItems(answer) ==
    answer["comment"].items \o answer["file"].items \o answer["revision"].items

(* A page that is not the next one of the items it is added to, because a  *)
(* load was answered in between, disturbs them all.  The token that comes  *)
(* with an empty list asks for the first page again, and what that one and *)
(* the next ones bring may be there already.                               *)
DisturbedByMore(call) ==
    IF <<call.of, call.from>> # <<content, pageToken>> THEN Id
    ELSE {id \in Id : call.from[made[id].kind] = FirstPage}

ResumePages(i) ==
    LET call == calls[i] IN
    /\ IsPages(call) /\ call.answer # None
    /\ IF call.answer \in {Refused, Lost}
       THEN UNCHANGED <<content, listVars, pageVars>>
       ELSE /\ SetTimeline(SortTimelineByDate(LoadedItems(call.answer) \o
                                              (IF call.op = "more" THEN wholeTimeline ELSE <<>>)),
                           call.count)
            /\ content' = call.of
            /\ pageToken' = [k \in Kind |-> call.answer[k].next]
            /\ hasMore' = [k \in Kind |-> call.answer[k].more]
    /\ EndOfLoad(call)
    /\ calls' = RemoveAt(calls, i)
    /\ disturbed' = IF call.op = "load" \/ call.answer \in {Refused, Lost} THEN disturbed
                    ELSE disturbed \cup DisturbedByMore(call)
    /\ UNCHANGED <<serverVars, openVars>>

Next ==
    \/ \E kind \in ChildKind \cup {"revision"}, c \in Content : Create(kind, c)
    \/ \E id \in Id : Edit(id) \/ Delete(id) \/ Restore(id)
    \/ HandleTlm
    \/ \E c \in Content : ShowContent(c)
    \/ LoadMoreTimelineItems
    \/ \E j \in DOMAIN timeline : TranslateComment(timeline[j]) \/ RestoreComment(timeline[j])
    \/ \E i \in DOMAIN calls :
         ServerAnswers(i) \/ ResumeSingle(i) \/ ResumePages(i)

Spec == Init /\ [][Next]_vars

-----------------------------------------------------------------------------
Items == [id : Id, text : 0..MaxText \cup {None},
          translation : {"disabled", "untranslated", "pending", "translated"}]

(* The state is well formed.                                               *)
TypeOK ==
    /\ mounted \in Content /\ opened \in Content /\ content \in Content
    /\ wholeTimeline \in Seq(Items) /\ timeline \in Seq(Items)
    /\ pageToken \in [Kind -> 1..FirstPage] /\ hasMore \in [Kind -> BOOLEAN]
    /\ loadingTimeline \in BOOLEAN /\ isLoadMoreTimelineInProgress \in BOOLEAN
    /\ Len(calls) <= MaxCall /\ disturbed \subseteq Id

Quiet == tlms = <<>> /\ calls = <<>> /\ ~loadingTimeline
Loaded(id) == id >= pageToken[made[id].kind]
Expected(id) == ParentOf(id) = content /\ ~made[id].deleted
FilesOfReloaded == {id \in Id : made[id].kind = "file" /\ ParentOf(id) # mounted}
Shown(id) == {i \in DOMAIN wholeTimeline : wholeTimeline[i].id = id}

(* When nothing is under way, the timeline says of each item what the      *)
(* server says: an item of the content is there once with its text, a      *)
(* deleted one and one of another content is not.  It may be wrong only    *)
(* about items that are disturbed: two handlers, or a handler and a page,  *)
(* overlapped about them, a request about one of them was refused or lost, *)
(* or they were restored from the trash (which no handler shows); and      *)
(* about the files of a content other than the one the application was     *)
(* mounted with (handleChildContentModified).                              *)
UndisturbedAreRight ==
    Quiet => \A id \in Id \ (disturbed \cup FilesOfReloaded) :
                 IF Expected(id)
                 THEN /\ Loaded(id) => Cardinality(Shown(id)) = 1
                      /\ \A i \in Shown(id) : wholeTimeline[i].text = made[id].text
                 ELSE Shown(id) = {}

(* When nothing is under way and there is no button "See more", everything *)
(* the server has of the content is on the screen, but for items that are  *)
(* disturbed (see above).                                                  *)
NothingHiddenAtTheEnd ==
    Quiet /\ ~CanLoadMoreTimelineItems =>
        \A id \in Id \ disturbed : Expected(id) => id \in Ids(timeline)

(* The timeline is said to load only while a load is awaited, whatever     *)
(* becomes of the requests and in whatever order they end: a timeline that *)
(* loads for ever has no button "See more".                                *)
LoadingIsUnderWay ==
    loadingTimeline => \E i \in DOMAIN calls : calls[i].op = "load"
=============================================================================
