--------------------------- MODULE NotificationWall ---------------------------
(***************************************************************************)
(* The notifications of a user in the tabs of the browser                  *)
(* (frontend/src/container/NotificationWall.jsx and the reducer            *)
(* notificationPage.js).  Each tab keeps its own list: pages of messages   *)
(* it asks for, live messages (TLMs) the tab that leads passes on, and     *)
(* what the user marked as read, which the tab where it was clicked tells  *)
(* the others (LiveMessageManager.js).                                     *)
(*                                                                         *)
(* A step is one task of the browser: what a handler does between two      *)
(* awaits, with the effects of the renderings it causes.  A call is a      *)
(* handler that waits for an answer with the props it captured: a page of  *)
(* notifications, a mark, or the content a live message is about.          *)
(***************************************************************************)
EXTENDS Tabs, Integers, Sequences, SequencesExt, FiniteSetsExt

CONSTANTS Content,
          OtherSpace, \* the contents of the space whose notifications may be off
          Leader,     \* the tab that leads
          PageSize,   \* NUMBER_RESULTS_BY_PAGE
          Window,     \* the notifications that fill the window
          Existing,   \* the messages before the tabs are opened
          MaxMessage, MaxList, MaxCall, MaxMark   \* bounds

ASSUME WallAssumption == OtherSpace \subseteq Content /\ Leader \in Tab
ASSUME WallCountAssumption ==
    /\ PageSize \in Nat \ {0} /\ Window \in Nat /\ Existing \in Seq(Content)
    /\ Len(Existing) <= MaxMessage
    /\ MaxMessage \in Nat /\ MaxList \in Nat /\ MaxCall \in Nat /\ MaxMark \in Nat

Message == 1..MaxMessage
Slot == 1..MaxCall
FirstPage == MaxMessage + 1   \* the page token ''

VARIABLES
    messages,   \* server: the contents the messages are about, by event id
    read,       \* server: the messages that are read
    muted,      \* the user's configuration turns the other space off
    tlms,       \* what the server has sent to the tab that leads
    link,       \* what a tab has sent to another on the broadcast channel
    rawList,    \* of each tab, the store: notificationPage.rawList,
    applied,    \* the configuration notificationPage.list was filtered with,
    hasNextPage, nextPageToken,  \* and the next page
    isLoading,
    calls,
    marks,      \* how many times the user marked something as read
    firstRead,  \* history: the last message when a tab's first page was read
    handled,    \* history: the TLMs a tab has added
    marked,     \* history: what the user marked, and a tab was or will be told
    stale,      \* history: what was on its way to a list, unread, when marked
    failed      \* history: a load of the tab failed since its last rendering

messageVars == <<messages, read, muted>>
channelVars == <<tlms, link>>
storeVars == <<rawList, applied, hasNextPage, nextPageToken>>
historyVars == <<firstRead, handled, marked, stale>>
wallVars == <<messageVars, channelVars, storeVars, isLoading, calls, marks, historyVars, failed>>

(* What is at some places of a list.                                       *)
PickedFrom(raw, places) ==
    [n \in 1..Cardinality(places) |->
        raw[CHOOSE i \in places : Cardinality({j \in places : j <= i}) = n]]

IdsOf(raw) == {raw[i].id : i \in DOMAIN raw}
FreeIn(slots) == {s \in Slot : slots[s] = None}

(* loadNotifications, with the props of the rendering that calls it.       *)
LoadCall(t, token, mutes) ==
    [op |-> "load", tab |-> t, token |-> token, mutes |-> mutes, answer |-> None]

(* The tabs are open and TLMs come.  Each has asked for its first page,    *)
(* before the configuration of the user was there.                         *)
WallInit ==
    /\ messages = Existing
    /\ read = {} /\ muted \in BOOLEAN
    /\ tlms = <<>> /\ link = [p \in Tab \X Tab |-> <<>>]
    /\ rawList = [t \in Tab |-> <<>>] /\ applied = [t \in Tab |-> FALSE]
    /\ hasNextPage = [t \in Tab |-> FALSE]
    /\ nextPageToken = [t \in Tab |-> FirstPage]
    /\ isLoading = [t \in Tab |-> FALSE]
    /\ LET slot == CHOOSE f \in [Tab -> Slot] : \A t, u \in Tab : f[t] = f[u] => t = u
       IN calls = [s \in Slot |->
                     IF \E t \in Tab : slot[t] = s
                     THEN LoadCall(CHOOSE t \in Tab : slot[t] = s, FirstPage, FALSE)
                     ELSE None]
    /\ marks = 0
    /\ firstRead = [t \in Tab |-> 0] /\ handled = [t \in Tab |-> {}]
    /\ marked = [t \in Tab |-> {}] /\ stale = [t \in Tab |-> {}]
    /\ failed = [t \in Tab |-> FALSE]

-----------------------------------------------------------------------------
(* The server.                                                             *)
SomeoneActs ==
    /\ Len(messages) < MaxMessage
    /\ \E content \in Content : messages' = Append(messages, content)
    /\ tlms' = Append(tlms, [kind |-> "message", event |-> Len(messages) + 1])
    /\ UNCHANGED <<read, muted, link, storeVars, isLoading, calls, marks,
                   historyVars, failed>>

(* A page: the messages below the token, from newest to oldest.            *)
PageBelow(token) ==
    LET top == IF token = FirstPage THEN Len(messages) ELSE token - 1
        count == Min({PageSize, top})
    IN [items |-> [i \in 1..count |->
                      [id |-> top + 1 - i, read |-> top + 1 - i \in read, known |-> TRUE]],
        hasNext |-> count < top,
        token |-> IF count = 0 THEN token ELSE top + 1 - count,
        last |-> top]

-----------------------------------------------------------------------------
(* What is rendered.  shouldKeepNotification:                              *)
Kept(e, mutes) == ~mutes \/ messages[e] \notin OtherSpace
ListOf(raw, mutes) == PickedFrom(raw, {i \in DOMAIN raw : Kept(raw[i].id, mutes)})

\* Mutant: the list is set before the next page is.
UnfilledBefore(t, raw, mutes) == Len(ListOf(raw, mutes)) < Window /\ hasNextPage[t]

Unfilled(t, raw, mutes) == Len(ListOf(raw, mutes)) < Window /\ hasNextPage'[t]

(* The effect of a rendering: the wall asks for more while it is not       *)
(* filled, whether or not it is loading already.                           *)
Rendered(t, unfilled, others, loading) ==
    IF unfilled
    THEN /\ FreeIn(others) # {}
         /\ calls' = [others EXCEPT ![Min(FreeIn(others))] =
                        LoadCall(t, nextPageToken'[t], muted)]
         /\ isLoading' = [isLoading EXCEPT ![t] = TRUE]
    ELSE /\ calls' = others
         /\ isLoading' = [isLoading EXCEPT ![t] = loading]

(* A new list in the store of a tab, and its rendering.                    *)
SetList(t, raw, mutes, others, loading) ==
    /\ rawList' = [rawList EXCEPT ![t] = raw]
    /\ applied' = [applied EXCEPT ![t] = mutes]
    /\ Rendered(t, Unfilled(t, raw, mutes), others, loading)
    /\ failed' = [failed EXCEPT ![t] = FALSE]

-----------------------------------------------------------------------------
(* Pages.                                                                  *)
AnswerLoad(s) ==
    /\ calls[s] # None /\ calls[s].op = "load" /\ calls[s].answer = None
    /\ calls' = [calls EXCEPT ![s].answer = PageBelow(calls[s].token)]
    /\ UNCHANGED <<messageVars, channelVars, storeVars, isLoading, marks, historyVars, failed>>

\* Mutant: the page is appended to the list that is filtered.
AppendedToFiltered(t, items) == ListOf(rawList[t], applied[t]) \o items

Appended(t, items) == rawList[t] \o items

(* setNextPage, then appendNotificationList.                               *)
EndLoad(s) ==
    /\ calls[s] # None /\ calls[s].op = "load" /\ calls[s].answer # None
    /\ LET t == calls[s].tab
           answer == calls[s].answer
       IN /\ Len(rawList[t]) + Len(answer.items) <= MaxList
          /\ hasNextPage' = [hasNextPage EXCEPT ![t] = answer.hasNext]
          /\ nextPageToken' = [nextPageToken EXCEPT ![t] = answer.token]
          /\ SetList(t, Appended(t, answer.items), calls[s].mutes, [calls EXCEPT ![s] = None], FALSE)
          /\ firstRead' = IF calls[s].token = FirstPage THEN [firstRead EXCEPT ![t] = answer.last]
                          ELSE firstRead
    /\ UNCHANGED <<messageVars, channelVars, marks, handled, marked, stale>>

LoadRefused(s) ==
    /\ calls[s] # None /\ calls[s].op = "load" /\ calls[s].answer = None
    /\ calls' = [calls EXCEPT ![s] = None]
    /\ isLoading' = [isLoading EXCEPT ![calls[s].tab] = FALSE]
    /\ failed' = [failed EXCEPT ![calls[s].tab] = TRUE]
    /\ UNCHANGED <<messageVars, channelVars, storeVars, marks, historyVars>>

HandleScroll(t) ==
    /\ hasNextPage[t] /\ ~isLoading[t] /\ FreeIn(calls) # {}
    /\ isLoading' = [isLoading EXCEPT ![t] = TRUE]
    /\ calls' = [calls EXCEPT ![Min(FreeIn(calls))] = LoadCall(t, nextPageToken[t], muted)]
    /\ UNCHANGED <<messageVars, channelVars, storeVars, marks, historyVars, failed>>

-----------------------------------------------------------------------------
(* What is marked as read: everything, some notifications, or what is      *)
(* about a content that was opened; in a list, as far as the content of    *)
(* the notification is known.                                              *)
Selected(mark, e) == mark.kind = "all" \/ e \in mark.ids \/ messages[e] = mark.content

SelectedItem(mark, item) ==
    /\ Selected(mark, item.id)
    /\ mark.kind = "content" => item.known

Marked(mark, raw) ==
    [i \in DOMAIN raw |->
        IF SelectedItem(mark, raw[i]) THEN [raw[i] EXCEPT !.read = TRUE] ELSE raw[i]]

UniqById(raw) ==
    PickedFrom(raw, {i \in DOMAIN raw : \A j \in 1..i - 1 : raw[j].id # raw[i].id})

(* A list of notifications of which none is unread changes nothing.        *)
Read(t, mark, others) ==
    /\ UNCHANGED <<hasNextPage, nextPageToken>>
    /\ IF mark.kind # "list"
       THEN SetList(t, UniqById(Marked(mark, rawList[t])), applied[t], others, isLoading[t])
       ELSE IF Marked(mark, rawList[t]) = rawList[t]
       THEN calls' = others /\ UNCHANGED <<rawList, applied, isLoading, failed>>
       ELSE SetList(t, Marked(mark, rawList[t]), applied[t], others, isLoading[t])

ClickMark(t, kind, ids, content, here) ==
    /\ marks < MaxMark /\ marks' = marks + 1 /\ FreeIn(calls) # {}
    /\ calls' = [calls EXCEPT ![Min(FreeIn(calls))] =
                   [op |-> "mark", tab |-> t, here |-> here, phase |-> "asked", covered |-> {},
                    mark |-> [kind |-> kind, ids |-> ids, content |-> content]]]
    /\ UNCHANGED <<messageVars, channelVars, storeVars, isLoading, historyVars, failed>>

HandleClickMarkAllAsRead(t) == ClickMark(t, "all", {}, None, FALSE)

HandleClickMarkNotificationListAsRead(t) ==
    \E e \in IdsOf(ListOf(rawList[t], applied[t])) : ClickMark(t, "list", {e}, None, FALSE)

ReadContentNotifications(t) ==
    \E content \in Content : ClickMark(t, "content", {}, content, FALSE)

(* The sidebar marks what is unread in a space and tells no other tab.     *)
HandleReadSpaceNotifications(t) ==
    \E space \in {OtherSpace, Content \ OtherSpace} :
        LET list == ListOf(rawList[t], applied[t])
            unread == {list[i].id : i \in {j \in DOMAIN list :
                          ~list[j].read /\ messages[list[j].id] \in space}}
        IN unread # {} /\ ClickMark(t, "list", unread, None, TRUE)

(* What a tab will add as unread: TLMs it has not received, those that     *)
(* wait for their content, and what an answer brings.                      *)
OnTheWay(t) ==
    LET told(q) == {q[i].event : i \in {j \in DOMAIN q : q[j].kind = "message"}}
        waiting(op) == {s \in Slot \ FreeIn(calls) : calls[s].op = op /\ calls[s].tab = t}
    IN told(tlms)
       \cup (UNION {told(link[<<u, t>>]) : u \in Tab})
       \cup {calls[s].event : s \in waiting("fetch")}
       \cup (UNION {IdsOf(calls[s].answer.items) :
                      s \in {r \in waiting("load") : calls[r].answer # None}})

PutRead(s) ==
    /\ calls[s] # None /\ calls[s].op = "mark" /\ calls[s].phase = "asked"
    /\ LET covered == {e \in DOMAIN messages : Selected(calls[s].mark, e)} IN
       /\ read' = read \cup covered
       /\ calls' = [calls EXCEPT ![s].phase = "answered", ![s].covered = covered]
       /\ stale' = [t \in Tab |-> stale[t] \cup (covered \cap OnTheWay(t))]
    /\ UNCHANGED <<messages, muted, channelVars, storeVars, isLoading, marks,
                   firstRead, handled, marked, failed>>

\* Mutant: the other tabs are not told.
ToldHereOnly(t, mark, here) == link' = link

(* dispatchBroadcastChannelCustomEvent: this tab, then the others.         *)
Told(t, mark, here) ==
    link' = IF here THEN link
            ELSE [p \in Tab \X Tab |-> IF p[1] = t /\ p[2] # t THEN Append(link[p], mark) ELSE link[p]]

MarkAnswered(s) ==
    /\ calls[s] # None /\ calls[s].op = "mark" /\ calls[s].phase = "answered"
    /\ LET call == calls[s] IN
       /\ Read(call.tab, call.mark, [calls EXCEPT ![s] = None])
       /\ Told(call.tab, call.mark, call.here)
       /\ marked' = [t \in Tab |->
                       IF call.here /\ t # call.tab THEN marked[t]
                       ELSE marked[t] \cup call.covered]
    /\ UNCHANGED <<messageVars, tlms, marks, firstRead, handled, stale>>

(* The request, or its answer, is lost.                                    *)
MarkRefused(s) ==
    /\ calls[s] # None /\ calls[s].op = "mark"
    /\ calls' = [calls EXCEPT ![s] = None]
    /\ UNCHANGED <<messageVars, channelVars, storeVars, isLoading, marks, historyVars, failed>>

-----------------------------------------------------------------------------
(* The channels.                                                           *)
(* Where a notification comes: after the newer ones, and those of one id   *)
(* as they were.                                                           *)
PlaceOf(raw, i) ==
    Cardinality({j \in DOMAIN raw : \/ raw[j].id > raw[i].id
                                    \/ raw[j].id = raw[i].id /\ j <= i})

SortByCreatedDate(raw) ==
    [n \in DOMAIN raw |-> raw[CHOOSE i \in DOMAIN raw : PlaceOf(raw, i) = n]]

(* addNotification, with the configuration of this moment.                 *)
HandleNotification(t, e, known, others) ==
    /\ UNCHANGED <<hasNextPage, nextPageToken>>
    /\ IF Kept(e, muted)
       THEN /\ SetList(t, SortByCreatedDate(Append(rawList[t], [id |-> e, read |-> FALSE, known |-> known])),
                       muted, others, isLoading[t])
            /\ handled' = [handled EXCEPT ![t] = @ \cup {e}]
       ELSE calls' = others /\ UNCHANGED <<rawList, applied, isLoading, failed, handled>>

(* What is created, modified or restored, a comment and a mention: the tab *)
(* asks for the content first.                                             *)
FetchContent(t, e) ==
    /\ FreeIn(calls) # {}
    /\ calls' = [calls EXCEPT ![Min(FreeIn(calls))] = [op |-> "fetch", tab |-> t, event |-> e]]
    /\ UNCHANGED <<storeVars, isLoading, failed, handled>>

(* The content comes, or is refused: the notification is added without it. *)
EndFetch(s) ==
    /\ calls[s] # None /\ calls[s].op = "fetch"
    /\ \E known \in BOOLEAN :
          HandleNotification(calls[s].tab, calls[s].event, known, [calls EXCEPT ![s] = None])
    /\ UNCHANGED <<messageVars, channelVars, marks, firstRead, marked, stale>>

(* A comment is refused, or the request is rejected: no notification.      *)
FetchRefused(s) ==
    /\ calls[s] # None /\ calls[s].op = "fetch"
    /\ calls' = [calls EXCEPT ![s] = None]
    /\ UNCHANGED <<messageVars, channelVars, storeVars, isLoading, marks, historyVars, failed>>

(* A message may be of any type: deletions, members and to-dos have no     *)
(* content to ask for.                                                     *)
Handle(t, item) ==
    \/ item.kind = "message" /\ HandleNotification(t, item.event, TRUE, calls)
    \/ item.kind = "message" /\ FetchContent(t, item.event)
    \/ item.kind \in {"all", "list", "content"} /\ Read(t, item, calls) /\ UNCHANGED handled

(* The tab that leads passes on the TLMs it receives.                      *)
ReceiveTlm ==
    /\ tlms # <<>> /\ tlms' = Tail(tlms)
    /\ Handle(Leader, Head(tlms))
    /\ link' = [p \in Tab \X Tab |->
                  IF p[1] = Leader /\ p[2] # Leader THEN Append(link[p], Head(tlms)) ELSE link[p]]
    /\ UNCHANGED <<messageVars, marks, firstRead, marked, stale>>

BroadcastChannelMessageReceived(u, t) ==
    /\ link[<<u, t>>] # <<>> /\ link' = [link EXCEPT ![<<u, t>>] = Tail(@)]
    /\ Handle(t, Head(link[<<u, t>>]))
    /\ UNCHANGED <<messageVars, tlms, marks, firstRead, marked, stale>>

WallNext ==
    \/ SomeoneActs
    \/ \E s \in Slot :
          \/ AnswerLoad(s) \/ EndLoad(s) \/ LoadRefused(s)
          \/ PutRead(s) \/ MarkAnswered(s) \/ MarkRefused(s)
          \/ EndFetch(s) \/ FetchRefused(s)
    \/ \E t \in Tab :
          \/ HandleScroll(t)
          \/ HandleClickMarkAllAsRead(t) \/ HandleClickMarkNotificationListAsRead(t)
          \/ ReadContentNotifications(t) \/ HandleReadSpaceNotifications(t)
    \/ ReceiveTlm
    \/ \E u, t \in Tab : BroadcastChannelMessageReceived(u, t)

WallSpec == WallInit /\ [][WallNext]_wallVars

-----------------------------------------------------------------------------
(* What a tab was given, by a TLM it added or down to its last page, is in *)
(* its list: pages that are asked for twice, answered late or with TLMs in *)
(* between leave no hole.  A TLM whose comment was refused is not added.   *)
NothingMissing ==
    \A t \in Tab, e \in DOMAIN messages :
        \/ e \in handled[t]
        \/ e <= firstRead[t] /\ (hasNextPage[t] => e >= nextPageToken[t])
        => e \in IdsOf(rawList[t])

(* A tab that has heard all other tabs shows as read what the user marked  *)
(* in the wall of any tab, by opening its content in any tab, or in its    *)
(* own sidebar (which tells no other tab); except what was on its way to   *)
(* the list when the server marked it, and a notification whose content    *)
(* was refused.                                                            *)
MarksReachEveryTab ==
    \A t \in Tab : (\A u \in Tab : link[<<u, t>>] = <<>>) =>
        \A i \in DOMAIN rawList[t] :
            rawList[t][i].known /\ rawList[t][i].id \in marked[t] \ stale[t] => rawList[t][i].read

Loads(t) == {s \in Slot \ FreeIn(calls) : calls[s].op = "load" /\ calls[s].tab = t}

(* A wall that waits for no page is filled, or there is no page any more,  *)
(* or its last request has failed.                                         *)
WallIsFilled ==
    \A t \in Tab :
        hasNextPage[t] /\ ~failed[t] /\ Loads(t) = {} =>
            Len(ListOf(rawList[t], applied[t])) >= Window
=============================================================================
