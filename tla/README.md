# A formal model of tracim

tracim is a collaboration server: users belong to spaces, a space holds a tree
of contents (files, notes, threads, folders...), every change of a content is a
revision, and every change of anything is an event that the members concerned
receive live in their browser. The backend is a Pyramid application over one
SQL database (PostgreSQL, MySQL/MariaDB or SQLite), with RQ workers on Redis, a
push proxy (Pushpin) for the live messages, a WebDAV server and daemons; the
client is a set of React applications around a shared library.

This directory holds TLA+ modules that model the parts where requests, jobs,
processes, browser tabs and the handlers of one tab meet, the TLC configurations that check them, and
proofs for TLAPS. Every definition is translated from the source; `map` in
`PROJECT.json` gives the lines of each one.

    tlc -workers 2 -config ContentHistory_mixed.cfg MCContentHistory
    tlapm ContentHistoryProofs.tla
    tlc -workers 2 -config NotificationWall_two_tabs.cfg MCNotificationWall

## Inventory

Paths are relative to `src/backend/tracim_backend` unless they start with `src`.

| Component | State | Operations | What must hold |
|---|---|---|---|
| Content history (`lib/core/content.py`, `models/data.py`, `models/revision_protection.py`, `models/tracim_session.py`) | rows of `content_revisions`, `content.cached_revision_id`, content locks (advisory locks or lock files) | upload, patch, status, trash, archive, restore; `new_revision`, flush, commit, rollback | one patch per base revision; a patch is computed on its base and replaces it; the current revision is the newest; locks are given back |
| Content tree (`lib/core/content.py`, `views/core_api/workspace_controller.py`) | parent, space, namespace, name, trash and archive flags of the current revisions | create, rename, move a subtree, trash, archive, restore | names unique in a folder; no cycle; a child is in the space of its parent |
| Space membership (`lib/core/userworkspace.py`, `workspace.py`, `subscription.py`, `user.py`, `lib/utils/authorization.py`) | roles, profiles, subscriptions, deleted spaces | add, join, subscribe, accept, reject, change role, leave, change profile, delete and restore a space | a space keeps a manager; guests stay contributors and within their number of spaces |
| Events and messages (`lib/core/event.py`, `lib/crud_hook/caller.py`, `lib/rq/worker.py`) | events, messages (receiver, event), pending events in memory, the RQ queue | publish before commit (sync) or after it (async), jobs, history for a joining user, deletion for a leaving one | members get every event once, others none |
| Live message stream (`src/frontend_lib/src/LiveMessageManager.js`, `lib/core/live_messages.py`, `open_message_stream` in `views/core_api/user_controller.py`) | the leader tab, its connection, last id and leftovers of each tab | push, answer, subscribe, lose and reopen, broadcast, close a tab | no message dispatched twice; none lost over a reconnection |
| Timeline of a content (`src/frontend_lib/src/appContentFactory.js`, which every content application wraps) | per tab: the items loaded and shown, a page token and "more" flag for comments, files and revisions, the requests awaited | load, "See more", translate, live messages about comments, files and revisions, opening another content | at rest each item of the content is there once as it is on the server; a load that ends is not said to go on; nothing is hidden without "See more" |
| Recent activities (`src/frontend/src/container/withActivity.jsx`, `WorkspaceRecentActivities.jsx`, `src/frontend/src/util/activity.js`) | the list in the store, shared by all feeds of a tab; per feed a flag that keeps its updates apart | load by batches, cancel, "See more", "Reorder", live messages, leaving a dashboard for another page | an activity is listed once; no message is missing; a load does not bring in the space that was left; the flag is given back |
| Note editing (`src/frontend_app_html-document/src/container/HtmlDocument.jsx`, `component/HtmlDocument.jsx`) | per tab: the note shown, the version announced, the text of the editor; the draft in the local storage; revisions on the server | open, edit, type, cancel, save, refresh, revisions, status, title, delete, restore, changes by others, refused contents | what was typed is not lost; a note is never edited from an old text without notice |
| Notification wall (`src/frontend/src/container/NotificationWall.jsx`, `reducer/notificationPage.js`, `ReduxTlmDispatcher.jsx`) | per tab: the list, the list as filtered, the next page; on the server what is read | load, scroll, mark as read in four places, live messages, what tabs tell each other | no notification is missing; what was marked in the wall or by opening a content is read in every tab; the wall fills itself |
| User calls (`lib/core/call.py`) | one state per call | create, accept, reject, cancel, postpone | a call leaves "in progress" once |
| Connection monitor (`lib/user_connection_state_monitor/monitor.py`) | users seen online, pending disconnections | proxy statistics, timeouts, start | a user with a connection is online, one without goes offline once |
| WebDAV server (`lib/webdav/`) | locks in its storage; nothing else of its own | file operations translated to content operations | a lock excludes other writers until it expires |
| Read status, copies, permanent deletion, quotas | rows beside the revisions | mark read, copy a subtree, purge | no lost or double row; no dangling reference |
| Shares, upload permissions, reactions, tags, favorites, to-dos, mentions | independent rows | create, use, disable | their primary keys |
| Authentication, mail, search, agenda, previews, translation, plugins, commands, migrations, the rest of the web client | external systems, files, user interface | input and output | outside of what a state model shows |

How they interact. A request runs in one database transaction (pyramid_tm). It
checks its guards on what it has read, changes mapped objects, and flushes;
revisions are cloned by `new_revision`, whose flush inserts a row and repoints
`content.cached_revision_id`. The CRUD hooks turn each flush into events
(`DatabaseCrudHookCaller` calls `EventBuilder`); `EventPublisher` publishes the
pending events around the commit, itself or through RQ jobs, and
`MessageHooks` changes the messages when roles change. A message is pushed to
the proxy just before it is committed; the leader tab of a browser receives it
and passes it to the other tabs. Processes share only the database, Redis, the
lock files and the proxy. In a tab, live messages, clicks and the answers of
the server are tasks of one thread: a handler runs alone up to its next
`await`, and anything may run before it goes on, with the props and the state
it captured. The tabs of a browser share the local storage and a broadcast
channel.

What is hard. Transactions are READ COMMITTED (the default of the databases;
nothing in the code asks for more), rows are read without FOR UPDATE, and few
guards are repeated by a constraint of the database: between the test of a
guard and the commit anything may be committed. In memory there are the pending
events of a web process and the job of a worker, both lost when it dies. The
proxy loses what is pushed while nobody is connected, and neither order nor
delivery of its messages is guaranteed. In the browser the handlers test their
guards before an `await` and use the answer after it: the content that is open,
the list and the page token may be others by then, two answers may come in the
other order, and a promise that is rejected skips what follows. `PROJECT.json` lists the hazards with
their lines.

## Modules

| Module | Models | Correspondence |
|---|---|---|
| `ContentHistory` | the revisions of contents, with their locks | `revisions`, `cached`, `nextId` are the tables; `held` the advisory locks or lock files; `rowOwner` the row locks of uncommitted UPDATEs; `req[s]` a session: its step `pc`, the revision it loaded (`view`), the one it inserted (`new`). `TryLockForContent`, `LoadForPatch`, `CheckBase` are `apply_patch` up to its check 2; `LoadForWrite` loads for the other operations, which take no lock; `InsertRevision` and `RepointContent` are the two statements of the flush; `Commit`, `RefuseUpdate` and `Abort` end the transaction |
| `LinearHistory` | what a history without lost updates is: each content has a head, a step appends to one head | abstract specification, refined by `ContentHistory` (`HistoryIsAChain`) |
| `ContentTree` | the tree of contents | `node` is the current revision of each content, `writes[s]` the uncommitted ones of a request; each handler evaluates all its guards in one step and flushes, `Commit` makes it visible; `Label` is any string a user may type, `Dated` the pairs of one and the same with the date the trash appends |
| `SpaceMembership` | roles, profiles, subscriptions, deleted spaces | one operator per route for its guards (authorization included), one action per kind of write |
| `LiveMessages` | events and messages of one space, both job modes | `req[r]` holds what a request has flushed and its pending events, `queue` is the RQ queue, `job[w]` a job that has built its messages; `lost` is a history variable |
| `Tabs` | the tabs of one browser, shared by the next module and by `NotificationWall` | `Tab`, and `None` for no tab |
| `LiveMessageStream` | one user's stream and tabs | fields of `LiveMessageManager` by their names; `pushed` and `stored` are what the server published and committed; `dispatched` and `snapshot` are history variables |
| `Timeline` | the timeline of the content that is open | fields of `appContentFactory` by their names (`wholeTimeline`, `timeline`, `pageToken`, `loadingTimeline`...); `calls` are the handlers that await, with what they captured; `Handle*` are the live-message handlers up to their first await, `Resume*` what they do with the answer, or with a request that was refused or lost; the restoration of an item (`Restore`) has no handler; `disturbed` is a history variable |
| `ActivityFeed` | the feeds of dashboards over the shared store | `list`, `hasNextPage`, `nextPageToken` are the store; `calls` are the runs of `loadActivities` and of `updateActivityListFromTlm`, by phase (waiting for the flag, asking, building); `RejectTlm` ends a live message's handler whose request is rejected or that throws; `mixed` and `rejected` are history variables |
| `NoteEditing` | a note in a tab | state of `HtmlDocument.jsx` by its names; `draft` is the local storage; `tlms` what the tab has received; one action per button and per handler; `told`, `unsaved`, `overtaken`, `raced`, `outdated`, `missed` are history variables |
| `NotificationWall` | the notifications of a user in several tabs | `rawList`, `hasNextPage`, `nextPageToken` are the reducer's; `applied` is the configuration `list` was filtered with; `tlms` is what the server sent to the tab that leads, `link` the broadcast channel; a `fetch` among the `calls` is a live message that waits for the content or the comment it asks for first (`FetchContent`, `EndFetch`, `FetchRefused`), and `known` says that the content of a notification came; `PutRead` is the server's part of a mark, `MarkAnswered` the tab's; the effects of a rendering are part of the step that causes it (`Rendered`) |
| `ContentHistoryProofs`, `ContentTreeProofs`, `SpaceMembershipProofs`, `LiveMessagesProofs`, `TabsProofs`, `TimelineProofs`, `ActivityFeedProofs`, `NoteEditingProofs` | theorems | |
| `MC*` | instances for TLC: symmetry sets, constants that are functions | |

Abstractions. File data, texts and names are ids. `Check` then `Commit` is the
granularity of `ContentTree`, `SpaceMembership`: the code's reads happen before
its flush, and what is committed between two reads of one request is left out
(it could only make more of the violations below). In `ContentHistory`, where a
request reads twice on purpose, the steps are those of the code. MySQL is not
modelled: `try_lock_for_content` gives it the lock file of SQLite, and its row
locks resemble those of PostgreSQL. The trash appends "-deleted-" or "-archived-"
and the date to the second to a label; in the model it chooses any date, so that
two contents may be trashed within one second, and the label it gives is one a
user may type. `LiveMessages` has one confidential space and
an unbounded message history (the default of
`WORKSPACE__JOIN__MAX_MESSAGES_HISTORY_COUNT`, -1). `LiveMessageStream` has one
browser; its channel between tabs keeps order.

In the modules of the client a step is one task of the browser, with the
renderings it causes and their effects. `setState` is taken to be applied when
the task ends. A text is a number that tells one edit from another; what is
shown, edited and sent is the same text (mentions and the icons of links are
put in and taken out again around it). The order of a timeline is by creation
and ids are in that order. Windows and pages have the sizes of the
configurations, far below those of the code (15 items of a timeline, a screen
of notifications): what matters is that a page ends and another one begins.
History variables name the overlaps of handlers that the code does not protect
against; the properties claim what holds without them, and the table of
behaviours below says what happens with them.

## Runs

Each property of a passing run has a mutant in `PROJECT.json`: a plausible bug
in a mapped definition that makes TLC find the property violated in that run.

| Run | Instance | What it shows |
|---|---|---|
| `history_patches` | 3 sessions, 2 contents, 6 revision ids, PostgreSQL, patches only | racing and retried patches leave a linear history (`HistoryIsAChain`, a refinement), each replaces its base |
| `history_mixed` | 2 sessions, 1 content, 5 ids, SQLite, all operations | `OnePatchPerBase`, `PatchIsOfItsBase`, `CurrentIsNewest` with every writer beside the patches; `LocksAreReleased` under fairness |
| `tree_sequential` | 1 session, 3 contents, 2 spaces, 1 name with up to 2 dates, all operations | `UndatedNamesUnique`, `TreeHasNoCycle`, `ChildrenFollowTheirParent` over any sequence of requests |
| `members_sequential` | 1 session, 2 users of any profile, 2 spaces, all operations | `SpaceHasManager`, `GuestsAreContributors`, `GuestSpacesAreLimited` over any sequence of requests |
| `messages_sync` | 1 request, 3 users, 5 events, synchronous publishing | `ContentIsForMembers`, `HistoryIsComplete`, `NoIntegrityError` while users join and leave |
| `messages_async` | 2 requests, 2 workers, 3 users, 3 events, jobs, crashes | `EventsReachMembers` under fairness, except for the events a dead process took with it |
| `stream_two_tabs` | 2 tabs, 4 events, 2 broadcasts on their way | `DispatchedOnce`, `NothingMissedIsForgotten`, `CaughtUp` over losses, reorderings, reconnections and a change of leader |
| `timeline_pages` | 2 contents, 3 items, deleted and restored, pages of 1, 2 requests in flight, refused and lost ones | `UndisturbedAreRight`, `NothingHiddenAtTheEnd`, `LoadingIsUnderWay` |
| `feed_two_spaces` | 2 contents of one space, an empty space, 2 messages, the second one possibly about a changed comment, 2 visits, 3 calls, rejected requests of loads and of live messages | `NoDuplicate`, `FeedIsRight`, `LoadsBringTheirSpace`, `FlagIsHeld` |
| `note_two_notes` | 2 notes, one created empty, 4 revisions, 3 texts, 2 calls, refused saves and contents | `NothingTypedIsLost`, `EditorHoldsWhatWasTyped`, `ShownOrNoticed` |
| `note_refresh` | 1 note, 3 revisions, 2 texts, 2 calls | violation of `RefreshBringsCurrent` |
| `wall_two_tabs` | 2 tabs, 2 contents in 2 spaces, 3 messages, pages of 2, a window of 3, 2 calls, 1 mark, refused requests | `NothingMissing`, `MarksReachEveryTab`, `WallIsFilled` |

Why the bounds are enough.

- Two sessions race; a third adds a request that meets the locks of two others
  (`history_patches`). Five or six revision ids leave room for a retry after a
  commit and for a second round of the same race. `MaxRevision` bounds the
  requests that start, never one that has started, so that the bound does not
  stop a session between two of its steps.
- A cycle needs two contents, a subtree that is moved needs a child and a
  grandchild: three contents, of which the third is also the neighbour whose
  name is taken. One name and two dates make four labels: the plain one, one
  of each date, and one of both (archived, then deleted). Two spaces are source and target of a move.
- Two users are the last manager and another one; two spaces are one above the
  limit of a guest (`MaxGuestSpaces = 1`), one is open and one on request.
- Three users are one who stays, one who joins or leaves and one who does the
  other. Two requests and two workers overlap in every way; five events in
  `messages_sync` let a user join, leave and join again around a content event.
- Four events are a first one, a skipped one, a later one and one that arrives
  during a reconnection; two tabs are a leader and the tab that takes over.
- Pages of one item end after each item, so that three items are a first page,
  a page asked for meanwhile and one that is there no more; with one live
  message waiting, one that is restored is deleted before. Two requests in
  flight are enough for two answers in the other order; `feed_two_spaces`
  has three calls because a dashboard starts two at once and a live message
  waits for them. Its two messages may be about one content or about two, and
  the second may change a comment of a content that is listed or not; the
  other space needs no content, because what must not happen there is that it
  shows those of the first.
- Two notes are the one that is edited and the one opened meanwhile; the empty
  one opens in the editor by itself. Three texts are a base, an edit and the
  edit of another user or a second one. One live message waits at a time.
- The wall has two messages before the tabs are opened and a third that comes
  live, before the first page is read (a page is left after it then) or after;
  a window of three is not filled by one page, and with two calls a second
  request is asked for before the first one is answered, or a live message
  waits for its content while a mark is under way. A list of four holds all
  three messages and a duplicate. A second mark adds a second set of ids that
  are read, which no handler tells from the first; the proof has any number.

`CHECK_DEADLOCK FALSE` is in every configuration: the systems stop when the ids
or events of the bound are used up, and may be at rest before, since nobody is
obliged to send a request. What must not stop is stated as liveness. The
`SYMMETRY` of a run is over users, sessions, contents, names, tabs or slots of
calls that no definition tells apart, and only in runs without liveness.

## Fairness

- `ContentHistory!FairSpec`: a thread that handles a request keeps running it
  (`Progress`), and where it waits for SQLite's single writer the busy timeout
  fails it (`GiveUp`). The condition is weak: a session whose row or file is
  owned by another waits only as long as that one's transaction, which is
  under the same condition. No session is obliged to begin a request, and
  `Abort` is never obliged.
- `LiveMessages!FairSpec`: a request that has flushed ends, a web process goes
  on to enqueue what it has committed, and a worker takes jobs while there are
  any and ends the one it has. Requests do not have to begin and processes do
  not have to die. Jobs are not retried: RQ is used without a retry policy.
- All other modules claim safety only. Nothing in the client's code obliges the
  proxy to deliver a message or the server to answer, requests have no timeout
  in the client, and a tab may stay disconnected for good. What would be a
  liveness property is stated of the states at rest: nothing is under way, or
  what is missing is under way (`LoadingIsUnderWay`, `FlagIsHeld`,
  `WallIsFilled`).

## Disagreements between code and documentation

`note_refresh` ends in a trace that the code can take, against a sentence of the
repository that `findings` quotes: "should update content state", the test of
`handleClickRefresh`. The text to show at "Refresh?" and the text to go back to
at "Cancel" are one variable, `rawContentBeforeEdit`, and "Edit" sets it to the
text that is displayed. A user who clicks "Edit" under the warning that the note
was modified loses the new text that way: "Refresh?" then shows the old one as
the last version, and hides the warning.

Two more sentences of the repository are contradicted by what the modules show,
without a run of their own:

- "Content filename should be unique in a same folder in database"
  (`lib/core/content.py` 364) is `FileNamesUnique`. One session breaks it:
  `create_generic_empty_content` (`views/core_api/workspace_controller.py` 635)
  looks the name up with an API that sees no trashed content, so that a note, a
  folder or a thread may be created under the name the trash has given to
  another one ("foo-deleted-..." is a name a user may type), and a restoration
  checks nothing. What holds is `UndatedNamesUnique`, for the names without such
  a date; and all names are unique without these creations
  (`OnlyCreationsClash`): an upload does see trashed contents.
- "Now the notification wall is synchronized between tabs" (`CHANGELOG.md`
  157). The wall tells the other tabs what it marks; the sidebar marks the
  notifications of a space on the server and in its own tab, and tells nobody
  (`frontend/src/component/Sidebar/SidebarSpaceItem.jsx` 114). The other tabs go
  on showing them as unread; `MarksReachEveryTab` asks of the sidebar only that
  its own tab follows.

Other behaviours that the same modules reach when constants are changed, or that
their history variables exempt. The first five contradict a sentence of the
code too.

| Behaviour | Where | To reproduce |
|---|---|---|
| a patch replaces a revision it was not made for, against the docstring of `apply_patch` (2655-2656) | `lib/core/content.py` 2688: the base is compared with the current revision once, and the other writers take no content lock | `ContentHistory`, 2 sessions, 1 content, `MaxRevision = 4`, `Operation = {"patch", "update_file"}`, `postgresql`: `PatchReplacesItsBase` |
| a cycle in the tree | `lib/core/content.py` 1398-1399: a move reads the descendants once; A below B and B below A at the same time both pass | `ContentTree`, 2 sessions, 2 contents, 2 names, 1 space, `{"create", "move"}`: `TreeHasNoCycle` |
| a space without a manager | `lib/core/userworkspace.py` 194-201: two managers who leave at once each count the other | `SpaceMembership`, 2 sessions, 2 users, 1 workspace, `RoleLevel = {2, 8}`, `Profile = {2, 4}`, `{"add_member", "remove_member"}`: `SpaceHasManager` |
| an event that nobody receives because someone joined | `lib/core/event.py` 513-516: the history of a joining user contains the message of an event whose job still waits, and the job then fails on the primary key | `LiveMessages`, `FairSpec`, 1 request, 1 worker, 2 users, `{"content", "join"}`, jobs, no crash, `MaxEvent = 2`: `EventsReachMembers` |
| the lower of two swapped first messages is dropped | `src/frontend_lib/src/LiveMessageManager.js` 261-264: leftovers are recorded only once a tab has a last id | `LiveMessageStream`, 1 tab, `MaxEvent = 2`, `MaxBroadcast = 0`: `EveryTlmIsDispatched` |
| the current revision is not the newest one | `models/data.py` 1423-1424 relies on the order of ids; the INSERT and the UPDATE of two flushes may interleave | `ContentHistory_mixed.cfg` with `Dialect = "postgresql"`: `CurrentIsNewest` |
| an upload undoes a deletion that commits meanwhile | `lib/core/content.py` 1821: the clone is of the revision loaded | `ContentHistory`, `Operation = {"update_file", "delete"}`, `postgresql`: a revision that is not deleted is committed by an upload over a deleted one |
| two contents of one name | `lib/core/content.py` 362-369, no constraint in the database | `ContentTree_sequential.cfg` with two sessions, `Operation = {"create"}`: `UndatedNamesUnique` |
| two contents of one name in one session, one of them trashed | `views/core_api/workspace_controller.py` 635 (see above) | `ContentTree_sequential.cfg`: `FileNamesUnique` |
| a child that is not in the space of its parent | `lib/core/content.py` 441-442: the parent is moved meanwhile | two sessions, `{"create", "move"}`: `ChildrenFollowTheirParent` |
| two publications of one name, one request after the other | the check of a rename looks in the default namespace (`lib/core/content.py` 398, 1792) | one session, `UndatedNamesUnique` without its restriction to the namespace the check looks in |
| a guest who is a manager | `lib/core/userworkspace.py` 168: profile and role are read in two requests that overlap | `SpaceMembership_sequential.cfg` with two sessions, `{"add_member", "update_role", "set_profile"}`: `GuestsAreContributors` (and, for the same reason, `GuestSpacesAreLimited`) |
| a guest in more spaces than the limit | a deleted space does not count and restoring one checks nothing (`lib/core/userworkspace.py` 60, 178) | one session: a state invariant that bounds the spaces of a guest; this is why `GuestSpacesAreLimited` is about the steps by which a guest gains access |
| an event a joining user never sees | `lib/core/event.py` 494-495: history and receivers are each read before the other commits | `LiveMessages_sync.cfg` with two requests: `HistoryIsComplete` |
| a message about a space its receiver has left | `lib/core/event.py` 1198-1211: receivers are read by the job, the leaving user's messages are deleted before it commits | `LiveMessages_async.cfg`: `ContentIsForMembers` |
| an event nobody receives | `lib/core/event.py` 614: pending events are in the memory of the process between commit and enqueue | `LiveMessages_async.cfg`, `EventsReachMembers` without the exemption of `lost` |

In the client:

| Behaviour | Where (`src/`) | Exempted by |
|---|---|---|
| a live message about a comment that is handled while a load is in flight is lost or listed twice; a deletion is ignored while the creation awaits its comment; of two quick modifications of a content the earlier revision never appears | `frontend_lib/src/appContentFactory.js`, the handlers around 987-1040 | `disturbed` |
| a comment or a file that is restored stays out of the timeline until it is loaded again: `content.undeleted` of a child reaches `handleContentModified` only, which returns | `appContentFactory.js` 128, 346-350 | `disturbed` |
| the request a live message's handler makes is refused, or never answered: its item is missing or old, with nothing else under way | `appContentFactory.js`, the handlers of comments, files and revisions | `disturbed` |
| "See more" of A answered after B was opened mixes the timelines; an empty page token reads the first page again | `appContentFactory.js` | `disturbed` |
| a file comment of a content other than the one the application was mounted with is not updated | `appContentFactory.js` 294-315: it compares with `props.data.content` | `FilesOfReloaded` |
| a rejected promise in "See more" leaves `isLoadMoreTimelineInProgress` true for ever | `frontend_app_html-document/src/container/HtmlDocument.jsx` 416-424 | stated of the load only |
| a live message that waited for the flag writes the list it captured over a page loaded meanwhile | `frontend/src/container/withActivity.jsx` 146-189 | `mixed` |
| two loads update the feed at once, though the comment says "no other update is taking place" | `withActivity.jsx` 68-71; `MountFeed` starts two and cancels the last only | `OneUpdateAtATime`, violated in `ActivityFeed_two_spaces.cfg` |
| a rejected request of a live message's handler drops the message: nothing catches it and the message is not handled again | `withActivity.jsx` 160, 179, 212; `WorkspaceRecentActivities.jsx` 77, 82 | `Dropped` |
| such a rejection after the flag was taken leaves it set, and so does the change of a comment of an activity that is not listed, which throws: the feed never changes again | `withActivity.jsx` 149-227, 195-196 | `FlagIsLost` |
| a feed that is gone writes the store | `withActivity.jsx` 149 | `mixed` |
| a note opened before another one was answered: the late answer flips the tab back, and the next load flips it again | `HtmlDocument.jsx` 355-407: no check of the note | `raced` |
| "Validate" looks mentions up, then saves the text into the note that is open by then; a save answered after a switch puts its text on the other note | `HtmlDocument.jsx` 480-523 | `raced` |
| the content a live message tells of is refused: the tab flashes "Unknown content" and goes on showing and editing the old text without the warning | `HtmlDocument.jsx` 167-169, 205-207 | `missed` |
| text typed while a save is in flight is lost when it is answered | `HtmlDocument.jsx` 523 | `overtaken` |
| the warning of A stays when B is opened, and "Refresh?" goes back to A | `HtmlDocument.jsx` 455 | `raced` |
| a change of title sends the text that is displayed: under the warning, on an old revision or with a resumed draft it overwrites the text; saving a text sends the title likewise | `appContentFactory.js` 434-442 | `told`, `raced` |
| an edition begun under the warning, or on a deleted note, has an old base, and saving it overwrites what others wrote | `HtmlDocument.jsx` 667; the server tests no base | `outdated` |
| two pages asked for at once list a notification twice, until something is marked | `frontend/src/container/NotificationWall.jsx` 299-306 does not test `isLoading`; the reducer's append (179-193) has no `uniqBy` | duplicates are allowed |
| after a failed load the wall stays short until its list changes or the user scrolls | `NotificationWall.jsx` 375-379 | `failed` |
| a message that was on its way when it was marked, or whose content a tab was waiting for, is shown as unread, though the server has it read | `NotificationWall.jsx` 339-344; `frontend/src/container/ReduxTlmDispatcher.jsx` 258, 282, 297, 322, 344 | `stale` |
| the notification of a comment that is refused is not added, in that tab only | `ReduxTlmDispatcher.jsx` 254-256, 314-316 | `handled` |
| a notification whose content was refused is not marked when its content is opened | `notificationPage.js`, `ReduxTlmDispatcher.jsx` 246-250 | `known` |
| what is marked from the sidebar is told to no other tab (see above) | `SidebarSpaceItem.jsx` 114 | `marked` |
| a live message of a space whose notifications are off never enters the list, and is missing when they are on again | `frontend/src/reducer/notificationPage.js` 198-199 | `handled` |
| the counters of unread notifications are decremented again at every filtering; a late answer filters with an old configuration | `notificationPage.js` 126-175 | not modelled |

The properties of `tree_sequential` and `members_sequential` are those the
handlers keep one after the other. They are refuted with two sessions, in each
case by the interleaving above, and the runs say what the guards themselves
are worth: every guard is needed (the mutants), and no sequence of requests
gets around them.

## Proofs

`tlapm` proves forty theorems, for every value of the constants that meets the
assumptions named in the modules (`SessionAssumption`, `BoundAssumption`,
`NoneAssumption`...). The bounds `MaxRevision`, `MaxEvent`, `MaxCall`... are
constants too: no proof uses that they are small.

### ContentHistoryProofs

| Theorem | Under | States |
|---|---|---|
| `TypeCorrect` | | `Spec => []TypeOK` |
| `PatchedFileIsTheBase` | | `Spec => []PatchIsOfItsBase`, whatever the dialect, locks enabled or not |
| `PatchesAreExclusive` | `LockInUse` | `Spec => []OnePatchPerBase`, with all other operations |
| `PatchesMakeAChain` | `LockInUse`, patches only | `Spec => HistoryIsAChain` |
| `PatchesReplaceTheirBase` | `LockInUse`, patches only | `Spec => PatchReplacesItsBase` |
| `SQLiteKeepsIdOrder` | SQLite | `Spec => []CurrentIsNewest` |

None of these invariants is inductive. The strengthening is a conjunction of
named parts, each of which is used by the next ones:

- `TypeInv`: the types, and what a request holds at each of its steps
  (`RequestShape`: a loaded request has a view, a pending one a new revision
  cloned from it).
- `IdInv`: ids of committed and of inserted revisions are below `nextId`, and
  those of inserted ones are used nowhere else. With SQLite an id comes back after a rollback; it is unique
  because a session that has inserted owns all the rows until it ends.
- `LockInv`: where locks are in use, a session holds the lock of its content
  and base from the first step of its patch to the last, and it has no other
  holder.
- `BaseInv`: the base of a patch is a committed revision, and where a loaded
  request would pass check 2, its view is its base. This is the delicate part
  of `apply_patch`, which compares an id read after the content: an id becomes
  current only when its revision is committed, which the base was when the
  request began, so a base that is current at check 2 was current when the
  content was loaded.
- `PatchInv`: a base that has a committed patch is not current any more, and no
  committed patch has the base of a request past its check.
- `ChainInv`: with patches alone, the current revision cannot change while a
  patch is past its check, because a writer that could change it would hold
  the same lock; so every commit is a step of `LinearHistory`.

`SQLiteKeepsIdOrder` does not need the locks: it follows from the single
writer, whose id is the greatest one when it commits.

### ContentTreeProofs

| Theorem | Under | States |
|---|---|---|
| `TypeCorrect` | | `Spec => []TypeOK`, with any number of sessions |
| `NamesAreUnique` | `Alone` | `Spec => []UndatedNamesUnique` |
| `OnlyCreationsClash` | `Alone`, no `create` | `Spec => []FileNamesUnique` |
| `TreeStaysATree` | `Alone` | `Spec => []TreeHasNoCycle` |
| `ChildrenStayWithTheirParent` | `Alone` | `Spec => []ChildrenFollowTheirParent` |

For any number of contents, names and workspaces. `Descendants` and `Moved` are
least sets closed under a rule, which is what the recursive queries compute, so
that no induction is needed: what holds of a closed set that is named holds of
the least one (`DescendantsAreLeast`, `MovedIsLeast`), and the least one is
closed itself. That a content is not under itself after a step is shown by a
closed set without it (`StaysOut`): its descendants, those of what was created
or moved beside it, or none.

`Alone` says that there is one session. As in `SpaceMembershipProofs` the
strengthening says what a request that has checked knows: `PlanInv`, that its
writes are a creation, a change of one content that keeps its place, or a move,
with the guards of each still true. For names, `NamesKept` says that two
contents of a folder have one name only if it may clash (`MayClash`: it bears a
date, and `create` is an operation). A creation does not look at trashed
contents; `TrashedAreDated` says that each of them has a dated name, so that a
name without a date meets none of them. Every other operation looks at all
contents, trashed ones included. For a move, the names of what is moved are compared with all
that stays by `NameAvailable` and among themselves by the last guard; a content
that stays below one that was moved was already in the target space and
namespace, since `Moved` is closed.

### LiveMessagesProofs

| Theorem | Under | States |
|---|---|---|
| `TypeCorrect` | | `Spec => []TypeOK`, in both modes, with any number of requests and workers, deaths included |
| `ContentStaysWithMembers` | `SyncAlone` | `Spec => []ContentIsForMembers` |
| `MembersHaveTheHistory` | `SyncAlone` | `Spec => []HistoryIsComplete` |
| `NoKeyIsTaken` | `SyncAlone` | `Spec => []NoIntegrityError` |

`TypeOK` contains the foreign key of messages to events. `SyncAlone` is
synchronous publishing and one request at a time; the table above says what
happens otherwise. The two properties need each other's mechanism: what a
joining user gets and a leaving one loses is computed when the request flushes,
and the messages of the new events when it publishes. `Plan` says what each of
the three parts is in terms of the committed state, and `EventInv` that an id
belongs to one event, so that a message of a new event is never that of an old
one.

### TabsProofs

`LiveMessageStream` and `NotificationWall` are both about the tabs of one
browser; their proofs share this module. The wall's specification is `WallSpec`.

| Theorem | Under | States |
|---|---|---|
| `StreamTypeCorrect` | | `Spec => []TypeOK` |
| `NeverDispatchedTwice` | | `Spec => []DispatchedOnce` |
| `SkippedIdsAreKept` | | `Spec => []NothingMissedIsForgotten` |
| `ReconnectionCatchesUp` | | `Spec => []CaughtUp` |
| `NothingIsMissing` | `NoneIsNoCall` | `WallSpec => []NothingMissing` |
| `MarksAreShownEverywhere` | `NoneIsNoCall` | `WallSpec => []MarksReachEveryTab` |
| `WallsAreFilled` | `NoneIsNoCall` | `WallSpec => []WallIsFilled` |

The stream. The invariant of a tab (`TabInv`) says that what it dispatched was dispatched
once, is not above its last id and not among its leftovers (`KnownOnce`), that
its last id is dispatched (`LastIsDispatched`), that its leftovers are above an
id it dispatched and below the last one (`LeftoversAreAboveFirst`,
`LeftoversAreBelowLast`), and that every id in between is dispatched or a
leftover (`NothingMissedIsForgotten`, itself the property). `ConnectionInv`
says that the leader has dispatched everything above its first id up to the
one its connection asked from. `CaughtUp` follows: what is committed is either
not above that id, hence dispatched, or in the answer; and what is taken from
the answer is dispatched.

The wall, for any number of tabs, messages, calls and marks, any page size and
window. `NoneIsNoCall` says that `None` is neither a call nor a page. The list is sorted by event and its duplicates are dropped; as for the recent
activities the model says what this returns by ranks (`PlaceOf`, `PickedFrom`),
and the first lemmas say what that is: all that was picked, in order, each once
(`RanksOfAnOrder`, `PickedAreListed`, `SortReorders`, `UniqListed`). Three
invariants, above the types (`WallTypes`):

- `PagesInv`, for `NothingMissing`. A tab's list has every live message it added,
  and every stored one down to its next page (`HasAll`). The first page is
  asked for alone, and a later one only from a token above which the list is
  complete (`TabPages`); an answered page has everything below the token it was
  asked with (`Covers`). So a page that is asked for twice, or that is answered
  late, leaves no hole.
- `MarksInv`, for `MarksReachEveryTab`. Of a message that is read on the server
  nothing is on its way to a tab that would show it as unread, except what
  `stale` excuses: no live message, no handler that waits for its content, no
  answered page (`CallsShowRead`, `NotTold`). It stays so, because a message is
  sent once and before it can be read. What a tab was told to mark is shown as
  read, or the mark is on its way to it (`MarkReaches`); what is added meanwhile
  is not among it, whatever the order of the channels. `MarkCallsInv` says of a
  mark that the server has answered that it selects all it covers
  (`MarkIsTold`).
- `FilledInv`, for `WallIsFilled`. A rendering that leaves the list shorter than
  the window, with a page left, asks for that page in the same step; only a
  failed load leaves it short, which `failed` excuses.

### SpaceMembershipProofs

| Theorem | Under | States |
|---|---|---|
| `TypeCorrect` | | `Spec => []TypeOK`, with any number of sessions |
| `SpacesKeepAManager` | `Alone` | `Spec => []SpaceHasManager` |
| `GuestsOnlyContribute` | `Alone` | `Spec => []GuestsAreContributors` |
| `GuestsGainNoMoreThanTheLimit` | `Alone`, finitely many spaces, a limit that is a number | `Spec => GuestSpacesAreLimited` |

`Alone` says that there is one session: with two, `SpaceHasManager` and
`GuestsAreContributors` are false. A
request checks its guards in one step and commits in another, so the property
is not inductive: the strengthening says what the plan of a request that has
checked knows of the committed roles. `PlansAreSafe`: the plan leaves each
space a manager and raises no guest above contributor; nothing can have changed
since, because the session is alone. `PlansAreLimited`: what the plan adds for
a guest is one more space, and the count of spaces he is in is still below the
limit. The count needs cardinalities of finite sets, hence the assumption.

### TimelineProofs

| Theorem | States |
|---|---|
| `TypeCorrect` | `Spec => []TypeOK` |
| `LoadingEndsWithTheLoad` | `Spec => []LoadingIsUnderWay` |
| `TimelineIsRight` | `Spec => []UndisturbedAreRight` |
| `NothingIsHidden` | `Spec => []NothingHiddenAtTheEnd` |

For any number of items, messages, calls and any page size, whatever is
refused, lost or late. The sorts are by ranks again (`Place`, `Ascending`):
what a sort returns has the same elements (`SortReorders`), and a list is
spoken of by what it has of a whole, in its order (`PartOf`, `Alike`). Three
invariants, each proved with the ones before:

- `Inv`, who is under way. A step that removes a call or adds one keeps the
  others (`CallRemoved`, `CallAdded`, `CallAnswered`), and the flag that is
  cleared with any load may only be set while one is there. It is the reason
  for which every way in which a load ends, refused and rejected included,
  clears the flag.
- `TypeInv`, what items, messages, lists and calls hold. Of an item that was
  told, the text is the current one or another change will be told (`TlmsInv`);
  what is displayed is a part of the whole timeline (`ListsInv`); an answer to a
  load is a page (`IsPage` in `CallsInv`).
- `RightInv`, which speaks of each item that is not `disturbed`: nothing
  overlapped about it, no request of its own failed, and it was not restored.
  While its
  creation waits to be told it is in no list and below no token (`FreshInv`).
  After that (`KnownInv`) at most one call is about it (`AtMostOne`), what lists
  show of it is right or will be put right (`ShownInv`), and so is what a call
  will bring (`SingleInv`, `PageInv`). Most steps leave most items as they are,
  and such an item stays right (`Same`, `SameStaysRight`); each action needs a
  proof only for the item it is about.

`NothingIsHidden` follows from the three with `PartIsWhole`: what is displayed is
a part of the whole timeline, and a part that has as many elements is all of it.

### ActivityFeedProofs

| Theorem | States |
|---|---|
| `TypeCorrect` | `Spec => []TypeOK` |
| `TheFlagIsGivenBack` | `Spec => []FlagIsHeld` |
| `NothingIsListedTwice` | `Spec => []NoDuplicate` |
| `NoOtherSpaceIsBrought` | `Spec => LoadsBringTheirSpace` |
| `TheFeedIsRight` | `Spec => []FeedIsRight` |

For any number of visits, spaces, calls and messages. All are under
`NoneIsNoCall`: `None` is not a record with a phase.

The feed's lists are sorted, cut to a page and merged with what is known
already. The model says what these operations return by ranks (an activity's
place is the number of those that are newer, `Place`), not by a recursion, and
the first lemmas say that this is a list: of finitely many items in a strict
order the ranks are `1..n` (`RanksOfAnOrder`, by cardinalities), so what a sort
returns has every item once (`SortReorders`), a page is the newest items and what it leaves is
older (`NewestFirstLists`, `NewestAreNewer`), and a merge names no content
twice (`MergeLists`).

Three invariants, each proved with the ones before:

- `Inv`, who is under way. The flag of the mounted feed is set and cleared by
  each load and each live message on its own account, so the property holds
  because every way out of a phase in which a call holds the flag (an answer, a
  failed or cancelled load, the end of a batch) clears it or keeps the call in
  such a phase; but for a live message's handler that is rejected, which
  `FlagIsLost` names. `CallsInv` keeps each call the call of one feed, of a kind that
  does not change, and `MountedInv` ties the load that an unmounting would
  cancel to a call that is under way.
- `ListsInv`, what lists hold: the store's, those that loads go on from, those
  that answers carry and those that live messages captured name each content
  once, with a message of it, and a page with nothing older left has the first
  token (`IsPage`).
- `RightAll`, which messages they cover. `Covers` says of a list and a token
  that the messages known of the space from the token on are listed and that
  nothing listed is older than a message of its content. `Known` are the
  messages received, but for those a rejected handler has dropped and those a
  handler is busy with. Until such a handler is overtaken, or a feed that is gone
  writes the store, the store's list covers what is known, as does every list a
  load is about to bring (`RightInv`). `WaitInv` and `PromiseInv`
  are the reason why two loads may overlap: of the two loads that a new
  feed starts, the one before is cancelled and brings nothing.

### NoteEditingProofs

| Theorem | States |
|---|---|
| `TypeCorrect` | `Spec => []TypeOK` |
| `DraftKeepsWhatWasTyped` | `Spec => []NothingTypedIsLost` |
| `EditorKeepsWhatWasTyped` | `Spec => []EditorHoldsWhatWasTyped` |
| `WhatIsShownIsCurrentOrAnnounced` | `Spec => []ShownOrNoticed` |
| `TheTabFollows` | `Spec => []ShownInv` |

For any number of notes, revisions, texts and calls. `TypeInv` adds to the
types what calls hold at each stage. Draft and editor hold each other up: the
editor is filled from the draft, and the draft is written from the editor and
removed by a save. So the invariant has both (`EditorInv`, which speaks of
every mode, because the editor keeps its text while a revision is shown) and
`SaveInv`: a save under way is of what was typed last or was saved already, and
once the server has saved it nothing is left unsaved. A draft that is removed
when the save is answered is then one that is not needed.

`ShownOrNoticed` is about a tab at rest, none of whose live messages was refused
its content (`missed`), and what it shows was put there by
handlers that ran in an order nobody chose. The invariant `ShownInv` says what
holds in between: `told` is the newest revision the tab knows of, and the text,
the text an edition starts from and the marks of deletion, that of the note a
warning offers included, agree with it, unless something that will set each of them right is
still to come: a message that waits, or a call that reads it (`RawInv`,
`TextInv`, `NewInv`, `DeletedInv`). It rests on three facts about what is under
way: messages arrive in the order of revisions (`TlmsInv`), a text that no
waiting message is about is the text of every later revision (`TextsInv`), and
an answer is a revision as it was (`AnswersInv`); and on `OneNote`, that until
something is overtaken the calls are all about the note that is open.

### What is only model-checked

`LocksAreReleased` and `EventsReachMembers` are liveness properties under
fairness, out of this prover's reach: TLC checks them on the instances above.
Every other property of a passing run is a theorem, the properties refuted with
two sessions or requests under the assumption that there is one.

## Plan

Done: the revision history with its abstract specification, the tree, the
membership of spaces, events and messages, the stream; in the client the
timeline, the recent activities, the editing of notes and the notification wall;
proofs about all of them.

Next, the most important first:

1. `LiveMessageDelivery`: a composition of `LiveMessages` and
   `LiveMessageStream`, with an abstract specification (a user's tab
   dispatches exactly the messages of the events it may see, each at most once
   and, while it stays connected and nothing is lost, eventually).
2. `ConnectionMonitor` (`lib/user_connection_state_monitor/monitor.py`
   48-154): statistics of the proxy, the pending disconnections, the restart of
   the daemon; a user who reconnects before the delay stays online, and one who
   does not goes offline, once.
3. `UserCall` (`lib/core/call.py` 33-45): the transitions of a call by two
   users and the job that ends it, against an abstract automaton; a
   cancellation and an acceptance at once are the race to look at.
4. The rest of `ContentHistory`: revert to a revision, copies and permanent
   deletion with the references that must not dangle; read status with its
   primary key; quotas, which two uploads exceed together.
5. `LiveMessageManager`'s life: logout, the whoami request during a
   reconnection, two leaders while an election is under way.
6. The applications that wrap `appContentFactory` in the way of
   `NoteEditing`: files with their uploads
   (`src/frontend_app_file/src/container/File.jsx`), threads and kanbans; the
   gallery.
7. The list of contents of a space
   (`src/frontend/src/container/WorkspaceContent.jsx`): live messages against
   the pages that are being loaded, and moves between opened folders.
8. `DavLocks` (`lib/webdav/`): what a lock of the DAV storage excludes, and
   that it does not exclude the web application.

Theorems still to prove: those of the modules above. Of what is modelled, every
safety and action property that holds is proved.

## Not modelled

The last rows of the inventory. Previews, mail, search, agenda, translation,
plugins and the import commands turn state into files or calls of other
programs and have no state to check; authentication is a chain of lookups; migrations run once, alone. Of the web
client most files render what the API answers; those whose handlers keep a state
over an `await` are modelled, or named in the plan. Within the modelled parts,
the `note` of each component in `PROJECT.json` says what is left out: among it
the numbers of unread notifications, which the reducer keeps beside the list,
and the grouping of rows. Quotas and the number of spaces of a user are read
before the insertion they guard (`lib/core/content.py` 1861,
`lib/core/workspace.py` 89), and callers may leave out the namespace in which a
name is looked for (`lib/core/content.py` 398). Shares,
reactions, tags, favorites, to-dos and mentions are rows whose only invariant is
their primary key. MySQL and MariaDB are covered only as far as the paragraph on
abstractions says.
