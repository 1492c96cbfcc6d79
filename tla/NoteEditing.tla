---------------------------- MODULE NoteEditing ----------------------------
(***************************************************************************)
(* A note open in a browser tab: reading it, editing it with a draft kept  *)
(* in the local storage, saving it, looking at its revisions, refreshing   *)
(* it, while others change it (frontend_app_html-document:                 *)
(* container/HtmlDocument.jsx, component/HtmlDocument.jsx).                *)
(*                                                                         *)
(* A step is what a handler does between two awaits.  A call is a handler  *)
(* that awaits a request, with the answer once the server has given it.    *)
(* A text is a number; conversions between what is shown, edited and sent  *)
(* (mentions, icons of links) leave it what it is.                         *)
(***************************************************************************)
EXTENDS Integers, Sequences

CONSTANTS NumNotes,
          EmptyNotes,   \* the notes that were created without text
          Slot,         \* of the calls under way: bounds their number
          MaxRevision, MaxText, MaxTlm,  \* bounds
          None

ASSUME BoundAssumption ==
    /\ NumNotes \in Nat \ {0} /\ EmptyNotes \subseteq 1..NumNotes /\ Slot # {}
    /\ MaxRevision \in Nat /\ MaxText \in Nat /\ MaxTlm \in Nat

(* The answers that a handler uses: a content that was read, or whether    *)
(* the change was accepted and the revision it has made.  A refusal is of  *)
(* no revision.                                                            *)
Reading == [revision : Nat, text : Nat, deleted : BOOLEAN, created : BOOLEAN]
Verdict == [revision : Nat, saved : BOOLEAN]

ASSUME NoneAssumption ==
    /\ None \notin Nat /\ None \notin [id : Nat, deleted : BOOLEAN]
    /\ None \notin [op : {"load", "modified", "undeleted", "search", "put", "delete"}, note : Nat,
                    mine : BOOLEAN, text : Nat, answer : Reading \cup Verdict \cup {None}]

Note == 1..NumNotes
Text == Nat   \* 0 is the empty text

VARIABLES
    revisions,  \* server: every revision of every note, in order
    texts,      \* texts written so far
    tlms,       \* live messages received by the tab and not handled yet
    opened,     \* the note the user has opened last
    content, newContent, rawContentBeforeEdit, mode,
    showRefreshWarning, loadingContent,
    textToEdit, \* the text of the editor
    draft,      \* local storage: the raw content of each note
    calls,
    told,       \* history: the newest revision of the note that is open the tab knows of
    unsaved,    \* history: what was typed last, and neither saved nor cancelled
    overtaken,  \* history: notes typed in during a save, or whose editor was reset
    raced,      \* history: a handler was overtaken by another (see below)
    outdated,   \* history: an edition began on an old text (see below)
    missed      \* history: the content a live message tells of was not given, and the
                \* note was not opened again since

serverVars == <<revisions, texts>>
noteVars == <<content, mode, loadingContent, textToEdit>>
newVars == <<newContent, rawContentBeforeEdit, showRefreshWarning>>
draftVars == <<draft, unsaved, overtaken>>
raceVars == <<told, raced, outdated, missed>>
vars == <<serverVars, tlms, opened, noteVars, newVars, draftVars, calls, raceVars>>

Current(n) ==
    CHOOSE r \in DOMAIN revisions :
        /\ revisions[r].note = n
        /\ \A q \in DOMAIN revisions : revisions[q].note = n => q <= r
CurrentText(n) == revisions[Current(n)].text
IsDeleted(n) == revisions[Current(n)].deleted

Call(op, n, mine, text) ==
    [op |-> op, note |-> n, mine |-> mine, text |-> text, answer |-> None]
IsFree(s) == calls[s] = None
Idle == \A s \in Slot : calls[s] = None

Init ==
    /\ revisions = [n \in Note |-> [note |-> n, text |-> IF n \in EmptyNotes THEN 0 ELSE n,
                                    deleted |-> FALSE]]
    /\ texts = NumNotes
    /\ tlms = <<>>
    /\ opened = 1
    /\ content = [id |-> 1, text |-> 0, deleted |-> FALSE]
    /\ newContent = None /\ rawContentBeforeEdit = 0
    /\ mode = "view" /\ showRefreshWarning = FALSE /\ loadingContent = TRUE
    /\ textToEdit = 0
    /\ draft = [n \in Note |-> None]
    /\ \E first \in Slot :
          calls = [s \in Slot |-> IF s = first THEN Call("load", 1, FALSE, 0) ELSE None]
    /\ told = 0
    /\ unsaved = [n \in Note |-> None]
    /\ overtaken = {}
    /\ raced = FALSE
    /\ outdated = FALSE
    /\ missed = FALSE

-----------------------------------------------------------------------------
(* The server makes a revision and publishes its TLM.                      *)
Revise(n, text, deleted, event, mine) ==
    /\ Len(revisions) < MaxRevision /\ Len(tlms) < MaxTlm
    /\ revisions' = Append(revisions, [note |-> n, text |-> text, deleted |-> deleted])
    /\ tlms' = Append(tlms, [event |-> event, note |-> n, mine |-> mine,
                             revision |-> Len(revisions) + 1])

(* The status, or the title from a tab that shows the current text.        *)
KeepText(n, mine) ==
    /\ ~IsDeleted(n)
    /\ Revise(n, CurrentText(n), FALSE, "modified", mine)
    /\ UNCHANGED texts

Restore(n, mine) ==
    /\ IsDeleted(n)
    /\ Revise(n, CurrentText(n), FALSE, "undeleted", mine)
    /\ UNCHANGED texts

OthersSave(n) ==
    /\ ~IsDeleted(n) /\ texts < MaxText
    /\ texts' = texts + 1
    /\ Revise(n, texts + 1, FALSE, "modified", FALSE)

OthersDelete(n) ==
    /\ ~IsDeleted(n)
    /\ Revise(n, CurrentText(n), TRUE, "deleted", FALSE)
    /\ UNCHANGED texts

OthersAct(n) ==
    /\ OthersSave(n) \/ KeepText(n, FALSE) \/ OthersDelete(n) \/ Restore(n, FALSE)
    /\ UNCHANGED <<opened, noteVars, newVars, draftVars, calls, raceVars>>

-----------------------------------------------------------------------------
(* What a handler leaves on the screen: componentDidUpdate loads the note  *)
(* when its id has changed; the editor takes the text when it has changed, *)
(* or when it is mounted again after a load.                               *)
Display(s, shown, newMode, loading) ==
    /\ content' = shown
    /\ textToEdit' = IF loadingContent \/ shown.text # content.text THEN shown.text ELSE textToEdit
    /\ IF shown.id # content.id
       THEN /\ mode' = "view" /\ loadingContent' = TRUE
            /\ calls' = [calls EXCEPT ![s] = Call("load", shown.id, FALSE, 0)]
       ELSE /\ mode' = newMode /\ loadingContent' = loading
            /\ calls' = [calls EXCEPT ![s] = None]

Keep(s) ==
    /\ calls' = [calls EXCEPT ![s] = None]
    /\ UNCHANGED noteVars

(* The text the user was editing is replaced in the editor.                *)
Overtakes(shown) ==
    overtaken' = IF mode = "edit" /\ shown.text # content.text THEN overtaken \cup {content.id}
                 ELSE overtaken

(* An answer is used: late, when the tab knows of a newer revision.        *)
Uses(call) ==
    /\ told' = IF call.answer.revision > told THEN call.answer.revision ELSE told
    /\ raced' = (raced \/ call.answer.revision < told)

Answered(s) == calls[s] # None /\ calls[s].answer # None
Given(call) == call.answer.revision # 0
Shown(call) == [id |-> call.note, text |-> call.answer.text, deleted |-> call.answer.deleted]

-----------------------------------------------------------------------------
(* Live messages.                                                          *)
IgnoreTlm(tlm) ==
    /\ tlm.note # content.id
    /\ UNCHANGED <<calls, content, newContent, showRefreshWarning, told>>

Told(tlm) ==
    /\ tlm.note = content.id
    /\ told' = IF tlm.revision > told THEN tlm.revision ELSE told

(* handleContentModified and handleContentRestore ask for the content.     *)
AskForContent(s, tlm) ==
    /\ tlm.event \in {"modified", "undeleted"}
    /\ Told(tlm)
    /\ calls' = [calls EXCEPT ![s] = Call(tlm.event, tlm.note, tlm.mine, 0)]
    /\ UNCHANGED <<content, newContent, showRefreshWarning>>

\* Mutant: the deletion by another user is not told.
DeletedSilently(tlm) ==
    /\ tlm.event = "deleted"
    /\ Told(tlm)
    /\ content' = IF tlm.mine THEN [content EXCEPT !.deleted = TRUE] ELSE content
    /\ newContent' = [id |-> content.id, deleted |-> TRUE]
    /\ UNCHANGED <<calls, showRefreshWarning>>

\* Mutant: the new version is not kept for "Refresh?".
DeletedWithoutVersion(tlm) ==
    /\ tlm.event = "deleted"
    /\ Told(tlm)
    /\ showRefreshWarning' = ~tlm.mine
    /\ UNCHANGED <<calls, content, newContent>>

HandleContentDeleted(tlm) ==
    /\ tlm.event = "deleted"
    /\ Told(tlm)
    /\ content' = IF tlm.mine THEN [content EXCEPT !.deleted = TRUE] ELSE content
    /\ newContent' = [id |-> content.id, deleted |-> TRUE]
    /\ showRefreshWarning' = ~tlm.mine
    /\ UNCHANGED calls

HandleTlm(s) ==
    /\ IsFree(s) /\ tlms # <<>>
    /\ tlms' = Tail(tlms)
    /\ LET tlm == Head(tlms)
       IN IgnoreTlm(tlm) \/ AskForContent(s, tlm) \/ HandleContentDeleted(tlm)
    /\ UNCHANGED <<serverVars, opened, mode, loadingContent, textToEdit, rawContentBeforeEdit,
                   draftVars, raced, outdated, missed>>

(* After its await: the answer is shown when the change is the tab's own,  *)
(* the others' are announced.                                              *)
HandleContentModified(s) ==
    LET call == calls[s] IN
    /\ Answered(s) /\ call.op = "modified" /\ Given(call)
    /\ IF call.mine THEN Display(s, Shown(call), mode, loadingContent) /\ Overtakes(Shown(call))
                    ELSE Keep(s) /\ UNCHANGED overtaken
    /\ newContent' = [id |-> call.note, deleted |-> call.answer.deleted]
    /\ showRefreshWarning' = ~call.mine
    /\ rawContentBeforeEdit' = call.answer.text
    /\ Uses(call)
    /\ UNCHANGED <<serverVars, tlms, opened, draft, unsaved, outdated, missed>>

HandleContentRestore(s) ==
    LET call == calls[s] IN
    /\ Answered(s) /\ call.op = "undeleted" /\ Given(call)
    /\ IF call.mine THEN Display(s, Shown(call), mode, loadingContent) /\ Overtakes(Shown(call))
                    ELSE Keep(s) /\ UNCHANGED overtaken
    /\ newContent' = [id |-> call.note, deleted |-> call.answer.deleted]
    /\ showRefreshWarning' = ~call.mine
    /\ Uses(call)
    /\ outdated' = (outdated \/ (call.mine /\ mode = "edit"))   \* the base stays the old text
    /\ UNCHANGED <<serverVars, tlms, opened, rawContentBeforeEdit, draft, unsaved, missed>>

(* "Unknown content": with another answer than 200, both handlers leave    *)
(* what is shown, and the warning, as they are.                            *)
HandleUnknownContent(s) ==
    /\ Answered(s) /\ calls[s].op \in {"modified", "undeleted"} /\ ~Given(calls[s])
    /\ Keep(s)
    /\ missed' = TRUE
    /\ UNCHANGED <<serverVars, tlms, opened, newVars, draftVars, told, raced, outdated>>

-----------------------------------------------------------------------------
(* Loading.  A note that was created without text opens in edit mode.  The *)
(* answer is used without a look at its status: the load of a note that is *)
(* open is given it.                                                       *)
ResumeLoad(s) ==
    LET call == calls[s]
        newMode == IF call.answer.created THEN "edit" ELSE "view"
        text == IF call.answer.created /\ draft[call.note] # None THEN draft[call.note]
                ELSE call.answer.text
    IN /\ Answered(s) /\ call.op = "load"
       /\ Display(s, [Shown(call) EXCEPT !.text = text], newMode, FALSE)
       /\ rawContentBeforeEdit' = call.answer.text
       /\ Uses(call)
       /\ UNCHANGED <<serverVars, tlms, opened, newContent, showRefreshWarning, draftVars, outdated,
                      missed>>

(* RELOAD_CONTENT: the content is reset but for its id; the warning and    *)
(* what it is about are not.                                               *)
Open(s, n) ==
    /\ n # content.id /\ IsFree(s)
    /\ opened' = n
    /\ Display(s, [id |-> n, text |-> 0, deleted |-> FALSE], "view", TRUE)
    /\ told' = 0
    /\ raced' = (raced \/ ~Idle \/ showRefreshWarning)
    /\ missed' = FALSE
    /\ UNCHANGED <<serverVars, tlms, newVars, draftVars, outdated>>

-----------------------------------------------------------------------------
(* Editing.                                                                *)
Saving == \E s \in Slot : calls[s] # None /\ calls[s].op \in {"search", "put"}

\* Mutant: the draft is not resumed.
TextToResume == content.text

TextToEdit == IF draft[content.id] # None THEN draft[content.id] ELSE content.text

HandleClickNewVersion ==
    /\ mode = "view" /\ ~loadingContent
    /\ ~content.deleted \/ draft[content.id] # None
    /\ content' = [content EXCEPT !.text = TextToEdit]
    /\ textToEdit' = IF TextToEdit # content.text THEN TextToEdit ELSE textToEdit
    /\ rawContentBeforeEdit' = content.text
    /\ mode' = "edit"
    /\ outdated' = (outdated \/ showRefreshWarning \/ content.deleted)
    /\ UNCHANGED <<serverVars, tlms, opened, newContent, showRefreshWarning, loadingContent,
                   draftVars, calls, told, raced, missed>>

(* updateTextToEdit: every key stroke goes to the local storage.           *)
UpdateTextToEdit ==
    /\ mode = "edit" /\ ~loadingContent /\ texts < MaxText
    /\ texts' = texts + 1
    /\ textToEdit' = texts + 1
    /\ draft' = [draft EXCEPT ![content.id] = texts + 1]
    /\ unsaved' = [unsaved EXCEPT ![content.id] = texts + 1]
    /\ overtaken' = IF Saving THEN overtaken \cup {content.id} ELSE overtaken \ {content.id}
    /\ UNCHANGED <<revisions, tlms, opened, content, mode, loadingContent, newVars, calls, raceVars>>

HandleCloseNewVersion ==
    /\ mode = "edit" /\ ~loadingContent
    /\ content' = [content EXCEPT !.text = rawContentBeforeEdit]
    /\ textToEdit' = IF content.text # rawContentBeforeEdit THEN rawContentBeforeEdit ELSE textToEdit
    /\ mode' = "view"
    /\ draft' = [draft EXCEPT ![content.id] = None]
    /\ unsaved' = [unsaved EXCEPT ![content.id] = None]
    /\ UNCHANGED <<serverVars, tlms, opened, loadingContent, newVars, overtaken, calls, raceVars>>

(* The contents the text refers to are looked up first.                    *)
HandleClickSaveDocument(s) ==
    /\ mode = "edit" /\ ~loadingContent /\ textToEdit # rawContentBeforeEdit
    /\ IsFree(s)
    /\ calls' = [calls EXCEPT ![s] = Call("search", content.id, TRUE, textToEdit)]
    /\ UNCHANGED <<serverVars, tlms, opened, noteVars, newVars, draftVars, raceVars>>

(* handleSaveHtmlDocument sends the text to the note that is open by now.  *)
HandleSaveHtmlDocument(s) ==
    /\ calls[s] # None /\ calls[s].op = "search"
    /\ calls' = [calls EXCEPT ![s] = Call("put", content.id, TRUE, calls[s].text)]
    /\ overtaken' = IF calls[s].note = content.id THEN overtaken
                    ELSE overtaken \cup {content.id}
    /\ UNCHANGED <<serverVars, tlms, opened, noteVars, newVars, draft, unsaved, raceVars>>

(* A mention is of nobody and the user goes back to editing, or the search *)
(* is rejected.                                                            *)
GivesUpSaving(s) ==
    /\ calls[s] # None /\ calls[s].op = "search"
    /\ calls' = [calls EXCEPT ![s] = None]
    /\ UNCHANGED <<serverVars, tlms, opened, noteVars, newVars, draftVars, raceVars>>

\* Mutant: the draft is removed whatever the answer is.
RemoveDraftAnyway(call) ==
    draft' = [draft EXCEPT ![call.note] = None]

RemoveDraft(call) ==
    draft' = IF call.answer.saved THEN [draft EXCEPT ![call.note] = None] ELSE draft

ResumeSave(s) ==
    LET call == calls[s] IN
    /\ Answered(s) /\ call.op = "put"
    /\ RemoveDraft(call)
    /\ IF call.answer.saved
       THEN Display(s, [content EXCEPT !.text = call.text], "view", loadingContent) /\ Uses(call)
       ELSE Keep(s) /\ UNCHANGED <<told, raced>>
    /\ UNCHANGED <<serverVars, tlms, opened, newVars, unsaved, overtaken, outdated, missed>>

-----------------------------------------------------------------------------
(* Revisions, refreshing, title and status, deletion.  A request whose     *)
(* answer the handler does not use is served at once.                      *)
Refresh(s) ==
    /\ IsFree(s)
    /\ Display(s, [id |-> newContent.id, text |-> rawContentBeforeEdit,
                   deleted |-> newContent.deleted], "view", loadingContent)
    /\ showRefreshWarning' = FALSE

HandleClickRefresh(s) ==
    /\ showRefreshWarning /\ ~loadingContent
    /\ Refresh(s)
    /\ UNCHANGED <<serverVars, tlms, opened, newContent, rawContentBeforeEdit, draftVars, raceVars>>

HandleClickLastVersion(s) ==
    /\ mode = "revision" /\ ~loadingContent /\ IsFree(s)
    /\ IF showRefreshWarning THEN Refresh(s)
       ELSE /\ mode' = "view" /\ loadingContent' = TRUE
            /\ calls' = [calls EXCEPT ![s] = Call("load", content.id, FALSE, 0)]
            /\ UNCHANGED <<content, textToEdit, showRefreshWarning>>
    /\ UNCHANGED <<serverVars, tlms, opened, newContent, rawContentBeforeEdit, draftVars, raceVars>>

(* The last revision is the current one (HandleClickLastVersion, or        *)
(* nothing when it is shown).  previousState.is_deleted is undefined.      *)
HandleClickShowRevision(r) ==
    /\ revisions[r].note = content.id /\ ~loadingContent
    /\ r # Current(content.id) \/ mode = "edit"
    /\ content' = [content EXCEPT !.text = revisions[r].text, !.deleted = FALSE]
    /\ textToEdit' = IF content'.text # content.text THEN content'.text ELSE textToEdit
    /\ mode' = "revision"
    /\ raced' = (raced \/ \E s \in Slot : calls[s] # None /\ calls[s].op = "delete")
    /\ UNCHANGED <<serverVars, tlms, opened, loadingContent, newVars, draftVars, calls, told, outdated,
                   missed>>

HandleChangeStatus ==
    /\ ~content.deleted /\ ~loadingContent
    /\ KeepText(content.id, TRUE)
    /\ UNCHANGED <<opened, noteVars, newVars, draftVars, calls, raceVars>>

(* The title is sent with the text that is displayed.                      *)
HandleSaveEditTitle ==
    /\ ~content.deleted /\ ~loadingContent /\ ~IsDeleted(content.id)
    /\ Revise(content.id, content.text, FALSE, "modified", TRUE)
    /\ UNCHANGED <<texts, opened, noteVars, newVars, draftVars, calls, raceVars>>

HandleClickRestoreDelete ==
    /\ content.deleted /\ ~loadingContent
    /\ Restore(content.id, TRUE)
    /\ UNCHANGED <<opened, noteVars, newVars, draftVars, calls, raceVars>>

HandleClickDelete(s) ==
    /\ mode # "revision" /\ ~content.deleted /\ ~loadingContent /\ IsFree(s)
    /\ calls' = [calls EXCEPT ![s] = Call("delete", content.id, TRUE, 0)]
    /\ UNCHANGED <<serverVars, tlms, opened, noteVars, newVars, draftVars, raceVars>>

ResumeDelete(s) ==
    /\ Answered(s) /\ calls[s].op = "delete"
    /\ calls' = [calls EXCEPT ![s] = None]
    /\ mode' = IF calls[s].answer.saved THEN "view" ELSE mode
    /\ raced' = (raced \/ mode = "edit")   \* the draft stays displayed
    /\ UNCHANGED <<serverVars, tlms, opened, content, loadingContent, textToEdit, newVars, draftVars,
                   told, outdated, missed>>

-----------------------------------------------------------------------------
(* The server's answers.                                                   *)
Asks(s, ops) == calls[s] # None /\ calls[s].answer = None /\ calls[s].op \in ops

Reads(s) ==
    /\ Asks(s, {"load", "modified", "undeleted"})
    /\ LET n == calls[s].note
           created == CurrentText(n) = 0 /\ \A r \in DOMAIN revisions :
                                               revisions[r].note = n => r = Current(n)
       IN calls' = [calls EXCEPT ![s].answer =
                      [revision |-> Current(n), text |-> CurrentText(n), deleted |-> IsDeleted(n),
                       created |-> created]]
    /\ UNCHANGED <<revisions, tlms, unsaved>>

Saves(s) ==
    /\ Asks(s, {"put"})
    /\ LET call == calls[s] IN
        /\ ~IsDeleted(call.note)
        /\ Revise(call.note, call.text, FALSE, "modified", TRUE)
        /\ unsaved' = [n \in Note |-> IF unsaved[n] = call.text THEN None ELSE unsaved[n]]
        /\ calls' = [calls EXCEPT ![s].answer = [revision |-> Len(revisions) + 1, saved |-> TRUE]]

Deletes(s) ==
    /\ Asks(s, {"delete"}) /\ ~IsDeleted(calls[s].note)
    /\ Revise(calls[s].note, CurrentText(calls[s].note), TRUE, "deleted", TRUE)
    /\ calls' = [calls EXCEPT ![s].answer = [revision |-> Len(revisions) + 1, saved |-> TRUE]]
    /\ UNCHANGED unsaved

(* A deleted note is not editable; a save that changes neither the text    *)
(* nor the title, which the others may have changed, is refused.           *)
Refuses(s) ==
    /\ Asks(s, {"put", "delete"})
    /\ \/ IsDeleted(calls[s].note)
       \/ calls[s].op = "put" /\ calls[s].text = CurrentText(calls[s].note)
    /\ calls' = [calls EXCEPT ![s].answer = [revision |-> 0, saved |-> FALSE]]
    /\ UNCHANGED <<revisions, tlms, unsaved>>

(* A read may be refused at any time: the session has ended, the user has  *)
(* left the space, the server fails.                                       *)
RefusesToRead(s) ==
    /\ Asks(s, {"modified", "undeleted"})
    /\ calls' = [calls EXCEPT ![s].answer =
                   [revision |-> 0, text |-> 0, deleted |-> FALSE, created |-> FALSE]]
    /\ UNCHANGED <<revisions, tlms, unsaved>>

ServerAnswers(s) ==
    /\ Reads(s) \/ RefusesToRead(s) \/ Saves(s) \/ Deletes(s) \/ Refuses(s)
    /\ UNCHANGED <<texts, opened, noteVars, newVars, draft, overtaken, raceVars>>

Next ==
    \/ \E n \in Note : OthersAct(n)
    \/ HandleClickNewVersion \/ UpdateTextToEdit \/ HandleCloseNewVersion
    \/ HandleChangeStatus \/ HandleSaveEditTitle \/ HandleClickRestoreDelete
    \/ \E r \in DOMAIN revisions : HandleClickShowRevision(r)
    \/ \E s \in Slot :
        \/ HandleTlm(s)
        \/ HandleContentModified(s) \/ HandleContentRestore(s) \/ HandleUnknownContent(s)
        \/ ResumeLoad(s) \/ \E n \in Note : Open(s, n)
        \/ HandleClickSaveDocument(s) \/ HandleSaveHtmlDocument(s) \/ GivesUpSaving(s)
        \/ ResumeSave(s)
        \/ HandleClickRefresh(s) \/ HandleClickLastVersion(s)
        \/ HandleClickDelete(s) \/ ResumeDelete(s)
        \/ ServerAnswers(s)

Spec == Init /\ [][Next]_vars

-----------------------------------------------------------------------------
(* The state is well formed.                                               *)
TypeOK ==
    /\ content \in [id : Note, text : Text, deleted : BOOLEAN]
    /\ newContent \in [id : Note, deleted : BOOLEAN] \cup {None}
    /\ rawContentBeforeEdit \in Text /\ textToEdit \in Text
    /\ mode \in {"view", "edit", "revision"}
    /\ showRefreshWarning \in BOOLEAN /\ loadingContent \in BOOLEAN
    /\ draft \in [Note -> Text \cup {None}]
    /\ showRefreshWarning => newContent # None

(* What the user has typed in a note and neither saved nor cancelled is    *)
(* the draft of the note, through refused saves, saves that end after      *)
(* another note was opened, reloads and changes by others.  It may be lost *)
(* when it was typed while a save was under way, and when a handler had    *)
(* reset the editor.                                                       *)
NothingTypedIsLost ==
    \A n \in Note \ overtaken : unsaved[n] # None => draft[n] = unsaved[n]

(* The editor holds what the user has typed, also once the draft is        *)
(* resumed.                                                                *)
EditorHoldsWhatWasTyped ==
    mode = "edit" /\ ~loadingContent /\ content.id \notin overtaken /\ unsaved[content.id] # None =>
        textToEdit = unsaved[content.id]

Quiet == Idle /\ tlms = <<>> /\ mode # "revision"
Base == IF mode = "edit" THEN rawContentBeforeEdit ELSE content.text

(* When nothing is under way, the note that was opened last is shown as it *)
(* is on the server, or the warning is: a text is never edited from an old *)
(* base without notice.  It may be otherwise once a handler was overtaken, *)
(* an edition began under the warning or on a deleted note, the note was   *)
(* restored from the tab while it was edited or, for the text, the note is *)
(* deleted.  It may also be otherwise from the moment when the content     *)
(* that a live message tells of was refused to the tab, until another note *)
(* is opened: the handlers only flash "Unknown content", and the old text  *)
(* is shown and edited without the warning.                                *)
ShownOrNoticed ==
    Quiet /\ ~raced /\ ~outdated /\ ~missed =>
        /\ content.id = opened
        /\ \/ showRefreshWarning
           \/ content.deleted /\ IsDeleted(opened)
           \/ Base = CurrentText(opened) /\ ~content.deleted /\ ~IsDeleted(opened)

(* "should update content state": what a click on "Refresh?" shows is the  *)
(* current version.                                                        *)
RefreshBringsCurrent ==
    [][(\E s \in Slot : HandleClickRefresh(s)) /\ Idle /\ tlms = <<>> /\ ~raced /\ ~missed =>
          content'.text = CurrentText(opened)]_vars
=============================================================================
