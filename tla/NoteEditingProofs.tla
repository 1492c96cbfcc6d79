------------------------- MODULE NoteEditingProofs -------------------------
(***************************************************************************)
(* Proofs about NoteEditing: the state is well formed, what the user has   *)
(* typed is neither lost from the draft nor replaced in the editor, and    *)
(* what is shown is the note as it is on the server, or announced as not.  *)
(***************************************************************************)
EXTENDS NoteEditing, SequenceTheorems, TLAPS

CallOf(ops, answers) ==
    [op : ops, note : Note, mine : BOOLEAN, text : Nat, answer : answers \cup {None}]
Calls == CallOf({"load", "modified", "undeleted"}, Reading) \cup
         CallOf({"put", "delete"}, Verdict) \cup CallOf({"search"}, {})

Revision == [note : Note, text : Nat, deleted : BOOLEAN]
Tlm == [event : {"modified", "undeleted", "deleted"}, note : Note, mine : BOOLEAN, revision : Nat]
Content == [id : Note, text : Nat, deleted : BOOLEAN]
Mode == {"view", "edit", "revision"}

IsCurrent(n, r) ==
    /\ revisions[r].note = n
    /\ \A q \in DOMAIN revisions : revisions[q].note = n => q <= r

(* Every note has a newest revision, so that CHOOSE finds it.              *)
ServerInv ==
    /\ revisions \in Seq(Revision)
    /\ \A n \in Note : \E r \in DOMAIN revisions : IsCurrent(n, r)
    /\ texts \in Nat
    /\ tlms \in Seq(Tlm)

(* TypeOK with the variables it leaves out.                                *)
TypeInv ==
    /\ ServerInv
    /\ calls \in [Slot -> Calls \cup {None}]
    /\ unsaved \in [Note -> Text \cup {None}]
    /\ overtaken \subseteq Note
    /\ TypeOK

(* The editor holds what was typed as soon as its text is the draft, in    *)
(* every mode: it does not take a text that has not changed.               *)
EditorInv ==
    /\ ~loadingContent
    /\ content.id \notin overtaken
    /\ unsaved[content.id] # None
    /\ mode = "edit" \/ content.text = unsaved[content.id]
    => textToEdit = unsaved[content.id]

(* A save under way is of what was typed last, or that was saved already.  *)
SaveInv ==
    \A s \in Slot : calls[s] # None /\ calls[s].note \notin overtaken =>
        /\ calls[s].op \in {"search", "put"} /\ calls[s].answer = None =>
              unsaved[calls[s].note] \in {None, calls[s].text}
        /\ calls[s].op = "put" /\ calls[s].answer # None /\ calls[s].answer.saved =>
              unsaved[calls[s].note] = None

Inv == TypeInv /\ NothingTypedIsLost /\ EditorInv /\ SaveInv

-----------------------------------------------------------------------------
(* Every note has a current revision, of the type of a revision.           *)
LEMMA CurrentType ==
    ASSUME ServerInv, NEW n \in Note
    PROVE  /\ Current(n) \in DOMAIN revisions /\ Current(n) \in Nat
           /\ CurrentText(n) \in Nat /\ IsDeleted(n) \in BOOLEAN
<1>1. DOMAIN revisions = 1..Len(revisions) /\ Len(revisions) \in Nat
      BY LenProperties DEF ServerInv
<1>2. \E r \in DOMAIN revisions : IsCurrent(n, r)
      BY DEF ServerInv
<1>3. Current(n) \in DOMAIN revisions
      BY <1>2 DEF Current, IsCurrent
<1>4. revisions[Current(n)] \in Revision
      BY <1>1, <1>3, ElementOfSeq DEF ServerInv
<1>5. QED BY <1>1, <1>3, <1>4 DEF CurrentText, IsDeleted, Revision

(* A new revision is the current one of its note, and of no other.         *)
LEMMA ReviseKeepsServer ==
    ASSUME ServerInv, NEW n \in Note, NEW text \in Nat, NEW deleted \in BOOLEAN,
           NEW event \in {"modified", "undeleted", "deleted"}, NEW mine \in BOOLEAN,
           Revise(n, text, deleted, event, mine), texts' \in Nat
    PROVE  ServerInv'
<1> DEFINE new == [note |-> n, text |-> text, deleted |-> deleted]
           last == Len(revisions) + 1
<1>1. /\ Len(revisions) \in Nat /\ DOMAIN revisions = 1..Len(revisions)
      /\ \A r \in DOMAIN revisions : revisions[r] \in Revision
      BY LenProperties, ElementOfSeq DEF ServerInv
<1>2. new \in Revision
      BY DEF Revision
<1>3. /\ revisions' \in Seq(Revision) /\ Len(revisions') = last
      /\ \A r \in DOMAIN revisions : revisions'[r] = revisions[r]
      /\ revisions'[last] = new
      BY <1>1, <1>2, AppendProperties DEF ServerInv, Revise
<1>4. DOMAIN revisions' = 1..last
      BY <1>3, LenProperties
<1>5. ASSUME NEW k \in Note
      PROVE  \E r \in DOMAIN revisions' : IsCurrent(k, r)'
      <2>1. CASE k = n
            <3>1. \A q \in DOMAIN revisions' : q <= last
                  BY <1>1, <1>4
            <3>2. last \in DOMAIN revisions' /\ revisions'[last].note = k
                  BY <1>1, <1>3, <1>4, <2>1
            <3>3. QED BY <3>1, <3>2 DEF IsCurrent
      <2>2. CASE k # n
            <3>1. PICK r \in DOMAIN revisions : IsCurrent(k, r)
                  BY DEF ServerInv
            <3>2. \A q \in DOMAIN revisions' :
                    revisions'[q].note = k => q \in DOMAIN revisions /\ revisions[q].note = k
                  BY <1>1, <1>3, <1>4, <2>2
            <3>3. r \in DOMAIN revisions' /\ revisions'[r].note = k
                  BY <1>1, <1>3, <1>4, <3>1 DEF IsCurrent
            <3>4. QED BY <3>1, <3>2, <3>3 DEF IsCurrent
      <2>3. QED BY <2>1, <2>2
<1>6. tlms' \in Seq(Tlm)
      <2>1. [event |-> event, note |-> n, mine |-> mine, revision |-> last] \in Tlm
            BY <1>1 DEF Tlm
      <2>2. QED BY <2>1, AppendProperties DEF ServerInv, Revise
<1>7. QED BY <1>3, <1>5, <1>6 DEF ServerInv

(* What a call that is answered holds.                                     *)
LEMMA CallType ==
    ASSUME TypeInv, NEW s \in Slot, calls[s] # None
    PROVE  /\ calls[s] \in Calls /\ calls[s].note \in Note /\ calls[s].text \in Nat
           /\ calls[s].mine \in BOOLEAN
           /\ Answered(s) /\ calls[s].op \in {"load", "modified", "undeleted"} =>
                 calls[s].answer \in Reading /\ Shown(calls[s]) \in Content
           /\ Answered(s) /\ calls[s].op \in {"put", "delete"} => calls[s].answer \in Verdict
<1>1. calls[s] \in Calls
      BY DEF TypeInv
<1>2. calls[s].note \in Note /\ calls[s].text \in Nat /\ calls[s].mine \in BOOLEAN
      BY <1>1 DEF Calls, CallOf
<1>3. Answered(s) /\ calls[s].op \in {"load", "modified", "undeleted"} =>
          calls[s].answer \in Reading
      BY <1>1 DEF Calls, CallOf, Answered
<1>4. Answered(s) /\ calls[s].op \in {"put", "delete"} => calls[s].answer \in Verdict
      BY <1>1 DEF Calls, CallOf, Answered
<1>5. QED BY <1>1, <1>2, <1>3, <1>4 DEF Reading, Shown, Content

(* Calls as they begin, and once they are answered.                        *)
LEMMA NewCallType ==
    ASSUME NEW n \in Note, NEW mine \in BOOLEAN, NEW text \in Nat,
           NEW op \in {"load", "modified", "undeleted", "put", "delete", "search"}
    PROVE  Call(op, n, mine, text) \in Calls
BY DEF Call, Calls, CallOf

LEMMA AnswerType ==
    ASSUME NEW call \in Calls, NEW answer,
           \/ call.op \in {"load", "modified", "undeleted"} /\ answer \in Reading
           \/ call.op \in {"put", "delete"} /\ answer \in Verdict
    PROVE  [call EXCEPT !.answer = answer] \in Calls
BY DEF Calls, CallOf

LEMMA DisplayType ==
    ASSUME TypeInv, NEW s \in Slot, NEW shown \in Content, NEW newMode \in Mode,
           NEW loading \in BOOLEAN, Display(s, shown, newMode, loading)
    PROVE  /\ content' \in Content /\ textToEdit' \in Nat
           /\ mode' \in Mode /\ loadingContent' \in BOOLEAN
           /\ calls' \in [Slot -> Calls \cup {None}]
<1>1. shown.id \in Note /\ shown.text \in Nat
      BY DEF Content
<1>2. Call("load", shown.id, FALSE, 0) \in Calls
      BY <1>1, NewCallType
<1>3. QED BY <1>1, <1>2 DEF Display, TypeInv, TypeOK, Mode, Text
-----------------------------------------------------------------------------
(* Type correctness.                                                       *)
LEMMA InitType == Init => TypeInv
<1> SUFFICES ASSUME Init PROVE TypeInv
    OBVIOUS
<1> NumNotes \in Nat \ {0} /\ 1 \in Note
    BY BoundAssumption DEF Note
<1>1. revisions \in Seq(Revision)
      <2>1. revisions \in [1..NumNotes -> Revision]
            BY DEF Init, Note, Revision
      <2>2. QED BY <2>1, SeqDef
<1>2. ASSUME NEW n \in Note PROVE IsCurrent(n, n)
      BY DEF Init, IsCurrent, Note
<1>3. DOMAIN revisions = Note
      BY DEF Init
<1>4. tlms \in Seq(Tlm)
      BY EmptySeq DEF Init
<1>5. ServerInv
      BY <1>1, <1>2, <1>3, <1>4 DEF ServerInv, Init
<1>6. calls \in [Slot -> Calls \cup {None}]
      <2>1. Call("load", 1, FALSE, 0) \in Calls
            BY NewCallType
      <2>2. QED BY <2>1 DEF Init
<1>7. TypeOK
      BY DEF Init, TypeOK, Text
<1>8. QED BY <1>5, <1>6, <1>7 DEF TypeInv, Init, Text

(* The server: what others do, and the answers.                            *)
LEMMA ServerType ==
    ASSUME TypeInv,
           \/ \E n \in Note : OthersAct(n)
           \/ HandleChangeStatus \/ HandleSaveEditTitle \/ HandleClickRestoreDelete
           \/ \E s \in Slot : ServerAnswers(s)
    PROVE  TypeInv'
<1> ServerInv /\ TypeOK /\ content \in Content /\ texts \in Nat
    BY DEF TypeInv, TypeOK, Content, Text, ServerInv
<1>1. ASSUME NEW n \in Note, OthersAct(n) PROVE TypeInv'
      <2>1. ServerInv'
            <3>1. CASE OthersSave(n)
                  <4>1. texts + 1 \in Nat /\ texts' \in Nat
                        BY <3>1 DEF OthersSave
                  <4>2. Revise(n, texts + 1, FALSE, "modified", FALSE)
                        BY <3>1 DEF OthersSave
                  <4>3. QED BY <4>1, <4>2, ReviseKeepsServer
            <3>2. CASE KeepText(n, FALSE)
                  BY <3>2, ReviseKeepsServer, CurrentType DEF KeepText
            <3>3. CASE OthersDelete(n)
                  BY <3>3, ReviseKeepsServer, CurrentType DEF OthersDelete
            <3>4. CASE Restore(n, FALSE)
                  BY <3>4, ReviseKeepsServer, CurrentType DEF Restore
            <3>5. QED BY <1>1, <3>1, <3>2, <3>3, <3>4 DEF OthersAct
      <2>2. QED BY <1>1, <2>1 DEF OthersAct, TypeInv, TypeOK, noteVars, newVars, draftVars
<1>2. content.id \in Note /\ content.text \in Nat
      BY DEF Content
<1>3. CASE HandleChangeStatus
      <2>1. ServerInv'
            BY <1>2, <1>3, ReviseKeepsServer, CurrentType DEF HandleChangeStatus, KeepText
      <2>2. QED BY <1>3, <2>1 DEF HandleChangeStatus, TypeInv, TypeOK, noteVars, newVars, draftVars
<1>4. CASE HandleSaveEditTitle
      <2>1. ServerInv'
            BY <1>2, <1>4, ReviseKeepsServer DEF HandleSaveEditTitle
      <2>2. QED BY <1>4, <2>1 DEF HandleSaveEditTitle, TypeInv, TypeOK, noteVars, newVars, draftVars
<1>5. CASE HandleClickRestoreDelete
      <2>1. ServerInv'
            BY <1>2, <1>5, ReviseKeepsServer, CurrentType DEF HandleClickRestoreDelete, Restore
      <2>2. QED BY <1>5, <2>1
                DEF HandleClickRestoreDelete, TypeInv, TypeOK, noteVars, newVars, draftVars
<1>6. ASSUME NEW s \in Slot, ServerAnswers(s) PROVE TypeInv'
      <2> DEFINE call == calls[s]
      <2>1. call # None /\ call \in Calls /\ call.note \in Note /\ call.text \in Nat
            BY <1>6, CallType DEF ServerAnswers, Reads, RefusesToRead, Saves, Deletes, Refuses, Asks
      <2>2. Len(revisions) + 1 \in Nat
            BY LenProperties DEF ServerInv
      <2>3. /\ ServerInv' /\ unsaved' \in [Note -> Text \cup {None}]
            /\ calls' \in [Slot -> Calls \cup {None}]
            <3>1. CASE Reads(s)
                  <4>1. PICK created \in BOOLEAN :
                          calls' = [calls EXCEPT ![s].answer =
                            [revision |-> Current(call.note), text |-> CurrentText(call.note),
                             deleted |-> IsDeleted(call.note), created |-> created]]
                        BY <3>1 DEF Reads
                  <4>2. [revision |-> Current(call.note), text |-> CurrentText(call.note),
                         deleted |-> IsDeleted(call.note), created |-> created] \in Reading
                        BY <2>1, CurrentType DEF Reading
                  <4>3. calls' \in [Slot -> Calls \cup {None}]
                        BY <2>1, <3>1, <4>1, <4>2, AnswerType DEF Reads, Asks, TypeInv
                  <4>4. QED BY <1>6, <3>1, <4>3 DEF ServerAnswers, Reads, TypeInv, ServerInv, IsCurrent
            <3>2. CASE Saves(s)
                  <4>1. [revision |-> Len(revisions) + 1, saved |-> TRUE] \in Verdict
                        BY <2>2 DEF Verdict
                  <4>2. calls' \in [Slot -> Calls \cup {None}]
                        BY <2>1, <3>2, <4>1, AnswerType DEF Saves, Asks, TypeInv
                  <4>3. ServerInv'
                        BY <1>6, <2>1, <3>2, ReviseKeepsServer DEF Saves, ServerAnswers
                  <4>4. QED BY <3>2, <4>2, <4>3 DEF Saves, TypeInv
            <3>3. CASE Deletes(s)
                  <4>1. [revision |-> Len(revisions) + 1, saved |-> TRUE] \in Verdict
                        BY <2>2 DEF Verdict
                  <4>2. calls' \in [Slot -> Calls \cup {None}]
                        BY <2>1, <3>3, <4>1, AnswerType DEF Deletes, Asks, TypeInv
                  <4>3. ServerInv'
                        BY <1>6, <2>1, <3>3, ReviseKeepsServer, CurrentType DEF Deletes, ServerAnswers
                  <4>4. QED BY <3>3, <4>2, <4>3 DEF Deletes, TypeInv
            <3>4. CASE Refuses(s)
                  <4>1. [revision |-> 0, saved |-> FALSE] \in Verdict
                        BY DEF Verdict
                  <4>2. calls' \in [Slot -> Calls \cup {None}]
                        BY <2>1, <3>4, <4>1, AnswerType DEF Refuses, Asks, TypeInv
                  <4>3. QED BY <1>6, <3>4, <4>2 DEF ServerAnswers, Refuses, TypeInv, ServerInv, IsCurrent
            <3>5. CASE RefusesToRead(s)
                  <4>1. [revision |-> 0, text |-> 0, deleted |-> FALSE, created |-> FALSE] \in Reading
                        BY DEF Reading
                  <4>2. calls' \in [Slot -> Calls \cup {None}]
                        BY <2>1, <3>5, <4>1, AnswerType DEF RefusesToRead, Asks, TypeInv
                  <4>3. QED BY <1>6, <3>5, <4>2
                            DEF ServerAnswers, RefusesToRead, TypeInv, ServerInv, IsCurrent
            <3>6. QED BY <1>6, <3>1, <3>2, <3>3, <3>4, <3>5 DEF ServerAnswers
      <2>4. QED BY <1>6, <2>3 DEF ServerAnswers, TypeInv, TypeOK, noteVars, newVars
<1>7. QED BY <1>1, <1>3, <1>4, <1>5, <1>6
(* The tab: handlers, and what the user does.                              *)
LEMMA KeepServer ==
    ASSUME ServerInv, UNCHANGED revisions, texts' \in Nat, tlms' \in Seq(Tlm)
    PROVE  ServerInv'
BY DEF ServerInv, IsCurrent

LEMMA HandlerType ==
    ASSUME TypeInv, NEW s \in Slot,
           \/ HandleTlm(s) \/ HandleContentModified(s) \/ HandleContentRestore(s)
           \/ ResumeLoad(s) \/ ResumeSave(s) \/ ResumeDelete(s)
           \/ HandleSaveHtmlDocument(s) \/ GivesUpSaving(s) \/ HandleUnknownContent(s)
    PROVE  TypeInv'
<1> /\ ServerInv /\ TypeOK /\ content \in Content /\ content.id \in Note /\ content.text \in Nat
    /\ mode \in Mode /\ overtaken \subseteq Note
    BY DEF TypeInv, TypeOK, Content, Text, Mode
<1> DEFINE call == calls[s]
<1>1. CASE HandleTlm(s)
      <2> DEFINE tlm == Head(tlms)
      <2>1. tlm \in Tlm /\ tlms' \in Seq(Tlm)
            BY <1>1, HeadTailProperties DEF HandleTlm, ServerInv
      <2>2. ServerInv'
            BY <1>1, <2>1, KeepServer DEF HandleTlm, serverVars, ServerInv
      <2>3. CASE IgnoreTlm(tlm)
            BY <1>1, <2>2, <2>3 DEF HandleTlm, IgnoreTlm, TypeInv, TypeOK, draftVars
      <2>4. CASE AskForContent(s, tlm)
            <3>1. Call(tlm.event, tlm.note, tlm.mine, 0) \in Calls
                  BY <2>1, <2>4, NewCallType DEF AskForContent, Tlm
            <3>2. calls' \in [Slot -> Calls \cup {None}]
                  BY <2>4, <3>1 DEF AskForContent, TypeInv
            <3>3. QED BY <1>1, <2>2, <2>4, <3>2
                      DEF HandleTlm, AskForContent, TypeInv, TypeOK, draftVars
      <2>5. CASE HandleContentDeleted(tlm)
            <3>1. content' \in Content
                  BY <2>5 DEF HandleContentDeleted, Content
            <3>2. newContent' \in [id : Note, deleted : BOOLEAN] /\ newContent' # None
                  <4>1. newContent' \in [id : Note, deleted : BOOLEAN]
                        BY <2>5 DEF HandleContentDeleted
                  <4>2. QED BY <4>1, NoneAssumption DEF Note
            <3>3. showRefreshWarning' \in BOOLEAN
                  BY <2>5 DEF HandleContentDeleted
            <3>4. QED BY <1>1, <2>2, <2>5, <3>1, <3>2, <3>3
                      DEF HandleTlm, HandleContentDeleted, TypeInv, TypeOK, draftVars, Content, Text
      <2>6. QED BY <1>1, <2>3, <2>4, <2>5 DEF HandleTlm
<1>2. ASSUME \/ HandleContentModified(s) \/ HandleContentRestore(s)
      PROVE  TypeInv'
      <2>1. /\ Answered(s) /\ call \in Calls /\ call.mine \in BOOLEAN /\ call.note \in Note
            /\ call.answer \in Reading /\ Shown(call) \in Content
            BY <1>2, CallType DEF HandleContentModified, HandleContentRestore, Answered
      <2>2. /\ content' \in Content /\ textToEdit' \in Nat /\ mode' \in Mode
            /\ loadingContent' \in BOOLEAN /\ calls' \in [Slot -> Calls \cup {None}]
            /\ overtaken' \subseteq Note
            <3>1. CASE call.mine
                  <4>1. Display(s, Shown(call), mode, loadingContent) /\ Overtakes(Shown(call))
                        BY <1>2, <3>1 DEF HandleContentModified, HandleContentRestore
                  <4>2. QED BY <2>1, <4>1, DisplayType DEF Overtakes, TypeOK
            <3>2. CASE ~call.mine
                  <4>1. Keep(s) /\ UNCHANGED overtaken
                        BY <1>2, <3>2 DEF HandleContentModified, HandleContentRestore
                  <4>2. QED BY <4>1 DEF Keep, noteVars, TypeInv, TypeOK, Text
            <3>3. QED BY <3>1, <3>2
      <2>3. newContent' \in [id : Note, deleted : BOOLEAN] /\ newContent' # None
            <3>1. newContent' \in [id : Note, deleted : BOOLEAN]
                  BY <1>2, <2>1 DEF HandleContentModified, HandleContentRestore, Reading
            <3>2. QED BY <3>1, NoneAssumption DEF Note
      <2>4. rawContentBeforeEdit' \in Nat /\ showRefreshWarning' \in BOOLEAN
            BY <1>2, <2>1 DEF HandleContentModified, HandleContentRestore, Reading, TypeOK, Text
      <2>5. /\ UNCHANGED <<serverVars, tlms, draft, unsaved>>
            BY <1>2 DEF HandleContentModified, HandleContentRestore
      <2>6. ServerInv'
            BY <2>5, KeepServer DEF serverVars, ServerInv
      <2>7. QED BY <2>2, <2>3, <2>4, <2>5, <2>6 DEF TypeInv, TypeOK, Content, Mode, Text
<1>3. CASE ResumeLoad(s)
      <2>1. call \in Calls /\ call.note \in Note /\ call.answer \in Reading /\ Shown(call) \in Content
            BY <1>3, CallType DEF ResumeLoad, Answered
      <2>2. PICK text \in Nat, newMode \in Mode :
                Display(s, [Shown(call) EXCEPT !.text = text], newMode, FALSE)
            <3>1. draft[call.note] # None => draft[call.note] \in Nat
                  BY <2>1 DEF TypeOK, Text
            <3>2. call.answer.text \in Nat
                  BY <2>1 DEF Reading
            <3>3. QED BY <1>3, <3>1, <3>2 DEF ResumeLoad, Mode
      <2>3. [Shown(call) EXCEPT !.text = text] \in Content
            BY <2>1 DEF Content
      <2>4. /\ content' \in Content /\ textToEdit' \in Nat /\ mode' \in Mode
            /\ loadingContent' \in BOOLEAN /\ calls' \in [Slot -> Calls \cup {None}]
            BY <2>2, <2>3, DisplayType
      <2>5. ServerInv'
            BY <1>3, KeepServer DEF ResumeLoad, serverVars, ServerInv
      <2>6. rawContentBeforeEdit' \in Nat
            BY <1>3, <2>1 DEF ResumeLoad, Reading
      <2>7. QED BY <1>3, <2>4, <2>5, <2>6
                DEF ResumeLoad, TypeInv, TypeOK, draftVars, Content, Mode, Text
<1>4. CASE ResumeSave(s)
      <2>1. call \in Calls /\ call.note \in Note /\ call.text \in Nat
            BY <1>4, CallType DEF ResumeSave, Answered
      <2>2. /\ content' \in Content /\ textToEdit' \in Nat /\ mode' \in Mode
            /\ loadingContent' \in BOOLEAN /\ calls' \in [Slot -> Calls \cup {None}]
            <3>1. CASE call.answer.saved
                  <4>1. [content EXCEPT !.text = call.text] \in Content
                        BY <2>1 DEF Content
                  <4>2. Display(s, [content EXCEPT !.text = call.text], "view", loadingContent)
                        BY <1>4, <3>1 DEF ResumeSave
                  <4>3. QED BY <4>1, <4>2, DisplayType DEF Mode, TypeOK
            <3>2. CASE ~call.answer.saved
                  BY <1>4, <3>2 DEF ResumeSave, Keep, noteVars, TypeInv, TypeOK, Text
            <3>3. QED BY <3>1, <3>2
      <2>3. draft' \in [Note -> Text \cup {None}]
            BY <1>4 DEF ResumeSave, RemoveDraft, TypeOK
      <2>4. ServerInv'
            BY <1>4, KeepServer DEF ResumeSave, serverVars, ServerInv
      <2>5. QED BY <1>4, <2>2, <2>3, <2>4
                DEF ResumeSave, TypeInv, TypeOK, newVars, Content, Mode, Text
<1>5. ASSUME \/ ResumeDelete(s) \/ GivesUpSaving(s) \/ HandleUnknownContent(s)
      PROVE  TypeInv'
      <2>1. UNCHANGED <<serverVars, tlms, content, loadingContent, textToEdit, newVars, draftVars>>
            BY <1>5 DEF ResumeDelete, GivesUpSaving, HandleUnknownContent, Keep, noteVars
      <2>2. mode' \in Mode /\ calls' \in [Slot -> Calls \cup {None}]
            BY <1>5 DEF ResumeDelete, GivesUpSaving, HandleUnknownContent, Keep, noteVars, TypeInv, Mode
      <2>3. ServerInv'
            BY <2>1, KeepServer DEF serverVars, ServerInv
      <2>4. QED BY <2>1, <2>2, <2>3 DEF TypeInv, TypeOK, newVars, draftVars, Mode
<1>6. CASE HandleSaveHtmlDocument(s)
      <2>1. call.text \in Nat
            BY <1>6, CallType DEF HandleSaveHtmlDocument
      <2>2. Call("put", content.id, TRUE, call.text) \in Calls
            BY <2>1, NewCallType
      <2>3. calls' \in [Slot -> Calls \cup {None}]
            BY <1>6, <2>2 DEF HandleSaveHtmlDocument, TypeInv
      <2>4. ServerInv'
            BY <1>6, KeepServer DEF HandleSaveHtmlDocument, serverVars, ServerInv
      <2>5. QED BY <1>6, <2>3, <2>4 DEF HandleSaveHtmlDocument, TypeInv, TypeOK, noteVars, newVars
<1>7. QED BY <1>1, <1>2, <1>3, <1>4, <1>5, <1>6
LEMMA UserType ==
    ASSUME TypeInv,
           \/ HandleClickNewVersion \/ UpdateTextToEdit \/ HandleCloseNewVersion
           \/ \E r \in DOMAIN revisions : HandleClickShowRevision(r)
           \/ \E s \in Slot :
               \/ \E n \in Note : Open(s, n)
               \/ HandleClickSaveDocument(s) \/ HandleClickDelete(s)
               \/ HandleClickRefresh(s) \/ HandleClickLastVersion(s)
    PROVE  TypeInv'
<1> /\ ServerInv /\ TypeOK /\ content \in Content /\ content.id \in Note /\ content.text \in Nat
    /\ textToEdit \in Nat /\ rawContentBeforeEdit \in Nat /\ overtaken \subseteq Note
    BY DEF TypeInv, TypeOK, Content, Text
<1>1. CASE HandleClickNewVersion
      <2>1. TextToEdit \in Nat
            BY DEF TextToEdit, TypeOK, Text
      <2>2. content' \in Content /\ textToEdit' \in Nat
            BY <1>1, <2>1 DEF HandleClickNewVersion, Content
      <2>3. ServerInv'
            BY <1>1, KeepServer DEF HandleClickNewVersion, serverVars, ServerInv
      <2>4. QED BY <1>1, <2>2, <2>3
                DEF HandleClickNewVersion, TypeInv, TypeOK, draftVars, Content, Text
<1>2. CASE UpdateTextToEdit
      <2>1. texts + 1 \in Nat /\ texts' \in Nat
            BY <1>2 DEF UpdateTextToEdit, ServerInv
      <2>2. ServerInv'
            BY <1>2, <2>1, KeepServer DEF UpdateTextToEdit, ServerInv
      <2>3. overtaken' \subseteq Note
            BY <1>2 DEF UpdateTextToEdit
      <2>4. /\ draft' \in [Note -> Text \cup {None}] /\ unsaved' \in [Note -> Text \cup {None}]
            /\ textToEdit' \in Nat
            BY <1>2, <2>1 DEF UpdateTextToEdit, TypeInv, TypeOK, Text
      <2>5. QED BY <1>2, <2>2, <2>3, <2>4 DEF UpdateTextToEdit, TypeInv, TypeOK, newVars, Text
<1>3. CASE HandleCloseNewVersion
      <2>1. content' \in Content /\ textToEdit' \in Nat
            BY <1>3 DEF HandleCloseNewVersion, Content
      <2>2. ServerInv'
            BY <1>3, KeepServer DEF HandleCloseNewVersion, serverVars, ServerInv
      <2>3. draft' \in [Note -> Text \cup {None}] /\ unsaved' \in [Note -> Text \cup {None}]
            BY <1>3 DEF HandleCloseNewVersion, TypeInv, TypeOK
      <2>4. QED BY <1>3, <2>1, <2>2, <2>3
                DEF HandleCloseNewVersion, TypeInv, TypeOK, newVars, Content, Text
<1>4. ASSUME NEW r \in DOMAIN revisions, HandleClickShowRevision(r)
      PROVE  TypeInv'
      <2>1. revisions[r].text \in Nat
            <3>1. revisions \in Seq(Revision)
                  BY DEF ServerInv
            <3>2. revisions[r] \in Revision
                  BY <3>1, LenProperties, ElementOfSeq
            <3>3. QED BY <3>2 DEF Revision
      <2>2. content' \in Content /\ textToEdit' \in Nat
            BY <1>4, <2>1 DEF HandleClickShowRevision, Content
      <2>3. ServerInv'
            BY <1>4, KeepServer DEF HandleClickShowRevision, serverVars, ServerInv
      <2>4. QED BY <1>4, <2>2, <2>3
                DEF HandleClickShowRevision, TypeInv, TypeOK, newVars, draftVars, Content, Text
<1>5. ASSUME NEW s \in Slot, NEW n \in Note, Open(s, n)
      PROVE  TypeInv'
      <2>1. [id |-> n, text |-> 0, deleted |-> FALSE] \in Content
            BY DEF Content
      <2>2. Display(s, [id |-> n, text |-> 0, deleted |-> FALSE], "view", TRUE)
            BY <1>5 DEF Open
      <2>3. /\ content' \in Content /\ textToEdit' \in Nat /\ mode' \in Mode
            /\ loadingContent' \in BOOLEAN /\ calls' \in [Slot -> Calls \cup {None}]
            BY <2>1, <2>2, DisplayType DEF Mode
      <2>4. ServerInv'
            BY <1>5, KeepServer DEF Open, serverVars, ServerInv
      <2>5. QED BY <1>5, <2>3, <2>4
                DEF Open, TypeInv, TypeOK, newVars, draftVars, Content, Mode, Text
<1>6. ASSUME NEW s \in Slot, HandleClickSaveDocument(s) \/ HandleClickDelete(s)
      PROVE  TypeInv'
      <2>1. /\ Call("search", content.id, TRUE, textToEdit) \in Calls
            /\ Call("delete", content.id, TRUE, 0) \in Calls
            BY NewCallType
      <2>2. calls' \in [Slot -> Calls \cup {None}]
            BY <1>6, <2>1 DEF HandleClickSaveDocument, HandleClickDelete, TypeInv
      <2>3. UNCHANGED <<serverVars, tlms, noteVars, newVars, draftVars>>
            BY <1>6 DEF HandleClickSaveDocument, HandleClickDelete
      <2>4. ServerInv'
            BY <2>3, KeepServer DEF serverVars, ServerInv
      <2>5. QED BY <2>2, <2>3, <2>4 DEF TypeInv, TypeOK, noteVars, newVars, draftVars
<1>7. ASSUME NEW s \in Slot, HandleClickRefresh(s) \/ HandleClickLastVersion(s)
      PROVE  TypeInv'
      <2>1. UNCHANGED <<serverVars, tlms, newContent, rawContentBeforeEdit, draftVars>>
            BY <1>7 DEF HandleClickRefresh, HandleClickLastVersion
      <2>2. /\ content' \in Content /\ textToEdit' \in Nat /\ mode' \in Mode
            /\ loadingContent' \in BOOLEAN /\ calls' \in [Slot -> Calls \cup {None}]
            /\ showRefreshWarning' \in {FALSE, showRefreshWarning}
            <3>1. CASE showRefreshWarning
                  <4>1. newContent \in [id : Note, deleted : BOOLEAN]
                        BY <3>1 DEF TypeOK
                  <4> DEFINE shown == [id |-> newContent.id, text |-> rawContentBeforeEdit,
                                       deleted |-> newContent.deleted]
                  <4>2. shown \in Content
                        BY <4>1 DEF Content
                  <4>3. Display(s, shown, "view", loadingContent) /\ showRefreshWarning' = FALSE
                        BY <1>7, <3>1 DEF HandleClickRefresh, HandleClickLastVersion, Refresh
                  <4>4. loadingContent \in BOOLEAN /\ "view" \in Mode
                        BY DEF TypeOK, Mode
                  <4>5. /\ content' \in Content /\ textToEdit' \in Nat /\ mode' \in Mode
                        /\ loadingContent' \in BOOLEAN /\ calls' \in [Slot -> Calls \cup {None}]
                        BY <4>2, <4>3, <4>4, DisplayType
                  <4>6. QED BY <4>3, <4>5
            <3>2. CASE ~showRefreshWarning
                  <4>1. Call("load", content.id, FALSE, 0) \in Calls
                        BY NewCallType
                  <4>2. /\ mode' = "view" /\ loadingContent' = TRUE
                        /\ calls' = [calls EXCEPT ![s] = Call("load", content.id, FALSE, 0)]
                        /\ UNCHANGED <<content, textToEdit, showRefreshWarning>>
                        BY <1>7, <3>2 DEF HandleClickRefresh, HandleClickLastVersion
                  <4>3. QED BY <4>1, <4>2 DEF TypeInv, Mode
            <3>3. QED BY <3>1, <3>2 DEF TypeOK
      <2>3. ServerInv'
            BY <2>1, KeepServer DEF serverVars, ServerInv
      <2>4. showRefreshWarning' \in BOOLEAN /\ (showRefreshWarning' => newContent' # None)
            <3>1. newContent' = newContent /\ (showRefreshWarning => newContent # None)
                  BY <2>1 DEF TypeOK
            <3>2. CASE showRefreshWarning' = FALSE
                  BY <3>2
            <3>3. CASE showRefreshWarning' = showRefreshWarning
                  BY <3>1, <3>3 DEF TypeOK
            <3>4. QED BY <2>2, <3>2, <3>3
      <2>5. TypeOK'
            BY <2>1, <2>2, <2>4 DEF TypeOK, draftVars, Content, Mode, Text
      <2>6. QED BY <2>1, <2>2, <2>3, <2>5 DEF TypeInv, draftVars
<1>8. QED BY <1>1, <1>2, <1>3, <1>4, <1>5, <1>6, <1>7

LEMMA TypeStep == TypeInv /\ [Next]_vars => TypeInv'
<1> SUFFICES ASSUME TypeInv, [Next]_vars PROVE TypeInv'
    OBVIOUS
<1>1. CASE Next
      BY <1>1, ServerType, HandlerType, UserType DEF Next
<1>2. CASE UNCHANGED vars
      BY <1>2 DEF vars, serverVars, noteVars, newVars, draftVars, raceVars, TypeInv, TypeOK,
                  ServerInv, IsCurrent
<1>3. QED BY <1>1, <1>2

(* The state is well formed, for any number of notes, calls and texts.     *)
THEOREM TypeCorrect == Spec => []TypeOK
<1>1. TypeInv => TypeOK
      BY DEF TypeInv
<1>2. QED BY <1>1, InitType, TypeStep, PTL DEF Spec
-----------------------------------------------------------------------------
(* What was typed: a step keeps the three parts of the invariant when it   *)
(* leaves the draft, the editor and the saves alone.                       *)
Forgets ==
    /\ overtaken \subseteq overtaken'
    /\ \A n \in Note : unsaved'[n] \in {None, unsaved[n]}

LEMMA DraftKept ==
    ASSUME NothingTypedIsLost, Forgets, UNCHANGED draft
    PROVE  NothingTypedIsLost'
BY DEF NothingTypedIsLost, Forgets

LEMMA EditorKept ==
    ASSUME TypeInv, EditorInv, Forgets, UNCHANGED <<loadingContent, textToEdit>>,
           content'.id = content.id, content'.text = content.text,
           mode' = mode \/ mode' # "edit"
    PROVE  EditorInv'
<1> content.id \in Note
    BY DEF TypeInv, TypeOK
<1> QED BY DEF EditorInv, Forgets

(* The editor takes a text that has changed, and the text it does not take *)
(* is the one it has.                                                      *)
LEMMA EditorDisplays ==
    ASSUME TypeInv, EditorInv, Forgets, NEW s \in Slot, NEW shown, NEW newMode, NEW loading,
           Display(s, shown, newMode, loading),
           newMode = "edit" /\ shown.id = content.id /\ ~loading /\ shown.id \notin overtaken'
               /\ unsaved[shown.id] # None =>
             \/ shown.text = unsaved[shown.id]
             \/ mode = "edit" /\ ~loadingContent /\ shown.text = content.text
    PROVE  EditorInv'
<1> SUFFICES ASSUME ~loadingContent', content'.id \notin overtaken', unsaved'[content'.id] # None,
                    mode' = "edit" \/ content'.text = unsaved'[content'.id]
             PROVE  textToEdit' = unsaved'[content'.id]
    BY DEF EditorInv
<1> DEFINE n == content.id
<1>1. /\ content' = shown /\ shown.id = n /\ mode' = newMode /\ ~loading
      /\ textToEdit' = IF loadingContent \/ shown.text # content.text THEN shown.text ELSE textToEdit
      BY DEF Display
<1>2. n \in Note /\ n \notin overtaken /\ unsaved'[n] = unsaved[n]
      BY <1>1 DEF Forgets, TypeInv, TypeOK
<1>3. CASE shown.text = unsaved[n]
      BY <1>1, <1>2, <1>3 DEF EditorInv
<1>4. CASE mode = "edit" /\ ~loadingContent /\ shown.text = content.text
      BY <1>1, <1>2, <1>4 DEF EditorInv
<1>5. QED BY <1>1, <1>2, <1>3, <1>4

LEMMA SavesKept ==
    ASSUME TypeInv, SaveInv, Forgets,
           \A s \in Slot : \/ calls'[s] \in {calls[s], None}
                           \/ calls'[s].op \notin {"search", "put"}
    PROVE  SaveInv'
<1> \A s \in Slot : calls[s] # None => calls[s].note \in Note
    BY CallType
<1> QED BY DEF SaveInv, Forgets

-----------------------------------------------------------------------------
(* The steps that touch them.                                              *)
Typed == NothingTypedIsLost /\ EditorInv /\ SaveInv

LEMMA ServerKeepsTyped ==
    ASSUME Inv, NEW s \in Slot, ServerAnswers(s)
    PROVE  Typed'
<1> TypeInv /\ NothingTypedIsLost /\ EditorInv /\ SaveInv
    BY DEF Inv
<1> DEFINE call == calls[s]
<1>1. call # None /\ call.note \in Note
      BY CallType DEF ServerAnswers, Reads, RefusesToRead, Saves, Deletes, Refuses, Asks
<1>2. /\ UNCHANGED <<draft, overtaken, content, mode, loadingContent, textToEdit>>
      BY DEF ServerAnswers, noteVars
<1>3. Forgets
      BY <1>2 DEF ServerAnswers, Reads, RefusesToRead, Saves, Deletes, Refuses, Forgets, TypeInv
<1>4. NothingTypedIsLost' /\ EditorInv'
      BY <1>2, <1>3, DraftKept, EditorKept
<1>5. SaveInv'
      <2>1. CASE Reads(s) \/ RefusesToRead(s) \/ Deletes(s)
            <3>1. call.op \notin {"search", "put"}
                  BY <2>1 DEF Reads, RefusesToRead, Deletes, Asks
            <3>2. PICK answer : calls' = [calls EXCEPT ![s].answer = answer]
                  BY <2>1 DEF Reads, RefusesToRead, Deletes
            <3>3. calls'[s].op = call.op
                  BY <1>1, <3>2, CallType DEF TypeInv, Calls, CallOf
            <3>4. \A q \in Slot \ {s} : calls'[q] = calls[q]
                  BY <3>2 DEF TypeInv
            <3>5. QED BY <1>3, <3>1, <3>3, <3>4, SavesKept
      <2>2. CASE Saves(s) \/ Refuses(s)
            <3>1. PICK answer :
                    /\ calls' = [calls EXCEPT ![s].answer = answer]
                    /\ answer.saved => unsaved'[call.note] # call.text \/ None = call.text
                    /\ call.answer = None
                  <4>1. CASE Saves(s)
                        <5>1. unsaved'[call.note] # call.text \/ None = call.text
                              BY <1>1, <4>1 DEF Saves
                        <5>2. QED BY <4>1, <5>1 DEF Saves, Asks
                  <4>2. CASE Refuses(s)
                        BY <4>2 DEF Refuses, Asks
                  <4>3. QED BY <2>2, <4>1, <4>2
            <3>2. calls'[s] = [call EXCEPT !.answer = answer] /\ call \in Calls
                  BY <1>1, <3>1, CallType DEF TypeInv
            <3>3. /\ calls'[s].op = call.op /\ calls'[s].note = call.note
                  /\ calls'[s].text = call.text /\ calls'[s].answer = answer
                  BY <3>2 DEF Calls, CallOf
            <3>4. ASSUME call.note \notin overtaken'
                  PROVE  /\ call.op \in {"search", "put"} => unsaved'[call.note] \in {None, call.text}
                         /\ call.op = "put" /\ answer.saved => unsaved'[call.note] = None
                  <4>1. call.op \in {"search", "put"} => unsaved[call.note] \in {None, call.text}
                        BY <1>1, <1>2, <3>1, <3>4 DEF SaveInv
                  <4>2. QED BY <1>1, <1>3, <3>1, <4>1 DEF Forgets
            <3>5. ASSUME NEW q \in Slot \ {s}, calls'[q] # None, calls'[q].note \notin overtaken'
                  PROVE  calls'[q] = calls[q] /\ calls[q].note \in Note
                         /\ unsaved'[calls[q].note] \in {None, unsaved[calls[q].note]}
                  <4>1. calls'[q] = calls[q]
                        BY <3>1 DEF TypeInv
                  <4>2. QED BY <1>3, <3>5, <4>1, CallType DEF Forgets
            <3>6. QED BY <1>2, <3>3, <3>4, <3>5 DEF SaveInv
      <2>3. QED BY <2>1, <2>2 DEF ServerAnswers
<1>6. QED BY <1>4, <1>5 DEF Typed
LEMMA HandlersKeepTyped ==
    ASSUME Inv, NEW s \in Slot,
           \/ HandleTlm(s) \/ HandleContentModified(s) \/ HandleContentRestore(s)
           \/ ResumeLoad(s) \/ ResumeSave(s) \/ ResumeDelete(s)
           \/ HandleSaveHtmlDocument(s) \/ GivesUpSaving(s) \/ HandleUnknownContent(s)
    PROVE  Typed'
<1> /\ TypeInv /\ NothingTypedIsLost /\ EditorInv /\ SaveInv
    /\ content.id \in Note /\ DOMAIN calls = Slot /\ overtaken \subseteq Note
    BY DEF Inv, TypeInv, TypeOK
<1> DEFINE call == calls[s]
<1>1. CASE HandleTlm(s)
      <2>1. Forgets /\ UNCHANGED <<draft, mode, loadingContent, textToEdit>>
            BY <1>1 DEF HandleTlm, Forgets, draftVars
      <2>2. content'.id = content.id /\ content'.text = content.text
            BY <1>1 DEF HandleTlm, IgnoreTlm, AskForContent, HandleContentDeleted, TypeInv, TypeOK
      <2>3. ASSUME NEW q \in Slot
            PROVE  calls'[q] \in {calls[q], None} \/ calls'[q].op \notin {"search", "put"}
            <3>1. CASE AskForContent(s, Head(tlms)) /\ q = s
                  BY <3>1 DEF AskForContent, Call
            <3>2. CASE ~(AskForContent(s, Head(tlms)) /\ q = s)
                  BY <1>1, <3>2 DEF HandleTlm, IgnoreTlm, AskForContent, HandleContentDeleted
            <3>3. QED BY <3>1, <3>2
      <2>4. QED BY <2>1, <2>2, <2>3, DraftKept, EditorKept, SavesKept DEF Typed
<1>2. ASSUME HandleContentModified(s) \/ HandleContentRestore(s)
      PROVE  Typed'
      <2>1. UNCHANGED <<draft, unsaved>> /\ Answered(s)
            BY <1>2 DEF HandleContentModified, HandleContentRestore
      <2>2. CASE call.mine
            <3>1. Display(s, Shown(call), mode, loadingContent) /\ Overtakes(Shown(call))
                  BY <1>2, <2>2 DEF HandleContentModified, HandleContentRestore
            <3>2. Forgets
                  BY <2>1, <3>1 DEF Overtakes, Forgets
            <3>3. EditorInv'
                  <4> DEFINE shown == Shown(call)
                  <4>1. mode = "edit" /\ shown.id = content.id /\ shown.id \notin overtaken' =>
                            shown.text = content.text
                        BY <3>1 DEF Overtakes
                  <4>2. Display(s, shown, mode, loadingContent)
                        BY <3>1
                  <4> HIDE DEF shown
                  <4>3. QED BY <3>2, <4>1, <4>2, EditorDisplays
            <3>4. \A q \in Slot : \/ calls'[q] \in {calls[q], None}
                                  \/ calls'[q].op \notin {"search", "put"}
                  BY <3>1 DEF Display, Call
            <3>5. QED BY <2>1, <3>2, <3>3, <3>4, DraftKept, SavesKept DEF Typed
      <2>3. CASE ~call.mine
            <3>1. Keep(s) /\ UNCHANGED overtaken
                  BY <1>2, <2>3 DEF HandleContentModified, HandleContentRestore
            <3>2. Forgets /\ UNCHANGED <<content, mode, loadingContent, textToEdit>>
                  BY <2>1, <3>1 DEF Forgets, Keep, noteVars
            <3>3. \A q \in Slot : calls'[q] \in {calls[q], None}
                  BY <3>1 DEF Keep
            <3>4. QED BY <2>1, <3>2, <3>3, DraftKept, EditorKept, SavesKept DEF Typed
      <2>4. QED BY <2>2, <2>3
<1>3. CASE ResumeLoad(s)
      <2> DEFINE newMode == IF call.answer.created THEN "edit" ELSE "view"
                 text == IF call.answer.created /\ draft[call.note] # None THEN draft[call.note]
                         ELSE call.answer.text
                 shown == [Shown(call) EXCEPT !.text = text]
      <2>1. /\ Answered(s)
            /\ Display(s, shown, newMode, FALSE)
            /\ UNCHANGED <<draft, unsaved, overtaken>>
            BY <1>3 DEF ResumeLoad, draftVars
      <2>2. Forgets /\ call.note \in Note
            BY <2>1, CallType DEF Forgets, Answered
      <2>3. shown.id = call.note /\ shown.text = text
            BY DEF Shown
      <2>4. newMode = "edit" /\ call.note \notin overtaken /\ unsaved[call.note] # None =>
                text = unsaved[call.note]
            BY <2>2 DEF NothingTypedIsLost
      <2>5. EditorInv'
            <3> HIDE DEF shown, newMode, text
            <3>1. newMode = "edit" /\ shown.id \notin overtaken' /\ unsaved[shown.id] # None =>
                      shown.text = unsaved[shown.id]
                  BY <2>1, <2>3, <2>4
            <3>2. QED BY <2>1, <2>2, <3>1, EditorDisplays
      <2>6. \A q \in Slot : \/ calls'[q] \in {calls[q], None}
                            \/ calls'[q].op \notin {"search", "put"}
            BY <2>1 DEF Display, Call
      <2>7. QED BY <2>1, <2>2, <2>5, <2>6, DraftKept, SavesKept DEF Typed
<1>4. CASE ResumeSave(s)
      <2>1. Answered(s) /\ call.op = "put" /\ call.note \in Note /\ Forgets
            BY <1>4, CallType DEF ResumeSave, Forgets, Answered
      <2>2. call.answer.saved /\ call.note \notin overtaken => unsaved[call.note] = None
            BY <2>1 DEF SaveInv, Answered
      <2>3. NothingTypedIsLost'
            <3>1. \A n \in Note : draft'[n] = draft[n] \/ (n = call.note /\ call.answer.saved)
                  BY <1>4 DEF ResumeSave, RemoveDraft, TypeInv, TypeOK
            <3>2. UNCHANGED <<unsaved, overtaken>>
                  BY <1>4 DEF ResumeSave
            <3>3. QED BY <2>2, <3>1, <3>2 DEF NothingTypedIsLost
      <2>4. CASE call.answer.saved
            <3>1. Display(s, [content EXCEPT !.text = call.text], "view", loadingContent)
                  BY <1>4, <2>4 DEF ResumeSave
            <3>2. EditorInv'
                  BY <2>1, <3>1, EditorDisplays
            <3>3. \A q \in Slot : \/ calls'[q] \in {calls[q], None}
                                  \/ calls'[q].op \notin {"search", "put"}
                  BY <3>1 DEF Display, Call
            <3>4. QED BY <2>1, <2>3, <3>2, <3>3, SavesKept DEF Typed
      <2>5. CASE ~call.answer.saved
            <3>1. Keep(s)
                  BY <1>4, <2>5 DEF ResumeSave
            <3>2. QED BY <2>1, <2>3, <3>1, EditorKept, SavesKept DEF Typed, Keep, noteVars
      <2>6. QED BY <2>4, <2>5
<1>5. ASSUME ResumeDelete(s) \/ GivesUpSaving(s) \/ HandleUnknownContent(s)
      PROVE  Typed'
      <2>1. /\ Forgets /\ UNCHANGED <<draft, content, loadingContent, textToEdit>>
            /\ mode' = mode \/ mode' # "edit"
            BY <1>5 DEF ResumeDelete, GivesUpSaving, HandleUnknownContent, Keep, Forgets, draftVars,
                        noteVars
      <2>2. \A q \in Slot : calls'[q] \in {calls[q], None}
            BY <1>5 DEF ResumeDelete, GivesUpSaving, HandleUnknownContent, Keep
      <2>3. QED BY <2>1, <2>2, DraftKept, EditorKept, SavesKept DEF Typed
<1>6. CASE HandleSaveHtmlDocument(s)
      <2>1. /\ Forgets /\ UNCHANGED <<draft, content, mode, loadingContent, textToEdit, unsaved>>
            /\ overtaken' = IF call.note = content.id THEN overtaken
                            ELSE overtaken \cup {content.id}
            /\ calls' = [calls EXCEPT ![s] = Call("put", content.id, TRUE, call.text)]
            BY <1>6 DEF HandleSaveHtmlDocument, Forgets, noteVars
      <2>2. call # None /\ call.op = "search" /\ call.note \in Note
            BY <1>6, CallType DEF HandleSaveHtmlDocument
      <2>3. call \in CallOf({"search"}, {})
            BY <2>2, CallType DEF Calls, CallOf
      <2>4. call.answer = None
            BY <2>3 DEF CallOf
      <2>5. SaveInv'
            <3>1. ASSUME NEW q \in Slot \ {s}, calls'[q] # None, calls'[q].note \notin overtaken'
                  PROVE  calls'[q] = calls[q] /\ calls[q].note \notin overtaken
                  BY <2>1, <3>1 DEF Forgets
            <3>2. ASSUME content.id \notin overtaken'
                  PROVE  unsaved[content.id] \in {None, call.text}
                  BY <2>1, <2>2, <2>4, <3>2 DEF SaveInv
            <3>3. calls'[s].note = content.id /\ calls'[s].text = call.text
                  /\ calls'[s].answer = None /\ calls'[s].op = "put"
                  BY <2>1 DEF Call
            <3>4. QED BY <2>1, <3>1, <3>2, <3>3 DEF SaveInv
      <2>6. QED BY <2>1, <2>5, DraftKept, EditorKept DEF Typed
<1>7. QED BY <1>1, <1>2, <1>3, <1>4, <1>5, <1>6
LEMMA UserKeepsTyped ==
    ASSUME Inv,
           \/ HandleClickNewVersion \/ UpdateTextToEdit \/ HandleCloseNewVersion
           \/ \E r \in DOMAIN revisions : HandleClickShowRevision(r)
           \/ \E s \in Slot :
               \/ \E n \in Note : Open(s, n)
               \/ HandleClickSaveDocument(s) \/ HandleClickDelete(s)
               \/ HandleClickRefresh(s) \/ HandleClickLastVersion(s)
    PROVE  Typed'
<1> /\ TypeInv /\ NothingTypedIsLost /\ EditorInv /\ SaveInv
    /\ content.id \in Note /\ DOMAIN calls = Slot /\ overtaken \subseteq Note
    /\ DOMAIN draft = Note /\ DOMAIN unsaved = Note
    BY DEF Inv, TypeInv, TypeOK
<1>1. CASE HandleClickNewVersion
      <2>1. /\ Forgets /\ UNCHANGED <<draft, unsaved, overtaken, calls, loadingContent>>
            /\ ~loadingContent /\ content'.id = content.id /\ content'.text = TextToEdit
            /\ textToEdit' = IF TextToEdit # content.text THEN TextToEdit ELSE textToEdit
            BY <1>1 DEF HandleClickNewVersion, Forgets, draftVars, TypeInv, TypeOK
      <2>2. content.id \notin overtaken /\ unsaved[content.id] # None =>
                TextToEdit = unsaved[content.id]
            BY DEF TextToEdit, NothingTypedIsLost
      <2>3. EditorInv'
            BY <2>1, <2>2 DEF EditorInv
      <2>4. QED BY <2>1, <2>3, DraftKept, SavesKept DEF Typed
<1>2. CASE UpdateTextToEdit
      <2> DEFINE n == content.id
      <2>1. /\ draft' = [draft EXCEPT ![n] = texts + 1]
            /\ unsaved' = [unsaved EXCEPT ![n] = texts + 1]
            /\ textToEdit' = texts + 1
            /\ overtaken' = IF Saving THEN overtaken \cup {n} ELSE overtaken \ {n}
            /\ UNCHANGED <<content, calls>>
            BY <1>2 DEF UpdateTextToEdit
      <2>2. NothingTypedIsLost'
            BY <2>1 DEF NothingTypedIsLost
      <2>3. EditorInv'
            BY <2>1 DEF EditorInv
      <2>4. SaveInv'
            <3>1. ASSUME NEW s \in Slot, calls[s] # None, calls[s].note \notin overtaken'
                  PROVE  \/ calls[s].note \notin overtaken /\ calls[s].note # n
                         \/ calls[s].op \notin {"search", "put"}
                  BY <2>1, <3>1 DEF Saving
            <3>2. QED BY <2>1, <3>1 DEF SaveInv
      <2>5. QED BY <2>2, <2>3, <2>4 DEF Typed
<1>3. CASE HandleCloseNewVersion
      <2> DEFINE n == content.id
      <2>1. /\ draft' = [draft EXCEPT ![n] = None] /\ unsaved' = [unsaved EXCEPT ![n] = None]
            /\ UNCHANGED <<overtaken, calls>> /\ content'.id = n
            BY <1>3 DEF HandleCloseNewVersion, TypeInv, TypeOK
      <2>2. Forgets
            BY <2>1 DEF Forgets
      <2>3. NothingTypedIsLost' /\ EditorInv'
            BY <2>1 DEF NothingTypedIsLost, EditorInv
      <2>4. QED BY <2>1, <2>2, <2>3, SavesKept DEF Typed
<1>4. ASSUME NEW r \in DOMAIN revisions, HandleClickShowRevision(r)
      PROVE  Typed'
      <2>1. /\ Forgets /\ UNCHANGED <<draft, unsaved, overtaken, calls, loadingContent>>
            /\ content'.id = content.id /\ mode' = "revision"
            /\ textToEdit' = IF content'.text # content.text THEN content'.text ELSE textToEdit
            BY <1>4 DEF HandleClickShowRevision, Forgets, draftVars, TypeInv, TypeOK
      <2>2. EditorInv'
            BY <2>1 DEF EditorInv
      <2>3. QED BY <2>1, <2>2, DraftKept, SavesKept DEF Typed
<1>5. ASSUME NEW s \in Slot, NEW n \in Note, Open(s, n)
      PROVE  Typed'
      <2>1. /\ Display(s, [id |-> n, text |-> 0, deleted |-> FALSE], "view", TRUE)
            /\ Forgets /\ UNCHANGED draft
            BY <1>5 DEF Open, Forgets, draftVars
      <2>2. EditorInv'
            BY <2>1, EditorDisplays
      <2>3. \A q \in Slot : \/ calls'[q] \in {calls[q], None}
                            \/ calls'[q].op \notin {"search", "put"}
            BY <2>1 DEF Display, Call
      <2>4. QED BY <2>1, <2>2, <2>3, DraftKept, SavesKept DEF Typed
<1>6. ASSUME NEW s \in Slot, HandleClickSaveDocument(s)
      PROVE  Typed'
      <2>1. /\ Forgets /\ UNCHANGED <<draft, content, mode, loadingContent, textToEdit>>
            /\ calls' = [calls EXCEPT ![s] = Call("search", content.id, TRUE, textToEdit)]
            /\ UNCHANGED <<unsaved, overtaken>>
            BY <1>6 DEF HandleClickSaveDocument, Forgets, noteVars, draftVars
      <2>2. content.id \notin overtaken => unsaved[content.id] \in {None, textToEdit}
            BY <1>6 DEF HandleClickSaveDocument, EditorInv
      <2>3. SaveInv'
            BY <2>1, <2>2 DEF SaveInv, Call
      <2>4. QED BY <2>1, <2>3, DraftKept, EditorKept DEF Typed
<1>7. ASSUME NEW s \in Slot, HandleClickDelete(s)
      PROVE  Typed'
      <2>1. Forgets /\ UNCHANGED <<draft, content, mode, loadingContent, textToEdit>>
            BY <1>7 DEF HandleClickDelete, Forgets, noteVars, draftVars
      <2>2. \A q \in Slot : \/ calls'[q] \in {calls[q], None}
                            \/ calls'[q].op \notin {"search", "put"}
            BY <1>7 DEF HandleClickDelete, Call
      <2>3. QED BY <2>1, <2>2, DraftKept, EditorKept, SavesKept DEF Typed
<1>8. ASSUME NEW s \in Slot, HandleClickRefresh(s) \/ HandleClickLastVersion(s)
      PROVE  Typed'
      <2>1. Forgets /\ UNCHANGED draft
            BY <1>8 DEF HandleClickRefresh, HandleClickLastVersion, Forgets, draftVars
      <2>2. CASE Refresh(s)
            <3>1. Display(s, [id |-> newContent.id, text |-> rawContentBeforeEdit,
                              deleted |-> newContent.deleted], "view", loadingContent)
                  BY <2>2 DEF Refresh
            <3>2. EditorInv'
                  BY <2>1, <3>1, EditorDisplays
            <3>3. \A q \in Slot : \/ calls'[q] \in {calls[q], None}
                                  \/ calls'[q].op \notin {"search", "put"}
                  BY <3>1 DEF Display, Call
            <3>4. QED BY <2>1, <3>2, <3>3, DraftKept, SavesKept DEF Typed
      <2>3. CASE ~Refresh(s)
            <3>1. /\ loadingContent' = TRUE
                  /\ calls' = [calls EXCEPT ![s] = Call("load", content.id, FALSE, 0)]
                  BY <1>8, <2>3 DEF HandleClickRefresh, HandleClickLastVersion
            <3>2. EditorInv'
                  BY <3>1 DEF EditorInv
            <3>3. \A q \in Slot : \/ calls'[q] \in {calls[q], None}
                                  \/ calls'[q].op \notin {"search", "put"}
                  BY <3>1 DEF Call
            <3>4. QED BY <2>1, <3>2, <3>3, DraftKept, SavesKept DEF Typed
      <2>4. QED BY <2>2, <2>3
<1>9. QED BY <1>1, <1>2, <1>3, <1>4, <1>5, <1>6, <1>7, <1>8

(* What others do on the server, and what the tab asks and does not use    *)
(* the answer of.                                                          *)
LEMMA OthersKeepTyped ==
    ASSUME Inv,
           \/ \E n \in Note : OthersAct(n)
           \/ HandleChangeStatus \/ HandleSaveEditTitle \/ HandleClickRestoreDelete
           \/ UNCHANGED vars
    PROVE  Typed'
<1>1. UNCHANGED <<noteVars, draftVars, calls>>
      BY DEF OthersAct, HandleChangeStatus, HandleSaveEditTitle, HandleClickRestoreDelete, vars
<1>2. QED BY <1>1 DEF Inv, Typed, NothingTypedIsLost, EditorInv, SaveInv, noteVars, draftVars

-----------------------------------------------------------------------------
LEMMA InitInv == Init => Inv
<1> SUFFICES ASSUME Init PROVE Inv
    OBVIOUS
<1>1. NothingTypedIsLost
      BY DEF Init, NothingTypedIsLost
<1>2. EditorInv /\ SaveInv
      BY DEF Init, EditorInv, SaveInv, Call
<1>3. QED BY <1>1, <1>2, InitType DEF Inv

LEMMA InvStep == Inv /\ [Next]_vars => Inv'
<1> SUFFICES ASSUME Inv, [Next]_vars PROVE Inv'
    OBVIOUS
<1>1. TypeInv'
      BY TypeStep DEF Inv
<1>2. Typed'
      BY ServerKeepsTyped, HandlersKeepTyped, UserKeepsTyped, OthersKeepTyped DEF Next
<1>3. QED BY <1>1, <1>2 DEF Inv, Typed

(* What the user typed last in a note and neither saved nor cancelled is   *)
(* the draft of the note.                                                  *)
THEOREM DraftKeepsWhatWasTyped == Spec => []NothingTypedIsLost
<1>1. Inv => NothingTypedIsLost
      BY DEF Inv
<1>2. QED BY <1>1, InitInv, InvStep, PTL DEF Spec

(* The editor holds it, however the draft was resumed.                     *)
THEOREM EditorKeepsWhatWasTyped == Spec => []EditorHoldsWhatWasTyped
<1>1. Inv => EditorHoldsWhatWasTyped
      BY DEF Inv, EditorInv, EditorHoldsWhatWasTyped
<1>2. QED BY <1>1, InitInv, InvStep, PTL DEF Spec

(* A save that the server has accepted leaves nothing typed behind, unless *)
(* the user typed or the editor was reset meanwhile: what the answer takes *)
(* from the local storage is saved.                                        *)
THEOREM SavesTakeWhatWasTyped == Spec => []SaveInv
<1>1. Inv => SaveInv
      BY DEF Inv
<1>2. QED BY <1>1, InitInv, InvStep, PTL DEF Spec

-----------------------------------------------------------------------------
(* What is shown.  The messages that wait are about the last revisions, in *)
(* their order; those before were received.                                *)
IsOf(n, r) == r \in DOMAIN revisions /\ revisions[r].note = n
Received == Len(revisions) - Len(tlms)

HasTlm(n) == \E i \in DOMAIN tlms : tlms[i].note = n
HasChangeAfter(n, r) ==
    \E i \in DOMAIN tlms :
        tlms[i].note = n /\ tlms[i].event = "modified" /\ tlms[i].revision > r
HasChange(n) == \E i \in DOMAIN tlms : tlms[i].note = n /\ tlms[i].event = "modified"

TlmsInv ==
    /\ Received \in Nat
    /\ \A i \in DOMAIN tlms :
          /\ tlms[i].revision = Received + i
          /\ tlms[i].note = revisions[Received + i].note
          /\ tlms[i].event = "deleted" <=> revisions[Received + i].deleted

(* A revision after which the tab has received nothing about the note has  *)
(* the text of a later one, unless the news of a change wait.              *)
TextsInv ==
    \A n \in Note, q, r \in Nat :
        /\ IsOf(n, q) /\ IsOf(n, r) /\ q <= r
        /\ \A m \in Nat : IsOf(n, m) /\ m <= Received => m <= q
        => revisions[q].text = revisions[r].text \/ HasChangeAfter(n, q)

(* An answer is a revision, as it is; the load of a note is given one.     *)
IsAnswer(s) ==
    LET call == calls[s] IN
    /\ call.op \in {"load", "modified", "undeleted"} /\ (call.op = "load" \/ Given(call)) =>
          /\ IsOf(call.note, call.answer.revision)
          /\ call.answer.text = revisions[call.answer.revision].text
          /\ call.answer.deleted = revisions[call.answer.revision].deleted
    /\ call.op = "put" /\ call.answer.saved =>
          /\ IsOf(call.note, call.answer.revision)
          /\ call.text = revisions[call.answer.revision].text
          /\ ~revisions[call.answer.revision].deleted
AnswersInv == \A s \in Slot : Answered(s) => IsAnswer(s)

(* What the tab is about to read: the text, news of others, or any.        *)
ReadsText == \E s \in Slot : calls[s] # None /\ calls[s].op \in {"load", "modified"}
ReadsNews == \E s \in Slot : calls[s] # None /\ calls[s].op \in {"modified", "undeleted"}
ReadsAny == \E s \in Slot : calls[s] # None /\ calls[s].op \in {"load", "modified", "undeleted"}

(* While no handler was overtaken, the tab is about one note.              *)
OneNote(n) ==
    /\ opened = n
    /\ \A s \in Slot : calls[s] # None => calls[s].note = n
    /\ showRefreshWarning => newContent.id = n
    /\ mode = "revision" => \A s \in Slot : calls[s] # None => calls[s].op # "delete"

(* The tab knows of no revision of a note it has just opened and loads, or *)
(* of one that is at least as new as all it has received the messages of.  *)
ToldInv(n) ==
    IF told = 0
    THEN /\ loadingContent /\ ~showRefreshWarning
         /\ \E s \in Slot : calls[s] # None
         /\ \A s \in Slot : calls[s] # None =>
               /\ calls[s].op = "load"
               /\ calls[s].answer # None =>
                     \A r \in Nat : IsOf(n, r) /\ r <= Received => r <= calls[s].answer.revision
    ELSE /\ told \in DOMAIN revisions /\ revisions[told].note = n
         /\ \A r \in Nat : IsOf(n, r) /\ r <= Received => r <= told

(* What the tab shows, edits from and would show on "Refresh?" is the      *)
(* revision it knows of, unless something that tells otherwise is to come. *)
RawInv(n) == ReadsText \/ HasChange(n) \/ rawContentBeforeEdit = revisions[told].text
TextInv(n) ==
    \/ ReadsText \/ HasChange(n) \/ showRefreshWarning \/ content.deleted \/ mode # "view"
    \/ content.text = revisions[told].text
NewInv(n) ==
    \/ ReadsNews \/ HasTlm(n) \/ ~showRefreshWarning
    \/ newContent.deleted = revisions[told].deleted
DeletedInv(n) ==
    \/ ReadsAny \/ HasTlm(n) \/ showRefreshWarning
    \/ /\ content.deleted => revisions[told].deleted
       /\ mode # "revision" => content.deleted = revisions[told].deleted

ScreenInv(n) == RawInv(n) /\ TextInv(n) /\ NewInv(n) /\ DeletedInv(n)
TabInv(n) == OneNote(n) /\ ToldInv(n) /\ ScreenInv(n)
Undisturbed == ~raced /\ ~outdated /\ ~missed
ShownInv ==
    /\ TypeInv /\ TlmsInv /\ TextsInv /\ AnswersInv
    /\ \A n \in Note : Undisturbed /\ content.id = n => TabInv(n)

LEMMA ReviseFacts ==
    ASSUME ServerInv, NEW n \in Note, NEW text \in Nat, NEW deleted \in BOOLEAN,
           NEW event \in {"modified", "undeleted", "deleted"}, NEW mine \in BOOLEAN,
           Revise(n, text, deleted, event, mine)
    PROVE  /\ DOMAIN revisions = 1..Len(revisions) /\ Len(revisions) \in Nat
           /\ DOMAIN revisions' = 1..(Len(revisions) + 1) /\ Len(revisions') = Len(revisions) + 1
           /\ \A r \in DOMAIN revisions : revisions'[r] = revisions[r]
           /\ revisions'[Len(revisions) + 1] = [note |-> n, text |-> text, deleted |-> deleted]
           /\ DOMAIN tlms = 1..Len(tlms) /\ Len(tlms) \in Nat
           /\ DOMAIN tlms' = 1..(Len(tlms) + 1) /\ Len(tlms') = Len(tlms) + 1
           /\ \A i \in DOMAIN tlms : tlms'[i] = tlms[i]
           /\ tlms'[Len(tlms) + 1] = [event |-> event, note |-> n, mine |-> mine,
                                      revision |-> Len(revisions) + 1]
           /\ Received' = Received
<1> DEFINE new == [note |-> n, text |-> text, deleted |-> deleted]
           tlm == [event |-> event, note |-> n, mine |-> mine, revision |-> Len(revisions) + 1]
<1>1. /\ revisions \in Seq(Revision) /\ tlms \in Seq(Tlm)
      BY DEF ServerInv
<1>2. /\ DOMAIN revisions = 1..Len(revisions) /\ Len(revisions) \in Nat
      /\ DOMAIN tlms = 1..Len(tlms) /\ Len(tlms) \in Nat
      BY <1>1, LenProperties
<1>3. new \in Revision /\ tlm \in Tlm
      BY <1>2 DEF Revision, Tlm
<1>4. revisions' = Append(revisions, new) /\ tlms' = Append(tlms, tlm)
      BY DEF Revise
<1>5. /\ revisions' \in Seq(Revision) /\ Len(revisions') = Len(revisions) + 1
      /\ \A r \in DOMAIN revisions : revisions'[r] = revisions[r]
      /\ revisions'[Len(revisions) + 1] = new
      BY <1>1, <1>2, <1>3, <1>4, AppendProperties
<1>6. /\ tlms' \in Seq(Tlm) /\ Len(tlms') = Len(tlms) + 1
      /\ \A i \in DOMAIN tlms : tlms'[i] = tlms[i]
      /\ tlms'[Len(tlms) + 1] = tlm
      BY <1>1, <1>2, <1>3, <1>4, AppendProperties
<1>7. DOMAIN revisions' = 1..(Len(revisions) + 1) /\ DOMAIN tlms' = 1..(Len(tlms) + 1)
      BY <1>5, <1>6, LenProperties
<1>8. Received' = Received
      BY <1>2, <1>5, <1>6 DEF Received
<1>9. QED BY <1>2, <1>5, <1>6, <1>7, <1>8

(* What a step of the server that makes a revision may do: a text changes  *)
(* with a "modified" only.                                                 *)
Revises(n) ==
    \E text \in Nat, deleted \in BOOLEAN, event \in {"modified", "undeleted", "deleted"},
       mine \in BOOLEAN :
        /\ Revise(n, text, deleted, event, mine)
        /\ event = "deleted" <=> deleted
        /\ event # "modified" => text = CurrentText(n)

LEMMA ReviseKeepsTlms ==
    ASSUME ServerInv, TlmsInv, NEW n \in Note, Revises(n)
    PROVE  TlmsInv'
<1> PICK text \in Nat, deleted \in BOOLEAN, event \in {"modified", "undeleted", "deleted"},
         mine \in BOOLEAN :
        Revise(n, text, deleted, event, mine) /\ (event = "deleted" <=> deleted)
    BY DEF Revises
<1>1. /\ DOMAIN tlms = 1..Len(tlms) /\ Len(tlms) \in Nat /\ Len(revisions) \in Nat
      /\ DOMAIN tlms' = 1..(Len(tlms) + 1) /\ Received' = Received
      BY ReviseFacts
<1>2. ASSUME NEW i \in DOMAIN tlms'
      PROVE  /\ tlms'[i].revision = Received + i
             /\ tlms'[i].note = revisions'[Received + i].note
             /\ tlms'[i].event = "deleted" <=> revisions'[Received + i].deleted
      <2>1. CASE i \in DOMAIN tlms
            <3>1. /\ tlms[i].revision = Received + i
                  /\ tlms[i].note = revisions[Received + i].note
                  /\ tlms[i].event = "deleted" <=> revisions[Received + i].deleted
                  BY <2>1 DEF TlmsInv
            <3>2. Received + i \in DOMAIN revisions
                  BY <1>1, <2>1, ReviseFacts DEF TlmsInv, Received
            <3>3. tlms'[i] = tlms[i] /\ revisions'[Received + i] = revisions[Received + i]
                  BY <2>1, <3>2, ReviseFacts
            <3>4. QED BY <3>1, <3>3
      <2>2. CASE i = Len(tlms) + 1
            <3>1. Received + i = Len(revisions) + 1
                  BY <1>1, <2>2 DEF Received
            <3>2. /\ tlms'[i] = [event |-> event, note |-> n, mine |-> mine,
                                 revision |-> Len(revisions) + 1]
                  /\ revisions'[Len(revisions) + 1] = [note |-> n, text |-> text, deleted |-> deleted]
                  BY <2>2, ReviseFacts
            <3>3. QED BY <3>1, <3>2
      <2>3. QED BY <1>1, <2>1, <2>2
<1>3. QED BY <1>1, <1>2 DEF TlmsInv

LEMMA ReviseKeepsTexts ==
    ASSUME ServerInv, TlmsInv, TextsInv, NEW n \in Note, Revises(n)
    PROVE  TextsInv'
<1> PICK text \in Nat, deleted \in BOOLEAN, event \in {"modified", "undeleted", "deleted"},
         mine \in BOOLEAN :
        /\ Revise(n, text, deleted, event, mine)
        /\ event # "modified" => text = CurrentText(n)
    BY DEF Revises
<1> DEFINE last == Len(revisions) + 1
<1>0. /\ revisions'[last] = [note |-> n, text |-> text, deleted |-> deleted]
      /\ tlms'[Len(tlms) + 1] = [event |-> event, note |-> n, mine |-> mine, revision |-> last]
      BY ReviseFacts
<1>1. /\ DOMAIN revisions = 1..Len(revisions) /\ Len(revisions) \in Nat
      /\ DOMAIN revisions' = 1..last
      /\ \A r \in DOMAIN revisions : revisions'[r] = revisions[r]
      /\ revisions'[last].note = n /\ revisions'[last].text = text
      /\ DOMAIN tlms = 1..Len(tlms) /\ Len(tlms) \in Nat
      /\ DOMAIN tlms' = 1..(Len(tlms) + 1)
      /\ \A i \in DOMAIN tlms : tlms'[i] = tlms[i]
      /\ tlms'[Len(tlms) + 1].event = event /\ tlms'[Len(tlms) + 1].note = n
      /\ Received' = Received
      BY <1>0, ReviseFacts
<1>2. Received \in Nat /\ Received < last
      BY <1>1 DEF TlmsInv, Received
<1>3. ASSUME NEW k \in Note, NEW q \in Nat, HasChangeAfter(k, q)
      PROVE  HasChangeAfter(k, q)'
      BY <1>1, <1>3 DEF HasChangeAfter
<1>4. ASSUME NEW q \in DOMAIN revisions, event = "modified"
      PROVE  HasChangeAfter(n, q)'
      BY <1>0, <1>1, <1>4 DEF HasChangeAfter
<1>5. ASSUME NEW k \in Note, NEW r \in Nat
      PROVE  IsOf(k, r)' <=> IsOf(k, r) \/ (k = n /\ r = last)
      BY <1>1 DEF IsOf
<1>6. ASSUME NEW k \in Note, NEW q \in Nat, NEW r \in Nat, IsOf(k, q)', IsOf(k, r)', q <= r,
             \A m \in Nat : IsOf(k, m)' /\ m <= Received' => m <= q
      PROVE  revisions'[q].text = revisions'[r].text \/ HasChangeAfter(k, q)'
      <2>1. \A m \in Nat : IsOf(k, m) /\ m <= Received => m <= q
            BY <1>1, <1>5, <1>6
      <2>2. CASE IsOf(k, r)
            <3>1. IsOf(k, q)
                  BY <1>1, <1>5, <1>6, <2>2 DEF IsOf
            <3>2. revisions[q].text = revisions[r].text \/ HasChangeAfter(k, q)
                  BY <1>6, <2>1, <2>2, <3>1 DEF TextsInv
            <3>3. QED BY <1>1, <1>3, <2>2, <3>1, <3>2 DEF IsOf
      <2>3. CASE k = n /\ r = last /\ IsOf(k, q)
            <3>1. IsOf(n, Current(n)) /\ q <= Current(n) /\ Current(n) \in Nat
                  <4>1. PICK c \in DOMAIN revisions : IsCurrent(n, c)
                        BY DEF ServerInv
                  <4>2. IsCurrent(n, Current(n)) /\ Current(n) \in DOMAIN revisions
                        BY <4>1 DEF Current, IsCurrent
                  <4>3. QED BY <1>1, <2>3, <4>2 DEF IsCurrent, IsOf
            <3>2. revisions[q].text = revisions[Current(n)].text \/ HasChangeAfter(n, q)
                  BY <1>6, <2>1, <2>3, <3>1 DEF TextsInv
            <3>3. CASE HasChangeAfter(n, q)
                  BY <1>3, <2>3, <3>3
            <3>4. CASE revisions[q].text = revisions[Current(n)].text
                  BY <1>1, <1>4, <2>3, <3>4 DEF CurrentText, IsOf
            <3>5. QED BY <3>2, <3>3, <3>4
      <2>4. CASE q = last /\ r = last
            BY <2>4
      <2>5. QED BY <1>1, <1>5, <1>6, <2>2, <2>3, <2>4 DEF IsOf
<1>7. QED BY <1>6 DEF TextsInv

LEMMA TailFacts ==
    ASSUME ServerInv, TlmsInv, tlms # <<>>, tlms' = Tail(tlms), UNCHANGED revisions
    PROVE  /\ Received \in Nat /\ Received' = Received + 1
           /\ Received' \in DOMAIN revisions /\ Head(tlms) \in Tlm
           /\ Head(tlms).revision = Received'
           /\ Head(tlms).note = revisions[Received'].note
           /\ Head(tlms).event = "deleted" <=> revisions[Received'].deleted
           /\ DOMAIN tlms' \subseteq DOMAIN tlms
           /\ \A i \in DOMAIN tlms' : tlms'[i] = tlms[i + 1] /\ i + 1 \in DOMAIN tlms
           /\ \A i \in DOMAIN tlms : i = 1 \/ (i - 1 \in DOMAIN tlms' /\ tlms[i] = tlms'[i - 1])
           /\ 1 \in DOMAIN tlms /\ tlms[1] = Head(tlms)
<1>1. /\ revisions \in Seq(Revision) /\ tlms \in Seq(Tlm)
      BY DEF ServerInv
<1>2. /\ DOMAIN revisions = 1..Len(revisions) /\ Len(revisions) \in Nat
      /\ DOMAIN tlms = 1..Len(tlms) /\ Len(tlms) \in Nat
      BY <1>1, LenProperties
<1>3. /\ Head(tlms) \in Tlm /\ tlms' \in Seq(Tlm) /\ Len(tlms') = Len(tlms) - 1
      /\ \A i \in 1..Len(tlms') : tlms'[i] = tlms[i + 1]
      BY <1>1, HeadTailProperties
<1>4. DOMAIN tlms' = 1..Len(tlms') /\ Len(tlms') \in Nat
      BY <1>3, LenProperties
<1>5. Len(tlms) >= 1
      BY <1>2, <1>3, <1>4
<1>6. Head(tlms) = tlms[1] /\ 1 \in DOMAIN tlms
      BY <1>1, <1>2, <1>5
<1>7. Received \in Nat /\ Received' = Received + 1 /\ Received' \in DOMAIN revisions
      BY <1>2, <1>3, <1>4 DEF Received, TlmsInv
<1>8. /\ tlms[1].revision = Received'
      /\ tlms[1].note = revisions[Received'].note
      /\ tlms[1].event = "deleted" <=> revisions[Received'].deleted
      BY <1>6, <1>7 DEF TlmsInv
<1>9. /\ DOMAIN tlms' \subseteq DOMAIN tlms
      /\ \A i \in DOMAIN tlms' : tlms'[i] = tlms[i + 1] /\ i + 1 \in DOMAIN tlms
      /\ \A i \in DOMAIN tlms : i = 1 \/ (i - 1 \in DOMAIN tlms' /\ tlms[i] = tlms'[i - 1])
      BY <1>2, <1>3, <1>4
<1>10. QED BY <1>3, <1>6, <1>7, <1>8, <1>9

LEMMA TailKeepsTlms ==
    ASSUME ServerInv, TlmsInv, tlms # <<>>, tlms' = Tail(tlms), UNCHANGED revisions
    PROVE  TlmsInv'
<1>1. ASSUME NEW i \in DOMAIN tlms'
      PROVE  /\ tlms'[i].revision = Received' + i
             /\ tlms'[i].note = revisions[Received' + i].note
             /\ tlms'[i].event = "deleted" <=> revisions[Received' + i].deleted
      <2>1. tlms'[i] = tlms[i + 1] /\ i + 1 \in DOMAIN tlms /\ Received' + i = Received + (i + 1)
            <3>1. i \in Nat
                  BY LenProperties, TailFacts DEF ServerInv
            <3>2. QED BY <3>1, TailFacts
      <2>2. QED BY <2>1 DEF TlmsInv
<1>2. Received' \in Nat
      BY TailFacts
<1>3. QED BY <1>1, <1>2 DEF TlmsInv

LEMMA TailKeepsTexts ==
    ASSUME ServerInv, TlmsInv, TextsInv, tlms # <<>>, tlms' = Tail(tlms), UNCHANGED revisions
    PROVE  TextsInv'
<1>1. ASSUME NEW k \in Note, NEW q \in Nat, NEW r \in Nat, IsOf(k, q), IsOf(k, r), q <= r,
             \A m \in Nat : IsOf(k, m) /\ m <= Received' => m <= q
      PROVE  revisions[q].text = revisions[r].text \/ HasChangeAfter(k, q)'
      <2>1. Received \in Nat /\ Received' = Received + 1 /\ Received' \in DOMAIN revisions
            BY TailFacts
      <2>2. \A m \in Nat : IsOf(k, m) /\ m <= Received => m <= q
            BY <1>1, <2>1
      <2>3. revisions[q].text = revisions[r].text \/ HasChangeAfter(k, q)
            BY <1>1, <2>2 DEF TextsInv
      <2>4. ASSUME HasChangeAfter(k, q)
            PROVE  HasChangeAfter(k, q)'
            <3>1. PICK i \in DOMAIN tlms :
                    tlms[i].note = k /\ tlms[i].event = "modified" /\ tlms[i].revision > q
                  BY <2>4 DEF HasChangeAfter
            <3>2. i # 1
                  <4>1. SUFFICES ASSUME i = 1 PROVE FALSE
                        OBVIOUS
                  <4>2. Received' > q /\ revisions[Received'].note = k
                        BY <3>1, <4>1, TailFacts
                  <4>3. QED BY <1>1, <2>1, <4>2 DEF IsOf
            <3>3. i - 1 \in DOMAIN tlms' /\ tlms'[i - 1] = tlms[i]
                  BY <3>2, TailFacts
            <3>4. QED BY <3>1, <3>3 DEF HasChangeAfter
      <2>5. QED BY <2>3, <2>4
<1>2. \A k \in Note, r \in Nat : IsOf(k, r)' <=> IsOf(k, r)
      BY DEF IsOf
<1>3. QED BY <1>1, <1>2 DEF TextsInv

(* What waits after a message was received.                                *)
LEMMA TailWaits ==
    ASSUME ServerInv, TlmsInv, tlms # <<>>, tlms' = Tail(tlms), UNCHANGED revisions, NEW n \in Note
    PROVE  /\ HasTlm(n)' => HasTlm(n)
           /\ HasTlm(n) => HasTlm(n)' \/ Head(tlms).note = n
           /\ HasChange(n) => HasChange(n)' \/ (Head(tlms).note = n /\ Head(tlms).event = "modified")
<1>1. HasTlm(n)' => HasTlm(n)
      BY TailFacts DEF HasTlm
<1>2. HasTlm(n) => HasTlm(n)' \/ Head(tlms).note = n
      BY TailFacts DEF HasTlm
<1>3. HasChange(n) => HasChange(n)' \/ (Head(tlms).note = n /\ Head(tlms).event = "modified")
      BY TailFacts DEF HasChange
<1>4. QED BY <1>1, <1>2, <1>3

(* What the server does leaves of the tab's knowledge: revisions stay, and *)
(* nothing is received.                                                    *)
ServerGrows(n) ==
    /\ \A r \in DOMAIN revisions : r \in DOMAIN revisions' /\ revisions'[r] = revisions[r]
    /\ \A r \in Nat : IsOf(n, r)' /\ r <= Received' => IsOf(n, r) /\ r <= Received
    /\ HasTlm(n) => HasTlm(n)'
    /\ HasChange(n) => HasChange(n)'

LEMMA SameServer ==
    ASSUME UNCHANGED <<revisions, tlms>>
    PROVE  /\ \A n \in Note : ServerGrows(n)
           /\ TlmsInv => TlmsInv'
           /\ TextsInv => TextsInv'
<1>1. Received' = Received
      BY DEF Received
<1>2. \A n, r : IsOf(n, r)' <=> IsOf(n, r)
      BY DEF IsOf
<1>3. \A n, r : HasChangeAfter(n, r)' <=> HasChangeAfter(n, r)
      BY DEF HasChangeAfter
<1>4. \A n \in Note : ServerGrows(n)
      BY <1>1, <1>2 DEF ServerGrows, HasTlm, HasChange
<1>5. TlmsInv => TlmsInv'
      BY <1>1 DEF TlmsInv
<1>6. TextsInv => TextsInv'
      BY <1>1, <1>2, <1>3 DEF TextsInv
<1>7. QED BY <1>4, <1>5, <1>6

LEMMA ReviseGrows ==
    ASSUME ServerInv, TlmsInv, NEW k \in Note, Revises(k), NEW n \in Note
    PROVE  ServerGrows(n)
<1> PICK text \in Nat, deleted \in BOOLEAN, event \in {"modified", "undeleted", "deleted"},
         mine \in BOOLEAN : Revise(k, text, deleted, event, mine)
    BY DEF Revises
<1>1. /\ DOMAIN revisions = 1..Len(revisions) /\ Len(revisions) \in Nat
      /\ DOMAIN revisions' = 1..(Len(revisions) + 1)
      /\ \A r \in DOMAIN revisions : revisions'[r] = revisions[r]
      /\ DOMAIN tlms = 1..Len(tlms) /\ Len(tlms) \in Nat
      /\ DOMAIN tlms' = 1..(Len(tlms) + 1)
      /\ \A i \in DOMAIN tlms : tlms'[i] = tlms[i]
      /\ Received' = Received
      BY ReviseFacts
<1>2. Received <= Len(revisions) /\ Received \in Nat
      BY <1>1 DEF Received, TlmsInv
<1>3. ASSUME NEW r \in Nat, IsOf(n, r)', r <= Received
      PROVE  IsOf(n, r)
      BY <1>1, <1>2, <1>3 DEF IsOf
<1>4. HasTlm(n) => HasTlm(n)'
      BY <1>1 DEF HasTlm
<1>5. HasChange(n) => HasChange(n)'
      BY <1>1 DEF HasChange
<1>6. \A r \in DOMAIN revisions : r \in DOMAIN revisions' /\ revisions'[r] = revisions[r]
      BY <1>1
<1>7. QED BY <1>1, <1>3, <1>4, <1>5, <1>6 DEF ServerGrows

(* Answers stay what they are.                                             *)
LEMMA AnswersKept ==
    ASSUME TypeInv, AnswersInv,
           \A r \in DOMAIN revisions : r \in DOMAIN revisions' /\ revisions'[r] = revisions[r],
           \A s \in Slot : Answered(s)' => (Answered(s) /\ calls'[s] = calls[s]) \/ IsAnswer(s)'
    PROVE  AnswersInv'
<1> SUFFICES ASSUME NEW s \in Slot, Answered(s)', Answered(s), calls'[s] = calls[s]
             PROVE  IsAnswer(s)'
    BY DEF AnswersInv
<1>1. IsAnswer(s)
      BY DEF AnswersInv
<1>2. QED BY <1>1 DEF IsAnswer, IsOf

(* A step that leaves the screen alone.                                    *)
CallsGoOn(n) ==
    \A s \in Slot :
        /\ calls[s] # None /\ calls[s].op \in {"load", "modified", "undeleted"} =>
              calls'[s] # None /\ calls'[s].op = calls[s].op
        /\ calls'[s] # None =>
              \/ calls'[s] = calls[s]
              \/ /\ calls[s] # None /\ calls'[s].op = calls[s].op /\ calls'[s].note = calls[s].note
                 /\ calls[s].op = "load" =>
                       \A r \in Nat : IsOf(n, r) => r <= calls'[s].answer.revision
              \/ /\ told # 0 /\ calls'[s].note = n
                 /\ calls'[s].op = "delete" => mode # "revision"

LEMMA ReadsGoOn ==
    ASSUME NEW n \in Note, CallsGoOn(n)
    PROVE  /\ ReadsText => ReadsText'
           /\ ReadsNews => ReadsNews'
           /\ ReadsAny => ReadsAny'
BY DEF CallsGoOn, ReadsText, ReadsNews, ReadsAny

LEMMA ScreenKept ==
    ASSUME NEW n \in Note, TabInv(n), ServerGrows(n), CallsGoOn(n),
           UNCHANGED <<content, newContent, rawContentBeforeEdit, mode, showRefreshWarning, told>>
    PROVE  ScreenInv(n)'
<1>1. /\ HasTlm(n) => HasTlm(n)'
      /\ HasChange(n) => HasChange(n)'
      BY DEF ServerGrows
<1>2. CASE told = 0
      <2>1. ~showRefreshWarning /\ ReadsText /\ ReadsAny
            BY <1>2 DEF TabInv, ToldInv, ReadsText, ReadsAny
      <2>2. QED BY <2>1, ReadsGoOn DEF ScreenInv, RawInv, TextInv, NewInv, DeletedInv
<1>3. CASE told # 0
      <2>1. revisions'[told] = revisions[told]
            BY <1>3 DEF TabInv, ToldInv, ServerGrows
      <2>2. RawInv(n)'
            BY <1>1, <2>1, ReadsGoOn DEF TabInv, ScreenInv, RawInv
      <2>3. TextInv(n)'
            BY <1>1, <2>1, ReadsGoOn DEF TabInv, ScreenInv, TextInv
      <2>4. NewInv(n)'
            BY <1>1, <2>1, ReadsGoOn DEF TabInv, ScreenInv, NewInv
      <2>5. DeletedInv(n)'
            BY <1>1, <2>1, ReadsGoOn DEF TabInv, ScreenInv, DeletedInv
      <2>6. QED BY <2>2, <2>3, <2>4, <2>5 DEF ScreenInv
<1>4. QED BY <1>2, <1>3

LEMMA ToldKept ==
    ASSUME NEW n \in Note, TabInv(n), ServerGrows(n), CallsGoOn(n),
           UNCHANGED <<showRefreshWarning, told>>, told = 0 => UNCHANGED loadingContent
    PROVE  ToldInv(n)'
<1>1. CASE told = 0
      <2>1. /\ loadingContent' /\ ~showRefreshWarning'
            /\ \E s \in Slot : calls'[s] # None
            BY <1>1 DEF TabInv, ToldInv, CallsGoOn
      <2>2. ASSUME NEW s \in Slot, calls'[s] # None
            PROVE  /\ calls'[s].op = "load"
                   /\ calls'[s].answer # None =>
                         \A r \in Nat : IsOf(n, r)' /\ r <= Received' =>
                                          r <= calls'[s].answer.revision
            BY <1>1, <2>2 DEF TabInv, ToldInv, CallsGoOn, ServerGrows
      <2>3. QED BY <1>1, <2>1, <2>2 DEF ToldInv
<1>2. CASE told # 0
      BY <1>2 DEF TabInv, ToldInv, ServerGrows
<1>3. QED BY <1>1, <1>2

LEMMA TabKept ==
    ASSUME NEW n \in Note, TabInv(n), ServerGrows(n), CallsGoOn(n),
           UNCHANGED <<content, newContent, rawContentBeforeEdit, mode, showRefreshWarning, told,
                       opened, loadingContent>>
    PROVE  TabInv(n)'
<1>1. OneNote(n)'
      BY DEF TabInv, OneNote, CallsGoOn
<1>2. QED BY <1>1, ToldKept, ScreenKept DEF TabInv

(* A revision is made and the tab does not take notice.                    *)
LEMMA RevisionShown ==
    ASSUME ShownInv, TypeInv', NEW k \in Note, Revises(k), AnswersInv',
           \A n \in Note : TabInv(n) => CallsGoOn(n),
           UNCHANGED <<opened, noteVars, newVars, raceVars>>
    PROVE  ShownInv'
<1> TypeInv /\ ServerInv /\ TlmsInv /\ TextsInv
    BY DEF ShownInv, TypeInv
<1>1. TlmsInv' /\ TextsInv'
      BY ReviseKeepsTlms, ReviseKeepsTexts
<1>2. ASSUME NEW n \in Note, Undisturbed', content'.id = n
      PROVE  TabInv(n)'
      <2>1. TabInv(n) /\ ServerGrows(n) /\ CallsGoOn(n)
            BY <1>2, ReviseGrows DEF ShownInv, Undisturbed, noteVars, raceVars
      <2>2. QED BY <2>1, TabKept DEF noteVars, newVars, raceVars
<1>3. QED BY <1>1, <1>2 DEF ShownInv

LEMMA SameCalls ==
    ASSUME UNCHANGED calls
    PROVE  \A n \in Note : CallsGoOn(n)
BY DEF CallsGoOn

LEMMA OthersShown ==
    ASSUME ShownInv, TypeInv',
           \/ \E n \in Note : OthersAct(n)
           \/ HandleChangeStatus \/ HandleSaveEditTitle \/ HandleClickRestoreDelete
    PROVE  ShownInv'
<1> /\ TypeInv /\ ServerInv /\ content.id \in Note /\ content.text \in Nat /\ texts + 1 \in Nat
    BY DEF ShownInv, TypeInv, TypeOK, ServerInv, Text
<1>1. ASSUME NEW n \in Note, NEW mine \in BOOLEAN, KeepText(n, mine) \/ Restore(n, mine)
      PROVE  Revises(n)
      <2>1. CurrentText(n) \in Nat
            BY CurrentType
      <2>2. \/ Revise(n, CurrentText(n), FALSE, "modified", mine)
            \/ Revise(n, CurrentText(n), FALSE, "undeleted", mine)
            BY <1>1 DEF KeepText, Restore
      <2>3. QED BY <2>1, <2>2 DEF Revises
<1>2. ASSUME NEW n \in Note, OthersSave(n) \/ OthersDelete(n)
      PROVE  Revises(n)
      <2>1. CurrentText(n) \in Nat
            BY CurrentType
      <2>2. \/ Revise(n, texts + 1, FALSE, "modified", FALSE)
            \/ Revise(n, CurrentText(n), TRUE, "deleted", FALSE)
            BY <1>2 DEF OthersSave, OthersDelete
      <2>3. QED BY <2>1, <2>2 DEF Revises
<1>3. HandleSaveEditTitle => Revises(content.id)
      BY DEF HandleSaveEditTitle, Revises
<1>4. \E k \in Note : Revises(k)
      <2>1. ASSUME NEW n \in Note, OthersAct(n)
            PROVE  Revises(n)
            BY <1>1, <1>2, <2>1 DEF OthersAct
      <2>2. HandleChangeStatus => Revises(content.id)
            BY <1>1 DEF HandleChangeStatus
      <2>3. HandleClickRestoreDelete => Revises(content.id)
            BY <1>1 DEF HandleClickRestoreDelete
      <2>4. QED BY <1>3, <2>1, <2>2, <2>3
<1>5. UNCHANGED <<opened, noteVars, newVars, calls, raceVars>>
      BY DEF OthersAct, HandleChangeStatus, HandleSaveEditTitle, HandleClickRestoreDelete
<1>6. PICK k \in Note : Revises(k)
      BY <1>4
<1>7. AnswersInv'
      <2>1. ServerGrows(k)
            BY <1>6, ReviseGrows DEF ShownInv
      <2>2. \A s \in Slot : Answered(s)' => Answered(s) /\ calls'[s] = calls[s]
            BY <1>5 DEF Answered
      <2>3. QED BY <2>1, <2>2, AnswersKept DEF ShownInv, ServerGrows
<1>8. QED BY <1>5, <1>6, <1>7, SameCalls, RevisionShown

LEMMA CallIsSome == \A call \in Calls : call # None
<1>1. Note \subseteq Nat
      BY BoundAssumption DEF Note
<1>2. QED BY <1>1, NoneAssumption DEF Calls, CallOf

LEMMA SavedRevision ==
    ASSUME ServerInv, NEW n \in Note, NEW text \in Nat, NEW deleted \in BOOLEAN,
           NEW event \in {"modified", "undeleted", "deleted"}, NEW mine \in BOOLEAN,
           Revise(n, text, deleted, event, mine)
    PROVE  /\ Len(revisions) + 1 \in DOMAIN revisions'
           /\ revisions'[Len(revisions) + 1] = [note |-> n, text |-> text, deleted |-> deleted]
<1>1. /\ DOMAIN revisions' = 1..(Len(revisions) + 1) /\ Len(revisions) \in Nat
      /\ revisions'[Len(revisions) + 1] = [note |-> n, text |-> text, deleted |-> deleted]
      BY ReviseFacts
<1>2. QED BY <1>1

(* An answer given to a call: it goes on.                                  *)
LEMMA AnswerGoesOn ==
    ASSUME TypeInv, TypeInv', NEW s \in Slot, NEW answer, calls[s] # None,
           \/ calls[s].op \in {"load", "modified", "undeleted"} /\ answer \in Reading
           \/ calls[s].op \in {"put", "delete"} /\ answer \in Verdict,
           calls' = [calls EXCEPT ![s].answer = answer],
           calls[s].op = "load" =>
               \A r \in Nat : IsOf(calls[s].note, r) => r <= answer.revision
    PROVE  /\ \A n \in Note : TabInv(n) => CallsGoOn(n)
           /\ calls'[s].op = calls[s].op /\ calls'[s].note = calls[s].note
           /\ calls'[s].text = calls[s].text /\ calls'[s].answer = answer
           /\ \A q \in Slot \ {s} : calls'[q] = calls[q]
<1>1. calls'[s] = [calls[s] EXCEPT !.answer = answer] /\ calls[s] \in Calls
      BY CallType DEF TypeInv
<1>2. /\ calls'[s].op = calls[s].op /\ calls'[s].note = calls[s].note
      /\ calls'[s].text = calls[s].text /\ calls'[s].answer = answer
      BY <1>1 DEF Calls, CallOf
<1>3. \A q \in Slot \ {s} : calls'[q] = calls[q]
      BY DEF TypeInv
<1>4. calls'[s] # None
      BY <1>1, AnswerType, CallIsSome
<1>5. ASSUME NEW n \in Note, TabInv(n)
      PROVE  CallsGoOn(n)
      BY <1>2, <1>3, <1>4, <1>5 DEF TabInv, OneNote, CallsGoOn
<1>6. QED BY <1>2, <1>3, <1>5

LEMMA ServerShown ==
    ASSUME ShownInv, TypeInv', NEW s \in Slot, ServerAnswers(s)
    PROVE  ShownInv'
<1> /\ TypeInv /\ ServerInv /\ TlmsInv /\ TextsInv /\ AnswersInv
    BY DEF ShownInv, TypeInv
<1> DEFINE call == calls[s]
<1>1. call # None /\ call \in Calls /\ call.note \in Note /\ call.text \in Nat
      BY CallType DEF ServerAnswers, Reads, RefusesToRead, Saves, Deletes, Refuses, Asks
<1>2. UNCHANGED <<opened, noteVars, newVars, raceVars>>
      BY DEF ServerAnswers
<1>3. CASE Reads(s)
      <2>1. UNCHANGED <<revisions, tlms>> /\ call.op \in {"load", "modified", "undeleted"}
            BY <1>3 DEF Reads, Asks
      <2>2. PICK answer \in Reading :
              /\ calls' = [calls EXCEPT ![s].answer = answer]
              /\ answer.revision = Current(call.note) /\ answer.text = CurrentText(call.note)
              /\ answer.deleted = IsDeleted(call.note)
            <3>1. PICK created \in BOOLEAN :
                    calls' = [calls EXCEPT ![s].answer =
                      [revision |-> Current(call.note), text |-> CurrentText(call.note),
                       deleted |-> IsDeleted(call.note), created |-> created]]
                  BY <1>3 DEF Reads
            <3>2. [revision |-> Current(call.note), text |-> CurrentText(call.note),
                   deleted |-> IsDeleted(call.note), created |-> created] \in Reading
                  BY <1>1, CurrentType DEF Reading
            <3>3. QED BY <3>1, <3>2
      <2>3. /\ IsOf(call.note, Current(call.note))
            /\ \A r \in Nat : IsOf(call.note, r) => r <= Current(call.note)
            <3>1. PICK c \in DOMAIN revisions : IsCurrent(call.note, c)
                  BY <1>1 DEF ServerInv
            <3>2. IsCurrent(call.note, Current(call.note)) /\ Current(call.note) \in DOMAIN revisions
                  BY <3>1 DEF Current, IsCurrent
            <3>3. QED BY <3>2 DEF IsCurrent, IsOf
      <2>4. /\ \A n \in Note : TabInv(n) => CallsGoOn(n)
            /\ calls'[s].op = call.op /\ calls'[s].note = call.note /\ calls'[s].answer = answer
            /\ \A q \in Slot \ {s} : calls'[q] = calls[q]
            BY <1>1, <2>1, <2>2, <2>3, AnswerGoesOn
      <2>5. IsAnswer(s)'
            BY <2>1, <2>2, <2>3, <2>4 DEF IsAnswer, IsOf, CurrentText, IsDeleted
      <2>6. AnswersInv'
            BY <2>1, <2>4, <2>5, AnswersKept DEF Answered
      <2>7. ASSUME NEW n \in Note, Undisturbed', content'.id = n
            PROVE  TabInv(n)'
            <3>1. TabInv(n) /\ ServerGrows(n) /\ CallsGoOn(n)
                  BY <1>2, <2>1, <2>4, <2>7, SameServer DEF ShownInv, Undisturbed, noteVars, raceVars
            <3>2. QED BY <1>2, <3>1, TabKept DEF noteVars, newVars, raceVars
      <2>8. QED BY <2>1, <2>6, <2>7, SameServer DEF ShownInv
<1>4. CASE Saves(s) \/ Deletes(s)
      <2> DEFINE last == Len(revisions) + 1
                 answer == [revision |-> last, saved |-> TRUE]
      <2>1. last \in Nat
            BY LenProperties DEF ServerInv
      <2>2. /\ calls' = [calls EXCEPT ![s].answer = answer] /\ answer \in Verdict
            /\ call.op \in {"put", "delete"}
            BY <1>4, <2>1 DEF Saves, Deletes, Asks, Verdict
      <2>3. /\ \A n \in Note : TabInv(n) => CallsGoOn(n)
            /\ calls'[s].op = call.op /\ calls'[s].note = call.note
            /\ calls'[s].text = call.text /\ calls'[s].answer = answer
            /\ \A q \in Slot \ {s} : calls'[q] = calls[q]
            <3> HIDE DEF answer
            <3>1. QED BY <1>1, <2>2, AnswerGoesOn
      <2>4. Revises(call.note)
            <3>1. CASE Saves(s)
                  BY <1>1, <3>1 DEF Saves, Revises
            <3>2. CASE Deletes(s)
                  <4>1. CurrentText(call.note) \in Nat
                        BY <1>1, CurrentType
                  <4>2. QED BY <3>2, <4>1 DEF Deletes, Revises
            <3>3. QED BY <1>4, <3>1, <3>2
      <2>5. IsAnswer(s)'
            <3>1. CASE Saves(s)
                  <4>1. Revise(call.note, call.text, FALSE, "modified", TRUE) /\ call.op = "put"
                        BY <3>1 DEF Saves, Asks
                  <4>2. /\ last \in DOMAIN revisions'
                        /\ revisions'[last] = [note |-> call.note, text |-> call.text, deleted |-> FALSE]
                        <5>1. PICK k \in Note, text \in Nat, deleted \in BOOLEAN,
                                   event \in {"modified", "undeleted", "deleted"}, mine \in BOOLEAN :
                                /\ Revise(k, text, deleted, event, mine)
                                /\ k = call.note /\ text = call.text /\ ~deleted
                              BY <1>1, <4>1
                        <5>2. /\ last \in DOMAIN revisions'
                              /\ revisions'[last] = [note |-> k, text |-> text, deleted |-> deleted]
                              BY <5>1, SavedRevision
                        <5>3. QED BY <5>1, <5>2
                  <4>3. QED BY <2>3, <4>1, <4>2 DEF IsAnswer, IsOf
            <3>2. CASE Deletes(s)
                  BY <2>3, <3>2 DEF Deletes, Asks, IsAnswer
            <3>3. QED BY <1>4, <3>1, <3>2
      <2>6. ServerGrows(call.note)
            BY <1>1, <2>4, ReviseGrows
      <2>7. AnswersInv'
            BY <2>3, <2>5, <2>6, AnswersKept DEF Answered, ServerGrows
      <2>8. QED BY <1>1, <1>2, <2>3, <2>4, <2>7, RevisionShown
<1>5. CASE Refuses(s)
      <2> DEFINE answer == [revision |-> 0, saved |-> FALSE]
      <2>1. /\ calls' = [calls EXCEPT ![s].answer = answer] /\ answer \in Verdict
            /\ call.op \in {"put", "delete"} /\ UNCHANGED <<revisions, tlms>>
            BY <1>5 DEF Refuses, Asks, Verdict
      <2>2. /\ \A n \in Note : TabInv(n) => CallsGoOn(n)
            /\ calls'[s].op = call.op /\ calls'[s].answer = answer
            /\ \A q \in Slot \ {s} : calls'[q] = calls[q]
            <3> HIDE DEF answer
            <3>1. QED BY <1>1, <2>1, AnswerGoesOn
      <2>3. IsAnswer(s)'
            BY <2>1, <2>2 DEF IsAnswer
      <2>4. AnswersInv'
            BY <2>1, <2>2, <2>3, AnswersKept DEF Answered
      <2>5. ASSUME NEW n \in Note, Undisturbed', content'.id = n
            PROVE  TabInv(n)'
            <3>1. TabInv(n) /\ ServerGrows(n) /\ CallsGoOn(n)
                  BY <1>2, <2>1, <2>2, <2>5, SameServer DEF ShownInv, Undisturbed, noteVars, raceVars
            <3>2. QED BY <1>2, <3>1, TabKept DEF noteVars, newVars, raceVars
      <2>6. QED BY <2>1, <2>4, <2>5, SameServer DEF ShownInv
<1>6. CASE RefusesToRead(s)
      <2> DEFINE answer == [revision |-> 0, text |-> 0, deleted |-> FALSE, created |-> FALSE]
      <2>1. /\ calls' = [calls EXCEPT ![s].answer = answer] /\ answer \in Reading
            /\ call.op \in {"modified", "undeleted"} /\ UNCHANGED <<revisions, tlms>>
            BY <1>6 DEF RefusesToRead, Asks, Reading
      <2>2. /\ \A n \in Note : TabInv(n) => CallsGoOn(n)
            /\ calls'[s].op = call.op /\ calls'[s].answer = answer
            /\ \A q \in Slot \ {s} : calls'[q] = calls[q]
            <3> HIDE DEF answer
            <3>1. QED BY <1>1, <2>1, AnswerGoesOn
      <2>3. IsAnswer(s)'
            <3>1. calls'[s].answer.revision = 0 /\ calls'[s].op \in {"modified", "undeleted"}
                  BY <2>1, <2>2
            <3>2. QED BY <3>1 DEF IsAnswer, Given
      <2>4. AnswersInv'
            BY <2>1, <2>2, <2>3, AnswersKept DEF Answered
      <2>5. ASSUME NEW n \in Note, Undisturbed', content'.id = n
            PROVE  TabInv(n)'
            <3>1. TabInv(n) /\ ServerGrows(n) /\ CallsGoOn(n)
                  BY <1>2, <2>1, <2>2, <2>5, SameServer DEF ShownInv, Undisturbed, noteVars, raceVars
            <3>2. QED BY <1>2, <3>1, TabKept DEF noteVars, newVars, raceVars
      <2>6. QED BY <2>1, <2>4, <2>5, SameServer DEF ShownInv
<1>7. QED BY <1>3, <1>4, <1>5, <1>6 DEF ServerAnswers

(* A step of the tab: the server does not move.                            *)
LEMMA TabShown ==
    ASSUME ShownInv, TypeInv', UNCHANGED <<revisions, tlms>>,
           \A s \in Slot : calls'[s] # None /\ calls'[s] # calls[s] => calls'[s].answer = None,
           \A n \in Note : Undisturbed' /\ content'.id = n => TabInv(n)'
    PROVE  ShownInv'
<1>1. TlmsInv' /\ TextsInv'
      BY SameServer DEF ShownInv
<1>2. AnswersInv'
      BY AnswersKept DEF ShownInv, Answered
<1>3. QED BY <1>1, <1>2 DEF ShownInv

LEMMA NewCallGoesOn ==
    ASSUME TypeInv, NEW s \in Slot, NEW n \in Note, TabInv(n), NEW call,
           calls[s] # None => calls[s].op \notin {"load", "modified", "undeleted"},
           calls' = [calls EXCEPT ![s] = call],
           call = None \/ /\ call.note = n /\ told # 0
                          /\ call.op = "delete" => mode # "revision"
    PROVE  CallsGoOn(n)
<1>1. calls'[s] = call /\ \A q \in Slot \ {s} : calls'[q] = calls[q]
      BY DEF TypeInv
<1>2. told = 0 => calls[s] = None
      BY DEF TabInv, ToldInv
<1>3. QED BY <1>1, <1>2 DEF CallsGoOn

(* Nothing is read, and the screen stays: the editor, saves and deletions. *)
LEMMA CalmShown ==
    ASSUME ShownInv, TypeInv', NEW s \in Slot,
           \/ UpdateTextToEdit
           \/ HandleClickSaveDocument(s) \/ HandleSaveHtmlDocument(s) \/ GivesUpSaving(s)
           \/ HandleClickDelete(s) \/ ResumeDelete(s)
    PROVE  ShownInv'
<1> TypeInv /\ content.id \in Note /\ mode \in Mode
    BY DEF ShownInv, TypeInv, TypeOK, Mode
<1>1. /\ UNCHANGED <<revisions, tlms, opened, content, loadingContent, newVars, told, outdated, missed>>
      /\ raced => raced'
      <2>1. CASE UpdateTextToEdit
            BY <2>1 DEF UpdateTextToEdit, raceVars
      <2>2. CASE HandleClickSaveDocument(s)
            BY <2>2 DEF HandleClickSaveDocument, serverVars, noteVars, raceVars
      <2>3. CASE HandleSaveHtmlDocument(s)
            BY <2>3 DEF HandleSaveHtmlDocument, serverVars, noteVars, raceVars
      <2>4. CASE GivesUpSaving(s)
            BY <2>4 DEF GivesUpSaving, serverVars, noteVars, raceVars
      <2>5. CASE HandleClickDelete(s)
            BY <2>5 DEF HandleClickDelete, serverVars, noteVars, raceVars
      <2>6. CASE ResumeDelete(s)
            BY <2>6 DEF ResumeDelete, serverVars
      <2>7. QED BY <2>1, <2>2, <2>3, <2>4, <2>5, <2>6
<1>2. \A q \in Slot : calls'[q] # None /\ calls'[q] # calls[q] => calls'[q].answer = None
      BY DEF UpdateTextToEdit, HandleClickSaveDocument, HandleSaveHtmlDocument, GivesUpSaving,
             HandleClickDelete, ResumeDelete, Call, TypeInv
<1>3. ASSUME NEW n \in Note, Undisturbed', content'.id = n
      PROVE  TabInv(n)'
      <2>1. TabInv(n) /\ content.id = n /\ ServerGrows(n)
            BY <1>1, <1>3, SameServer DEF ShownInv, Undisturbed
      <2>2. ~loadingContent => told # 0
            BY <2>1 DEF TabInv, ToldInv
      <2>3. CallsGoOn(n) /\ mode' = mode
            <3>1. CASE UpdateTextToEdit
                  BY <3>1, SameCalls DEF UpdateTextToEdit
            <3>2. CASE HandleClickSaveDocument(s)
                  <4> DEFINE new == Call("search", content.id, TRUE, textToEdit)
                  <4>0. calls' = [calls EXCEPT ![s] = new] /\ new.note = n /\ new.op = "search"
                        BY <2>1, <3>2 DEF HandleClickSaveDocument, Call
                  <4>1. PICK call : /\ calls' = [calls EXCEPT ![s] = call] /\ call.note = n
                                    /\ call.op = "search"
                        <5> HIDE DEF new
                        <5> QED BY <4>0
                  <4>2. QED BY <2>1, <2>2, <3>2, <4>1, NewCallGoesOn
                            DEF HandleClickSaveDocument, IsFree, noteVars
            <3>3. CASE HandleSaveHtmlDocument(s)
                  <4> DEFINE new == Call("put", content.id, TRUE, calls[s].text)
                  <4>0. calls' = [calls EXCEPT ![s] = new] /\ new.note = n /\ new.op = "put"
                        BY <2>1, <3>3 DEF HandleSaveHtmlDocument, Call
                  <4>1. PICK call : /\ calls' = [calls EXCEPT ![s] = call] /\ call.note = n
                                    /\ call.op = "put"
                        <5> HIDE DEF new
                        <5> QED BY <4>0
                  <4>2. told # 0
                        BY <2>1, <3>3 DEF TabInv, ToldInv, HandleSaveHtmlDocument
                  <4>3. QED BY <2>1, <3>3, <4>1, <4>2, NewCallGoesOn
                            DEF HandleSaveHtmlDocument, noteVars
            <3>4. CASE GivesUpSaving(s)
                  <4>1. PICK call : calls' = [calls EXCEPT ![s] = call] /\ call = None
                        BY <3>4 DEF GivesUpSaving
                  <4>2. QED BY <2>1, <3>4, <4>1, NewCallGoesOn DEF GivesUpSaving, noteVars
            <3>5. CASE HandleClickDelete(s)
                  <4> DEFINE new == Call("delete", content.id, TRUE, 0)
                  <4>0. calls' = [calls EXCEPT ![s] = new] /\ new.note = n /\ new.op = "delete"
                        BY <2>1, <3>5 DEF HandleClickDelete, Call
                  <4>1. PICK call : /\ calls' = [calls EXCEPT ![s] = call] /\ call.note = n
                                    /\ call.op = "delete"
                        <5> HIDE DEF new
                        <5> QED BY <4>0
                  <4>2. QED BY <2>1, <2>2, <3>5, <4>1, NewCallGoesOn
                            DEF HandleClickDelete, IsFree, noteVars
            <3>6. CASE ResumeDelete(s)
                  <4>1. PICK call : calls' = [calls EXCEPT ![s] = call] /\ call = None
                        BY <3>6 DEF ResumeDelete
                  <4>2. mode # "revision" /\ mode # "edit"
                        BY <1>3, <2>1, <3>6
                           DEF ResumeDelete, Answered, TabInv, OneNote, Undisturbed
                  <4>3. mode' = mode
                        BY <3>6, <4>2 DEF ResumeDelete, Mode
                  <4>4. QED BY <2>1, <3>6, <4>1, <4>3, NewCallGoesOn DEF ResumeDelete, Answered
            <3>7. QED BY <3>1, <3>2, <3>3, <3>4, <3>5, <3>6
      <2>4. QED BY <1>1, <2>1, <2>3, TabKept DEF newVars
<1>4. QED BY <1>1, <1>2, <1>3, TabShown

(* The edition begins or ends, or a revision is shown.                     *)
LEMMA ModeShown ==
    ASSUME ShownInv, TypeInv',
           \/ HandleClickNewVersion \/ HandleCloseNewVersion
           \/ \E r \in DOMAIN revisions : HandleClickShowRevision(r)
    PROVE  ShownInv'
<1>0. TypeInv /\ content \in Content
      BY DEF ShownInv, TypeInv, TypeOK, Content, Text
<1>1. /\ UNCHANGED <<revisions, tlms, opened, newContent, showRefreshWarning, loadingContent,
                     calls, told, missed>>
      /\ (raced => raced') /\ (outdated => outdated') /\ content'.id = content.id
      <2>1. CASE HandleClickNewVersion
            BY <1>0, <2>1 DEF HandleClickNewVersion, serverVars, Content
      <2>2. CASE HandleCloseNewVersion
            BY <1>0, <2>2 DEF HandleCloseNewVersion, serverVars, newVars, raceVars, Content
      <2>3. ASSUME NEW r \in DOMAIN revisions, HandleClickShowRevision(r)
            PROVE  /\ UNCHANGED <<revisions, tlms, opened, newContent, showRefreshWarning,
                                  loadingContent, calls, told, missed>>
                   /\ (raced => raced') /\ (outdated => outdated') /\ content'.id = content.id
            BY <1>0, <2>3 DEF HandleClickShowRevision, serverVars, newVars, Content
      <2>4. QED BY <2>1, <2>2, <2>3
<1>2. ASSUME NEW n \in Note, Undisturbed', content'.id = n
      PROVE  TabInv(n)'
      <2>1. TabInv(n) /\ ServerGrows(n) /\ CallsGoOn(n)
            BY <1>1, <1>2, SameServer, SameCalls DEF ShownInv, Undisturbed
      <2>2. ToldInv(n)'
            BY <1>1, <2>1, ToldKept
      <2>3. /\ (ReadsText => ReadsText') /\ (ReadsNews => ReadsNews') /\ (ReadsAny => ReadsAny')
            /\ (HasTlm(n) => HasTlm(n)') /\ (HasChange(n) => HasChange(n)')
            BY <2>1, ReadsGoOn DEF ServerGrows
      <2>4. RawInv(n) /\ TextInv(n) /\ NewInv(n) /\ DeletedInv(n) /\ OneNote(n)
            BY <2>1 DEF TabInv, ScreenInv
      <2>5. NewInv(n)'
            BY <1>1, <2>3, <2>4 DEF NewInv
      <2>6. CASE HandleClickNewVersion
            <3>1. /\ mode = "view" /\ mode' = "edit" /\ rawContentBeforeEdit' = content.text
                  /\ ~showRefreshWarning /\ ~content.deleted /\ content'.deleted = content.deleted
                  BY <1>0, <1>2, <2>6 DEF HandleClickNewVersion, Undisturbed, Content
            <3>2. OneNote(n)'
                  BY <1>1, <2>4, <3>1 DEF OneNote
            <3>3. RawInv(n)'
                  BY <1>1, <2>3, <2>4, <3>1 DEF TextInv, RawInv
            <3>4. TextInv(n)'
                  BY <3>1 DEF TextInv
            <3>5. DeletedInv(n)'
                  BY <1>1, <2>3, <2>4, <3>1 DEF DeletedInv
            <3>6. QED BY <2>2, <2>5, <3>2, <3>3, <3>4, <3>5 DEF TabInv, ScreenInv
      <2>7. CASE HandleCloseNewVersion
            <3>1. /\ mode = "edit" /\ mode' = "view" /\ content'.text = rawContentBeforeEdit
                  /\ content'.deleted = content.deleted
                  /\ rawContentBeforeEdit' = rawContentBeforeEdit
                  BY <1>0, <2>7 DEF HandleCloseNewVersion, Content, newVars
            <3>2. OneNote(n)'
                  BY <1>1, <2>4, <3>1 DEF OneNote
            <3>3. RawInv(n)'
                  BY <1>1, <2>3, <2>4, <3>1 DEF RawInv
            <3>4. TextInv(n)'
                  BY <1>1, <2>3, <2>4, <3>1 DEF TextInv, RawInv
            <3>5. DeletedInv(n)'
                  BY <1>1, <2>3, <2>4, <3>1 DEF DeletedInv
            <3>6. QED BY <2>2, <2>5, <3>2, <3>3, <3>4, <3>5 DEF TabInv, ScreenInv
      <2>8. ASSUME NEW r \in DOMAIN revisions, HandleClickShowRevision(r)
            PROVE  TabInv(n)'
            <3>1. /\ mode' = "revision" /\ content'.deleted = FALSE
                  /\ rawContentBeforeEdit' = rawContentBeforeEdit
                  /\ \A s \in Slot : calls[s] # None => calls[s].op # "delete"
                  BY <1>0, <1>2, <2>8 DEF HandleClickShowRevision, Content, newVars, Undisturbed
            <3>2. OneNote(n)'
                  BY <1>1, <2>4, <3>1 DEF OneNote
            <3>3. RawInv(n)'
                  BY <1>1, <2>3, <2>4, <3>1 DEF RawInv
            <3>4. TextInv(n)'
                  BY <3>1 DEF TextInv
            <3>5. DeletedInv(n)'
                  BY <3>1 DEF DeletedInv
            <3>6. QED BY <2>2, <2>5, <3>2, <3>3, <3>4, <3>5 DEF TabInv, ScreenInv
      <2>9. QED BY <2>6, <2>7, <2>8
<1>3. QED BY <1>1, <1>2, TabShown

LEMMA DisplayStays ==
    ASSUME NEW s \in Slot, NEW shown, NEW newMode, NEW loading,
           Display(s, shown, newMode, loading), shown.id = content.id
    PROVE  /\ content' = shown /\ mode' = newMode /\ loadingContent' = loading
           /\ calls' = [calls EXCEPT ![s] = None]
BY DEF Display

(* Another note is opened, at a moment when nothing is under way.          *)
LEMMA OpenShown ==
    ASSUME ShownInv, TypeInv', NEW s \in Slot, NEW k \in Note, Open(s, k)
    PROVE  ShownInv'
<1> TypeInv
    BY DEF ShownInv
<1> DEFINE new == Call("load", k, FALSE, 0)
<1>1. /\ content' = [id |-> k, text |-> 0, deleted |-> FALSE]
      /\ mode' = "view" /\ loadingContent' = TRUE /\ calls' = [calls EXCEPT ![s] = new]
      /\ opened' = k /\ told' = 0 /\ UNCHANGED <<revisions, tlms, showRefreshWarning, newContent>>
      BY DEF Open, Display, serverVars, newVars
<1>2. new # None /\ new.op = "load" /\ new.note = k /\ new.answer = None
      <2>1. new \in Calls
            BY NewCallType
      <2>2. QED BY <2>1, CallIsSome DEF Call
<1>3. calls'[s] = new /\ \A q \in Slot \ {s} : calls'[q] = calls[q]
      BY <1>1 DEF TypeInv
<1> HIDE DEF new
<1>4. ASSUME NEW n \in Note, Undisturbed', content'.id = n
      PROVE  TabInv(n)'
      <2>1. n = k /\ Idle /\ ~showRefreshWarning
            BY <1>1, <1>4 DEF Open, Undisturbed
      <2>2. \A q \in Slot : calls'[q] # None => q = s
            BY <1>3, <2>1 DEF Idle
      <2>3. OneNote(n)'
            BY <1>1, <1>2, <1>3, <2>1, <2>2 DEF OneNote
      <2>4. ToldInv(n)'
            BY <1>1, <1>2, <1>3, <2>1, <2>2 DEF ToldInv
      <2>5. ReadsText' /\ ReadsAny'
            BY <1>2, <1>3 DEF ReadsText, ReadsAny
      <2>6. ScreenInv(n)'
            BY <1>1, <2>1, <2>5 DEF ScreenInv, RawInv, TextInv, NewInv, DeletedInv
      <2>7. QED BY <2>3, <2>4, <2>6 DEF TabInv
<1>5. QED BY <1>1, <1>2, <1>3, <1>4, TabShown

(* "Refresh?", and back from a revision.                                   *)
LEMMA RefreshShown ==
    ASSUME ShownInv, TypeInv', NEW s \in Slot, HandleClickRefresh(s) \/ HandleClickLastVersion(s)
    PROVE  ShownInv'
<1> TypeInv
    BY DEF ShownInv
<1>1. /\ UNCHANGED <<revisions, tlms, opened, newContent, rawContentBeforeEdit, told, raced, outdated,
                     missed>>
      /\ ~loadingContent /\ calls[s] = None
      BY DEF HandleClickRefresh, HandleClickLastVersion, Refresh, IsFree, serverVars, raceVars
<1>2. CASE showRefreshWarning
      <2>1. /\ Display(s, [id |-> newContent.id, text |-> rawContentBeforeEdit,
                           deleted |-> newContent.deleted], "view", loadingContent)
            /\ showRefreshWarning' = FALSE
            BY <1>2 DEF HandleClickRefresh, HandleClickLastVersion, Refresh
      <2>2. \A q \in Slot : calls'[q] # None /\ calls'[q] # calls[q] => calls'[q].answer = None
            BY <1>1, <2>1 DEF Display, Call, TypeInv
      <2>3. ASSUME NEW n \in Note, Undisturbed', content'.id = n
            PROVE  TabInv(n)'
            <3>1. Undisturbed /\ content'.id = newContent.id
                  BY <1>1, <2>1, <2>3 DEF Undisturbed, Display
            <3>2. content.id \in Note
                  BY DEF TypeInv, TypeOK
            <3>3. TabInv(content.id)
                  BY <3>1, <3>2 DEF ShownInv
            <3>4. newContent.id = content.id
                  BY <1>2, <3>3 DEF TabInv, OneNote
            <3>5. n = content.id /\ TabInv(n) /\ ServerGrows(n)
                  BY <1>1, <2>3, <3>1, <3>3, <3>4, SameServer
            <3>6. /\ content' = [id |-> newContent.id, text |-> rawContentBeforeEdit,
                                 deleted |-> newContent.deleted]
                  /\ mode' = "view" /\ loadingContent' = loadingContent
                  /\ calls' = [calls EXCEPT ![s] = None]
                  BY <2>1, <3>4 DEF Display
            <3>7. UNCHANGED calls
                  BY <1>1, <3>6 DEF TypeInv
            <3>8. CallsGoOn(n) /\ told # 0
                  BY <1>2, <3>5, <3>7, SameCalls DEF TabInv, ToldInv
            <3>9. /\ (ReadsText => ReadsText') /\ (ReadsNews => ReadsNews') /\ (ReadsAny => ReadsAny')
                  /\ (HasTlm(n) => HasTlm(n)') /\ (HasChange(n) => HasChange(n)')
                  /\ (ReadsNews => ReadsAny)
                  BY <3>5, <3>8, ReadsGoOn DEF ServerGrows, ReadsNews, ReadsAny
            <3>10. RawInv(n) /\ NewInv(n) /\ OneNote(n)
                  BY <3>5 DEF TabInv, ScreenInv
            <3>11. OneNote(n)'
                  BY <1>1, <2>1, <3>6, <3>7, <3>10 DEF OneNote
            <3>12. ToldInv(n)'
                  BY <1>1, <3>5, <3>8 DEF TabInv, ToldInv, ServerGrows
            <3>13. RawInv(n)'
                  BY <1>1, <3>9, <3>10 DEF RawInv
            <3>14. TextInv(n)'
                  BY <1>1, <3>6, <3>9, <3>10 DEF RawInv, TextInv
            <3>15. NewInv(n)'
                  BY <2>1 DEF NewInv
            <3>16. DeletedInv(n)'
                  BY <1>1, <1>2, <3>6, <3>9, <3>10 DEF NewInv, DeletedInv
            <3>17. QED BY <3>11, <3>12, <3>13, <3>14, <3>15, <3>16 DEF TabInv, ScreenInv
      <2>4. QED BY <1>1, <2>2, <2>3, TabShown
<1>3. CASE ~showRefreshWarning
      <2> DEFINE new == Call("load", content.id, FALSE, 0)
      <2>1. /\ mode' = "view" /\ loadingContent' = TRUE /\ calls' = [calls EXCEPT ![s] = new]
            /\ UNCHANGED <<content, showRefreshWarning>>
            BY <1>3 DEF HandleClickRefresh, HandleClickLastVersion
      <2>2. new # None /\ new.op = "load" /\ new.note = content.id /\ new.answer = None
            <3>1. new \in Calls
                  BY NewCallType DEF TypeInv, TypeOK
            <3>2. QED BY <3>1, CallIsSome DEF Call
      <2> HIDE DEF new
      <2>3. calls'[s] = new /\ \A q \in Slot \ {s} : calls'[q] = calls[q]
            BY <2>1 DEF TypeInv
      <2>4. ASSUME NEW n \in Note, Undisturbed', content'.id = n
            PROVE  TabInv(n)'
            <3>1. TabInv(n) /\ ServerGrows(n) /\ content.id = n
                  BY <1>1, <2>1, <2>4, SameServer DEF ShownInv, Undisturbed
            <3>2. told # 0
                  BY <1>1, <3>1 DEF TabInv, ToldInv
            <3>3. OneNote(n)'
                  BY <1>1, <2>1, <2>2, <2>3, <3>1 DEF TabInv, OneNote
            <3>4. ToldInv(n)'
                  BY <1>1, <3>1, <3>2 DEF TabInv, ToldInv, ServerGrows
            <3>5. ReadsText' /\ ReadsAny'
                  BY <2>2, <2>3 DEF ReadsText, ReadsAny
            <3>6. ScreenInv(n)'
                  BY <1>3, <2>1, <3>5 DEF ScreenInv, RawInv, TextInv, NewInv, DeletedInv
            <3>7. QED BY <3>3, <3>4, <3>6 DEF TabInv
      <2>5. QED BY <1>1, <2>2, <2>3, <2>4, TabShown
<1>4. QED BY <1>2, <1>3

-----------------------------------------------------------------------------
(* A live message.                                                         *)
LEMMA TailNewerWaits ==
    ASSUME ServerInv, TlmsInv, tlms # <<>>, tlms' = Tail(tlms), UNCHANGED revisions,
           NEW n \in Note, NEW r \in DOMAIN revisions, revisions[r].note = n, r > Received'
    PROVE  HasTlm(n)'
<1>1. /\ DOMAIN revisions = 1..Len(revisions) /\ Len(revisions) \in Nat
      /\ DOMAIN tlms = 1..Len(tlms) /\ Len(tlms) \in Nat
      BY LenProperties DEF ServerInv
<1>2. Received \in Nat /\ Received' = Received + 1 /\ Received = Len(revisions) - Len(tlms)
      BY TailFacts DEF Received
<1>3. PICK i \in DOMAIN tlms : i = r - Received /\ i # 1
      BY <1>1, <1>2
<1>4. Received + i = r
      BY <1>1, <1>2, <1>3
<1>5. tlms[i].note = n
      BY <1>3, <1>4 DEF TlmsInv
<1>6. i - 1 \in DOMAIN tlms' /\ tlms'[i - 1] = tlms[i]
      BY <1>3, TailFacts
<1>7. QED BY <1>5, <1>6 DEF HasTlm

LEMMA TailTold ==
    ASSUME ServerInv, TlmsInv, tlms # <<>>, tlms' = Tail(tlms), UNCHANGED revisions,
           NEW n \in Note, TabInv(n), Head(tlms).note = n,
           told' = IF Head(tlms).revision > told THEN Head(tlms).revision ELSE told
    PROVE  /\ ToldInv(n)'
           /\ told' = Received' \/ HasTlm(n)'
<1>1. DOMAIN revisions = 1..Len(revisions) /\ Len(revisions) \in Nat
      BY LenProperties DEF ServerInv
<1>2. /\ Received \in Nat /\ Received' = Received + 1 /\ Received' \in DOMAIN revisions
      /\ Head(tlms).revision = Received' /\ revisions[Received'].note = n
      BY TailFacts
<1>3. \/ told = 0
      \/ /\ told \in DOMAIN revisions /\ revisions[told].note = n
         /\ \A r \in Nat : IsOf(n, r) /\ r <= Received => r <= told
      BY DEF TabInv, ToldInv
<1>4. /\ told' # 0 /\ told' \in DOMAIN revisions /\ revisions[told'].note = n
      /\ told' >= Received' /\ (told # 0 => told' >= told)
      BY <1>1, <1>2, <1>3
<1>5. \A r \in Nat : IsOf(n, r)' /\ r <= Received' => r <= told'
      BY <1>1, <1>2, <1>4
<1>6. told' = Received' \/ HasTlm(n)'
      BY <1>1, <1>2, <1>4, TailNewerWaits
<1>7. QED BY <1>4, <1>5, <1>6 DEF ToldInv

LEMMA TailText ==
    ASSUME ServerInv, TlmsInv, TextsInv, tlms # <<>>, tlms' = Tail(tlms), UNCHANGED revisions,
           NEW n \in Note, TabInv(n), Head(tlms).note = n, Head(tlms).event # "modified", told # 0,
           told' = IF Head(tlms).revision > told THEN Head(tlms).revision ELSE told
    PROVE  revisions[told'].text = revisions[told].text \/ HasChange(n)'
<1>1. DOMAIN revisions = 1..Len(revisions) /\ Len(revisions) \in Nat
      BY LenProperties DEF ServerInv
<1>2. /\ Received' \in DOMAIN revisions
      /\ Head(tlms).revision = Received' /\ revisions[Received'].note = n
      BY TailFacts
<1>3. CASE Received' > told
      <2> DEFINE r == Received'
      <2>1. told' = r /\ r \in Nat /\ told \in Nat /\ told <= r /\ IsOf(n, r) /\ IsOf(n, told)
            BY <1>1, <1>2, <1>3 DEF TabInv, ToldInv, IsOf
      <2>2. \A m \in Nat : IsOf(n, m) /\ m <= Received => m <= told
            BY DEF TabInv, ToldInv
      <2> HIDE DEF r
      <2>3. revisions[told].text = revisions[r].text \/ HasChangeAfter(n, told)
            BY <2>1, <2>2 DEF TextsInv
      <2>4. HasChangeAfter(n, told) => HasChange(n)
            BY DEF HasChangeAfter, HasChange
      <2>5. HasChange(n) => HasChange(n)'
            BY TailWaits
      <2>6. QED BY <2>1, <2>3, <2>4, <2>5
<1>4. CASE ~(Received' > told)
      BY <1>2, <1>4
<1>5. QED BY <1>3, <1>4

LEMMA TlmShown ==
    ASSUME ShownInv, TypeInv', NEW s \in Slot, HandleTlm(s)
    PROVE  ShownInv'
<1> /\ TypeInv /\ ServerInv /\ TlmsInv /\ TextsInv /\ AnswersInv /\ content \in Content
    BY DEF ShownInv, TypeInv, TypeOK, Content, Text
<1> DEFINE tlm == Head(tlms)
<1>1. /\ tlms # <<>> /\ tlms' = Tail(tlms) /\ calls[s] = None
      /\ UNCHANGED <<revisions, opened, mode, loadingContent, rawContentBeforeEdit, raced, outdated,
                     missed>>
      BY DEF HandleTlm, IsFree, serverVars
<1>2. TlmsInv' /\ TextsInv' /\ tlm \in Tlm
      BY <1>1, TailKeepsTlms, TailKeepsTexts, TailFacts
<1>3. CASE IgnoreTlm(tlm)
      <2>1. /\ UNCHANGED <<calls, content, newContent, showRefreshWarning, told>>
            /\ tlm.note # content.id
            BY <1>3 DEF IgnoreTlm
      <2>2. AnswersInv'
            BY <1>1, <2>1, AnswersKept DEF Answered
      <2>3. ASSUME NEW n \in Note, Undisturbed', content'.id = n
            PROVE  TabInv(n)'
            <3>1. TabInv(n) /\ tlm.note # n /\ CallsGoOn(n)
                  BY <1>1, <2>1, <2>3, SameCalls DEF ShownInv, Undisturbed
            <3>2. ServerGrows(n)
                  <4>1. ASSUME NEW r \in Nat, IsOf(n, r)', r <= Received'
                        PROVE  IsOf(n, r) /\ r <= Received
                        <5>1. IsOf(n, r)
                              BY <1>1, <4>1 DEF IsOf
                        <5>2. Received \in Nat /\ Received' = Received + 1 /\ r # Received'
                              BY <1>1, <3>1, <5>1, TailFacts DEF IsOf
                        <5>3. QED BY <4>1, <5>1, <5>2
                  <4>2. (HasTlm(n) => HasTlm(n)') /\ (HasChange(n) => HasChange(n)')
                        BY <1>1, <3>1, TailWaits
                  <4>3. QED BY <1>1, <4>1, <4>2 DEF ServerGrows
            <3>3. QED BY <1>1, <2>1, <3>1, <3>2, TabKept
      <2>4. QED BY <1>2, <2>2, <2>3 DEF ShownInv
<1>4. CASE AskForContent(s, tlm)
      <2> DEFINE new == Call(tlm.event, tlm.note, tlm.mine, 0)
      <2>1. /\ calls' = [calls EXCEPT ![s] = new]
            /\ UNCHANGED <<content, newContent, showRefreshWarning>>
            /\ tlm.event \in {"modified", "undeleted"} /\ tlm.note = content.id
            /\ told' = IF tlm.revision > told THEN tlm.revision ELSE told
            BY <1>4 DEF AskForContent, Told
      <2>2. new # None /\ new.op = tlm.event /\ new.note = tlm.note /\ new.answer = None
            <3>1. new \in Calls
                  BY <1>2, <2>1, NewCallType DEF Tlm
            <3>2. QED BY <3>1, CallIsSome DEF Call
      <2> HIDE DEF new
      <2>3. calls'[s] = new /\ \A q \in Slot \ {s} : calls'[q] = calls[q]
            BY <2>1 DEF TypeInv
      <2>4. AnswersInv'
            BY <1>1, <2>2, <2>3, AnswersKept DEF Answered
      <2>5. ASSUME NEW n \in Note, Undisturbed', content'.id = n
            PROVE  TabInv(n)'
            <3>1. TabInv(n) /\ tlm.note = n
                  BY <1>1, <2>1, <2>5 DEF ShownInv, Undisturbed
            <3>2. OneNote(n)'
                  BY <1>1, <2>1, <2>2, <2>3, <3>1 DEF TabInv, OneNote
            <3>3. ToldInv(n)'
                  BY <1>1, <2>1, <3>1, TailTold
            <3>4. /\ ReadsNews' /\ ReadsAny' /\ (ReadsText => ReadsText')
                  /\ tlm.event = "modified" => ReadsText'
                  BY <1>1, <2>1, <2>2, <2>3 DEF ReadsNews, ReadsAny, ReadsText
            <3>5. CASE tlm.event = "modified" \/ ReadsText
                  BY <3>2, <3>3, <3>4, <3>5
                     DEF TabInv, ScreenInv, RawInv, TextInv, NewInv, DeletedInv
            <3>6. CASE tlm.event # "modified" /\ ~ReadsText
                  <4>1. told # 0
                        BY <3>1, <3>6 DEF TabInv, ToldInv, ReadsText
                  <4>2. revisions[told'].text = revisions[told].text \/ HasChange(n)'
                        BY <1>1, <2>1, <3>1, <3>6, <4>1, TailText
                  <4>3. HasChange(n) => HasChange(n)'
                        BY <1>1, <3>6, TailWaits
                  <4>4. RawInv(n)'
                        BY <1>1, <3>1, <3>6, <4>2, <4>3 DEF TabInv, ScreenInv, RawInv
                  <4>5. TextInv(n)'
                        BY <1>1, <2>1, <3>1, <3>6, <4>2, <4>3 DEF TabInv, ScreenInv, TextInv
                  <4>6. NewInv(n)' /\ DeletedInv(n)'
                        BY <3>4 DEF NewInv, DeletedInv
                  <4>7. QED BY <3>2, <3>3, <4>4, <4>5, <4>6 DEF TabInv, ScreenInv
            <3>7. QED BY <3>5, <3>6
      <2>6. QED BY <1>2, <2>4, <2>5 DEF ShownInv
<1>5. CASE HandleContentDeleted(tlm)
      <2>1. /\ UNCHANGED calls
            /\ tlm.event = "deleted" /\ tlm.note = content.id
            /\ told' = IF tlm.revision > told THEN tlm.revision ELSE told
            /\ content'.id = content.id /\ content'.text = content.text
            /\ tlm.mine => content'.deleted = TRUE
            /\ newContent'.id = content.id /\ newContent'.deleted = TRUE
            /\ showRefreshWarning' = ~tlm.mine
            BY <1>5 DEF HandleContentDeleted, Told, Content
      <2>2. AnswersInv'
            BY <1>1, <2>1, AnswersKept DEF Answered
      <2>3. ASSUME NEW n \in Note, Undisturbed', content'.id = n
            PROVE  TabInv(n)'
            <3>1. TabInv(n) /\ tlm.note = n
                  BY <1>1, <2>1, <2>3 DEF ShownInv, Undisturbed
            <3>2. OneNote(n)'
                  BY <1>1, <2>1, <3>1 DEF TabInv, OneNote
            <3>3. ToldInv(n)' /\ (told' = Received' \/ HasTlm(n)')
                  BY <1>1, <2>1, <3>1, TailTold
            <3>4. revisions[told'].deleted = TRUE \/ HasTlm(n)'
                  <4>1. revisions[Received'].deleted = TRUE
                        <5>1. revisions[Received'] \in Revision
                              BY <1>1, TailFacts, LenProperties, ElementOfSeq DEF ServerInv
                        <5>2. revisions[Received'].deleted
                              BY <1>1, <2>1, TailFacts
                        <5>3. QED BY <5>1, <5>2 DEF Revision
                  <4>2. QED BY <3>3, <4>1
            <3>5. NewInv(n)'
                  BY <1>1, <2>1, <3>4 DEF NewInv
            <3>6. DeletedInv(n)'
                  BY <1>1, <2>1, <3>4 DEF DeletedInv
            <3>7. TextInv(n)'
                  BY <2>1 DEF TextInv
            <3>8. RawInv(n)'
                  <4>1. ReadsText' <=> ReadsText
                        BY <2>1 DEF ReadsText
                  <4>2. CASE ReadsText
                        BY <4>1, <4>2 DEF RawInv
                  <4>3. CASE ~ReadsText
                        <5>1. told # 0
                              BY <3>1, <4>3 DEF TabInv, ToldInv, ReadsText
                        <5>2. revisions[told'].text = revisions[told].text \/ HasChange(n)'
                              BY <1>1, <2>1, <3>1, <5>1, TailText
                        <5>3. HasChange(n) => HasChange(n)'
                              BY <1>1, <2>1, TailWaits
                        <5>4. QED BY <1>1, <3>1, <4>3, <5>2, <5>3 DEF TabInv, ScreenInv, RawInv
                  <4>4. QED BY <4>2, <4>3
            <3>9. QED BY <3>2, <3>3, <3>5, <3>6, <3>7, <3>8 DEF TabInv, ScreenInv
      <2>4. QED BY <1>2, <2>2, <2>3 DEF ShownInv
<1>6. QED BY <1>3, <1>4, <1>5 DEF HandleTlm

(* The answers.                                                            *)
LEMMA NewerWaits ==
    ASSUME ServerInv, TlmsInv, NEW n \in Note, NEW r \in DOMAIN revisions,
           revisions[r].note = n, r > Received
    PROVE  HasTlm(n)
<1>1. /\ DOMAIN revisions = 1..Len(revisions) /\ Len(revisions) \in Nat
      /\ DOMAIN tlms = 1..Len(tlms) /\ Len(tlms) \in Nat
      BY LenProperties DEF ServerInv
<1>2. PICK i \in DOMAIN tlms : i = r - Received
      BY <1>1 DEF Received
<1>3. Received + i = r
      BY <1>1, <1>2 DEF Received
<1>4. QED BY <1>2, <1>3 DEF TlmsInv, HasTlm

Used(s) == \/ calls[s].op = "load"
           \/ calls[s].op \in {"modified", "undeleted"} /\ Given(calls[s])
           \/ calls[s].op = "put" /\ calls[s].answer.saved

(* An answer that is used in time is the newest revision the tab knows of. *)
LEMMA UseFacts ==
    ASSUME ShownInv, NEW s \in Slot, NEW n \in Note, TabInv(n), Answered(s), Used(s),
           Uses(calls[s]), ~raced', UNCHANGED <<revisions, tlms>>
    PROVE  /\ told' # 0 /\ told' \in DOMAIN revisions /\ revisions[told'].note = n
           /\ \A r \in Nat : IsOf(n, r) /\ r <= Received => r <= told'
           /\ calls[s].op # "put" => /\ revisions[told'].text = calls[s].answer.text
                                     /\ revisions[told'].deleted = calls[s].answer.deleted
                                     /\ calls[s].answer \in Reading
           /\ calls[s].op = "put" => /\ revisions[told'].text = calls[s].text
                                     /\ revisions[told'].deleted = FALSE
           /\ told = 0 => calls[s].op = "load"
           /\ told # 0 => /\ told' = told \/ HasTlm(n)
                          /\ revisions[told'].text = revisions[told].text \/ HasChange(n)
<1> TypeInv /\ ServerInv /\ TlmsInv /\ TextsInv /\ AnswersInv
    BY DEF ShownInv, TypeInv
<1> DEFINE call == calls[s]
<1>1. /\ revisions \in Seq(Revision)
      /\ DOMAIN revisions = 1..Len(revisions) /\ Len(revisions) \in Nat
      BY LenProperties DEF ServerInv
<1>2. call # None /\ call.note = n /\ call.answer # None
      BY DEF Answered, TabInv, OneNote
<1>3. PICK a \in DOMAIN revisions :
        /\ a = call.answer.revision /\ revisions[a].note = n
        /\ call.op # "put" => /\ revisions[a].text = call.answer.text
                              /\ revisions[a].deleted = call.answer.deleted
        /\ call.op = "put" => /\ revisions[a].text = call.text
                              /\ ~revisions[a].deleted
      BY <1>2 DEF AnswersInv, IsAnswer, IsOf, Used
<1>4. revisions[a].deleted \in BOOLEAN
      <2>1. revisions[a] \in Revision
            BY <1>1, ElementOfSeq
      <2>2. QED BY <2>1 DEF Revision
<1>5. told = 0 \/ told \in DOMAIN revisions
      BY DEF TabInv, ToldInv
<1>6. told' = a /\ told <= a /\ a # 0
      <2>1. told \in Nat /\ a \in Nat /\ a # 0
            BY <1>1, <1>5
      <2>2. told' = (IF a > told THEN a ELSE told) /\ ~(a < told)
            BY <1>3 DEF Uses
      <2>3. QED BY <2>1, <2>2
<1>7. told = 0 => call.op = "load" /\ \A r \in Nat : IsOf(n, r) /\ r <= Received => r <= a
      BY <1>2, <1>3 DEF TabInv, ToldInv
<1>8. told # 0 => \A r \in Nat : IsOf(n, r) /\ r <= Received => r <= told
      BY DEF TabInv, ToldInv
<1>9. Received \in Nat
      BY DEF TlmsInv
<1>10. \A r \in Nat : IsOf(n, r) /\ r <= Received => r <= a
      BY <1>1, <1>5, <1>6, <1>7, <1>8
<1>11. ASSUME told # 0
       PROVE  /\ a = told \/ HasTlm(n)
              /\ revisions[a].text = revisions[told].text \/ HasChange(n)
      <2>1. told \in Nat /\ a \in Nat /\ told \in DOMAIN revisions /\ IsOf(n, told) /\ IsOf(n, a)
            BY <1>1, <1>3, <1>5, <1>11 DEF IsOf, TabInv, ToldInv
      <2>2. a # told => a > Received
            BY <1>6, <1>8, <1>9, <1>11, <2>1
      <2>3. a = told \/ HasTlm(n)
            BY <1>3, <2>2, NewerWaits
      <2>4. revisions[told].text = revisions[a].text \/ HasChangeAfter(n, told)
            BY <1>6, <1>8, <1>11, <2>1 DEF TextsInv
      <2>5. QED BY <2>3, <2>4 DEF HasChangeAfter, HasChange
<1>12. call.op # "put" => call.answer \in Reading
      BY <1>2, CallType DEF Used, Answered
<1>13. QED BY <1>3, <1>4, <1>6, <1>7, <1>10, <1>11, <1>12

(* What is left to read when a call is over.                               *)
LEMMA CallEnds ==
    ASSUME TypeInv, NEW s \in Slot, calls' = [calls EXCEPT ![s] = None]
    PROVE  /\ calls'[s] = None /\ \A q \in Slot \ {s} : calls'[q] = calls[q]
           /\ calls[s].op \notin {"load", "modified"} => (ReadsText => ReadsText')
           /\ calls[s].op \notin {"modified", "undeleted"} => (ReadsNews => ReadsNews')
           /\ calls[s].op \notin {"load", "modified", "undeleted"} => (ReadsAny => ReadsAny')
<1>1. calls'[s] = None /\ \A q \in Slot \ {s} : calls'[q] = calls[q]
      BY DEF TypeInv
<1>2. QED BY <1>1 DEF ReadsText, ReadsNews, ReadsAny

LEMMA OneNoteKept ==
    ASSUME NEW n \in Note, OneNote(n), UNCHANGED opened,
           \A q \in Slot : calls'[q] \in {None, calls[q]},
           showRefreshWarning' => newContent'.id = n,
           mode' = mode \/ mode' # "revision"
    PROVE  OneNote(n)'
BY DEF OneNote

LEMMA ToldRaised ==
    ASSUME NEW n \in Note, told' # 0, told' \in DOMAIN revisions, revisions[told'].note = n,
           \A r \in Nat : IsOf(n, r) /\ r <= Received => r <= told', UNCHANGED <<revisions, tlms>>
    PROVE  ToldInv(n)'
BY DEF ToldInv, IsOf, Received

LEMMA SameWaits ==
    ASSUME UNCHANGED tlms, NEW n \in Note
    PROVE  (HasTlm(n)' <=> HasTlm(n)) /\ (HasChange(n)' <=> HasChange(n))
BY DEF HasTlm, HasChange

LEMMA DisplayEnds ==
    ASSUME TypeInv, NEW s \in Slot, NEW shown, NEW newMode, NEW loading,
           Display(s, shown, newMode, loading)
    PROVE  \A q \in Slot : calls'[q] # None /\ calls'[q] # calls[q] => calls'[q].answer = None
BY DEF Display, Call, TypeInv

LEMMA NewsShown ==
    ASSUME ShownInv, TypeInv', NEW s \in Slot, HandleContentModified(s) \/ HandleContentRestore(s)
    PROVE  ShownInv'
<1> TypeInv
    BY DEF ShownInv
<1> DEFINE call == calls[s]
<1>1. /\ Answered(s) /\ call.op \in {"modified", "undeleted"} /\ Used(s) /\ Uses(call)
      /\ UNCHANGED <<revisions, tlms, opened>>
      /\ newContent' = [id |-> call.note, deleted |-> call.answer.deleted]
      /\ showRefreshWarning' = ~call.mine
      /\ call.op = "modified" => rawContentBeforeEdit' = call.answer.text
      /\ call.op = "undeleted" => rawContentBeforeEdit' = rawContentBeforeEdit
      /\ (~outdated' => ~outdated) /\ missed' = missed
      <2>1. CASE HandleContentModified(s)
            BY <2>1 DEF HandleContentModified, Used, serverVars
      <2>2. CASE HandleContentRestore(s)
            BY <2>2 DEF HandleContentRestore, Used, serverVars
      <2>3. QED BY <2>1, <2>2
<1>2. \/ call.mine /\ Display(s, Shown(call), mode, loadingContent)
      \/ ~call.mine /\ Keep(s)
      BY DEF HandleContentModified, HandleContentRestore
<1>3. \A q \in Slot : calls'[q] # None /\ calls'[q] # calls[q] => calls'[q].answer = None
      BY <1>2, DisplayEnds DEF Keep, TypeInv
<1>4. ASSUME NEW n \in Note, Undisturbed', content'.id = n
      PROVE  TabInv(n)'
      <2>1. Undisturbed /\ content.id \in Note
            BY <1>1, <1>4 DEF Undisturbed, Uses, TypeInv, TypeOK
      <2>2. TabInv(content.id)
            BY <2>1 DEF ShownInv
      <2>3. call.note = content.id /\ call # None
            BY <1>1, <2>2 DEF Answered, TabInv, OneNote
      <2>4. /\ calls' = [calls EXCEPT ![s] = None] /\ mode' = mode
            /\ call.mine => content' = Shown(call)
            /\ ~call.mine => content' = content
            BY <1>2, <2>3, DisplayStays DEF Keep, noteVars, Shown
      <2>5. n = content.id /\ TabInv(n) /\ call.note = n
            BY <1>4, <2>2, <2>3, <2>4 DEF Shown
      <2>6. /\ told' # 0 /\ told' \in DOMAIN revisions /\ revisions[told'].note = n
            /\ \A r \in Nat : IsOf(n, r) /\ r <= Received => r <= told'
            /\ revisions'[told'].text = call.answer.text
            /\ revisions'[told'].deleted = call.answer.deleted
            /\ call.op = "undeleted" =>
                  told # 0 /\ (revisions'[told'].text = revisions[told].text \/ HasChange(n))
            BY <1>1, <1>4, <2>5, UseFacts DEF Undisturbed
      <2>7. OneNote(n)'
            <3>1. \A q \in Slot : calls'[q] \in {None, calls[q]}
                  BY <2>4, CallEnds
            <3>2. QED BY <1>1, <2>4, <2>5, <3>1, OneNoteKept DEF TabInv
      <2>8. ToldInv(n)'
            BY <1>1, <2>6, ToldRaised
      <2>9. RawInv(n)'
            <3>1. CASE call.op = "modified"
                  BY <1>1, <2>6, <3>1 DEF RawInv
            <3>2. CASE call.op = "undeleted"
                  <4>1. (ReadsText => ReadsText') /\ (HasChange(n)' <=> HasChange(n))
                        BY <1>1, <2>4, <3>2, CallEnds, SameWaits
                  <4>2. QED BY <1>1, <2>5, <2>6, <3>2, <4>1 DEF TabInv, ScreenInv, RawInv
            <3>3. QED BY <1>1, <3>1, <3>2
      <2>10. TextInv(n)'
            <3>1. CASE call.mine
                  <4>1. content'.text = revisions'[told'].text
                        BY <2>4, <2>6, <3>1 DEF Shown
                  <4>2. QED BY <4>1 DEF TextInv
            <3>2. CASE ~call.mine
                  BY <1>1, <3>2 DEF TextInv
            <3>3. QED BY <3>1, <3>2
      <2>11. NewInv(n)'
            BY <1>1, <2>6 DEF NewInv
      <2>12. DeletedInv(n)'
            <3>1. CASE call.mine
                  <4>1. content'.deleted = revisions'[told'].deleted
                        BY <2>4, <2>6, <3>1 DEF Shown
                  <4>2. QED BY <4>1 DEF DeletedInv
            <3>2. CASE ~call.mine
                  BY <1>1, <3>2 DEF DeletedInv
            <3>3. QED BY <3>1, <3>2
      <2>13. QED BY <2>7, <2>8, <2>9, <2>10, <2>11, <2>12 DEF TabInv, ScreenInv
<1>5. QED BY <1>1, <1>3, <1>4, TabShown

(* From here on, the tab may show what is not current.                     *)
LEMMA UnknownShown ==
    ASSUME ShownInv, TypeInv', NEW s \in Slot, HandleUnknownContent(s)
    PROVE  ShownInv'
<1>1. UNCHANGED <<revisions, tlms>> /\ ~Undisturbed'
      BY DEF HandleUnknownContent, serverVars, Undisturbed
<1>2. \A q \in Slot : calls'[q] # None /\ calls'[q] # calls[q] => calls'[q].answer = None
      BY DEF HandleUnknownContent, Keep, ShownInv, TypeInv
<1>3. QED BY <1>1, <1>2, TabShown

LEMMA LoadShown ==
    ASSUME ShownInv, TypeInv', NEW s \in Slot, ResumeLoad(s)
    PROVE  ShownInv'
<1> TypeInv
    BY DEF ShownInv
<1> DEFINE call == calls[s]
           newMode == IF call.answer.created THEN "edit" ELSE "view"
           text == IF call.answer.created /\ draft[call.note] # None THEN draft[call.note]
                   ELSE call.answer.text
           shown == [Shown(call) EXCEPT !.text = text]
<1>1. /\ Answered(s) /\ call.op = "load" /\ Used(s) /\ Uses(call)
      /\ UNCHANGED <<revisions, tlms, opened, newContent, showRefreshWarning, outdated, missed>>
      /\ rawContentBeforeEdit' = call.answer.text
      /\ Display(s, shown, newMode, FALSE)
      BY DEF ResumeLoad, Used, serverVars
<1>2. /\ shown.id = call.note /\ shown.deleted = call.answer.deleted
      /\ newMode # "revision" /\ (newMode = "view" => shown.text = call.answer.text)
      BY DEF Shown
<1> HIDE DEF shown, newMode
<1>3. \A q \in Slot : calls'[q] # None /\ calls'[q] # calls[q] => calls'[q].answer = None
      BY <1>1, DisplayEnds
<1>4. ASSUME NEW n \in Note, Undisturbed', content'.id = n
      PROVE  TabInv(n)'
      <2>1. Undisturbed /\ content.id \in Note
            BY <1>1, <1>4 DEF Undisturbed, Uses, TypeInv, TypeOK
      <2>2. TabInv(content.id)
            BY <2>1 DEF ShownInv
      <2>3. call.note = content.id /\ call # None
            BY <1>1, <2>2 DEF Answered, TabInv, OneNote
      <2>4. /\ calls' = [calls EXCEPT ![s] = None] /\ mode' = newMode
            /\ content' = shown
            BY <1>1, <1>2, <2>3, DisplayStays
      <2>5. n = content.id /\ TabInv(n) /\ call.note = n
            BY <1>2, <1>4, <2>2, <2>3, <2>4
      <2>6. /\ told' # 0 /\ told' \in DOMAIN revisions /\ revisions[told'].note = n
            /\ \A r \in Nat : IsOf(n, r) /\ r <= Received => r <= told'
            /\ revisions'[told'].text = call.answer.text
            /\ revisions'[told'].deleted = call.answer.deleted
            /\ told # 0 => told' = told \/ HasTlm(n)
            BY <1>1, <1>4, <2>5, UseFacts DEF Undisturbed
      <2>7. OneNote(n)'
            <3>1. \A q \in Slot : calls'[q] \in {None, calls[q]}
                  BY <2>4, CallEnds
            <3>2. OneNote(n) /\ (showRefreshWarning' => newContent'.id = n) /\ mode' # "revision"
                  BY <1>1, <1>2, <2>4, <2>5 DEF TabInv, OneNote
            <3>3. QED BY <1>1, <3>1, <3>2, OneNoteKept
      <2>8. ToldInv(n)'
            BY <1>1, <2>6, ToldRaised
      <2>9. RawInv(n)'
            BY <1>1, <2>6 DEF RawInv
      <2>10. TextInv(n)'
            BY <1>1, <1>2, <2>4, <2>6 DEF TextInv
      <2>11. NewInv(n)'
            <3>1. told = 0 => ~showRefreshWarning
                  BY <2>5 DEF TabInv, ToldInv
            <3>2. (ReadsNews => ReadsNews') /\ (HasTlm(n)' <=> HasTlm(n))
                  BY <1>1, <2>4, CallEnds, SameWaits
            <3>3. NewInv(n)
                  BY <2>5 DEF TabInv, ScreenInv
            <3>4. QED BY <1>1, <2>6, <3>1, <3>2, <3>3 DEF NewInv
      <2>12. DeletedInv(n)'
            BY <1>2, <2>4, <2>6 DEF DeletedInv
      <2>13. QED BY <2>7, <2>8, <2>9, <2>10, <2>11, <2>12 DEF TabInv, ScreenInv
<1>5. QED BY <1>1, <1>3, <1>4, TabShown

LEMMA SaveShown ==
    ASSUME ShownInv, TypeInv', NEW s \in Slot, ResumeSave(s)
    PROVE  ShownInv'
<1> TypeInv /\ content \in Content
    BY DEF ShownInv, TypeInv, TypeOK, Content, Text
<1> DEFINE call == calls[s]
<1>1. /\ Answered(s) /\ call.op = "put"
      /\ UNCHANGED <<revisions, tlms, opened, newContent, showRefreshWarning,
                     rawContentBeforeEdit, outdated, missed>>
      BY DEF ResumeSave, serverVars, newVars
<1>2. CASE ~call.answer.saved
      <2>1. /\ calls' = [calls EXCEPT ![s] = None]
            /\ UNCHANGED <<content, mode, loadingContent, told, raced>>
            BY <1>2 DEF ResumeSave, Keep, noteVars
      <2>2. \A q \in Slot : calls'[q] # None /\ calls'[q] # calls[q] => calls'[q].answer = None
            BY <2>1, CallEnds
      <2>3. ASSUME NEW n \in Note, Undisturbed', content'.id = n
            PROVE  TabInv(n)'
            <3>1. TabInv(n) /\ ServerGrows(n)
                  BY <1>1, <2>1, <2>3, SameServer DEF ShownInv, Undisturbed
            <3>2. CallsGoOn(n)
                  <4>1. PICK new : calls' = [calls EXCEPT ![s] = new] /\ new = None
                        BY <2>1
                  <4>2. QED BY <1>1, <3>1, <4>1, NewCallGoesOn
            <3>3. QED BY <1>1, <2>1, <3>1, <3>2, TabKept
      <2>4. QED BY <1>1, <2>2, <2>3, TabShown
<1>3. CASE call.answer.saved
      <2> DEFINE shown == [content EXCEPT !.text = call.text]
      <2>1. /\ Display(s, shown, "view", loadingContent)
            /\ Used(s) /\ Uses(call)
            BY <1>1, <1>3 DEF ResumeSave, Used
      <2>2. shown.id = content.id /\ shown.text = call.text /\ shown.deleted = content.deleted
            BY DEF Content
      <2> HIDE DEF shown
      <2>3. \A q \in Slot : calls'[q] # None /\ calls'[q] # calls[q] => calls'[q].answer = None
            BY <2>1, DisplayEnds
      <2>4. /\ calls' = [calls EXCEPT ![s] = None] /\ mode' = "view" /\ content' = shown
            BY <2>1, <2>2, DisplayStays
      <2>5. ASSUME NEW n \in Note, Undisturbed', content'.id = n
            PROVE  TabInv(n)'
            <3>1. Undisturbed /\ content.id = n
                  BY <1>1, <2>1, <2>2, <2>4, <2>5 DEF Undisturbed, Uses
            <3>2. TabInv(n)
                  BY <3>1 DEF ShownInv
            <3>3. /\ told' # 0 /\ told' \in DOMAIN revisions /\ revisions[told'].note = n
                  /\ \A r \in Nat : IsOf(n, r) /\ r <= Received => r <= told'
                  /\ revisions'[told'].text = call.text
                  /\ revisions'[told'].deleted = FALSE
                  /\ told # 0
                  /\ told' = told \/ HasTlm(n)
                  /\ revisions'[told'].text = revisions[told].text \/ HasChange(n)
                  BY <1>1, <2>1, <2>5, <3>2, UseFacts DEF Undisturbed
            <3>4. /\ (ReadsText => ReadsText') /\ (ReadsNews => ReadsNews') /\ (ReadsAny => ReadsAny')
                  /\ (HasTlm(n)' <=> HasTlm(n)) /\ (HasChange(n)' <=> HasChange(n))
                  BY <1>1, <2>4, CallEnds, SameWaits
            <3>5. RawInv(n) /\ NewInv(n) /\ DeletedInv(n) /\ OneNote(n)
                  BY <3>2 DEF TabInv, ScreenInv
            <3>6. OneNote(n)'
                  <4>1. \A q \in Slot : calls'[q] \in {None, calls[q]}
                        BY <2>4, CallEnds
                  <4>2. (showRefreshWarning' => newContent'.id = n) /\ mode' # "revision"
                        BY <1>1, <2>4, <3>5 DEF OneNote
                  <4>3. QED BY <1>1, <3>5, <4>1, <4>2, OneNoteKept
            <3>7. ToldInv(n)'
                  BY <1>1, <3>3, ToldRaised
            <3>8. RawInv(n)'
                  BY <1>1, <3>3, <3>4, <3>5 DEF RawInv
            <3>9. TextInv(n)'
                  BY <2>2, <2>4, <3>3 DEF TextInv
            <3>10. NewInv(n)'
                  BY <1>1, <3>3, <3>4, <3>5 DEF NewInv
            <3>11. DeletedInv(n)'
                  <4>1. content'.deleted = content.deleted /\ content.deleted \in BOOLEAN
                        BY <2>2, <2>4 DEF Content
                  <4>2. CASE ReadsAny \/ HasTlm(n) \/ showRefreshWarning
                        BY <1>1, <3>4, <4>2 DEF DeletedInv
                  <4>3. CASE ~(ReadsAny \/ HasTlm(n) \/ showRefreshWarning)
                        <5>1. told' = told
                              BY <3>3, <4>3
                        <5>2. ~content.deleted
                              BY <1>1, <3>3, <3>5, <4>3, <5>1 DEF DeletedInv
                        <5>3. QED BY <3>3, <4>1, <5>2 DEF DeletedInv
                  <4>4. QED BY <4>2, <4>3
            <3>12. QED BY <3>6, <3>7, <3>8, <3>9, <3>10, <3>11 DEF TabInv, ScreenInv
      <2>6. QED BY <1>1, <2>3, <2>5, TabShown
<1>4. QED BY <1>2, <1>3

-----------------------------------------------------------------------------
LEMMA InitShown == Init => ShownInv
<1> SUFFICES ASSUME Init PROVE ShownInv
    OBVIOUS
<1>1. TypeInv
      BY InitType
<1>2. /\ DOMAIN revisions = 1..Len(revisions) /\ Len(revisions) \in Nat
      /\ \A r \in DOMAIN revisions : revisions[r].note = r
      BY <1>1, LenProperties DEF TypeInv, ServerInv, Init, Note
<1>3. TlmsInv
      <2>1. Len(tlms) = 0 /\ DOMAIN tlms = {}
            BY DEF Init
      <2>2. QED BY <1>2, <2>1 DEF TlmsInv, Received
<1>4. TextsInv
      BY <1>2 DEF TextsInv, IsOf
<1> DEFINE load == Call("load", 1, FALSE, 0)
<1>5. 1 \in Note /\ load # None /\ load.op = "load" /\ load.note = 1 /\ load.answer = None
      <2>1. 1 \in Note
            BY BoundAssumption DEF Note
      <2>2. load \in Calls
            BY <2>1, NewCallType
      <2>3. QED BY <2>1, <2>2, CallIsSome DEF Call
<1> HIDE DEF load
<1>6. PICK first \in Slot : calls = [s \in Slot |-> IF s = first THEN load ELSE None]
      BY DEF Init, load
<1>7. /\ calls[first] # None
      /\ \A s \in Slot : calls[s] # None =>
            calls[s].op = "load" /\ calls[s].note = 1 /\ calls[s].answer = None
      BY <1>5, <1>6
<1>8. AnswersInv
      BY <1>7 DEF AnswersInv, Answered
<1>9. ReadsText /\ ReadsAny
      BY <1>7 DEF ReadsText, ReadsAny
<1>10. OneNote(1) /\ ToldInv(1)
      BY <1>7 DEF OneNote, ToldInv, Init
<1>11. ScreenInv(1)
      BY <1>9 DEF ScreenInv, RawInv, TextInv, NewInv, DeletedInv, Init
<1>12. ASSUME NEW n \in Note, content.id = n
       PROVE  TabInv(n)
      <2>1. n = 1
            BY <1>12 DEF Init
      <2>2. QED BY <1>10, <1>11, <2>1 DEF TabInv
<1>13. QED BY <1>1, <1>3, <1>4, <1>8, <1>12 DEF ShownInv

LEMMA ShownStep == ShownInv /\ [Next]_vars => ShownInv'
<1> SUFFICES ASSUME ShownInv, [Next]_vars PROVE ShownInv'
    OBVIOUS
<1>1. TypeInv'
      BY TypeStep DEF ShownInv
<1>2. CASE UNCHANGED vars
      <2>1. /\ UNCHANGED <<revisions, tlms, opened, content, newContent, rawContentBeforeEdit, mode,
                           showRefreshWarning, loadingContent, calls, told, raced, outdated,
                           missed>>
            BY <1>2 DEF vars, serverVars, noteVars, newVars, raceVars
      <2>2. ASSUME NEW n \in Note, Undisturbed', content'.id = n
            PROVE  TabInv(n)'
            BY <2>1, <2>2, SameServer, SameCalls, TabKept DEF ShownInv, Undisturbed
      <2>3. QED BY <1>1, <2>1, <2>2, TabShown
<1>3. CASE Next
      <2>1. CASE \/ \E n \in Note : OthersAct(n)
                 \/ HandleChangeStatus \/ HandleSaveEditTitle \/ HandleClickRestoreDelete
            BY <1>1, <2>1, OthersShown
      <2>2. CASE \/ HandleClickNewVersion \/ HandleCloseNewVersion
                 \/ \E r \in DOMAIN revisions : HandleClickShowRevision(r)
            BY <1>1, <2>2, ModeShown
      <2>3. CASE UpdateTextToEdit
            <3>1. PICK s \in Slot : TRUE
                  BY BoundAssumption
            <3>2. QED BY <1>1, <2>3, CalmShown
      <2>4. ASSUME NEW s \in Slot,
                   \/ HandleTlm(s) \/ HandleUnknownContent(s)
                   \/ HandleContentModified(s) \/ HandleContentRestore(s)
                   \/ ResumeLoad(s) \/ ResumeSave(s) \/ ServerAnswers(s)
            PROVE  ShownInv'
            BY <1>1, <2>4, TlmShown, NewsShown, UnknownShown, LoadShown, SaveShown, ServerShown
      <2>5. ASSUME NEW s \in Slot,
                   \/ HandleClickSaveDocument(s) \/ HandleSaveHtmlDocument(s) \/ GivesUpSaving(s)
                   \/ HandleClickDelete(s) \/ ResumeDelete(s)
            PROVE  ShownInv'
            BY <1>1, <2>5, CalmShown
      <2>6. ASSUME NEW s \in Slot,
                   \/ \E n \in Note : Open(s, n)
                   \/ HandleClickRefresh(s) \/ HandleClickLastVersion(s)
            PROVE  ShownInv'
            BY <1>1, <2>6, OpenShown, RefreshShown
      <2>7. QED BY <1>3, <2>1, <2>2, <2>3, <2>4, <2>5, <2>6 DEF Next
<1>4. QED BY <1>2, <1>3

LEMMA ShownTells == ShownInv => ShownOrNoticed
<1> SUFFICES ASSUME ShownInv, Quiet, ~raced, ~outdated, ~missed
             PROVE  /\ content.id = opened
                    /\ \/ showRefreshWarning
                       \/ content.deleted /\ IsDeleted(opened)
                       \/ /\ Base = CurrentText(opened)
                          /\ ~content.deleted /\ ~IsDeleted(opened)
    BY DEF ShownOrNoticed
<1> DEFINE n == content.id
<1>1. n \in Note /\ ServerInv /\ content.deleted \in BOOLEAN
      BY DEF ShownInv, TypeInv, TypeOK
<1>2. TabInv(n)
      BY <1>1 DEF ShownInv, Undisturbed
<1>3. content.id = opened
      BY <1>2 DEF TabInv, OneNote
<1>4. /\ ~ReadsText /\ ~ReadsAny /\ ~HasTlm(n) /\ ~HasChange(n) /\ mode # "revision"
      /\ Len(tlms) = 0
      BY DEF Quiet, Idle, ReadsText, ReadsAny, HasTlm, HasChange
<1>5. told # 0
      BY <1>2 DEF TabInv, ToldInv, Quiet, Idle
<1>6. told = Current(n)
      <2>1. /\ DOMAIN revisions = 1..Len(revisions) /\ Len(revisions) \in Nat
            /\ Received = Len(revisions)
            BY <1>1, <1>4, LenProperties DEF ServerInv, Received
      <2>2. /\ told \in DOMAIN revisions /\ revisions[told].note = n
            /\ \A r \in Nat : IsOf(n, r) /\ r <= Received => r <= told
            BY <1>2, <1>5 DEF TabInv, ToldInv
      <2>3. IsCurrent(n, told)
            BY <2>1, <2>2 DEF IsCurrent, IsOf
      <2>4. IsCurrent(n, Current(n)) /\ Current(n) \in DOMAIN revisions
            BY <2>2, <2>3 DEF Current, IsCurrent
      <2>5. QED BY <2>1, <2>2, <2>3, <2>4 DEF IsCurrent
<1>7. ASSUME ~showRefreshWarning
      PROVE  /\ content.deleted = IsDeleted(n)
             /\ content.deleted \/ Base = CurrentText(n)
      <2>1. RawInv(n) /\ TextInv(n) /\ DeletedInv(n)
            BY <1>2 DEF TabInv, ScreenInv
      <2>2. content.deleted = IsDeleted(n)
            BY <1>4, <1>6, <1>7, <2>1 DEF DeletedInv, IsDeleted
      <2>3. CASE mode = "edit"
            BY <1>4, <1>6, <2>1, <2>2, <2>3 DEF RawInv, Base, CurrentText
      <2>4. CASE mode # "edit"
            <3>1. mode = "view"
                  BY <1>4, <2>4 DEF ShownInv, TypeInv, TypeOK
            <3>2. content.deleted \/ content.text = revisions[told].text
                  BY <1>4, <1>7, <2>1, <3>1 DEF TextInv
            <3>3. QED BY <1>6, <2>2, <2>4, <3>2 DEF Base, CurrentText
      <2>5. QED BY <2>2, <2>3, <2>4
<1>8. QED BY <1>3, <1>7

(* When nothing is under way, the note the user opened last is shown as it *)
(* is on the server, or the warning is: no text is edited from an old base *)
(* without notice, unless a handler was overtaken, an edition began on an  *)
(* old text, or a content was refused to the handler of a live message.    *)
THEOREM WhatIsShownIsCurrentOrAnnounced == Spec => []ShownOrNoticed
<1>1. QED BY InitShown, ShownStep, ShownTells, PTL DEF Spec

(* While no handler was overtaken, no edition began on an old text and no  *)
(* content was refused to the handler of a live message since the note was *)
(* opened, the tab knows of every revision of the note it has received the *)
(* message of, and what it shows, edits from and would show is that of the *)
(* newest it knows of unless something that tells otherwise is to come.    *)
THEOREM TheTabFollows == Spec => []ShownInv
<1>1. QED BY InitShown, ShownStep, PTL DEF Spec
=============================================================================
