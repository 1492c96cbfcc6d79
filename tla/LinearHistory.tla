---------------------------- MODULE LinearHistory ----------------------------
(***************************************************************************)
(* What the history of a content promises when every author builds on the  *)
(* revision that is current: a chain.  Each new revision has the current   *)
(* one as its parent and becomes the current one in the same step, so that *)
(* no revision is ever overwritten and none is left off the chain.         *)
(***************************************************************************)
EXTENDS Naturals

CONSTANT NumContents

VARIABLES
    parent,     \* <<revision, its parent>> for each revision that has one
    head        \* the current revision of each content

vars == <<parent, head>>

Content == 1 .. NumContents

Init ==
    /\ parent = {}
    /\ head = [c \in Content |-> c]

Used == {p[1] : p \in parent} \cup Content

\* The new revision is the one head'[c] names.
Append(c) ==
    /\ head'[c] \notin Used
    /\ parent' = parent \cup {<<head'[c], head[c]>>}
    /\ head' = [head EXCEPT ![c] = head'[c]]

Next == \E c \in Content : Append(c)

Spec == Init /\ [][Next]_vars
=============================================================================
