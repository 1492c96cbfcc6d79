--------------------------- MODULE MCNoteEditing ---------------------------
(* Instances of NoteEditing for TLC: the slots only count the calls.       *)
EXTENDS NoteEditing, TLC

Symmetry == Permutations(Slot)
=============================================================================
