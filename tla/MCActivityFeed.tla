--------------------------- MODULE MCActivityFeed ---------------------------
(* Instances of ActivityFeed for TLC: two contents in one space, which no  *)
(* definition tells apart, and a space without contents to go to; two      *)
(* messages, of which the second may be about a comment that was changed.  *)
EXTENDS ActivityFeed, TLC

CONSTANTS A, B, S, T

MCSpaceOf == [c \in Content |-> S]

MCKinds == <<{"modified"}, {"modified", "comment modified"}>>

Symmetry == Permutations({A, B})
=============================================================================
