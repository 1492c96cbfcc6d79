----------------------------- MODULE MCTimeline -----------------------------
(* Instances of Timeline for TLC: no definition tells the contents apart.  *)
EXTENDS Timeline, TLC

Symmetry == Permutations(Content)
=============================================================================
