-------------------------- MODULE MCContentHistory --------------------------
(***************************************************************************)
(* ContentHistory for TLC: sessions are model values and interchangeable.  *)
(***************************************************************************)
EXTENDS ContentHistory, TLC

SessionPermutations == Permutations(Session)
=============================================================================
