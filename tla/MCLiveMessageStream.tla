------------------------- MODULE MCLiveMessageStream -------------------------
(* Instances of LiveMessageStream for TLC.  Tabs are only compared.         *)
EXTENDS LiveMessageStream, TLC

Symmetry == Permutations(Tab)
=============================================================================
