-------------------------- MODULE MCSpaceMembership --------------------------
(***************************************************************************)
(* Instances of SpaceMembership for TLC.  Sessions and users are           *)
(* interchangeable; workspaces differ by their access type.                *)
(***************************************************************************)
EXTENDS SpaceMembership, TLC

Symmetry == Permutations(Session) \cup Permutations(User)
=============================================================================
