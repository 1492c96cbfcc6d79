---------------------------- MODULE MCContentTree ----------------------------
(***************************************************************************)
(* Instances of ContentTree for TLC.  A label is a name with the dates the *)
(* trash has added to it, whose order is left out (a content may be        *)
(* archived and then deleted).  Contents, names, dates, workspaces and     *)
(* sessions are only compared, so they may be permuted.                    *)
(***************************************************************************)
EXTENDS ContentTree, TLC

CONSTANTS Name, Date

Labels == Name \X SUBSET Date

DatedLabels ==
    {<<k, l>> \in Labels \X Labels :
        k[1] = l[1] /\ \E d \in Date \ k[2] : l[2] = k[2] \cup {d}}

Symmetry ==
    Permutations(Session) \cup Permutations(Content) \cup Permutations(Name)
        \cup Permutations(Date) \cup Permutations(Workspace)
=============================================================================
