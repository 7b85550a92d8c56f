-------------------------- MODULE MCNodeSelection --------------------------
(***************************************************************************)
(* Instances of NodeSelection.                                             *)
(***************************************************************************)
EXTENDS NodeSelection

CONSTANTS p1, p2, liar, d1, d2, r1, r2
=============================================================================
