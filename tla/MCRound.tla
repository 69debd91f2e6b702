------------------------------ MODULE MCRound ------------------------------
(***************************************************************************)
(* Instances of RoundChange for TLC: four members, the last one Byzantine, *)
(* in every rotation, and two candidates.                                  *)
(***************************************************************************)
EXTENDS RoundChange

CONSTANTS v1, v2, v3, b1, A, B

LeaderOrder == <<b1, v1, v2, v3>>
=============================================================================
