------------------------------- MODULE MCNode -------------------------------
(***************************************************************************)
(* Instances of Node for TLC.  The ledger is one genesis cell that two     *)
(* authorised intents and one unauthorised intent all spend, and a cell    *)
(* that pay1 creates and next spends: a conflict, a bad owner and a second *)
(* generation.                                                             *)
(***************************************************************************)
EXTENDS Node, TLC

CONSTANTS
  v1, v2, v3, v4, v5, b1, b2,    \* members
  pay1, pay2, forged, next,      \* intents
  alice, bob1, bob2, carol       \* cells

\* The three intents on alice's cell, and the one that spends pay1's output.
LedgerInputOf == [i \in Intents |-> IF i = next THEN bob1 ELSE alice]

LedgerOutputsOf == [i \in Intents |-> CASE i = pay1 -> {bob1}
                                        [] i = pay2 -> {bob2}
                                        [] i = next -> {carol}
                                        [] OTHER -> {}]

HonestSymmetry == Permutations(Honest)
=============================================================================
