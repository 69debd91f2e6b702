----------------------------- MODULE MCFinalize -----------------------------
(***************************************************************************)
(* Instances of Finalize for TLC, on the ledger of MCNode.                 *)
(***************************************************************************)
EXTENDS Finalize, TLC

CONSTANTS
  v1, v2, v3, b1, pay1, pay2, next, alice, bob1, bob2, carol, c1, c2

LedgerInputOf == [i \in Intents |-> IF i = next THEN bob1 ELSE alice]

LedgerOutputsOf == [i \in Intents |-> CASE i = pay1 -> {bob1}
                                        [] i = pay2 -> {bob2}
                                        [] i = next -> {carol}]

\* Every honest node, or one side of the split of round 1.
AllOrOne == {<<v1, v2, v3>>, <<v3>>}

All == {<<v1, v2, v3>>}
=============================================================================
