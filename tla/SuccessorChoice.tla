--------------------------- MODULE SuccessorChoice ---------------------------
(***************************************************************************)
(* What the committee promises, with no votes, rounds or certificates in   *)
(* it (integration001/PASS-MATRIX.md, gates B08 and B10): of the intents   *)
(* that spend one cell at most one is ever chosen, an intent is chosen only*)
(* when the cell it spends was created by a chosen one, and every replica  *)
(* applies chosen intents only, each after the one that funds it.          *)
(***************************************************************************)
CONSTANTS Validators, Genesis, Intents, InputOf, OutputsOf, Authorized

VARIABLES
  chosen,    \* the intents that have been chosen
  applied    \* applied[v]: the chosen intents replica v has applied

\* The cell i spends is a genesis cell or was created by one of the intents I.
FundedBy(i, I) == InputOf[i] \in Genesis \cup UNION {OutputsOf[j] : j \in I}

Init == chosen = {} /\ applied = [v \in Validators |-> {}]

Choose(i) ==
  /\ i \in Authorized
  /\ \A j \in chosen : InputOf[j] # InputOf[i]
  /\ FundedBy(i, chosen)
  /\ chosen' = chosen \cup {i}
  /\ UNCHANGED applied

Apply(v, i) ==
  /\ i \in chosen \ applied[v]
  /\ \A j \in applied[v] : InputOf[j] # InputOf[i]
  /\ FundedBy(i, applied[v])
  /\ applied' = [applied EXCEPT ![v] = @ \cup {i}]
  /\ UNCHANGED chosen

Next == \/ \E i \in Intents : Choose(i)
        \/ \E v \in Validators, i \in Intents : Apply(v, i)

Spec == Init /\ [][Next]_<<chosen, applied>>
=============================================================================
