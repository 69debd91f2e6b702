--------------------------- MODULE MCExperiments ---------------------------
(***************************************************************************)
(* The SEC experiments side by side, for TLC.  A behaviour picks one       *)
(* experiment and runs it; the other experiments stay in their initial     *)
(* state.  All use the same committee: five members, two of them           *)
(* Byzantine, threshold four, so a quorum can do with two of the three     *)
(* honest members, and two quorums share at least one of them.             *)
(***************************************************************************)
EXTENDS RoundChange, LockAnchor, Handoff, Lineage, Freshness, Ratchet,
        KeyContainment, TLC

CONSTANTS
  Experiments,  \* the experiments to run
  v1, v2, v3, b1, b2, A, B, pay, steal, coin, gem, w1, w2, w3, wb, ours, other

VARIABLE running  \* the experiment this behaviour is about

allVars == <<running, roundVars, anchorVars, handoffVars, lineageVars, freshVars, ratchetVars, keyVars>>

LeaderOrder == <<b1, b2, v1, v2, v3>>
SpendInputs == [t \in {pay, steal} |-> IF t = pay THEN <<coin, gem>> ELSE <<gem>>]
HonestSymmetry == Permutations({v1, v2, v3})

InitAll ==
  /\ running \in Experiments
  /\ RoundInit /\ AnchorInit /\ HandoffInit /\ LineageInit /\ FreshInit /\ RatchetInit
  /\ KeyInit
  /\ running # "round" => edition = "sec009" /\ offset = 0
  /\ running # "keys" => test = "sec017" /\ revokes = FALSE

NextAll ==
  \/ /\ running = "round" /\ RoundNext
     /\ UNCHANGED <<running, anchorVars, handoffVars, lineageVars, freshVars, ratchetVars, keyVars>>
  \/ /\ running = "anchor" /\ AnchorNext
     /\ UNCHANGED <<running, roundVars, handoffVars, lineageVars, freshVars, ratchetVars, keyVars>>
  \/ /\ running = "handoff" /\ HandoffNext
     /\ UNCHANGED <<running, roundVars, anchorVars, lineageVars, freshVars, ratchetVars, keyVars>>
  \/ /\ running = "lineage" /\ LineageNext
     /\ UNCHANGED <<running, roundVars, anchorVars, handoffVars, freshVars, ratchetVars, keyVars>>
  \/ /\ running = "freshness" /\ FreshNext
     /\ UNCHANGED <<running, roundVars, anchorVars, handoffVars, lineageVars, ratchetVars, keyVars>>
  \/ /\ running = "ratchet" /\ RatchetNext
     /\ UNCHANGED <<running, roundVars, anchorVars, handoffVars, lineageVars, freshVars, keyVars>>
  \/ /\ running = "keys" /\ KeyNext
     /\ UNCHANGED <<running, roundVars, anchorVars, handoffVars, lineageVars, freshVars, ratchetVars>>

SpecAll == InitAll /\ [][NextAll]_allVars
=============================================================================
