----------------------------- MODULE Committee -----------------------------
(***************************************************************************)
(* The validator committee of integration001/src/model.rs: a fixed set of  *)
(* members, of which an unknown part is Byzantine, and the vote threshold  *)
(* Q that makes a quorum certificate.  The program runs with seven members *)
(* and a threshold of five and labels two of its nodes Byzantine; here the *)
(* three are parameters, related only by what quorum intersection needs.   *)
(***************************************************************************)
EXTENDS Naturals, FiniteSets

CONSTANTS
  Validators,   \* the committee members
  Byzantine,    \* the members that may sign anything
  Q             \* the number of distinct signers of a certificate

Honest == Validators \ Byzantine

(***************************************************************************)
(* Q + Q exceeds the committee by more than the Byzantine members, so two  *)
(* certificates always share an honest signer (5 + 5 > 7 + 2).             *)
(***************************************************************************)
ASSUME CommitteeAssumption ==
  /\ IsFiniteSet(Validators)
  /\ Byzantine \subseteq Validators
  /\ Q \in 0..Cardinality(Validators)
  /\ Cardinality(Validators) + Cardinality(Byzantine) < Q + Q

\* Mutant: a threshold that is one short.
IsQuorumOneShort(S) == S \subseteq Validators /\ Cardinality(S) + 1 >= Q

\* The signer sets verify_qc accepts: distinct members, at least Q of them.
IsQuorum(S) == S \subseteq Validators /\ Cardinality(S) >= Q
=============================================================================
