-------------------------- MODULE CommitteeProofs --------------------------
(***************************************************************************)
(* Quorum intersection, the one arithmetic fact the voting proofs use.     *)
(***************************************************************************)
EXTENDS Committee, FiniteSetTheorems, TLAPS

\* Any two sets that verify_qc would accept share a member that is not
\* Byzantine: with seven members, two of them Byzantine, and a threshold of
\* five, two certificates have at least one honest signer in common.
THEOREM QuorumsShareHonest ==
  ASSUME NEW S, NEW T, IsQuorum(S), IsQuorum(T)
  PROVE  \E v \in Honest : v \in S /\ v \in T
<1>1. /\ IsFiniteSet(S) /\ IsFiniteSet(T) /\ IsFiniteSet(S \cup T)
      /\ IsFiniteSet(S \cap T) /\ IsFiniteSet(Byzantine)
  <2>1. S \subseteq Validators /\ T \subseteq Validators
    BY DEF IsQuorum
  <2>2. S \cup T \subseteq Validators /\ S \cap T \subseteq Validators
    BY <2>1
  <2> QED
    BY <2>1, <2>2, CommitteeAssumption, FS_Subset DEF CommitteeAssumption
<1>2. Cardinality(S \cup T) <= Cardinality(Validators)
  <2>1. S \cup T \subseteq Validators
    BY DEF IsQuorum
  <2> QED
    BY <2>1, CommitteeAssumption, FS_Subset DEF CommitteeAssumption
<1>3. Cardinality(S \cup T)
        = Cardinality(S) + Cardinality(T) - Cardinality(S \cap T)
  BY <1>1, FS_Union
<1>4. /\ Cardinality(S) \in Nat /\ Cardinality(T) \in Nat
      /\ Cardinality(S \cup T) \in Nat /\ Cardinality(S \cap T) \in Nat
      /\ Cardinality(Byzantine) \in Nat /\ Cardinality(Validators) \in Nat
  BY <1>1, CommitteeAssumption, FS_CardinalityType DEF CommitteeAssumption
<1>5. Q \in Nat /\ Cardinality(Validators) + Cardinality(Byzantine) < Q + Q
  BY <1>4, CommitteeAssumption DEF CommitteeAssumption
<1>6. Cardinality(S \cap T) > Cardinality(Byzantine)
  <2>1. Cardinality(S) >= Q /\ Cardinality(T) >= Q
    BY DEF IsQuorum
  <2> QED
    BY <2>1, <1>2, <1>3, <1>4, <1>5
<1>7. ~ (S \cap T \subseteq Byzantine)
  <2> SUFFICES ASSUME S \cap T \subseteq Byzantine
               PROVE  FALSE
    OBVIOUS
  <2>1. Cardinality(S \cap T) <= Cardinality(Byzantine)
    BY <1>1, FS_Subset
  <2> QED
    BY <2>1, <1>4, <1>6
<1> QED
  BY <1>7 DEF IsQuorum, Honest

\* Every acceptable signer set contains an honest member.
COROLLARY QuorumHasHonest ==
  ASSUME NEW S, IsQuorum(S)
  PROVE  \E v \in Honest : v \in S
BY QuorumsShareHonest

\* More signers never invalidate a certificate.
LEMMA LargerSignerSet ==
  ASSUME NEW S, IsQuorum(S), NEW T, S \subseteq T, T \subseteq Validators
  PROVE  IsQuorum(T)
<1>1. IsFiniteSet(T) /\ IsFiniteSet(S)
  BY CommitteeAssumption, FS_Subset DEF CommitteeAssumption, IsQuorum
<1>2. Cardinality(S) <= Cardinality(T)
  BY <1>1, FS_Subset
<1>3. Cardinality(S) \in Nat /\ Cardinality(T) \in Nat
  BY <1>1, FS_CardinalityType
<1>4. Q \in Nat
  BY CommitteeAssumption, FS_CardinalityType DEF CommitteeAssumption
<1> QED
  BY <1>2, <1>3, <1>4 DEF IsQuorum
=============================================================================
