----------------------------- MODULE LockAnchor -----------------------------
(***************************************************************************)
(* The lock anchor of sec004/src/main.rs.  A certifier keeps its conflict  *)
(* locks in memory only, where a rollback may erase them.  Before it signs *)
(* a spend it therefore asks witnesses for evidence of an earlier lock of  *)
(* its own on each input, and has each lock written down by witnesses.     *)
(*                                                                         *)
(* A call is one thread of control that reaches the witnesses directly, so *)
(* it is one step.  Its caller chooses whom it asks: a call that is cut    *)
(* short leaves what a call with fewer witnesses leaves.  An honest        *)
(* witness answers from its durable store, which a restore may replace by  *)
(* an older copy.  A Byzantine witness acknowledges anything and never     *)
(* remembers; a Byzantine certifier signs anything.  Signatures hold.      *)
(***************************************************************************)
EXTENDS Committee, Sequences

CONSTANTS
  Txs,                 \* authorised spends, each standing for its digest
  Inputs,
  InputsOf,            \* InputsOf[t]: the inputs of a spend in its order
  Witnesses,
  ByzantineWitnesses,
  AnchorQ,             \* acknowledgements an anchor needs
  RecoveryQ,           \* answers a recovery needs
  MaxRestored,         \* honest witness stores that may be rolled back
  MaxAsked             \* bound: honest certifiers that leave anything behind

(***************************************************************************)
(* An anchor and a recovery share more witnesses than are Byzantine or     *)
(* rolled back.  With 5 + 6 > 7 + 2 + MaxRestored the program tolerates one *)
(* restored store, and shows an attack that restores three.                *)
(***************************************************************************)
ASSUME AnchorAssumption ==
  /\ InputsOf \in [Txs -> Seq(Inputs)]
  /\ IsFiniteSet(Witnesses) /\ ByzantineWitnesses \subseteq Witnesses
  /\ AnchorQ \in Nat /\ RecoveryQ \in Nat /\ MaxRestored \in Nat
  /\ Cardinality(Witnesses) + Cardinality(ByzantineWitnesses) + MaxRestored
       < AnchorQ + RecoveryQ

VARIABLES
  anchors,    \* anchors[w]: the evidence in w's store
  localLock,  \* local_locks: at most one spend per certifier and input
  signed,     \* the shares each honest certifier has issued
  restored    \* honest witnesses whose store was rolled back

anchorVars == <<anchors, localLock, signed, restored>>

Evidence == [certifier : Honest, input : Inputs, tx : Txs]

InputSet(t) == {InputsOf[t][k] : k \in DOMAIN InputsOf[t]}

AnchorInit ==
  /\ anchors = [w \in Witnesses |-> {}]
  /\ localLock = [c \in Honest |-> [i \in Inputs |-> {}]]
  /\ signed = [c \in Honest |-> {}]
  /\ restored = {}

-----------------------------------------------------------------------------
LockEvidence(c, i, t) == [certifier |-> c, input |-> i, tx |-> t]

\* What the asked witnesses tell c of its lock on an input.
Answers(c, i, R) ==
  {t \in Txs : \E w \in R \ ByzantineWitnesses : LockEvidence(c, i, t) \in anchors[w]}

\* Mutant: the certifier trusts a lock it still remembers and asks nobody.
RecoversFromMemory(c, t, i, R) ==
  /\ Cardinality(R) >= RecoveryQ
  /\ localLock[c][i] \subseteq {t}

\* recover_input finds no other spend.  Evidence of this one replaces whatever
\* the certifier remembers before that is looked at.
Recovers(c, t, i, R) ==
  /\ Cardinality(R) >= RecoveryQ
  /\ Answers(c, i, R) \subseteq {t}
  /\ Answers(c, i, R) = {t} \/ localLock[c][i] \subseteq {t}

\* A witness that holds no other evidence for this certifier and input.
Accepts(w, c, t, i) ==
  \A u \in Txs : LockEvidence(c, i, u) \in anchors[w] => w \in ByzantineWitnesses \/ u = t

\* anchor_input gets its acknowledgements.
AnchorHolds(c, t, i, A) == Cardinality({w \in A : Accepts(w, c, t, i)}) >= AnchorQ

\* The first n inputs of a spend.
FirstInputs(t, n) == {InputsOf[t][k] : k \in 1..n}

\* Locks noted while the first n inputs were recovered.
NoteRecovered(c, t, R, n) ==
  localLock' = [localLock EXCEPT ![c] = [i \in Inputs |->
    IF i \in FirstInputs(t, n) /\ Answers(c, i, R) = {t} THEN {t} ELSE localLock[c][i]]]

\* Every accepting honest witness writes the evidence down, whether or not the
\* anchor gets enough of them.
WriteAnchors(c, t, A, n) ==
  anchors' = [w \in Witnesses |->
    IF w \in A \ ByzantineWitnesses
      THEN anchors[w] \cup
             {LockEvidence(c, i, t) : i \in {j \in FirstInputs(t, n) : Accepts(w, c, t, j)}}
      ELSE anchors[w]]

-----------------------------------------------------------------------------
(* authorize_anchor_and_sign and its two ways to fail                      *)

RefusedByRecovery(c, t, R) ==
  \E k \in DOMAIN InputsOf[t] :
    /\ \A i \in FirstInputs(t, k - 1) : Recovers(c, t, i, R)
    /\ ~ Recovers(c, t, InputsOf[t][k], R)
    /\ NoteRecovered(c, t, R, k - 1)
    /\ UNCHANGED <<anchors, signed, restored>>

AllRecover(c, t, R) == \A i \in InputSet(t) : Recovers(c, t, i, R)

RefusedByAnchor(c, t, A, R) ==
  \E k \in DOMAIN InputsOf[t] :
    /\ AllRecover(c, t, R)
    /\ \A i \in FirstInputs(t, k - 1) : AnchorHolds(c, t, i, A)
    /\ ~ AnchorHolds(c, t, InputsOf[t][k], A)
    /\ NoteRecovered(c, t, R, Len(InputsOf[t]))
    /\ WriteAnchors(c, t, A, k)
    /\ UNCHANGED <<signed, restored>>

AnchorAndSign(c, t, A, R) ==
  /\ AllRecover(c, t, R)
  /\ \A i \in InputSet(t) : AnchorHolds(c, t, i, A)
  /\ WriteAnchors(c, t, A, Len(InputsOf[t]))
  /\ localLock' = [localLock EXCEPT ![c] = [i \in Inputs |->
                     IF i \in InputSet(t) THEN {t} ELSE localLock[c][i]]]
  /\ signed' = [signed EXCEPT ![c] = @ \cup {t}]
  /\ UNCHANGED restored

\* rollback_local_state, at any time.
RollbackLocal(c) ==
  /\ localLock' = [localLock EXCEPT ![c] = [i \in Inputs |-> {}]]
  /\ UNCHANGED <<anchors, signed, restored>>

\* restore puts an older copy of a store in its place; open reads that.
RestoreWitness(w) ==
  /\ Cardinality(restored \cup {w}) <= MaxRestored
  /\ restored' = restored \cup {w}
  /\ \E older \in SUBSET anchors[w] : anchors' = [anchors EXCEPT ![w] = older]
  /\ UNCHANGED <<localLock, signed>>

\* The certifiers whose calls have left something behind.
Asked ==
  {c \in Honest : \/ signed[c] # {} \/ \E i \in Inputs : localLock[c][i] # {}
                  \/ \E w \in Witnesses : \E e \in anchors[w] : e.certifier = c}

AnchorNext ==
  \/ \E c \in Honest, t \in Txs, R \in SUBSET Witnesses :
       /\ Cardinality(Asked \cup {c}) <= MaxAsked
       /\ \/ RefusedByRecovery(c, t, R)
          \/ \E A \in SUBSET Witnesses : RefusedByAnchor(c, t, A, R) \/ AnchorAndSign(c, t, A, R)
  \/ \E c \in Honest : RollbackLocal(c)
  \/ \E w \in Witnesses \ ByzantineWitnesses : RestoreWitness(w)

AnchorSpec == AnchorInit /\ [][AnchorNext]_anchorVars

-----------------------------------------------------------------------------
AnchorTypeOK ==
  /\ anchors \in [Witnesses -> SUBSET Evidence]
  /\ localLock \in [Honest -> [Inputs -> SUBSET Txs]]
  /\ \A c \in Honest, i \in Inputs : Cardinality(localLock[c][i]) <= 1
  /\ signed \in [Honest -> SUBSET Txs]
  /\ restored \subseteq Witnesses \ ByzantineWitnesses
  /\ Cardinality(restored) <= MaxRestored

Conflicting(t, u) == t # u /\ InputSet(t) \cap InputSet(u) # {}

\* What the anchor is for: whatever a certifier forgets, and although calls fail
\* half way, it never signs two spends of one input.
NoSecondSignature ==
  \A c \in Honest : \A t, u \in signed[c] : ~ Conflicting(t, u)

\* verify_threshold: enough distinct certifiers signed.
AnchorCertified(t) == IsQuorum({c \in Honest : t \in signed[c]} \cup Byzantine)

\* "TWO VALID 5-OF-7 SUCCESSORS" (sec004/src/main.rs:647) cannot arise unless more
\* than MaxRestored honest stores are rolled back.
NoTwoCertifiedSpends ==
  \A t, u \in Txs : AnchorCertified(t) /\ AnchorCertified(u) => ~ Conflicting(t, u)
=============================================================================
