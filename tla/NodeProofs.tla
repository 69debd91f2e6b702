----------------------------- MODULE NodeProofs -----------------------------
(***************************************************************************)
(* Proofs about Node for every committee that satisfies the assumptions of *)
(* Committee, every ledger and every number of rounds.                     *)
(*                                                                         *)
(* AtMostOneCertified is not inductive: nothing in it says why an honest   *)
(* member that helped to certify one intent cannot help a conflicting one. *)
(* The inductive invariant adds that argument: a node votes once per slot, *)
(* every precommit it ever signed is covered by its lock, it holds at most *)
(* one lock per cell, and every share it issued is in its votes.           *)
(***************************************************************************)
EXTENDS Node, CommitteeProofs

\* A node's votes never give one slot two intents (WalStore::persist_vote).
OneVotePerSlot ==
  \A v \in Honest : \A w, x \in votes[v] :
    SameSlot(w, x.phase, x.round, x.intent) => w.intent = x.intent

\* locks is a map: a cell has at most one precommit lock.
OneLockPerCell == \A v \in Honest, c \in Cells : \A l, m \in lock[v][c] : l = m

\* Every precommit a node recorded is for the intent it is locked on, in a
\* round that is not above the lock's.
PrecommitsAreLocked ==
  \A v \in Honest : \A w \in votes[v] :
    w.phase = "precommit" =>
      \E l \in lock[v][InputOf[w.intent]] :
        l.intent = w.intent /\ w.round <= l.round

\* Honest nodes vote for authorised intents only.
VotesAreAuthorized == \A v \in Honest : \A w \in votes[v] : w.intent \in Authorized

VotingInv ==
  /\ TypeOK
  /\ OneVotePerSlot
  /\ OneLockPerCell
  /\ LocksAreJustified
  /\ PrecommitsAreLocked
  /\ VotesAreAuthorized
  /\ IssuedSharesAreDurable

AppliedAreCertified == \A v \in Validators : applied[v] \subseteq Certified

LedgerInv == LedgerFollowsApplied /\ AppliedAreCertified

IInv == VotingInv /\ LedgerInv

-----------------------------------------------------------------------------
(* What certificates show about honest votes                               *)

\* A finality chain certifies its intent.
LEMMA ChainCertifies ==
  ASSUME NEW r \in Rounds, NEW i \in Intents, NEW S, FinalityChain(r, i, S)
  PROVE  i \in Certified
BY DEF Certified, IsCertified, Quorums, FinalityChain, PrevoteQc, IsQuorum

\* A quorum of obtainable shares contains, from its honest members, durable
\* votes for the certified statement.
LEMMA CertifiedIsPrecommitted ==
  ASSUME IssuedSharesAreDurable, NEW i \in Certified
  PROVE  \E r \in Rounds, T \in SUBSET Validators :
           /\ IsQuorum(T)
           /\ \A v \in T : v \in Honest => Vote("precommit", r, i) \in votes[v]
<1>1. PICK r \in Rounds, S \in SUBSET Validators : FinalityChain(r, i, S)
  BY DEF Certified, IsCertified, Quorums
<1>2. IsQuorum(Precommitters(r, i, S)) /\ Precommitters(r, i, S) \in SUBSET Validators
  BY <1>1 DEF FinalityChain, Precommitters
<1>3. ASSUME NEW v \in Precommitters(r, i, S), v \in Honest
      PROVE  Vote("precommit", r, i) \in votes[v]
  <2>1. ShareOf(v, "precommit", r, i, S) \in shares
    BY <1>3 DEF Precommitters, Obtainable, Honest
  <2> QED
    BY <2>1 DEF IssuedSharesAreDurable, ShareOf
<1> QED
  BY <1>2, <1>3

\* Behind a prevote certificate stands a quorum of durable prevotes.
LEMMA PrevoteCertifiedIsPrevoted ==
  ASSUME IssuedSharesAreDurable, NEW r \in Rounds, NEW i \in PrevoteCertified(r)
  PROVE  \E S \in SUBSET Validators :
           /\ IsQuorum(S)
           /\ \A v \in S : v \in Honest => Vote("prevote", r, i) \in votes[v]
<1>1. PICK S \in SUBSET Validators : PrevoteQc(r, i, S)
  BY DEF PrevoteCertified
<1>2. ASSUME NEW v \in S, v \in Honest
      PROVE  Vote("prevote", r, i) \in votes[v]
  <2>1. ShareOf(v, "prevote", r, i, {}) \in shares
    BY <1>1, <1>2 DEF PrevoteQc, Obtainable, Honest
  <2> QED
    BY <2>1 DEF IssuedSharesAreDurable, ShareOf
<1> QED
  BY <1>1, <1>2 DEF PrevoteQc

\* No two conflicting intents are certified.
LEMMA CertifiedDoNotConflict ==
  ASSUME VotingInv
  PROVE  AtMostOneCertified
<1> SUFFICES ASSUME NEW i \in Certified, NEW j \in Certified,
                    Conflicting(i, j)
             PROVE  FALSE
  BY DEF AtMostOneCertified
<1>1. PICK r \in Rounds, S \in SUBSET Validators :
         /\ IsQuorum(S)
         /\ \A v \in S : v \in Honest =>
              Vote("precommit", r, i) \in votes[v]
  BY CertifiedIsPrecommitted DEF VotingInv
<1>2. PICK q \in Rounds, T \in SUBSET Validators :
         /\ IsQuorum(T)
         /\ \A v \in T : v \in Honest =>
              Vote("precommit", q, j) \in votes[v]
  BY CertifiedIsPrecommitted DEF VotingInv
<1>3. PICK v \in Honest : v \in S /\ v \in T
  BY <1>1, <1>2, QuorumsShareHonest
<1>4. \E l \in lock[v][InputOf[i]] : l.intent = i
  BY <1>1, <1>3 DEF VotingInv, PrecommitsAreLocked, Vote
<1>5. \E l \in lock[v][InputOf[j]] : l.intent = j
  BY <1>2, <1>3 DEF VotingInv, PrecommitsAreLocked, Vote
<1>6. InputOf[i] \in Cells /\ InputOf[i] = InputOf[j] /\ i # j
  BY NodeAssumption DEF NodeAssumption, Certified, Conflicting
<1> QED
  BY <1>3, <1>4, <1>5, <1>6 DEF VotingInv, OneLockPerCell

\* Two prevote certificates of one round share an honest voter, who has one vote.
LEMMA PrevoteQcsDoNotConflict ==
  ASSUME VotingInv
  PROVE  OnePrevoteQcPerRound
<1> SUFFICES ASSUME NEW r \in Rounds,
                    NEW i \in PrevoteCertified(r), NEW j \in PrevoteCertified(r),
                    Conflicting(i, j)
             PROVE  FALSE
  BY DEF OnePrevoteQcPerRound
<1>1. PICK S \in SUBSET Validators :
         /\ IsQuorum(S)
         /\ \A v \in S : v \in Honest => Vote("prevote", r, i) \in votes[v]
  BY PrevoteCertifiedIsPrevoted DEF VotingInv
<1>2. PICK T \in SUBSET Validators :
         /\ IsQuorum(T)
         /\ \A v \in T : v \in Honest => Vote("prevote", r, j) \in votes[v]
  BY PrevoteCertifiedIsPrevoted DEF VotingInv
<1>3. PICK v \in Honest : v \in S /\ v \in T
  BY <1>1, <1>2, QuorumsShareHonest
<1> QED
  BY <1>1, <1>2, <1>3 DEF VotingInv, OneVotePerSlot, SameSlot, Conflicting, Vote

\* The honest voter of a certificate has checked the owner's signature.
LEMMA CertifiedAreAuthorized ==
  ASSUME VotingInv
  PROVE  OnlyAuthorizedCertified
<1> SUFFICES ASSUME NEW i \in Certified
             PROVE  i \in Authorized
  BY DEF OnlyAuthorizedCertified
<1>1. PICK r \in Rounds, S \in SUBSET Validators :
         /\ IsQuorum(S)
         /\ \A v \in S : v \in Honest =>
              Vote("precommit", r, i) \in votes[v]
  BY CertifiedIsPrecommitted DEF VotingInv
<1>2. PICK v \in Honest : v \in S
  BY <1>1, QuorumHasHonest
<1> QED
  BY <1>1, <1>2 DEF VotingInv, VotesAreAuthorized, Vote

\* The honest precommitters of a certificate are still locked on its intent.
LEMMA CertifiedLocksRemain ==
  ASSUME VotingInv
  PROVE  CertifiedStaysLocked
<1> SUFFICES ASSUME NEW i \in Certified,
                    IsQuorum(Byzantine \cup {v \in Honest : ~ LockedOn(v, i)})
             PROVE  FALSE
  BY DEF CertifiedStaysLocked
<1>1. PICK r \in Rounds, S \in SUBSET Validators :
         /\ IsQuorum(S)
         /\ \A v \in S : v \in Honest =>
              Vote("precommit", r, i) \in votes[v]
  BY CertifiedIsPrecommitted DEF VotingInv
<1>2. PICK v \in Honest : /\ v \in S
                          /\ v \in Byzantine \cup {u \in Honest : ~ LockedOn(u, i)}
  BY <1>1, QuorumsShareHonest
<1>3. ~ LockedOn(v, i)
  BY <1>2 DEF Honest
<1> QED
  BY <1>1, <1>2, <1>3 DEF VotingInv, PrecommitsAreLocked, LockedOn, Vote

\* What two nodes have applied was certified, so it does not conflict.
LEMMA AppliedNeverFork ==
  ASSUME VotingInv, AppliedAreCertified
  PROVE  NodesNeverFork
BY CertifiedDoNotConflict DEF NodesNeverFork, AtMostOneCertified, AppliedAreCertified

-----------------------------------------------------------------------------
(* The voting invariant is inductive                                       *)

\* Nothing is voted for, locked or issued at first.
LEMMA VotingInvInit == Init => VotingInv
<1> SUFFICES ASSUME Init
             PROVE  VotingInv
  OBVIOUS
<1>1. TypeOK
  BY NodeAssumption DEF Init, TypeOK, NodeAssumption
<1>2. OneVotePerSlot /\ OneLockPerCell /\ PrecommitsAreLocked
  BY DEF Init, OneVotePerSlot, OneLockPerCell, PrecommitsAreLocked
<1>3. LocksAreJustified /\ VotesAreAuthorized /\ IssuedSharesAreDurable
  BY DEF Init, LocksAreJustified, VotesAreAuthorized, IssuedSharesAreDurable
<1> QED
  BY <1>1, <1>2, <1>3 DEF VotingInv

\* Shares are never withdrawn, so what was certified stays certified.
LEMMA CertificatesRemain ==
  ASSUME shares \subseteq shares'
  PROVE  /\ \A r \in Rounds : PrevoteCertified(r) \subseteq PrevoteCertified(r)'
         /\ Certified \subseteq Certified'
<1>1. ASSUME NEW v, NEW p, NEW r, NEW i, NEW J, Obtainable(v, p, r, i, J)
      PROVE  Obtainable(v, p, r, i, J)'
  BY <1>1 DEF Obtainable, ShareOf
<1>2. ASSUME NEW r, NEW i, NEW S, PrevoteQc(r, i, S)
      PROVE  PrevoteQc(r, i, S)'
  BY <1>1, <1>2 DEF PrevoteQc, IsQuorum
<1>3. ASSUME NEW r, NEW i, NEW S, FinalityChain(r, i, S)
      PROVE  FinalityChain(r, i, S)'
  <2>1. Precommitters(r, i, S) \subseteq Precommitters(r, i, S)'
    BY <1>1 DEF Precommitters
  <2>2. Precommitters(r, i, S)' \subseteq Validators
    BY DEF Precommitters
  <2>3. IsQuorum(Precommitters(r, i, S)')
    BY <1>3, <2>1, <2>2, LargerSignerSet DEF FinalityChain
  <2> QED
    BY <1>2, <1>3, <2>3 DEF FinalityChain, IsQuorum
<1> QED
  BY <1>2, <1>3 DEF PrevoteCertified, Certified, IsCertified, Quorums

\* The rounds and intents of a lock are rounds and intents.
LEMMA LockTypes ==
  ASSUME TypeOK, NEW v \in Honest, NEW c \in Cells, NEW l \in lock[v][c]
  PROVE  l.round \in Rounds /\ l.round \in Nat /\ l.intent \in Intents
<1>1. lock[v] \in [Cells -> SUBSET LockRecord]
  BY DEF TypeOK
<1>2. l \in LockRecord
  BY <1>1
<1> QED
  BY <1>2, NodeAssumption DEF LockRecord, NodeAssumption

\* What both voting handlers do to the voting state, once their own guards hold.
CastVote(v, p, r, i, J) ==
  /\ ValidLiveProposal(v, i)
  /\ p = "precommit" => PrevoteQc(r, i, J) /\ Vote("prevote", r, i) \in votes[v]
  /\ ~ DurableVoteRejection(v, p, r, i)
  /\ PersistVote(v, p, r, i)
  /\ Issue(v, p, r, i, J)

\* What casting a vote does to the votes and the locks.
LEMMA CastVoteEffect ==
  ASSUME VotingInv, NEW v \in Honest, NEW p \in Phases, NEW r \in Rounds,
         NEW i \in Intents, NEW J \in SUBSET Validators, CastVote(v, p, r, i, J)
  PROVE  /\ Vote(p, r, i) \in VoteRecord
         /\ InputOf[i] \in Cells
         /\ votes' = [votes EXCEPT ![v] = @ \cup {Vote(p, r, i)}]
         /\ \A u \in Honest, c \in Cells :
              \/ lock'[u][c] = lock[u][c]
              \/ /\ u = v /\ c = InputOf[i] /\ p = "precommit"
                 /\ lock'[u][c] = {[round |-> r, intent |-> i]}
         /\ lock' \in [Honest -> [Cells -> SUBSET LockRecord]]
         /\ \A l \in lock[v][InputOf[i]] : l.round <= r /\ l.intent = i
         /\ p = "precommit" =>
              \E l \in lock'[v][InputOf[i]] : l.intent = i /\ r <= l.round
<1>1. Vote(p, r, i) \in VoteRecord
  BY DEF Vote, VoteRecord
<1>2. InputOf[i] \in Cells
  BY NodeAssumption DEF NodeAssumption
<1>3. TypeOK
  BY DEF VotingInv
<1>4. r \in Nat /\ \A l \in lock[v][InputOf[i]] : l.round \in Nat
  BY <1>2, <1>3, LockTypes, NodeAssumption DEF NodeAssumption
<1>5. \A l \in lock[v][InputOf[i]] : l.round <= r /\ l.intent = i
  BY <1>4 DEF CastVote, DurableVoteRejection
<1>6. CASE Vote(p, r, i) \in votes[v] /\ UNCHANGED <<votes, lock>>
  <2>1. votes' = [votes EXCEPT ![v] = @ \cup {Vote(p, r, i)}]
    BY <1>3, <1>6 DEF TypeOK
  <2>2. p = "precommit" =>
          \E l \in lock'[v][InputOf[i]] : l.intent = i /\ r <= l.round
    BY <1>6 DEF VotingInv, PrecommitsAreLocked, Vote
  <2> QED
    BY <1>1, <1>2, <1>3, <1>5, <1>6, <2>1, <2>2 DEF TypeOK
<1>7. CASE /\ votes' = [votes EXCEPT ![v] = @ \cup {Vote(p, r, i)}]
           /\ lock' = IF p = "precommit"
                        THEN [lock EXCEPT ![v][InputOf[i]] =
                                              {[round |-> r, intent |-> i]}]
                        ELSE lock
  <2>1. [round |-> r, intent |-> i] \in LockRecord
    BY DEF LockRecord
  <2>2. lock' \in [Honest -> [Cells -> SUBSET LockRecord]]
    BY <1>2, <1>3, <1>7, <2>1 DEF TypeOK
  <2>3. \A u \in Honest, c \in Cells :
          \/ lock'[u][c] = lock[u][c]
          \/ /\ u = v /\ c = InputOf[i] /\ p = "precommit"
             /\ lock'[u][c] = {[round |-> r, intent |-> i]}
    BY <1>2, <1>3, <1>7 DEF TypeOK
  <2>4. p = "precommit" => lock'[v][InputOf[i]] = {[round |-> r, intent |-> i]}
    BY <1>2, <1>3, <1>7 DEF TypeOK
  <2>5. p = "precommit" =>
          \E l \in lock'[v][InputOf[i]] : l.intent = i /\ r <= l.round
    <3> SUFFICES ASSUME p = "precommit"
                 PROVE  \E l \in lock'[v][InputOf[i]] : l.intent = i /\ r <= l.round
      OBVIOUS
    <3>1. [round |-> r, intent |-> i] \in lock'[v][InputOf[i]]
      BY <2>4
    <3> QED
      BY <1>4, <3>1
  <2> QED
    BY <1>1, <1>2, <1>5, <1>7, <2>2, <2>3, <2>5
<1> QED
  BY <1>6, <1>7 DEF CastVote, PersistVote

\* Casting a vote, of either phase, keeps the voting invariant.
LEMMA VotingInvCastVote ==
  ASSUME VotingInv, NEW v \in Honest, NEW p \in Phases, NEW r \in Rounds,
         NEW i \in Intents, NEW J \in SUBSET Validators, CastVote(v, p, r, i, J),
         UNCHANGED <<live, applied>>
  PROVE  VotingInv'
<1>1. /\ Vote(p, r, i) \in VoteRecord
      /\ InputOf[i] \in Cells
      /\ votes' = [votes EXCEPT ![v] = @ \cup {Vote(p, r, i)}]
      /\ lock' \in [Honest -> [Cells -> SUBSET LockRecord]]
  BY CastVoteEffect
<1>2. \A u \in Honest, c \in Cells :
        \/ lock'[u][c] = lock[u][c]
        \/ /\ u = v /\ c = InputOf[i] /\ p = "precommit"
           /\ lock'[u][c] = {[round |-> r, intent |-> i]}
  BY CastVoteEffect
<1>3. /\ \A l \in lock[v][InputOf[i]] : l.round <= r /\ l.intent = i
      /\ p = "precommit" =>
           \E l \in lock'[v][InputOf[i]] : l.intent = i /\ r <= l.round
  BY CastVoteEffect
<1>4. /\ TypeOK
      /\ \A u \in Honest : votes[u] \subseteq VoteRecord
      /\ \A w \in VoteRecord : w.intent \in Intents /\ w.round \in Nat
      /\ \A w \in VoteRecord : InputOf[w.intent] \in Cells
  BY NodeAssumption DEF VotingInv, TypeOK, VoteRecord, NodeAssumption
<1>5. \A u \in Honest : \A w \in votes'[u] :
        w \in votes[u] \/ (u = v /\ w = Vote(p, r, i))
  BY <1>1, <1>4 DEF TypeOK
<1>6. \A u \in Honest : votes[u] \subseteq votes'[u]
  BY <1>1, <1>4 DEF TypeOK
<1>7. shares' = shares \cup {ShareOf(v, p, r, i, J)}
  BY DEF CastVote, Issue
<1>8. Vote(p, r, i) \in votes'[v]
  BY <1>1, <1>4 DEF TypeOK
<1>10. TypeOK'
  <2>1. votes' \in [Honest -> SUBSET VoteRecord]
    BY <1>1, <1>4 DEF TypeOK
  <2>2. shares' \subseteq Share
    BY <1>4, <1>7 DEF TypeOK, Share, ShareOf
  <2> QED
    BY <1>1, <1>4, <2>1, <2>2 DEF TypeOK
<1>11. OneVotePerSlot'
  <2> SUFFICES ASSUME NEW u \in Honest, NEW w \in votes'[u], NEW x \in votes'[u],
                      SameSlot(w, x.phase, x.round, x.intent)
               PROVE  w.intent = x.intent
    BY DEF OneVotePerSlot, SameSlot
  <2>1. \A y \in votes[v] : SameSlot(y, p, r, i) => y.intent = i
    BY DEF CastVote, DurableVoteRejection
  <2> QED
    BY <1>5, <2>1 DEF VotingInv, OneVotePerSlot, SameSlot, Vote
<1>12. OneLockPerCell'
  BY <1>2 DEF VotingInv, OneLockPerCell
<1>13. LocksAreJustified'
  <2> SUFFICES ASSUME NEW u \in Honest, NEW c \in Cells, NEW l \in lock'[u][c]
               PROVE  /\ InputOf[l.intent] = c
                      /\ {Vote(q, l.round, l.intent) : q \in Phases} \subseteq votes'[u]
                      /\ l.intent \in PrevoteCertified(l.round)'
    BY DEF LocksAreJustified, Vote
  <2>1. CASE l \in lock[u][c]
    <3>1. l.round \in Rounds
      BY <1>4, <2>1, LockTypes
    <3>2. PrevoteCertified(l.round) \subseteq PrevoteCertified(l.round)'
      BY <1>7, <3>1, CertificatesRemain
    <3> QED
      BY <1>6, <2>1, <3>2 DEF VotingInv, LocksAreJustified
  <2>2. CASE u = v /\ c = InputOf[i] /\ p = "precommit"
             /\ l = [round |-> r, intent |-> i]
    <3>1. i \in PrevoteCertified(r)
      BY <2>2 DEF CastVote, PrevoteCertified
    <3>2. i \in PrevoteCertified(r)'
      BY <1>7, <3>1, CertificatesRemain
    <3>3. Vote("prevote", r, i) \in votes'[v]
      BY <1>6, <2>2 DEF CastVote
    <3> QED
      BY <1>8, <2>2, <3>2, <3>3 DEF Phases
  <2> QED
    BY <1>2, <2>1, <2>2
<1>14. PrecommitsAreLocked'
  <2> SUFFICES ASSUME NEW u \in Honest, NEW w \in votes'[u], w.phase = "precommit"
               PROVE  \E l \in lock'[u][InputOf[w.intent]] :
                        l.intent = w.intent /\ w.round <= l.round
    BY DEF PrecommitsAreLocked
  <2>1. CASE u = v /\ w = Vote(p, r, i)
    BY <1>3, <2>1 DEF Vote
  <2>2. CASE w \in votes[u]
    <3>1. w.round \in Nat /\ InputOf[w.intent] \in Cells
      BY <1>4, <2>2
    <3>2. PICK l \in lock[u][InputOf[w.intent]] :
                 l.intent = w.intent /\ w.round <= l.round
      BY <2>2 DEF VotingInv, PrecommitsAreLocked
    <3>3. CASE lock'[u][InputOf[w.intent]] = lock[u][InputOf[w.intent]]
      BY <3>2, <3>3
    <3>4. CASE /\ u = v /\ InputOf[w.intent] = InputOf[i]
               /\ lock'[u][InputOf[w.intent]] = {[round |-> r, intent |-> i]}
      <4>1. l.round <= r /\ l.intent = i
        BY <1>3, <3>2, <3>4
      <4>2. l.round \in Nat /\ r \in Nat
        BY <1>4, <3>1, <3>2, LockTypes, NodeAssumption DEF NodeAssumption
      <4> QED
        BY <3>1, <3>2, <3>4, <4>1, <4>2
    <3> QED
      BY <1>2, <3>1, <3>3, <3>4
  <2> QED
    BY <1>5, <2>1, <2>2
<1>15. VotesAreAuthorized'
  BY <1>5 DEF VotingInv, VotesAreAuthorized, CastVote, ValidLiveProposal, Vote
<1>16. IssuedSharesAreDurable'
  <2> SUFFICES ASSUME NEW s \in shares'
               PROVE  Vote(s.phase, s.round, s.intent) \in votes'[s.signer]
    BY DEF IssuedSharesAreDurable, Vote
  <2>1. CASE s \in shares
    <3>1. s.signer \in Honest
      BY <1>4, <2>1 DEF TypeOK, Share
    <3> QED
      BY <1>6, <2>1, <3>1 DEF VotingInv, IssuedSharesAreDurable
  <2>2. CASE s = ShareOf(v, p, r, i, J)
    BY <1>8, <2>2 DEF ShareOf
  <2> QED
    BY <1>7, <2>1, <2>2
<1> QED
  BY <1>10, <1>11, <1>12, <1>13, <1>14, <1>15, <1>16 DEF VotingInv

\* A prevote request casts a prevote.
LEMMA PrevoteIsCastVote ==
  ASSUME NEW v, NEW r, NEW i, Prevote(v, r, i)
  PROVE  CastVote(v, "prevote", r, i, {}) /\ UNCHANGED <<live, applied>>
BY DEF Prevote, AcceptsPrevote, CastVote

\* A precommit request casts a precommit for which there is a certificate.
LEMMA PrecommitIsCastVote ==
  ASSUME NEW v, NEW r, NEW i, NEW S, Precommit(v, r, i, S)
  PROVE  CastVote(v, "precommit", r, i, S) /\ UNCHANGED <<live, applied>>
BY DEF Precommit, AcceptsPrecommit, CastVote

\* Neither settling an intent nor a stuttering step touches the voting state.
LEMMA VotingInvUnchanged ==
  ASSUME VotingInv, UNCHANGED <<votes, lock, shares>>, TypeOK'
  PROVE  VotingInv'
<1>1. OneVotePerSlot' /\ OneLockPerCell' /\ PrecommitsAreLocked'
  BY DEF VotingInv, OneVotePerSlot, OneLockPerCell, PrecommitsAreLocked, SameSlot
<1>2. VotesAreAuthorized' /\ IssuedSharesAreDurable'
  BY DEF VotingInv, VotesAreAuthorized, IssuedSharesAreDurable, Vote
<1>3. LocksAreJustified'
  <2> SUFFICES ASSUME NEW v \in Honest, NEW c \in Cells, NEW l \in lock[v][c]
               PROVE  /\ InputOf[l.intent] = c
                      /\ {Vote(p, l.round, l.intent) : p \in Phases} \subseteq votes'[v]
                      /\ l.intent \in PrevoteCertified(l.round)'
    BY DEF LocksAreJustified, Vote
  <2>1. l.round \in Rounds
    BY LockTypes DEF VotingInv
  <2>2. PrevoteCertified(l.round) \subseteq PrevoteCertified(l.round)'
    BY <2>1, CertificatesRemain
  <2> QED
    BY <2>2 DEF VotingInv, LocksAreJustified
<1> QED
  BY <1>1, <1>2, <1>3 DEF VotingInv

-----------------------------------------------------------------------------
(* The ledger invariant is inductive                                       *)

\* The genesis snapshot has applied nothing.
LEMMA LedgerInvInit == Init => LedgerInv
  BY DEF Init, LedgerInv, LedgerFollowsApplied, AppliedAreCertified

\* Voting leaves the ledgers alone.
LEMMA LedgerInvCastVote ==
  ASSUME LedgerInv, shares \subseteq shares', UNCHANGED <<live, applied>>
  PROVE  LedgerInv'
<1>1. LedgerFollowsApplied'
  BY DEF LedgerInv, LedgerFollowsApplied, Conflicting
<1>2. Certified \subseteq Certified'
  BY CertificatesRemain
<1> QED
  BY <1>1, <1>2 DEF LedgerInv, AppliedAreCertified

\* The cells created by one more intent.
LEMMA CreatedByOneMore ==
  ASSUME NEW I, NEW i
  PROVE  UNION {OutputsOf[j] : j \in I \cup {i}}
           = (UNION {OutputsOf[j] : j \in I}) \cup OutputsOf[i]
OBVIOUS

\* A live cell exists in the ledger its node has applied, and is not consumed.
LEMMA LiveIsFunded ==
  ASSUME LedgerInv, NEW v \in Validators, NEW c \in live[v]
  PROVE  /\ c \in Genesis \cup UNION {OutputsOf[j] : j \in applied[v]}
         /\ \A j \in applied[v] : InputOf[j] # c
BY DEF LedgerInv, LedgerFollowsApplied

\* Applying a certified intent keeps both invariants.
LEMMA InvApply ==
  ASSUME IInv, NEW v \in Validators, NEW i \in Intents, Apply(v, i)
  PROVE  TypeOK' /\ LedgerInv'
<1>1. TypeOK /\ LedgerInv
  BY DEF IInv, VotingInv
<1>2. /\ live' = [live EXCEPT ![v] = (@ \ {InputOf[i]}) \cup OutputsOf[i]]
      /\ applied' = [applied EXCEPT ![v] = @ \cup {i}]
      /\ UNCHANGED <<votes, lock, shares>>
  BY DEF Apply, AcceptsApply
<1>3. /\ live[v] \subseteq Cells /\ applied[v] \subseteq Intents
      /\ OutputsOf[i] \subseteq Cells
  BY <1>1, NodeAssumption DEF TypeOK, NodeAssumption
<1>4. /\ live' \in [Validators -> SUBSET Cells]
      /\ applied' \in [Validators -> SUBSET Intents]
  BY <1>1, <1>2, <1>3 DEF TypeOK
<1>5. TypeOK'
  BY <1>1, <1>2, <1>4 DEF TypeOK
<1>6. /\ live'[v] = (live[v] \ {InputOf[i]}) \cup OutputsOf[i]
      /\ applied'[v] = applied[v] \cup {i}
      /\ \A w \in Validators : w # v => /\ live'[w] = live[w]
                                        /\ applied'[w] = applied[w]
  BY <1>1, <1>2 DEF TypeOK
<1>7. /\ InputOf[i] \in live[v]
      /\ InputOf[i] \notin OutputsOf[i]
      /\ \A j \in applied[v] : InputOf[j] \notin OutputsOf[i]
  BY NodeAssumption DEF Apply, AcceptsApply, KnownIds, NodeAssumption
<1>8. /\ InputOf[i] \in Genesis \cup UNION {OutputsOf[j] : j \in applied[v]}
      /\ \A j \in applied[v] : InputOf[j] # InputOf[i]
  BY <1>1, <1>7, LiveIsFunded
<1>9. live'[v] = (Genesis \cup UNION {OutputsOf[j] : j \in applied'[v]})
                   \ {InputOf[j] : j \in applied'[v]}
  <2>1. live[v] = (Genesis \cup UNION {OutputsOf[j] : j \in applied[v]})
                    \ {InputOf[j] : j \in applied[v]}
    BY <1>1 DEF LedgerInv, LedgerFollowsApplied
  <2>2. UNION {OutputsOf[j] : j \in applied'[v]}
          = (UNION {OutputsOf[j] : j \in applied[v]}) \cup OutputsOf[i]
    BY <1>6, CreatedByOneMore
  <2>3. {InputOf[j] : j \in applied'[v]}
          = {InputOf[j] : j \in applied[v]} \cup {InputOf[i]}
    BY <1>6
  <2>4. \A x \in OutputsOf[i] : x \notin {InputOf[j] : j \in applied'[v]}
    BY <1>7, <2>3
  <2> HIDE <1>8
  <2> DEFINE made == UNION {OutputsOf[j] : j \in applied[v]}
             used == {InputOf[j] : j \in applied[v]}
  <2>5. /\ live[v] = (Genesis \cup made) \ used
        /\ \A x \in OutputsOf[i] : x \notin used \cup {InputOf[i]}
    BY <2>1, <2>3, <2>4
  <2>6. (live[v] \ {InputOf[i]}) \cup OutputsOf[i]
          = (Genesis \cup (made \cup OutputsOf[i])) \ (used \cup {InputOf[i]})
    <3> HIDE DEF made, used
    <3> QED
      BY <2>5
  <2> QED
    BY <1>6, <2>2, <2>3, <2>6
<1>10. \A j, k \in applied'[v] : ~ Conflicting(j, k)
  BY <1>1, <1>6, <1>8 DEF LedgerInv, LedgerFollowsApplied, Conflicting
<1>11. LedgerFollowsApplied'
  <2> SUFFICES ASSUME NEW w \in Validators
               PROVE  /\ live'[w] = (Genesis \cup UNION {OutputsOf[j] : j \in applied'[w]})
                                       \ {InputOf[j] : j \in applied'[w]}
                      /\ \A j, k \in applied'[w] : ~ Conflicting(j, k)
    BY DEF LedgerFollowsApplied, Conflicting
  <2>1. CASE w = v
    BY <1>9, <1>10, <2>1
  <2>2. CASE w # v
    BY <1>1, <1>6, <2>2 DEF LedgerInv, LedgerFollowsApplied
  <2> QED
    BY <2>1, <2>2
<1>12. AppliedAreCertified'
  <2>1. Certified \subseteq Certified'
    BY <1>2, CertificatesRemain
  <2>2. i \in Certified
    BY DEF Apply, AcceptsApply, Certified
  <2> QED
    BY <1>1, <1>6, <2>1, <2>2 DEF LedgerInv, AppliedAreCertified
<1> QED
  BY <1>5, <1>11, <1>12 DEF LedgerInv

-----------------------------------------------------------------------------
(* The invariants as theorems of the specification                         *)

\* The inductive invariant holds initially ...
LEMMA IInvInit == Init => IInv
BY VotingInvInit, LedgerInvInit DEF IInv

\* ... and every step of every node keeps it.
LEMMA IInvStep == IInv /\ [Next]_vars => IInv'
<1> SUFFICES ASSUME IInv, [Next]_vars
             PROVE  IInv'
  OBVIOUS
<1>1. VotingInv /\ LedgerInv /\ TypeOK
  BY DEF IInv, VotingInv
<1>2. ASSUME NEW v \in Honest, NEW r \in Rounds, NEW i \in Intents, Prevote(v, r, i)
      PROVE  IInv'
  <2>1. CastVote(v, "prevote", r, i, {}) /\ UNCHANGED <<live, applied>>
    BY <1>2, PrevoteIsCastVote
  <2>2. VotingInv'
    BY <1>1, <2>1, VotingInvCastVote DEF Phases
  <2>3. LedgerInv'
    BY <1>1, <2>1, LedgerInvCastVote DEF CastVote, Issue
  <2> QED
    BY <2>2, <2>3 DEF IInv
<1>3. ASSUME NEW v \in Honest, NEW r \in Rounds, NEW i \in Intents,
             NEW S \in SUBSET Validators, Precommit(v, r, i, S)
      PROVE  IInv'
  <2>1. CastVote(v, "precommit", r, i, S) /\ UNCHANGED <<live, applied>>
    BY <1>3, PrecommitIsCastVote
  <2>2. VotingInv'
    BY <1>1, <2>1, VotingInvCastVote DEF Phases
  <2>3. LedgerInv'
    BY <1>1, <2>1, LedgerInvCastVote DEF CastVote, Issue
  <2> QED
    BY <2>2, <2>3 DEF IInv
<1>4. ASSUME NEW v \in Validators, NEW i \in Intents, Apply(v, i)
      PROVE  IInv'
  <2>1. TypeOK' /\ LedgerInv'
    BY <1>4, InvApply
  <2>2. VotingInv'
    BY <1>1, <1>4, <2>1, VotingInvUnchanged DEF Apply
  <2> QED
    BY <2>1, <2>2 DEF IInv
<1>5. CASE UNCHANGED vars
  <2>1. TypeOK'
    BY <1>1, <1>5 DEF vars, TypeOK
  <2>2. VotingInv'
    BY <1>1, <1>5, <2>1, VotingInvUnchanged DEF vars
  <2>3. LedgerInv'
    BY <1>1, <1>5, LedgerInvCastVote DEF vars
  <2> QED
    BY <2>2, <2>3 DEF IInv
<1> QED
  BY <1>2, <1>3, <1>4, <1>5 DEF Next

\* The voting and the ledger invariant together hold in every reachable state.
THEOREM InductiveInvariant == Spec => []IInv
<1>1. Init => IInv
  BY IInvInit
<1>2. IInv /\ [Next]_vars => IInv'
  BY IInvStep
<1> QED
  BY <1>1, <1>2, PTL DEF Spec

\* The state of every node keeps its shape (the map types of store.rs, node.rs).
THEOREM TypeCorrect == Spec => []TypeOK
<1>1. IInv => TypeOK
  BY DEF IInv, VotingInv
<1> QED
  BY <1>1, InductiveInvariant, PTL

\* At most one of the intents that spend a cell is ever certified, for every
\* committee with 2Q > N + F and any number of rounds, requests and retries.
THEOREM AtMostOneSuccessor == Spec => []AtMostOneCertified
<1>1. IInv => AtMostOneCertified
  BY CertifiedDoNotConflict DEF IInv
<1> QED
  BY <1>1, InductiveInvariant, PTL

\* A conflicting certificate is out of reach for good once one intent has one.
THEOREM CertifiedLocksPersist == Spec => []CertifiedStaysLocked
<1>1. IInv => CertifiedStaysLocked
  BY CertifiedLocksRemain DEF IInv
<1> QED
  BY <1>1, InductiveInvariant, PTL

\* Every issued share is durable, every lock has a certificate behind it, and a
\* round has one prevote certificate per cell at most.
THEOREM VotingIsSound ==
  Spec => [](IssuedSharesAreDurable /\ LocksAreJustified /\ OnePrevoteQcPerRound
               /\ OnlyAuthorizedCertified)
<1>1. IInv => /\ IssuedSharesAreDurable /\ LocksAreJustified /\ OnePrevoteQcPerRound
              /\ OnlyAuthorizedCertified
  BY PrevoteQcsDoNotConflict, CertifiedAreAuthorized DEF IInv, VotingInv
<1> QED
  BY <1>1, InductiveInvariant, PTL

\* The ledgers of the nodes follow from what they applied and never fork.
THEOREM LedgersAgree == Spec => [](LedgerFollowsApplied /\ NodesNeverFork)
<1>1. IInv => LedgerFollowsApplied /\ NodesNeverFork
  BY AppliedNeverFork DEF IInv, LedgerInv
<1> QED
  BY <1>1, InductiveInvariant, PTL

-----------------------------------------------------------------------------
(* Locks as an action property                                             *)

\* A vote replaces a lock by one of the same intent in no lower round.
LEMMA LocksStay ==
  ASSUME IInv, [Next]_vars, NEW v \in Honest, NEW c \in Cells, NEW l \in lock[v][c]
  PROVE  \E m \in lock'[v][c] : m.intent = l.intent /\ m.round >= l.round
<1>1. VotingInv /\ l.round \in Nat
  BY LockTypes DEF IInv, VotingInv
<1>2. ASSUME NEW u \in Honest, NEW p \in Phases, NEW r \in Rounds, NEW i \in Intents,
             NEW J \in SUBSET Validators, CastVote(u, p, r, i, J)
      PROVE  \E m \in lock'[v][c] : m.intent = l.intent /\ m.round >= l.round
  <2>1. r \in Nat
    BY NodeAssumption DEF NodeAssumption
  <2>2. CASE lock'[v][c] = lock[v][c]
    BY <1>1, <2>2
  <2>3. CASE /\ v = u /\ c = InputOf[i]
             /\ lock'[v][c] = {[round |-> r, intent |-> i]}
    <3>1. l.round <= r /\ l.intent = i
      BY <1>1, <1>2, <2>3, CastVoteEffect
    <3> QED
      BY <1>1, <2>1, <2>3, <3>1
  <2> QED
    BY <1>1, <1>2, <2>2, <2>3, CastVoteEffect
<1>3. CASE lock' = lock
  BY <1>1, <1>3
<1>4. CASE \E u \in Honest, r \in Rounds, i \in Intents : Prevote(u, r, i)
  BY <1>2, <1>4, PrevoteIsCastVote DEF Phases
<1>5. CASE \E u \in Honest, r \in Rounds, i \in Intents, S \in SUBSET Validators :
             Precommit(u, r, i, S)
  BY <1>2, <1>5, PrecommitIsCastVote DEF Phases
<1> QED
  BY <1>3, <1>4, <1>5 DEF Next, vars, Apply

\* No step of any node moves a lock to another intent or to a lower round.
THEOREM LocksAreMonotone == Spec => LocksNeverMove
<1>1. IInv /\ [Next]_vars =>
        [\A v \in Honest, c \in Cells : \A l \in lock[v][c] :
           \E m \in lock'[v][c] : m.intent = l.intent /\ m.round >= l.round]_vars
  BY LocksStay
<1> QED
  BY <1>1, InductiveInvariant, PTL DEF Spec, LocksNeverMove

-----------------------------------------------------------------------------
(* Node implements SuccessorChoice                                         *)

\* No certificate can be made of the Byzantine shares alone.
LEMMA NothingCertifiedInitially == Init => Certified = {}
<1> SUFFICES ASSUME Init, NEW i \in Certified
             PROVE  FALSE
  OBVIOUS
<1>1. IssuedSharesAreDurable
  BY VotingInvInit DEF VotingInv
<1>2. PICK r \in Rounds, S \in SUBSET Validators :
         /\ IsQuorum(S)
         /\ \A v \in S : v \in Honest =>
              Vote("precommit", r, i) \in votes[v]
  BY <1>1, CertifiedIsPrecommitted
<1>3. PICK v \in Honest : v \in S
  BY <1>2, QuorumHasHonest
<1> QED
  BY <1>2, <1>3 DEF Init

\* One vote certifies at most the intent it is for.
LEMMA CastVoteCertifiesOne ==
  ASSUME NEW v, NEW p, NEW r, NEW i, NEW J, Issue(v, p, r, i, J)
  PROVE  Certified' \subseteq Certified \cup {i}
<1> SUFFICES ASSUME NEW j \in Certified', j # i
             PROVE  j \in Certified
  OBVIOUS
<1>1. PICK q \in Rounds, S \in SUBSET Validators : FinalityChain(q, j, S)'
  BY DEF Certified, IsCertified, Quorums
<1>2. ASSUME NEW u, NEW ph, NEW K, Obtainable(u, ph, q, j, K)'
      PROVE  Obtainable(u, ph, q, j, K)
  BY <1>2 DEF Issue, Obtainable, ShareOf
<1>3. PrevoteQc(q, j, S)
  BY <1>1, <1>2 DEF FinalityChain, PrevoteQc, IsQuorum
<1>4. Precommitters(q, j, S)' \subseteq Precommitters(q, j, S)
  BY <1>2 DEF Precommitters
<1>5. Precommitters(q, j, S) \subseteq Validators
  BY DEF Precommitters
<1>6. IsQuorum(Precommitters(q, j, S)')
  BY <1>1 DEF FinalityChain, IsQuorum
<1>7. IsQuorum(Precommitters(q, j, S))
  BY <1>4, <1>5, <1>6, LargerSignerSet
<1>8. j \in Intents
  BY DEF Certified
<1> QED
  BY <1>3, <1>7, <1>8, ChainCertifies DEF FinalityChain

\* A vote chooses a successor, or nothing.
LEMMA CastVoteChooses ==
  ASSUME IInv, IInv', NEW v \in Honest, NEW p \in Phases, NEW r \in Rounds,
         NEW i \in Intents, NEW J \in SUBSET Validators, CastVote(v, p, r, i, J),
         UNCHANGED <<live, applied>>
  PROVE  Choice!Choose(i) \/ UNCHANGED <<Certified, applied>>
<1>1. Certified \subseteq Certified'
  BY CertificatesRemain DEF CastVote, Issue
<1>2. Certified' \subseteq Certified \cup {i}
  BY CastVoteCertifiesOne DEF CastVote
<1>3. CASE i \in Certified \/ i \notin Certified'
  BY <1>1, <1>2, <1>3
<1>4. CASE i \notin Certified /\ i \in Certified'
  <2>1. Certified' = Certified \cup {i}
    BY <1>1, <1>2, <1>4
  <2>2. AtMostOneCertified'
    BY CertifiedDoNotConflict, PTL DEF IInv
  <2>3. \A j \in Certified : InputOf[j] # InputOf[i]
    BY <1>4, <2>1, <2>2 DEF AtMostOneCertified, Conflicting
  <2>4. i \in Authorized /\ InputOf[i] \in live[v] /\ v \in Validators
    BY DEF CastVote, ValidLiveProposal, Honest
  <2>5. InputOf[i] \in Genesis \cup UNION {OutputsOf[j] : j \in applied[v]}
    BY <2>4, LiveIsFunded DEF IInv
  <2>6. applied[v] \subseteq Certified
    BY <2>4 DEF IInv, LedgerInv, AppliedAreCertified
  <2>7. Choice!FundedBy(i, Certified)
    BY <2>5, <2>6 DEF Choice!FundedBy
  <2> QED
    BY <2>1, <2>3, <2>4, <2>7 DEF Choice!Choose
<1> QED
  BY <1>3, <1>4

\* An application is one of the abstract specification.
LEMMA ApplyApplies ==
  ASSUME IInv, NEW v \in Validators, NEW i \in Intents, Apply(v, i)
  PROVE  Choice!Apply(v, i)
<1>1. InputOf[i] \in live[v] /\ i \in Certified \ applied[v]
  BY DEF Apply, AcceptsApply, Certified
<1>2. /\ InputOf[i] \in Genesis \cup UNION {OutputsOf[j] : j \in applied[v]}
      /\ \A j \in applied[v] : InputOf[j] # InputOf[i]
  BY <1>1, LiveIsFunded DEF IInv
<1>3. UNCHANGED Certified
  <2>1. UNCHANGED shares
    BY DEF Apply, AcceptsApply
  <2> QED
    BY <2>1 DEF Certified, IsCertified, Quorums, FinalityChain, PrevoteQc, Precommitters, Obtainable,
                IsQuorum, ShareOf
<1> QED
  BY <1>1, <1>2, <1>3 DEF Apply, AcceptsApply, Choice!Apply, Choice!FundedBy

\* Every step is a step of the abstract specification, or none.
LEMMA StepImplements ==
  ASSUME IInv, IInv', [Next]_vars
  PROVE  [Choice!Next]_<<Certified, applied>>
<1>1. ASSUME NEW v \in Honest, NEW r \in Rounds, NEW i \in Intents, Prevote(v, r, i)
      PROVE  Choice!Choose(i) \/ UNCHANGED <<Certified, applied>>
  BY <1>1, PrevoteIsCastVote, CastVoteChooses DEF Phases
<1>2. ASSUME NEW v \in Honest, NEW r \in Rounds, NEW i \in Intents,
             NEW S \in SUBSET Validators, Precommit(v, r, i, S)
      PROVE  Choice!Choose(i) \/ UNCHANGED <<Certified, applied>>
  BY <1>2, PrecommitIsCastVote, CastVoteChooses DEF Phases
<1>3. ASSUME NEW v \in Validators, NEW i \in Intents, Apply(v, i)
      PROVE  Choice!Apply(v, i)
  BY <1>3, ApplyApplies
<1>4. CASE UNCHANGED vars
  BY <1>4 DEF vars, Certified, IsCertified, Quorums, FinalityChain, PrevoteQc, Precommitters, Obtainable,
              IsQuorum, ShareOf
<1> QED
  BY <1>1, <1>2, <1>3, <1>4 DEF Next, Choice!Next

\* The committee implements the choice of one successor per cell: every step of
\* every node chooses one intent, applies a chosen one, or is not visible.
THEOREM NodeImplementsSuccessorChoice == Spec => ImplementsSuccessorChoice
<1>1. Init => Choice!Init
  BY NothingCertifiedInitially DEF Init, Choice!Init
<1>2. IInv /\ IInv' /\ [Next]_vars => [Choice!Next]_<<Certified, applied>>
  BY StepImplements
<1> QED
  BY <1>1, <1>2, InductiveInvariant, PTL
     DEF Spec, ImplementsSuccessorChoice, Choice!Spec

-----------------------------------------------------------------------------
(* The votes of a node are a VoteBook                                       *)

Booked == [v \in Honest |-> {Ballot(w) : w \in votes[v]}]

BookedLocks ==
  [v \in Honest |-> [c \in Cells |-> {BookLock(l) : l \in lock[v][c]}]]

\* A vote that is persisted is cast in the book, and one that was there already
\* leaves the book as it is.
LEMMA CastVoteIsBooked ==
  ASSUME VotingInv, NEW v \in Honest, NEW p \in Phases, NEW r \in Rounds,
         NEW i \in Intents, NEW J \in SUBSET Validators, CastVote(v, p, r, i, J)
  PROVE  [Book!Next]_<<Booked, BookedLocks>>
<1> DEFINE b == Ballot(Vote(p, r, i))
<1>1. /\ b = [phase |-> p, round |-> r, cell |-> InputOf[i], value |-> i]
      /\ b.phase = p /\ b.round = r /\ b.cell = InputOf[i] /\ b.value = i
  BY DEF Ballot, Vote
<1>2. InputOf[i] \in Cells /\ TypeOK
  BY NodeAssumption DEF NodeAssumption, VotingInv
<1>3. b \in Book!Ballots
  BY <1>1, <1>2 DEF Book!Ballots, Phases
<1>4. CASE UNCHANGED <<votes, lock>>
  BY <1>4 DEF Booked, BookedLocks
<1>5. CASE /\ ~ \E w \in votes[v] : SameSlot(w, p, r, i)
           /\ \A l \in lock[v][InputOf[i]] : l.round <= r /\ l.intent = i
           /\ votes' = [votes EXCEPT ![v] = @ \cup {Vote(p, r, i)}]
           /\ lock' = IF p = "precommit"
                        THEN [lock EXCEPT ![v][InputOf[i]] =
                                              {[round |-> r, intent |-> i]}]
                        ELSE lock
  <2>1. ~ \E a \in Booked[v] : Book!SameBallot(a, b)
    BY <1>1, <1>5 DEF Booked, Ballot, Book!SameBallot, SameSlot
  <2>2. \A l \in BookedLocks[v][b.cell] : l.round <= b.round /\ l.value = b.value
    BY <1>1, <1>2, <1>5 DEF BookedLocks, BookLock
  <2>3. Booked' = [Booked EXCEPT ![v] = @ \cup {b}]
    <3>1. \A u \in Honest : votes'[u] = IF u = v THEN votes[v] \cup {Vote(p, r, i)}
                                                 ELSE votes[u]
      BY <1>2, <1>5 DEF TypeOK
    <3>2. \A u \in Honest : {Ballot(w) : w \in votes'[u]}
                              = IF u = v THEN {Ballot(w) : w \in votes[v]} \cup {b}
                                         ELSE {Ballot(w) : w \in votes[u]}
      BY <3>1
    <3> QED
      BY <3>2 DEF Booked
  <2>4. BookedLocks' = IF b.phase = "precommit"
                         THEN [BookedLocks EXCEPT
                                 ![v][b.cell] = {[round |-> b.round, value |-> b.value]}]
                         ELSE BookedLocks
    <3>1. CASE p # "precommit"
      BY <1>1, <1>5, <3>1 DEF BookedLocks
    <3>2. CASE p = "precommit"
      <4>1. \A u \in Honest, c \in Cells :
              lock'[u][c] = IF u = v /\ c = InputOf[i]
                              THEN {[round |-> r, intent |-> i]} ELSE lock[u][c]
        BY <1>2, <1>5, <3>2 DEF TypeOK
      <4>2. {BookLock(l) : l \in {[round |-> r, intent |-> i]}}
              = {[round |-> r, value |-> i]}
        BY DEF BookLock
      <4>3. \A u \in Honest, c \in Cells :
              {BookLock(l) : l \in lock'[u][c]}
                = IF u = v /\ c = InputOf[i] THEN {[round |-> r, value |-> i]}
                                             ELSE {BookLock(l) : l \in lock[u][c]}
        BY <4>1, <4>2
      <4> QED
        BY <1>1, <1>2, <3>2, <4>3 DEF BookedLocks
    <3> QED
      BY <3>1, <3>2
  <2>5. Book!Cast(v, b)
    BY <2>1, <2>2, <2>3, <2>4 DEF Book!Cast, Booked, BookedLocks
  <2> QED
    BY <1>3, <2>5 DEF Book!Next
<1> QED
  BY <1>4, <1>5 DEF CastVote, PersistVote

\* Only the two voting handlers write in the books.
LEMMA StepIsBooked ==
  ASSUME VotingInv, [Next]_vars
  PROVE  [Book!Next]_<<Booked, BookedLocks>>
<1>1. CASE UNCHANGED <<votes, lock>>
  BY <1>1 DEF Booked, BookedLocks
<1>2. CASE \E v \in Honest, r \in Rounds, i \in Intents : Prevote(v, r, i)
  BY <1>2, PrevoteIsCastVote, CastVoteIsBooked DEF Phases
<1>3. CASE \E v \in Honest, r \in Rounds, i \in Intents, S \in SUBSET Validators :
             Precommit(v, r, i, S)
  BY <1>3, PrecommitIsCastVote, CastVoteIsBooked DEF Phases
<1> QED
  BY <1>1, <1>2, <1>3 DEF Next, vars, Apply

\* Every honest node keeps a book of votes, for every committee, ledger and
\* number of rounds (node.rs prevote and precommit, store.rs persist_vote).
THEOREM NodesKeepVoteBooks == Spec => ImplementsVoteBook
<1>1. Init => Book!Init
  BY DEF Init, Book!Init
<1>2. IInv /\ [Next]_vars => [Book!Next]_<<Booked, BookedLocks>>
  BY StepIsBooked DEF IInv
<1> QED
  BY <1>1, <1>2, InductiveInvariant, PTL
     DEF Spec, ImplementsVoteBook, Book!Spec, Book!vars, Booked, BookedLocks
=============================================================================
