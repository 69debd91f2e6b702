-------------------------- MODULE ExperimentProofs ---------------------------
(***************************************************************************)
(* The SEC experiments, for committees and witnesses of every size and any *)
(* number of candidates, rounds, epochs, generations and inputs: round     *)
(* change under a driver in lock step, in all editions of the node program *)
(* (SEC-009 to SEC-012); the lock anchor (SEC-004), where a share is only  *)
(* issued once enough witnesses hold evidence of it, of which so many stay *)
(* reliable that every later recovery meets one; the handoff of SEC-013,   *)
(* the lineage of SEC-014, the history and the freshness answers of        *)
(* SEC-015 where nodes of the genesis epoch do not restart, the ratchet of *)
(* SEC-016, what the tests of SEC-017 and SEC-018 come to and what they    *)
(* leave behind, and the book of votes that every honest node of the       *)
(* validator keeps.                                                        *)
(***************************************************************************)
EXTENDS RoundChange, LockAnchor, Handoff, Lineage, Freshness, Ratchet,
        KeyContainment, VoteBook, CommitteeProofs

(* SEC-009 to SEC-012: round change                                        *)

\* One digest per voter and round.
OneDigestPerSlot(records) ==
  \A v \in Honest, r \in 0..MaxRound, d, e \in Digests :
    Vote(v, r, d) \in records /\ Vote(v, r, e) \in records => d = e

\* A node that prevotes against its earlier precommit has been shown a
\* certificate of a later round for what it prevotes.
ReleasedByCertificate(pv, qs, pcs) ==
  \A v \in Honest, r, s \in 0..MaxRound, d, e \in Digests :
    Vote(v, r, d) \in pcs /\ Vote(v, s, e) \in pv /\ r < s /\ d # e =>
      \E q \in qs : q.digest = e /\ r < q.round /\ q.round <= s

\* FinalityIsNotOvertaken for given votes.
NotOvertaken(pv, pcs) ==
  \A r, s \in 0..MaxRound : \A d, e \in Digests :
    IsQuorum(Signers(pcs, r, d)) /\ r < s /\ IsQuorum(Signers(pv, s, e)) => d = e

\* Certificates rest on prevotes, precommits on certificates.
CertificatesBacked(pv, qs) ==
  \A q \in qs : IsQuorum(Signers(pv, q.round, q.digest))

PrecommitsBacked(qs, pcs) == \A p \in pcs : Qc(p.round, p.digest) \in qs

\* The lock of a node is a certificate at least as high as its precommits.
LockCovers(pcs, locks) ==
  \A v \in Honest, r \in 0..MaxRound, d \in Digests :
    Vote(v, r, d) \in pcs =>
      \E l \in locks[v] : r <= l.round /\ (r = l.round => d = l.digest)

LocksCertified(qs, locks) == \A v \in Honest : locks[v] \subseteq qs

\* Nothing is recorded for a round that the driver has not reached, and
\* between two rounds of the healed network nothing for the next one.
ReachedBy(records) ==
  \A p \in records : p.round <= round /\ (Healed => p.round < round)

RoundInv ==
  /\ RoundTypeOK
  /\ OneDigestPerSlot(prevotes)
  /\ OneDigestPerSlot(precommits)
  /\ ReachedBy(prevotes) /\ ReachedBy(precommits) /\ ReachedBy(qcs)
  /\ CertificatesBacked(prevotes, qcs)
  /\ PrecommitsBacked(qcs, precommits)
  /\ LockCovers(precommits, lockOn)
  /\ LocksCertified(qcs, lockOn)
  /\ ReleasedByCertificate(prevotes, qcs, precommits)
  /\ NotOvertaken(prevotes, precommits)

-----------------------------------------------------------------------------
\* Two quorums of signers for statements share an honest voter of both.
LEMMA SharedVoter ==
  ASSUME NEW R, NEW S, NEW r, NEW s, NEW d, NEW e,
         IsQuorum(Signers(R, r, d)), IsQuorum(Signers(S, s, e))
  PROVE  \E v \in Honest : Vote(v, r, d) \in R /\ Vote(v, s, e) \in S
<1>1. PICK v \in Honest : v \in Signers(R, r, d) /\ v \in Signers(S, s, e)
  BY QuorumsShareHonest
<1>2. v \notin Byzantine
  BY DEF Honest
<1> QED
  BY <1>1, <1>2 DEF Signers

\* More votes only add signers.
LEMMA MoreSigners ==
  ASSUME NEW R, NEW S, R \subseteq S, NEW r, NEW d, IsQuorum(Signers(R, r, d))
  PROVE  IsQuorum(Signers(S, r, d))
<1>1. Signers(R, r, d) \subseteq Signers(S, r, d)
  BY DEF Signers
<1>2. Signers(S, r, d) \subseteq Validators
  BY CommitteeAssumption DEF CommitteeAssumption, Signers, Honest
<1> QED
  BY <1>1, <1>2, LargerSignerSet

\* Votes for one statement leave the signers of every other one alone.
LEMMA OtherSigners ==
  ASSUME NEW R, NEW V, NEW r, NEW d, NEW s, NEW e, r # s \/ d # e
  PROVE  Signers(R \cup {Vote(v, r, d) : v \in V}, s, e) = Signers(R, s, e)
BY DEF Signers, Vote

\* A prevote in the driver's round keeps the slots.
LEMMA SlotsKept ==
  ASSUME NEW R, OneDigestPerSlot(R), NEW V, NEW r \in 0..MaxRound, NEW d \in Digests,
         \A v \in V \cap Honest : SlotFree(R, v, r, d)
  PROVE  OneDigestPerSlot(R \cup {Vote(v, r, d) : v \in V})
BY DEF OneDigestPerSlot, SlotFree, Vote

-----------------------------------------------------------------------------
\* Prevotes of members whose lock allows them, for one digest in the driver's
\* round, overtake no final digest.
LEMMA AddPrevotes ==
  ASSUME RoundInv, NEW d \in Digests, NEW V \in SUBSET Honest,
         \A v \in V : SafeForLock(v, round, d) /\ SlotFree(prevotes, v, round, d)
  PROVE  LET pv == prevotes \cup {Vote(v, round, d) : v \in V}
         IN  /\ pv \subseteq VoteRecords
             /\ OneDigestPerSlot(pv)
             /\ CertificatesBacked(pv, qcs)
             /\ ReleasedByCertificate(pv, qcs, precommits)
             /\ NotOvertaken(pv, precommits)
<1> DEFINE pv == prevotes \cup {Vote(v, round, d) : v \in V}
<1>0. round \in 0..MaxRound /\ MaxRound \in Nat
  BY RoundAssumption DEF RoundInv, RoundTypeOK, RoundAssumption
<1>1. pv \subseteq VoteRecords
  BY <1>0 DEF RoundInv, RoundTypeOK, VoteRecords, Vote
<1>2. OneDigestPerSlot(pv)
  BY <1>0, SlotsKept DEF RoundInv
<1>3. CertificatesBacked(pv, qcs)
  BY MoreSigners DEF RoundInv, CertificatesBacked
<1>4. ReleasedByCertificate(pv, qcs, precommits)
  <2> SUFFICES ASSUME NEW v \in Honest, NEW r \in 0..MaxRound, NEW s \in 0..MaxRound,
                      NEW f \in Digests, NEW e \in Digests,
                      Vote(v, r, f) \in precommits, Vote(v, s, e) \in pv, r < s, f # e
               PROVE  \E q \in qcs : q.digest = e /\ r < q.round /\ q.round <= s
    BY DEF ReleasedByCertificate
  <2>1. CASE Vote(v, s, e) \in prevotes
    BY <2>1 DEF RoundInv, ReleasedByCertificate
  <2>2. CASE Vote(v, s, e) \notin prevotes
    <3>1. v \in V /\ s = round /\ e = d
      BY <2>2 DEF Vote
    <3>2. PICK l \in lockOn[v] : r <= l.round /\ (r = l.round => f = l.digest)
      BY DEF RoundInv, LockCovers
    <3>3. l \in qcs /\ l.round \in 0..MaxRound /\ l.round <= s
      BY <3>1, <3>2 DEF RoundInv, LocksCertified, ReachedBy, RoundTypeOK, Certificates
    <3>4. CASE l.digest = d
      BY <1>0, <3>1, <3>2, <3>3, <3>4
    <3>5. CASE l.digest # d
      <4>1. PICK q \in qcs : q.digest = d /\ l.round < q.round /\ q.round < round
        BY <3>1, <3>2, <3>5 DEF SafeForLock, CanPrevote
      <4>2. q.round \in 0..MaxRound
        BY DEF RoundInv, RoundTypeOK, Certificates
      <4> QED
        BY <1>0, <3>1, <3>2, <3>3, <4>1, <4>2
    <3> QED
      BY <3>4, <3>5
  <2> QED
    BY <2>1, <2>2
<1>5. NotOvertaken(pv, precommits)
  <2> SUFFICES ASSUME NEW r \in 0..MaxRound, NEW s \in 0..MaxRound,
                      NEW f \in Digests, NEW e \in Digests,
                      IsQuorum(Signers(precommits, r, f)), r < s,
                      IsQuorum(Signers(pv, s, e)), f # e
               PROVE  FALSE
    BY DEF NotOvertaken
  <2>1. ~ IsQuorum(Signers(prevotes, s, e))
    BY DEF RoundInv, NotOvertaken
  <2>2. Qc(s, e) \notin qcs
    BY <2>1 DEF RoundInv, CertificatesBacked, Qc
  <2>3. PICK v \in Honest : Vote(v, r, f) \in precommits /\ Vote(v, s, e) \in pv
    BY SharedVoter
  <2>4. PICK q \in qcs : q.digest = e /\ r < q.round /\ q.round <= s
    BY <1>4, <2>3 DEF ReleasedByCertificate
  <2>5. q = Qc(q.round, q.digest) /\ q.round \in 0..MaxRound
    BY DEF RoundInv, RoundTypeOK, Certificates, Qc
  <2>6. IsQuorum(Signers(prevotes, q.round, q.digest))
    BY DEF RoundInv, CertificatesBacked
  <2> QED
    BY <2>4, <2>5, <2>6 DEF RoundInv, NotOvertaken
<1> QED
  BY <1>1, <1>2, <1>3, <1>4, <1>5

\* Precommits for a certificate of the driver's round: there is no later round
\* yet in which anything could have been certified against them.
LEMMA AddPrecommits ==
  ASSUME RoundInv, NEW d \in Digests, NEW W \in SUBSET Honest,
         \A v \in W : SlotFree(precommits, v, round, d),
         NEW pv, NEW qs, \A p \in pv : p.round <= round,
         qcs \subseteq qs, W = {} \/ Qc(round, d) \in qs,
         ReleasedByCertificate(pv, qs, precommits), NotOvertaken(pv, precommits)
  PROVE  LET pcs == precommits \cup {Vote(v, round, d) : v \in W}
             locks == [v \in Honest |-> IF v \in W THEN {Qc(round, d)} ELSE lockOn[v]]
         IN  /\ pcs \subseteq VoteRecords
             /\ OneDigestPerSlot(pcs)
             /\ PrecommitsBacked(qs, pcs)
             /\ LockCovers(pcs, locks)
             /\ LocksCertified(qs, locks)
             /\ ReleasedByCertificate(pv, qs, pcs)
             /\ NotOvertaken(pv, pcs)
<1> DEFINE pcs == precommits \cup {Vote(v, round, d) : v \in W}
           locks == [v \in Honest |-> IF v \in W THEN {Qc(round, d)} ELSE lockOn[v]]
<1>0. round \in 0..MaxRound /\ MaxRound \in Nat
  BY RoundAssumption DEF RoundInv, RoundTypeOK, RoundAssumption
<1>1. pcs \subseteq VoteRecords
  BY <1>0 DEF RoundInv, RoundTypeOK, VoteRecords, Vote
<1>2. OneDigestPerSlot(pcs)
  BY <1>0, SlotsKept DEF RoundInv
<1>3. PrecommitsBacked(qs, pcs)
  BY DEF RoundInv, PrecommitsBacked, Vote
<1>4. LockCovers(pcs, locks)
  <2> SUFFICES ASSUME NEW v \in Honest, NEW r \in 0..MaxRound, NEW e \in Digests,
                      Vote(v, r, e) \in pcs
               PROVE  \E l \in locks[v] : r <= l.round /\ (r = l.round => e = l.digest)
    BY DEF LockCovers
  <2>1. CASE v \notin W
    <3>1. Vote(v, r, e) \in precommits /\ locks[v] = lockOn[v]
      BY <2>1 DEF Vote
    <3> QED
      BY <3>1 DEF RoundInv, LockCovers
  <2>2. CASE v \in W
    <3>1. locks[v] = {Qc(round, d)}
      BY <2>2
    <3>2. r <= round
      <4>1. CASE Vote(v, r, e) \in precommits
        <5>1. Vote(v, r, e).round <= round
          BY <4>1 DEF RoundInv, ReachedBy
        <5> QED
          BY <5>1 DEF Vote
      <4>2. CASE Vote(v, r, e) \notin precommits
        <5>1. r = round
          BY <4>2 DEF Vote
        <5> QED
          BY <1>0, <5>1
      <4> QED
        BY <4>1, <4>2
    <3>3. r = round => e = d
      <4>1. Vote(v, round, d) \in pcs
        BY <2>2
      <4> QED
        BY <1>0, <1>2, <4>1 DEF OneDigestPerSlot
    <3> QED
      BY <3>1, <3>2, <3>3 DEF Qc
  <2> QED
    BY <2>1, <2>2
<1>5. LocksCertified(qs, locks)
  BY DEF RoundInv, LocksCertified
<1>6. ReleasedByCertificate(pv, qs, pcs)
  <2> SUFFICES ASSUME NEW v \in Honest, NEW r \in 0..MaxRound, NEW s \in 0..MaxRound,
                      NEW f \in Digests, NEW e \in Digests,
                      Vote(v, r, f) \in pcs, Vote(v, s, e) \in pv, r < s, f # e
               PROVE  \E q \in qs : q.digest = e /\ r < q.round /\ q.round <= s
    BY DEF ReleasedByCertificate
  <2>1. s <= round
    <3>1. Vote(v, s, e).round <= round
      OBVIOUS
    <3> QED
      BY <3>1 DEF Vote
  <2>2. Vote(v, r, f) \in precommits
    <3>1. r # round
      BY <1>0, <2>1
    <3> QED
      BY <3>1 DEF Vote
  <2> QED
    BY <2>2 DEF ReleasedByCertificate
<1>7. NotOvertaken(pv, pcs)
  <2> SUFFICES ASSUME NEW r \in 0..MaxRound, NEW s \in 0..MaxRound,
                      NEW f \in Digests, NEW e \in Digests,
                      IsQuorum(Signers(pcs, r, f)), r < s, IsQuorum(Signers(pv, s, e))
               PROVE  f = e
    BY DEF NotOvertaken
  <2>1. PICK v \in Honest : Vote(v, s, e) \in pv
    BY SharedVoter
  <2>2. s <= round
    <3>1. Vote(v, s, e).round <= round
      BY <2>1
    <3> QED
      BY <3>1 DEF Vote
  <2>3. Signers(pcs, r, f) = Signers(precommits, r, f)
    BY <1>0, <2>2, OtherSigners
  <2> QED
    BY <2>3 DEF NotOvertaken
<1> QED
  BY <1>1, <1>2, <1>3, <1>4, <1>5, <1>6, <1>7

-----------------------------------------------------------------------------
\* Before the first round there are no votes.
LEMMA RoundInvInit == RoundInit => RoundInv
<1> SUFFICES ASSUME RoundInit PROVE RoundInv
  OBVIOUS
<1>1. RoundTypeOK
  BY RoundAssumption DEF RoundInit, RoundTypeOK, RoundAssumption, VoteRecords
<1>2. NotOvertaken(prevotes, precommits)
  <2> SUFFICES ASSUME NEW r, NEW d, IsQuorum(Signers(precommits, r, d))
               PROVE  FALSE
    BY DEF NotOvertaken
  <2> QED
    BY SharedVoter DEF RoundInit
<1> QED
  BY <1>1, <1>2 DEF RoundInit, RoundInv, OneDigestPerSlot, ReachedBy,
     CertificatesBacked, PrecommitsBacked, LockCovers, LocksCertified,
     ReleasedByCertificate

\* Every step of a round keeps the invariant.
LEMMA RoundInvStep ==
  ASSUME RoundInv, [RoundNext]_roundVars
  PROVE  RoundInv'
<1> USE DEF InRound
<1>0. round \in 0..MaxRound /\ MaxRound \in Nat /\ AdvRounds \in Nat
  BY RoundAssumption, DriverAssumption
     DEF RoundInv, RoundTypeOK, RoundAssumption, DriverAssumption
<1>1. ASSUME NEW v \in Honest, NEW r \in 0..MaxRound, NEW d \in Digests,
             TakePrevote(v, r, d)
      PROVE  RoundInv'
  <2>1. r = round /\ ~ Healed /\ prevotes' = prevotes \cup {Vote(w, round, d) : w \in {v}}
    BY <1>1 DEF TakePrevote
  <2>2. /\ prevotes' \subseteq VoteRecords
        /\ OneDigestPerSlot(prevotes')
        /\ CertificatesBacked(prevotes', qcs)
        /\ ReleasedByCertificate(prevotes', qcs, precommits)
        /\ NotOvertaken(prevotes', precommits)
    <3>1. \A w \in {v} : SafeForLock(w, round, d) /\ SlotFree(prevotes, w, round, d)
      BY <1>1, <2>1 DEF TakePrevote
    <3> QED
      BY <2>1, <3>1, AddPrevotes
  <2>3. ReachedBy(prevotes)'
    BY <1>0, <1>1, <2>1 DEF TakePrevote, ReachedBy, RoundInv, Healed, Vote
  <2>4. dead' \subseteq Honest
    BY <1>1 DEF TakePrevote, OrEnds, RoundInv, RoundTypeOK
  <2>5. UNCHANGED <<edition, offset, round, qcs, precommits, lockOn>>
    BY <1>1 DEF TakePrevote
  <2> QED
    BY <2>2, <2>3, <2>4, <2>5 DEF RoundInv, RoundTypeOK, ReachedBy, Healed
<1>2. ASSUME NEW r \in 0..MaxRound, NEW d \in Digests, AssembleQc(r, d)
      PROVE  RoundInv'
  <2>1. r = round /\ ~ Healed /\ qcs' = qcs \cup {Qc(round, d)}
    BY <1>2 DEF AssembleQc
  <2>2. qcs' \subseteq Certificates
    BY <1>0, <2>1 DEF RoundInv, RoundTypeOK, Certificates, Qc
  <2>3. ReachedBy(qcs)'
    BY <1>0, <1>2, <2>1 DEF AssembleQc, ReachedBy, RoundInv, Healed, Qc
  <2>4. CertificatesBacked(prevotes, qcs')
    BY <1>2, <2>1 DEF AssembleQc, CertificatesBacked, RoundInv, Qc
  <2>5. PrecommitsBacked(qcs', precommits) /\ LocksCertified(qcs', lockOn)
    BY <2>1 DEF PrecommitsBacked, LocksCertified, RoundInv
  <2>6. ReleasedByCertificate(prevotes, qcs', precommits)
    BY <2>1 DEF ReleasedByCertificate, RoundInv
  <2> QED
    BY <1>2, <2>2, <2>3, <2>4, <2>5, <2>6
       DEF AssembleQc, RoundInv, RoundTypeOK, ReachedBy, Healed
<1>3. ASSUME NEW v \in Honest, NEW r \in 0..MaxRound, NEW d \in Digests,
             TakePrecommit(v, r, d)
      PROVE  RoundInv'
  <2>1. r = round /\ ~ Healed /\ Qc(round, d) \in qcs /\ ~ LowersLock(v, r)
    <3>1. r = round /\ ~ Healed /\ Qc(round, d) \in qcs
      BY <1>3 DEF TakePrecommit
    <3>2. \A l \in lockOn[v] : l.round <= round /\ l.round \in 0..MaxRound
      BY DEF RoundInv, LocksCertified, ReachedBy, RoundTypeOK, Certificates
    <3> QED
      BY <1>0, <3>1, <3>2 DEF LowersLock
  <2>2. /\ precommits' = precommits \cup {Vote(w, round, d) : w \in {v}}
        /\ lockOn' = [w \in Honest |-> IF w \in {v} THEN {Qc(round, d)} ELSE lockOn[w]]
        /\ UNCHANGED <<edition, offset, round, prevotes, qcs>>
        /\ dead' \subseteq Honest
    BY <1>3, <2>1 DEF TakePrecommit, OrEnds, Relock, RoundInv, RoundTypeOK
  <2>3. /\ precommits' \subseteq VoteRecords
        /\ OneDigestPerSlot(precommits')
        /\ PrecommitsBacked(qcs, precommits')
        /\ LockCovers(precommits', lockOn')
        /\ LocksCertified(qcs, lockOn')
        /\ ReleasedByCertificate(prevotes, qcs, precommits')
        /\ NotOvertaken(prevotes, precommits')
    <3>1. \A w \in {v} : SlotFree(precommits, w, round, d)
      BY <1>3, <2>1 DEF TakePrecommit
    <3>2. \A p \in prevotes : p.round <= round
      BY DEF RoundInv, ReachedBy
    <3> QED
      BY <2>1, <2>2, <3>1, <3>2, AddPrecommits DEF RoundInv
  <2>4. ReachedBy(precommits)'
    BY <1>0, <2>1, <2>2 DEF ReachedBy, RoundInv, Healed, Vote
  <2>5. lockOn' \in [Honest -> SUBSET Certificates]
    BY <1>0, <2>2 DEF RoundInv, RoundTypeOK, Certificates, Qc
  <2> QED
    BY <2>2, <2>3, <2>4, <2>5 DEF RoundInv, RoundTypeOK, ReachedBy, Healed
<1>4. ASSUME ChangeRound \/ SkipSilentLeader
      PROVE  RoundInv'
  <2>1. /\ round' = round + 1 /\ round < MaxRound
        /\ UNCHANGED <<edition, offset, prevotes, qcs, precommits, lockOn, dead>>
    BY <1>4 DEF ChangeRound, SkipSilentLeader, HealsOn
  <2>2. \A R : (\A p \in R : p.round \in 0..MaxRound) /\ ReachedBy(R)
                 => \A p \in R : p.round <= round' /\ p.round < round'
    BY <1>0, <2>1 DEF ReachedBy
  <2>3. \A p \in prevotes \cup qcs \cup precommits : p.round \in 0..MaxRound
    BY DEF RoundInv, RoundTypeOK, VoteRecords, Certificates
  <2>4. ReachedBy(prevotes)' /\ ReachedBy(qcs)' /\ ReachedBy(precommits)'
    BY <2>1, <2>2, <2>3 DEF RoundInv, ReachedBy
  <2>5. RoundTypeOK'
    BY <1>0, <2>1 DEF RoundInv, RoundTypeOK
  <2> QED
    BY <2>1, <2>4, <2>5 DEF RoundInv
<1>5. ASSUME NEW d \in Digests, HealRound(d)
      PROVE  RoundInv'
  <2> DEFINE able == {v \in Honest \ dead : SafeForLock(v, round, d)}
             called == IF ~ IsQuorum(able) THEN {}
                      ELSE IF edition = "sec010" THEN able ELSE Honest \ dead
  <2>1. /\ Healed /\ round < MaxRound /\ round' = round + 1
        /\ prevotes' = prevotes \cup {Vote(v, round, d) : v \in able}
        /\ qcs' = IF IsQuorum(able) THEN qcs \cup {Qc(round, d)} ELSE qcs
        /\ precommits' = precommits \cup {Vote(v, round, d) : v \in called}
        /\ lockOn' = [v \in Honest |-> IF v \in called THEN {Qc(round, d)} ELSE lockOn[v]]
        /\ UNCHANGED <<edition, offset, dead>>
    BY <1>5 DEF HealRound, HealsOn
  <2>2. \A v \in Honest : SlotFree(prevotes, v, round, d) /\ SlotFree(precommits, v, round, d)
    <3>1. \A v, e : Vote(v, round, e) \notin prevotes /\ Vote(v, round, e) \notin precommits
      <4>1. \A v, e : Vote(v, round, e).round = round
        BY DEF Vote
      <4> QED
        BY <1>0, <2>1, <4>1 DEF RoundInv, ReachedBy
    <3> QED
      BY <3>1 DEF SlotFree
  <2>3. able \in SUBSET Honest /\ called \in SUBSET Honest
    OBVIOUS
  <2>4. /\ prevotes' \subseteq VoteRecords
        /\ OneDigestPerSlot(prevotes')
        /\ CertificatesBacked(prevotes', qcs)
        /\ ReleasedByCertificate(prevotes', qcs, precommits)
        /\ NotOvertaken(prevotes', precommits)
    <3>1. \A v \in able : SafeForLock(v, round, d) /\ SlotFree(prevotes, v, round, d)
      BY <2>2
    <3> HIDE DEF able
    <3> QED
      BY <2>1, <2>3, <3>1, AddPrevotes
  <2>5. \A p \in prevotes' : p.round <= round
    BY <1>0, <2>1 DEF RoundInv, ReachedBy, Vote
  <2>6. called = {} \/ Qc(round, d) \in qcs'
    BY <2>1
  <2>7. qcs \subseteq qcs' /\ ReleasedByCertificate(prevotes', qcs', precommits)
    BY <2>1, <2>4 DEF ReleasedByCertificate
  <2>8. /\ precommits' \subseteq VoteRecords
        /\ OneDigestPerSlot(precommits')
        /\ PrecommitsBacked(qcs', precommits')
        /\ LockCovers(precommits', lockOn')
        /\ LocksCertified(qcs', lockOn')
        /\ ReleasedByCertificate(prevotes', qcs', precommits')
        /\ NotOvertaken(prevotes', precommits')
    <3> HIDE DEF called
    <3>1. \A v \in called : SlotFree(precommits, v, round, d)
      BY <2>2, <2>3
    <3> QED
      BY <2>1, <2>3, <2>4, <2>5, <2>6, <2>7, <3>1, AddPrecommits
  <2>9. CertificatesBacked(prevotes', qcs')
    <3>1. IsQuorum(able) => IsQuorum(Signers(prevotes', round, d))
      <4> SUFFICES ASSUME IsQuorum(able) PROVE IsQuorum(Signers(prevotes', round, d))
        OBVIOUS
      <4>1. able \subseteq Signers(prevotes', round, d)
        BY <2>1, <2>3 DEF Signers
      <4>2. Signers(prevotes', round, d) \subseteq Validators
        BY CommitteeAssumption DEF CommitteeAssumption, Signers, Honest
      <4> HIDE DEF able
      <4> QED
        BY <4>1, <4>2, LargerSignerSet
    <3> HIDE DEF able
    <3> QED
      BY <2>1, <2>4, <3>1 DEF CertificatesBacked, Qc
  <2>10. /\ qcs' \subseteq Certificates
         /\ lockOn' \in [Honest -> SUBSET Certificates]
         /\ round' \in 0..MaxRound
    <3> HIDE DEF able, called
    <3>1. Qc(round, d) \in Certificates
      BY <1>0 DEF Certificates, Qc
    <3> QED
      BY <1>0, <2>1, <3>1 DEF RoundInv, RoundTypeOK
  <2>11. ReachedBy(prevotes)' /\ ReachedBy(qcs)' /\ ReachedBy(precommits)'
    <3> HIDE DEF able, called
    <3>1. \A R : (\A p \in R : p.round \in 0..MaxRound /\ p.round <= round)
                   => \A p \in R : p.round <= round' /\ p.round < round'
      BY <1>0, <2>1
    <3>2. \A p \in prevotes' \cup qcs' \cup precommits' : p.round \in 0..MaxRound
      BY <2>4, <2>8, <2>10 DEF VoteRecords, Certificates
    <3>3. \A p \in qcs' : p.round <= round
      BY <1>0, <2>1 DEF RoundInv, ReachedBy, Qc
    <3>4. \A p \in precommits' : p.round <= round
      BY <1>0, <2>1 DEF RoundInv, ReachedBy, Vote
    <3> QED
      BY <2>5, <3>1, <3>2, <3>3, <3>4 DEF ReachedBy
  <2> QED
    BY <2>1, <2>4, <2>8, <2>9, <2>10, <2>11 DEF RoundInv, RoundTypeOK
<1>6. ASSUME NEW v \in Honest, NodeEnds(v) \/ RestartNode(v)
      PROVE  RoundInv'
  <2>1. /\ dead' \subseteq Honest
        /\ UNCHANGED <<edition, offset, round, prevotes, qcs, precommits, lockOn>>
    BY <1>6 DEF NodeEnds, RestartNode, RoundInv, RoundTypeOK
  <2> QED
    BY <2>1 DEF RoundInv, RoundTypeOK, ReachedBy, Healed
<1>7. CASE UNCHANGED roundVars
  BY <1>7 DEF roundVars, RoundInv, RoundTypeOK, ReachedBy, Healed
<1> QED
  BY <1>1, <1>2, <1>3, <1>4, <1>5, <1>6, <1>7 DEF RoundNext, HealedRound

\* The inductive invariant holds in every state of the protocol.
THEOREM RoundInvariant == RoundSafeSpec => []RoundInv
BY RoundInvInit, RoundInvStep, PTL DEF RoundSafeSpec

\* Two digests final in one round would share an honest precommitter, and of
\* two rounds the later one's prevote certificate overtakes the earlier final.
LEMMA OneFinal == RoundInv => NoDualFinality
<1> SUFFICES ASSUME RoundInv, NEW r \in 0..MaxRound, NEW s \in 0..MaxRound,
                    NEW d \in Digests, NEW e \in Digests, IsFinal(r, d), IsFinal(s, e), r <= s
             PROVE  d = e
  BY RoundAssumption DEF NoDualFinality, RoundAssumption
<1>1. PICK v \in Honest : Vote(v, r, d) \in precommits /\ Vote(v, s, e) \in precommits
  BY SharedVoter DEF IsFinal
<1>2. CASE r = s
  BY <1>1, <1>2 DEF RoundInv, OneDigestPerSlot
<1>3. CASE r < s
  <2>1. Qc(s, e) \in qcs
    BY <1>1 DEF RoundInv, PrecommitsBacked, Vote
  <2>2. IsQuorum(Signers(prevotes, s, e))
    BY <2>1 DEF RoundInv, CertificatesBacked, Qc
  <2> QED
    BY <1>3, <2>2 DEF RoundInv, NotOvertaken, IsFinal
<1> QED
  BY <1>2, <1>3

\* No schedule of requests within rounds, no choice of leaders and no Byzantine
\* vote makes two conflicting successors final (the assertion of add_final).
THEOREM RoundChangeIsSafe == RoundSafeSpec => []NoDualFinality
BY RoundInvariant, OneFinal, PTL

\* After finality no conflicting prevote certificate of a later round forms.
THEOREM FinalityStays == RoundSafeSpec => []FinalityIsNotOvertaken
<1>1. RoundInv => FinalityIsNotOvertaken
  BY DEF RoundInv, NotOvertaken, FinalityIsNotOvertaken, IsFinal
<1> QED
  BY <1>1, RoundInvariant, PTL

\* Votes, certificates and locks stay within their types.
THEOREM RoundTypeCorrect == RoundSafeSpec => []RoundTypeOK
<1>1. RoundInv => RoundTypeOK
  BY DEF RoundInv
<1> QED
  BY <1>1, RoundInvariant, PTL

-----------------------------------------------------------------------------
(* SEC-012: its model of a round is what the nodes do                      *)

\* The last precommit of v in pcs before round n.
LastIn(pcs, n, v) ==
  LET mine == {p \in pcs : p.voter = v /\ p.round < n}
  IN  {Qc(p.round, p.digest) : p \in {q \in mine : \A o \in mine : o.round <= q.round}}

\* Under a driver in lock step a lock is the last precommit.
LocksAreLast ==
  \A v \in Honest : \A l \in lockOn[v] :
    Vote(v, l.round, l.digest) \in precommits /\ \A m \in lockOn[v] : l = m

\* The members that may prevote by what was known before the driver's round.
Supporters(d) ==
  {v \in Honest : CanPrevote(LastOf(v), Past(qcs), round, d)} \cup Byzantine

\* What is prevoted in the driver's round was proposed, and until a certificate exists it
\* is prevoted by members that may; what is certified had a quorum of them.
RoundIsFair ==
  /\ \A v \in Honest, d \in Digests : Vote(v, round, d) \in prevotes =>
       /\ MayPropose(round, d)
       /\ v \in Supporters(d) \/ \E e \in Digests : Qc(round, e) \in qcs
  /\ \A d \in Digests : Qc(round, d) \in qcs => MayPropose(round, d) /\ IsQuorum(Supporters(d))

\* A round has one prevote certificate.
LEMMA OneCertificate ==
  ASSUME NEW pv, NEW qs, CertificatesBacked(pv, qs), OneDigestPerSlot(pv),
         NEW r \in 0..MaxRound, NEW d \in Digests, NEW e \in Digests,
         Qc(r, d) \in qs, Qc(r, e) \in qs
  PROVE  d = e
<1>1. IsQuorum(Signers(pv, r, d)) /\ IsQuorum(Signers(pv, r, e))
  BY DEF CertificatesBacked, Qc
<1> QED
  BY <1>1, SharedVoter DEF OneDigestPerSlot

\* A lock that is the last precommit is what the model of SEC-012 takes for it.
LEMMA LastIsLock ==
  ASSUME NEW pcs, pcs \subseteq VoteRecords, NEW locks, LockCovers(pcs, locks),
         NEW n, NEW v \in Honest, locks[v] \subseteq Certificates,
         \A l \in locks[v] : Vote(v, l.round, l.digest) \in pcs /\ \A m \in locks[v] : l = m,
         \A p \in pcs : p.voter = v => p.round < n
  PROVE  LastIn(pcs, n, v) = locks[v]
<1> DEFINE mine == {p \in pcs : p.voter = v /\ p.round < n}
<1>0. MaxRound \in Nat
  BY RoundAssumption DEF RoundAssumption
<1>1. \A p \in mine : /\ p = Vote(v, p.round, p.digest) /\ p.round \in 0..MaxRound
                      /\ p.digest \in Digests /\ p \in pcs
  BY DEF VoteRecords, Vote
<1>2. \A l \in locks[v] : /\ Vote(v, l.round, l.digest) \in mine /\ l.round \in 0..MaxRound
                          /\ l = Qc(l.round, l.digest)
  BY DEF Certificates, Vote, Qc
<1>3. \A p \in mine : \E l \in locks[v] : p.round <= l.round /\ (p.round = l.round => p.digest = l.digest)
  BY <1>1 DEF LockCovers
<1>4. \A l \in locks[v] : Vote(v, l.round, l.digest).round = l.round
                          /\ Vote(v, l.round, l.digest).digest = l.digest
  BY DEF Vote
<1>5. LastIn(pcs, n, v) = {Qc(p.round, p.digest) : p \in {q \in mine : \A o \in mine : o.round <= q.round}}
  BY DEF LastIn
<1> HIDE DEF mine
<1>6. ASSUME NEW l \in locks[v] PROVE l \in LastIn(pcs, n, v)
  <2> DEFINE p == Vote(v, l.round, l.digest)
  <2>1. p \in mine /\ p.round = l.round /\ p.digest = l.digest
    BY <1>2, <1>4
  <2>2. \A o \in mine : o.round <= p.round
    BY <1>3, <2>1
  <2>3. l = Qc(p.round, p.digest)
    BY <1>2, <2>1
  <2> HIDE DEF p
  <2> QED
    BY <1>5, <2>1, <2>2, <2>3
<1>7. ASSUME NEW x \in LastIn(pcs, n, v) PROVE x \in locks[v]
  <2>1. PICK p \in mine : x = Qc(p.round, p.digest) /\ \A o \in mine : o.round <= p.round
    BY <1>5
  <2>2. PICK l \in locks[v] : p.round <= l.round /\ (p.round = l.round => p.digest = l.digest)
    BY <1>3
  <2>3. l.round <= p.round
    BY <1>2, <1>4, <2>1
  <2>4. p.round = l.round
    BY <1>0, <1>1, <1>2, <2>2, <2>3
  <2> QED
    BY <1>2, <2>1, <2>2, <2>4
<1> QED
  BY <1>6, <1>7

\* LastOf in these terms.
LEMMA LastOfIsLastIn ==
  ASSUME NEW v \in Honest
  PROVE  LastOf(v) = LastIn(precommits, round, v) /\ LastOf(v)' = LastIn(precommits', round', v)
<1>1. {p \in Past(precommits) : p.voter = v} = {p \in precommits : p.voter = v /\ p.round < round}
  BY DEF Past
<1>2. {p \in Past(precommits) : p.voter = v}' = {p \in precommits' : p.voter = v /\ p.round < round'}
  BY DEF Past
<1> QED
  BY <1>1, <1>2 DEF LastOf, LastIn

\* While the driver stays in a round, what was before it stays.
LEMMA SameRound ==
  ASSUME UNCHANGED <<edition, offset, round>>,
         \A q : q.round # round => (q \in qcs' <=> q \in qcs),
         \A p : p.round # round => (p \in precommits' <=> p \in precommits),
         round \in Nat
  PROVE  /\ Past(qcs)' = Past(qcs) /\ Past(precommits)' = Past(precommits)
         /\ \A v : LastOf(v)' = LastOf(v)
         /\ \A d : Supporters(d)' = Supporters(d)
         /\ \A d : MayPropose(round, d)' <=> MayPropose(round, d)
<1>1. \A q : q.round < round => q.round # round
  OBVIOUS
<1>2. Past(qcs)' = Past(qcs) /\ Past(precommits)' = Past(precommits)
  BY <1>1 DEF Past
<1>3. \A v : LastOf(v)' = LastOf(v)
  BY <1>2 DEF LastOf
<1>4. \A d : Supporters(d)' = Supporters(d)
  BY <1>2, <1>3 DEF Supporters, CanPrevote
<1>5. \A d : MayPropose(round, d)' <=> MayPropose(round, d)
  <2>1. {q \in qcs' : q.round < round} = {q \in qcs : q.round < round}
    BY <1>1
  <2> QED
    BY <2>1 DEF MayPropose, IsOpen, LeaderOf, Preferred
<1> QED
  BY <1>2, <1>3, <1>4, <1>5

\* Before the first precommit of a round the locks are the last precommits.
LEMMA LocksBefore ==
  ASSUME RoundInv, LocksAreLast, NEW v \in Honest, \A d \in Digests : Vote(v, round, d) \notin precommits
  PROVE  LastOf(v) = lockOn[v]
<1>1. \A p \in precommits : p.voter = v => p.round < round
  <2> SUFFICES ASSUME NEW p \in precommits, p.voter = v PROVE p.round < round
    OBVIOUS
  <2>1. p = Vote(v, p.round, p.digest) /\ p.digest \in Digests /\ p.round \in 0..MaxRound
    BY DEF RoundInv, RoundTypeOK, VoteRecords, Vote
  <2>2. p.round <= round /\ p.round # round
    BY <2>1 DEF RoundInv, ReachedBy
  <2> QED
    BY <2>1, <2>2, RoundAssumption DEF RoundInv, RoundTypeOK, RoundAssumption
<1>2. lockOn[v] \subseteq Certificates
  BY DEF RoundInv, RoundTypeOK
<1> QED
  BY <1>1, <1>2, LastIsLock, LastOfIsLastIn DEF RoundInv, RoundTypeOK, LocksAreLast

\* Locks stay the last precommits.
LEMMA LocksStayLast == RoundInv /\ LocksAreLast /\ [RoundNext]_roundVars => LocksAreLast'
<1> SUFFICES ASSUME RoundInv, LocksAreLast, [RoundNext]_roundVars PROVE LocksAreLast'
  OBVIOUS
<1>0. round \in 0..MaxRound /\ MaxRound \in Nat
  BY RoundAssumption DEF RoundInv, RoundTypeOK, RoundAssumption
<1>1. ASSUME NEW v \in Honest, NEW r \in 0..MaxRound, NEW d \in Digests, TakePrecommit(v, r, d)
      PROVE  LocksAreLast'
  <2>1. r = round
    BY <1>1 DEF TakePrecommit, InRound
  <2>2. ~ LowersLock(v, r)
    <3>1. \A l \in lockOn[v] : l.round <= round /\ l.round \in 0..MaxRound
      BY DEF RoundInv, LocksCertified, ReachedBy, RoundTypeOK, Certificates
    <3> QED
      BY <1>0, <2>1, <3>1 DEF LowersLock
  <2>3. /\ precommits' = precommits \cup {Vote(v, r, d)}
        /\ lockOn' = [lockOn EXCEPT ![v] = {Qc(r, d)}]
    BY <1>1, <2>2 DEF TakePrecommit, Relock
  <2>4. \A w \in Honest : lockOn'[w] = IF w = v THEN {Qc(r, d)} ELSE lockOn[w]
    BY <2>3 DEF RoundInv, RoundTypeOK
  <2> QED
    BY <2>3, <2>4 DEF LocksAreLast, Qc
<1>2. ASSUME NEW d \in Digests, HealRound(d) PROVE LocksAreLast'
  <2> DEFINE able == {v \in Honest \ dead : SafeForLock(v, round, d)}
             called == IF ~ IsQuorum(able) THEN {}
                      ELSE IF edition = "sec010" THEN able ELSE Honest \ dead
  <2>1. /\ precommits' = precommits \cup {Vote(v, round, d) : v \in called}
        /\ lockOn' = [v \in Honest |-> IF v \in called THEN {Qc(round, d)} ELSE lockOn[v]]
    BY <1>2 DEF HealRound
  <2> HIDE DEF called
  <2>2. \A v \in Honest : lockOn'[v] = IF v \in called THEN {Qc(round, d)} ELSE lockOn[v]
    BY <2>1
  <2> QED
    BY <2>1, <2>2 DEF LocksAreLast, Qc
<1>3. CASE UNCHANGED <<precommits, lockOn>>
  BY <1>3 DEF LocksAreLast
<1> QED
  BY <1>1, <1>2, <1>3
     DEF RoundNext, HealedRound, TakePrevote, AssembleQc, NodeEnds, RestartNode, ChangeRound,
         SkipSilentLeader, roundVars

\* A new round has no votes yet.
LEMMA NewRoundIsFair ==
  ASSUME RoundInv, \A p \in prevotes \cup qcs : p.round # round
  PROVE  RoundIsFair
BY DEF RoundIsFair, Vote, Qc

\* A quorum certificate of prevotes has an honest voter's behind it.
LEMMA HonestSigner ==
  ASSUME NEW R, NEW r, NEW d, IsQuorum(Signers(R, r, d))
  PROVE  \E v \in Honest : Vote(v, r, d) \in R
BY SharedVoter

\* A prevote of a member in the driver's round is fair.
LEMMA PrevoteIsFair ==
  ASSUME RoundInv, LocksAreLast, RoundIsFair, NEW v \in Honest, NEW d \in Digests,
         TakePrevote(v, round, d)
  PROVE  RoundIsFair'
<1>0. round \in Nat
  BY RoundAssumption DEF RoundInv, RoundTypeOK, RoundAssumption
<1>1. /\ UNCHANGED <<edition, offset, round, qcs, precommits>>
      /\ prevotes' = prevotes \cup {Vote(v, round, d)}
      /\ MayPropose(round, d) /\ SafeForLock(v, round, d)
  BY DEF TakePrevote
<1>2. /\ \A e : Supporters(e)' = Supporters(e)
      /\ \A e : MayPropose(round, e)' <=> MayPropose(round, e)
  BY <1>0, <1>1, SameRound
<1>3. v \in Supporters(d) \/ \E e \in Digests : Qc(round, e) \in qcs
  <2> SUFFICES ASSUME \A e \in Digests : Qc(round, e) \notin qcs
               PROVE  v \in Supporters(d)
    OBVIOUS
  <2>1. \A e \in Digests : Vote(v, round, e) \notin precommits
    <3>1. \A e : Vote(v, round, e).round = round /\ Vote(v, round, e).digest = e
      BY DEF Vote
    <3> QED
      BY <3>1 DEF RoundInv, PrecommitsBacked
  <2>2. LastOf(v) = lockOn[v]
    BY <2>1, LocksBefore
  <2>3. CanPrevote(LastOf(v), Past(qcs), round, d)
    BY <1>1, <2>2 DEF SafeForLock, CanPrevote, Past
  <2> QED
    BY <2>3 DEF Supporters
<1>4. \A w \in Honest, e \in Digests :
        Vote(w, round, e) \in prevotes' => Vote(w, round, e) \in prevotes \/ (w = v /\ e = d)
  BY <1>1 DEF Vote
<1>5. \A w \in Honest, e \in Digests : Vote(w, round, e) \in prevotes' =>
        /\ MayPropose(round, e)
        /\ w \in Supporters(e) \/ \E f \in Digests : Qc(round, f) \in qcs
  BY <1>1, <1>3, <1>4 DEF RoundIsFair
<1>6. round' = round /\ qcs' = qcs
  BY <1>1
<1> QED
  BY <1>2, <1>5, <1>6 DEF RoundIsFair, Vote, Qc

\* A certificate that is assembled had a quorum of members that may prevote.
LEMMA CertificateIsFair ==
  ASSUME RoundInv, RoundInv', RoundIsFair, NEW d \in Digests, AssembleQc(round, d)
  PROVE  RoundIsFair'
<1>0. round \in Nat /\ round \in 0..MaxRound
  BY RoundAssumption DEF RoundInv, RoundTypeOK, RoundAssumption
<1>1. /\ UNCHANGED <<edition, offset, round, prevotes, precommits>>
      /\ qcs' = qcs \cup {Qc(round, d)} /\ IsQuorum(Signers(prevotes, round, d))
  BY DEF AssembleQc
<1>2. /\ \A e : Supporters(e)' = Supporters(e)
      /\ \A e : MayPropose(round, e)' <=> MayPropose(round, e)
  <2>1. \A q : q.round # round => (q \in qcs' <=> q \in qcs)
    BY <1>1 DEF Qc
  <2> QED
    BY <1>0, <1>1, <2>1, SameRound
<1>3. \A v \in Honest, e \in Digests : Vote(v, round, e) \in prevotes =>
        /\ MayPropose(round, e)
        /\ v \in Supporters(e) \/ \E f \in Digests : Qc(round, f) \in qcs'
  BY <1>1 DEF RoundIsFair
<1>4. MayPropose(round, d) /\ IsQuorum(Supporters(d))
  <2>1. CASE \E e \in Digests : Qc(round, e) \in qcs
    <3>1. PICK e \in Digests : Qc(round, e) \in qcs
      BY <2>1
    <3>2. CertificatesBacked(prevotes', qcs') /\ OneDigestPerSlot(prevotes')
      BY DEF RoundInv
    <3>3. d = e
      BY <1>0, <1>1, <3>1, <3>2, OneCertificate
    <3> QED
      BY <3>1, <3>3 DEF RoundIsFair
  <2>2. CASE \A e \in Digests : Qc(round, e) \notin qcs
    <3>1. Signers(prevotes, round, d) \subseteq Supporters(d)
      BY <2>2 DEF RoundIsFair, Signers, Supporters
    <3>2. Supporters(d) \subseteq Validators
      BY CommitteeAssumption DEF CommitteeAssumption, Supporters, Honest
    <3>3. PICK v \in Honest : Vote(v, round, d) \in prevotes
      BY <1>1, HonestSigner
    <3> QED
      BY <1>1, <3>1, <3>2, <3>3, LargerSignerSet DEF RoundIsFair
  <2> QED
    BY <2>1, <2>2
<1>5. \A e \in Digests : Qc(round, e) \in qcs' => MayPropose(round, e) /\ IsQuorum(Supporters(e))
  BY <1>1, <1>4 DEF RoundIsFair, Qc
<1>6. round' = round /\ prevotes' = prevotes
  BY <1>1
<1> QED
  BY <1>2, <1>3, <1>5, <1>6 DEF RoundIsFair, Vote, Qc

\* A precommit changes nothing about what was prevoted.
LEMMA PrecommitIsFair ==
  ASSUME RoundInv, RoundIsFair, NEW v \in Honest, NEW d \in Digests, TakePrecommit(v, round, d)
  PROVE  RoundIsFair'
<1>0. round \in Nat
  BY RoundAssumption DEF RoundInv, RoundTypeOK, RoundAssumption
<1>1. UNCHANGED <<edition, offset, round, prevotes, qcs>>
  BY DEF TakePrecommit
<1>2. precommits' = precommits \/ precommits' = precommits \cup {Vote(v, round, d)}
  BY DEF TakePrecommit
<1>3. \A p : p.round # round => (p \in precommits' <=> p \in precommits)
  BY <1>2 DEF Vote
<1>4. /\ \A e : Supporters(e)' = Supporters(e)
      /\ \A e : MayPropose(round, e)' <=> MayPropose(round, e)
  BY <1>0, <1>1, <1>3, SameRound
<1>5. round' = round /\ prevotes' = prevotes /\ qcs' = qcs
  BY <1>1
<1> QED
  BY <1>4, <1>5 DEF RoundIsFair, Vote, Qc

\* Fairness of the driver's round holds in every state.
LEMMA FairnessKept ==
  RoundInv /\ RoundInv' /\ LocksAreLast /\ RoundIsFair /\ [RoundNext]_roundVars => RoundIsFair'
<1> SUFFICES ASSUME RoundInv, RoundInv', LocksAreLast, RoundIsFair, [RoundNext]_roundVars
             PROVE  RoundIsFair'
  OBVIOUS
<1>0. round \in 0..MaxRound /\ MaxRound \in Nat
  BY RoundAssumption DEF RoundInv, RoundTypeOK, RoundAssumption
<1>1. ASSUME NEW v \in Honest, NEW r \in 0..MaxRound, NEW d \in Digests, TakePrevote(v, r, d)
      PROVE  RoundIsFair'
  <2>1. r = round
    BY <1>1 DEF TakePrevote, InRound
  <2> QED
    BY <1>1, <2>1, PrevoteIsFair
<1>2. ASSUME NEW v \in Honest, NEW r \in 0..MaxRound, NEW d \in Digests, TakePrecommit(v, r, d)
      PROVE  RoundIsFair'
  <2>1. r = round
    BY <1>2 DEF TakePrecommit, InRound
  <2> QED
    BY <1>2, <2>1, PrecommitIsFair
<1>3. ASSUME NEW r \in 0..MaxRound, NEW d \in Digests, AssembleQc(r, d)
      PROVE  RoundIsFair'
  <2>1. r = round
    BY <1>3 DEF AssembleQc, InRound
  <2> QED
    BY <1>3, <2>1, CertificateIsFair
<1>4. ASSUME round' = round + 1, \A p \in prevotes' \cup qcs' : p.round <= round
      PROVE  RoundIsFair'
  <2>1. \A p \in prevotes' \cup qcs' : p.round # round'
    BY <1>0, <1>4
  <2> QED
    BY <2>1 DEF RoundIsFair, Vote, Qc
<1>5. \A p \in prevotes \cup qcs : p.round <= round
  BY DEF RoundInv, ReachedBy
<1>6. CASE ChangeRound
  BY <1>4, <1>5, <1>6 DEF ChangeRound
<1>7. CASE SkipSilentLeader
  BY <1>4, <1>5, <1>7 DEF SkipSilentLeader
<1>8. ASSUME NEW d \in Digests, HealRound(d) PROVE RoundIsFair'
  <2>1. /\ round' = round + 1
        /\ \A p \in prevotes' : p \in prevotes \/ p.round = round
        /\ \A p \in qcs' : p \in qcs \/ p.round = round
    BY <1>8 DEF HealRound, Vote, Qc
  <2> QED
    BY <1>0, <1>4, <1>5, <2>1
<1>9. CASE UNCHANGED roundVars \/ \E v \in Honest : NodeEnds(v) \/ RestartNode(v)
  <2>1. UNCHANGED <<edition, offset, round, prevotes, qcs, precommits>>
    BY <1>9 DEF roundVars, NodeEnds, RestartNode
  <2>2. /\ \A e : Supporters(e)' = Supporters(e)
        /\ \A e : MayPropose(round, e)' <=> MayPropose(round, e)
    BY <1>0, <2>1, SameRound
  <2>3. round' = round /\ prevotes' = prevotes /\ qcs' = qcs
    BY <2>1
  <2> QED
    BY <2>2, <2>3 DEF RoundIsFair, Vote, Qc
<1> QED
  BY <1>1, <1>2, <1>3, <1>6, <1>7, <1>8, <1>9 DEF RoundNext, HealedRound

-----------------------------------------------------------------------------
\* The last precommit after a round is that of the round, if there is one.
LEMMA LastGrows ==
  ASSUME NEW pcs, pcs \subseteq VoteRecords, OneDigestPerSlot(pcs), NEW old,
         NEW n \in 0..MaxRound, NEW v \in Honest,
         \A p \in VoteRecords : p.round < n => (p \in pcs <=> p \in old),
         old \subseteq VoteRecords
  PROVE  /\ (\A d \in Digests : Vote(v, n, d) \notin pcs) =>
              LastIn(pcs, n + 1, v) = LastIn(old, n, v)
         /\ \A d \in Digests : Vote(v, n, d) \in pcs => LastIn(pcs, n + 1, v) = {Qc(n, d)}
<1>0. MaxRound \in Nat /\ n \in Nat
  BY RoundAssumption DEF RoundAssumption
<1> DEFINE now == {p \in pcs : p.voter = v /\ p.round < n + 1}
           then == {p \in old : p.voter = v /\ p.round < n}
<1>1. /\ LastIn(pcs, n + 1, v) = {Qc(p.round, p.digest) : p \in {q \in now : \A o \in now : o.round <= q.round}}
      /\ LastIn(old, n, v) = {Qc(p.round, p.digest) : p \in {q \in then : \A o \in then : o.round <= q.round}}
  BY DEF LastIn
<1>2. \A p \in now : /\ p = Vote(v, p.round, p.digest) /\ p.digest \in Digests
                     /\ p.round \in 0..MaxRound /\ p.round <= n /\ p \in pcs
  BY <1>0 DEF VoteRecords, Vote
<1>3. ASSUME \A d \in Digests : Vote(v, n, d) \notin pcs PROVE now = then
  <2>1. \A p \in now : p.round < n
    <3> SUFFICES ASSUME NEW p \in now, p.round >= n PROVE FALSE
      BY <1>0, <1>2
    <3>1. p.round = n
      BY <1>0, <1>2
    <3> QED
      BY <1>2, <1>3, <3>1
  <2>2. now \subseteq then
    BY <1>2, <2>1
  <2>3. then \subseteq now
    BY <1>0 DEF VoteRecords
  <2> QED
    BY <2>2, <2>3
<1>4. ASSUME NEW d \in Digests, Vote(v, n, d) \in pcs
      PROVE  LastIn(pcs, n + 1, v) = {Qc(n, d)}
  <2> DEFINE top == Vote(v, n, d)
  <2>1. top \in now /\ top.round = n /\ top.digest = d
    BY <1>0, <1>4 DEF Vote
  <2>2. \A q \in now : q.round = n => q = top
    BY <1>2, <1>4 DEF OneDigestPerSlot
  <2>3. \A o \in now : o.round <= top.round
    BY <1>2, <2>1
  <2> HIDE DEF top, now
  <2>4. \A q \in now : (\A o \in now : o.round <= q.round) => q.round = n
    BY <1>0, <1>2, <2>1
  <2>5. {q \in now : \A o \in now : o.round <= q.round} = {top}
    BY <2>1, <2>2, <2>3, <2>4
  <2> QED
    BY <1>1, <2>1, <2>5
<1> QED
  BY <1>1, <1>3, <1>4

-----------------------------------------------------------------------------
\* The model counts quorums as the committee does.
LEMMA ModelQuorum == \A S : Model!IsQuorum(S) <=> IsQuorum(S)
<1>1. \A S : Model!Cardinality(S) = Cardinality(S)
  BY Zenon DEF Model!Cardinality, Cardinality
<1> QED
  BY <1>1 DEF Model!IsQuorum, IsQuorum

\* Who may vote and what may be proposed in a round of the model.
LEMMA ModelRules ==
  ASSUME NEW d \in Digests, RoundInv
  PROVE  /\ Model!MayVote(round, d) \cup Byzantine = Supporters(d)
         /\ MayPropose(round, d) => d \in Model!Candidates(round)
<1>1. \A v \in Honest : [w \in Honest |-> LastOf(w)][v] = LastOf(v)
  OBVIOUS
<1>2. Model!MayVote(round, d) = {v \in Honest : CanPrevote(LastOf(v), Past(qcs), round, d)}
  BY <1>1 DEF Model!MayVote, Model!CanPrevote, CanPrevote, Model!Honest, Honest
<1>3. {q \in Past(qcs) : q.round < round} = {q \in qcs : q.round < round}
  BY DEF Past
<1>4. Preferred(qcs, round) = Model!Preferred(Past(qcs), round)
  BY <1>3 DEF Preferred, Model!Preferred, Highest, Model!Highest
<1>5. round \in {r \in 0..MaxRound : IsOpen(r)} <=> IsOpen(round)
  BY DEF RoundInv, RoundTypeOK
<1>6. MayPropose(round, d) => d \in Model!Candidates(round)
  BY <1>4, <1>5 DEF MayPropose, Model!Candidates
<1> QED
  BY <1>2, <1>6 DEF Supporters

\* What is final before a round.
FinalBefore(pcs, n) == {d \in Digests : \E r \in 0..(n - 1) : IsQuorum(Signers(pcs, r, d))}

\* The model's variables in these terms.
LEMMA ModelState ==
  /\ [v \in Honest |-> LastOf(v)] = [v \in Honest |-> LastIn(precommits, round, v)]
  /\ [v \in Honest |-> LastOf(v)]' = [v \in Honest |-> LastIn(precommits', round', v)]
  /\ {d \in Digests : \E r \in 0..(round - 1) : IsFinal(r, d)} = FinalBefore(precommits, round)
  /\ {d \in Digests : \E r \in 0..(round - 1) : IsFinal(r, d)}' = FinalBefore(precommits', round')
<1>1. \A v \in Honest : /\ LastOf(v) = LastIn(precommits, round, v)
                        /\ LastOf(v)' = LastIn(precommits', round', v)
  BY LastOfIsLastIn
<1>2. [v \in Honest |-> LastOf(v)]' = [v \in Honest |-> LastOf(v)']
  OBVIOUS
<1>3. [v \in Honest |-> LastOf(v)] = [v \in Honest |-> LastIn(precommits, round, v)]
  BY <1>1
<1>4. [v \in Honest |-> LastOf(v)]' = [v \in Honest |-> LastIn(precommits', round', v)]
  BY <1>1, <1>2
<1> QED
  BY <1>3, <1>4 DEF FinalBefore, IsFinal

\* Precommits of the driver's round make final what they are for.
LEMMA FinalGrows ==
  ASSUME NEW pcs, NEW old, pcs \subseteq VoteRecords, old \subseteq VoteRecords,
         NEW n \in 0..MaxRound,
         \A p \in VoteRecords : p.round < n => (p \in pcs <=> p \in old)
  PROVE  FinalBefore(pcs, n + 1) =
           FinalBefore(old, n) \cup {d \in Digests : IsQuorum(Signers(pcs, n, d))}
<1>0. MaxRound \in Nat /\ n \in Nat
  BY RoundAssumption DEF RoundAssumption
<1>1. ASSUME NEW r \in 0..(n - 1), NEW d \in Digests
      PROVE  Signers(pcs, r, d) = Signers(old, r, d)
  <2>1. \A v \in Honest : Vote(v, r, d) \in VoteRecords /\ Vote(v, r, d).round < n
    BY <1>0 DEF VoteRecords, Vote
  <2> QED
    BY <2>1 DEF Signers
<1>2. 0..((n + 1) - 1) = 0..(n - 1) \cup {n}
  BY <1>0
<1>3. FinalBefore(pcs, n + 1) = {d \in Digests : \/ \E r \in 0..(n - 1) : IsQuorum(Signers(pcs, r, d))
                                                \/ IsQuorum(Signers(pcs, n, d))}
  BY <1>2 DEF FinalBefore
<1> QED
  BY <1>1, <1>3 DEF FinalBefore

-----------------------------------------------------------------------------
\* A round that ends is a step of the model: without a certificate it leaves no
\* precommit, with one it certified what enough members may prevote.
LEMMA RoundEnds ==
  ASSUME RoundInv, RoundInv', round' = round + 1, UNCHANGED <<edition, offset>>,
         \A q \in Certificates : q.round < round => (q \in qcs' <=> q \in qcs),
         \A p \in VoteRecords : p.round < round => (p \in precommits' <=> p \in precommits),
         \A d \in Digests : Qc(round, d) \in qcs' => MayPropose(round, d) /\ IsQuorum(Supporters(d))
  PROVE  Model!ExpandRound
<1> DEFINE mine(v) == {d \in Digests : Vote(v, round, d) \in precommits'}
           opened == {r \in 0..MaxRound : IsOpen(r)}
<1>0. /\ round \in 0..MaxRound /\ MaxRound \in Nat /\ round <= MaxRound
      /\ precommits \subseteq VoteRecords /\ precommits' \subseteq VoteRecords
      /\ qcs \subseteq Certificates /\ qcs' \subseteq Certificates
      /\ OneDigestPerSlot(precommits')
      /\ OneDigestPerSlot(prevotes') /\ CertificatesBacked(prevotes', qcs')
  BY RoundAssumption DEF RoundInv, RoundTypeOK, RoundAssumption
<1>1. opened' = opened
  BY DEF IsOpen, LeaderOf
<1>2. \A v \in Honest :
        /\ (\A d \in Digests : Vote(v, round, d) \notin precommits') =>
             LastIn(precommits', round', v) = LastIn(precommits, round, v)
        /\ \A d \in Digests : Vote(v, round, d) \in precommits' =>
             LastIn(precommits', round', v) = {Qc(round, d)}
  BY <1>0, LastGrows
<1>3. FinalBefore(precommits', round') =
        FinalBefore(precommits, round) \cup {d \in Digests : IsQuorum(Signers(precommits', round, d))}
  BY <1>0, FinalGrows
<1>4. \A v \in Honest, d \in Digests : Vote(v, round, d) \in precommits' => Qc(round, d) \in qcs'
  <2>1. \A v, d : Vote(v, round, d).round = round /\ Vote(v, round, d).digest = d
    BY DEF Vote
  <2> QED
    BY <2>1 DEF RoundInv, PrecommitsBacked
<1>5. \A q \in Past(qcs)' : q \in Past(qcs) \/ \E d \in Digests : q = Qc(round, d) /\ q \in qcs'
  <2> SUFFICES ASSUME NEW q \in qcs', q.round < round', ~ (q \in Past(qcs))
               PROVE  \E d \in Digests : q = Qc(round, d)
    BY DEF Past
  <2>1. q = Qc(q.round, q.digest) /\ q.round \in 0..MaxRound /\ q.digest \in Digests
    BY <1>0 DEF Certificates, Qc
  <2>2. ~ (q.round < round)
    BY <1>0, <2>1 DEF Past
  <2>3. q.round = round
    BY <1>0, <2>1, <2>2
  <2> QED
    BY <2>1, <2>3
<1>6. Past(qcs) \subseteq Past(qcs)'
  <2> SUFFICES ASSUME NEW q \in qcs, q.round < round PROVE q \in qcs' /\ q.round < round'
    BY DEF Past
  <2>1. q \in Certificates /\ q.round \in 0..MaxRound
    BY <1>0 DEF Certificates
  <2> QED
    BY <1>0, <2>1
<1>7. CASE \A d \in Digests : Qc(round, d) \notin qcs'
  <2>1. \A v \in Honest : LastIn(precommits', round', v) = LastIn(precommits, round, v)
    BY <1>2, <1>4, <1>7
  <2>2. \A d \in Digests : ~ IsQuorum(Signers(precommits', round, d))
    BY <1>4, <1>7, HonestSigner
  <2>3. FinalBefore(precommits', round') = FinalBefore(precommits, round)
    BY <1>3, <2>2
  <2>4. Past(qcs)' = Past(qcs)
    BY <1>5, <1>6, <1>7
  <2>5. [v \in Honest |-> LastOf(v)]' = [v \in Honest |-> LastOf(v)]
    BY <2>1, ModelState
  <2>6. {d \in Digests : \E r \in 0..(round - 1) : IsFinal(r, d)}' =
          {d \in Digests : \E r \in 0..(round - 1) : IsFinal(r, d)}
    BY <2>3, ModelState
  <2>7. Model!NoQc
    BY <1>0, <1>1, <2>4, <2>5, <2>6 DEF Model!NoQc
  <2> QED
    BY <2>7 DEF Model!ExpandRound
<1>8. ASSUME NEW d \in Digests, Qc(round, d) \in qcs' PROVE Model!ExpandRound
  <2> DEFINE D == {v \in Honest : Vote(v, round, d) \in precommits'}
  <2>1. \A e \in Digests : Qc(round, e) \in qcs' => e = d
    BY <1>0, <1>8, OneCertificate
  <2>2. \A v \in Honest : LastIn(precommits', round', v) =
          IF v \in D THEN {Qc(round, d)} ELSE LastIn(precommits, round, v)
    BY <1>2, <1>4, <2>1
  <2>3. [v \in Honest |-> LastOf(v)]' =
          [v \in Honest |-> IF v \in D THEN {[round |-> round, digest |-> d]}
                            ELSE [w \in Honest |-> LastOf(w)][v]]
    <3>1. [v \in Honest |-> LastOf(v)]' = [v \in Honest |-> LastIn(precommits', round', v)]
      BY ModelState
    <3>2. \A v \in Honest : [w \in Honest |-> LastOf(w)][v] = LastIn(precommits, round, v)
      BY LastOfIsLastIn
    <3> QED
      BY <2>2, <3>1, <3>2 DEF Qc
  <2>4. Past(qcs)' = Past(qcs) \cup {[round |-> round, digest |-> d]}
    <3>1. Qc(round, d) \in Past(qcs)'
      BY <1>0, <1>8 DEF Past, Qc
    <3> QED
      BY <1>5, <1>6, <2>1, <3>1 DEF Qc
  <2>5. \A e \in Digests : IsQuorum(Signers(precommits', round, e)) => e = d
    BY <1>4, <2>1, HonestSigner
  <2>6. Signers(precommits', round, d) = D \cup Byzantine
    BY DEF Signers
  <2>7. FinalBefore(precommits', round') = IF IsQuorum(D \cup Byzantine)
          THEN FinalBefore(precommits, round) \cup {d} ELSE FinalBefore(precommits, round)
    BY <1>3, <2>5, <2>6
  <2>8. IsQuorum(D) => IsQuorum(D \cup Byzantine)
    <3>1. D \cup Byzantine \subseteq Validators
      BY CommitteeAssumption DEF CommitteeAssumption, Honest
    <3> QED
      BY <3>1, LargerSignerSet
  <2>9. /\ MayPropose(round, d) /\ IsQuorum(Model!MayVote(round, d) \cup Byzantine)
        /\ d \in Model!Candidates(round)
    BY <1>8, ModelRules
  <2>10. D \in SUBSET Honest
    OBVIOUS
  <2>11. LET now == {e \in Digests : \E r \in 0..(round - 1) : IsFinal(r, e)}
             next == {e \in Digests : \E r \in 0..(round - 1) : IsFinal(r, e)}'
         IN  \/ ~ IsQuorum(D) /\ next = now
             \/ IsQuorum(D \cup Byzantine) /\ next = now \cup {d}
    BY <2>7, <2>8, ModelState
  <2> HIDE DEF D
  <2>12. Model!Certify(d, D)
    BY <1>0, <1>1, <2>3, <2>4, <2>9, <2>11, ModelQuorum DEF Model!Certify, Model!Honest, Honest
  <2> QED
    BY <2>10, <2>12 DEF Model!ExpandRound, Model!Honest, Honest
<1> QED
  BY <1>7, <1>8

\* A step inside a round is none of the model.
LEMMA InsideRound ==
  ASSUME RoundInv, RoundInv', UNCHANGED <<edition, offset, round>>,
         \A q : q.round # round => (q \in qcs' <=> q \in qcs),
         \A p : p.round # round => (p \in precommits' <=> p \in precommits)
  PROVE  UNCHANGED Model!modelVars
<1> DEFINE opened == {r \in 0..MaxRound : IsOpen(r)}
           final == {d \in Digests : \E r \in 0..(round - 1) : IsFinal(r, d)}
<1>0. round \in Nat
  BY RoundAssumption DEF RoundInv, RoundTypeOK, RoundAssumption
<1>1. opened' = opened
  BY DEF IsOpen, LeaderOf
<1>2. Past(qcs)' = Past(qcs) /\ \A v : LastOf(v)' = LastOf(v)
  BY <1>0, SameRound
<1>3. [v \in Honest |-> LastOf(v)]' = [v \in Honest |-> LastOf(v)]
  BY <1>2
<1>4. final' = final
  <2>1. ASSUME NEW r \in 0..(round - 1), NEW d \in Digests
        PROVE  Signers(precommits', r, d) = Signers(precommits, r, d)
    <3>1. \A v : Vote(v, r, d).round # round
      BY <1>0 DEF Vote
    <3> QED
      BY <3>1 DEF Signers
  <2> QED
    BY <2>1 DEF IsFinal
<1> QED
  BY <1>1, <1>2, <1>3, <1>4 DEF Model!modelVars

\* Healing certifies what a quorum of members may prevote.
LEMMA HealingIsARound ==
  ASSUME RoundInv, RoundInv', LocksAreLast, NEW d \in Digests, HealRound(d)
  PROVE  Model!ExpandRound
<1> DEFINE able == {v \in Honest \ dead : SafeForLock(v, round, d)}
           called == IF ~ IsQuorum(able) THEN {}
                     ELSE IF edition = "sec010" THEN able ELSE Honest \ dead
<1>0. round \in 0..MaxRound /\ MaxRound \in Nat
  BY RoundAssumption DEF RoundInv, RoundTypeOK, RoundAssumption
<1>1. /\ Healed /\ d \in Preferred(qcs, round) /\ round' = round + 1
      /\ UNCHANGED <<edition, offset>>
      /\ qcs' = IF IsQuorum(able) THEN qcs \cup {Qc(round, d)} ELSE qcs
      /\ precommits' = precommits \cup {Vote(v, round, d) : v \in called}
  BY DEF HealRound, HealsOn
<1>2. \A e \in Digests : /\ Qc(round, e) \notin qcs
                         /\ \A v \in Honest : Vote(v, round, e) \notin precommits
  <2>1. \A p \in qcs \cup precommits : p.round < round
    BY <1>1 DEF RoundInv, ReachedBy
  <2> QED
    BY <1>0, <2>1 DEF Qc, Vote
<1>3. able \subseteq Supporters(d)
  <2>1. \A v \in Honest : LastOf(v) = lockOn[v]
    BY <1>2, LocksBefore
  <2> QED
    BY <2>1 DEF Supporters, SafeForLock, CanPrevote, Past
<1>4. Supporters(d) \subseteq Validators
  BY CommitteeAssumption DEF CommitteeAssumption, Supporters, Honest
<1> HIDE DEF able, called
<1>5. \A e \in Digests : Qc(round, e) \in qcs' => MayPropose(round, e) /\ IsQuorum(Supporters(e))
  <2> SUFFICES ASSUME NEW e \in Digests, Qc(round, e) \in qcs'
               PROVE  MayPropose(round, e) /\ IsQuorum(Supporters(e))
    OBVIOUS
  <2>1. e = d /\ IsQuorum(able)
    BY <1>1, <1>2 DEF Qc
  <2> QED
    BY <1>1, <1>3, <1>4, <2>1, LargerSignerSet DEF MayPropose
<1>6. \A q \in Certificates : q.round < round => (q \in qcs' <=> q \in qcs)
  BY <1>0, <1>1 DEF Qc
<1>7. \A p \in VoteRecords : p.round < round => (p \in precommits' <=> p \in precommits)
  BY <1>0, <1>1 DEF Vote
<1> QED
  BY <1>1, <1>5, <1>6, <1>7, RoundEnds

\* Every step is a round of the model, or none.
LEMMA RoundStep ==
  RoundInv /\ RoundInv' /\ LocksAreLast /\ RoundIsFair /\ [RoundNext]_roundVars
    => [Model!ExpandRound]_(Model!modelVars)
<1> SUFFICES ASSUME RoundInv, RoundInv', LocksAreLast, RoundIsFair, [RoundNext]_roundVars
             PROVE  Model!ExpandRound \/ UNCHANGED Model!modelVars
  OBVIOUS
<1>1. ASSUME NEW v \in Honest, NEW r \in 0..MaxRound, NEW d \in Digests,
             TakePrevote(v, r, d) \/ TakePrecommit(v, r, d)
      PROVE  UNCHANGED Model!modelVars
  <2>1. r = round /\ UNCHANGED <<edition, offset, round, qcs>>
    BY <1>1 DEF TakePrevote, TakePrecommit, InRound
  <2>2. precommits' = precommits \/ precommits' = precommits \cup {Vote(v, round, d)}
    BY <1>1, <2>1 DEF TakePrevote, TakePrecommit
  <2>3. \A p : p.round # round => (p \in precommits' <=> p \in precommits)
    BY <2>2 DEF Vote
  <2> QED
    BY <2>1, <2>3, InsideRound
<1>2. ASSUME NEW r \in 0..MaxRound, NEW d \in Digests, AssembleQc(r, d)
      PROVE  UNCHANGED Model!modelVars
  <2>1. /\ UNCHANGED <<edition, offset, round, precommits>>
        /\ qcs' = qcs \cup {Qc(round, d)}
    BY <1>2 DEF AssembleQc, InRound
  <2>2. \A q : q.round # round => (q \in qcs' <=> q \in qcs)
    BY <2>1 DEF Qc
  <2> QED
    BY <2>1, <2>2, InsideRound
<1>3. CASE ChangeRound \/ SkipSilentLeader
  <2>1. round' = round + 1 /\ UNCHANGED <<edition, offset, qcs, precommits>>
    BY <1>3 DEF ChangeRound, SkipSilentLeader
  <2> QED
    BY <2>1, RoundEnds DEF RoundIsFair
<1>4. ASSUME NEW d \in Digests, HealRound(d) PROVE Model!ExpandRound
  BY <1>4, HealingIsARound
<1>5. CASE UNCHANGED roundVars \/ \E v \in Honest : NodeEnds(v) \/ RestartNode(v)
  BY <1>5, InsideRound DEF roundVars, NodeEnds, RestartNode
<1> QED
  BY <1>1, <1>2, <1>3, <1>4, <1>5 DEF RoundNext, HealedRound

\* The model begins where the nodes do.
LEMMA RoundBegins == RoundInit => Model!ModelInit /\ LocksAreLast /\ RoundIsFair
<1> SUFFICES ASSUME RoundInit PROVE Model!ModelInit /\ LocksAreLast /\ RoundIsFair
  OBVIOUS
<1>1. /\ round = 0 /\ prevotes = {} /\ qcs = {} /\ precommits = {}
      /\ lockOn = [v \in Honest |-> {}]
  BY DEF RoundInit
<1>2. \A v \in Honest : LastOf(v) = {}
  BY <1>1 DEF LastOf, Past
<1>3. Past(qcs) = {}
  BY <1>1 DEF Past
<1>4. {d \in Digests : \E r \in 0..(round - 1) : IsFinal(r, d)} = {}
  BY <1>1
<1>5. Model!ModelInit
  BY <1>1, <1>2, <1>3, <1>4 DEF Model!ModelInit, Model!Honest, Honest
<1>6. LocksAreLast /\ RoundIsFair
  BY <1>1 DEF LocksAreLast, RoundIsFair
<1> QED
  BY <1>5, <1>6

\* The nodes of SEC-009 to SEC-011 under a driver in lock step implement the
\* model of SEC-012 (ImplementsRoundModel): what it assumes of a round, that
\* members vote by their last precommit and the certificates before the round
\* and that one digest at most is certified, is what they do.
THEOREM RoundsImplementModel == RoundSafeSpec => ImplementsRoundModel
<1>1. RoundInit => RoundInv
  BY RoundInvInit
<1>2. RoundInv /\ [RoundNext]_roundVars => RoundInv'
  BY RoundInvStep
<1> QED
  BY <1>1, <1>2, RoundBegins, LocksStayLast, FairnessKept, RoundStep, PTL
     DEF RoundSafeSpec, ImplementsRoundModel, Model!ModelSpec

-----------------------------------------------------------------------------
(* SEC-004: the lock anchor                                                *)

Unreliable == ByzantineWitnesses \cup restored

\* The witnesses that hold c's evidence, or may once have held it.
Holders(c, i, t) ==
  Unreliable \cup {w \in Witnesses : LockEvidence(c, i, t) \in anchors[w]}

SharesAreAnchored ==
  \A c \in Honest : \A t \in signed[c] : \A i \in InputSet(t) :
    Cardinality(Holders(c, i, t)) >= AnchorQ

AnchorTypes ==
  /\ anchors \in [Witnesses -> SUBSET Evidence]
  /\ signed \in [Honest -> SUBSET Txs]
  /\ restored \subseteq Witnesses \ ByzantineWitnesses
  /\ Cardinality(restored) <= MaxRestored

AnchorInv == AnchorTypes /\ SharesAreAnchored /\ NoSecondSignature

-----------------------------------------------------------------------------
\* Sets of witnesses are finite.
LEMMA FiniteWitnesses ==
  ASSUME NEW S, S \subseteq Witnesses
  PROVE  /\ IsFiniteSet(S) /\ Cardinality(S) \in Nat
         /\ Cardinality(S) <= Cardinality(Witnesses)
         /\ \A T : T \subseteq S => Cardinality(T) <= Cardinality(S)
<1>1. IsFiniteSet(Witnesses)
  BY AnchorAssumption DEF AnchorAssumption
<1>2. IsFiniteSet(S) /\ Cardinality(S) <= Cardinality(Witnesses)
  BY <1>1, FS_Subset
<1> QED
  BY <1>2, FS_Subset, FS_CardinalityType

\* The inputs of a transaction are the first of its list, all of it taken.
LEMMA InputsAreInputs ==
  ASSUME NEW t \in Txs
  PROVE  /\ InputSet(t) \subseteq Inputs
         /\ InputSet(t) = FirstInputs(t, Len(InputsOf[t]))
<1>1. InputsOf[t] \in Seq(Inputs)
  BY AnchorAssumption DEF AnchorAssumption
<1>2. DOMAIN InputsOf[t] = 1..Len(InputsOf[t])
  BY <1>1
<1>3. \A k \in DOMAIN InputsOf[t] : InputsOf[t][k] \in Inputs
  BY <1>1
<1> QED
  BY <1>2, <1>3 DEF InputSet, FirstInputs

\* With at most the tolerated number of rolled back stores, a set of witnesses
\* large enough to anchor and one large enough to recover share a reliable one.
LEMMA AnchorMeetsRecovery ==
  ASSUME NEW H, H \subseteq Witnesses, Cardinality(H) >= AnchorQ,
         NEW R, R \subseteq Witnesses, Cardinality(R) >= RecoveryQ,
         AnchorTypes
  PROVE  \E w \in H \cap R : w \notin Unreliable
<1>1. /\ Unreliable \subseteq Witnesses /\ restored \subseteq Witnesses
      /\ ByzantineWitnesses \subseteq Witnesses
      /\ H \cap R \subseteq Witnesses /\ H \cup R \subseteq Witnesses
  BY AnchorAssumption DEF AnchorAssumption, Unreliable, AnchorTypes
<1>2. /\ IsFiniteSet(H) /\ IsFiniteSet(R) /\ IsFiniteSet(ByzantineWitnesses)
      /\ IsFiniteSet(restored) /\ IsFiniteSet(Unreliable)
      /\ Cardinality(H) \in Nat /\ Cardinality(R) \in Nat
      /\ Cardinality(H \cap R) \in Nat /\ Cardinality(H \cup R) \in Nat
      /\ Cardinality(ByzantineWitnesses) \in Nat /\ Cardinality(restored) \in Nat
      /\ Cardinality(Unreliable) \in Nat /\ Cardinality(Witnesses) \in Nat
      /\ Cardinality(ByzantineWitnesses \cap restored) \in Nat
      /\ Cardinality(H \cup R) <= Cardinality(Witnesses)
  <2>1. ByzantineWitnesses \cap restored \subseteq Witnesses
    BY <1>1
  <2> QED
    BY <1>1, <2>1, FiniteWitnesses
<1>3. Cardinality(H \cup R) = Cardinality(H) + Cardinality(R) - Cardinality(H \cap R)
  BY <1>2, FS_Union
<1>4. Cardinality(Unreliable) = Cardinality(ByzantineWitnesses) + Cardinality(restored)
                                  - Cardinality(ByzantineWitnesses \cap restored)
  BY <1>2, FS_Union DEF Unreliable
<1>5. Cardinality(Unreliable) < Cardinality(H \cap R)
  <2>1. /\ AnchorQ \in Nat /\ RecoveryQ \in Nat /\ MaxRestored \in Nat
        /\ Cardinality(Witnesses) + Cardinality(ByzantineWitnesses) + MaxRestored
             < AnchorQ + RecoveryQ
    BY AnchorAssumption DEF AnchorAssumption
  <2>2. Cardinality(restored) <= MaxRestored
    BY DEF AnchorTypes
  <2> QED
    BY <2>1, <2>2, <1>2, <1>3, <1>4
<1>6. ~ (H \cap R \subseteq Unreliable)
  <2> SUFFICES ASSUME H \cap R \subseteq Unreliable
               PROVE  FALSE
    OBVIOUS
  <2>1. Cardinality(H \cap R) <= Cardinality(Unreliable)
    BY <1>1, FiniteWitnesses
  <2> QED
    BY <2>1, <1>2, <1>5
<1> QED
  BY <1>6

-----------------------------------------------------------------------------
\* Evidence is never lost except by a restore, which makes the witness
\* unreliable, so no holder is lost.
LEMMA HoldersRemain ==
  ASSUME AnchorTypes, AnchorTypes',
         restored \subseteq restored',
         \A w \in Witnesses : w \in restored' \/ anchors[w] \subseteq anchors'[w],
         NEW c \in Honest, NEW t \in Txs, NEW i \in Inputs,
         Cardinality(Holders(c, i, t)) >= AnchorQ
  PROVE  Cardinality(Holders(c, i, t)') >= AnchorQ
<1>1. Holders(c, i, t) \subseteq Holders(c, i, t)'
  BY DEF Holders, Unreliable, LockEvidence
<1>2. Holders(c, i, t)' \subseteq Witnesses
  BY AnchorAssumption DEF AnchorAssumption, Holders, Unreliable, AnchorTypes
<1>3. /\ Cardinality(Holders(c, i, t)) <= Cardinality(Holders(c, i, t)')
      /\ Cardinality(Holders(c, i, t)) \in Nat /\ Cardinality(Holders(c, i, t)') \in Nat
  BY <1>1, <1>2, FiniteWitnesses
<1>4. AnchorQ \in Nat
  BY AnchorAssumption DEF AnchorAssumption
<1> QED
  BY <1>3, <1>4

\* Writing anchors keeps the stores well typed and only adds to them.
LEMMA WritingOnlyAdds ==
  ASSUME AnchorTypes, NEW c \in Honest, NEW t \in Txs, NEW A \in SUBSET Witnesses,
         NEW n \in 0..Len(InputsOf[t]), WriteAnchors(c, t, A, n)
  PROVE  /\ anchors' \in [Witnesses -> SUBSET Evidence]
         /\ \A w \in Witnesses : anchors[w] \subseteq anchors'[w]
<1>1. FirstInputs(t, n) \subseteq Inputs
  <2>1. InputsOf[t] \in Seq(Inputs)
    BY AnchorAssumption DEF AnchorAssumption
  <2>2. Len(InputsOf[t]) \in Nat /\ \A k \in 1..Len(InputsOf[t]) : InputsOf[t][k] \in Inputs
    BY <2>1
  <2>3. \A k \in 1..n : k \in 1..Len(InputsOf[t])
    BY <2>2
  <2> QED
    BY <2>2, <2>3 DEF FirstInputs
<1>2. c \in Honest
  BY AnchorAssumption DEF AnchorAssumption
<1>3. \A i \in FirstInputs(t, n) : LockEvidence(c, i, t) \in Evidence
  BY <1>1, <1>2 DEF LockEvidence, Evidence
<1> QED
  BY <1>3 DEF WriteAnchors, AnchorTypes

\* Refused calls, rollbacks and restores sign nothing and lose no holder.
LEMMA NothingSigned ==
  ASSUME AnchorInv, AnchorTypes', UNCHANGED signed, restored \subseteq restored',
         \A w \in Witnesses : w \in restored' \/ anchors[w] \subseteq anchors'[w]
  PROVE  AnchorInv'
<1>1. SharesAreAnchored'
  <2> SUFFICES ASSUME NEW c \in Honest, NEW t \in signed[c], NEW i \in InputSet(t)
               PROVE  Cardinality(Holders(c, i, t)') >= AnchorQ
    BY DEF SharesAreAnchored, InputSet
  <2>1. t \in Txs /\ i \in Inputs
    <3>1. t \in Txs
      BY DEF AnchorInv, AnchorTypes
    <3> QED
      BY <3>1, InputsAreInputs
  <2>2. Cardinality(Holders(c, i, t)) >= AnchorQ
    BY DEF AnchorInv, SharesAreAnchored
  <2> QED
    BY <2>1, <2>2, HoldersRemain DEF AnchorInv
<1>2. NoSecondSignature'
  BY DEF AnchorInv, NoSecondSignature, Conflicting, InputSet
<1> QED
  BY <1>1, <1>2 DEF AnchorInv

\* The step that matters.
LEMMA SigningIsSafe ==
  ASSUME AnchorInv, NEW c \in Honest, NEW t \in Txs, NEW A \in SUBSET Witnesses,
         NEW R \in SUBSET Witnesses, AnchorAndSign(c, t, A, R)
  PROVE  AnchorInv'
<1>1. c \in Honest /\ AnchorTypes
  BY AnchorAssumption DEF AnchorAssumption, AnchorInv
<1>2. Len(InputsOf[t]) \in Nat
  <2>1. InputsOf[t] \in Seq(Inputs)
    BY AnchorAssumption DEF AnchorAssumption
  <2> QED
    BY <2>1
<1>3. /\ anchors' \in [Witnesses -> SUBSET Evidence]
      /\ \A w \in Witnesses : anchors[w] \subseteq anchors'[w]
  <2>1. WriteAnchors(c, t, A, Len(InputsOf[t])) /\ Len(InputsOf[t]) \in 0..Len(InputsOf[t])
    BY <1>2 DEF AnchorAndSign
  <2> QED
    BY <1>1, <2>1, WritingOnlyAdds
<1>4. AnchorTypes' /\ restored' = restored
  <2>1. signed' = [signed EXCEPT ![c] = @ \cup {t}] /\ restored' = restored
    BY DEF AnchorAndSign
  <2>2. signed' \in [Honest -> SUBSET Txs]
    BY <1>1, <2>1 DEF AnchorTypes
  <2> QED
    BY <1>1, <1>3, <2>1, <2>2 DEF AnchorTypes
<1>5. \A d \in Honest : signed'[d] = IF d = c THEN signed[c] \cup {t} ELSE signed[d]
  BY <1>1 DEF AnchorAndSign, AnchorTypes
<1>6. \A i \in InputSet(t) : Cardinality(Holders(c, i, t)') >= AnchorQ
  <2> SUFFICES ASSUME NEW i \in InputSet(t)
               PROVE  Cardinality(Holders(c, i, t)') >= AnchorQ
    OBVIOUS
  <2> DEFINE acks == {w \in A : Accepts(w, c, t, i)}
  <2>1. Cardinality(acks) >= AnchorQ
    BY DEF AnchorAndSign, AnchorHolds
  <2>2. acks \subseteq Holders(c, i, t)'
    <3>1. i \in FirstInputs(t, Len(InputsOf[t]))
      BY InputsAreInputs
    <3>2. ASSUME NEW w \in acks, w \notin ByzantineWitnesses
          PROVE  LockEvidence(c, i, t) \in anchors'[w] /\ w \in Witnesses
      BY <3>1, <3>2 DEF AnchorAndSign, WriteAnchors
    <3> QED
      BY <3>2 DEF Holders, Unreliable, LockEvidence
  <2>3. Holders(c, i, t)' \subseteq Witnesses
    BY <1>4, AnchorAssumption DEF AnchorAssumption, Holders, Unreliable, AnchorTypes
  <2>4. /\ Cardinality(acks) <= Cardinality(Holders(c, i, t)')
        /\ Cardinality(acks) \in Nat /\ Cardinality(Holders(c, i, t)') \in Nat
    BY <2>2, <2>3, FiniteWitnesses
  <2>5. AnchorQ \in Nat
    BY AnchorAssumption DEF AnchorAssumption
  <2> QED
    BY <2>1, <2>4, <2>5
<1>7. SharesAreAnchored'
  <2> SUFFICES ASSUME NEW d \in Honest, NEW u \in signed'[d], NEW i \in InputSet(u)
               PROVE  Cardinality(Holders(d, i, u)') >= AnchorQ
    BY DEF SharesAreAnchored, InputSet
  <2>1. CASE u \in signed[d]
    <3>1. u \in Txs
      BY <1>1, <2>1 DEF AnchorTypes
    <3>2. i \in Inputs
      BY <3>1, InputsAreInputs
    <3>3. Cardinality(Holders(d, i, u)) >= AnchorQ
      BY <2>1 DEF AnchorInv, SharesAreAnchored
    <3> QED
      BY <3>1, <3>2, <3>3, <1>1, <1>3, <1>4, HoldersRemain
  <2>2. CASE u \notin signed[d]
    <3>1. d = c /\ u = t
      BY <1>5, <2>2
    <3> QED
      BY <3>1, <1>6
  <2> QED
    BY <2>1, <2>2
<1>8. ASSUME NEW u \in signed[c], Conflicting(t, u)
      PROVE  FALSE
  <2>1. u \in Txs /\ t # u
    BY <1>1, <1>8 DEF AnchorTypes, Conflicting
  <2>2. PICK i : i \in InputSet(t) /\ i \in InputSet(u)
    BY <1>8 DEF Conflicting
  <2>3. Cardinality(Holders(c, i, u)) >= AnchorQ
    BY <1>1, <2>2 DEF AnchorInv, SharesAreAnchored
  <2>4. Recovers(c, t, i, R)
    BY <2>2 DEF AnchorAndSign, AllRecover
  <2>5. Holders(c, i, u) \subseteq Witnesses
    BY <1>1, AnchorAssumption DEF AnchorAssumption, Holders, Unreliable, AnchorTypes
  <2>6. PICK w \in Holders(c, i, u) \cap R : w \notin Unreliable
    BY <1>1, <2>3, <2>4, <2>5, AnchorMeetsRecovery DEF Recovers
  <2>7. LockEvidence(c, i, u) \in anchors[w] /\ w \in R \ ByzantineWitnesses
    BY <2>6 DEF Holders, Unreliable
  <2>8. u \in Answers(c, i, R)
    BY <2>1, <2>7 DEF Answers
  <2> QED
    BY <2>1, <2>4, <2>8 DEF Recovers
<1>9. NoSecondSignature'
  <2> SUFFICES ASSUME NEW d \in Honest, NEW p \in signed'[d], NEW q \in signed'[d],
                      Conflicting(p, q)
               PROVE  FALSE
    BY DEF NoSecondSignature, Conflicting, InputSet
  <2>1. p # q /\ Conflicting(q, p)
    BY DEF Conflicting
  <2>2. CASE p \in signed[d] /\ q \in signed[d]
    BY <2>2 DEF AnchorInv, NoSecondSignature
  <2>3. CASE ~ (p \in signed[d] /\ q \in signed[d])
    <3>1. signed'[d] = IF d = c THEN signed[c] \cup {t} ELSE signed[d]
      BY <1>5
    <3>2. p \in signed'[d] /\ q \in signed'[d] /\ Conflicting(p, q)
      OBVIOUS
    <3>3. d = c
      BY <3>1, <3>2, <2>3
    <3>4. (p = t /\ q \in signed[c]) \/ (q = t /\ p \in signed[c])
      BY <3>1, <3>2, <3>3, <2>1, <2>3
    <3> QED
      BY <3>2, <3>4, <2>1, <1>8
  <2> QED
    BY <2>2, <2>3
<1> QED
  BY <1>4, <1>7, <1>9 DEF AnchorInv

-----------------------------------------------------------------------------
\* Nothing is signed in the beginning.
LEMMA AnchorInitially == AnchorInit => AnchorInv
<1> SUFFICES ASSUME AnchorInit
             PROVE  AnchorInv
  OBVIOUS
<1>1. Cardinality(restored) = 0 /\ MaxRestored \in Nat
  BY FS_EmptySet, AnchorAssumption DEF AnchorInit, AnchorAssumption
<1> QED
  BY <1>1 DEF AnchorInit, AnchorInv, AnchorTypes, SharesAreAnchored, NoSecondSignature

\* Every step keeps the invariant.
LEMMA AnchorStep == AnchorInv /\ [AnchorNext]_anchorVars => AnchorInv'
<1> SUFFICES ASSUME AnchorInv, [AnchorNext]_anchorVars
             PROVE  AnchorInv'
  OBVIOUS
<1> USE DEF AnchorInv
<1>1. ASSUME NEW c \in Honest, NEW t \in Txs, NEW R \in SUBSET Witnesses,
             RefusedByRecovery(c, t, R)
      PROVE  AnchorInv'
  <2>1. UNCHANGED <<anchors, signed, restored>>
    BY <1>1 DEF RefusedByRecovery
  <2>2. AnchorTypes'
    BY <2>1 DEF AnchorTypes
  <2> QED
    BY <2>1, <2>2, NothingSigned
<1>2. ASSUME NEW c \in Honest, NEW t \in Txs, NEW R \in SUBSET Witnesses,
             NEW A \in SUBSET Witnesses, RefusedByAnchor(c, t, A, R)
      PROVE  AnchorInv'
  <2>1. PICK k \in DOMAIN InputsOf[t] : WriteAnchors(c, t, A, k)
    BY <1>2 DEF RefusedByAnchor
  <2>2. k \in 0..Len(InputsOf[t])
    <3>1. InputsOf[t] \in Seq(Inputs)
      BY AnchorAssumption DEF AnchorAssumption
    <3> QED
      BY <2>1, <3>1
  <2>3. UNCHANGED <<signed, restored>>
    BY <1>2 DEF RefusedByAnchor
  <2>4. /\ anchors' \in [Witnesses -> SUBSET Evidence]
        /\ \A w \in Witnesses : anchors[w] \subseteq anchors'[w]
    BY <2>1, <2>2, WritingOnlyAdds
  <2>5. AnchorTypes'
    BY <2>3, <2>4 DEF AnchorTypes
  <2> QED
    BY <2>3, <2>4, <2>5, NothingSigned
<1>3. ASSUME NEW c \in Honest, RollbackLocal(c)
      PROVE  AnchorInv'
  <2>1. UNCHANGED <<anchors, signed, restored>>
    BY <1>3 DEF RollbackLocal
  <2>2. AnchorTypes'
    BY <2>1 DEF AnchorTypes
  <2> QED
    BY <2>1, <2>2, NothingSigned
<1>4. ASSUME NEW w \in Witnesses \ ByzantineWitnesses, RestoreWitness(w)
      PROVE  AnchorInv'
  <2>1. /\ restored' = restored \cup {w} /\ UNCHANGED signed
        /\ Cardinality(restored') <= MaxRestored
    BY <1>4 DEF RestoreWitness
  <2>2. PICK older \in SUBSET anchors[w] : anchors' = [anchors EXCEPT ![w] = older]
    BY <1>4 DEF RestoreWitness
  <2>3. anchors' \in [Witnesses -> SUBSET Evidence]
    BY <2>2 DEF AnchorTypes
  <2>4. \A v \in Witnesses : v \in restored' \/ anchors[v] \subseteq anchors'[v]
    BY <2>1, <2>2 DEF AnchorTypes
  <2>5. AnchorTypes'
    BY <2>1, <2>3 DEF AnchorTypes
  <2> QED
    BY <2>1, <2>4, <2>5, NothingSigned
<1>5. CASE UNCHANGED anchorVars
  <2>1. UNCHANGED <<anchors, signed, restored>>
    BY <1>5 DEF anchorVars
  <2>2. AnchorTypes'
    BY <2>1 DEF AnchorTypes
  <2> QED
    BY <2>1, <2>2, NothingSigned
<1> QED
  BY <1>1, <1>2, <1>3, <1>4, <1>5, SigningIsSafe DEF AnchorNext

\* However often certifiers forget their locks and calls fail half way, and with
\* at most the tolerated number of restored witnesses, no certifier signs two
\* spends of one input.
THEOREM CertifiersNeverSignTwice == AnchorSpec => []NoSecondSignature
<1>1. AnchorInv => NoSecondSignature
  BY DEF AnchorInv
<1> QED
  BY <1>1, AnchorInitially, AnchorStep, PTL DEF AnchorSpec

\* So two threshold certificates for spends of one input never exist.
THEOREM CertificatesAreExclusive == AnchorSpec => []NoTwoCertifiedSpends
<1>1. NoSecondSignature => NoTwoCertifiedSpends
  <2> SUFFICES ASSUME NoSecondSignature, NEW t \in Txs, NEW u \in Txs,
                      AnchorCertified(t), AnchorCertified(u)
               PROVE  ~ Conflicting(t, u)
    BY DEF NoTwoCertifiedSpends
  <2>1. PICK c \in Honest : /\ c \in {d \in Honest : t \in signed[d]} \cup Byzantine
                            /\ c \in {d \in Honest : u \in signed[d]} \cup Byzantine
    BY QuorumsShareHonest DEF AnchorCertified
  <2>2. t \in signed[c] /\ u \in signed[c]
    BY <2>1 DEF Honest
  <2> QED
    BY <2>2 DEF NoSecondSignature
<1> QED
  BY <1>1, CertifiersNeverSignTwice, PTL

-----------------------------------------------------------------------------
(* SEC-013 to SEC-016: the change of committees                            *)

\* An honest member in two quorums that Byzantine members have joined.
LEMMA HonestInBoth ==
  ASSUME NEW S, NEW T, IsQuorum(S \cup Byzantine), IsQuorum(T \cup Byzantine)
  PROVE  \E v \in Honest : v \in S /\ v \in T
<1>1. PICK v \in Honest : v \in S \cup Byzantine /\ v \in T \cup Byzantine
  BY QuorumsShareHonest
<1> QED
  BY <1>1 DEF Honest

\* And in one.
LEMMA HonestIn ==
  ASSUME NEW S, IsQuorum(S \cup Byzantine)
  PROVE  \E v \in Honest : v \in S
BY HonestInBoth

\* A quorum stays one when honest members join it.
LEMMA QuorumGrows ==
  ASSUME NEW S, IsQuorum(S \cup Byzantine), NEW T, S \subseteq T, T \subseteq Honest
  PROVE  IsQuorum(T \cup Byzantine)
<1>1. T \cup Byzantine \subseteq Validators
  BY CommitteeAssumption DEF CommitteeAssumption, Honest
<1> QED
  BY <1>1, LargerSignerSet

-----------------------------------------------------------------------------
(* SEC-013                                                                 *)

\* A node chooses one handoff per transition and input.
OneChoicePerKey(choices) ==
  \A c, d \in choices :
    c.node = d.node /\ SameHandoffKey(c.handoff, d.handoff) => c.handoff = d.handoff

\* A vote is for the digest of a certified, locked handoff.
VotesInherit ==
  \A w \in newVotes : \E h \in Handoffs :
    /\ ForNewEpoch(h) /\ h.status = "locked"
    /\ h.input = w.input /\ h.digest = w.digest

HandoffInv == OneChoicePerKey(oldChoices) /\ VotesInherit

\* Nothing is chosen or voted for at the start.
LEMMA HandoffInitially == HandoffInit => HandoffInv
BY DEF HandoffInit, HandoffInv, OneChoicePerKey, VotesInherit

\* A further choice that MayChoose allows keeps one per key.
LEMMA ChoiceKept ==
  ASSUME NEW choices, OneChoicePerKey(choices), NEW v, NEW h, MayChoose(choices, v, h)
  PROVE  OneChoicePerKey(choices \cup {Choice(v, h)})
BY DEF OneChoicePerKey, MayChoose, Choice, SameHandoffKey

\* Certified handoffs stay certified.
LEMMA AgreementStays ==
  ASSUME oldChoices \subseteq oldChoices', NEW h, ForNewEpoch(h)
  PROVE  ForNewEpoch(h)'
<1>1. IsQuorum({v \in Honest : Choice(v, h) \in oldChoices'} \cup Byzantine)
  <2> DEFINE S == {v \in Honest : Choice(v, h) \in oldChoices}
             T == {v \in Honest : Choice(v, h) \in oldChoices'}
  <2>1. IsQuorum(S \cup Byzantine) /\ S \subseteq T /\ T \subseteq Honest
    BY DEF ForNewEpoch, HandoffAgreed
  <2> QED
    BY <2>1, QuorumGrows
<1> QED
  BY <1>1 DEF ForNewEpoch, HandoffAgreed, Choice

\* Every choice, activation and vote of SEC-013 keeps the invariant.
LEMMA HandoffStep == HandoffInv /\ [HandoffNext]_handoffVars => HandoffInv'
<1> SUFFICES ASSUME HandoffInv, [HandoffNext]_handoffVars PROVE HandoffInv'
  OBVIOUS
<1>1. ASSUME NEW v \in Honest, NEW h \in Handoffs, OldSign(v, h) PROVE HandoffInv'
  <2>1. OneChoicePerKey(oldChoices)'
    BY <1>1, ChoiceKept DEF OldSign, HandoffInv, OneChoicePerKey
  <2>2. \A g \in Handoffs : ForNewEpoch(g) => ForNewEpoch(g)'
    BY <1>1, AgreementStays DEF OldSign
  <2>3. VotesInherit'
    BY <1>1, <2>2 DEF OldSign, HandoffInv, VotesInherit
  <2> QED
    BY <2>1, <2>3 DEF HandoffInv
<1>2. ASSUME NEW v \in Honest, NEW h \in Handoffs, NewActivate(v, h) PROVE HandoffInv'
  BY <1>2 DEF NewActivate, HandoffInv, OneChoicePerKey, VotesInherit, ForNewEpoch, HandoffAgreed
<1>3. ASSUME NEW v \in Honest, NEW h \in Handoffs, NEW d \in HandoffDigests, NewNodeVote(v, h, d)
      PROVE  HandoffInv'
  <2>1. oldChoices' = oldChoices /\ \A g : ForNewEpoch(g)' <=> ForNewEpoch(g)
    BY <1>3 DEF NewNodeVote, ForNewEpoch, HandoffAgreed
  <2>2. ForNewEpoch(h) /\ h.status = "locked" /\ d = h.digest
    BY <1>3 DEF NewNodeVote, Activated
  <2>3. newVotes' = newVotes \cup {NewVote(v, h.input, h.digest)}
    BY <1>3, <2>2 DEF NewNodeVote
  <2>4. VotesInherit'
    BY <2>1, <2>2, <2>3 DEF HandoffInv, VotesInherit, NewVote
  <2> QED
    BY <2>1, <2>4 DEF HandoffInv, OneChoicePerKey
<1>4. CASE UNCHANGED handoffVars
  BY <1>4 DEF handoffVars, HandoffInv, OneChoicePerKey, VotesInherit, ForNewEpoch, HandoffAgreed
<1> QED
  BY <1>1, <1>2, <1>3, <1>4 DEF HandoffNext

\* A certified handoff of an input to our epoch has no rival.
LEMMA OneAgreedHandoff ==
  ASSUME HandoffInv, NEW g \in Handoffs, NEW h \in Handoffs,
         ForNewEpoch(g), ForNewEpoch(h), g.input = h.input
  PROVE  g = h
<1>1. PICK v \in Honest : Choice(v, g) \in oldChoices /\ Choice(v, h) \in oldChoices
  <2>1. \E v \in Honest : /\ v \in {u \in Honest : Choice(u, g) \in oldChoices}
                          /\ v \in {u \in Honest : Choice(u, h) \in oldChoices}
    BY HonestInBoth DEF ForNewEpoch, HandoffAgreed
  <2> QED
    BY <2>1
<1> QED
  BY <1>1 DEF HandoffInv, OneChoicePerKey, Choice, SameHandoffKey, ForNewEpoch

\* What the new committee of SEC-013 makes final is the digest a certified handoff
\* locked, and no other handoff of the input is certified.
THEOREM CommitteesInherit == HandoffSpec => []NewEpochInherits
<1>1. HandoffInv => NewEpochInherits
  <2> SUFFICES ASSUME HandoffInv, NEW i \in HandoffInputs, NEW d \in HandoffDigests,
                      NewlyFinal(i, d)
               PROVE  \E g \in Handoffs :
                        /\ g.input = i /\ ForNewEpoch(g) /\ g.status = "locked" /\ g.digest = d
                        /\ \A h \in Handoffs : h.input = i /\ ForNewEpoch(h) => h = g
    BY DEF NewEpochInherits
  <2>1. PICK v \in Honest : NewVote(v, i, d) \in newVotes
    <3>1. \E v \in Honest : v \in {u \in Honest : NewVote(u, i, d) \in newVotes}
      BY HonestIn DEF NewlyFinal
    <3> QED
      BY <3>1
  <2>2. PICK g \in Handoffs : ForNewEpoch(g) /\ g.status = "locked" /\ g.input = i /\ g.digest = d
    BY <2>1 DEF HandoffInv, VotesInherit, NewVote
  <2> QED
    BY <2>2, OneAgreedHandoff
<1> QED
  BY <1>1, HandoffInitially, HandoffStep, PTL DEF HandoffSpec

-----------------------------------------------------------------------------
(* SEC-014                                                                 *)

\* A node signs one successor per epoch and generation.
OneSuccessorPerGeneration ==
  \A t, u \in transferred :
    t.node = u.node /\ t.epoch = u.epoch /\ t.input.gen = u.input.gen => t.successor = u.successor

\* Only record_transfer signs successors, and it signs one per generation.
LEMMA LineageStep ==
  OneSuccessorPerGeneration /\ [LineageNext]_lineageVars => OneSuccessorPerGeneration'
<1> SUFFICES ASSUME OneSuccessorPerGeneration, [LineageNext]_lineageVars
             PROVE  OneSuccessorPerGeneration'
  OBVIOUS
<1>1. ASSUME NEW v \in Honest, NEW e \in LineageEpochs, NEW s \in StateRefs,
             NEW d \in LineageDigests, RecordTransfer(v, e, s, d)
      PROVE  OneSuccessorPerGeneration'
  BY <1>1 DEF RecordTransfer, TransfersAt, TransferOf, OneSuccessorPerGeneration
<1>2. CASE transferred' = transferred
  BY <1>2 DEF OneSuccessorPerGeneration
<1> QED
  BY <1>1, <1>2 DEF LineageNext, Commit, RecordHandoff, ActivateState, lineageVars

\* Within an epoch of SEC-014 a state never has two certified successors, whether
\* or not it has been handed off.
THEOREM EpochsNeverFork == LineageSpec => []EpochNeverForks
<1>1. LineageInit => OneSuccessorPerGeneration
  BY DEF LineageInit, OneSuccessorPerGeneration
<1>2. OneSuccessorPerGeneration => EpochNeverForks
  <2> SUFFICES ASSUME OneSuccessorPerGeneration, NEW e \in LineageEpochs, NEW s \in StateRefs,
                      NEW c \in LineageDigests, NEW d \in LineageDigests,
                      FinalityCertified(e, s, c), FinalityCertified(e, s, d)
               PROVE  c = d
    BY DEF EpochNeverForks
  <2>1. \E v \in Honest : /\ v \in {u \in Honest : TransferOf(u, e, s, c) \in transferred}
                          /\ v \in {u \in Honest : TransferOf(u, e, s, d) \in transferred}
    BY HonestInBoth DEF FinalityCertified
  <2> QED
    BY <2>1 DEF OneSuccessorPerGeneration, TransferOf
<1> QED
  BY <1>1, <1>2, LineageStep, PTL DEF LineageSpec

-----------------------------------------------------------------------------
(* SEC-015, where nodes of the genesis epoch do not restart                *)

\* What a node has signed lies behind what it holds, and a retired node holds
\* nothing.  After the genesis epoch a node takes part only once it has activated a
\* state.
NodeMoves ==
  \A v \in Honest, e \in Epochs :
    /\ \A s \in active[e][v] : \A t \in transfers :
         t.node = v /\ t.epoch = e => t.from.gen < s.gen
    /\ \A m \in retired : m.node = v /\ m.epoch = e =>
         /\ active[e][v] = {}
         /\ \A t \in transfers : t.node = v /\ t.epoch = e => t.from.gen < m.state.gen
         /\ \A n \in retired : n.node = v /\ n.epoch = e => n.state = m.state
         /\ e > 0 => \E n \in activated : n.node = v /\ n.epoch = e
    /\ e > 0 /\ (active[e][v] # {} \/ \E t \in transfers : t.node = v /\ t.epoch = e)
         => \E n \in activated : n.node = v /\ n.epoch = e

\* A node finalises one successor of a generation.
FinalsRecorded ==
  /\ \A t, u \in transfers :
       t.node = u.node /\ t.epoch = u.epoch /\ t.from.gen = u.from.gen => t.to = u.to
  /\ \A x \in finals : \E t \in transfers :
       t.node = x.node /\ t.epoch = x.epoch /\ t.from.gen = x.from.gen /\ t.to = x.to

\* What was activated was handed off by the epoch before, and whatever a node of an
\* epoch holds, retires or finalises is no older than what any epoch before handed off.
DescendsFrom(e, gen) == \E r \in States : HandedOff(e, r) /\ r.gen <= gen

LineageKept ==
  /\ \A m \in activated : m.epoch > 0 /\ m.state \in States /\ HandedOff(m.epoch - 1, m.state)
  /\ \A e, f \in Epochs : e < f =>
       /\ \A v \in Honest : \A s \in active[f][v] : DescendsFrom(e, s.gen)
       /\ \A m \in retired : m.epoch = f => DescendsFrom(e, m.state.gen)
       /\ \A t \in transfers : t.epoch = f => DescendsFrom(e, t.from.gen)

\* Once a handoff was certified before the challenge, enough nodes have retired the
\* state without having answered.
SilentRetirees(c) ==
  {v \in Honest : Mark(v, c.epoch, c.state) \in retired} \ answered

ChallengesRefused ==
  /\ answered # {} => challenge # {}
  /\ \A b, c \in challenge : b = c
  /\ \A c \in challenge : c.over => IsQuorum(SilentRetirees(c) \cup Byzantine)

FreshInv ==
  FreshTypeOK /\ NodeMoves /\ FinalsRecorded /\ LineageKept /\ ChallengesRefused

-----------------------------------------------------------------------------
\* An epoch hands off at most one state.
LEMMA OneHandedOff ==
  ASSUME FreshInv, NEW e \in Epochs, NEW s, NEW t, HandedOff(e, s), HandedOff(e, t)
  PROVE  s = t
<1>1. \E v \in Honest : /\ v \in {u \in Honest : Mark(u, e, s) \in retired}
                        /\ v \in {u \in Honest : Mark(u, e, t) \in retired}
  BY HonestInBoth DEF HandedOff
<1> QED
  BY <1>1 DEF FreshInv, NodeMoves, Mark

\* A certified handoff stays certified.
LEMMA HandedOffStays ==
  ASSUME retired \subseteq retired', NEW e, NEW s, HandedOff(e, s)
  PROVE  HandedOff(e, s)'
<1> DEFINE S == {v \in Honest : Mark(v, e, s) \in retired}
           T == {v \in Honest : Mark(v, e, s) \in retired'}
<1>1. IsQuorum(S \cup Byzantine) /\ S \subseteq T /\ T \subseteq Honest
  BY DEF HandedOff
<1>2. IsQuorum(T \cup Byzantine)
  BY <1>1, QuorumGrows
<1> QED
  BY <1>2 DEF HandedOff, Mark

\* What descends from an epoch goes on doing so.
LEMMA DescentStays ==
  ASSUME retired \subseteq retired', NEW e, NEW gen, DescendsFrom(e, gen)
  PROVE  DescendsFrom(e, gen)'
<1>1. PICK r \in States : HandedOff(e, r) /\ r.gen <= gen
  BY DEF DescendsFrom
<1>2. HandedOff(e, r)'
  BY <1>1, HandedOffStays
<1> QED
  BY <1>1, <1>2 DEF DescendsFrom, HandedOff

\* What an epoch hands off descends from what every epoch before it handed off.
LEMMA HandoffsDescend ==
  ASSUME FreshInv, NEW e \in Epochs, NEW f \in Epochs, e < f, NEW s \in States, HandedOff(f, s)
  PROVE  DescendsFrom(e, s.gen)
<1>1. \E v \in Honest : v \in {u \in Honest : Mark(u, f, s) \in retired}
  BY HonestIn DEF HandedOff
<1> QED
  BY <1>1 DEF FreshInv, LineageKept, Mark

-----------------------------------------------------------------------------
\* The genesis epoch holds the genesis state, and nothing is signed.
LEMMA FreshInitially == FreshInit => FreshInv
<1> SUFFICES ASSUME FreshInit PROVE FreshInv
  OBVIOUS
<1>1. Genesis \in States /\ \A e \in Epochs : e \in Nat
  BY EpochAssumption DEF EpochAssumption, Genesis, States, Epochs
<1>2. FreshTypeOK
  BY <1>1 DEF FreshInit, FreshTypeOK
<1>3. NodeMoves /\ FinalsRecorded /\ ChallengesRefused
  BY <1>1 DEF FreshInit, NodeMoves, FinalsRecorded, ChallengesRefused
<1>4. LineageKept
  BY <1>1 DEF FreshInit, LineageKept
<1> QED
  BY <1>2, <1>3, <1>4 DEF FreshInv

\* Finalising a successor moves a node on by one generation.
LEMMA FinaliseStep ==
  ASSUME FreshInv, NEW v \in Honest, NEW e \in Epochs, NEW s \in States, NEW d \in StateDigests,
         Finalise(v, e, s, d)
  PROVE  FreshInv'
<1> DEFINE new == Transfer(v, e, s, d)
<1>0. /\ active[e][v] = {s} /\ s.gen \in Nat /\ s.gen < MaxGen /\ MaxGen \in Nat
      /\ UNCHANGED <<retired, activated, challenge, answered>>
      /\ \A t \in transfers : t.from.gen \in Nat
  BY EpochAssumption DEF Finalise, EpochAssumption, States, FreshInv, FreshTypeOK, Transfers
<1>1. ~ \E t \in transfers : t.node = v /\ t.epoch = e /\ t.from.gen = s.gen
  BY <1>0 DEF FreshInv, NodeMoves
<1>2. transfers' = transfers \cup {new} /\ finals' = finals \cup {new}
  BY <1>1 DEF Finalise
<1>3. active' = [active EXCEPT ![e][v] = {Successor(s, d)}]
  BY <1>1 DEF Finalise, SetActive
<1>4. Successor(s, d) \in States /\ Successor(s, d).gen = s.gen + 1 /\ new \in Transfers
  BY <1>0 DEF Successor, States, Transfer, Transfers
<1>5. new.node = v /\ new.epoch = e /\ new.from = s /\ new.to = d
  BY DEF Transfer
<1> HIDE DEF new
<1>6. FreshTypeOK'
  BY <1>0, <1>2, <1>3, <1>4 DEF FreshInv, FreshTypeOK
<1>7. \A u \in Honest, f \in Epochs :
        active'[f][u] = IF u = v /\ f = e THEN {Successor(s, d)} ELSE active[f][u]
  BY <1>3 DEF FreshInv, FreshTypeOK
<1>8. ~ \E m \in retired : m.node = v /\ m.epoch = e
  BY <1>0 DEF FreshInv, NodeMoves
<1>9. NodeMoves'
  <2> SUFFICES ASSUME NEW u \in Honest, NEW f \in Epochs
        PROVE
          /\ \A x \in active'[f][u] : \A t \in transfers' :
               t.node = u /\ t.epoch = f => t.from.gen < x.gen
          /\ \A m \in retired : m.node = u /\ m.epoch = f =>
               /\ active'[f][u] = {}
               /\ \A t \in transfers' : t.node = u /\ t.epoch = f => t.from.gen < m.state.gen
               /\ \A n \in retired : n.node = u /\ n.epoch = f => n.state = m.state
               /\ f > 0 => \E n \in activated : n.node = u /\ n.epoch = f
          /\ f > 0 /\ (active'[f][u] # {} \/ \E t \in transfers' : t.node = u /\ t.epoch = f)
               => \E n \in activated : n.node = u /\ n.epoch = f
    BY <1>0 DEF NodeMoves
  <2>1. CASE u = v /\ f = e
    BY <2>1, <1>0, <1>2, <1>4, <1>5, <1>7, <1>8 DEF FreshInv, NodeMoves
  <2>2. CASE ~ (u = v /\ f = e)
    BY <2>2, <1>2, <1>5, <1>7 DEF FreshInv, NodeMoves
  <2> QED
    BY <2>1, <2>2
<1>10. FinalsRecorded'
  BY <1>1, <1>2, <1>5 DEF FreshInv, FinalsRecorded
<1>11. \A f \in Epochs : \A gen : DescendsFrom(f, gen)' <=> DescendsFrom(f, gen)
  BY <1>0 DEF DescendsFrom, HandedOff
<1>12. \A f \in Epochs : f < e => DescendsFrom(f, s.gen) /\ DescendsFrom(f, s.gen + 1)
  <2> SUFFICES ASSUME NEW f \in Epochs, f < e
               PROVE  DescendsFrom(f, s.gen) /\ DescendsFrom(f, s.gen + 1)
    OBVIOUS
  <2>1. DescendsFrom(f, s.gen)
    BY <1>0 DEF FreshInv, LineageKept
  <2>2. PICK r \in States : HandedOff(f, r) /\ r.gen <= s.gen
    BY <2>1 DEF DescendsFrom
  <2>3. r.gen <= s.gen + 1
    BY <2>2, <1>0 DEF States
  <2> QED
    BY <2>1, <2>2, <2>3 DEF DescendsFrom
<1>13. LineageKept'
  <2>1. \A m \in activated' : m.epoch > 0 /\ m.state \in States /\ HandedOff(m.epoch - 1, m.state)'
    BY <1>0 DEF FreshInv, LineageKept, HandedOff
  <2>2. \A g, f \in Epochs : g < f =>
          /\ \A u \in Honest : \A x \in active'[f][u] : DescendsFrom(g, x.gen)
          /\ \A m \in retired' : m.epoch = f => DescendsFrom(g, m.state.gen)
          /\ \A t \in transfers' : t.epoch = f => DescendsFrom(g, t.from.gen)
    BY <1>0, <1>2, <1>4, <1>5, <1>7, <1>12 DEF FreshInv, LineageKept
  <2> QED
    BY <2>1, <2>2, <1>11 DEF LineageKept
<1>14. ChallengesRefused'
  BY <1>0 DEF FreshInv, ChallengesRefused, SilentRetirees
<1> QED
  BY <1>6, <1>9, <1>10, <1>13, <1>14 DEF FreshInv

\* Retiring leaves a node without a state, of the generation it last held.
LEMMA RetireStep ==
  ASSUME FreshInv, NEW v \in Honest, NEW e \in Epochs, NEW s \in States, Retire(v, e, s)
  PROVE  FreshInv'
<1> DEFINE new == Mark(v, e, s)
<1>0. /\ active[e][v] = {s}
      /\ UNCHANGED <<transfers, finals, activated, challenge, answered>>
      /\ retired' = retired \cup {new}
  BY DEF Retire
<1>1. ~ \E m \in retired : m.node = v /\ m.epoch = e
  BY <1>0 DEF FreshInv, NodeMoves
<1>2. new.node = v /\ new.epoch = e /\ new.state = s /\ new \in Marks
  BY DEF Mark, Marks
<1>3. active' = [active EXCEPT ![e][v] = {}]
  BY <1>1, <1>2 DEF Retire, SetActive
<1> HIDE DEF new
<1>4. \A u \in Honest, f \in Epochs :
        active'[f][u] = IF u = v /\ f = e THEN {} ELSE active[f][u]
  BY <1>3 DEF FreshInv, FreshTypeOK
<1>5. FreshTypeOK'
  BY <1>0, <1>2, <1>3 DEF FreshInv, FreshTypeOK
<1>6. NodeMoves'
  <2> SUFFICES ASSUME NEW u \in Honest, NEW f \in Epochs
        PROVE
          /\ \A x \in active'[f][u] : \A t \in transfers :
               t.node = u /\ t.epoch = f => t.from.gen < x.gen
          /\ \A m \in retired' : m.node = u /\ m.epoch = f =>
               /\ active'[f][u] = {}
               /\ \A t \in transfers : t.node = u /\ t.epoch = f => t.from.gen < m.state.gen
               /\ \A n \in retired' : n.node = u /\ n.epoch = f => n.state = m.state
               /\ f > 0 => \E n \in activated : n.node = u /\ n.epoch = f
          /\ f > 0 /\ (active'[f][u] # {} \/ \E t \in transfers : t.node = u /\ t.epoch = f)
               => \E n \in activated : n.node = u /\ n.epoch = f
    BY <1>0 DEF NodeMoves
  <2>1. CASE u = v /\ f = e
    BY <2>1, <1>0, <1>1, <1>2, <1>4 DEF FreshInv, NodeMoves
  <2>2. CASE ~ (u = v /\ f = e)
    BY <2>2, <1>0, <1>2, <1>4 DEF FreshInv, NodeMoves
  <2> QED
    BY <2>1, <2>2
<1>7. FinalsRecorded'
  BY <1>0 DEF FreshInv, FinalsRecorded
<1>8. retired \subseteq retired'
  BY <1>0
<1>9. LineageKept'
  <2>1. \A m \in activated' : m.epoch > 0 /\ m.state \in States /\ HandedOff(m.epoch - 1, m.state)'
    BY <1>0, <1>8, HandedOffStays DEF FreshInv, LineageKept
  <2>2. \A g, f \in Epochs : g < f =>
          /\ \A u \in Honest : \A x \in active'[f][u] : DescendsFrom(g, x.gen)
          /\ \A m \in retired' : m.epoch = f => DescendsFrom(g, m.state.gen)
          /\ \A t \in transfers' : t.epoch = f => DescendsFrom(g, t.from.gen)
    BY <1>0, <1>2, <1>4 DEF FreshInv, LineageKept
  <2>3. \A g, gen : DescendsFrom(g, gen) => DescendsFrom(g, gen)'
    BY <1>8, DescentStays
  <2> QED
    BY <2>1, <2>2, <2>3 DEF LineageKept
<1>10. ChallengesRefused'
  <2>1. ASSUME NEW c \in challenge', c.over PROVE IsQuorum(SilentRetirees(c)' \cup Byzantine)
    <3>1. IsQuorum(SilentRetirees(c) \cup Byzantine)
      BY <1>0, <2>1 DEF FreshInv, ChallengesRefused
    <3>2. SilentRetirees(c) \subseteq SilentRetirees(c)' /\ SilentRetirees(c)' \subseteq Honest
      BY <1>0 DEF SilentRetirees, Mark
    <3> QED
      BY <3>1, <3>2, QuorumGrows
  <2> QED
    BY <1>0, <2>1 DEF FreshInv, ChallengesRefused
<1> QED
  BY <1>5, <1>6, <1>7, <1>9, <1>10 DEF FreshInv

\* An activation needs a certified handoff of the epoch before.
LEMMA ActivateStep ==
  ASSUME FreshInv, NEW v \in Honest, NEW e \in Epochs, NEW s \in States, Activate(v, e, s)
  PROVE  FreshInv'
<1> DEFINE new == Mark(v, e, s)
<1>0. /\ e > 0 /\ HandedOff(e - 1, s) /\ active[e][v] \subseteq {s}
      /\ \A m \in activated : m.node = v /\ m.epoch = e => m.state.gen # s.gen
      /\ active' = [active EXCEPT ![e][v] = {s}]
      /\ activated' = activated \cup {new}
      /\ UNCHANGED <<transfers, finals, retired, challenge, answered>>
  BY DEF Activate, SetActive
<1>1. e \in Nat /\ e - 1 \in Epochs /\ s.gen \in Nat
  BY <1>0, EpochAssumption DEF Epochs, EpochAssumption, States
<1>2. ~ \E m \in activated : m.node = v /\ m.epoch = e
  <2> SUFFICES ASSUME NEW m \in activated, m.node = v, m.epoch = e PROVE FALSE
    OBVIOUS
  <2>1. HandedOff(e - 1, m.state) /\ m.state \in States
    BY DEF FreshInv, LineageKept
  <2>2. m.state = s
    BY <2>1, <1>0, <1>1, OneHandedOff
  <2> QED
    BY <2>2, <1>0
<1>3. /\ active[e][v] = {}
      /\ ~ \E m \in retired : m.node = v /\ m.epoch = e
  BY <1>0, <1>2 DEF FreshInv, NodeMoves
<1>4. new.node = v /\ new.epoch = e /\ new.state = s /\ new \in Marks
  BY DEF Mark, Marks
<1> HIDE DEF new
<1>5. \A u \in Honest, f \in Epochs :
        active'[f][u] = IF u = v /\ f = e THEN {s} ELSE active[f][u]
  BY <1>0 DEF FreshInv, FreshTypeOK
<1>6. FreshTypeOK'
  BY <1>0, <1>4 DEF FreshInv, FreshTypeOK
<1>7. ~ \E t \in transfers : t.node = v /\ t.epoch = e
  BY <1>0, <1>2 DEF FreshInv, NodeMoves
<1>8. NodeMoves'
  <2> SUFFICES ASSUME NEW u \in Honest, NEW f \in Epochs
        PROVE
          /\ \A x \in active'[f][u] : \A t \in transfers :
               t.node = u /\ t.epoch = f => t.from.gen < x.gen
          /\ \A m \in retired : m.node = u /\ m.epoch = f =>
               /\ active'[f][u] = {}
               /\ \A t \in transfers : t.node = u /\ t.epoch = f => t.from.gen < m.state.gen
               /\ \A n \in retired : n.node = u /\ n.epoch = f => n.state = m.state
               /\ f > 0 => \E n \in activated' : n.node = u /\ n.epoch = f
          /\ f > 0 /\ (active'[f][u] # {} \/ \E t \in transfers : t.node = u /\ t.epoch = f)
               => \E n \in activated' : n.node = u /\ n.epoch = f
    BY <1>0 DEF NodeMoves
  <2>1. CASE u = v /\ f = e
    BY <2>1, <1>0, <1>3, <1>4, <1>5, <1>7
  <2>2. CASE ~ (u = v /\ f = e)
    BY <2>2, <1>0, <1>4, <1>5 DEF FreshInv, NodeMoves
  <2> QED
    BY <2>1, <2>2
<1>9. FinalsRecorded'
  BY <1>0 DEF FreshInv, FinalsRecorded
<1>10. \A f, t : HandedOff(f, t)' <=> HandedOff(f, t)
  BY <1>0 DEF HandedOff
<1>11. \A g \in Epochs : g < e => DescendsFrom(g, s.gen)
  <2> SUFFICES ASSUME NEW g \in Epochs, g < e PROVE DescendsFrom(g, s.gen)
    OBVIOUS
  <2>1. CASE g = e - 1
    BY <2>1, <1>0, <1>1 DEF DescendsFrom
  <2>2. CASE g < e - 1
    BY <2>2, <1>0, <1>1, HandoffsDescend
  <2>3. g \in Nat
    BY DEF Epochs
  <2> QED
    BY <1>1, <2>1, <2>2, <2>3
<1>12. LineageKept'
  <2>1. \A m \in activated' : m.epoch > 0 /\ m.state \in States /\ HandedOff(m.epoch - 1, m.state)'
    BY <1>0, <1>4, <1>10 DEF FreshInv, LineageKept
  <2>2. \A g, f \in Epochs : g < f =>
          /\ \A u \in Honest : \A x \in active'[f][u] : DescendsFrom(g, x.gen)
          /\ \A m \in retired' : m.epoch = f => DescendsFrom(g, m.state.gen)
          /\ \A t \in transfers' : t.epoch = f => DescendsFrom(g, t.from.gen)
    BY <1>0, <1>5, <1>11 DEF FreshInv, LineageKept
  <2>3. \A g, gen : DescendsFrom(g, gen)' <=> DescendsFrom(g, gen)
    BY <1>10 DEF DescendsFrom
  <2> QED
    BY <2>1, <2>2, <2>3 DEF LineageKept
<1>13. ChallengesRefused'
  BY <1>0 DEF FreshInv, ChallengesRefused, SilentRetirees
<1> QED
  BY <1>6, <1>8, <1>9, <1>12, <1>13 DEF FreshInv

\* A restart outside the genesis epoch gives a node what it held.
LEMMA RestartStep ==
  ASSUME FreshInv, 0 \notin Restarting, NEW v \in Honest, NEW e \in Epochs, Restart(v, e)
  PROVE  UNCHANGED freshVars
BY DEF Restart, SetActive, FreshInv, FreshTypeOK, freshVars

\* The history does not depend on challenges and answers.
LEMMA HistoryKept ==
  ASSUME FreshInv, UNCHANGED <<active, transfers, finals, retired, activated>>
  PROVE  NodeMoves' /\ FinalsRecorded' /\ LineageKept'
<1>1. NodeMoves' /\ FinalsRecorded'
  BY DEF FreshInv, NodeMoves, FinalsRecorded
<1>2. \A f, t : HandedOff(f, t)' <=> HandedOff(f, t)
  BY DEF HandedOff
<1>3. \A g, gen : DescendsFrom(g, gen)' <=> DescendsFrom(g, gen)
  BY <1>2 DEF DescendsFrom
<1>4. LineageKept'
  BY <1>2, <1>3 DEF FreshInv, LineageKept
<1> QED
  BY <1>1, <1>4

\* A challenge drawn after a handoff finds the retired nodes silent.
LEMMA ChallengeStep ==
  ASSUME FreshInv, NEW e \in Epochs, NEW s \in States, Challenge(e, s)
  PROVE  FreshInv'
<1>1. /\ challenge = {} /\ challenge' = {[epoch |-> e, state |-> s, over |-> HandedOff(e, s)]}
      /\ UNCHANGED <<active, transfers, finals, retired, activated, answered>>
  BY DEF Challenge
<1>2. answered = {}
  BY <1>1 DEF FreshInv, ChallengesRefused
<1>3. FreshTypeOK'
  BY <1>1 DEF FreshInv, FreshTypeOK, HandedOff, IsQuorum
<1>4. ChallengesRefused'
  BY <1>1, <1>2 DEF ChallengesRefused, SilentRetirees, HandedOff
<1>5. NodeMoves' /\ FinalsRecorded' /\ LineageKept'
  BY <1>1, HistoryKept
<1> QED
  BY <1>3, <1>4, <1>5 DEF FreshInv

\* Only a node that holds the state, and so has not retired it, answers.
LEMMA AnswerStep ==
  ASSUME FreshInv, NEW v \in Honest, NEW e \in Epochs, Answer(v, e)
  PROVE  FreshInv'
<1>1. /\ answered' = answered \cup {v}
      /\ UNCHANGED <<active, transfers, finals, retired, activated, challenge>>
  BY DEF Answer
<1>2. PICK c \in challenge : c.epoch = e /\ active[e][v] = {c.state}
  BY DEF Answer
<1>3. ~ \E m \in retired : m.node = v /\ m.epoch = e
  BY <1>2 DEF FreshInv, NodeMoves
<1>4. FreshTypeOK'
  BY <1>1 DEF FreshInv, FreshTypeOK
<1>5. ChallengesRefused'
  <2>1. \A b \in challenge : b.epoch = e
    BY <1>2 DEF FreshInv, ChallengesRefused
  <2>2. \A b \in challenge : SilentRetirees(b)' = SilentRetirees(b)
    BY <1>1, <1>3, <2>1 DEF SilentRetirees, Mark
  <2> QED
    BY <1>1, <1>2, <2>2 DEF FreshInv, ChallengesRefused
<1>6. NodeMoves' /\ FinalsRecorded' /\ LineageKept'
  BY <1>1, HistoryKept
<1> QED
  BY <1>4, <1>5, <1>6 DEF FreshInv

\* Every step keeps the invariant unless nodes of the genesis epoch restart: a
\* restart there returns a retired node the genesis state.
LEMMA FreshStep ==
  ASSUME 0 \notin Restarting
  PROVE  FreshInv /\ [FreshNext]_freshVars => FreshInv'
<1> SUFFICES ASSUME FreshInv, [FreshNext]_freshVars PROVE FreshInv'
  OBVIOUS
<1>1. CASE \E v \in Honest, e \in Epochs, s \in States, d \in StateDigests : Finalise(v, e, s, d)
  BY <1>1, FinaliseStep
<1>2. CASE \E v \in Honest, e \in Epochs, s \in States : Retire(v, e, s)
  BY <1>2, RetireStep
<1>3. CASE \E v \in Honest, e \in Epochs, s \in States : Activate(v, e, s)
  BY <1>3, ActivateStep
<1>4. CASE \E v \in Honest, e \in Epochs : Answer(v, e)
  BY <1>4, AnswerStep
<1>5. CASE \E e \in Epochs, s \in States : Challenge(e, s)
  BY <1>5, ChallengeStep
<1>6. CASE UNCHANGED freshVars
  <2>1. FreshTypeOK' /\ ChallengesRefused'
    BY <1>6 DEF freshVars, FreshInv, FreshTypeOK, ChallengesRefused, SilentRetirees
  <2> QED
    BY <1>6, <2>1, HistoryKept DEF freshVars, FreshInv
<1> QED
  BY <1>1, <1>2, <1>3, <1>4, <1>5, <1>6, RestartStep DEF FreshNext

\* The inductive invariant behind the two theorems about SEC-015.
THEOREM FreshnessInvariant ==
  ASSUME 0 \notin Restarting
  PROVE  FreshSpec => []FreshInv
BY FreshInitially, FreshStep, PTL DEF FreshSpec

\* A state that two epochs finalise lies before the handoff of the first and not
\* before it; within an epoch two certificates share an honest signer.
LEMMA OneHistory == FreshInv => HistoryNeverForks
<1> SUFFICES ASSUME FreshInv PROVE HistoryNeverForks
  OBVIOUS
<1>1. \A e \in Epochs, s, t \in States : HandedOff(e, s) /\ HandedOff(e, t) => s = t
  BY OneHandedOff
<1>2. ASSUME NEW e \in Epochs, NEW f \in Epochs, NEW s \in States,
             NEW c \in StateDigests, NEW d \in StateDigests,
             Finalised(e, s, c), Finalised(f, s, d), e < f
      PROVE  FALSE
  <2>1. PICK v \in Honest : Transfer(v, f, s, d) \in finals
    <3>1. \E v \in Honest : v \in {u \in Honest : Transfer(u, f, s, d) \in finals}
      BY <1>2, HonestIn DEF Finalised
    <3> QED
      BY <3>1
  <2>2. PICK t \in transfers : t.epoch = f /\ t.from.gen = s.gen
    BY <2>1 DEF FreshInv, FinalsRecorded, Transfer
  <2>3. PICK r \in States : HandedOff(e, r) /\ r.gen <= s.gen
    BY <1>2, <2>2 DEF FreshInv, LineageKept, DescendsFrom
  <2>4. PICK u \in Honest : Mark(u, e, r) \in retired /\ Transfer(u, e, s, c) \in finals
    <3>1. \E u \in Honest : /\ u \in {w \in Honest : Mark(w, e, r) \in retired}
                            /\ u \in {w \in Honest : Transfer(w, e, s, c) \in finals}
      BY <1>2, <2>3, HonestInBoth DEF Finalised, HandedOff
    <3> QED
      BY <3>1
  <2>5. PICK x \in transfers : x.node = u /\ x.epoch = e /\ x.from.gen = s.gen
    BY <2>4 DEF FreshInv, FinalsRecorded, Transfer
  <2>6. s.gen < r.gen
    BY <2>4, <2>5 DEF FreshInv, NodeMoves, Mark
  <2> QED
    BY <2>3, <2>6, EpochAssumption DEF States, EpochAssumption
<1>3. ASSUME NEW e \in Epochs, NEW s \in States, NEW c \in StateDigests, NEW d \in StateDigests,
             Finalised(e, s, c), Finalised(e, s, d)
      PROVE  c = d
  <2>1. \E v \in Honest : /\ v \in {u \in Honest : Transfer(u, e, s, c) \in finals}
                          /\ v \in {u \in Honest : Transfer(u, e, s, d) \in finals}
    BY <1>3, HonestInBoth DEF Finalised
  <2> QED
    BY <2>1 DEF FreshInv, FinalsRecorded, Transfer
<1>4. \A e, f \in Epochs : e < f \/ f < e \/ e = f
  BY DEF Epochs
<1> QED
  BY <1>1, <1>2, <1>3, <1>4 DEF HistoryNeverForks

\* Certificates of SEC-015 never show two histories.
THEOREM HistoriesNeverFork ==
  ASSUME 0 \notin Restarting
  PROVE  FreshSpec => []HistoryNeverForks
BY FreshnessInvariant, OneHistory, PTL

\* After a certified handoff no quorum signs a nonce drawn later.
THEOREM RetiredStatesAreStale ==
  ASSUME 0 \notin Restarting
  PROVE  FreshSpec => []NoStaleFreshness
<1>1. FreshInv => NoStaleFreshness
  <2> SUFFICES ASSUME FreshInv, NEW c \in challenge, c.over, IsQuorum(answered \cup Byzantine)
               PROVE  FALSE
    BY DEF NoStaleFreshness
  <2>1. IsQuorum(SilentRetirees(c) \cup Byzantine)
    BY DEF FreshInv, ChallengesRefused
  <2>2. \E v \in Honest : v \in SilentRetirees(c) /\ v \in answered
    BY <2>1, HonestInBoth
  <2> QED
    BY <2>2 DEF SilentRetirees
<1> QED
  BY <1>1, FreshnessInvariant, PTL

-----------------------------------------------------------------------------
(* SEC-016                                                                 *)

\* A file is cleared before the next secret is written; whoever holds a retired
\* secret, or has acknowledged, has the old one nowhere.
OldSecretGone ==
  \A v \in Honest :
    /\ retiring[v] # {} \/ (\E h \in Retirements : NextSecret(h) \in onDisk[v]) =>
         OldSecret \notin onDisk[v]
    /\ v \in written => retiring[v] # {}
    /\ v \in acked \/ (\E h \in Retirements : NextSecret(h) \in inMemory[v]) =>
         OldSecret \notin inMemory[v] /\ OldSecret \notin onDisk[v]

RatchetInv == RatchetTypeOK /\ OldSecretGone

\* A ratcheted secret is not the old one.
LEMMA SecretsDiffer == \A h : NextSecret(h) # OldSecret
BY DEF NextSecret, OldSecret

\* Every step of a retirement, interrupted or not, keeps the invariant.
LEMMA RatchetStep == RatchetInv /\ [RatchetNext]_ratchetVars => RatchetInv'
<1> SUFFICES ASSUME RatchetInv, [RatchetNext]_ratchetVars PROVE RatchetInv'
  OBVIOUS
<1> USE DEF RatchetInv, RatchetTypeOK, OldSecretGone
<1>0. OldSecret \in KeyStates /\ \A h \in Retirements : NextSecret(h) \in KeyStates
  BY DEF KeyStates
<1>1. ASSUME NEW v \in Honest, NEW h \in Retirements, BeginRetire(v, h) PROVE RatchetInv'
  BY <1>0, <1>1, SecretsDiffer DEF BeginRetire
<1>2. ASSUME NEW v \in Honest, NEW h \in Retirements, RetireAgain(v, h) PROVE RatchetInv'
  BY <1>0, <1>2, SecretsDiffer DEF RetireAgain
<1>3. ASSUME NEW v \in Honest, WriteState(v) PROVE RatchetInv'
  BY <1>0, <1>3, SecretsDiffer DEF WriteState
<1>4. ASSUME NEW v \in Honest, FinishRetire(v) PROVE RatchetInv'
  BY <1>0, <1>4, SecretsDiffer DEF FinishRetire
<1>5. ASSUME NEW v \in Honest, FailRetire(v) PROVE RatchetInv'
  BY <1>0, <1>5, SecretsDiffer DEF FailRetire
<1>6. ASSUME NEW v \in Honest, KillSigner(v) PROVE RatchetInv'
  BY <1>0, <1>6, SecretsDiffer DEF KillSigner
<1>7. ASSUME NEW v \in Honest, StartSigner(v) PROVE RatchetInv'
  BY <1>0, <1>7, SecretsDiffer DEF StartSigner
<1>8. CASE UNCHANGED ratchetVars
  BY <1>8 DEF ratchetVars
<1> QED
  BY <1>1, <1>2, <1>3, <1>4, <1>5, <1>6, <1>7, <1>8 DEF RatchetNext

\* Once a quorum has acknowledged, the old keys that are left make no quorum.
THEOREM RetiredKeysAreUseless == RatchetSpec => []OldKeysMakeNoQuorum
<1>1. RatchetInit => RatchetInv
  BY SecretsDiffer DEF RatchetInit, RatchetInv, RatchetTypeOK, OldSecretGone, KeyStates
<1>2. RatchetInv => OldKeysMakeNoQuorum
  <2> SUFFICES ASSUME RatchetInv, IsQuorum(acked \cup Byzantine), IsQuorum(OldKeyHolders \cup Byzantine)
               PROVE  FALSE
    BY DEF OldKeysMakeNoQuorum
  <2>1. \E v \in Honest : v \in acked /\ v \in OldKeyHolders
    BY HonestInBoth
  <2> QED
    BY <2>1 DEF OldKeyHolders, RatchetInv, OldSecretGone
<1> QED
  BY <1>1, <1>2, RatchetStep, PTL DEF RatchetSpec

-----------------------------------------------------------------------------
(* SEC-017 and SEC-018: the end of a key test                              *)

\* Where the controller waits for its child to exit, the step before the last.
Reap == IF test = "sec017" THEN 13 ELSE 24

\* The child is started once, long before the controller waits for its end.
LEMMA TheSteps ==
  /\ Len(Steps) = Reap + 1 /\ Reap \in {13, 24} /\ Steps[Reap].op = "reap"
  /\ \A n \in 1..Len(Steps) : Steps[n].op = "spawn" => n = 4
<1>1. CASE test = "sec017"
  <2>1. /\ Len(Steps) = 14 /\ Steps[13].op = "reap"
        /\ Steps[1].op # "spawn" /\ Steps[2].op # "spawn" /\ Steps[3].op # "spawn"
        /\ Steps[5].op # "spawn" /\ Steps[6].op # "spawn" /\ Steps[7].op # "spawn"
        /\ Steps[8].op # "spawn" /\ Steps[9].op # "spawn" /\ Steps[10].op # "spawn"
        /\ Steps[11].op # "spawn" /\ Steps[12].op # "spawn" /\ Steps[13].op # "spawn"
        /\ Steps[14].op # "spawn"
    BY <1>1 DEF Steps, Steps017, Do
  <2>2. \A n \in 1..14 : n \in {1, 2, 3, 4, 5, 6, 7, 8, 9, 10, 11, 12, 13, 14}
    OBVIOUS
  <2> QED
    BY <1>1, <2>1, <2>2 DEF Reap
<1>2. CASE test # "sec017"
  <2>1. /\ Len(Steps) = 25 /\ Steps[24].op = "reap"
        /\ Steps[1].op # "spawn" /\ Steps[2].op # "spawn" /\ Steps[3].op # "spawn"
        /\ Steps[5].op # "spawn" /\ Steps[6].op # "spawn" /\ Steps[7].op # "spawn"
        /\ Steps[8].op # "spawn" /\ Steps[9].op # "spawn" /\ Steps[10].op # "spawn"
        /\ Steps[11].op # "spawn" /\ Steps[12].op # "spawn" /\ Steps[13].op # "spawn"
        /\ Steps[14].op # "spawn" /\ Steps[15].op # "spawn" /\ Steps[16].op # "spawn"
        /\ Steps[17].op # "spawn" /\ Steps[18].op # "spawn" /\ Steps[19].op # "spawn"
        /\ Steps[20].op # "spawn" /\ Steps[21].op # "spawn" /\ Steps[22].op # "spawn"
        /\ Steps[23].op # "spawn" /\ Steps[24].op # "spawn" /\ Steps[25].op # "spawn"
    BY <1>2 DEF Steps, Steps018, Do
  <2>2. \A n \in 1..25 : n \in {1, 2, 3, 4, 5, 6, 7, 8, 9, 10, 11, 12, 13, 14, 15, 16, 17, 18,
                                19, 20, 21, 22, 23, 24, 25}
    OBVIOUS
  <2> QED
    BY <1>2, <2>1, <2>2 DEF Reap
<1> QED
  BY <1>1, <1>2

\* What the controller creates are keys.
LEMMA CreatesKeys ==
  ASSUME pc \in 1..Len(Steps), Step.op = "create"
  PROVE  Step.what # "child"
<1>1. CASE test = "sec017"
  <2>1. Len(Steps) = 14 /\ Step = Steps017[pc] BY <1>1 DEF Step, Steps, Steps017
  <2>2. CASE pc \in 1..7 BY <2>1, <2>2 DEF Steps017, Do
  <2>3. CASE pc \in 8..14 BY <2>1, <2>3 DEF Steps017, Do
  <2> QED BY <2>1, <2>2, <2>3
<1>2. CASE test # "sec017"
  <2>1. Len(Steps) = 25 /\ Step = Steps018[pc] BY <1>2 DEF Step, Steps, Steps018
  <2>2. CASE pc \in 1..6 BY <2>1, <2>2 DEF Steps018, Do
  <2>3. CASE pc \in 7..12 BY <2>1, <2>3 DEF Steps018, Do
  <2>4. CASE pc \in 13..18 BY <2>1, <2>4 DEF Steps018, Do
  <2>5. CASE pc \in 19..25 BY <2>1, <2>5 DEF Steps018, Do
  <2> QED BY <2>1, <2>2, <2>3, <2>4, <2>5
<1> QED BY <1>1, <1>2

\* A key under a name that the controller has not flagged would be left to others.
KeysAreFlagged == stored \subseteq created /\ "child" \notin created

\* A controller that has waited for its child's exit, or has given up and ended it, has
\* no child, or one that could be neither killed nor waited for.
NoChildLives ==
  /\ pc \in 1..Len(Steps)
  /\ verdict \in {"failing", "passing", "passed", "failed"} =>
       child \notin {"starting", "up"} \/ "child" \in unclean
  /\ verdict = "running" /\ pc > Reap => child = "ended"

\* What is left after the end is what its cleanup has reported.
LeftIsReported ==
  /\ verdict \in {"running", "ending", "waiting", "passing"} => unclean = {}
  /\ verdict \in {"passed", "failed"} => stored \subseteq unclean
  /\ verdict = "passed" => unclean = {}

KeyInv == KeysAreFlagged /\ NoChildLives /\ LeftIsReported

\* The test begins with no key and no child.
LEMMA KeyInitially == KeyInit => KeyInv
<1> SUFFICES ASSUME KeyInit PROVE KeyInv
  OBVIOUS
<1>1. Len(Steps) = Reap + 1 /\ Reap \in {13, 24}
  BY TheSteps
<1>2. 1 \in 1..Len(Steps)
  BY <1>1
<1> QED
  BY <1>1, <1>2 DEF KeyInit, KeyInv, KeysAreFlagged, NoChildLives, LeftIsReported

\* A step of the controller that succeeds leads past the wait only with the child gone.
LEMMA Advances ==
  ASSUME KeyInv, Advance, verdict = "running", UNCHANGED test,
         Step.op = "reap" => child = "ended",
         child' = child \/ (Step.op = "spawn" /\ child' = "starting")
  PROVE  NoChildLives'
<1>1. /\ Len(Steps) = Reap + 1 /\ Reap \in {13, 24} /\ Steps[Reap].op = "reap"
      /\ \A n \in 1..Len(Steps) : Steps[n].op = "spawn" => n = 4
  BY TheSteps
<1>2. Reap' = Reap /\ Steps' = Steps
  BY DEF Reap, Steps, Steps017, Steps018
<1>3. pc \in 1..Len(Steps) /\ (pc > Reap => child = "ended")
  BY DEF KeyInv, NoChildLives
<1>4. CASE pc = Len(Steps)
  <2>1. child = "ended" /\ child' = child /\ pc' = pc /\ verdict' = "passing"
    BY <1>1, <1>3, <1>4 DEF Advance, Step
  <2> QED
    BY <1>1, <1>2, <1>3, <2>1 DEF NoChildLives
<1>5. CASE pc # Len(Steps)
  <2>1. pc' = pc + 1 /\ verdict' = "running" /\ pc' \in 1..Len(Steps)
    BY <1>1, <1>3, <1>5 DEF Advance
  <2>2. ASSUME pc' > Reap PROVE child' = "ended"
    <3>1. pc = Reap
      BY <1>1, <1>3, <1>5, <2>1, <2>2
    <3> QED
      BY <1>1, <3>1 DEF Step
  <2> QED
    BY <1>2, <2>1, <2>2 DEF NoChildLives
<1> QED
  BY <1>4, <1>5

\* A test that ends at an error has no child either.
LEMMA GivesUp ==
  ASSUME KeyInv, GiveUp, UNCHANGED test
  PROVE  NoChildLives'
<1>1. Steps' = Steps
  BY DEF Steps, Steps017, Steps018
<1> QED
  BY <1>1 DEF KeyInv, NoChildLives, GiveUp

\* The controller's steps up to the end of its test.
LEMMA ControllerStep ==
  ASSUME KeyInv,
         \/ Create \/ CreateFails \/ RollbackFails \/ Spawn \/ WriteDigest \/ LookForFile
         \/ PollChild \/ DeleteNamedKey \/ Examine \/ Continue \/ StepFails
  PROVE  KeyInv'
<1>0. Step.op = "create" => Step.what # "child"
  BY CreatesKeys DEF KeyInv, NoChildLives
<1>1. CASE Create
  <2>1. NoChildLives'
    BY <1>1, Advances DEF Create, Running
  <2>2. KeysAreFlagged' /\ LeftIsReported'
    BY <1>0, <1>1 DEF KeyInv, KeysAreFlagged, LeftIsReported, Create, Running, Advance
  <2> QED
    BY <2>1, <2>2 DEF KeyInv
<1>2. CASE CreateFails
  <2>1. NoChildLives'
    BY <1>2, GivesUp DEF CreateFails
  <2>2. KeysAreFlagged' /\ LeftIsReported'
    BY <1>2 DEF KeyInv, KeysAreFlagged, LeftIsReported, CreateFails, Running, GiveUp
  <2> QED
    BY <2>1, <2>2 DEF KeyInv
<1>3. CASE RollbackFails
  <2>1. NoChildLives'
    BY <1>3, GivesUp DEF RollbackFails
  <2>2. KeysAreFlagged' /\ LeftIsReported'
    BY <1>0, <1>3 DEF KeyInv, KeysAreFlagged, LeftIsReported, RollbackFails, Running, GiveUp
  <2> QED
    BY <2>1, <2>2 DEF KeyInv
<1>4. CASE Spawn
  <2>1. NoChildLives'
    BY <1>4, Advances DEF Spawn, Running
  <2>2. KeysAreFlagged' /\ LeftIsReported'
    BY <1>4 DEF KeyInv, KeysAreFlagged, LeftIsReported, Spawn, Running, Advance
  <2> QED
    BY <2>1, <2>2 DEF KeyInv
<1>5. CASE WriteDigest
  <2>1. NoChildLives'
    BY <1>5, Advances DEF WriteDigest, Running
  <2>2. KeysAreFlagged' /\ LeftIsReported'
    BY <1>5 DEF KeyInv, KeysAreFlagged, LeftIsReported, WriteDigest, Running, Advance
  <2> QED
    BY <2>1, <2>2 DEF KeyInv
<1>6. CASE LookForFile \/ PollChild
  <2>1. /\ verdict = "running" /\ Step.op = "await"
        /\ UNCHANGED <<test, stored, created, child, unclean>>
        /\ Advance \/ GiveUp \/ UNCHANGED <<pc, verdict>>
    BY <1>6 DEF LookForFile, PollChild, Running, GiveUp
  <2>2. NoChildLives'
    <3>1. CASE Advance BY <2>1, <3>1, Advances
    <3>2. CASE GiveUp BY <2>1, <3>2, GivesUp
    <3>3. CASE UNCHANGED <<pc, verdict>>
      <4>1. Steps' = Steps /\ Reap' = Reap
        BY <2>1 DEF Steps, Steps017, Steps018, Reap
      <4> QED BY <2>1, <3>3, <4>1 DEF KeyInv, NoChildLives
    <3> QED BY <2>1, <3>1, <3>2, <3>3
  <2>3. KeysAreFlagged' /\ LeftIsReported'
    BY <2>1 DEF KeyInv, KeysAreFlagged, LeftIsReported, Advance, GiveUp
  <2> QED
    BY <2>2, <2>3 DEF KeyInv
<1>7. CASE DeleteNamedKey
  <2>1. NoChildLives'
    BY <1>7, Advances DEF DeleteNamedKey, Running
  <2>2. KeysAreFlagged' /\ LeftIsReported'
    BY <1>7 DEF KeyInv, KeysAreFlagged, LeftIsReported, DeleteNamedKey, Running, Advance
  <2> QED
    BY <2>1, <2>2 DEF KeyInv
<1>8. CASE Examine
  <2>1. /\ verdict = "running" /\ UNCHANGED <<test, stored, created, unclean>>
        /\ \/ Advance /\ UNCHANGED child /\ (Step.op = "reap" => child = "ended")
           \/ GiveUp
    BY <1>8 DEF Examine
  <2>2. NoChildLives'
    BY <2>1, Advances, GivesUp
  <2>3. KeysAreFlagged' /\ LeftIsReported'
    BY <2>1 DEF KeyInv, KeysAreFlagged, LeftIsReported, Advance, GiveUp
  <2> QED
    BY <2>2, <2>3 DEF KeyInv
<1>9. CASE Continue
  <2>1. NoChildLives'
    BY <1>9, Advances DEF Continue
  <2>2. KeysAreFlagged' /\ LeftIsReported'
    BY <1>9 DEF KeyInv, KeysAreFlagged, LeftIsReported, Continue, Advance
  <2> QED
    BY <2>1, <2>2 DEF KeyInv
<1>10. CASE StepFails
  <2>1. NoChildLives'
    BY <1>10, GivesUp DEF StepFails
  <2>2. KeysAreFlagged' /\ LeftIsReported'
    BY <1>10 DEF KeyInv, KeysAreFlagged, LeftIsReported, StepFails, GiveUp
  <2> QED
    BY <2>1, <2>2 DEF KeyInv
<1> QED
  BY <1>1, <1>2, <1>3, <1>4, <1>5, <1>6, <1>7, <1>8, <1>9, <1>10

\* The child's steps, the end of the controller and the cleanup by hand.
LEMMA OtherStep ==
  ASSUME KeyInv,
         \/ OpenHandle \/ SignHeld \/ ChildFails
         \/ KillChild \/ KillFails \/ WaitReturns \/ WaitFails
         \/ CleanUp \/ ControllerKilled \/ CleanupExact \/ UNCHANGED keyVars
  PROVE  KeyInv'
<1>1. UNCHANGED test
  BY DEF OpenHandle, SignHeld, ChildFails, KillChild, KillFails, WaitReturns, WaitFails, CleanUp,
         ControllerKilled, CleanupExact, keyVars
<1>2. Steps' = Steps /\ Reap' = Reap
  BY <1>1 DEF Steps, Steps017, Steps018, Reap
<1>3. CASE OpenHandle \/ SignHeld \/ ChildFails
  <2>1. child \in {"starting", "up"} /\ UNCHANGED <<pc, stored, created, unclean, verdict>>
    BY <1>3 DEF OpenHandle, SignHeld, ChildFails
  <2> QED
    BY <1>2, <2>1 DEF KeyInv, KeysAreFlagged, NoChildLives, LeftIsReported
<1>4. CASE CleanUp
  BY <1>2, <1>4 DEF CleanUp, KeyInv, KeysAreFlagged, NoChildLives, LeftIsReported
<1>5. CASE ControllerKilled
  BY <1>2, <1>5 DEF ControllerKilled, KeyInv, KeysAreFlagged, NoChildLives, LeftIsReported
<1>6. CASE CleanupExact
  BY <1>2, <1>6 DEF CleanupExact, KeyInv, KeysAreFlagged, NoChildLives, LeftIsReported
<1>7. CASE UNCHANGED keyVars
  BY <1>2, <1>7 DEF keyVars, KeyInv, KeysAreFlagged, NoChildLives, LeftIsReported
<1>8. CASE KillChild \/ KillFails \/ WaitReturns \/ WaitFails
  <2>1. UNCHANGED <<pc, stored, created>>
    BY <1>8 DEF KillChild, KillFails, WaitReturns, WaitFails
  <2>2. \/ /\ verdict = "ending" /\ verdict' = "failing" /\ child' \notin {"starting", "up"}
           /\ UNCHANGED unclean
        \/ verdict = "ending" /\ verdict' = "waiting" /\ UNCHANGED <<child, unclean>>
        \/ /\ verdict = "waiting" /\ verdict' = "failing" /\ child \notin {"starting", "up"}
           /\ UNCHANGED <<child, unclean>>
        \/ /\ verdict = "waiting" /\ verdict' = "failing" /\ UNCHANGED child
           /\ unclean' = unclean \cup {"child"}
    BY <1>8 DEF KillChild, KillFails, WaitReturns, WaitFails
  <2> QED
    BY <1>2, <2>1, <2>2 DEF KeyInv, KeysAreFlagged, NoChildLives, LeftIsReported
<1> QED
  BY <1>3, <1>4, <1>5, <1>6, <1>7, <1>8

\* However many operations of the provider, the disk and the child fail, and whenever:
\* a controller of SEC-017 or SEC-018 that ends on its own leaves no child but one that
\* could be neither killed nor waited for, and no key but those it reports, and in both
\* cases it does not report success.
THEOREM ContainmentCleansUp == KeySpec => []NoKeyIsLeft
<1>1. KeyInv => NoKeyIsLeft
  BY DEF KeyInv, NoChildLives, LeftIsReported, NoKeyIsLeft
<1>2. KeyInv /\ [KeyNext]_keyVars => KeyInv'
  BY ControllerStep, OtherStep DEF KeyNext
<1> QED
  BY <1>1, <1>2, KeyInitially, PTL DEF KeySpec

(* What the tests of SEC-017 and SEC-018 come to.                          *)

\* The step that deletes the old key.
DeletedAt == IF test = "sec017" THEN 8 ELSE 9

TestLabels == IF test = "sec017" THEN {"baseline", "after"} ELSE {"baseline", "after", "relabel"}

\* The steps that write the digest of a label, and that wait for what the child signs.
AskedAt ==
  IF test = "sec017" THEN [baseline |-> 3, after |-> 10]
  ELSE [baseline |-> 5, after |-> 11, relabel |-> 15]
AwaitedAt ==
  IF test = "sec017" THEN [baseline |-> 5, after |-> 11]
  ELSE [baseline |-> 6, after |-> 12, relabel |-> 16]

\* What the child comes to write under a label.
SignedAs(l) ==
  IF revokes /\ l # "baseline" THEN [error |-> "retired"] ELSE [by |-> "old", over |-> Claims[l]]

\* A test in which nothing has failed: the child is where the controller's step says, it
\* answers the labels in their order, each after its digest is written and before the
\* controller goes on, and so the baseline before the deletion and the others after it.
OnTrack ==
  /\ pc \in 1..Len(Steps)
  /\ "old" \in stored <=> pc > 1 /\ pc <= DeletedAt
  /\ child \in {"none", "starting", "up", "ended"}
  /\ child = "none" <=> pc <= 4
  /\ child \in {"none", "starting"} => DOMAIN answers = {}
  /\ child = "ended" <=> DOMAIN answers = TestLabels
  /\ DOMAIN answers \in {{}, {"baseline"}, {"baseline", "after"}, {"baseline", "after", "relabel"}}
  /\ DOMAIN answers \subseteq TestLabels
  /\ \A l \in TestLabels :
       /\ l \in asked <=> pc > AskedAt[l]
       /\ pc > AwaitedAt[l] => l \in DOMAIN answers
       /\ l \in DOMAIN answers => l \in asked /\ answers[l] = SignedAs(l)
  /\ test = "sec018" /\ pc > 13 => ~ revokes

\* The end that the revoked handle brings to SEC-018.
Withdrawn == test = "sec018" /\ revokes /\ pc = 13

\* The answer that has come, with the child's end, after the controller has looked for it.
Overtaken == missed /\ child = "ended" /\ Step.what \in DOMAIN answers

PassInv ==
  /\ test \in {"sec017", "sec018"} /\ failures \in Nat /\ IsFiniteSet(created)
  /\ failures = 0 =>
       /\ verdict \in {"running", "passing", "passed"} \/ Withdrawn \/ Overtaken
       /\ verdict = "running" => OnTrack

\* The scripts, step by step.
LEMMA Script017 ==
  ASSUME test = "sec017", pc \in 1..Len(Steps)
  PROVE  /\ Len(Steps) = 14
         /\ Step.op = "create" => pc = 1 /\ Step.what = "old"
         /\ pc = 1 => Step.op = "create"
         /\ Step.op = "spawn" <=> pc = 4
         /\ Step.op = "delete" => Step.what = "old"
         /\ Step.op = "delete" <=> pc = 8
         /\ Step.op = "ask" => <<pc, Step.what>> \in {<<3, "baseline">>, <<10, "after">>}
         /\ Step.op = "ask" <=> pc \in {3, 10}
         /\ Step.op = "await" => <<pc, Step.what>> \in {<<5, "baseline">>, <<11, "after">>}
         /\ Step.op = "await" <=> pc \in {5, 11}
         /\ Step.op = "raw" => <<pc, Step.what>> \in {<<6, "baseline">>, <<12, "after">>}
         /\ Step.op \notin {"judge", "gone"}
<1>1. Steps = Steps017 /\ Len(Steps) = 14 BY DEF Steps, Steps017
<1>2. pc \in 1..14 BY <1>1
<1>3. Step = Steps017[pc] BY <1>1 DEF Step
<1>4. CASE pc \in 1..7 BY <1>1, <1>3, <1>4 DEF Steps017, Do
<1>5. CASE pc \in 8..14 BY <1>1, <1>3, <1>5 DEF Steps017, Do
<1> QED BY <1>2, <1>4, <1>5

LEMMA Script018 ==
  ASSUME test = "sec018", pc \in 1..Len(Steps)
  PROVE  /\ Len(Steps) = 25
         /\ Step.op = "create" => <<pc, Step.what>> \in {<<1, "old">>, <<2, "active">>}
         /\ pc = 1 => Step.op = "create"
         /\ Step.op = "spawn" <=> pc = 4
         /\ Step.op = "delete" => Step.what = "old"
         /\ Step.op = "delete" <=> pc = 9
         /\ Step.op = "ask" =>
              <<pc, Step.what>> \in {<<5, "baseline">>, <<11, "after">>, <<15, "relabel">>}
         /\ Step.op = "ask" <=> pc \in {5, 11, 15}
         /\ Step.op = "await" =>
              <<pc, Step.what>> \in {<<6, "baseline">>, <<12, "after">>, <<16, "relabel">>}
         /\ Step.op = "await" <=> pc \in {6, 12, 16}
         /\ Step.op = "raw" => <<pc, Step.what>> \in {<<13, "after">>, <<17, "relabel">>}
         /\ pc = 13 => Step.op = "raw"
         /\ Step.op = "judge" =>
              <<pc, Step.what>> \in {<<7, "baseline">>, <<14, "after">>, <<18, "relabel">>,
                <<19, "substitution">>, <<21, "current">>, <<22, "replay">>, <<23, "stale">>}
         /\ Step.op = "gone" => pc > 9 /\ Step.what = "old"
<1>1. Steps = Steps018 /\ Len(Steps) = 25 BY DEF Steps, Steps018
<1>2. pc \in 1..25 BY <1>1
<1>3. Step = Steps018[pc] BY <1>1 DEF Step
<1>4. CASE pc \in 1..6 BY <1>1, <1>3, <1>4 DEF Steps018, Do
<1>5. CASE pc \in 7..12 BY <1>1, <1>3, <1>5 DEF Steps018, Do
<1>6. CASE pc \in 13..18 BY <1>1, <1>3, <1>6 DEF Steps018, Do
<1>7. CASE pc \in 19..25 BY <1>1, <1>3, <1>7 DEF Steps018, Do
<1> QED BY <1>2, <1>4, <1>5, <1>6, <1>7

\* The gate names the first check that fails.
LEMMA FirstRejection ==
  ASSUME NEW view, NEW n, NEW claim, NEW signature, NEW k \in 1..7,
         ~ GateChecks(view, n, claim, signature)[k][2],
         \A m \in 1..7 : m < k => GateChecks(view, n, claim, signature)[m][2]
  PROVE  VerifyShare(view, n, claim, signature) = GateChecks(view, n, claim, signature)[k][1]
<1> DEFINE checks == GateChecks(view, n, claim, signature)
           failed == {j \in DOMAIN checks : ~ checks[j][2]}
<1>1. DOMAIN checks = 1..7 BY DEF GateChecks
<1>2. k \in failed /\ \A m \in failed : k <= m BY <1>1
<1>3. failed \subseteq 1..7 BY <1>1
<1> HIDE DEF checks, failed
<1>4. (CHOOSE j \in failed : \A m \in failed : j <= m) = k
  <2>1. \A j \in failed : (\A m \in failed : j <= m) <=> j = k
    BY <1>2, <1>3
  <2> QED BY <1>2, <2>1
<1> QED BY <1>2, <1>4 DEF checks, failed, VerifyShare

LEMMA Acceptance ==
  ASSUME NEW view, NEW n, NEW claim, NEW signature,
         \A m \in 1..7 : GateChecks(view, n, claim, signature)[m][2]
  PROVE  VerifyShare(view, n, claim, signature) = "accepted"
<1> DEFINE checks == GateChecks(view, n, claim, signature)
           failed == {j \in DOMAIN checks : ~ checks[j][2]}
<1>1. DOMAIN checks = 1..7 BY DEF GateChecks
<1>2. failed = {} BY <1>1
<1> QED BY <1>2 DEF VerifyShare

\* The gate as a sequence of decisions.
LEMMA GateDecides ==
  ASSUME NEW view, NEW n, NEW claim, NEW signature
  PROVE  VerifyShare(view, n, claim, signature) =
           IF claim.generation # view.generation THEN "generation"
           ELSE IF claim.validator_id # view.validator_id THEN "validator"
           ELSE IF claim.key_id # view.key_id THEN "key_id"
           ELSE IF claim.keyset # view.keyset THEN "keyset"
           ELSE IF claim.state_root # view.state_root THEN "state"
           ELSE IF claim.nonce # n THEN "nonce"
           ELSE IF ~ VerifyWithPublic(view.key_id, claim, signature) THEN "signature"
           ELSE "accepted"
<1> DEFINE checks == GateChecks(view, n, claim, signature)
           Passes(m) == checks[m][2]
<1>1. /\ Passes(1) <=> claim.generation = view.generation
      /\ Passes(2) <=> claim.validator_id = view.validator_id
      /\ Passes(3) <=> claim.key_id = view.key_id
      /\ Passes(4) <=> claim.keyset = view.keyset
      /\ Passes(5) <=> claim.state_root = view.state_root
      /\ Passes(6) <=> claim.nonce = n
      /\ Passes(7) <=> VerifyWithPublic(view.key_id, claim, signature)
  BY DEF GateChecks, VerifyWithPublic
<1>2. /\ checks[1][1] = "generation" /\ checks[2][1] = "validator" /\ checks[3][1] = "key_id"
      /\ checks[4][1] = "keyset" /\ checks[5][1] = "state" /\ checks[6][1] = "nonce"
      /\ checks[7][1] = "signature"
  BY DEF GateChecks
<1>3. ASSUME NEW k \in 1..7, ~ Passes(k), \A m \in 1..7 : m < k => Passes(m)
      PROVE  VerifyShare(view, n, claim, signature) = checks[k][1]
  BY <1>3, FirstRejection
<1>4. (\A m \in 1..7 : Passes(m)) => VerifyShare(view, n, claim, signature) = "accepted"
  BY Acceptance
<1> HIDE DEF checks, Passes
<1>5. CASE ~ Passes(1)
  BY <1>1, <1>2, <1>3, <1>5
<1>6. CASE Passes(1) /\ ~ Passes(2)
  BY <1>1, <1>2, <1>3, <1>6
<1>7. CASE Passes(1) /\ Passes(2) /\ ~ Passes(3)
  BY <1>1, <1>2, <1>3, <1>7
<1>8. CASE Passes(1) /\ Passes(2) /\ Passes(3) /\ ~ Passes(4)
  BY <1>1, <1>2, <1>3, <1>8
<1>9. CASE Passes(1) /\ Passes(2) /\ Passes(3) /\ Passes(4) /\ ~ Passes(5)
  BY <1>1, <1>2, <1>3, <1>9
<1>10. CASE Passes(1) /\ Passes(2) /\ Passes(3) /\ Passes(4) /\ Passes(5) /\ ~ Passes(6)
  BY <1>1, <1>2, <1>3, <1>10
<1>11. CASE Passes(1) /\ Passes(2) /\ Passes(3) /\ Passes(4) /\ Passes(5) /\ Passes(6) /\ ~ Passes(7)
  BY <1>1, <1>2, <1>3, <1>11
<1>12. CASE Passes(1) /\ Passes(2) /\ Passes(3) /\ Passes(4) /\ Passes(5) /\ Passes(6) /\ Passes(7)
  BY <1>1, <1>4, <1>12
<1> QED BY <1>5, <1>6, <1>7, <1>8, <1>9, <1>10, <1>11, <1>12

\* With the old key's signatures the gate decides as it is expected to.
LEMMA Decisions ==
  ASSUME NEW what \in {"baseline", "after", "relabel", "substitution", "current", "replay", "stale"},
         what \notin {"current", "replay"} =>
           LET l == IF what \in {"substitution", "stale"} THEN "after" ELSE what IN
             answers[l] = [by |-> "old", over |-> Claims[l]]
  PROVE  Judgement(what) = Expected[what]
<1> DEFINE Claim(g, n) == UnsignedClaim(GenerationView(g), n)
<1>1. /\ Claims.baseline = Claim("old", 1) /\ Claims.after = Claim("old", 2)
      /\ Claims.relabel = Claim("active", 3) /\ Claims.current = Claim("active", 4)
  BY DEF Claims, Old, Active
<1>2. \A g, n : /\ Claim(g, n).generation = g /\ Claim(g, n).key_id = g
                /\ Claim(g, n).validator_id = 1
                /\ Claim(g, n).keyset = <<g, g>> /\ Claim(g, n).state_root = g
                /\ Claim(g, n).nonce = n
  BY DEF UnsignedClaim, GenerationView
<1>3. /\ Old.generation = "old" /\ Old.key_id = "old"
      /\ Old.validator_id = 1 /\ Active.validator_id = 1
      /\ Old.keyset = <<"old", "old">> /\ Old.state_root = "old"
      /\ Active.generation = "active" /\ Active.key_id = "active"
      /\ Active.keyset = <<"active", "active">> /\ Active.state_root = "active"
  BY DEF Old, Active, GenerationView
<1>4. /\ Substitution.generation = "active" /\ Substitution.key_id = "old"
      /\ Substitution.validator_id = 1
  BY DEF Substitution, Claims, Old, Active, UnsignedClaim, GenerationView
<1>5. \A k, claim, by : VerifyWithPublic(k, claim, [by |-> by, over |-> claim]) <=> by = k
  BY DEF VerifyWithPublic
<1>6. SignatureOf("current") = [by |-> "active", over |-> Claims.current]
  BY DEF SignatureOf
<1> HIDE DEF Claim
<1>7. CASE what = "baseline"
  <2>1. SignatureOf("baseline") = [by |-> "old", over |-> Claims.baseline]
    BY <1>7 DEF SignatureOf
  <2>2. VerifyShare(Old, 1, Claims.baseline, SignatureOf("baseline")) = "accepted"
    BY <1>1, <1>2, <1>3, <1>5, <2>1, GateDecides
  <2> QED BY <1>7, <2>2 DEF Judgement, Expected
<1>8. CASE what = "after"
  <2>1. VerifyShare(Active, 2, Claims.after, SignatureOf("after")) = "generation"
    BY <1>1, <1>2, <1>3, GateDecides
  <2> QED BY <1>8, <2>1 DEF Judgement, Expected
<1>9. CASE what = "relabel"
  <2>1. SignatureOf("relabel") = [by |-> "old", over |-> Claims.relabel]
    BY <1>9 DEF SignatureOf
  <2>2. ~ VerifyWithPublic(Active.key_id, Claims.relabel, SignatureOf("relabel"))
    BY <1>3, <1>5, <2>1
  <2>3. VerifyShare(Active, 3, Claims.relabel, SignatureOf("relabel")) = "signature"
    BY <1>1, <1>2, <1>3, <2>2, GateDecides
  <2> QED BY <1>9, <2>3 DEF Judgement, Expected
<1>10. CASE what = "substitution"
  <2>1. VerifyShare(Active, 2, Substitution, SignatureOf("after")) = "key_id"
    BY <1>3, <1>4, GateDecides
  <2> QED BY <1>10, <2>1 DEF Judgement, Expected
<1>11. CASE what = "current"
  <2>1. VerifyShare(Active, 4, Claims.current, SignatureOf("current")) = "accepted"
    BY <1>1, <1>2, <1>3, <1>5, <1>6, GateDecides
  <2> QED BY <1>11, <2>1 DEF Judgement, Expected
<1>12. CASE what = "replay"
  <2>1. VerifyShare(Active, 5, Claims.current, SignatureOf("current")) = "nonce"
    BY <1>1, <1>2, <1>3, GateDecides
  <2> QED BY <1>12, <2>1 DEF Judgement, Expected
<1>13. CASE what = "stale"
  <2>1. SignatureOf("after") = [by |-> "old", over |-> Claims.after]
    BY <1>13 DEF SignatureOf
  <2>2. VerifyShare(Old, 2, Claims.after, SignatureOf("after")) = "accepted"
    BY <1>1, <1>2, <1>3, <1>5, <2>1, GateDecides
  <2> QED BY <1>13, <2>2 DEF Judgement, Expected
<1> QED BY <1>7, <1>8, <1>9, <1>10, <1>11, <1>12, <1>13

\* A step of the controller that does not fail keeps the test on its track.
LEMMA Onward ==
  ASSUME OnTrack, test \in {"sec017", "sec018"}, Advance, verdict' = "running",
         UNCHANGED <<test, revokes, answers>>,
         child' = IF pc = 4 THEN "starting" ELSE child,
         "old" \in stored' <=> pc = 1 \/ (pc # DeletedAt /\ "old" \in stored),
         \A l \in TestLabels : l \in asked' <=> l \in asked \/ pc = AskedAt[l],
         \A l \in TestLabels : pc = AwaitedAt[l] => l \in DOMAIN answers,
         test = "sec018" /\ pc = 13 => ~ revokes
  PROVE  OnTrack'
<1>1. /\ Steps' = Steps /\ DeletedAt' = DeletedAt /\ TestLabels' = TestLabels
      /\ AskedAt' = AskedAt /\ AwaitedAt' = AwaitedAt
      /\ \A l : SignedAs(l)' = SignedAs(l)
  BY DEF Steps, Steps017, Steps018, DeletedAt, TestLabels, AskedAt, AwaitedAt, SignedAs
<1>2. Len(Steps) \in Nat BY DEF Steps, Steps017, Steps018
<1>3. pc \in 1..Len(Steps) /\ pc' = pc + 1 /\ pc' \in 1..Len(Steps)
  BY <1>2 DEF Advance, OnTrack
<1>4. DeletedAt \in 8..9 BY DEF DeletedAt
<1>5. \A l \in TestLabels : AskedAt[l] \in 3..15 /\ AwaitedAt[l] \in 5..16
  BY DEF TestLabels, AskedAt, AwaitedAt
<1>6. "old" \in stored' <=> pc' > 1 /\ pc' <= DeletedAt
  BY <1>3, <1>4 DEF OnTrack
<1>7. /\ child' \in {"none", "starting", "up", "ended"}
      /\ child' = "none" <=> pc' <= 4
      /\ child' \in {"none", "starting"} => DOMAIN answers = {}
      /\ child' = "ended" <=> DOMAIN answers = TestLabels
  <2>1. TestLabels # {} BY DEF TestLabels
  <2> QED BY <1>3, <2>1 DEF OnTrack
<1>8. ASSUME NEW l \in TestLabels
      PROVE  /\ l \in asked' <=> pc' > AskedAt[l]
             /\ pc' > AwaitedAt[l] => l \in DOMAIN answers
             /\ l \in DOMAIN answers => l \in asked' /\ answers[l] = SignedAs(l)
  BY <1>3, <1>5, <1>8 DEF OnTrack
<1>9. test = "sec018" /\ pc' > 13 => ~ revokes BY <1>3 DEF OnTrack
<1> QED BY <1>1, <1>3, <1>6, <1>7, <1>8, <1>9 DEF OnTrack

PassesOn ==
  /\ verdict' \in {"running", "passing"} \/ Withdrawn' \/ Overtaken'
  /\ verdict' = "running" => OnTrack'

\* What each step of a script is, by its place in it.
LEMMA ScriptPlaces ==
  ASSUME OnTrack, test \in {"sec017", "sec018"}
  PROVE  /\ pc = 1 <=> Step.op = "create" /\ Step.what = "old"
         /\ Step.op = "spawn" <=> pc = 4
         /\ Step.op = "delete" => Step.what = "old"
         /\ Step.op = "delete" <=> pc = DeletedAt
         /\ Step.op = "ask" => Step.what \in TestLabels /\ pc = AskedAt[Step.what]
         /\ \A l \in TestLabels : pc = AskedAt[l] => Step.op = "ask" /\ Step.what = l
         /\ Step.op = "await" => Step.what \in TestLabels /\ pc = AwaitedAt[Step.what]
         /\ \A l \in TestLabels : pc = AwaitedAt[l] => Step.op = "await" /\ Step.what = l
         /\ test = "sec018" /\ pc = 13 => Step.op = "raw"
<1>1. pc \in 1..Len(Steps) BY DEF OnTrack
<1>2. CASE test = "sec017"
  <2>1. TestLabels = {"baseline", "after"} /\ DeletedAt = 8
        /\ AskedAt["baseline"] = 3 /\ AskedAt["after"] = 10
        /\ AwaitedAt["baseline"] = 5 /\ AwaitedAt["after"] = 11
    BY <1>2 DEF TestLabels, DeletedAt, AskedAt, AwaitedAt
  <2> QED BY <1>1, <1>2, <2>1, Script017
<1>3. CASE test = "sec018"
  <2>1. TestLabels = {"baseline", "after", "relabel"} /\ DeletedAt = 9
        /\ AskedAt["baseline"] = 5 /\ AskedAt["after"] = 11 /\ AskedAt["relabel"] = 15
        /\ AwaitedAt["baseline"] = 6 /\ AwaitedAt["after"] = 12 /\ AwaitedAt["relabel"] = 16
    BY <1>3 DEF TestLabels, DeletedAt, AskedAt, AwaitedAt
  <2> QED BY <1>1, <1>3, <2>1, Script018
<1> QED BY <1>2, <1>3

\* What the controller examines is as it should be, but for the revoked handle of SEC-018.
LEMMA Examined ==
  ASSUME OnTrack, test \in {"sec017", "sec018"}
  PROVE  /\ Step.op = "raw" /\ ~ (test = "sec018" /\ revokes /\ pc = 13) => RawPasses(Step.what)
         /\ Step.op = "judge" => Judgement(Step.what) = Expected[Step.what]
         /\ Step.op = "gone" => Step.what \notin stored
<1>1. pc \in 1..Len(Steps) BY DEF OnTrack
<1>2. \A l : SignedAs(l) = [by |-> "old", over |-> Claims[l]]
             \/ (revokes /\ l # "baseline" /\ SignedAs(l) = [error |-> "retired"])
  BY DEF SignedAs
<1>3. CASE test = "sec017"
  <2>1. Step.op \notin {"judge", "gone"} BY <1>1, <1>3, Script017
  <2>2. ASSUME Step.op = "raw" PROVE RawPasses(Step.what)
    <3>1. <<pc, Step.what>> \in {<<6, "baseline">>, <<12, "after">>}
      BY <1>1, <1>3, <2>2, Script017
    <3>2. /\ Step.what \in TestLabels /\ pc > AwaitedAt[Step.what]
          /\ Step.what \in {"baseline", "after"}
      BY <1>3, <3>1 DEF TestLabels, AwaitedAt
    <3>3. SignatureOf(Step.what) = SignedAs(Step.what)
      BY <3>2 DEF OnTrack, SignatureOf
    <3> QED BY <1>2, <1>3, <3>2, <3>3 DEF RawPasses, VerifyWithPublic
  <2> QED BY <2>1, <2>2
<1>4. CASE test = "sec018"
  <2>1. TestLabels = {"baseline", "after", "relabel"} /\ DeletedAt = 9
        /\ AwaitedAt["baseline"] = 6 /\ AwaitedAt["after"] = 12 /\ AwaitedAt["relabel"] = 16
    BY <1>4 DEF TestLabels, DeletedAt, AwaitedAt
  <2>2. ASSUME NEW l \in TestLabels, pc > AwaitedAt[l], l = "baseline" \/ ~ revokes
        PROVE  answers[l] = [by |-> "old", over |-> Claims[l]]
    BY <1>2, <2>2 DEF OnTrack, SignedAs
  <2>3. pc > 13 => ~ revokes BY <1>4 DEF OnTrack
  <2>4. ASSUME Step.op = "raw", ~ (revokes /\ pc = 13) PROVE RawPasses(Step.what)
    <3>1. <<pc, Step.what>> \in {<<13, "after">>, <<17, "relabel">>}
      BY <1>1, <1>4, <2>4, Script018
    <3>2. Step.what \in TestLabels /\ pc > AwaitedAt[Step.what] /\ ~ revokes
          /\ Step.what # "current"
      BY <2>1, <2>3, <2>4, <3>1
    <3> QED BY <2>2, <3>2 DEF RawPasses, VerifyWithPublic, SignatureOf
  <2>5. ASSUME Step.op = "judge" PROVE Judgement(Step.what) = Expected[Step.what]
    <3>1. <<pc, Step.what>> \in {<<7, "baseline">>, <<14, "after">>, <<18, "relabel">>,
            <<19, "substitution">>, <<21, "current">>, <<22, "replay">>, <<23, "stale">>}
      BY <1>1, <1>4, <2>5, Script018
    <3>2. Step.what \notin {"current", "replay"} =>
            LET l == IF Step.what \in {"substitution", "stale"} THEN "after" ELSE Step.what IN
              l \in TestLabels /\ pc > AwaitedAt[l] /\ (l = "baseline" \/ ~ revokes)
      BY <2>1, <2>3, <3>1
    <3> QED BY <2>2, <3>1, <3>2, Decisions
  <2>6. ASSUME Step.op = "gone" PROVE Step.what \notin stored
    BY <1>1, <1>4, <2>1, <2>6, Script018 DEF OnTrack
  <2> QED BY <1>4, <2>4, <2>5, <2>6
<1> QED BY <1>3, <1>4

\* The controller's steps in a test in which nothing fails.
LEMMA QuietController ==
  ASSUME OnTrack, test \in {"sec017", "sec018"}, verdict = "running", failures = 0, failures' = 0,
         \/ Create \/ CreateFails \/ RollbackFails \/ Spawn \/ WriteDigest \/ LookForFile
         \/ PollChild \/ DeleteNamedKey \/ Examine \/ Continue \/ StepFails
  PROVE  PassesOn
<1>1. ~ CreateFails /\ ~ RollbackFails /\ ~ StepFails
  BY DEF CreateFails, RollbackFails, StepFails, MayFailOnce
<1>2. ASSUME Advance PROVE verdict' \in {"running", "passing"} BY <1>2 DEF Advance
<1>3. pc \in 1..Len(Steps) BY DEF OnTrack
<1> USE ScriptPlaces
<1>4. CASE Create
  <2>1. OnTrack' \/ verdict' # "running"
    BY <1>4, Onward DEF Create, Running
  <2> QED BY <1>2, <1>4, <2>1 DEF Create, PassesOn
<1>5. CASE Spawn
  <2>1. OnTrack' \/ verdict' # "running"
    BY <1>5, Onward DEF Spawn, Running
  <2> QED BY <1>2, <1>5, <2>1 DEF Spawn, PassesOn
<1>6. CASE WriteDigest
  <2>1. OnTrack' \/ verdict' # "running"
    BY <1>6, Onward DEF WriteDigest, Running
  <2> QED BY <1>2, <1>6, <2>1 DEF WriteDigest, PassesOn
<1>7. CASE LookForFile \/ PollChild
  <2>1. /\ Step.op = "await" /\ Step.what \in TestLabels
        /\ UNCHANGED <<test, revokes, stored, child, asked, answers>>
    BY <1>7 DEF LookForFile, PollChild, Running, GiveUp
  <2>2. CASE Step.what \in DOMAIN answers /\ Advance
    <3>1. OnTrack' \/ verdict' # "running"
      BY <2>1, <2>2, Onward
    <3> QED BY <1>2, <2>2, <3>1 DEF PassesOn
  <2>3. CASE UNCHANGED <<pc, verdict>>
    <3>1. OnTrack'
      BY <2>1, <2>3 DEF OnTrack, Steps, Steps017, Steps018, DeletedAt, TestLabels, AskedAt,
                        AwaitedAt, SignedAs
    <3> QED BY <2>3, <3>1 DEF PassesOn
  <2>4. CASE missed /\ UNCHANGED <<missed, pc>> /\ child \in {"ended", "failed"} /\ GiveUp
    <3>1. child = "ended" /\ Step.what \in DOMAIN answers
      BY <2>1, <2>4 DEF OnTrack
    <3>2. Step' = Step
      BY <2>1, <2>4 DEF Step, Steps, Steps017, Steps018
    <3>3. Overtaken'
      BY <2>1, <2>4, <3>1, <3>2 DEF Overtaken
    <3>4. verdict' # "running"
      BY <2>4 DEF GiveUp
    <3> QED BY <3>3, <3>4 DEF PassesOn
  <2> QED BY <1>7, <2>2, <2>3, <2>4 DEF LookForFile, PollChild, GiveUp
<1>8. CASE DeleteNamedKey
  <2>1. OnTrack' \/ verdict' # "running"
    BY <1>8, Onward DEF DeleteNamedKey, Running
  <2> QED BY <1>2, <1>8, <2>1 DEF DeleteNamedKey, PassesOn
<1>9. CASE Examine
  <2>1. /\ Step.op \in {"raw", "judge", "gone", "look", "reap"}
        /\ Step.op = "reap" => child \in {"ended", "failed"}
        /\ UNCHANGED <<test, revokes, stored, asked, answers>>
    BY <1>9 DEF Examine
  <2>2. CASE test = "sec018" /\ revokes /\ pc = 13
    <3>1. Advance \/ GiveUp BY <1>9 DEF Examine
    <3>2. CASE GiveUp
      BY <2>1, <2>2, <3>2 DEF GiveUp, PassesOn, Withdrawn
    <3>3. CASE Advance
      <4>1. Step.op = "raw" /\ Step.what = "after" /\ ~ RawPasses("after")
        <5>1. Step.op = "raw" /\ Step.what = "after" BY <1>3, <2>2, Script018
        <5>2. "after" \in TestLabels /\ pc > AwaitedAt["after"]
          BY <2>2 DEF TestLabels, AwaitedAt
        <5>3. SignatureOf("after") = [error |-> "retired"]
          BY <2>2, <5>2 DEF OnTrack, SignatureOf, SignedAs
        <5>4. [error |-> "retired"] # [by |-> "old", over |-> Claims["after"]]
          <6>1. DOMAIN [error |-> "retired"] # DOMAIN [by |-> "old", over |-> Claims["after"]]
            OBVIOUS
          <6> QED BY <6>1
        <5> QED BY <2>2, <5>1, <5>3, <5>4 DEF RawPasses, VerifyWithPublic
      <4>2. GiveUp BY <1>9, <4>1 DEF Examine
      <4> QED BY <3>2, <4>2
    <3> QED BY <3>1, <3>2, <3>3
  <2>3. CASE ~ (test = "sec018" /\ revokes /\ pc = 13)
    <3>1. Step.op = "reap" => child = "ended" BY <2>1 DEF OnTrack
    <3>2. Advance /\ UNCHANGED child BY <1>9, <2>1, <2>3, <3>1, Examined DEF Examine
    <3>3. OnTrack' \/ verdict' # "running"
      BY <2>1, <2>3, <3>2, Onward
    <3> QED BY <1>2, <3>2, <3>3 DEF PassesOn
  <2> QED BY <2>2, <2>3
<1>10. CASE Continue
  <2>1. OnTrack' \/ verdict' # "running"
    BY <1>10, Onward DEF Continue
  <2> QED BY <1>2, <1>10, <2>1 DEF Continue, PassesOn
<1> QED BY <1>1, <1>4, <1>5, <1>6, <1>7, <1>8, <1>9, <1>10

\* The child's steps in such a test.
LEMMA QuietChild ==
  ASSUME OnTrack, test \in {"sec017", "sec018"}, verdict = "running", failures = 0, failures' = 0,
         OpenHandle \/ SignHeld \/ ChildFails
  PROVE  OnTrack'
<1>1. ~ ChildFails BY DEF ChildFails, MayFailOnce
<1>2. UNCHANGED <<test, revokes, pc, stored, asked, verdict>>
  BY <1>1 DEF OpenHandle, SignHeld
<1>3. /\ Steps' = Steps /\ DeletedAt' = DeletedAt /\ TestLabels' = TestLabels
      /\ AskedAt' = AskedAt /\ AwaitedAt' = AwaitedAt
      /\ \A l : SignedAs(l)' = SignedAs(l)
  BY <1>2 DEF Steps, Steps017, Steps018, DeletedAt, TestLabels, AskedAt, AwaitedAt, SignedAs
<1>4. CASE OpenHandle
  <2>1. child = "starting" /\ UNCHANGED answers BY <1>4 DEF OpenHandle
  <2>2. "baseline" \in TestLabels /\ AwaitedAt["baseline"] <= 6 /\ DeletedAt >= 8
    BY DEF TestLabels, AwaitedAt, DeletedAt
  <2>3. DOMAIN answers = {} /\ pc \in Int /\ pc > 4 /\ pc <= 6
    <3>1. pc \in 1..Len(Steps) /\ Len(Steps) \in Nat
      BY DEF OnTrack, Steps, Steps017, Steps018
    <3>2. AwaitedAt["baseline"] \in Int BY DEF AwaitedAt
    <3> QED BY <2>1, <2>2, <3>1, <3>2 DEF OnTrack
  <2>4. "old" \in stored BY <2>2, <2>3 DEF OnTrack, DeletedAt
  <2>5. child' = "up" BY <1>4, <2>4 DEF OpenHandle
  <2>6. TestLabels # {} BY <2>2
  <2> QED BY <1>2, <1>3, <2>1, <2>3, <2>5, <2>6 DEF OnTrack
<1>5. CASE SignHeld
  <2>1. child = "up" BY <1>5 DEF SignHeld
  <2>2. PICK n \in DOMAIN Labels :
          /\ DOMAIN answers = {Labels[m] : m \in 1..(n - 1)} /\ Labels[n] \in asked
          /\ answers' = [l \in DOMAIN answers \cup {Labels[n]} |->
                           IF l \in DOMAIN answers THEN answers[l]
                           ELSE IF revokes /\ "old" \notin stored THEN [error |-> "retired"]
                           ELSE [by |-> "old", over |-> Claims[l]]]
          /\ child' = IF n = Len(Labels) THEN "ended" ELSE child
    BY <1>5 DEF SignHeld
  <2> DEFINE new == Labels[n]
  <2>3. /\ n \in 1..Len(Labels) /\ new \in TestLabels /\ new \notin DOMAIN answers
        /\ n = Len(Labels) <=> DOMAIN answers \cup {new} = TestLabels
        /\ DOMAIN answers \cup {new} \subseteq TestLabels
        /\ DOMAIN answers \cup {new} \in
             {{"baseline"}, {"baseline", "after"}, {"baseline", "after", "relabel"}}
    <3>1. CASE test = "sec017"
      <4>1. Len(Labels) = 2 /\ Labels[1] = "baseline" /\ Labels[2] = "after"
            /\ n \in 1..2 /\ TestLabels = {"baseline", "after"}
        BY <3>1 DEF Labels, TestLabels
      <4>2. CASE n = 1
        <5>1. DOMAIN answers = {} BY <2>2, <4>2
        <5> QED BY <4>1, <4>2, <5>1
      <4>3. CASE n = 2
        <5>1. DOMAIN answers = {"baseline"} BY <2>2, <4>1, <4>3
        <5> QED BY <4>1, <4>3, <5>1
      <4> QED BY <4>1, <4>2, <4>3
    <3>2. CASE test = "sec018"
      <4>1. /\ Len(Labels) = 3 /\ Labels[1] = "baseline" /\ Labels[2] = "after"
            /\ Labels[3] = "relabel" /\ n \in 1..3
            /\ TestLabels = {"baseline", "after", "relabel"}
        BY <3>2 DEF Labels, TestLabels
      <4>2. CASE n = 1
        <5>1. DOMAIN answers = {} BY <2>2, <4>2
        <5> QED BY <4>1, <4>2, <5>1
      <4>3. CASE n = 2
        <5>1. DOMAIN answers = {"baseline"} BY <2>2, <4>1, <4>3
        <5> QED BY <4>1, <4>3, <5>1
      <4>4. CASE n = 3
        <5>1. DOMAIN answers = {"baseline", "after"} BY <2>2, <4>1, <4>4
        <5> QED BY <4>1, <4>4, <5>1
      <4> QED BY <4>1, <4>2, <4>3, <4>4
    <3> QED BY <3>1, <3>2
  <2> HIDE DEF new
  <2>4. new \in asked /\ DOMAIN answers' = DOMAIN answers \cup {new}
    BY <2>2 DEF new
  <2>5. \A l \in DOMAIN answers : answers'[l] = answers[l] BY <2>2
  <2>6. answers'[new] = SignedAs(new)
    <3>1. answers'[new] = IF revokes /\ "old" \notin stored THEN [error |-> "retired"]
                          ELSE [by |-> "old", over |-> Claims[new]]
      BY <2>2, <2>3 DEF new
    <3>2. pc \in Int /\ pc > AskedAt[new] /\ ~ (pc > AwaitedAt[new])
      <4>1. pc \in 1..Len(Steps) /\ Len(Steps) \in Nat
        BY DEF OnTrack, Steps, Steps017, Steps018
      <4> QED BY <2>3, <2>4, <4>1 DEF OnTrack
    <3>3. "old" \in stored <=> new = "baseline"
      <4>1. CASE new = "baseline"
        <5>1. AskedAt[new] \in 3..5 /\ AwaitedAt[new] \in 5..6 /\ DeletedAt \in 8..9
          BY <4>1 DEF AskedAt, AwaitedAt, DeletedAt
        <5> QED BY <3>2, <4>1, <5>1 DEF OnTrack
      <4>2. CASE new # "baseline"
        <5>1. AskedAt[new] > DeletedAt /\ AskedAt[new] \in Nat /\ DeletedAt \in Nat
          BY <2>3, <4>2 DEF AskedAt, DeletedAt, TestLabels
        <5> QED BY <3>2, <4>2, <5>1 DEF OnTrack
      <4> QED BY <4>1, <4>2
    <3> QED BY <3>1, <3>3 DEF SignedAs
  <2>7. child' = (IF DOMAIN answers' = TestLabels THEN "ended" ELSE "up")
    BY <2>1, <2>2, <2>3, <2>4
  <2>8. ASSUME NEW l \in TestLabels
        PROVE  /\ pc > AwaitedAt[l] => l \in DOMAIN answers'
               /\ l \in DOMAIN answers' => l \in asked /\ answers'[l] = SignedAs(l)
    BY <2>4, <2>5, <2>6 DEF OnTrack
  <2> QED BY <1>2, <1>3, <2>1, <2>3, <2>4, <2>7, <2>8 DEF OnTrack
<1> QED BY <1>1, <1>4, <1>5

LEMMA PassInit == KeyInit => PassInv
<1> SUFFICES ASSUME KeyInit PROVE PassInv OBVIOUS
<1>1. test \in {"sec017", "sec018"} BY KeyTestsAssumption DEF KeyInit
<1>2. DOMAIN answers = {} BY DEF KeyInit
<1>3. Len(Steps) \in {14, 25} BY DEF Steps, Steps017, Steps018
<1>4. TestLabels # {} /\ TestLabels \subseteq {"baseline", "after", "relabel"} /\ DeletedAt \in Nat
  BY DEF TestLabels, DeletedAt
<1>5. \A l \in TestLabels : AskedAt[l] \in 3..15 /\ AwaitedAt[l] \in 5..16
  BY <1>1 DEF TestLabels, AskedAt, AwaitedAt
<1>6. OnTrack
  <2>1. pc = 1 /\ stored = {} /\ child = "none" /\ asked = {} BY DEF KeyInit
  <2>2. pc \in 1..Len(Steps) BY <1>3, <2>1
  <2>3. ASSUME NEW l \in TestLabels
        PROVE  /\ l \in asked <=> pc > AskedAt[l]
               /\ pc > AwaitedAt[l] => l \in DOMAIN answers
               /\ l \in DOMAIN answers => l \in asked /\ answers[l] = SignedAs(l)
    BY <1>2, <1>5, <2>1
  <2>4. /\ "old" \in stored <=> pc > 1 /\ pc <= DeletedAt
        /\ child = "none" <=> pc <= 4
        /\ child = "ended" <=> DOMAIN answers = TestLabels
        /\ test = "sec018" /\ pc > 13 => ~ revokes
    <3>1. ~ ("old" \in stored) /\ ~ (pc > 1) /\ pc <= 4 /\ ~ (pc > 13) BY <2>1
    <3>2. child # "ended" /\ DOMAIN answers # TestLabels BY <1>2, <1>4, <2>1
    <3> QED BY <2>1, <3>1, <3>2
  <2>5. /\ child \in {"none", "starting", "up", "ended"}
        /\ DOMAIN answers \in {{}, {"baseline"}, {"baseline", "after"}, {"baseline", "after", "relabel"}}
        /\ DOMAIN answers \subseteq TestLabels
    BY <1>2, <1>4, <2>1
  <2> QED BY <1>2, <2>2, <2>3, <2>4, <2>5, Zenon DEF OnTrack
<1> QED BY <1>1, <1>6, FS_EmptySet DEF KeyInit, PassInv

LEMMA PassStep == PassInv /\ [KeyNext]_keyVars => PassInv'
<1> SUFFICES ASSUME PassInv, [KeyNext]_keyVars PROVE PassInv' OBVIOUS
<1>1. test' = test
  BY DEF KeyNext, keyVars, Create, CreateFails, RollbackFails, Spawn, WriteDigest, LookForFile, PollChild,
         DeleteNamedKey, Examine, Continue, StepFails, OpenHandle, SignHeld, ChildFails,
         KillChild, KillFails, WaitReturns, WaitFails, CleanUp, ControllerKilled, CleanupExact
<1>2. test \in {"sec017", "sec018"} /\ failures \in Nat /\ IsFiniteSet(created) BY DEF PassInv
<1>3. IsFiniteSet(created')
  <2>1. created' = created \/ created' = created \cup {Step.what}
    BY DEF KeyNext, keyVars, Create, CreateFails, RollbackFails, Spawn, WriteDigest, LookForFile, PollChild,
           DeleteNamedKey, Examine, Continue, StepFails, OpenHandle, SignHeld, ChildFails,
           KillChild, KillFails, WaitReturns, WaitFails, CleanUp, ControllerKilled, CleanupExact
  <2> QED BY <1>2, <2>1, FS_AddElement
<1>4. CASE \/ Create \/ CreateFails \/ RollbackFails \/ Spawn \/ WriteDigest \/ LookForFile
           \/ PollChild \/ DeleteNamedKey \/ Examine \/ Continue \/ StepFails
  <2>1. verdict = "running" /\ failures' \in {failures, failures + 1, failures + 2}
    BY <1>4 DEF Create, CreateFails, RollbackFails, Spawn, WriteDigest, LookForFile, PollChild,
                DeleteNamedKey, Examine, Continue, StepFails, Running, MayFailOnce
  <2>2. failures' = 0 => failures = 0 /\ PassesOn
    BY <1>2, <1>4, <2>1, QuietController DEF PassInv
  <2> QED BY <1>1, <1>2, <1>3, <2>1, <2>2 DEF PassInv, PassesOn
<1>5. CASE OpenHandle \/ SignHeld \/ ChildFails
  <2>1. /\ failures' \in {failures, failures + 1} /\ child \in {"starting", "up"}
        /\ UNCHANGED <<test, revokes, pc, verdict>>
    BY <1>5 DEF OpenHandle, SignHeld, ChildFails, MayFailOnce
  <2>2. failures' = 0 /\ verdict = "running" => failures = 0 /\ OnTrack'
    BY <1>2, <1>5, <2>1, QuietChild DEF PassInv
  <2> QED BY <1>2, <1>3, <2>1, <2>2 DEF PassInv, Withdrawn, Overtaken
<1>6. CASE CleanUp
  <2>1. PICK stuck \in SUBSET created :
          /\ failures' = failures + Cardinality(stuck)
          /\ verdict' = IF verdict = "passing" /\ stuck = {} THEN "passed" ELSE "failed"
    BY <1>6 DEF CleanUp
  <2>2. /\ IsFiniteSet(stuck) /\ Cardinality(stuck) \in Nat
        /\ Cardinality(stuck) = 0 => stuck = {}
    BY <1>2, FS_Subset, FS_CardinalityType, FS_EmptySet
  <2>3. /\ verdict \in {"passing", "failing"}
        /\ UNCHANGED <<test, revokes, pc, missed, child, answers>>
    BY <1>6 DEF CleanUp
  <2>4. (Withdrawn \/ Overtaken) => (Withdrawn \/ Overtaken)'
    BY <2>3 DEF Withdrawn, Overtaken, Step, Steps, Steps017, Steps018
  <2> QED BY <1>2, <1>3, <2>1, <2>2, <2>3, <2>4 DEF PassInv
<1>7. CASE ControllerKilled
  BY <1>2, <1>3, <1>7 DEF ControllerKilled, MayFailOnce, PassInv
<1>8. CASE CleanupExact
  <2>1. /\ verdict \in {"failed", "killed"}
        /\ UNCHANGED <<test, revokes, pc, missed, child, answers, failures, verdict>>
    BY <1>8 DEF CleanupExact
  <2>2. (Withdrawn \/ Overtaken) => (Withdrawn \/ Overtaken)'
    BY <2>1 DEF Withdrawn, Overtaken, Step, Steps, Steps017, Steps018
  <2> QED BY <1>2, <1>3, <2>1, <2>2 DEF PassInv
<1>9. CASE UNCHANGED keyVars
  BY <1>9 DEF keyVars, PassInv, OnTrack, Withdrawn, Overtaken, Step, Steps, Steps017, Steps018,
              DeletedAt, TestLabels, AskedAt, AwaitedAt, SignedAs
<1>10. CASE KillChild \/ KillFails \/ WaitReturns \/ WaitFails
  <2>1. /\ verdict \in {"ending", "waiting"} /\ verdict' \in {"failing", "waiting"}
        /\ failures' \in {failures, failures + 1}
        /\ UNCHANGED <<test, revokes, pc, missed, answers>>
        /\ child = "ended" => child' = "ended"
    BY <1>10 DEF KillChild, KillFails, WaitReturns, WaitFails, MayFailOnce
  <2>2. (Withdrawn \/ Overtaken) => (Withdrawn \/ Overtaken)'
    BY <2>1 DEF Withdrawn, Overtaken, Step, Steps, Steps017, Steps018
  <2> QED BY <1>2, <1>3, <2>1, <2>2 DEF PassInv
<1> QED BY <1>4, <1>5, <1>6, <1>7, <1>8, <1>9, <1>10 DEF KeyNext

\* However the child and the controller interleave, and for any number of failures that
\* may happen: a test of SEC-017 or SEC-018 in which none has happened comes to the
\* decisions it prints, or, in SEC-018, to the handle its provider has revoked, or it
\* fails at an answer that the child has written and ended after, just when the controller
\* had looked for it.
THEOREM ContainmentIsDecided == KeySpec => []KeyTestPasses
<1>1. PassInv => KeyTestPasses
  BY DEF PassInv, Withdrawn, Overtaken, KeyTestPasses
<1> QED BY <1>1, PassInit, PassStep, PTL DEF KeySpec

-----------------------------------------------------------------------------
(* A book of votes: whoever keeps one by the rules of VoteBook never       *)
(* equivocates.  The lock is what makes the rule about precommits          *)
(* inductive: it sums up all of them.                                      *)

BookInv == TypeOK /\ LockSumsUpPrecommits /\ NoEquivocation

\* An empty book has nothing to contradict.
LEMMA BookInit == Init => BookInv
BY DEF Init, BookInv, TypeOK, LockSumsUpPrecommits, NoEquivocation

\* A vote is only added where the slot is free and the lock agrees, and a
\* precommit takes the lock with it.
LEMMA BookStep ==
  ASSUME Rounds \subseteq Nat, BookInv, [Next]_vars
  PROVE  BookInv'
<1>1. CASE UNCHANGED vars
  BY <1>1 DEF BookInv, TypeOK, LockSumsUpPrecommits, NoEquivocation, vars, SameBallot
<1>2. ASSUME NEW o \in Owners, NEW b \in Ballots, Cast(o, b)
      PROVE  BookInv'
  <2>1. b.phase \in {"prevote", "precommit"} /\ b.round \in Rounds
          /\ b.cell \in Cells /\ b.value \in Values
    BY DEF Ballots
  <2>2. votes'[o] = votes[o] \cup {b}
    BY <1>2 DEF Cast, BookInv, TypeOK
  <2>3. \A p \in Owners : p # o => votes'[p] = votes[p] /\ lock'[p] = lock[p]
    BY <1>2 DEF Cast, BookInv, TypeOK
  <2>4. \A c \in Cells :
           lock'[o][c] = IF b.phase = "precommit" /\ c = b.cell
                           THEN {[round |-> b.round, value |-> b.value]} ELSE lock[o][c]
    BY <1>2, <2>1 DEF Cast, BookInv, TypeOK
  <2>5. TypeOK'
    BY <1>2, <2>1 DEF Cast, BookInv, TypeOK
  <2>6. LockSumsUpPrecommits'
    <3> SUFFICES ASSUME NEW p \in Owners, NEW a \in Ballots,
                        a \in votes'[p], a.phase = "precommit"
                 PROVE  \E l \in lock'[p][a.cell] : l.value = a.value /\ a.round <= l.round
      BY DEF LockSumsUpPrecommits
    <3>1. a.cell \in Cells /\ a.round \in Nat
      BY DEF Ballots
    <3>2. CASE p # o
      BY <2>3, <3>1, <3>2 DEF BookInv, LockSumsUpPrecommits
    <3>3. CASE p = o /\ a = b
      <4>1. lock'[p][a.cell] = {[round |-> b.round, value |-> b.value]}
        BY <2>4, <3>1, <3>3
      <4> QED
        BY <4>1, <3>1, <3>3
    <3>4. CASE p = o /\ a \in votes[o]
      <4>1. PICK l \in lock[o][a.cell] : l.value = a.value /\ a.round <= l.round
        BY <3>4 DEF BookInv, LockSumsUpPrecommits
      <4>2. l.round \in Nat
        <5>1. lock[o][a.cell] \in SUBSET [round : Rounds, value : Values]
          BY <3>1 DEF BookInv, TypeOK
        <5> QED
          BY <4>1, <5>1
      <4>3. CASE b.phase = "precommit" /\ a.cell = b.cell
        <5>1. l.round <= b.round /\ l.value = b.value
          BY <1>2, <4>1, <4>3 DEF Cast
        <5>2. lock'[p][a.cell] = {[round |-> b.round, value |-> b.value]}
          BY <2>4, <3>1, <3>4, <4>3
        <5>3. b.round \in Nat
          BY <2>1
        <5> QED
          BY <3>1, <4>1, <4>2, <5>1, <5>2, <5>3
      <4>4. CASE ~ (b.phase = "precommit" /\ a.cell = b.cell)
        BY <2>4, <3>1, <3>4, <4>1, <4>4
      <4> QED
        BY <4>3, <4>4
    <3> QED
      BY <2>2, <3>2, <3>3, <3>4
  <2>7. NoEquivocation'
    <3>1. \A a \in votes[o] : ~ SameBallot(a, b)
      BY <1>2 DEF Cast
    <3>2. \A a \in votes[o] :
            a.cell = b.cell /\ a.phase = "precommit" => a.value = b.value
      BY <1>2 DEF Cast, BookInv, TypeOK, LockSumsUpPrecommits
    <3> QED
      BY <2>2, <2>3, <3>1, <3>2 DEF BookInv, NoEquivocation, SameBallot
  <2> QED
    BY <2>5, <2>6, <2>7 DEF BookInv
<1> QED
  BY <1>1, <1>2 DEF Next

\* A book never holds two votes for one slot, nor two precommits about a cell
\* for different values (store.rs, persist_vote).
THEOREM BooksNeverEquivocate ==
  ASSUME Rounds \subseteq Nat
  PROVE  Spec => []NoEquivocation
<1>1. Init => BookInv
  BY BookInit
<1>2. BookInv /\ [Next]_vars => BookInv'
  BY BookStep
<1>3. BookInv => NoEquivocation
  BY DEF BookInv
<1> QED
  BY <1>1, <1>2, <1>3, PTL DEF Spec
=============================================================================
