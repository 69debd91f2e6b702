----------------------------- MODULE RoundRules -----------------------------
(***************************************************************************)
(* What the round-change experiments SEC-009 to SEC-012 share: candidates, *)
(* certificates of a round, the lock rule and the choice of an honest      *)
(* leader.  A lock is a set of at most one certificate.                    *)
(***************************************************************************)
EXTENDS Committee

CONSTANTS
  Digests,    \* the conflicting successors: Digest::A and Digest::B
  Canonical,  \* the candidate an honest leader proposes without certificate
  MaxRound    \* bound: the rounds 0..MaxRound are run

ASSUME RoundAssumption == Canonical \in Digests /\ MaxRound \in Nat

Certificates == [round : 0..MaxRound, digest : Digests]

\* highest_qc_any: no certificate of a lower round stands above a higher one.
Highest(certs) == {q \in certs : \A p \in certs : p.round <= q.round}

\* preferred_digest: what the highest certificate before a round names.
Preferred(certs, round) ==
  LET before == {q \in certs : q.round < round}
  IN  IF before = {} THEN {Canonical} ELSE {q.digest : q \in Highest(before)}

\* can_prevote, with justify the certificates of this digest before the round.
CanPrevote(locked, certs, round, digest) ==
  \A l \in locked :
    \/ l.digest = digest
    \/ \E q \in certs : q.digest = digest /\ l.round < q.round /\ q.round < round
=============================================================================
