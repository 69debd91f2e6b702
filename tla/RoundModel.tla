----------------------------- MODULE RoundModel -----------------------------
(***************************************************************************)
(* The bounded model of sec012/src/main.rs: one step is a whole round of   *)
(* the round change about one input.  A round either fails or certifies    *)
(* one candidate, whose certificate reaches any subset of the honest       *)
(* members before the next round begins.  The modules that model the node  *)
(* programs of SEC-009 to SEC-011 are shown to implement it when a driver  *)
(* leaves nothing of a round behind (RoundChange).                         *)
(***************************************************************************)
EXTENDS RoundRules

VARIABLES
  mRound,  \* the next round to expand
  mLocks,  \* locks[h]: a set of at most one [round, digest]
  mQcs,    \* prevote_qc_mask: the certificates that exist
  mFinal,  \* finality: the digests with a precommit certificate
  mOpen    \* the rounds whose leader may propose any candidate

modelVars == <<mRound, mLocks, mQcs, mFinal, mOpen>>

MayVote(round, digest) ==
  {v \in Honest : CanPrevote(mLocks[v], mQcs, round, digest)}

\* Candidates of a round: both for a Byzantine leader, else the preferred one.
Candidates(round) ==
  IF round \in mOpen THEN Digests ELSE Preferred(mQcs, round)

ModelInit ==
  /\ mRound = 0
  /\ mLocks = [v \in Honest |-> {}]
  /\ mQcs = {}
  /\ mFinal = {}
  /\ mOpen \in SUBSET (0..MaxRound)

\* The branch of expand_round in which no certificate forms.
NoQc ==
  /\ mRound <= MaxRound
  /\ mRound' = mRound + 1
  /\ UNCHANGED <<mLocks, mQcs, mFinal, mOpen>>

\* The other branches: a certificate that enough members may help to form is
\* delivered to D, which may or must make the digest final.
Certify(digest, D) ==
  /\ mRound <= MaxRound
  /\ digest \in Candidates(mRound)
  /\ IsQuorum(MayVote(mRound, digest) \cup Byzantine)
  /\ mRound' = mRound + 1
  /\ mQcs' = mQcs \cup {[round |-> mRound, digest |-> digest]}
  /\ mLocks' = [v \in Honest |-> IF v \in D
                  THEN {[round |-> mRound, digest |-> digest]} ELSE mLocks[v]]
  /\ \/ ~ IsQuorum(D) /\ mFinal' = mFinal
     \/ IsQuorum(D \cup Byzantine) /\ mFinal' = mFinal \cup {digest}
  /\ UNCHANGED mOpen

ExpandRound ==
  \/ NoQc
  \/ \E digest \in Digests, D \in SUBSET Honest : Certify(digest, D)

ModelSpec == ModelInit /\ [][ExpandRound]_modelVars
=============================================================================
