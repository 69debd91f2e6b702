---------------------------- MODULE RoundChange ----------------------------
(***************************************************************************)
(* The certifier nodes of SEC-009, SEC-010 and SEC-011: a conflict about   *)
(* one input is voted on in rounds, a prevote is tentative, a precommit    *)
(* answers a prevote certificate and sets a lock that only a certificate   *)
(* of a higher round releases.  The three programs share the messages and  *)
(* differ in what their precommit handlers check; "edition" says which one *)
(* runs.                                                                   *)
(*                                                                         *)
(* The driver of SEC-010 is one thread: it asks node after node, and while *)
(* it works on a round no request of another round is under way, so a      *)
(* request is served in its own round only.  (The nodes keep no current    *)
(* round and would serve a late one.)  After AdvRounds rounds of lost      *)
(* requests and Byzantine leaders the network heals.                       *)
(*                                                                         *)
(* Byzantine members sign anything, so their part of a certificate can     *)
(* always be had; votes recorded but whose answer was lost (the crash      *)
(* windows of SEC-011) are votes nobody uses.  A node that cannot read a   *)
(* request, record a vote or write its answer ends its process.  A restart *)
(* recovers votes and locks in SEC-010 and SEC-011; SEC-009 never restarts *)
(* a node.                                                                 *)
(***************************************************************************)
EXTENDS RoundRules, Integers, Sequences

CONSTANTS
  Editions,   \* the programs that may run: "sec009", "sec010", "sec011"
  Roster,     \* all members in leader order
  AdvRounds,  \* rounds before the network heals
  MaxEnded    \* node processes that are down at once

ASSUME DriverAssumption ==
  AdvRounds \in Nat /\ MaxEnded \in Nat /\ Editions \subseteq {"sec009", "sec010", "sec011"}

VARIABLES
  edition,     \* the program that runs
  offset,      \* leader_offset: where the rotation starts for this input, if it has one
  round,       \* the round the driver works on
  prevotes,    \* the prevote records of honest nodes
  qcs,         \* the prevote certificates assembled so far
  precommits,  \* the precommit records of honest nodes
  lockOn,      \* lockOn[v]: v's lock, a set of at most one [round, digest]
  dead         \* honest nodes whose process has ended with an error

roundVars == <<edition, offset, round, prevotes, qcs, precommits, lockOn, dead>>

VoteRecords == [voter : Honest, round : 0..MaxRound, digest : Digests]

RoundInit ==
  /\ edition \in Editions
  /\ offset \in 0..(Len(Roster) - 1)
  /\ edition = "sec011" => offset = 0
  /\ round = 0
  /\ prevotes = {}
  /\ qcs = {}
  /\ precommits = {}
  /\ lockOn = [v \in Honest |-> {}]
  /\ dead = {}

-----------------------------------------------------------------------------
LeaderOf(r) == Roster[1 + ((offset + r) % Len(Roster))]

\* Rounds in which anything may be proposed: a Byzantine member leads, or the
\* nodes do not look at the proposer at all (SEC-011).
IsOpen(r) == edition = "sec011" \/ LeaderOf(r) \in Byzantine

Healed == round >= AdvRounds

\* An honest leader follows the highest certificate.
MayPropose(r, d) == IsOpen(r) \/ d \in Preferred(qcs, r)

\* While the driver has not healed the network, requests get lost.
InRound(r) == r = round /\ ~ Healed

Vote(v, r, d) == [voter |-> v, round |-> r, digest |-> d]
Qc(r, d) == [round |-> r, digest |-> d]

\* make_qc: votes of distinct signers for one statement.  The Byzantine ones
\* are always there.
Signers(records, r, d) == {v \in Honest : Vote(v, r, d) \in records} \cup Byzantine

\* A node has one slot per round and phase.
SlotFree(records, v, r, d) ==
  \A e \in Digests : Vote(v, r, e) \in records => e = d

\* Mutants: a certificate of any round releases the lock, or none does.
SafeForLockAnyRound(v, r, d) ==
  \A l \in lockOn[v] : l.digest = d \/ \E q \in qcs : q.digest = d

SafeForLockForever(v, r, d) == \A l \in lockOn[v] : l.digest = d

\* proposal_safe_for_lock, with the best justification there is.
SafeForLock(v, r, d) == CanPrevote(lockOn[v], qcs, r, d)

\* What a node that has done its work is left as: if the answer cannot be written its
\* process ends.
OrEnds(v) == {D \in {dead, dead \cup {v}} : Cardinality(D) <= MaxEnded}

TakePrevote(v, r, d) ==
  /\ v \notin dead
  /\ InRound(r) /\ MayPropose(r, d)
  /\ SafeForLock(v, r, d)
  /\ SlotFree(prevotes, v, r, d)
  /\ prevotes' = prevotes \cup {Vote(v, r, d)}
  /\ dead' \in OrEnds(v)
  /\ UNCHANGED <<edition, offset, round, qcs, precommits, lockOn>>

\* collect_qc over prevotes.
AssembleQc(r, d) ==
  /\ InRound(r)
  /\ IsQuorum(Signers(prevotes, r, d))
  /\ qcs' = qcs \cup {Qc(r, d)}
  /\ UNCHANGED <<edition, offset, round, prevotes, precommits, lockOn, dead>>

-----------------------------------------------------------------------------
\* What the editions check before they persist a precommit.
AllowsPrecommit(v, r, d) ==
  CASE edition = "sec009" -> \A l \in lockOn[v] : l.digest = d \/ l.round < r
    [] edition = "sec010" -> /\ Vote(v, r, d) \in prevotes
                             /\ \A l \in lockOn[v] : \/ l.round < r
                                                     \/ l.round = r /\ l.digest = d
    [] OTHER -> TRUE

\* persist_lock of SEC-009 refuses a lower round with an error that run_node
\* passes on, which ends the process; the other two keep the higher lock.
LowersLock(v, r) == \E l \in lockOn[v] : r < l.round

\* Mutants: the lock carries the round to come, or the first one stays.
RelockAhead(v, r, d) == IF LowersLock(v, r) THEN lockOn[v] ELSE {Qc(r + 1, d)}

RelockFirst(v, r, d) == IF lockOn[v] # {} THEN lockOn[v] ELSE {Qc(r, d)}

\* Mutant: the lock is not written.
RelockNever(v, r, d) == lockOn[v]

Relock(v, r, d) == IF LowersLock(v, r) THEN lockOn[v] ELSE {Qc(r, d)}

TakePrecommit(v, r, d) ==
  /\ v \notin dead
  /\ InRound(r)
  /\ Qc(r, d) \in qcs
  /\ SlotFree(precommits, v, r, d)
  /\ AllowsPrecommit(v, r, d)
  /\ IF edition = "sec009" /\ LowersLock(v, r)
       THEN dead' = dead \cup {v} /\ UNCHANGED <<precommits, lockOn>>
       ELSE /\ precommits' = precommits \cup {Vote(v, r, d)}
            /\ lockOn' = [lockOn EXCEPT ![v] = Relock(v, r, d)]
            /\ dead' \in OrEnds(v)
  /\ UNCHANGED <<edition, offset, round, prevotes, qcs>>

\* A request cannot be read, or its vote not be recorded.
NodeEnds(v) ==
  /\ v \notin dead /\ ~ Healed
  /\ Cardinality(dead) < MaxEnded
  /\ dead' = dead \cup {v}
  /\ UNCHANGED <<edition, offset, round, prevotes, qcs, precommits, lockOn>>

\* crash_restart, restart: the votes and the lock are read back from the log.
RestartNode(v) ==
  /\ edition # "sec009" /\ v \in dead /\ ~ Healed
  /\ dead' = dead \ {v}
  /\ UNCHANGED <<edition, offset, round, prevotes, qcs, precommits, lockOn>>

-----------------------------------------------------------------------------
\* The driver gives a round up, at any point of it.
ChangeRound ==
  /\ ~ Healed /\ round < MaxRound
  /\ round' = round + 1
  /\ UNCHANGED <<edition, offset, prevotes, qcs, precommits, lockOn, dead>>

\* A precommit certificate can be assembled.
IsFinal(r, d) == IsQuorum(Signers(precommits, r, d))

\* The loop after healing, in which no request and no answer is lost and which ends with
\* the first digest it makes final.
HealsOn ==
  /\ Healed /\ round < MaxRound
  /\ \A r \in AdvRounds..MaxRound, d \in Digests : ~ IsFinal(r, d)

\* It skips the rounds of Byzantine leaders, ...
SkipSilentLeader ==
  /\ HealsOn /\ LeaderOf(round) \in Byzantine
  /\ round' = round + 1
  /\ UNCHANGED <<edition, offset, prevotes, qcs, precommits, lockOn, dead>>

\* ... and otherwise asks all honest nodes for both votes: those that may prevote
\* do, and if they reach a quorum all precommit, in SEC-010 those that prevoted.
HealRound(d) ==
  LET able == {v \in Honest \ dead : SafeForLock(v, round, d)}
      asked == IF ~ IsQuorum(able) THEN {}
               ELSE IF edition = "sec010" THEN able ELSE Honest \ dead
  IN  /\ HealsOn /\ LeaderOf(round) \notin Byzantine
      /\ d \in Preferred(qcs, round)
      /\ round' = round + 1
      /\ prevotes' = prevotes \cup {Vote(v, round, d) : v \in able}
      /\ qcs' = IF IsQuorum(able) THEN qcs \cup {Qc(round, d)} ELSE qcs
      /\ precommits' = precommits \cup {Vote(v, round, d) : v \in asked}
      /\ lockOn' = [v \in Honest |-> IF v \in asked THEN {Qc(round, d)} ELSE lockOn[v]]
      /\ UNCHANGED <<edition, offset, dead>>

\* The driver's way from round to round once the network is healed.
HealedRound == SkipSilentLeader \/ \E d \in Digests : HealRound(d)

RoundNext ==
  \/ \E v \in Honest, r \in 0..MaxRound, d \in Digests :
       TakePrevote(v, r, d) \/ TakePrecommit(v, r, d)
  \/ \E r \in 0..MaxRound, d \in Digests : AssembleQc(r, d)
  \/ \E v \in Honest : NodeEnds(v) \/ RestartNode(v)
  \/ ChangeRound
  \/ HealedRound

RoundSafeSpec == RoundInit /\ [][RoundNext]_roundVars

\* A restart that fails ends the driver, and so do a request of SEC-009 and a
\* certificate of SEC-011 that do: nothing is promised of the rounds before healing.
\* After it the driver's one thread gets through every round.
RoundSpec == RoundSafeSpec /\ WF_roundVars(HealedRound)

-----------------------------------------------------------------------------
RoundTypeOK ==
  /\ edition \in Editions /\ offset \in Nat /\ round \in 0..MaxRound
  /\ prevotes \subseteq VoteRecords /\ precommits \subseteq VoteRecords
  /\ qcs \subseteq Certificates
  /\ lockOn \in [Honest -> SUBSET Certificates]
  /\ dead \subseteq Honest

\* What add_final asserts ("DUAL FINALITY", sec010/src/main.rs:191): no two
\* conflicting precommit certificates, of whatever rounds.
NoDualFinality ==
  \A r, s \in 0..MaxRound : \A d, e \in Digests :
    IsFinal(r, d) /\ IsFinal(s, e) => d = e

\* What the post-finality attack of SEC-010 looks for (sec010/src/main.rs:217):
\* no conflicting prevote certificate of a later round than a final one.
FinalityIsNotOvertaken ==
  \A r, s \in 0..MaxRound : \A d, e \in Digests :
    IsFinal(r, d) /\ r < s /\ IsQuorum(Signers(prevotes, s, e)) => d = e

\* Once the network is healed, honest nodes alone finalise, whatever the rounds before
\* left behind, if the processes that are still there are enough for it: the
\* "permanent deadlock" (sec010/src/main.rs:216) does not happen.
ConflictsFinalize ==
  Healed /\ IsQuorum(Honest \ dead) ~>
    \E r \in 0..MaxRound, d \in Digests :
      IsQuorum({v \in Honest : Vote(v, r, d) \in precommits})

\* The rounds that are over, seen as steps of the model of SEC-012: what it
\* assumes of a round is what the nodes do under a driver in lock step.
Past(records) == {p \in records : p.round < round}

LastOf(v) ==
  LET mine == {p \in Past(precommits) : p.voter = v}
  IN  {Qc(p.round, p.digest) : p \in {q \in mine : \A o \in mine : o.round <= q.round}}

Model == INSTANCE RoundModel WITH
  mRound <- round,
  mLocks <- [v \in Honest |-> LastOf(v)],
  mQcs   <- Past(qcs),
  mFinal <- {d \in Digests : \E r \in 0..(round - 1) : IsFinal(r, d)},
  mOpen  <- {r \in 0..MaxRound : IsOpen(r)}

ImplementsRoundModel == Model!ModelSpec
=============================================================================
