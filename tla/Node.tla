-------------------------------- MODULE Node --------------------------------
(***************************************************************************)
(* The validator node of integration001/src/node.rs together with the      *)
(* voting rules of store.rs and the certificate rules of model.rs.  Every  *)
(* node serves one request at a time: Prevote, Precommit or Apply.  A      *)
(* client may ask any node for anything, in any order, as often as it      *)
(* likes, and may assemble a certificate out of any shares it holds.       *)
(*                                                                         *)
(* Signatures and digests are injective: a share is the record it signs,   *)
(* an intent is the digest of its transaction, and the digest of a prevote *)
(* certificate is that certificate (its round and intent are those of the  *)
(* share that binds it, so only its signer set has to be kept).            *)
(*                                                                         *)
(* Byzantine members sign any share on request (node.rs), so a client can  *)
(* always have all of theirs; only the shares of honest members are state. *)
(* A share that is lost on the way to the client is one the client never   *)
(* uses, and a repeated request that only returns the same share again is  *)
(* a step that changes nothing.  A crash loses nothing here, because votes,*)
(* locks and applied state are what WalStore recovers (see WalStore).      *)
(***************************************************************************)
EXTENDS Committee

CONSTANTS
  Cells,          \* the cells of the ledger: the genesis cells and all outputs
  Genesis,        \* the cells of the initial snapshot
  Intents,        \* transaction intents, authorised or not
  InputOf,        \* the one cell each intent consumes: its conflict key
  OutputsOf,      \* the cells each intent creates, its fee cell included
  Authorized,     \* the intents that pass validate_tx and verify_user_auth
  Rounds,         \* the rounds clients propose in
  MaxCollection,  \* MAX_COLLECTION_LEN: entries a state collection may hold
  MaxQcs          \* bound: prevote certificates of one statement in use

(***************************************************************************)
(* An output identifier is the digest of the creating intent and an index, *)
(* so no two intents create the same cell, none recreates a genesis cell   *)
(* and none creates its own input.                                         *)
(***************************************************************************)
ASSUME NodeAssumption ==
  /\ Genesis \subseteq Cells
  /\ InputOf \in [Intents -> Cells]
  /\ OutputsOf \in [Intents -> SUBSET Cells]
  /\ \A i \in Intents : /\ InputOf[i] \notin OutputsOf[i]
                        /\ Genesis \cap OutputsOf[i] = {}
  /\ \A i, j \in Intents : i # j => OutputsOf[i] \cap OutputsOf[j] = {}
  /\ Authorized \subseteq Intents
  /\ Rounds \subseteq Nat
  /\ MaxCollection \in Nat
  /\ MaxQcs \in Nat

VARIABLES
  votes,    \* votes[v]: the vote records of v's store
  lock,     \* lock[v][c]: the precommit lock of v on cell c, a set of at most one
  live,     \* live[v]: the unspent cells of v's state
  applied,  \* applied[v]: the intents v's state has applied
  shares    \* the signed shares honest members have issued

vars == <<votes, lock, live, applied, shares>>

Phases == {"prevote", "precommit"}

VoteRecord == [phase : Phases, round : Rounds, intent : Intents]
LockRecord == [round : Rounds, intent : Intents]

\* justify is the signer set of the prevote certificate a precommit binds,
\* and empty on a prevote.
Share == [signer : Honest, phase : Phases, round : Rounds, intent : Intents,
          justify : SUBSET Validators]

TypeOK ==
  /\ votes \in [Honest -> SUBSET VoteRecord]
  /\ lock \in [Honest -> [Cells -> SUBSET LockRecord]]
  /\ live \in [Validators -> SUBSET Cells]
  /\ applied \in [Validators -> SUBSET Intents]
  /\ shares \subseteq Share

Init ==
  /\ votes = [v \in Honest |-> {}]
  /\ lock = [v \in Honest |-> [c \in Cells |-> {}]]
  /\ live = [v \in Validators |-> Genesis]
  /\ applied = [v \in Validators |-> {}]
  /\ shares = {}

-----------------------------------------------------------------------------
(* Certificates                                                            *)

\* Mutant: a record of the wrong round.
VoteOfNextRound(p, r, i) == [phase |-> p, round |-> r + 1, intent |-> i]

Vote(p, r, i) == [phase |-> p, round |-> r, intent |-> i]

ShareOf(v, p, r, i, J) ==
  [signer |-> v, phase |-> p, round |-> r, intent |-> i, justify |-> J]

\* Some client can hold v's share of this statement.
Obtainable(v, p, r, i, J) == v \in Byzantine \/ ShareOf(v, p, r, i, J) \in shares

\* S signs a prevote certificate for i in round r.
PrevoteQc(r, i, S) ==
  IsQuorum(S) /\ \A v \in S : Obtainable(v, "prevote", r, i, {})

PrevoteCertified(r) ==
  {i \in Intents : \E S \in SUBSET Validators : PrevoteQc(r, i, S)}

\* The members whose precommits for i in round r bind the certificate of S.
Precommitters(r, i, S) ==
  {v \in Validators : Obtainable(v, "precommit", r, i, S)}

\* The two linked certificates that finalise i in round r can be assembled.
FinalityChain(r, i, S) == PrevoteQc(r, i, S) /\ IsQuorum(Precommitters(r, i, S))

\* The signer sets of a certificate.
Quorums == {S \in SUBSET Validators : IsQuorum(S)}

IsCertified(i) == \E r \in Rounds, S \in Quorums : FinalityChain(r, i, S)

Certified == {i \in Intents : IsCertified(i)}

-----------------------------------------------------------------------------
(* Voting                                                                  *)

\* Mutant: the owner's signature is not checked.
LiveProposal(v, i) == InputOf[i] \in live[v]

\* validate_live_proposal: an authorised intent that spends a live cell.
ValidLiveProposal(v, i) == i \in Authorized /\ InputOf[i] \in live[v]

\* Mutants: votes are keyed by intent and not by the cell they are about, votes of
\* earlier rounds bind.
SameCellSlot(w, p, r, i) == w.phase = p /\ InputOf[w.intent] = InputOf[i]

SameIntentSlot(w, p, r, i) == w.phase = p /\ w.round = r /\ w.intent = i

SameSlot(w, p, r, i) ==
  w.phase = p /\ w.round = r /\ InputOf[w.intent] = InputOf[i]

\* Mutant: a node that is locked cannot vote again in the lock's own round.
RejectsOwnRound(v, p, r, i) ==
  \/ \E l \in lock[v][InputOf[i]] : r <= l.round \/ i # l.intent
  \/ \E w \in votes[v] : SameSlot(w, p, r, i) /\ w.intent # i

DurableVoteRejection(v, p, r, i) ==
  \/ \E l \in lock[v][InputOf[i]] : r < l.round \/ i # l.intent
  \/ \E w \in votes[v] : SameSlot(w, p, r, i) /\ w.intent # i

\* Mutants: a precommit takes no lock, a prevote releases it, a precommit is
\* not recorded.
PersistWithoutLock(v, p, r, i) ==
  /\ ~ \E w \in votes[v] : SameSlot(w, p, r, i) /\ w.intent # i
  /\ votes' = [votes EXCEPT ![v] = @ \cup {Vote(p, r, i)}]
  /\ UNCHANGED lock

PersistAndRelease(v, p, r, i) ==
  /\ ~ \E w \in votes[v] : SameSlot(w, p, r, i) /\ w.intent # i
  /\ votes' = [votes EXCEPT ![v] = @ \cup {Vote(p, r, i)}]
  /\ lock' = [lock EXCEPT ![v][InputOf[i]] =
                {[round |-> r, intent |-> i] : q \in {p} \ {"prevote"}}]

PersistLockOnly(v, p, r, i) ==
  /\ IF p = "prevote"
       THEN votes' = [votes EXCEPT ![v] = @ \cup {Vote(p, r, i)}] /\ UNCHANGED lock
       ELSE lock' = [lock EXCEPT ![v][InputOf[i]] = {[round |-> r, intent |-> i]}]
              /\ UNCHANGED votes

\* persist_vote: an identical vote is already present, a new one must respect
\* the lock, and a new precommit replaces the lock.
PersistVote(v, p, r, i) ==
  \/ /\ Vote(p, r, i) \in votes[v]
     /\ UNCHANGED <<votes, lock>>
  \/ /\ ~ \E w \in votes[v] : SameSlot(w, p, r, i)
     /\ \A l \in lock[v][InputOf[i]] : l.round <= r /\ l.intent = i
     /\ votes' = [votes EXCEPT ![v] = @ \cup {Vote(p, r, i)}]
     /\ lock' = IF p = "precommit"
                  THEN [lock EXCEPT ![v][InputOf[i]] =
                                        {[round |-> r, intent |-> i]}]
                  ELSE lock

\* sign_vote and the reply: the share can from now on be in anyone's hands.
Issue(v, p, r, i, J) == shares' = shares \cup {ShareOf(v, p, r, i, J)}

AcceptsPrevote(v, r, i) ==
  ValidLiveProposal(v, i) /\ ~ DurableVoteRejection(v, "prevote", r, i)

Prevote(v, r, i) ==
  /\ AcceptsPrevote(v, r, i)
  /\ PersistVote(v, "prevote", r, i)
  /\ Issue(v, "prevote", r, i, {})
  /\ UNCHANGED <<live, applied>>

\* The certificates of one statement that precommits bind; MaxQcs bounds them.
Justifications(r, i) ==
  {s.justify : s \in {t \in shares : /\ t.phase = "precommit"
                                     /\ t.round = r /\ t.intent = i}}

\* Mutant: the node's own prevote is not required.
PrecommitWithoutPrevote(v, r, i, S) ==
  /\ ValidLiveProposal(v, i) /\ PrevoteQc(r, i, S)
  /\ ~ DurableVoteRejection(v, "precommit", r, i)
  /\ PersistVote(v, "precommit", r, i)
  /\ Cardinality(Justifications(r, i) \cup {S}) <= MaxQcs
  /\ Issue(v, "precommit", r, i, S)
  /\ UNCHANGED <<live, applied>>

AcceptsPrecommit(v, r, i, S) ==
  /\ ValidLiveProposal(v, i)
  /\ PrevoteQc(r, i, S)
  /\ Vote("prevote", r, i) \in votes[v]
  /\ ~ DurableVoteRejection(v, "precommit", r, i)

Precommit(v, r, i, S) ==
  /\ AcceptsPrecommit(v, r, i, S)
  /\ PersistVote(v, "precommit", r, i)
  /\ Cardinality(Justifications(r, i) \cup {S}) <= MaxQcs
  /\ Issue(v, "precommit", r, i, S)
  /\ UNCHANGED <<live, applied>>

-----------------------------------------------------------------------------
(* Settlement                                                              *)

KnownIds(v) == live[v] \cup {InputOf[i] : i \in applied[v]}

\* Mutants: the finality certificate is not required, the input stays live.
ApplyUncertified(v, i) ==
  /\ i \in Authorized /\ i \notin applied[v] /\ InputOf[i] \in live[v]
  /\ live' = [live EXCEPT ![v] = (@ \ {InputOf[i]}) \cup OutputsOf[i]]
  /\ applied' = [applied EXCEPT ![v] = @ \cup {i}]
  /\ UNCHANGED <<votes, lock, shares>>

ApplyKeepingInput(v, i) ==
  /\ i \in Certified /\ i \notin applied[v] /\ InputOf[i] \in live[v]
  /\ live' = [live EXCEPT ![v] = @ \cup OutputsOf[i]]
  /\ applied' = [applied EXCEPT ![v] = @ \cup {i}]
  /\ UNCHANGED <<votes, lock, shares>>

\* A state that no longer fits its encoding is not stored.
AcceptsApply(v, i) ==
  /\ IsCertified(i)
  /\ i \in Authorized
  /\ i \notin applied[v]
  /\ InputOf[i] \in live[v]
  /\ OutputsOf[i] \cap KnownIds(v) = {}
  /\ Cardinality(KnownIds(v) \cup OutputsOf[i]) <= MaxCollection

\* apply, for an intent not applied yet; an applied one is answered without
\* a state change.
Apply(v, i) ==
  /\ AcceptsApply(v, i)
  /\ live' = [live EXCEPT ![v] = (@ \ {InputOf[i]}) \cup OutputsOf[i]]
  /\ applied' = [applied EXCEPT ![v] = @ \cup {i}]
  /\ UNCHANGED <<votes, lock, shares>>

Next ==
  \/ \E v \in Honest, r \in Rounds, i \in Intents : Prevote(v, r, i)
  \/ \E v \in Honest, r \in Rounds, i \in Intents, S \in SUBSET Validators :
       Precommit(v, r, i, S)
  \/ \E v \in Validators, i \in Intents : Apply(v, i)

Spec == Init /\ [][Next]_vars

-----------------------------------------------------------------------------
(* Properties                                                              *)

Conflicting(i, j) == i # j /\ InputOf[i] = InputOf[j]

\* A share that left an honest node is in that node's durable votes, so a
\* restart cannot make it forget what it signed (node.rs prevote, precommit).
IssuedSharesAreDurable ==
  \A s \in shares : Vote(s.phase, s.round, s.intent) \in votes[s.signer]

\* A precommit lock rests on evidence: the node's own prevote and precommit of
\* that intent in the lock's round, and a prevote certificate for it.
LocksAreJustified ==
  \A v \in Honest, c \in Cells : \A l \in lock[v][c] :
    /\ InputOf[l.intent] = c
    /\ {Vote(p, l.round, l.intent) : p \in Phases} \subseteq votes[v]
    /\ l.intent \in PrevoteCertified(l.round)

\* No two intents that spend the same cell are ever both certified, whatever
\* the rounds, the signer subsets and the Byzantine shares.
AtMostOneCertified == \A i, j \in Certified : ~ Conflicting(i, j)

\* In one round at most one of the intents that spend a cell gets a prevote
\* certificate (in different rounds, opposing ones are possible).
OnePrevoteQcPerRound ==
  \A r \in Rounds : \A i, j \in PrevoteCertified(r) : ~ Conflicting(i, j)

\* Only intents their owner authorised are certified, although the Byzantine
\* members sign any of them.
OnlyAuthorizedCertified == Certified \subseteq Authorized

LockedOn(v, i) == \E l \in lock[v][InputOf[i]] : l.intent = i

\* Once an intent is certified, the members that are not locked on it (and the
\* Byzantine ones) are too few for a conflicting certificate in any later round.
CertifiedStaysLocked ==
  \A i \in Certified :
    ~ IsQuorum(Byzantine \cup {v \in Honest : ~ LockedOn(v, i)})

\* Every node's state is the one its applied intents lead to from genesis: a
\* cell is live iff it was created and not consumed, and none is consumed twice.
LedgerFollowsApplied ==
  \A v \in Validators :
    /\ live[v] = (Genesis \cup UNION {OutputsOf[i] : i \in applied[v]})
                     \ {InputOf[i] : i \in applied[v]}
    /\ \A i, j \in applied[v] : ~ Conflicting(i, j)

\* The states of two nodes may differ in how far they are, but never disagree
\* on the successor of a cell.
NodesNeverFork ==
  \A v, w \in Validators : \A i \in applied[v], j \in applied[w] :
    ~ Conflicting(i, j)

\* No step moves a precommit lock to another intent or to a lower round.
LocksNeverMove ==
  [][\A v \in Honest, c \in Cells : \A l \in lock[v][c] :
        \E m \in lock'[v][c] : m.intent = l.intent /\ m.round >= l.round]_vars

\* The committee as a whole only ever chooses one successor of a cell.
Choice == INSTANCE SuccessorChoice WITH chosen <- Certified

\* A vote record and a lock as VoteBook has them, with the cell they are about.
Ballot(w) ==
  [phase |-> w.phase, round |-> w.round, cell |-> InputOf[w.intent], value |-> w.intent]

BookLock(l) == [round |-> l.round, value |-> l.intent]

Book == INSTANCE VoteBook WITH
  Owners <- Honest, Values <- Intents,
  votes <- [v \in Honest |-> {Ballot(w) : w \in votes[v]}],
  lock <- [v \in Honest |-> [c \in Cells |-> {BookLock(l) : l \in lock[v][c]}]]

\* Every honest node keeps a book of its votes that it only ever adds to, by the
\* rules of VoteBook.
ImplementsVoteBook == Book!Spec

\* The nodes implement the abstract choice of one successor per cell.
ImplementsSuccessorChoice == Choice!Spec
=============================================================================
