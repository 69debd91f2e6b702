----------------------------- MODULE Freshness -----------------------------
(***************************************************************************)
(* The lineage of one coin across committees, sec015/src/main.rs.  Every   *)
(* epoch has a committee of its own.  A node finalises the state it holds  *)
(* to a successor, or retires it and signs its handoff to the next epoch,  *)
(* whose nodes activate a certified handoff.  A client that may have been  *)
(* offline asks an epoch to sign a state together with a nonce of its own: *)
(* only a committee that still holds the state should be able to.          *)
(*                                                                         *)
(* A node serves one request at a time and syncs its store before it       *)
(* signs, so a request is one step and what it has signed is what its      *)
(* store allows; answers may be lost, which is a share nobody uses.        *)
(* Byzantine members sign anything for their epoch.                        *)
(***************************************************************************)
EXTENDS Committee

CONSTANTS
  LastEpoch,    \* bound: epochs are 0..LastEpoch, 0 is the genesis epoch
  MaxGen,       \* bound: generations are 0..MaxGen
  StateDigests,
  GenesisDigest,
  Restarting    \* the epochs whose nodes may crash and restart

ASSUME EpochAssumption ==
  /\ LastEpoch \in Nat /\ MaxGen \in Nat
  /\ GenesisDigest \in StateDigests
  /\ Restarting \subseteq 0..LastEpoch

Epochs == 0..LastEpoch
States == [gen : 0..MaxGen, digest : StateDigests]
Genesis == [gen |-> 0, digest |-> GenesisDigest]

\* Shares and durable records of honest nodes about a state of an epoch.
Marks == [node : Honest, epoch : Epochs, state : States]
Transfers == [node : Honest, epoch : Epochs, from : States, to : StateDigests]

VARIABLES
  active,      \* active[e][v]: the state v holds in epoch e, or none
  transfers,   \* transfer records
  finals,      \* finality shares
  retired,     \* retirement records, each with its handoff share
  activated,   \* activation records, each with its activation share
  challenge,   \* the client's challenge: at most one (epoch, state)
  answered     \* honest nodes that signed the client's nonce

freshVars == <<active, transfers, finals, retired, activated, challenge, answered>>

FreshInit ==
  /\ active = [e \in Epochs |-> [v \in Honest |-> IF e = 0 THEN {Genesis} ELSE {}]]
  /\ transfers = {} /\ finals = {} /\ retired = {} /\ activated = {}
  /\ challenge = {} /\ answered = {}

-----------------------------------------------------------------------------
Mark(v, e, s) == [node |-> v, epoch |-> e, state |-> s]
Transfer(v, e, s, d) == [node |-> v, epoch |-> e, from |-> s, to |-> d]
Successor(s, d) == [gen |-> s.gen + 1, digest |-> d]

SetActive(e, v, S) == active' = [active EXCEPT ![e][v] = S]

\* verify_final_cert and verify_handoff_cert: distinct signers, Byzantine members
\* included.
Finalised(e, s, d) == IsQuorum({v \in Honest : Transfer(v, e, s, d) \in finals} \cup Byzantine)

HandedOff(e, s) == IsQuorum({v \in Honest : Mark(v, e, s) \in retired} \cup Byzantine)

\* Mutant: the node goes on holding the state it has finalised.
FinaliseKeepingState(v, e, s, d) ==
  /\ active[e][v] = {s} /\ s.gen < MaxGen
  /\ \A t \in transfers : t.node = v /\ t.epoch = e /\ t.from.gen = s.gen => t.to = d
  /\ transfers' = transfers \cup {Transfer(v, e, s, d)}
  /\ finals' = finals \cup {Transfer(v, e, s, d)}
  /\ UNCHANGED <<active, retired, activated, challenge, answered>>

\* Store::finalize: the choice of this generation, if there is one, stands.
Finalise(v, e, s, d) ==
  LET chosen == {t \in transfers : t.node = v /\ t.epoch = e /\ t.from.gen = s.gen}
  IN  /\ active[e][v] = {s} /\ s.gen < MaxGen
      /\ \A t \in chosen : t.to = d
      /\ transfers' = transfers \cup IF chosen = {} THEN {Transfer(v, e, s, d)} ELSE {}
      /\ SetActive(e, v, IF chosen = {} THEN {Successor(s, d)} ELSE {s})
      /\ finals' = finals \cup {Transfer(v, e, s, d)}
      /\ UNCHANGED <<retired, activated, challenge, answered>>

\* Mutant: the retired state stays the one the node holds.
RetireKeepingState(v, e, s) ==
  /\ active[e][v] = {s} /\ e < LastEpoch
  /\ retired' = retired \cup {Mark(v, e, s)}
  /\ UNCHANGED <<active, transfers, finals, activated, challenge, answered>>

\* Store::retire, for a handoff to the next epoch.  A record of the state, which
\* only a node that was given it again has, is not written twice.
Retire(v, e, s) ==
  /\ active[e][v] = {s} /\ e < LastEpoch
  /\ retired' = retired \cup {Mark(v, e, s)}
  /\ SetActive(e, v, IF Mark(v, e, s) \in retired THEN {s} ELSE {})
  /\ UNCHANGED <<transfers, finals, activated, challenge, answered>>

\* Store::activate on a certified handoff: once per generation, and only in place
\* of the same state or none.
Activate(v, e, s) ==
  /\ e > 0 /\ HandedOff(e - 1, s)
  /\ \A m \in activated : m.node = v /\ m.epoch = e => m.state.gen # s.gen
  /\ active[e][v] \subseteq {s}
  /\ SetActive(e, v, {s})
  /\ activated' = activated \cup {Mark(v, e, s)}
  /\ UNCHANGED <<transfers, finals, retired, challenge, answered>>

\* A crash and a restart.  Replaying the log gives back what the node held; a node
\* of the genesis epoch that holds nothing is then given the genesis state.
Restart(v, e) ==
  /\ e \in Restarting
  /\ SetActive(e, v, IF e = 0 /\ active[e][v] = {} THEN {Genesis} ELSE active[e][v])
  /\ UNCHANGED <<transfers, finals, retired, activated, challenge, answered>>

-----------------------------------------------------------------------------
\* The client draws its nonce and claims that an epoch holds a state.  "over" notes
\* whether a handoff of that state was certified by then.
Challenge(e, s) ==
  /\ challenge = {}
  /\ challenge' = {[epoch |-> e, state |-> s, over |-> HandedOff(e, s)]}
  /\ UNCHANGED <<active, transfers, finals, retired, activated, answered>>

\* OP_FRESHNESS.
Answer(v, e) ==
  /\ \E c \in challenge : c.epoch = e /\ active[e][v] = {c.state}
  /\ answered' = answered \cup {v}
  /\ UNCHANGED <<active, transfers, finals, retired, activated, challenge>>

FreshNext ==
  \/ \E v \in Honest, e \in Epochs, s \in States :
       \/ \E d \in StateDigests : Finalise(v, e, s, d)
       \/ Retire(v, e, s)
       \/ Activate(v, e, s)
  \/ \E v \in Honest, e \in Epochs : Restart(v, e) \/ Answer(v, e)
  \/ \E e \in Epochs, s \in States : Challenge(e, s)

FreshSpec == FreshInit /\ [][FreshNext]_freshVars

-----------------------------------------------------------------------------
FreshTypeOK ==
  /\ active \in [Epochs -> [Honest -> SUBSET States]]
  /\ transfers \subseteq Transfers /\ finals \subseteq Transfers
  /\ retired \subseteq Marks /\ activated \subseteq Marks
  /\ challenge \subseteq [epoch : Epochs, state : States, over : BOOLEAN]
  /\ answered \subseteq Honest

\* "Honest signers that have durably retired the state during a handoff refuse to
\* answer freshness challenges for that state" (sec015/README.md:17): after a
\* certified handoff no quorum signs a nonce drawn later.
NoStaleFreshness ==
  \A c \in challenge : c.over => ~ IsQuorum(answered \cup Byzantine)

\* Valid certificates never show two histories: over all epochs a state has at most
\* one certified successor, and an epoch hands off at most one state.
HistoryNeverForks ==
  /\ \A e \in Epochs, s, t \in States : HandedOff(e, s) /\ HandedOff(e, t) => s = t
  /\ \A e, f \in Epochs, s \in States : \A c, d \in StateDigests :
       Finalised(e, s, c) /\ Finalised(f, s, d) => c = d
=============================================================================
