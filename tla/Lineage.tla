------------------------------ MODULE Lineage ------------------------------
(***************************************************************************)
(* The lineage of one coin across committees as sec014/src/main.rs keeps   *)
(* it.  Here a node signs a successor of the state it holds, moves to it   *)
(* when it is shown the finality certificate, and signs the handoff of the *)
(* state it holds to the next epoch, whose nodes activate a certified      *)
(* handoff.  Once it has signed the handoff it signs no successor of that  *)
(* generation.                                                             *)
(*                                                                         *)
(* A node serves one request at a time and syncs its store before it       *)
(* signs, so its records are its shares, and what it holds and has signed  *)
(* survives a restart (the genesis state is given once).  Byzantine        *)
(* members sign anything for their epoch.                                  *)
(***************************************************************************)
EXTENDS Committee

CONSTANTS
  LastLineageEpoch,  \* bound: epochs are 0..LastLineageEpoch
  MaxLineageGen,     \* bound: generations are 0..MaxLineageGen
  LineageDigests,
  GenesisLineage     \* the digest of the genesis state

ASSUME LineageAssumption ==
  /\ LastLineageEpoch \in Nat /\ MaxLineageGen \in Nat
  /\ GenesisLineage \in LineageDigests

VARIABLES
  holds,       \* holds[e][v]: the state v takes as current in epoch e, or none
  transferred, \* transfer records and finality shares of honest nodes
  handedOff,   \* retirement records and handoff shares of honest nodes
  installed    \* activation records and shares of honest nodes

lineageVars == <<holds, transferred, handedOff, installed>>

LineageEpochs == 0..LastLineageEpoch
StateRefs == [gen : 0..MaxLineageGen, digest : LineageDigests]
GenesisState == [gen |-> 0, digest |-> GenesisLineage]
HandoffRecords == [node : Honest, epoch : LineageEpochs, state : StateRefs]
TransferRecords ==
  [node : Honest, epoch : LineageEpochs, input : StateRefs, successor : LineageDigests]

LineageInit ==
  /\ holds = [e \in LineageEpochs |-> [v \in Honest |-> IF e = 0 THEN {GenesisState} ELSE {}]]
  /\ transferred = {} /\ handedOff = {} /\ installed = {}

-----------------------------------------------------------------------------
TransferOf(v, e, s, d) == [node |-> v, epoch |-> e, input |-> s, successor |-> d]
HandoffOf(v, e, s) == [node |-> v, epoch |-> e, state |-> s]
NextState(s, d) == [gen |-> s.gen + 1, digest |-> d]

\* verify_final_cert, verify_handoff_cert.
FinalityCertified(e, s, d) ==
  IsQuorum({v \in Honest : TransferOf(v, e, s, d) \in transferred} \cup Byzantine)

HandoffCertified(e, s) ==
  IsQuorum({v \in Honest : HandoffOf(v, e, s) \in handedOff} \cup Byzantine)

\* The records of one node, epoch and generation.
TransfersAt(v, e, g) == {t \in transferred : t.node = v /\ t.epoch = e /\ t.input.gen = g}
HandoffsAt(v, e, g) == {h \in handedOff : h.node = v /\ h.epoch = e /\ h.state.gen = g}
InstalledAt(v, e, g) == {h \in installed : h.node = v /\ h.epoch = e /\ h.state.gen = g}

\* Mutant: the choice recorded before is not looked at.
RecordTransferTwice(v, e, s, d) ==
  /\ holds[e][v] = {s} /\ s.gen < MaxLineageGen
  /\ HandoffsAt(v, e, s.gen) = {}
  /\ transferred' = transferred \cup {TransferOf(v, e, s, d)}
  /\ UNCHANGED <<holds, handedOff, installed>>

\* Store::record_transfer, OP_FINALIZE.
RecordTransfer(v, e, s, d) ==
  /\ holds[e][v] = {s} /\ s.gen < MaxLineageGen
  /\ HandoffsAt(v, e, s.gen) = {}
  /\ \A t \in TransfersAt(v, e, s.gen) : t.successor = d
  /\ transferred' = transferred \cup {TransferOf(v, e, s, d)}
  /\ UNCHANGED <<holds, handedOff, installed>>

\* Store::commit, OP_COMMIT: whatever the node itself signed, and retired or not.
Commit(v, e, s, d) ==
  /\ holds[e][v] = {s} /\ s.gen < MaxLineageGen
  /\ FinalityCertified(e, s, d)
  /\ holds' = [holds EXCEPT ![e][v] = {NextState(s, d)}]
  /\ UNCHANGED <<transferred, handedOff, installed>>

\* Store::record_handoff, OP_HANDOFF: a transfer signed before does not matter.
RecordHandoff(v, e, s) ==
  /\ holds[e][v] = {s} /\ e < LastLineageEpoch
  /\ \A h \in HandoffsAt(v, e, s.gen) : h.state = s
  /\ handedOff' = handedOff \cup {HandoffOf(v, e, s)}
  /\ UNCHANGED <<holds, transferred, installed>>

\* Store::activate, OP_ACTIVATE.
ActivateState(v, e, s) ==
  /\ e > 0 /\ HandoffCertified(e - 1, s)
  /\ InstalledAt(v, e, s.gen) = {}
  /\ holds[e][v] \subseteq {s}
  /\ installed' = installed \cup {HandoffOf(v, e, s)}
  /\ holds' = [holds EXCEPT ![e][v] = {s}]
  /\ UNCHANGED <<transferred, handedOff>>

LineageNext ==
  \E v \in Honest, e \in LineageEpochs, s \in StateRefs :
    \/ \E d \in LineageDigests : RecordTransfer(v, e, s, d) \/ Commit(v, e, s, d)
    \/ RecordHandoff(v, e, s)
    \/ ActivateState(v, e, s)

LineageSpec == LineageInit /\ [][LineageNext]_lineageVars

-----------------------------------------------------------------------------
LineageTypeOK ==
  /\ holds \in [LineageEpochs -> [Honest -> SUBSET StateRefs]]
  /\ \A e \in LineageEpochs, v \in Honest : Cardinality(holds[e][v]) <= 1
  /\ transferred \subseteq TransferRecords
  /\ handedOff \subseteq HandoffRecords
  /\ installed \subseteq HandoffRecords

\* Within one epoch a state never has two certified successors.
EpochNeverForks ==
  \A e \in LineageEpochs, s \in StateRefs : \A c, d \in LineageDigests :
    FinalityCertified(e, s, c) /\ FinalityCertified(e, s, d) => c = d

\* "OLD COMMITTEE POST-HANDOFF SUCCESSOR FENCING" (sec014/src/main.rs:200): once
\* the handoff of a state is certified, its old committee finalises no successor.
HandoffFences ==
  [][\A e \in LineageEpochs, s \in StateRefs, d \in LineageDigests :
       HandoffCertified(e, s) /\ FinalityCertified(e, s, d)' => FinalityCertified(e, s, d)]_lineageVars
=============================================================================
