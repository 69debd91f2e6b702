------------------------------ MODULE Ratchet ------------------------------
(***************************************************************************)
(* The retired-key ratchet of sec016/src/main.rs.  A signer keeps one      *)
(* secret in memory and in a file.  To retire it derives the next secret   *)
(* from the old one by a one-way hash, overwrites the file, syncs it and   *)
(* only then acknowledges.  The file is truncated before it is written, so *)
(* a crash or an I/O error between leaves a file that cannot be read, and  *)
(* a signer without a readable file does not start again.                  *)
(*                                                                         *)
(* A killed process leaves what it wrote.  Byzantine members keep their    *)
(* old secrets, and whoever reads a file learns the secret in it; copies   *)
(* taken before a signer retired are outside of what the program claims.   *)
(***************************************************************************)
EXTENDS Committee

CONSTANT Retirements  \* the handoffs a signer may be retired under

VARIABLES
  inMemory,  \* inMemory[v]: the state of v's process, empty if it is not running
  onDisk,    \* onDisk[v]: the state in v's file, empty if it cannot be read
  retiring,  \* retiring[v]: the handoff whose state v is writing, if any
  written,   \* signers whose next state has been written and synced
  acked      \* signers that have acknowledged a retirement

ratchetVars == <<inMemory, onDisk, retiring, written, acked>>

\* The secret of generation 0, and the one ratcheted under a handoff.
OldSecret == [stage |-> "active"]
NextSecret(h) == [stage |-> "retired", handoff |-> h]
KeyStates == {OldSecret} \cup {NextSecret(h) : h \in Retirements}

RatchetInit ==
  /\ inMemory = [v \in Honest |-> {OldSecret}]
  /\ onDisk = [v \in Honest |-> {OldSecret}]
  /\ retiring = [v \in Honest |-> {}]
  /\ written = {} /\ acked = {}

-----------------------------------------------------------------------------
\* retire_state under the handoff it is retired under already.
RetireAgain(v, h) ==
  /\ inMemory[v] = {NextSecret(h)}
  /\ acked' = acked \cup {v}
  /\ UNCHANGED <<inMemory, onDisk, retiring, written>>

\* Mutant: the retirement is acknowledged before the file is written.
BeginRetireAcking(v, h) ==
  /\ inMemory[v] = {OldSecret} /\ retiring[v] = {}
  /\ retiring' = [retiring EXCEPT ![v] = {h}]
  /\ onDisk' = [onDisk EXCEPT ![v] = {}]
  /\ acked' = acked \cup {v}
  /\ UNCHANGED <<inMemory, written>>

\* retire_state and the truncating open of write_state.
BeginRetire(v, h) ==
  /\ inMemory[v] = {OldSecret} /\ retiring[v] = {}
  /\ retiring' = [retiring EXCEPT ![v] = {h}]
  /\ onDisk' = [onDisk EXCEPT ![v] = {}]
  /\ UNCHANGED <<inMemory, written, acked>>

\* write_all and sync_all.
WriteState(v) ==
  /\ retiring[v] # {} /\ v \notin written
  /\ onDisk' = [onDisk EXCEPT ![v] = {NextSecret(h) : h \in retiring[v]}]
  /\ written' = written \cup {v}
  /\ UNCHANGED <<inMemory, retiring, acked>>

\* The process takes the new state over and answers.
FinishRetire(v) ==
  /\ v \in written
  /\ inMemory' = [inMemory EXCEPT ![v] = {NextSecret(h) : h \in retiring[v]}]
  /\ retiring' = [retiring EXCEPT ![v] = {}]
  /\ written' = written \ {v}
  /\ acked' = acked \cup {v}
  /\ UNCHANGED onDisk

\* An I/O error of write_state: the process goes on with the old state, whatever
\* the file holds by now.
FailRetire(v) ==
  /\ retiring[v] # {}
  /\ retiring' = [retiring EXCEPT ![v] = {}]
  /\ written' = written \ {v}
  /\ UNCHANGED <<inMemory, onDisk, acked>>

KillSigner(v) ==
  /\ inMemory[v] # {}
  /\ inMemory' = [inMemory EXCEPT ![v] = {}]
  /\ retiring' = [retiring EXCEPT ![v] = {}]
  /\ written' = written \ {v}
  /\ UNCHANGED <<onDisk, acked>>

\* load_or_create_state: the file exists, and a torn one is an error.
StartSigner(v) ==
  /\ inMemory[v] = {} /\ onDisk[v] # {}
  /\ inMemory' = [inMemory EXCEPT ![v] = onDisk[v]]
  /\ UNCHANGED <<onDisk, retiring, written, acked>>

RatchetNext ==
  \E v \in Honest :
    \/ \E h \in Retirements : BeginRetire(v, h) \/ RetireAgain(v, h)
    \/ WriteState(v) \/ FinishRetire(v) \/ FailRetire(v)
    \/ KillSigner(v) \/ StartSigner(v)

RatchetSpec == RatchetInit /\ [][RatchetNext]_ratchetVars

-----------------------------------------------------------------------------
RatchetTypeOK ==
  /\ inMemory \in [Honest -> SUBSET KeyStates]
  /\ onDisk \in [Honest -> SUBSET KeyStates]
  /\ retiring \in [Honest -> SUBSET Retirements]
  /\ written \subseteq Honest /\ acked \subseteq Honest

\* Who could still sign under an old public key: a process that answers OP_FRESH, or
\* the reader of a file.
OldKeyHolders == {v \in Honest : OldSecret \in inMemory[v] \cup onDisk[v]}

\* "Later compromise of the current retired-node secret state should therefore not
\* recreate the old signing key" (sec016/README.md:5): once a quorum has
\* acknowledged its retirement the old keys that are left make no quorum, whoever
\* crashes, restarts or lays its file open.
OldKeysMakeNoQuorum ==
  IsQuorum(acked \cup Byzantine) => ~ IsQuorum(OldKeyHolders \cup Byzantine)
=============================================================================
