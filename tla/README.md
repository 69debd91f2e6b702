# Verification of the CALIBRE experiments

This directory holds TLA+ models of the programs of this repository, the TLC
configurations that check them and proofs that TLAPS checks. `PROJECT.json` lists
components, runs, mutants, the map from definitions to source lines, hazards,
findings and theorems.

Run `tlc -workers 2 -config MCNode_conflict.cfg MCNode` for a model and
`tlapm NodeProofs.tla` for the proofs of a module.

## 1. Inventory

The repository is a series of experiments. `integration001` puts the others
together; the `secNNN` programs are its predecessors and side experiments, the
`perfNNN` programs and `src/main.rs` are benchmarks.

| Component | State it keeps | Operations | Correct when |
|---|---|---|---|
| Validator node, `node.rs` | decoded `State`, a `WalStore`, its key | serves one connection at a time: Ping, Prevote, Precommit, Apply, QueryState | a share never leaves before its vote is durable; honest nodes never contribute to two conflicting certificates; a node's state is what its applied intents lead to |
| Votes, certificates, state, `model.rs` | none (values): `Tx`, `Vote`, `Qc`, `Proposal`, `State` | sign, verify, assemble, digest, `apply_finalized`, `validate` | conflicting certificates cannot both exist; value is conserved; equal states have equal roots |
| Write-ahead log, `store.rs` | the log file; in memory lifecycle, snapshot, votes, locks, applied records, poisoned flag | `open` (initialise or replay), `activate`, `persist_vote`, `apply_verified`, `retire` | memory equals what a replay would find; nothing acknowledged is lost; nothing follows a retirement |
| Wire format, `wire.rs` | none | bounded canonical encoding and decoding, frames | what is read is what was written; nothing else is read at all |
| Controller and clients, `main.rs` | child processes, ports, finalised transfers, results of the first of two runs | `finalize_transfer`, `collect_votes`, `apply_to_validator`, `Cluster::{start, restart, shutdown_and_cleanup}`, client threads, the campaign | an undisputed transfer settles; the campaign passes unless something outside fails, ends, and leaves nothing behind |
| SEC-001, SEC-002 | the core's cells; locks of honest certifiers | authorise, sign, certify, apply | only what the owner signed is spent, once |
| SEC-003, SEC-007 | a lock log per certifier | append and sync before signing, replay | a certifier that forgets nothing never signs two spends of an input |
| SEC-004 | witness stores, locks in memory only | anchor, recover, sign, rollback, restore | no second signature after a rollback |
| SEC-008, 008.1, 008.2 | certifier processes, the controller's counts and beliefs | one trial after another: deliver, repeat, lose, restart, inspect, judge | the verdict is true |
| SEC-009 to SEC-012 | votes, certificates and locks per round | prevote, precommit, change of round, healing; an exhaustive search | one digest final; a conflict settles once the network heals |
| SEC-013, SEC-014 | choices per transition; lineage of a coin over epochs | handoff, activation, vote; transfer, commit | the next epoch inherits one thing; a state has one successor |
| SEC-015 | lineage, retirements | finalise, retire, activate, challenge, restart | no quorum says a retired state is fresh |
| SEC-016 | a secret in memory and file | retire by a one-way step, restart | retired keys make no quorum |
| SEC-017, SEC-018 | disposable keys in a provider, a child process | create, open, delete, sign, gate, clean up | the old key does not pass the gate; no key is left |
| SEC-005, 006, 006.1 | none | call a TPM driver and print what it says | |
| PERF-001 to 007 | maps of cells, sharded | lock-all and prepare/commit engines | threads change nothing but the order |
| PERF-008 to 014 | sockets, lanes, inboxes, batches | receive, gather, start, prepare, commit | the same, and no thread waits for ever |
| PERF-015 to 025, `metrics.rs`, `config.rs`, CI | none of the protocol | | |

Interactions in `integration001`: a client (the controller, up to one thread per
transfer) opens one TCP connection per request; a node serves connections in
turn, so a handler runs to completion, and what interleaves are whole handlers of
different nodes, the steps inside one node's log append with a kill of its
process, and the controller's threads. The node reaches its log only through the
five methods; the log reaches the disk through three `write_all` and one
`sync_all` per record. The `secNNN` programs have the same shape: one controller,
certifier processes that serve one connection at a time, a file per certifier.
The engines are threads over shared maps, channels and a barrier.

Hard behaviours: conflicting intents that race over several rounds; Byzantine
members that sign anything; replies lost after the vote is durable; kills between
any two writes; failed writes; replay rules written separately from the live
ones; nodes that apply at different times; committees that hand over while they
still sign; a controller that must clean up after any failure. `PROJECT.json`
lists each at its line.

## 2. Modules

| Module | What it is |
|---|---|
| `Committee` | members, Byzantine members, threshold; the only assumption is `2Q > N + F` |
| `SuccessorChoice` | abstract: of the intents that spend a cell at most one is ever chosen, and replicas apply chosen, funded intents |
| `VoteBook` | abstract: the votes and precommit locks a signer never loses |
| `Node` | all nodes of a committee and every possible client |
| `WalStore` | one node's log: memory, file, process, crashes |
| `Finalize` | `Node` with the clients of the controller: calls, failed requests, late requests |
| `PhaseA` | `Node` with the whole controller: processes, stages, threads, clean-up |
| `Transfers` | the ledger of `model.rs` with amounts and owners |
| `Wire` | encoder, decoder and a connection that damages bytes |
| `CertifiedSpends` | SEC-001 and SEC-002 |
| `SpendLocks` | SEC-003 and SEC-007 |
| `LockAnchor` | SEC-004 |
| `FaultCampaign` | SEC-008, SEC-008.1, SEC-008.2 |
| `RoundRules`, `RoundChange` | SEC-009, SEC-010, SEC-011 |
| `RoundModel` | SEC-012, the abstract specification of `RoundChange` |
| `Handoff`, `Lineage` | SEC-013, SEC-014 |
| `Freshness`, `Ratchet`, `KeyContainment` | SEC-015; SEC-016; SEC-017 and SEC-018 |
| `Batches` | the workload the engines share |
| `BatchEngine`, `SerialEngine` | abstract: batches take effect at once; transactions take effect at once |
| `Ingress` | the threads of PERF-006 to PERF-014, which implement `BatchEngine` |
| `ShardLocks` | the lock-all engine, which implements `SerialEngine` |
| `MCNode`, `MCWalStore`, `MCFinalize`, `MCPhaseA`, `MCRound`, `MCExperiments`, `MCLogs` (with `MCWire`), `MCEngines` | instances for TLC; the last three run independent models side by side, one per behaviour |
| `CommitteeProofs`, `NodeProofs` | theorems about `Committee`, `Node` |
| `FinalizeProofs` | theorems about `Finalize` and `PhaseA` |
| `LogProofs` | theorems about `WalStore` |
| `SpendProofs` | theorems about `SpendLocks`, `Transfers` and `CertifiedSpends` |
| `CampaignProofs` | theorems about `FaultCampaign` |
| `ExperimentProofs` | theorems about `RoundChange`, `LockAnchor`, `Handoff`, `Lineage`, `Freshness`, `Ratchet`, `KeyContainment` and `VoteBook` |
| `EngineProofs` | theorems about `ShardLocks`, `Ingress` and `BatchEngine` |

`VoteBook` ties `Node` and `WalStore` together: `Node` treats a node's votes as
never lost and shows that its voting rules keep such a book (`ImplementsVoteBook`);
`WalStore` shows that what restarts recover from the file is such a book
(`RecoversAVoteBook`), through kills and I/O errors. `Node`, `RoundChange`,
`LockAnchor`, `Handoff`, `Lineage`, `Freshness`, `Ratchet`, `SpendLocks`,
`CertifiedSpends` and `FaultCampaign` share `Committee`.

In all of them digests and signatures are injective, a share is its statement and
signer, and a Byzantine member signs anything, so its part of a certificate can
always be had.

### Node

State: `votes[v]` and `lock[v]` are the maps of `WalStore` (`votes`, `locks`),
`live[v]` and `applied[v]` are `State::live` and the keys of `State::applied`
(`spent_by` and `known_ids` follow from them, see `KnownIds`), `shares` is the set of
votes honest nodes have signed. Actions: `Prevote`, `Precommit` and `Apply` are
the three handlers that change state, with the checks they make in
`validate_live_proposal`, `durable_vote_rejection`, `persist_vote`, `verify_qc`,
`verify_finality_chain`, `apply_finalized` and the bounded encoder. A request that
only repeats an answer is a stuttering step.

Abstractions:
- Digests and signatures are injective; a share is its statement and signer. The
  digest of a prevote certificate stands for its signer set. A second valid
  signature of a Byzantine member would be one more certificate.
- A client is not a process: whatever certificate the issued shares allow, and any
  proposal, can turn up at any node at any time. This covers lost, repeated and
  reordered messages and any number of concurrent clients. The proposer's
  signature is no restriction, because the controller holds the keys of all
  proposers; an optional justification in a proposal is verified but changes
  nothing a node does.
- Byzantine members contribute every share on request. A Byzantine share may even
  pair an intent with another cell's conflict key; no certificate contains it,
  since a certificate has an honest signer and honest nodes compute the key from
  the transaction.
- The state of Byzantine nodes is under the same checks (`node.rs:407`).
- Votes, locks and state survive restarts; `WalStore` is about why.

### WalStore

`file` is the list of records with an incomplete one written as `Torn`; `synced`
counts records under a completed `sync_all`. `Call` is the part of each method
before the append, `WritePart`, `WriteRest` and `SyncAndReturn` are the append
and what the method does after it, `IoError` is a failed write or sync, `Kill`
the end of the process (`Cluster::restart` kills nodes), `LosePower` (a step of `PowerNext`, not of `Spec`) the loss of
unsynced bytes, `OpenEmpty` and `OpenExisting` the two ways through `open`.
`acked` and `fresh` are history: payloads whose call returned success, and those
that returned `Persisted`. `Replay` is `replay_wal`, a fold of the replay rules
over the file, kept separate from the live rules as it is in the code.

Assumptions: written records survive the death of the process; a loss of power
keeps a prefix of the records, perhaps with part of one more; a checksum always
exposes an incomplete record; and the directory entry of a new file is durable
although `open` never syncs the directory. Without the last one a machine may lose
a whole log, which no check of `store.rs` could notice.

### Finalize

`Finalize` extends `Node` with the client's side: `call[c]` is the local state of
`finalize_transfer` in thread `c` (what it asks for, how many contacts answered, the
votes, the prevote certificate, the nodes that have yet to apply), `late` the
requests whose client gave up. `AskForVote` is one round of the loop in
`collect_votes`, `Assemble` is `assemble_qc`, `AskToApply` is
`apply_to_validator`. Their requests are served by the handlers of `Node`; a
refusal is the negation of the handler's own checks (`Accepts`).

- A request, its handling and the answer are one step: the node serves one
  connection at a time and the client waits.
- `RpcFails` is any error of `rpc`: refused connection, timeout of 120 s, lost
  answer, a node killed and restarted on another port. The call returns an error
  (`?` everywhere) and the request is left in `late`, from which `ServeLate` may
  serve it at any time or never. A lost answer is a failure followed at once by a
  late service.
- `ContactLists` are the lists of honest nodes that are asked: all five in
  `finalize_transfer`, `[2,3,4]` and `[5,6]` in the split of round 1.
- Apply threads of one call run in any order. One that fails ends the call; what
  the others still do could have come before it, because they ask other nodes. The
  benchmark's extra demand that no first application is a repeat, and its barrier
  between voting and applying, are left out, which only adds behaviours.
- The benchmark's transfers and rounds are arbitrary here: any authorised intent in
  any round, again after an error or not.

Fairness: some open call proceeds as long as one can (`WF_fvars(Proceed)`). Threads
run until their call returns and the accept loop answers every connection; no
fairness is assumed for new calls, failures or late requests. Every call is a
bounded number of steps, so this is no weaker than fairness of each thread.

### PhaseA

The controller itself, over the handlers of `Node`: `stage` runs through
`run_phase_a_once` twice (`run_controller`), each stage giving one or several
threads a list of requests (`Script`) and taking only the answers the program
takes (`Wanted`, `Answer`). `SpawnNode`, `NodeReady` and `NodeNotReady` are
`spawn_node`; `KillForRestart` and the stage after it are `Cluster::restart`;
`EndNode`, `Shutdown` and `Drop` are the two ways to clean up, both with the
processes one after the other and then the directory. `running[v]` counts the
processes of a validator, `handles` is what the cluster holds: the difference is
what a failure may leave behind. `RequestFails`, `SpawnThreadFails`,
`SpawnNodeFails`, `NodeNotReady`, `NodeDies`, `MakeRootFails`, `ShutdownFails` and a
process that cannot be polled, killed or waited for are the failures, at most
`MaxTrouble` of them.

Dropping a `Child` does not end its process, so what becomes of one has three
outcomes. It ends (`Ended`). Its kill fails, which the code ignores, and the
controller stands in `wait()`, which has no timeout, until the process ends by itself
(`Awaited`, `WaitReturns`; no fairness makes it). Or the code lets go of it alive
(`LetGo`, kept in `unheld`): when `try_wait` fails in a start, a restart or the
shutdown (`main.rs:1115`, `:1184`, `:1232`), when the kill of a restart fails, and when
both kill and wait fail. A directory that the system will not remove is `unremoved`.
`NothingLeftBehind` therefore does not say that nothing is ever left (gate B31-A,
`PASS-MATRIX.md:151`, as far as the code can keep it): a campaign that passes has left
nothing, one that fails has left nothing but those three. `CampaignEnds` holds of every
behaviour in which
the controller is not stuck in such a wait.

The benchmark has
two transfers, the negative tests two; the program's own numbers only lengthen the
lists. The checks that ask no validator are left out, except
`exhaustive_conflict_safety_cases`, which is evaluated as a definition.

The controller holds the laboratory keys of all validators and once signs a prevote
certificate for Charlie that its signers never voted for (the stage `opposing`).
`CampaignDrivesNodes` says that the nodes still do nothing `Node` would not let them:
both nodes that are shown it have locked Bob by then. `HonestMembers`, the list that
transfers are submitted to, is a parameter like the other lists of the script.

### Transfers

A cell carries an amount and an owner; `CertifyTransfer` is everything a quorum
checks of a proposal (`validate_tx`, `verify_user_auth`, the exact input is live),
`ApplyTransfer` is `apply_finalized`. A proposer may claim any amount and owner for a
cell it names. That at most one transfer of a cell is certified is what `Node`
shows and a guard here. `Word` is 8 instead of 2^64, with amounts among which some
sums overflow exactly to the value of the input.

### Wire

Writer and reader of each type are described by formats of their own (`Put` and
`Take` are driven by the writers' and the readers' formats), each with its limits
and checks. `WriteMessage` writes a frame, `CutShort`, `Alter` and `Repeat` damage
it, `ReadMessage` is `serve_connection` or a client. Tokens stand for numbers, keys
and signatures of any width, so bytes cut within one are a missing token. The
module has RECURSIVE operators and no theorem.

### SEC-001 to SEC-008

- `CertifiedSpends`: a sum is checked (`MaxSum`). Certifiers look at the initial cells only
  (`verify_user_authorization` is always called with them), the core at the
  present ones, and neither does the other's work. Outputs have generation 0 and
  genesis cells 7, so an identifier that is chosen again is not an old input. With
  a lying certifier SEC-001 promises nothing, which is its documented limit.
- `SpendLocks`: a request is `Receive`, a `WriteRecord` per new lock, `SignSpend`;
  `FailAppend` and `KillCertifier` may come between any two. `OpenChecked` is the
  replay of SEC-003 (magic, checksum, incomplete tail cut off), `OpenWhole` that of
  SEC-007, which only checks that the length is a whole number of records.
  `OpenMisread` follows from that: several torn records may together be as long as
  whole ones, after which records are read out of step and locks are forgotten.
  `ConflictsNeedAmnesia` counts such a certifier with those whose file was
  restored from a copy: without either, no two cores apply conflicting spends.
- `LockAnchor`: a call of `authorize_anchor_and_sign` is one step, because it is one
  thread of control; its three outcomes keep what a call that fails half way has
  changed. `RestoreWitness` puts an older copy of a witness's store in place.
- `FaultCampaign`: one trial (each has a coin of its own). The controller's beliefs
  (`choice`, `counted`) are kept apart from what certifiers have locked and written,
  because a request may be late or unanswered. `CampaignTellsTheTruth`: a share that
  is counted is locked, a trial in which every request is answered is decided, and
  a certifier is never blamed for a lost lock or a double signature, with one
  exception in each of two programs. SEC-008 takes the spend it asked for first for
  the lock of a certifier, also if that request was never answered (a certifier
  whose reply fails stops, and a restart revives it without a lock); the certifier
  may then sign the other spend and the campaign aborts. The recorded abort of
  `sec008/LOCAL-RESULT-SNAPDRAGON-2000-ABORT.md` is of this kind, and SEC-008.2,
  which believes only answers, no longer does it. A restart that fails
  (`RestartFails`: no port, no process, not ready in time) ends the campaign; it counts
  as one of the `MaxUnanswered` silences.

### SEC-009 to SEC-012

`RoundChange` has one set of actions and an `edition`, since the three programs
share their messages and lock rule and differ in what a precommit handler checks
(`AllowsPrecommit`), in what it does to a higher lock (`LowersLock`, `Relock`; in
SEC-009 it ends the process) and in whether nodes look at the proposer (`IsOpen`).
`TakePrevote` and `TakePrecommit` are handlers; a node whose reply cannot be written
ends with its vote recorded (`OrEnds`), and so does one that cannot read a request or
append to its log (`NodeEnds`); `RestartNode` is `crash_restart` and `restart`, which
SEC-009 lacks. At most `MaxEnded` are down at once. `AssembleQc` is `collect_qc`,
`ChangeRound` the fault phase, `SkipSilentLeader` and `HealRound` the loop after
healing. A request is served in its own round only: nodes keep no current round
and would serve a late one, but the driver is one thread that waits, so it never
has one. `RoundModel` is the relation that SEC-012 enumerates: one step is a whole
round. `ImplementsRoundModel` shows that what SEC-012 assumes of a round (who can
certify, whom a certificate reaches, when it becomes final) is what the node
programs do under such a driver.

### SEC-013 to SEC-018

- `Handoff` and `Lineage` let any request reach any node at any time. `Handoff` is
  one transition with its choices (`ChoiceStore::choose`) on both sides and the
  votes under an activation. `Lineage` follows a coin through epochs;
  `record_transfer`, `commit`, `record_handoff` and `activate` are its actions.
- `Freshness` is the store of SEC-015 with a client who draws a nonce. `Restarting`
  lists epochs whose nodes crash: the passing run restarts epoch 1 as the program
  does, the run `revived` epoch 0.
- `Ratchet` splits `retire_state` at its writes, so that a crash or an I/O error
  falls between them.
- `KeyContainment` follows the controllers of SEC-017 and SEC-018 call by call, with
  the key storage provider as an external part that may or may not revoke handles of
  a deleted key. Every call may fail (`MaxFailures`). `wait_for_file` is two steps,
  `LookForFile` and `PollChild`, because the child may write its last answer and exit
  between them; the controller then reports that the child exited early although nothing
  has failed (`main.rs:643`), which `KeyTestPasses` names as an exception. On an error the
  child is killed and waited for, and both errors are ignored (`KillFails`, `WaitFails`).

### Engines

`Batches` is the arithmetic all engines share: which transactions contend, how they
are dealt to streams and cut into batches. `Ingress` has the receivers, the
coordinator and the workers with the editions that differ in how references
travel; a worker's phase between two barriers is one step because it touches only
its own cells and counters that only grow. Its refinement mapping hides reserved
cells until a batch is settled. `ShardLocks` takes mutexes one at a time; a worker
that asks for a mutex it holds would wait for itself.

## 3. Runs

| Run | Bounds | Question |
|---|---|---|
| `conflict` | 4 members, 1 Byzantine, Q = 3; two intents on one cell and a forged one; 2 rounds | can rounds, votes and certificates be played against each other? |
| `walkill` | 1 cell, 2 digests, 2 rounds, 1 transfer, 5 records | does memory always equal the file; is anything acknowledged lost; do restarts recover a book of votes? |
| `logs` | six independent models: the log under loss of power (1 round, 4 records); SEC-003 and 007 (2 spends, 2 coins, 2 cores, 3 records, one failing certifier); `Wire` (each type with collections empty, full and over-full); one trial of each campaign (one unanswered request or failed restart); `Transfers` (3 validators, 2 genesis cells, word 8); SEC-001 and 002 (9 orders, 2 copies, sums up to 3) | is the unsynced part all that power takes; is signing twice a matter of amnesia only; is reading exact; is the verdict true; is money conserved; are certified spends sound? |
| `walsync` (violated) | 1 round, 4 records | does every success mean synced? |
| `calls` | 4 members; 2 clients, 2 calls, 1 failing request; a conflict and a transfer of the winner's output; 2 rounds | do overlapping calls return only final certificates, and do the ledgers agree? |
| `retries` | 4 members; 1 client, 3 calls, 2 failing requests; one contact or all; a conflict; 2 rounds | does a call settle after two that failed half way? |
| `phasea` | 7 members, 2 Byzantine, Q = 5; the whole campaign twice; 1 failure anywhere | does the campaign pass, end and clean up, and do to its nodes only what `Node` allows? |
| `campaign` | 4 members, every rotation, 3 editions, 2 rounds of faults, 5 rounds, 1 node down | do conflicts settle after healing; do the nodes implement SEC-012? |
| `experiments` | 5 members, 2 Byzantine, Q = 4; 3 faulty rounds; 4 witnesses, one Byzantine, one restored; 2 epochs; 4 failures of key calls | SEC-004, 009, 010 and 013 to 018, one per behaviour |
| `revived` (violated) | the same, nodes of the genesis epoch restart | do retired nodes refuse challenges after a restart? |
| `fencing` (violated) | the same, SEC-014 | can the old committee finalise after its handoff? |
| `engines` | 5 transactions of 2 inputs, 2 streams, batches of 2, 2 workers, inbox of 1; 3 lock workers, 4 shards; all contention patterns | do threads change nothing but the order; do all finish? |

Why the bounds are enough. Four members with one Byzantine satisfy the assumption
with no slack, like the program's seven with two; `phasea` has the program's own
size, and the theorems have every size. In `experiments` the members are five with
two Byzantine and a threshold of four, where a quorum needs two of three honest
members. Two rounds are what a stale lock needs; that more add nothing is proved.
`MaxQcs = 1` keeps one certificate per statement in `conflict`; several of them
(other signer sets) are covered by the theorems, which hold for every `MaxQcs`.
In `calls` and `retries` the only contact list that reaches a quorum is the list
of all three honest members, as in the program, so a statement has one prevote
certificate anyway. Two calls that failed are what it takes to leave votes and
locks of both sides, or of two rounds, behind. Five log records are initialise,
activate and three operations, so every pair of operations follows every other
within a lifecycle that ends in retirement. With one unanswered request every
result of a trial is reached that the code can report at all. Five rounds after
two faulty ones are more than a rotation over four members in any offset. One node that is
down is already too many for the certificates of four members, so the run shows both what
it takes away and that its return before healing restores it. Four failures are those of a
key's set-up and its deletion, and of the child's kill and the wait for it. The
last of three batches of the engines has one transaction, of one stream, and
batch and inbox sizes make receivers wait. Honest members are symmetric where a
run says so: no definition there tells them apart. Runs turn deadlock checking off
because their systems stop: a settled ledger, a full or torn file, a finished
campaign or trial.

Fairness. `Finalize`: some open call proceeds as long as one can
(`WF_fvars(Proceed)`), see above. `PhaseA`: the controller and its threads go on
(`WF_labVars(LabStep)`): requests time out, and waits for a validator have a
deadline; nothing makes a process end that could not be killed, so `CampaignEnds` is
about the behaviours in which the controller is time and again not waiting for one.
`RoundChange`: after healing the driver's one thread goes from round to round
(`WF_roundVars(HealedRound)`). Nothing is promised before: a restart that fails, and in
SEC-009 a request that does, ends the driver. `ConflictsFinalize` starts from a healed
network in which as many honest nodes are up as a quorum needs. Engines: every thread of
its own is weakly fair, which is what an operating system gives; blocking on a
mutex is without a claim to be served in turn, which is enough because every worker
has finitely many transactions.

`UndisputedCallsSettle` is the liveness claim ("a valid, non-conflicting transfer
must progress", `PASS-MATRIX.md:117`). Its premise says what has to hold when the
call starts: it asks a quorum, the input is live and there is room on every node, no
contact voted for a conflicting transfer in the call's round or is locked on one
or in a higher round, and nothing is under way that could change that. It is
silent on a retry of a transfer that some node has applied already: those nodes
refuse the new prevote as spent (`node.rs:389`), so such a transfer settles on the
rest only with the certificate of the first call, which the controller drops.

Each property of a passing run has a mutant of the modelled code (PROJECT.json)
under which TLC finds it violated. They stand before the definitions they replace.
Other predicates of the modules (type invariants, `NodesNeverFork`,
`NoAckedEquivocation`, `CertifiedStaysLocked`, `LocksNeverMove`,
`OnlyAuthorizedCertified`, `NoTwoCertifiedSpends`) are proved, or follow from a
property that a run checks, and are no properties of a run.

### Findings

- `walsync`. The comment at `store.rs:715` says that a successful return means the
  decision is past the durability boundary. That holds of `Persisted`
  (`PersistedIsSynced`), not of `AlreadyPresent`: a process killed between the last
  write and the sync leaves a record that the next process replays but never syncs,
  and a repeated request is answered, and its share signed, from it.
- `fencing`. `record_handoff` of SEC-014 does not look at transfers recorded for
  the generation it retires, so a successor signed by fewer than a quorum before
  the handoff can be completed after it by a node that did not hand off. The next
  epoch then holds a state that has a certified successor. `EpochNeverForks` holds
  all the same: within an epoch there is one successor.
- `revived`. A node of SEC-015's genesis epoch that restarts after it retired the
  genesis state is given it again, and answers challenges for it. Epochs above 0 do
  not (`NoStaleFreshness` in `experiments`, and `RetiredStatesAreStale` in general,
  which assumes `0 \notin Restarting` for this reason).

## 4. Proofs

Everything about `Node` is proved for every committee with `2Q > N + F`, every finite
or infinite ledger that satisfies `NodeAssumption` and any set of rounds.

- `QuorumsShareHonest`: two signer sets of size Q share an honest member, from
  cardinalities alone.
- `InductiveInvariant`. `AtMostOneCertified` is not inductive, because it does not
  say why an honest member that helped certify one intent cannot help another. The
  invariant adds: one vote per slot (`OneVotePerSlot`), one lock per cell
  (`OneLockPerCell`), every recorded precommit is covered by the lock
  (`PrecommitsAreLocked`), locks rest on certificates (`LocksAreJustified`), votes
  are for authorised intents, issued shares are durable; and for the ledger that
  what is applied is certified. Two conflicting certificates would share an
  honest precommitter, whose lock would have to be on both intents.
- From it `TypeCorrect`, `AtMostOneSuccessor`, `CertifiedLocksPersist`,
  `VotingIsSound`, `LedgersAgree` and the action property `LocksAreMonotone`.
- `NodeImplementsSuccessorChoice`: a vote certifies at most one new intent, which
  is a `Choose` step; an application is an `Apply` step; anything else stutters.
- `NodesKeepVoteBooks` and `BooksNeverEquivocate`: the voting rules of a node are
  those of a book of votes, and a book never equivocates.
- `ClientsRefineNode`: a step of a client, or of a node serving a late request, is a
  step of `Node` or leaves the nodes alone, so all of the above holds of the
  composed system; `ClientsNeverDoubleSpend` says so for the main result.
- `ReturnedChains`: the record of a call is backed by issued shares at each stage
  (`CallsBacked`), and shares are never withdrawn (`BackedRemains`).
- `FinalisedIsNotRefused`: from `CallsBacked`, the invariant of `Node`, and that a
  node's history has no gaps (`AppliedAreFunded`), a node that does not accept a
  certified transfer has applied it, lacks the transfer that creates its input, or
  is full.
- `RoundInvariant` is the invariant of `RoundChange`. That no final digest is
  overtaken (`NotOvertaken`) is inductive only together with what the lock rule gives:
  an honest member records one digest per round; certificates rest on prevotes and
  precommits on certificates; a lock is a certificate at least as high as its
  member's precommits (`LockCovers`); and who prevotes against its own earlier
  precommit was shown a certificate in between (`ReleasedByCertificate`). An
  overtaking certificate of lowest round would share an honest member with the final
  one, which was released by a still lower one. From it `RoundChangeIsSafe`,
  `FinalityStays` and `RoundTypeCorrect`, for every committee, number of rounds, rotation
  and edition.
- `RoundsImplementModel`: the nodes implement the relation of SEC-012. It needs two more
  invariants. `LocksAreLast`: in lock step no lock is ever refused for being lower, so
  a lock is its member's last precommit, which is what the model takes for a lock;
  processes that end and come back keep theirs. `RoundIsFair`: what is prevoted in the
  round under way was proposed
  in it, until it has a certificate only by members whose last precommit before the
  round allows it, and what it certifies had a quorum of them. (Afterwards a member may
  also prevote because of the lock it got in the round; the model knows no such step, and
  need not, as the round has its certificate.) A step inside a round is then no step of
  the model (`InsideRound`), and one that ends the round is `NoQc` or `Certify` with the
  members that precommitted (`RoundEnds`).
- `CertifiersNeverSignTwice`, `CertificatesAreExclusive`: the anchors of a signed
  spend are so many that any recovery quorum asks a witness that is neither
  Byzantine nor restored; for every number of witnesses, inputs and restorations
  within `AnchorAssumption`, and every `MaxAsked`.
- The change of committees: `CommitteesInherit` from one choice per node and key and that every
  vote of the new committee carries the digest of a certified handoff (which stays
  certified, `AgreementStays`); `EpochsNeverFork` from one signed successor per node,
  epoch and generation. `HistoryNeverForks` is not inductive, because it does not
  relate epochs: `FreshnessInvariant` adds that a node moves to later generations only
  and holds nothing once retired (`NodeMoves`), that whatever an epoch holds, signs or
  retires is no older than what each epoch before it handed off (`LineageKept`), and
  that after a certified handoff enough nodes have retired without an answer
  (`ChallengesRefused`). `HistoriesNeverFork` and `RetiredStatesAreStale` follow when
  no node of the genesis epoch restarts. `RetiredKeysAreUseless` rests on
  `OldSecretGone`: the file is truncated before the next secret is written, and
  memory is overwritten before the acknowledgement.

- `WalStore`. `Replay` is a fold over a log of any length. `LogProofs` gives it a run,
  the states it passes through, and proves by induction what a run does. The
  library's induction theorems cannot be instantiated here, so an induction looks at the
  least length for which the claim fails (`LeastElement`). `WalInv` then says: all
  entries but the last are complete and can be replayed; memory is what replaying the
  file gives while no call is under way, and the call under way is one that can follow
  (`CallsAreAppendable`); the synced part is a prefix, and what was reported as
  Persisted lies in it. It holds when power may be lost (`PowerSpec`), so the runs of
  `Spec` have it too (`KillsArePowerSteps`). From it `MemoryIsTheFile`,
  `DamageIsATornTail`, `RetirementIsTerminal` and `PersistedSurvivesPowerLoss`, and
  for kills alone `AckedIsNeverForgotten`. `LogIsAVoteBook` is the refinement: a record
  that is appended is a vote cast under the rules of `VoteBook`, a torn record and a
  restart are stutters. With `NodesKeepVoteBooks` and `BooksNeverEquivocate` this
  closes the gap between `Node`, which never forgets, and a process that is killed.
- `OnlyForgettersConflict` (`SpendLocks`): the records of a certifier that has not
  forgotten are consistent, hold what memory holds, and hold every coin of what it has
  signed (`LockLogInv`); an append that stops between two records leaves more in the
  file than in memory, never less.
- `CampaignReportsHold` (`FaultCampaign`): three layers. The files: one holds at most one
  record of the trial, memory says what a whole file says, and nothing but a torn record
  ever leaves a file (`FilesAreLocks`, `Stays`). The controller: its steps fit the stage
  (`StepsFit`), a counted share is filed (`CountsAreFiled`), and each refusal or share it
  insists on has a ground (`StepsAreFounded`): in SEC-008.2 the lock in the file, in
  SEC-008 only the choice it made, which is why that campaign can blame the
  innocent. A quiet trial (`QuietRun`): nobody is late or down; SEC-008's choice is in
  the file as soon as the first request is answered (`Chosen008`); SEC-008.2 knows of
  every lock (`Chosen0082`); in the last stage whoever refuses one spend holds the other
  and signs it next (`AllAreHeard`); and each half of a split keeps its spend
  (`HalvesAreKept`), so neither reaches the threshold.
- `Transfers`, `CertifiedSpends`: what cells are worth is a fold over a set in an order
  that CHOOSE picks. A sum is shown to be the one solution of its equation
  (`SumsAgree`, by induction over the subsets of a finite set) and independent of the
  order (`TallyRemove`). `NoMoneyIsMade` then needs that certified transfers add up in
  whole numbers, which is what the overflow check gives, and that outputs have new
  references. `CertifiedSpendsHold` needs what neither the certifiers nor the core
  check: that a copy whose inputs are gone never gets them back (`SpentAreGone`). An
  output may take the identifier of a spent cell, since the core only compares it
  with the live ones (`sec001/src/main.rs:242`). The old certificate does not apply to
  the new cell because outputs have generation 0 and the cells of the beginning 7
  (`sec001/src/main.rs:275` and `:294`); `CertifiedSpendsAssumption` asks no more than
  that these differ from 0.
- `LocksAreSerial` (`ShardLocks`): a mutex has one holder, a worker that has checked
  its transaction holds the shards of all its cells, and cells of shards it holds
  change by its own steps only (`LocksInv`), so what it has checked stays true until it
  commits. The commit is the step of `SerialEngine`. `NoWorkerPanics` follows as well.
- `BatchesTakeEffectAtOnce` (`Ingress`): the threads implement `BatchEngine`. The
  invariant has two halves. `ReaderInv` is about reception: what a stream still has to
  bring is later than what it has handed on (`ReadsInOrder`), a batch's counter is the
  number of streams that have handed on their part (`CountsStreams`), and a lane is
  filled before it is counted (`FillsLanes`). So a batch that is announced has arrived
  (`ReadyHasArrived`), and a worker that may start sees all of it (`SeesBatch`), in every
  transport. `WorkInv` is about the barriers: workers are at most one phase apart
  (`InStep`), and until the batch is decided each holds its share, of cells of its own,
  and `prepared_counts` counts what they hold (`Shares`). The last worker to reserve
  decides the batch (`LastPrepareDecides`): a transaction is eligible exactly if it came
  first at all its cells (`BatchOutcome`). All other steps stutter; that those after the
  barrier do is why a loser's cells may be put back at leisure.
- `CellsAreSpentOnce`: `SpentOnce` and `AbortsLoseToCommits` of `BatchEngine`, by the
  refinement. The second holds because two transactions share a cell only if they are
  neighbours of which one was picked, so a transaction has at most one rival
  (`NeighboursShare`, `OneRival`): two losers cannot abort each other.
- `CellsAreCounted`: `final_cells == expected_cells`, the last assertion of each edition,
  from a bijection between the cells spent and the committed transactions' inputs
  (`CellsOfMany`), so without an induction.
- `NoEnginePanics`: a cell is held by its owner only, once, and out of the maps
  (`HoldsOwn`), and an output of the batch in work is there only when its worker is
  through (`MadeInTurn`).
- `LocksAreCounted`: the two final assertions of `run_lock` (perf005 main.rs:263 and
  :276). A worker leaves none of its transactions undecided (`LeavesNone`), so all are
  committed or aborted when all are done, and the cells left are those that the serial
  engine leaves (`LocksSettled`, `SerialSettles`), as many as `CellsLeft` counts.
- `ContainmentCleansUp` (`KeyContainment`): a key is flagged before it can be
  left (`KeysAreFlagged`), and past the wait for its exit there is no child
  (`NoChildLives`), unless the wait has failed after the kill had (`"child"` in
  `unclean`).
- `ContainmentIsDecided` (`KeyContainment`): while nothing has failed the child and the
  controller are in step (`OnTrack`). Where the controller is tells which requests the
  child has been sent and which it has answered, and as the baseline is awaited before
  the key is deleted and the others are asked for after, also what each answer must be.
  Every decision the script then takes, the gate's four rejections included, is the
  expected one, except for the handle that SEC-018's provider may revoke (`Withdrawn`),
  and for the last answer, written after the controller has looked for it and before it
  polls (`Overtaken`): the child has then exited and the answer is there.
- `NothingOutlivesTheCampaign` (`PhaseA`): a validator has the process whose handle the
  cluster holds, whose pong it waits for, whose end it waits for, or which it has let go
  of, and no other (`ProcessesOK`); only a start or a restart waits for a pong, for a
  validator without a handle (`StartingOK`); one process at most is waited for, and only
  while cleaning up, and whatever is let go of sends the campaign to its clean-up or fails
  the one under way, so no process is started over it and no such campaign passes
  (`RefusedOK`). It holds for every script of the stages and any number of failures.
- `CampaignActsByTheRules`, `CampaignIsSafe` (`PhaseA`): a thread asks only what its
  stage's script says, and its prevotes before its precommits (`ThreadsFit`). The votes
  it holds are backed by shares, and once it has a precommit its certificate is fixed,
  so one certificate per statement is in use (`ThreadsBacked`, where `MaxQcs >= 1` is
  needed). Precommits come in rising rounds, 2 for Bob's transfer and from 100 on for
  the benchmark (`PrecommitsInTurn`). When Bob's stage passes it has as many precommits
  as there are honest members, so all of them are locked on Bob, and locks stay: the
  opposing certificate is refused by whoever sees it. What is applied later is
  certified by then (`SettledSoFar`). With this every step of the controller is a step
  of `Node` or begins the second run, with new nodes, in `Init`; so the invariant of
  `NodeProofs` holds throughout.

Assumptions on constants. Besides the committee's, the proofs use what the modules
assume: the log has room for one record, coins of a spend are a list, amounts fit
the word and a transfer has finitely many outputs (`MAX_OUTPUTS`), cells of the
beginning are finitely many with generations other than 0, the key tests are those two,
and in the randomised campaigns the honest certifiers can finalise on their own and are
not all there are (five of seven for a threshold of five). In Phase A the honest members
just make a quorum (five of seven again), the parties are lists of them, Bob's and
Charlie's transfers conflict, the script's rounds exist, and the transfers of the
unowned cells are not authorised. TLC evaluates all of them in the runs.

Every inductive invariant above was checked by TLC on the instances of the runs before it
was proved.

Only model-checked:

- Liveness: `UndisputedCallsSettle`, `CampaignEnds`, `ConflictsFinalize`,
  `EnginesFinish`.
- `Wire`: its decoder is recursive over bytes.
- `CampaignPasses` of `PhaseA`: that a fixed script passes when nothing fails, with one
  set of parties, where a theorem says little more than the run.

## 5. Not modelled, and what is left

- TPM probes (SEC-005, 006, 006.1): calls into a Windows driver whose answers they
  print. Signature benchmarks PERF-015 to 025 and PERF-001 to 003: loops without
  interaction. `metrics.rs`, `config.rs`, CI.
- Of modelled components: byte layouts of the logs, sockets below a frame, the frames
  of SEC-007, evidence and reports, the leader rotation of `model.rs`, decoding and
  verification in the ingress pipelines, the fixed scripts of the controllers of
  SEC-003, 004, 007, 009 and 013 to 016, whose steps are instances of what the
  models allow.
- The directory entry of a new log (`WalStore`), and cryptography itself.
