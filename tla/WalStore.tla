------------------------------ MODULE WalStore ------------------------------
(***************************************************************************)
(* The validator's write-ahead log: integration001/src/store.rs.  A call   *)
(* that changes something appends one record with three writes and a sync, *)
(* and only then updates memory and returns; the process may be killed, or *)
(* the disk may fail, between any two of those.  A start replays the whole *)
(* file and refuses it altogether if any record is incomplete or illegal.  *)
(*                                                                         *)
(* A snapshot stands for its root, committee and epoch (validate_snapshot  *)
(* only admits this committee's); digests are never the zero digest.       *)
(***************************************************************************)
EXTENDS Naturals, Sequences, FiniteSets

CONSTANTS
  Conflicts, Digests, Rounds,   \* what votes are about
  Txs, Certs,                   \* what an application records
  Snapshots, GenesisOffers,     \* snapshots; those a start may be given
  Handoffs,                     \* handoff digests
  Committees, Committee,        \* committees a retirement may name; this one
  Epochs, Epoch, MaxEpoch,      \* epochs it may name; this one; the last u64
  MaxRecords                    \* bound: records in the file

ASSUME WalAssumption ==
  /\ GenesisOffers \subseteq Snapshots
  /\ Committee \in Committees
  /\ Epochs \subseteq Nat /\ Epoch \in 0..MaxEpoch
  /\ MaxRecords \in Nat \ {0}

VARIABLES
  file,       \* the records in the file, an incomplete one at the end as Torn
  synced,     \* how many of them a completed sync_all covers
  proc,       \* the process: "down", "opening" a new file, or "up"
  mem,        \* the WalStore structure of the running process, else NoStore
  poisoned,   \* an append failed in this process
  pending,    \* the payload being appended, a set of at most one
  stage,      \* how far that append is
  acked,      \* payloads whose call returned success, in any process
  fresh       \* those of them that were told Persisted

vars == <<file, synced, proc, mem, poisoned, pending, stage, acked, fresh>>

-----------------------------------------------------------------------------
(* Payloads and records                                                    *)

Phases == {"prevote", "precommit"}

Initializes == [kind : {"initialize"}, snapshot : Snapshots]
Activations == [kind : {"activate"}, handoff : Handoffs, snapshot : Snapshots]
Votes == [kind : {"vote"}, conflict : Conflicts, round : Rounds,
          phase : Phases, digest : Digests]
Applications == [kind : {"apply"}, tx : Txs, cert : Certs,
                 prior : Snapshots, next : Snapshots]
Retirements == [kind : {"retire"}, handoff : Handoffs, committee : Committees,
                epoch : Epochs, snapshot : Snapshots]
Payloads == Initializes \cup Activations \cup Votes \cup Applications \cup Retirements

Torn == [seq |-> 0, op |-> [kind |-> "torn"]]
Record == [seq : 0..MaxRecords, op : Payloads]

NoStore == [lifecycle |-> "none"]

InitialStore(snap) ==
  [initial |-> snap, lifecycle |-> "initialized", snapshot |-> snap,
   activation |-> {}, retirement |-> {}, votes |-> {},
   locks |-> [c \in Conflicts |-> {}], applied |-> {}, nextSeq |-> 1]

SameKey(a, b) == a.conflict = b.conflict /\ a.round = b.round /\ a.phase = b.phase

\* Mutant: a vote may move the lock to another digest.
RespectsLockRound(s, op) == \A l \in s.locks[op.conflict] : l.round <= op.round

RespectsLock(s, op) ==
  \A l \in s.locks[op.conflict] : l.round <= op.round /\ l.digest = op.digest

Lock(op) == [round |-> op.round, digest |-> op.digest]

-----------------------------------------------------------------------------
(* Replay: what a start makes of a file (at most one store, {} if refused) *)

Replayable(s, rec) ==
  LET op == rec.op IN
  /\ rec.seq = s.nextSeq
  /\ \/ /\ op.kind = "activate"
        /\ s.lifecycle = "initialized" /\ s.activation = {}
        /\ op.snapshot = s.snapshot
     \/ /\ op.kind = "vote"
        /\ s.lifecycle = "active"
        /\ ~ \E w \in s.votes : SameKey(w, op)
        /\ RespectsLock(s, op)
     \/ /\ op.kind = "apply"
        /\ s.lifecycle = "active"
        /\ ~ \E a \in s.applied : a.tx = op.tx
        /\ op.prior = s.snapshot /\ op.next # op.prior
     \/ /\ op.kind = "retire"
        /\ s.lifecycle = "active"
        /\ op.committee # Committee /\ Epoch < MaxEpoch /\ op.epoch = Epoch + 1
        /\ op.snapshot = s.snapshot

ReplayEffect(s, rec) ==
  LET op == rec.op
      t == [s EXCEPT !.nextSeq = @ + 1]
  IN  CASE op.kind = "activate" ->
             [t EXCEPT !.lifecycle = "active", !.activation = {op}]
        [] op.kind = "vote" ->
             [t EXCEPT !.votes = @ \cup {op},
                       !.locks[op.conflict] =
                          IF op.phase = "precommit" THEN {Lock(op)} ELSE @]
        [] op.kind = "apply" ->
             [t EXCEPT !.applied = @ \cup {op}, !.snapshot = op.next]
        [] op.kind = "retire" ->
             [t EXCEPT !.lifecycle = "retired", !.retirement = {op}]

ReplayRecord(found, rec) ==
  {ReplayEffect(s, rec) : s \in {t \in found : Replayable(t, rec)}}

Replay(log) ==
  LET found[k \in DOMAIN log] ==
        IF k = 1 THEN {InitialStore(log[1].op.snapshot)}
        ELSE ReplayRecord(found[k - 1], log[k])
  IN  IF log = <<>> \/ log[1].op.kind # "initialize" THEN {} ELSE found[Len(log)]

-----------------------------------------------------------------------------
Init ==
  /\ file = <<>> /\ synced = 0
  /\ proc = "down" /\ mem = NoStore /\ poisoned = FALSE
  /\ pending = {} /\ stage = "idle"
  /\ acked = {} /\ fresh = {}

(* Calls.  A call that would change nothing is answered AlreadyPresent, one
   that is refused leaves no trace, any other starts an append.            *)

Healthy == proc = "up" /\ stage = "idle" /\ ~ poisoned

\* next_snapshot's prior root is filled in by the store.
Request == Activations \cup Votes \cup {a \in Applications : a.prior = mem.snapshot}
             \cup {r \in Retirements : r.snapshot = mem.snapshot}

AlreadyPresent(op) ==
  \/ op.kind = "activate" /\ mem.lifecycle = "active" /\ op \in mem.activation
  \/ op.kind = "vote" /\ mem.lifecycle = "active" /\ op \in mem.votes
  \/ op.kind = "apply" /\ op \in mem.applied
  \/ op.kind = "retire" /\ mem.lifecycle = "retired" /\ op \in mem.retirement

ActivateAllowed(op) ==
  op.kind = "activate" /\ mem.lifecycle = "initialized" /\ op.snapshot = mem.snapshot

VoteAllowed(op) ==
  /\ op.kind = "vote" /\ mem.lifecycle = "active"
  /\ ~ \E w \in mem.votes : SameKey(w, op)
  /\ RespectsLock(mem, op)

ApplyAllowed(op) ==
  /\ op.kind = "apply"
  /\ ~ \E a \in mem.applied : a.tx = op.tx
  /\ mem.lifecycle = "active"
  /\ op.next # mem.snapshot

RetireAllowed(op) ==
  /\ op.kind = "retire" /\ mem.lifecycle = "active"
  /\ Epoch < MaxEpoch /\ op.epoch = Epoch + 1
  /\ op.committee # Committee

Begin(op) ==
  /\ pending' = {op} /\ stage' = "called"
  /\ UNCHANGED <<file, synced, mem, poisoned, acked, fresh>>

Call ==
  /\ Healthy /\ mem.nextSeq < MaxRecords
  /\ \E op \in Request :
       /\ ActivateAllowed(op) \/ VoteAllowed(op) \/ ApplyAllowed(op) \/ RetireAllowed(op)
       /\ Begin(op)
  /\ UNCHANGED proc

\* The second of two equal calls.
CallAgain ==
  /\ Healthy
  /\ \E op \in mem.activation \cup mem.votes \cup mem.applied \cup mem.retirement :
       AlreadyPresent(op) /\ acked' = acked \cup {op}
  /\ UNCHANGED <<file, synced, proc, mem, poisoned, pending, stage, fresh>>

-----------------------------------------------------------------------------
(* Appending                                                               *)

\* Some, then all of the record's bytes reach the file.
WritePart ==
  /\ stage = "called" /\ stage' = "partial"
  /\ file' = Append(file, Torn)
  /\ UNCHANGED <<synced, proc, mem, poisoned, pending, acked, fresh>>

WriteRest ==
  /\ stage = "partial" /\ stage' = "complete"
  /\ \E op \in pending :
       file' = [file EXCEPT ![Len(file)] =
                  [seq |-> IF proc = "opening" THEN 0 ELSE mem.nextSeq, op |-> op]]
  /\ UNCHANGED <<synced, proc, mem, poisoned, pending, acked, fresh>>

\* Mutant: the lock is not updated in memory, only by a replay.
RememberWithoutLock(op) ==
  LET m == [mem EXCEPT !.nextSeq = @ + 1]
  IN  CASE op.kind = "activate" -> [m EXCEPT !.lifecycle = "active", !.activation = {op}]
        [] op.kind = "vote" -> [m EXCEPT !.votes = @ \cup {op}]
        [] op.kind = "apply" -> [m EXCEPT !.applied = @ \cup {op}, !.snapshot = op.next]
        [] op.kind = "retire" -> [m EXCEPT !.lifecycle = "retired", !.retirement = {op}]

\* What each call does to memory once its append has returned.
Remember(op) ==
  LET m == [mem EXCEPT !.nextSeq = @ + 1]
  IN  CASE op.kind = "activate" ->
             [m EXCEPT !.lifecycle = "active", !.snapshot = op.snapshot,
                       !.activation = {op}]
        [] op.kind = "vote" ->
             IF op.phase = "precommit"
               THEN [m EXCEPT !.votes = @ \cup {op}, !.locks[op.conflict] = {Lock(op)}]
               ELSE [m EXCEPT !.votes = @ \cup {op}]
        [] op.kind = "apply" ->
             [m EXCEPT !.applied = @ \cup {op}, !.snapshot = op.next]
        [] op.kind = "retire" ->
             [m EXCEPT !.lifecycle = "retired", !.retirement = {op}]

\* Mutants: the call returns without the sync, or before its last write.
ReturnFrom(s, n) ==
  /\ stage = s /\ stage' = "idle"
  /\ synced' = n
  /\ proc' = "up"
  /\ \E op \in pending :
       /\ mem' = IF proc = "opening" THEN InitialStore(op.snapshot) ELSE Remember(op)
       /\ acked' = acked \cup {op} /\ fresh' = fresh \cup {op}
  /\ pending' = {}
  /\ UNCHANGED <<file, poisoned>>

ReturnWithoutSync == ReturnFrom("complete", synced)

ReturnEarly == ReturnFrom("partial", Len(file))

\* sync_all succeeds; the call returns Persisted, or open returns the new store.
SyncAndReturn ==
  /\ stage = "complete" /\ stage' = "idle"
  /\ synced' = Len(file)
  /\ proc' = "up"
  /\ \E op \in pending :
       /\ mem' = IF proc = "opening" THEN InitialStore(op.snapshot) ELSE Remember(op)
       /\ acked' = acked \cup {op} /\ fresh' = fresh \cup {op}
  /\ pending' = {}
  /\ UNCHANGED <<file, poisoned>>

Stop == proc' = "down" /\ mem' = NoStore /\ poisoned' = FALSE

\* Mutants: a failed append does not poison the store, or stays pending.
IoErrorWithoutPoison ==
  /\ stage # "idle" /\ stage' = "idle" /\ pending' = {}
  /\ UNCHANGED <<file, synced, proc, mem, poisoned, acked, fresh>>

IoErrorKeepingCall ==
  /\ stage # "idle" /\ stage' = "idle"
  /\ proc = "up" /\ poisoned' = TRUE
  /\ UNCHANGED <<file, synced, proc, mem, pending, acked, fresh>>

\* A write or the sync fails: open gives up, a running store poisons itself.
IoError ==
  /\ stage # "idle" /\ stage' = "idle" /\ pending' = {}
  /\ IF proc = "opening"
       THEN Stop
       ELSE poisoned' = TRUE /\ UNCHANGED <<proc, mem>>
  /\ UNCHANGED <<file, synced, acked, fresh>>

-----------------------------------------------------------------------------
(* Crashes and starts                                                      *)

\* The process dies; the bytes it wrote are the operating system's.
Kill ==
  /\ proc # "down" /\ Stop
  /\ stage' = "idle" /\ pending' = {}
  /\ UNCHANGED <<file, synced, acked, fresh>>

\* The machine dies: the file keeps what was synced, any longer prefix of what
\* was not, and perhaps part of one more record.
LosePower ==
  /\ Stop
  /\ stage' = "idle" /\ pending' = {}
  /\ \E n \in synced..Len(file) :
       \/ file' = SubSeq(file, 1, n)
       \/ n < Len(file) /\ file' = Append(SubSeq(file, 1, n), Torn)
  /\ synced' = Len(file')
  /\ UNCHANGED <<acked, fresh>>

\* open on an empty file writes the initialization record it is offered.
OpenEmpty ==
  /\ proc = "down" /\ file = <<>> /\ proc' = "opening"
  /\ \E g \in GenesisOffers : Begin([kind |-> "initialize", snapshot |-> g])

\* open on any other file replays it; an offered genesis must be the file's.
OpenExisting ==
  /\ proc = "down" /\ file # <<>> /\ proc' = "up"
  /\ \E s \in Replay(file), offer \in {{}} \cup {{g} : g \in GenesisOffers} :
       offer \subseteq {s.initial} /\ mem' = s
  /\ UNCHANGED <<file, synced, poisoned, pending, stage, acked, fresh>>

Next ==
  \/ Call \/ CallAgain
  \/ WritePart \/ WriteRest \/ SyncAndReturn \/ IoError
  \/ Kill \/ OpenEmpty \/ OpenExisting

Spec == Init /\ [][Next]_vars

\* On a machine that may also lose its power.
PowerNext == Next \/ LosePower

PowerSpec == Init /\ [][PowerNext]_vars

-----------------------------------------------------------------------------
(* Properties                                                              *)

TypeOK ==
  /\ file \in Seq(Record \cup {Torn}) /\ Len(file) <= MaxRecords
  /\ synced \in 0..Len(file)
  /\ proc \in {"down", "opening", "up"} /\ (mem = NoStore <=> proc # "up")
  /\ poisoned \in BOOLEAN
  /\ pending \subseteq Payloads /\ Cardinality(pending) <= 1
  /\ stage \in {"idle", "called", "partial", "complete"}
  /\ (stage = "idle" <=> pending = {})
  /\ fresh \subseteq acked /\ acked \subseteq Payloads

Payload(log) == {log[k].op : k \in DOMAIN log}

\* The file up to its incomplete last record, if it has one.
Complete(log) ==
  IF log # <<>> /\ log[Len(log)] = Torn THEN SubSeq(log, 1, Len(log) - 1) ELSE log

\* Between calls a healthy store remembers exactly what a restart would find.
MemoryMatchesFile == Healthy => Replay(file) = {mem}

\* The only damage a write, a failure or a crash leaves is an incomplete last
\* record: no start is refused because of a record the store itself completed.
OnlyATornTailIsRefused ==
  /\ \A k \in 1..Len(file) - 1 : file[k] # Torn
  /\ Complete(file) # <<>> => Replay(Complete(file)) # {}

\* Whatever a call reported as done is in the file of every later process,
\* however often the process is killed.
AckedSurvivesKill == acked \subseteq Payload(file)

\* Whatever a call reported as Persisted survives even a loss of power.
PersistedIsSynced == fresh \subseteq Payload(SubSeq(file, 1, synced))

\* Retirement is terminal: no record ever follows it, in this process or later
\* (a record that did would make a file no start accepts).
RetirementIsLast ==
  \A k \in DOMAIN file : file[k].op.kind = "retire" => k = Len(file)

\* The votes and locks a start would recover, the incomplete record put aside.
Recoverable == Replay(Complete(file))

Book == INSTANCE VoteBook WITH
  Owners <- {Committee}, Cells <- Conflicts, Values <- Digests,
  votes <- [o \in {Committee} |->
              {[phase |-> w.phase, round |-> w.round, cell |-> w.conflict,
                value |-> w.digest] : w \in UNION {s.votes : s \in Recoverable}}],
  lock <- [o \in {Committee} |-> [c \in Conflicts |->
              {[round |-> l.round, value |-> l.digest] :
                 l \in UNION {s.locks[c] : s \in Recoverable}}]]

\* What a start would recover is a book of votes: through every interrupted
\* append, failure and kill it only gains votes, by the rules of VoteBook.
RecoversAVoteBook == Book!Spec

\* "A successful method return means the decision is past the OS durability
\* boundary" (the comment on append_record's sync_all): whatever a call reported
\* as done, AlreadyPresent included, is synced.
AckedIsSynced == acked \subseteq Payload(SubSeq(file, 1, synced))
=============================================================================
