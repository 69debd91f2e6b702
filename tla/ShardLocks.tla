----------------------------- MODULE ShardLocks -----------------------------
(***************************************************************************)
(* The locking engines: run_lock of PERF-005 and, where nothing contends,  *)
(* PERF-004.  A worker takes every WorkerCount-th transaction.  It locks   *)
(* the shards of the inputs and of the output one after the other, in      *)
(* ascending order, looks whether all inputs are there, moves their value  *)
(* into the output, and drops the locks.                                   *)
(***************************************************************************)
EXTENDS Batches, FiniteSetsExt

CONSTANTS
  LockWorkers,   \* number of workers
  ShardCount,
  Placements     \* what the hashes may say: shards of the cells and of the outputs

ASSUME ShardLocksAssumption ==
  /\ LockWorkers \in Nat \ {0} /\ ShardCount \in Nat \ {0}
  /\ Placements \subseteq [cell : [Serials -> 0..(ShardCount - 1)],
                           output : [AllTxs -> 0..(ShardCount - 1)]]

Shards == 0..(ShardCount - 1)
Lockers == 0..(LockWorkers - 1)

VARIABLES
  contended, placement,  \* what the hashes say
  current,   \* per worker: its transaction, beyond AllTxs when it has finished
  step,      \* per worker: "lock", "move" its inputs, "drop" its locks, or "panicked"
  held,      \* per worker: shards it has locked
  moved,     \* per worker: inputs it has removed for the transaction in hand
  cells,     \* serials of the input cells in the maps
  committed, aborted

lockVars == <<contended, placement, current, step, held, moved, cells, committed, aborted>>

LockInit ==
  /\ contended \in SUBSET (AllTxs \ {0}) /\ placement \in Placements
  /\ current = [w \in Lockers |-> w]
  /\ step = [w \in Lockers |-> "lock"]
  /\ held = [w \in Lockers |-> {}] /\ moved = [w \in Lockers |-> {}]
  /\ cells = Serials /\ committed = {} /\ aborted = {}

-----------------------------------------------------------------------------
\* Mutant: only the shard of the output is locked.
LockOutputOnly(t) == {placement.output[t]}

\* The shards of the inputs and of the output, without duplicates.
LockSet(t) == {placement.cell[i] : i \in Refs(t, contended)} \cup {placement.output[t]}

Locked(k) == \E w \in Lockers : k \in held[w]

Busy(w) == current[w] \in AllTxs

\* Mutant: locks are taken in the order the inputs come.
LockAny(w, k) ==
  /\ Busy(w) /\ step[w] = "lock"
  /\ k \in LockSet(current[w]) \ held[w] /\ ~ Locked(k)
  /\ held' = [held EXCEPT ![w] = @ \cup {k}]
  /\ UNCHANGED <<contended, placement, current, step, moved, cells, committed, aborted>>

\* Mutant: a lock is not exclusive.
LockAnyway(w, k) ==
  /\ Busy(w) /\ step[w] = "lock"
  /\ k \in LockSet(current[w]) \ held[w]
  /\ held' = [held EXCEPT ![w] = @ \cup {k}]
  /\ UNCHANGED <<contended, placement, current, step, moved, cells, committed, aborted>>

\* The next lock of the sorted list; lock() waits for its owner.
LockShard(w, k) ==
  /\ Busy(w) /\ step[w] = "lock"
  /\ k \in LockSet(current[w]) \ held[w]
  /\ \A j \in LockSet(current[w]) \ held[w] : k <= j
  /\ ~ Locked(k)
  /\ held' = [held EXCEPT ![w] = @ \cup {k}]
  /\ UNCHANGED <<contended, placement, current, step, moved, cells, committed, aborted>>

\* With all locks held: are all inputs there?  If not, the transaction is aborted.
Check(w) ==
  LET t == current[w]
  IN  /\ Busy(w) /\ step[w] = "lock" /\ held[w] = LockSet(t)
      /\ IF Refs(t, contended) \subseteq cells
           THEN step' = [step EXCEPT ![w] = "move"] /\ UNCHANGED aborted
           ELSE step' = [step EXCEPT ![w] = "drop"] /\ aborted' = aborted \cup {t}
      /\ UNCHANGED <<contended, placement, current, held, moved, cells, committed>>

\* Remove one input; that it is there has been checked, so otherwise panic.
MoveInput(w, i) ==
  /\ step[w] = "move" /\ i \in Refs(current[w], contended) \ moved[w]
  /\ IF i \in cells
       THEN moved' = [moved EXCEPT ![w] = @ \cup {i}] /\ cells' = cells \ {i} /\ UNCHANGED step
       ELSE step' = [step EXCEPT ![w] = "panicked"] /\ UNCHANGED <<moved, cells>>
  /\ UNCHANGED <<contended, placement, current, held, committed, aborted>>

\* All inputs are removed: the output goes into the map of its shard.
InsertOutput(w) ==
  /\ step[w] = "move" /\ moved[w] = Refs(current[w], contended)
  /\ committed' = committed \cup {current[w]}
  /\ step' = [step EXCEPT ![w] = "drop"]
  /\ moved' = [moved EXCEPT ![w] = {}]
  /\ UNCHANGED <<contended, placement, current, held, cells, aborted>>

\* The guards go one by one; with the last the worker turns to its next transaction.
DropLock(w) ==
  /\ step[w] = "drop"
  /\ held' = [held EXCEPT ![w] = @ \ {Min(@)}]
  /\ IF Cardinality(held[w]) = 1
       THEN /\ current' = [current EXCEPT ![w] = @ + LockWorkers]
            /\ step' = [step EXCEPT ![w] = "lock"]
       ELSE UNCHANGED <<current, step>>
  /\ UNCHANGED <<contended, placement, moved, cells, committed, aborted>>

LockWorker(w) ==
  \/ \E k \in Shards : LockShard(w, k)
  \/ Check(w) \/ InsertOutput(w) \/ DropLock(w)
  \/ \E i \in Serials : MoveInput(w, i)

LockNext == \E w \in Lockers : LockWorker(w)

LockSpec == LockInit /\ [][LockNext]_lockVars

LocksDone == \A w \in Lockers : ~ Busy(w)

-----------------------------------------------------------------------------
LockTypeOK ==
  /\ current \in [Lockers -> Nat] /\ step \in [Lockers -> {"lock", "move", "drop", "panicked"}]
  /\ held \in [Lockers -> SUBSET Shards]
  /\ moved \in [Lockers -> SUBSET Serials]
  /\ cells \subseteq Serials /\ committed \subseteq AllTxs /\ aborted \subseteq AllTxs
  /\ \A v, w \in Lockers : v # w => held[v] \cap held[w] = {}

\* An input on its way into an output is unspent until the output is there.
Serial == INSTANCE SerialEngine
            WITH unspent <- cells \cup UNION {moved[w] : w \in Lockers}

\* Transactions that hold different locks at the same time still take effect one
\* after the other, and one aborts only over an input that another has spent
\* already, though each is a lock, a check and a removal at a time (perf005
\* main.rs:198-236).
ImplementsSerialEngine == Serial!SerialSpec
=============================================================================
