---------------------------- MODULE EngineProofs -----------------------------
(***************************************************************************)
(* The state engines, for every workload, number of workers and placement  *)
(* of the cells.  The locking engines implement SerialEngine, and a worker *)
(* that has checked its inputs finds them.  The threads of the batch       *)
(* engines implement BatchEngine, whatever the number of streams, the      *)
(* transport and the capacity of the channels, and keep its promises.      *)
(***************************************************************************)
EXTENDS ShardLocks, Ingress, FiniteSetTheorems, TLAPS

\* Multiplication by a natural number keeps the order.
LEMMA TimesMonotone ==
  ASSUME NEW a \in Int, NEW b \in Int, NEW m \in Nat, a <= b
  PROVE  a * m <= b * m
<1>1. PICK d \in Nat : b = a + d
  <2>1. b - a \in Nat /\ b = a + (b - a)
    OBVIOUS
  <2> QED
    BY <2>1
<1>2. d * m >= 0 /\ b * m = a * m + d * m
  BY <1>1
<1> QED
  BY <1>2

\* What a transaction refers to are cells of the workload (referenced_serial).
LEMMA ReferencesAreCells ==
  ASSUME NEW t \in AllTxs, NEW chosen \in SUBSET (AllTxs \ {0})
  PROVE  Refs(t, chosen) \subseteq Serials
<1>1. TxCount \in Nat \ {0} /\ Arity \in Nat \ {0} /\ t \in Nat /\ t <= TxCount - 1
  BY BatchesAssumption DEF BatchesAssumption, AllTxs
<1> SUFFICES ASSUME NEW k \in 0..(Arity - 1)
             PROVE  Referenced(t, k, chosen) \in Serials
  BY DEF Refs
<1>2. CASE t \in chosen /\ k = 0
  <2>1. t >= 1 /\ 0 <= t - 1 /\ t - 1 <= TxCount - 1
    BY <1>1, <1>2
  <2>2. 0 * Arity <= (t - 1) * Arity /\ (t - 1) * Arity <= (TxCount - 1) * Arity
    BY <1>1, <2>1, TimesMonotone
  <2>3. (TxCount - 1) * Arity = TxCount * Arity - Arity
    BY <1>1
  <2> QED
    BY <1>1, <1>2, <2>2, <2>3 DEF Referenced, Serials
<1>3. CASE ~ (t \in chosen /\ k = 0)
  <2>1. 0 * Arity <= t * Arity /\ t * Arity <= (TxCount - 1) * Arity
    BY <1>1, TimesMonotone
  <2>2. (TxCount - 1) * Arity = TxCount * Arity - Arity
    BY <1>1
  <2> QED
    BY <1>1, <1>3, <2>1, <2>2 DEF Referenced, Serials
<1> QED
  BY <1>2, <1>3

-----------------------------------------------------------------------------
\* The transactions dealt to a worker.
Dealt(w) == {w + k * LockWorkers : k \in Nat}

\* Every LockWorkers-th transaction from its own is a worker's.
LEMMA NextIsDealt ==
  ASSUME NEW w \in Lockers
  PROVE  w \in Dealt(w) /\ \A t \in Dealt(w) : t \in Nat /\ t + LockWorkers \in Dealt(w)
<1>1. LockWorkers \in Nat \ {0} /\ w \in Nat
  BY ShardLocksAssumption DEF ShardLocksAssumption, Lockers
<1>2. w = w + 0 * LockWorkers
  BY <1>1
<1>3. ASSUME NEW k \in Nat
      PROVE  (w + k * LockWorkers) + LockWorkers = w + (k + 1) * LockWorkers
             /\ w + k * LockWorkers \in Nat
  BY <1>1
<1>4. \A k \in Nat : k + 1 \in Nat
  OBVIOUS
<1> QED
  BY <1>2, <1>3, <1>4 DEF Dealt

\* No transaction is dealt to two workers.
LEMMA DealtApart ==
  ASSUME NEW v \in Lockers, NEW w \in Lockers, v # w
  PROVE  Dealt(v) \cap Dealt(w) = {}
<1>1. LockWorkers \in Nat \ {0}
  BY ShardLocksAssumption DEF ShardLocksAssumption
<1>2. ASSUME NEW a \in Lockers, NEW b \in Lockers, NEW j \in Nat, NEW k \in Nat,
             j < k
      PROVE  a + j * LockWorkers < b + k * LockWorkers
  <2>1. (j + 1) * LockWorkers <= k * LockWorkers
    BY <1>1, <1>2, TimesMonotone
  <2>2. (j + 1) * LockWorkers = j * LockWorkers + LockWorkers
    BY <1>1
  <2>3. a < LockWorkers /\ b >= 0 /\ a \in Int /\ b \in Int
    BY <1>1 DEF Lockers
  <2>4. j * LockWorkers \in Int /\ k * LockWorkers \in Int
    BY <1>1
  <2> QED
    BY <1>1, <2>1, <2>2, <2>3, <2>4
<1>3. ASSUME NEW j \in Nat, NEW k \in Nat, v + j * LockWorkers = w + k * LockWorkers
      PROVE  FALSE
  <2>1. j * LockWorkers \in Int /\ k * LockWorkers \in Int /\ v \in Int /\ w \in Int
    BY <1>1 DEF Lockers
  <2>2. CASE j < k
    BY <1>2, <1>3, <2>1, <2>2
  <2>3. CASE k < j
    BY <1>2, <1>3, <2>1, <2>3
  <2>4. CASE j = k
    BY <1>3, <2>1, <2>4
  <2> QED
    BY <2>2, <2>3, <2>4
<1> QED
  BY <1>3 DEF Dealt

-----------------------------------------------------------------------------
LockType ==
  /\ contended \in SUBSET (AllTxs \ {0}) /\ placement \in Placements
  /\ current \in [Lockers -> Nat] /\ step \in [Lockers -> {"lock", "move", "drop"}]
  /\ held \in [Lockers -> SUBSET Shards]
  /\ moved \in [Lockers -> SUBSET Serials]
  /\ cells \subseteq Serials /\ committed \subseteq AllTxs /\ aborted \subseteq AllTxs

\* A shard is locked by one worker, and a cell is in one place.
Exclusive ==
  /\ \A v, w \in Lockers : v # w =>
       held[v] \cap held[w] = {} /\ moved[v] \cap moved[w] = {}
  /\ \A w \in Lockers : moved[w] \cap cells = {}

\* A worker's transaction, and what it has done for it so far: a worker that moves its
\* inputs holds all its locks, and finds what it has not moved yet.
InHand(w) ==
  LET t == current[w]
  IN  /\ t \in Dealt(w)
      /\ step[w] # "lock" => t \in AllTxs
      /\ step[w] # "move" => moved[w] = {}
      /\ step[w] = "move" =>
           /\ held[w] = LockSet(t) /\ moved[w] \subseteq Refs(t, contended)
           /\ Refs(t, contended) \subseteq cells \cup moved[w]

\* A worker has decided the transactions before the one in hand, and that one too when
\* it drops its locks.
DecidedInTurn ==
  \A t \in committed \cup aborted, w \in Lockers : t \in Dealt(w) =>
    t < current[w] \/ (t = current[w] /\ step[w] = "drop")

\* A cell that is gone has been spent, or is on its way into an output.
NothingIsLost ==
  \A i \in Serials : i \in cells \/ (\E w \in Lockers : i \in moved[w])
                     \/ \E t \in committed : i \in Refs(t, contended)

LocksInv ==
  LockType /\ Exclusive /\ (\A w \in Lockers : InHand(w)) /\ DecidedInTurn /\ NothingIsLost

\* Nothing is locked, moved or decided in the beginning.
LEMMA LocksInit == LockInit => LocksInv
<1> SUFFICES ASSUME LockInit PROVE LocksInv
  OBVIOUS
<1>1. Lockers \subseteq Nat
  BY ShardLocksAssumption DEF ShardLocksAssumption, Lockers
<1>2. LockType
  BY <1>1 DEF LockInit, LockType
<1>3. Exclusive /\ NothingIsLost /\ DecidedInTurn
  BY DEF LockInit, Exclusive, NothingIsLost, DecidedInTurn
<1>4. \A w \in Lockers : InHand(w)
  BY NextIsDealt DEF LockInit, InHand
<1> QED
  BY <1>2, <1>3, <1>4 DEF LocksInv

\* Two workers never work on the same transaction, nor one on a decided one.
LEMMA InHandIsNew ==
  ASSUME LocksInv, NEW w \in Lockers
  PROVE  /\ current[w] \in Nat /\ current[w] + LockWorkers \in Nat
         /\ current[w] < current[w] + LockWorkers
         /\ \A v \in Lockers : current[w] \in Dealt(v) => v = w
         /\ step[w] # "drop" => current[w] \notin committed \cup aborted
<1>1. current[w] \in Dealt(w) /\ current[w] \in Nat
  BY DEF LocksInv, InHand, LockType
<1>2. LockWorkers \in Nat \ {0}
  BY ShardLocksAssumption DEF ShardLocksAssumption
<1>3. \A v \in Lockers : current[w] \in Dealt(v) => v = w
  BY <1>1, DealtApart
<1>4. step[w] # "drop" => current[w] \notin committed \cup aborted
  BY <1>1 DEF LocksInv, DecidedInTurn
<1> QED
  BY <1>1, <1>2, <1>3, <1>4

\* A shard that is free goes to one worker.
LEMMA LockShardStep ==
  ASSUME LocksInv, NEW w \in Lockers, NEW k \in Shards, LockShard(w, k)
  PROVE  LocksInv'
<1>1. /\ step[w] = "lock" /\ \A v \in Lockers : k \notin held[v]
      /\ held' = [held EXCEPT ![w] = @ \cup {k}]
      /\ UNCHANGED <<contended, placement, current, step, moved, cells, committed, aborted>>
  BY DEF LockShard, Locked
<1>2. \A v \in Lockers : held'[v] = IF v = w THEN held[v] \cup {k} ELSE held[v]
  BY <1>1 DEF LocksInv, LockType
<1>3. LockType'
  BY <1>1 DEF LocksInv, LockType
<1>4. Exclusive'
  BY <1>1, <1>2 DEF LocksInv, Exclusive
<1>5. ASSUME NEW v \in Lockers PROVE InHand(v)'
  BY <1>1, <1>2 DEF LocksInv, InHand, LockSet
<1>6. DecidedInTurn' /\ NothingIsLost'
  BY <1>1 DEF LocksInv, DecidedInTurn, NothingIsLost
<1> QED
  BY <1>3, <1>4, <1>5, <1>6 DEF LocksInv

\* A worker that has all its locks decides for itself: nobody else refers to these
\* cells.
LEMMA CheckStep ==
  ASSUME LocksInv, NEW w \in Lockers, Check(w)
  PROVE  LocksInv'
<1> DEFINE t == current[w]
<1>1. /\ t \in AllTxs /\ step[w] = "lock" /\ held[w] = LockSet(t) /\ moved[w] = {}
      /\ UNCHANGED <<contended, placement, current, held, moved, cells, committed>>
  BY DEF Check, Busy, LocksInv, InHand
<1>2. CASE Refs(t, contended) \subseteq cells
  <2>1. step' = [step EXCEPT ![w] = "move"] /\ aborted' = aborted
    BY <1>2 DEF Check
  <2>2. \A v \in Lockers : step'[v] = IF v = w THEN "move" ELSE step[v]
    BY <2>1 DEF LocksInv, LockType
  <2>3. LockType' /\ Exclusive' /\ NothingIsLost'
    BY <1>1, <2>1 DEF LocksInv, LockType, Exclusive, NothingIsLost
  <2>4. ASSUME NEW v \in Lockers PROVE InHand(v)'
    <3>1. InHand(v)
      BY DEF LocksInv
    <3>2. CASE v = w
      BY <1>1, <1>2, <2>2, <3>1, <3>2 DEF InHand, LockSet
    <3>3. CASE v # w
      BY <1>1, <2>2, <3>1, <3>3 DEF InHand, LockSet
    <3> QED
      BY <3>2, <3>3
  <2>5. DecidedInTurn'
    BY <1>1, <2>1, <2>2 DEF LocksInv, DecidedInTurn
  <2> QED
    BY <2>3, <2>4, <2>5 DEF LocksInv
<1>3. CASE ~ (Refs(t, contended) \subseteq cells)
  <2>1. step' = [step EXCEPT ![w] = "drop"] /\ aborted' = aborted \cup {t}
    BY <1>3 DEF Check
  <2>2. \A v \in Lockers : step'[v] = IF v = w THEN "drop" ELSE step[v]
    BY <2>1 DEF LocksInv, LockType
  <2>3. LockType' /\ Exclusive' /\ NothingIsLost'
    BY <1>1, <2>1 DEF LocksInv, LockType, Exclusive, NothingIsLost
  <2>4. ASSUME NEW v \in Lockers PROVE InHand(v)'
    <3>1. InHand(v)
      BY DEF LocksInv
    <3>2. CASE v = w
      BY <1>1, <2>2, <3>1, <3>2 DEF InHand, LockSet
    <3>3. CASE v # w
      BY <1>1, <2>2, <3>1, <3>3 DEF InHand, LockSet
    <3> QED
      BY <3>2, <3>3
  <2>5. DecidedInTurn'
    <3> SUFFICES ASSUME NEW u \in committed' \cup aborted', NEW v \in Lockers, u \in Dealt(v)
                 PROVE  u < current'[v] \/ (u = current'[v] /\ step'[v] = "drop")
      BY DEF DecidedInTurn
    <3>1. CASE u = t
      <4>1. v = w
        BY <3>1, InHandIsNew
      <4> QED
        BY <1>1, <2>2, <3>1, <4>1
    <3>2. CASE u # t
      <4>1. u < current[v] \/ (u = current[v] /\ step[v] = "drop")
        BY <1>1, <2>1, <3>2 DEF LocksInv, DecidedInTurn
      <4> QED
        BY <1>1, <2>2, <4>1
    <3> QED
      BY <3>1, <3>2
  <2> QED
    BY <2>3, <2>4, <2>5 DEF LocksInv
<1> QED
  BY <1>2, <1>3

\* The locks of the worker keep every other away from the input.
LEMMA NobodyElseRefersTo ==
  ASSUME LocksInv, NEW w \in Lockers, NEW v \in Lockers, v # w,
         held[w] = LockSet(current[w]), held[v] = LockSet(current[v]),
         NEW i \in Refs(current[w], contended)
  PROVE  i \notin Refs(current[v], contended)
<1>1. held[v] \cap held[w] = {}
  BY DEF LocksInv, Exclusive
<1> QED
  BY <1>1 DEF LockSet

\* An input that the check has found is still there when it is moved.
LEMMA MoveInputStep ==
  ASSUME LocksInv, NEW w \in Lockers, NEW i \in Serials, MoveInput(w, i)
  PROVE  /\ LocksInv' /\ i \in cells /\ step' = step
         /\ moved' = [moved EXCEPT ![w] = @ \cup {i}] /\ cells' = cells \ {i}
<1>1. /\ step[w] = "move" /\ i \in Refs(current[w], contended) /\ i \notin moved[w]
      /\ UNCHANGED <<contended, placement, current, held, committed, aborted>>
  BY DEF MoveInput
<1>2. i \in cells /\ held[w] = LockSet(current[w])
  BY <1>1 DEF LocksInv, InHand
<1>3. /\ moved' = [moved EXCEPT ![w] = @ \cup {i}] /\ cells' = cells \ {i} /\ step' = step
  BY <1>2 DEF MoveInput
<1>4. \A v \in Lockers : moved'[v] = IF v = w THEN moved[v] \cup {i} ELSE moved[v]
  BY <1>3 DEF LocksInv, LockType
<1>5. LockType'
  BY <1>1, <1>3 DEF LocksInv, LockType
<1>6. Exclusive'
  BY <1>1, <1>2, <1>3, <1>4 DEF LocksInv, Exclusive
<1>7. ASSUME NEW v \in Lockers PROVE InHand(v)'
  <2>1. InHand(v)
    BY DEF LocksInv
  <2>2. CASE v = w
    BY <1>1, <1>3, <1>4, <2>1, <2>2 DEF InHand, LockSet
  <2>3. CASE v # w /\ step[v] # "move"
    BY <1>1, <1>3, <1>4, <2>1, <2>3 DEF InHand, LockSet
  <2>4. CASE v # w /\ step[v] = "move"
    <3>1. i \notin Refs(current[v], contended)
      BY <1>1, <1>2, <2>1, <2>4, NobodyElseRefersTo DEF InHand
    <3> QED
      BY <1>1, <1>3, <1>4, <2>1, <2>4, <3>1 DEF InHand, LockSet
  <2> QED
    BY <2>2, <2>3, <2>4
<1>8. DecidedInTurn'
  BY <1>1, <1>3 DEF LocksInv, DecidedInTurn
<1>9. NothingIsLost'
  BY <1>1, <1>3, <1>4 DEF LocksInv, NothingIsLost
<1> QED
  BY <1>2, <1>3, <1>5, <1>6, <1>7, <1>8, <1>9 DEF LocksInv

\* A transaction is committed once, with all its inputs moved.
LEMMA InsertOutputStep ==
  ASSUME LocksInv, NEW w \in Lockers, InsertOutput(w)
  PROVE  LocksInv'
<1> DEFINE t == current[w]
<1>1. /\ step[w] = "move" /\ moved[w] = Refs(t, contended) /\ t \in AllTxs
      /\ committed' = committed \cup {t} /\ step' = [step EXCEPT ![w] = "drop"]
      /\ moved' = [moved EXCEPT ![w] = {}]
      /\ UNCHANGED <<contended, placement, current, held, cells, aborted>>
  BY DEF InsertOutput, LocksInv, InHand
<1>2. \A v \in Lockers : /\ moved'[v] = IF v = w THEN {} ELSE moved[v]
                         /\ step'[v] = IF v = w THEN "drop" ELSE step[v]
  BY <1>1 DEF LocksInv, LockType
<1>3. LockType'
  BY <1>1 DEF LocksInv, LockType
<1>4. Exclusive'
  BY <1>1, <1>2 DEF LocksInv, Exclusive
<1>5. ASSUME NEW v \in Lockers PROVE InHand(v)'
  <2>1. InHand(v)
    BY DEF LocksInv
  <2>2. CASE v = w
    BY <1>1, <1>2, <2>1, <2>2 DEF InHand
  <2>3. CASE v # w
    BY <1>1, <1>2, <2>1, <2>3 DEF InHand, LockSet
  <2> QED
    BY <2>2, <2>3
<1>6. DecidedInTurn'
  <2> SUFFICES ASSUME NEW u \in committed' \cup aborted', NEW v \in Lockers, u \in Dealt(v)
               PROVE  u < current'[v] \/ (u = current'[v] /\ step'[v] = "drop")
    BY DEF DecidedInTurn
  <2>1. CASE u = t
    <3>1. v = w
      BY <2>1, InHandIsNew
    <3> QED
      BY <1>1, <1>2, <2>1, <3>1
  <2>2. CASE u # t
    <3>1. u < current[v] \/ (u = current[v] /\ step[v] = "drop")
      BY <1>1, <2>2 DEF LocksInv, DecidedInTurn
    <3> QED
      BY <1>1, <1>2, <3>1
  <2> QED
    BY <2>1, <2>2
<1>7. NothingIsLost'
  BY <1>1, <1>2 DEF LocksInv, NothingIsLost
<1> QED
  BY <1>3, <1>4, <1>5, <1>6, <1>7 DEF LocksInv

\* A worker that drops its last lock turns to its next transaction.
LEMMA DropLockStep ==
  ASSUME LocksInv, NEW w \in Lockers, DropLock(w)
  PROVE  LocksInv'
<1>1. /\ step[w] = "drop" /\ held' = [held EXCEPT ![w] = @ \ {Min(@)}]
      /\ UNCHANGED <<contended, placement, moved, cells, committed, aborted>>
  BY DEF DropLock
<1>2. \/ current' = [current EXCEPT ![w] = @ + LockWorkers] /\ step' = [step EXCEPT ![w] = "lock"]
      \/ UNCHANGED <<current, step>>
  BY DEF DropLock
<1>3. /\ \A v \in Lockers : held'[v] \subseteq held[v] /\ (v # w => held'[v] = held[v])
      /\ \A v \in Lockers : v # w => current'[v] = current[v] /\ step'[v] = step[v]
      /\ current'[w] \in {current[w], current[w] + LockWorkers} /\ step'[w] \in {"lock", "drop"}
      /\ step'[w] = "lock" => current'[w] = current[w] + LockWorkers
      /\ step'[w] = "drop" => current'[w] = current[w]
  BY <1>1, <1>2 DEF LocksInv, LockType
<1>4. LockType'
  <2>1. current[w] + LockWorkers \in Nat
    BY InHandIsNew
  <2> QED
    BY <1>1, <1>2, <2>1 DEF LocksInv, LockType
<1>5. Exclusive' /\ NothingIsLost'
  BY <1>1, <1>3 DEF LocksInv, Exclusive, NothingIsLost
<1>6. ASSUME NEW v \in Lockers PROVE InHand(v)'
  <2>1. InHand(v)
    BY DEF LocksInv
  <2>2. CASE v = w
    BY <1>1, <1>3, <2>1, <2>2, NextIsDealt DEF InHand
  <2>3. CASE v # w
    BY <1>1, <1>3, <2>1, <2>3 DEF InHand, LockSet
  <2> QED
    BY <2>2, <2>3
<1>7. DecidedInTurn'
  <2> SUFFICES ASSUME NEW u \in committed \cup aborted, NEW v \in Lockers, u \in Dealt(v)
               PROVE  u < current'[v] \/ (u = current'[v] /\ step'[v] = "drop")
    BY <1>1 DEF DecidedInTurn
  <2>1. u < current[v] \/ (u = current[v] /\ step[v] = "drop")
    BY DEF LocksInv, DecidedInTurn
  <2>2. u \in Nat /\ current[v] < current[v] + LockWorkers /\ current[v] \in Nat
    BY NextIsDealt, InHandIsNew
  <2>3. LockWorkers \in Nat
    BY ShardLocksAssumption DEF ShardLocksAssumption
  <2> QED
    BY <1>3, <2>1, <2>2, <2>3
<1> QED
  BY <1>4, <1>5, <1>6, <1>7 DEF LocksInv

\* Steps of nothing keep the invariant.
LEMMA LocksStutter ==
  ASSUME LocksInv, UNCHANGED lockVars
  PROVE  LocksInv'
<1>1. LockType' /\ Exclusive' /\ DecidedInTurn' /\ NothingIsLost'
  BY DEF lockVars, LocksInv, LockType, Exclusive, DecidedInTurn, NothingIsLost
<1>2. \A w \in Lockers : InHand(w)'
  BY DEF lockVars, LocksInv, InHand, LockSet
<1> QED
  BY <1>1, <1>2 DEF LocksInv

\* Every step keeps the invariant.
LEMMA LocksStep == LocksInv /\ [LockNext]_lockVars => LocksInv'
BY LockShardStep, CheckStep, MoveInputStep, InsertOutputStep, DropLockStep, LocksStutter
   DEF LockNext, LockWorker

\* The invariant holds in every reachable state.
LEMMA LocksSafe == LockSpec => []LocksInv
BY LocksInit, LocksStep, PTL DEF LockSpec

\* The panic of perf005 main.rs:229, "validated input disappeared", is never reached.
THEOREM NoWorkerPanics == LockSpec => [](\A w \in Lockers : step[w] # "panicked")
<1>1. LocksInv => \A w \in Lockers : step[w] # "panicked"
  BY DEF LocksInv, LockType
<1> QED
  BY <1>1, LocksSafe, PTL

-----------------------------------------------------------------------------
SerialUnspent == cells \cup UNION {moved[w] : w \in Lockers}

\* SerialEngine's workload is this one.
LEMMA SameWorkload ==
  /\ Serial!AllTxs = AllTxs /\ Serial!Serials = Serials
  /\ \A t, p : Serial!Refs(t, p) = Refs(t, p)
BY DEF Serial!AllTxs, AllTxs, Serial!Serials, Serials, Serial!Refs, Refs,
       Serial!Referenced, Referenced

\* A step commits or aborts one transaction of SerialEngine, or none.
LEMMA StepIsSerial ==
  ASSUME LocksInv, [LockNext]_lockVars
  PROVE  [Serial!SerialNext]_<<contended, SerialUnspent, committed, aborted>>
<1>1. CASE UNCHANGED <<contended, moved, cells, committed, aborted>>
  BY <1>1 DEF SerialUnspent
<1>2. ASSUME NEW w \in Lockers, Check(w), ~ (Refs(current[w], contended) \subseteq cells)
      PROVE  Serial!SerialNext
  <2> DEFINE t == current[w]
  <2>1. /\ t \in AllTxs /\ step[w] = "lock" /\ held[w] = LockSet(t) /\ aborted' = aborted \cup {t}
        /\ UNCHANGED <<contended, moved, cells, committed>>
    BY <1>2 DEF Check, Busy
  <2>2. t \notin committed \cup aborted
    BY <2>1, InHandIsNew
  <2>3. PICK i \in Refs(t, contended) : i \notin cells
    BY <1>2
  <2>4. i \in Serials
    BY <2>1, ReferencesAreCells DEF LocksInv, LockType
  <2>5. \A v \in Lockers : i \notin moved[v]
    <3> SUFFICES ASSUME NEW v \in Lockers, i \in moved[v] PROVE FALSE
      OBVIOUS
    <3>1. InHand(v) /\ InHand(w)
      BY DEF LocksInv
    <3>2. step[v] = "move" /\ held[v] = LockSet(current[v]) /\ i \in Refs(current[v], contended)
      BY <3>1 DEF InHand
    <3>3. v # w
      BY <2>1, <3>2
    <3> QED
      BY <2>1, <3>2, <3>3, NobodyElseRefersTo
  <2>6. \E u \in committed : Refs(t, contended) \cap Refs(u, contended) # {}
    BY <2>3, <2>4, <2>5 DEF LocksInv, NothingIsLost
  <2>7. SerialUnspent' = SerialUnspent
    BY <2>1 DEF SerialUnspent
  <2> HIDE DEF t
  <2>8. \E u \in committed : Serial!Refs(t, contended) \cap Serial!Refs(u, contended) # {}
    BY <2>6, SameWorkload
  <2>9. Serial!Abort(t)
    BY <2>1, <2>2, <2>7, <2>8 DEF Serial!Abort, SerialUnspent
  <2> QED
    BY <2>1, <2>9, SameWorkload DEF Serial!SerialNext
<1>3. ASSUME NEW w \in Lockers, NEW i \in Serials, MoveInput(w, i)
      PROVE  UNCHANGED <<contended, SerialUnspent, committed, aborted>>
  <2>1. /\ i \in cells /\ moved' = [moved EXCEPT ![w] = @ \cup {i}] /\ cells' = cells \ {i}
    BY <1>3, MoveInputStep
  <2>2. \A v \in Lockers : moved'[v] = IF v = w THEN moved[v] \cup {i} ELSE moved[v]
    BY <2>1 DEF LocksInv, LockType
  <2>3. SerialUnspent' = SerialUnspent
    BY <2>1, <2>2 DEF SerialUnspent
  <2> QED
    BY <1>3, <2>3 DEF MoveInput
<1>4. ASSUME NEW w \in Lockers, InsertOutput(w)
      PROVE  Serial!SerialNext
  <2> DEFINE t == current[w]
  <2>1. /\ step[w] = "move" /\ moved[w] = Refs(t, contended) /\ t \in AllTxs
        /\ committed' = committed \cup {t} /\ moved' = [moved EXCEPT ![w] = {}]
        /\ UNCHANGED <<contended, cells, aborted>>
    BY <1>4 DEF InsertOutput, LocksInv, InHand
  <2>2. t \notin committed \cup aborted
    BY <2>1, InHandIsNew
  <2>3. \A v \in Lockers : moved'[v] = IF v = w THEN {} ELSE moved[v]
    BY <2>1 DEF LocksInv, LockType
  <2>4. Refs(t, contended) \subseteq SerialUnspent
    BY <2>1 DEF SerialUnspent
  <2>5. SerialUnspent' = SerialUnspent \ Refs(t, contended)
    <3>1. \A v \in Lockers : v # w => moved[v] \cap moved[w] = {}
      BY DEF LocksInv, Exclusive
    <3>2. moved[w] \cap cells = {}
      BY DEF LocksInv, Exclusive
    <3> HIDE DEF t
    <3>3. \A i : i \in SerialUnspent' <=> i \in SerialUnspent /\ i \notin Refs(t, contended)
      BY <2>1, <2>3, <3>1, <3>2 DEF SerialUnspent
    <3> QED
      BY <3>3
  <2> HIDE DEF t
  <2>6. Serial!Refs(t, contended) = Refs(t, contended)
    BY SameWorkload
  <2>7. PICK x \in Serial!AllTxs : x = t
    BY <2>1, SameWorkload
  <2>8. Serial!Commit(x)
    BY <2>1, <2>2, <2>4, <2>5, <2>6, <2>7 DEF Serial!Commit, SerialUnspent
  <2> QED
    BY <2>8 DEF Serial!SerialNext
<1>5. ASSUME NEW w \in Lockers, Check(w), Refs(current[w], contended) \subseteq cells
      PROVE  UNCHANGED <<contended, moved, cells, committed, aborted>>
  BY <1>5 DEF Check
<1>6. ASSUME NEW w \in Lockers, DropLock(w) \/ \E k \in Shards : LockShard(w, k)
      PROVE  UNCHANGED <<contended, moved, cells, committed, aborted>>
  BY <1>6 DEF DropLock, LockShard
<1>7. CASE UNCHANGED lockVars
  BY <1>1, <1>7 DEF lockVars
<1> QED
  BY <1>1, <1>2, <1>3, <1>4, <1>5, <1>6, <1>7 DEF LockNext, LockWorker

\* Every transaction takes effect at once, in some order: it spends its inputs while they
\* are all unspent, or it aborts over an input that another has spent (perf005 main.rs
\* run_lock), for every workload and however many workers and shards there are.
THEOREM LocksAreSerial == LockSpec => ImplementsSerialEngine
<1>1. LockInit => Serial!SerialInit
  <2> SUFFICES ASSUME LockInit PROVE Serial!SerialInit
    OBVIOUS
  <2>1. \A w \in Lockers : moved[w] = {}
    BY DEF LockInit
  <2>2. SerialUnspent = Serials
    BY <2>1 DEF LockInit, SerialUnspent
  <2> QED
    BY <2>2, SameWorkload DEF LockInit, Serial!SerialInit, SerialUnspent
<1>2. LocksInv /\ [LockNext]_lockVars
        => [Serial!SerialNext]_<<contended, SerialUnspent, committed, aborted>>
  BY StepIsSerial
<1> QED
  BY <1>1, <1>2, LocksSafe, PTL
     DEF LockSpec, ImplementsSerialEngine, Serial!SerialSpec, Serial!serialVars, SerialUnspent

-----------------------------------------------------------------------------
(* The workload in numbers                                                 *)

\* Quotient and remainder are what they are for.
LEMMA Division ==
  ASSUME NEW a \in Int, NEW m \in Nat \ {0}
  PROVE  /\ a \div m \in Int /\ a % m \in 0..(m - 1)
         /\ a = (a \div m) * m + (a % m)
OBVIOUS

\* Nothing else is.
LEMMA DivisionUnique ==
  ASSUME NEW q \in Int, NEW m \in Nat \ {0}, NEW r \in 0..(m - 1)
  PROVE  (q * m + r) \div m = q /\ (q * m + r) % m = r
OBVIOUS

\* A larger number has no smaller quotient.
LEMMA DivisionMonotone ==
  ASSUME NEW a \in Int, NEW b \in Int, NEW m \in Nat \ {0}, a <= b
  PROVE  a \div m <= b \div m
<1>1. /\ a \div m \in Int /\ a % m \in 0..(m - 1) /\ a = (a \div m) * m + (a % m)
      /\ b \div m \in Int /\ b % m \in 0..(m - 1) /\ b = (b \div m) * m + (b % m)
  BY Division
<1> DEFINE p == a \div m
           q == b \div m
<1>2. p \in Int /\ q \in Int
  BY <1>1
<1>3. ASSUME q + 1 <= p PROVE FALSE
  <2>1. (q + 1) * m <= p * m
    BY <1>2, <1>3, TimesMonotone
  <2>2. (q + 1) * m = q * m + m
    BY <1>2
  <2>3. q * m \in Int /\ p * m \in Int
    BY <1>2
  <2> QED
    BY <1>1, <2>1, <2>2, <2>3
<1> QED
  BY <1>2, <1>3

\* A quotient is below a number of parts if the whole is.
LEMMA QuotientBelow ==
  ASSUME NEW a \in Int, NEW q \in Int, NEW m \in Nat \ {0}
  PROVE  (a < q * m => a \div m < q) /\ (q * m <= a => q <= a \div m)
<1>1. a \div m \in Int /\ a % m \in 0..(m - 1) /\ a = (a \div m) * m + (a % m)
  BY Division
<1> DEFINE p == a \div m
<1>2. p \in Int /\ p * m \in Int /\ q * m \in Int
  BY <1>1
<1>3. CASE q <= p
  BY <1>1, <1>2, <1>3, TimesMonotone
<1>4. CASE p + 1 <= q
  <2>1. (p + 1) * m <= q * m
    BY <1>2, <1>4, TimesMonotone
  <2>2. (p + 1) * m = p * m + m
    BY <1>2
  <2> QED
    BY <1>1, <1>2, <1>4, <2>1, <2>2
<1> QED
  BY <1>2, <1>3, <1>4

\* The numbers of the workload.
LEMMA Sizes ==
  /\ TxCount \in Nat \ {0} /\ Arity \in Nat \ {0} /\ Streams \in Nat \ {0}
  /\ BatchSize \in Nat \ {0} /\ Streams <= BatchSize
  /\ BatchCount \in Nat
  /\ WorkerCount \in Nat \ {0}
<1>1. BatchSize \in Nat \ {0}
  BY BatchesAssumption DEF BatchesAssumption
<1>2. 0 * BatchSize <= TxCount + BatchSize - 1
  BY <1>1, BatchesAssumption DEF BatchesAssumption
<1>3. BatchCount \in Nat
  BY <1>1, <1>2, BatchesAssumption, QuotientBelow, Division DEF BatchesAssumption, BatchCount
<1> QED
  BY <1>1, <1>3, BatchesAssumption, IngressAssumption DEF BatchesAssumption, IngressAssumption

\* Every transaction is in one of the batches.
LEMMA BatchInRange ==
  ASSUME NEW t \in AllTxs
  PROVE  BatchOf(t) \in 0..(BatchCount - 1) /\ BatchOf(t) * BatchSize <= t
         /\ t < (BatchOf(t) + 1) * BatchSize
<1> DEFINE b == t \div BatchSize
<1>1. t \in Nat /\ t <= TxCount - 1 /\ TxCount \in Nat /\ BatchSize \in Nat \ {0}
  BY Sizes DEF AllTxs
<1>2. b \in Int /\ t % BatchSize \in 0..(BatchSize - 1) /\ t = b * BatchSize + (t % BatchSize)
  BY <1>1, Division
<1>3. 0 <= b
  BY <1>1, QuotientBelow
<1>4. b * BatchSize \in Int /\ (b + 1) * BatchSize = b * BatchSize + BatchSize
  BY <1>1, <1>2
<1> HIDE DEF b
<1>5. (b + 1) * BatchSize <= TxCount + BatchSize - 1
  BY <1>1, <1>2, <1>4
<1>6. b + 1 <= BatchCount
  <2> DEFINE n == TxCount + BatchSize - 1
  <2>1. n \in Int /\ b + 1 \in Int /\ (b + 1) * BatchSize <= n
    BY <1>1, <1>2, <1>5
  <2>2. BatchCount = n \div BatchSize
    BY DEF BatchCount
  <2> HIDE DEF n
  <2> QED
    BY <1>1, <2>1, <2>2, QuotientBelow
<1> QED
  BY <1>1, <1>2, <1>3, <1>4, <1>6, Sizes DEF BatchOf, b

-----------------------------------------------------------------------------
\* The i-th transaction of a stream is one of the workload as long as there is one
\* (stream_count).
LEMMA StreamHasTxs ==
  ASSUME NEW s \in StreamIds, NEW i \in Nat
  PROVE  /\ i < StreamCount(s) <=> StreamTx(s, i) \in AllTxs
         /\ StreamTx(s, i) \in Nat
         /\ StreamTx(s, i) % Streams = s /\ StreamTx(s, i) \div Streams = i
         /\ StreamCount(s) \in Nat
<1> DEFINE full == TxCount \div Streams
           rest == TxCount % Streams
<1>1. /\ s \in Nat /\ s < Streams /\ Streams \in Nat \ {0} /\ TxCount \in Nat \ {0}
  BY Sizes DEF StreamIds
<1>2. full \in Int /\ rest \in 0..(Streams - 1) /\ TxCount = full * Streams + rest
  BY <1>1, Division
<1>3. 0 <= full
  BY <1>1, QuotientBelow
<1>4. StreamTx(s, i) = i * Streams + s /\ i * Streams \in Nat /\ full * Streams \in Nat
  BY <1>1, <1>2, <1>3 DEF StreamTx
<1>5. StreamTx(s, i) % Streams = s /\ StreamTx(s, i) \div Streams = i
  <2>1. i \in Int /\ s \in 0..(Streams - 1)
    BY DEF StreamIds
  <2>2. (i * Streams + s) \div Streams = i /\ (i * Streams + s) % Streams = s
    BY <1>1, <2>1, DivisionUnique
  <2> QED
    BY <1>4, <2>2
<1>6. StreamCount(s) = full + IF s < rest THEN 1 ELSE 0
  BY DEF StreamCount
<1> HIDE DEF full, rest
<1>7. CASE i < full
  <2>1. (i + 1) * Streams <= full * Streams /\ (i + 1) * Streams = i * Streams + Streams
    BY <1>1, <1>2, <1>7, TimesMonotone
  <2> QED
    BY <1>1, <1>2, <1>3, <1>4, <1>5, <1>6, <1>7, <2>1 DEF AllTxs
<1>8. CASE i = full
  BY <1>1, <1>2, <1>3, <1>4, <1>5, <1>6, <1>8 DEF AllTxs
<1>9. CASE i > full
  <2>1. (full + 1) * Streams <= i * Streams /\ (full + 1) * Streams = full * Streams + Streams
    BY <1>1, <1>2, <1>9, TimesMonotone
  <2> QED
    BY <1>1, <1>2, <1>3, <1>4, <1>5, <1>6, <1>9, <2>1 DEF AllTxs
<1> QED
  BY <1>2, <1>7, <1>8, <1>9

\* Every transaction comes in one of the streams.
LEMMA TxInStream ==
  ASSUME NEW t \in AllTxs
  PROVE  /\ t % Streams \in StreamIds /\ t \div Streams \in Nat
         /\ t = StreamTx(t % Streams, t \div Streams) /\ t \div Streams < StreamCount(t % Streams)
<1>1. t \in Nat /\ Streams \in Nat \ {0}
  BY Sizes DEF AllTxs
<1>2. /\ t \div Streams \in Int /\ t % Streams \in 0..(Streams - 1)
      /\ t = (t \div Streams) * Streams + (t % Streams)
  BY <1>1, Division
<1>3. 0 <= t \div Streams
  BY <1>1, QuotientBelow
<1>4. t = StreamTx(t % Streams, t \div Streams)
  BY <1>1, <1>2 DEF StreamTx
<1> QED
  BY <1>2, <1>3, <1>4, StreamHasTxs DEF StreamIds

\* From a number on, the first of a residue class is at most as far as any.
LEMMA FirstOfClass ==
  ASSUME NEW a \in Nat, NEW t \in Nat, a <= t, NEW m \in Nat \ {0}
  PROVE  ((t % m) + m - (a % m)) % m \in 0..(t - a)
<1>1. PICK q \in Int, s \in 0..(m - 1) : q = t \div m /\ s = t % m /\ t = q * m + s
  BY Division
<1>2. PICK p \in Int, r \in 0..(m - 1) : p = a \div m /\ r = a % m /\ a = p * m + r
  BY Division
<1>3. t - a \in Nat /\ t - a \in Int
  OBVIOUS
<1>4. PICK k \in Int, g \in 0..(m - 1) : k = (t - a) \div m /\ t - a = k * m + g
  BY <1>3, Division
<1>5. 0 <= k
  <2>1. 0 * m <= t - a
    OBVIOUS
  <2> QED
    BY <1>3, <1>4, <2>1, QuotientBelow
<1>6. k * m \in Int /\ p * m \in Int /\ q * m \in Int
  OBVIOUS
<1>7. g <= t - a
  <2>1. 0 * m <= k * m
    BY <1>5, TimesMonotone
  <2> QED
    BY <1>3, <1>4, <1>6, <2>1
<1>8. s + m - r = (p + k - q + 1) * m + g
  <2>1. (p + k - q + 1) * m = p * m + k * m - q * m + m
    OBVIOUS
  <2> DEFINE pm == p * m
             qm == q * m
             km == k * m
             big == (p + k - q + 1) * m
  <2>2. t = qm + s /\ a = pm + r /\ t - a = km + g /\ big = pm + km - qm + m
    BY <1>1, <1>2, <1>4, <2>1
  <2>3. pm \in Int /\ qm \in Int /\ km \in Int /\ r \in Int /\ s \in Int /\ g \in Int
    BY <1>6
  <2> HIDE DEF pm, qm, km, big
  <2>4. s + m - r = big + g
    BY <2>2, <2>3
  <2> QED
    BY <2>4 DEF big
<1>9. ((p + k - q + 1) * m + g) % m = g
  <2> DEFINE c == p + k - q + 1
  <2>1. c \in Int
    OBVIOUS
  <2> HIDE DEF c
  <2>2. (c * m + g) % m = g
    BY <2>1, DivisionUnique
  <2> QED
    BY <2>2 DEF c
<1> QED
  BY <1>1, <1>2, <1>3, <1>7, <1>8, <1>9

\* The streams of a batch are those whose readers are waited for (stream_has_range).
LEMMA StreamsOfBatch ==
  ASSUME NEW t \in AllTxs
  PROVE  StreamHasRange(BatchOf(t), t % Streams)
<1> DEFINE start == BatchOf(t) * BatchSize
<1>1. /\ t \in Nat /\ t <= TxCount - 1 /\ TxCount \in Nat /\ Streams \in Nat \ {0}
      /\ start \in Nat /\ start <= t /\ t < (BatchOf(t) + 1) * BatchSize
      /\ (BatchOf(t) + 1) * BatchSize \in Nat
  BY Sizes, BatchInRange DEF AllTxs
<1> DEFINE delta == ((t % Streams) + Streams - (start % Streams)) % Streams
<1>2. delta \in 0..(t - start)
  BY <1>1, FirstOfClass
<1>3. StreamHasRange(BatchOf(t), t % Streams) <=>
        /\ start < TxCount
        /\ start + delta < TxCount
        /\ start + delta < (BatchOf(t) + 1) * BatchSize
  BY DEF StreamHasRange
<1> HIDE DEF start, delta
<1> QED
  BY <1>1, <1>2, <1>3

\* A stream brings its transactions batch by batch.
LEMMA StreamInOrder ==
  ASSUME NEW s \in StreamIds, NEW i \in Nat, NEW j \in Nat, i <= j
  PROVE  BatchOf(StreamTx(s, i)) <= BatchOf(StreamTx(s, j))
<1>1. Streams \in Nat \ {0} /\ s \in Nat /\ BatchSize \in Nat \ {0}
  BY Sizes DEF StreamIds
<1>2. i * Streams <= j * Streams /\ i * Streams \in Int /\ j * Streams \in Int
  BY <1>1, TimesMonotone
<1>3. StreamTx(s, i) <= StreamTx(s, j) /\ StreamTx(s, i) \in Int /\ StreamTx(s, j) \in Int
  BY <1>1, <1>2 DEF StreamTx
<1> QED
  BY <1>1, <1>3, DivisionMonotone DEF BatchOf

\* In either order one of two transactions comes first.
LEMMA OneComesFirst ==
  ASSUME NEW t \in AllTxs, NEW u \in AllTxs, NEW o, t # u
  PROVE  ~ (Precedes(o, t, u) /\ Precedes(o, u, t))
<1>1. t \in Int /\ u \in Int /\ t % Streams \in Int /\ u % Streams \in Int
  BY Sizes, Division DEF AllTxs
<1> QED
  BY <1>1 DEF Precedes

\* A transaction refers to Arity cells.
LEMMA ArityOfRefs ==
  ASSUME NEW t \in AllTxs, picked \in SUBSET (AllTxs \ {0})
  PROVE  IsFiniteSet({t} \X Refs(t, picked)) /\ Cardinality({t} \X Refs(t, picked)) = Arity
<1> DEFINE ks == 0..(Arity - 1)
           f == [k \in ks |-> Referenced(t, k, picked)]
<1>1. Arity \in Nat \ {0} /\ t \in Nat
  BY Sizes DEF AllTxs
<1>2. IsFiniteSet(ks) /\ Cardinality(ks) = Arity
  BY <1>1, FS_Interval
<1>3. t * Arity \in Int /\ (t - 1) * Arity = t * Arity - Arity
  BY <1>1
<1>4. \A j, k \in ks : Referenced(t, j, picked) = Referenced(t, k, picked) => j = k
  BY <1>1, <1>3 DEF Referenced
<1>5. f \in Bijection(ks, Refs(t, picked))
  BY <1>4 DEF Refs, Bijection, Injection, Surjection, IsInjective
<1>6. ExistsBijection(ks, Refs(t, picked))
  BY <1>5 DEF ExistsBijection
<1>7. IsFiniteSet(Refs(t, picked)) /\ Cardinality(Refs(t, picked)) = Arity
  BY <1>2, <1>6, FS_Bijection
<1>8. IsFiniteSet({t}) /\ Cardinality({t}) = 1
  BY FS_Singleton
<1> QED
  BY <1>1, <1>7, <1>8, FS_Product

-----------------------------------------------------------------------------
(* What has arrived                                                        *)

\* The stream has transactions of the batch.
OfStream(s, b) == \E t \in BatchTxs(b) : t % Streams = s

Parts == {p \in StreamIds \X (0..(BatchCount - 1)) : OfStream(p[1], p[2])}

\* What is still to be read of the stream comes later than the batch.
Ahead(s, b) ==
  \A i \in Nat : received[s] <= i /\ i < StreamCount(s) => b < BatchOf(StreamTx(s, i))

\* The streams that had transactions of the batch and have handed on all of them.
HandedOn(b) ==
  {s \in StreamIds : OfStream(s, b) /\ reading[s] # b /\ flushing[s] # b /\ Ahead(s, b)}

ReaderType ==
  /\ transport \in {"loaded", "slots", "packets", "chunks", "lanes"}
  /\ received \in [StreamIds -> Nat] /\ handed \in [StreamIds -> Nat]
  /\ reading \in [StreamIds -> {NoBatch} \cup 0..(BatchCount - 1)]
  /\ flushing \in [StreamIds -> {NoBatch} \cup 0..(BatchCount - 1)]
  /\ streamDone \in [0..(BatchCount - 1) -> Nat] /\ ready \subseteq 0..(BatchCount - 1)
  /\ parts \in [Workers \cup {Coordinator} -> SUBSET Parts]
  /\ inbox \in [Workers \cup {Coordinator} -> Seq(Parts)]

\* What a reader reads is not later than what it still has to read, and what it hands
\* on is earlier.
ReadsInOrder ==
  \A s \in StreamIds :
    /\ reading[s] # NoBatch =>
         /\ OfStream(s, reading[s])
         /\ \A i \in Nat : received[s] <= i /\ i < StreamCount(s) =>
              reading[s] <= BatchOf(StreamTx(s, i))
    /\ flushing[s] # NoBatch =>
         OfStream(s, flushing[s]) /\ Ahead(s, flushing[s]) /\ flushing[s] # reading[s]

Counts == transport \in {"slots", "chunks", "lanes"}

\* The counters of a batch count the streams that have handed on their part.
CountsStreams ==
  Counts => \A b \in 0..(BatchCount - 1) :
    /\ streamDone[b] = Cardinality(HandedOn(b))
    /\ b \in ready => \A s \in StreamIds : StreamHasRange(b, s) => s \in HandedOn(b)

\* A stream hands on its part lane by lane.
FillsLanes ==
  transport = "lanes" =>
    /\ \A b \in 0..(BatchCount - 1) : \A s \in HandedOn(b), w \in Workers : <<s, b>> \in parts[w]
    /\ \A s \in StreamIds :
         IF flushing[s] = NoBatch THEN handed[s] = 0
         ELSE \A w \in Workers : w < handed[s] => <<s, flushing[s]>> \in parts[w]

ReaderInv == ReaderType /\ ReadsInOrder /\ CountsStreams /\ FillsLanes

\* The next transaction of a stream, its batch and those after it.
LEMMA NextRecord ==
  ASSUME ReaderType, NEW s \in StreamIds, received[s] < StreamCount(s)
  PROVE  /\ NextBatch(s) \in 0..(BatchCount - 1) /\ OfStream(s, NextBatch(s))
         /\ \A i \in Nat : received[s] <= i => NextBatch(s) <= BatchOf(StreamTx(s, i))
         /\ \A i \in Nat : i <= received[s] => BatchOf(StreamTx(s, i)) <= NextBatch(s)
<1>1. received[s] \in Nat
  BY DEF ReaderType
<1>2. StreamTx(s, received[s]) \in AllTxs /\ StreamTx(s, received[s]) % Streams = s
  BY <1>1, StreamHasTxs
<1>3. NextBatch(s) \in 0..(BatchCount - 1)
  BY <1>2, BatchInRange DEF NextBatch
<1>4. OfStream(s, NextBatch(s))
  BY <1>2 DEF OfStream, NextBatch, BatchTxs
<1> QED
  BY <1>1, <1>3, <1>4, StreamInOrder DEF NextBatch

\* A transaction of a batch is the j-th of its stream.
LEMMA TxOfBatch ==
  ASSUME NEW s \in StreamIds, NEW b, OfStream(s, b)
  PROVE  \E j \in Nat : j < StreamCount(s) /\ BatchOf(StreamTx(s, j)) = b
<1>1. PICK t \in BatchTxs(b) : t % Streams = s
  BY DEF OfStream
<1>2. t \in AllTxs /\ BatchOf(t) = b
  BY DEF BatchTxs
<1> QED
  BY <1>1, <1>2, TxInStream

\* Workers count from 0.
LEMMA WorkersCount == /\ \A w \in Workers : w \in Nat /\ w < WorkerCount /\ w # Coordinator
                      /\ \A n \in Nat : n < WorkerCount => n \in Workers
                      /\ NoBatch \notin Nat
BY Sizes DEF Workers, Coordinator, NoBatch

\* Reading does not change what has been handed on.
LEMMA StillHandedOn ==
  ASSUME ReaderInv, ReaderType', NEW s \in StreamIds, flushing[s] = NoBatch,
         UNCHANGED <<transport, handed, streamDone, ready, parts>>,
         \A u \in StreamIds : u # s => flushing'[u] = flushing[u],
         \A b \in 0..(BatchCount - 1) : HandedOn(b)' = HandedOn(b)
  PROVE  CountsStreams' /\ FillsLanes'
<1>1. CountsStreams'
  BY DEF ReaderInv, CountsStreams, Counts
<1>2. ASSUME transport = "lanes", NEW u \in StreamIds
      PROVE  IF flushing'[u] = NoBatch THEN handed'[u] = 0
             ELSE \A w \in Workers : w < handed'[u] => <<u, flushing'[u]>> \in parts'[w]
  <2>1. IF flushing[u] = NoBatch THEN handed[u] = 0
        ELSE \A w \in Workers : w < handed[u] => <<u, flushing[u]>> \in parts[w]
    BY <1>2 DEF ReaderInv, FillsLanes
  <2>2. \A w \in Workers : ~ (w < 0)
    BY WorkersCount
  <2> QED
    BY <2>1, <2>2
<1>3. FillsLanes'
  BY <1>2 DEF ReaderInv, FillsLanes
<1> QED
  BY <1>1, <1>3

\* A record is read.
LEMMA RecordStep ==
  ASSUME ReaderInv, NEW s \in StreamIds, StoreRecord(s) \/ RouteRecord(s)
  PROVE  ReaderInv'
<1> DEFINE nb == NextBatch(s)
<1>1. /\ flushing[s] = NoBatch /\ received[s] < StreamCount(s)
      /\ received' = [received EXCEPT ![s] = @ + 1]
      /\ reading' = [reading EXCEPT ![s] = nb]
      /\ UNCHANGED <<transport, handed, streamDone, ready, inbox, parts>>
  BY DEF StoreRecord, RouteRecord, Reads, fixedVars
<1>2. \/ flushing' = [flushing EXCEPT ![s] = IF reading[s] = nb THEN NoBatch ELSE reading[s]]
      \/ flushing' = flushing /\ reading[s] \in {NoBatch, nb}
  BY DEF StoreRecord, RouteRecord
<1>3. ReaderType
  BY DEF ReaderInv
<1>4. /\ nb \in 0..(BatchCount - 1) /\ OfStream(s, nb) /\ received[s] \in Nat
      /\ \A i \in Nat : received[s] <= i => nb <= BatchOf(StreamTx(s, i))
      /\ \A i \in Nat : i <= received[s] => BatchOf(StreamTx(s, i)) <= nb
      /\ BatchOf(StreamTx(s, received[s])) = nb
  BY <1>1, <1>3, NextRecord DEF ReaderType, NextBatch
<1> HIDE DEF nb
<1>5. \A u \in StreamIds :
        /\ received'[u] = IF u = s THEN received[s] + 1 ELSE received[u]
        /\ reading'[u] = IF u = s THEN nb ELSE reading[u]
        /\ u # s => flushing'[u] = flushing[u]
  BY <1>1, <1>2, <1>3 DEF ReaderType
<1>6. /\ flushing'[s] \in {NoBatch, reading[s]}
      /\ reading[s] # NoBatch /\ reading[s] # nb => flushing'[s] = reading[s]
      /\ flushing'[s] # nb
  BY <1>1, <1>2, <1>3, <1>4, WorkersCount DEF ReaderType
<1>7. ReaderType'
  BY <1>1, <1>2, <1>3, <1>4 DEF ReaderType
<1>8. \A i \in Nat : StreamTx(s, i) \in Nat /\ BatchOf(StreamTx(s, i)) \in Int
  BY StreamHasTxs, Sizes, Division DEF BatchOf
<1>9. reading[s] # NoBatch => reading[s] \in Nat /\ reading[s] <= nb /\ OfStream(s, reading[s])
  <2>1. received[s] <= received[s]
    BY <1>4
  <2> QED
    BY <1>1, <1>3, <1>4, <2>1, Sizes DEF ReaderInv, ReadsInOrder, ReaderType
<1>10. ReadsInOrder'
  <2> SUFFICES ASSUME NEW u \in StreamIds
               PROVE  /\ reading'[u] # NoBatch =>
                           /\ OfStream(u, reading'[u])
                           /\ \A i \in Nat : received'[u] <= i /\ i < StreamCount(u) =>
                                reading'[u] <= BatchOf(StreamTx(u, i))
                      /\ flushing'[u] # NoBatch =>
                           /\ OfStream(u, flushing'[u])
                           /\ \A i \in Nat : received'[u] <= i /\ i < StreamCount(u) =>
                                flushing'[u] < BatchOf(StreamTx(u, i))
                           /\ flushing'[u] # reading'[u]
    BY DEF ReadsInOrder, Ahead
  <2>1. CASE u # s
    BY <1>5, <2>1 DEF ReaderInv, ReadsInOrder, Ahead
  <2>2. CASE u = s
    <3>1. \A i \in Nat : received'[s] <= i => received[s] <= i
      BY <1>4, <1>5
    <3>2. reading'[s] = nb /\ \A i \in Nat : received'[s] <= i => nb <= BatchOf(StreamTx(s, i))
      BY <1>4, <1>5, <3>1
    <3>3. ASSUME flushing'[s] # NoBatch
          PROVE  /\ OfStream(s, flushing'[s]) /\ flushing'[s] # nb
                 /\ \A i \in Nat : received'[s] <= i => flushing'[s] < BatchOf(StreamTx(s, i))
      <4>1. flushing'[s] = reading[s] /\ flushing'[s] \in Nat /\ flushing'[s] < nb
            /\ OfStream(s, flushing'[s])
        BY <1>4, <1>6, <1>9, <3>3
      <4> QED
        BY <1>4, <1>8, <3>2, <4>1
    <3> QED
      BY <1>4, <2>2, <3>2, <3>3
  <2> QED
    BY <2>1, <2>2
<1>11. ASSUME NEW b \in 0..(BatchCount - 1) PROVE HandedOn(b)' = HandedOn(b)
  <2>1. ASSUME NEW u \in StreamIds, u # s PROVE u \in HandedOn(b)' <=> u \in HandedOn(b)
    BY <1>5, <2>1 DEF HandedOn, Ahead
  <2>2. ASSUME s \in HandedOn(b) PROVE s \in HandedOn(b)'
    <3>1. OfStream(s, b) /\ reading[s] # b /\ Ahead(s, b)
      BY <2>2 DEF HandedOn
    <3>2. b < nb
      BY <1>1, <1>4, <3>1 DEF Ahead
    <3>3. Ahead(s, b)'
      BY <1>4, <1>5, <3>1 DEF Ahead
    <3> QED
      BY <1>4, <1>5, <1>6, <3>1, <3>2, <3>3, WorkersCount DEF HandedOn
  <2>3. ASSUME s \in HandedOn(b)' PROVE s \in HandedOn(b)
    <3>1. OfStream(s, b) /\ nb # b /\ flushing'[s] # b /\ Ahead(s, b)'
      BY <1>5, <2>3 DEF HandedOn
    <3>2. PICK j \in Nat : j < StreamCount(s) /\ BatchOf(StreamTx(s, j)) = b
      BY <3>1, TxOfBatch
    <3>3. ~ (received[s] + 1 <= j)
      BY <1>5, <3>1, <3>2 DEF Ahead
    <3>4. b <= nb
      BY <1>4, <3>2, <3>3
    <3>5. Ahead(s, b)
      BY <1>4, <1>8, <3>1, <3>4 DEF Ahead
    <3>6. reading[s] # b
      BY <1>6, <3>1, WorkersCount
    <3> QED
      BY <1>1, <3>1, <3>5, <3>6, WorkersCount DEF HandedOn
  <2> QED
    BY <2>1, <2>2, <2>3 DEF HandedOn
<1>12. CountsStreams' /\ FillsLanes'
  BY <1>1, <1>5, <1>7, <1>11, StillHandedOn
<1> QED
  BY <1>7, <1>10, <1>12 DEF ReaderInv

\* A batch is closed, by the first record of the next one or by the end of the stream.
LEMMA CloseStep ==
  ASSUME ReaderInv, NEW s \in StreamIds, OpenBatch(s) \/ EndStream(s)
  PROVE  ReaderInv'
<1>1. /\ flushing[s] = NoBatch /\ reading[s] # NoBatch
      /\ flushing' = [flushing EXCEPT ![s] = reading[s]]
      /\ UNCHANGED <<transport, received, handed, streamDone, ready, inbox, parts>>
  BY DEF OpenBatch, EndStream, Reads, fixedVars
<1>2. \/ /\ received[s] < StreamCount(s) /\ reading[s] # NextBatch(s)
         /\ reading' = [reading EXCEPT ![s] = NextBatch(s)]
      \/ received[s] = StreamCount(s) /\ reading' = [reading EXCEPT ![s] = NoBatch]
  BY DEF OpenBatch, EndStream, Reads
<1>3. ReaderType /\ received[s] \in Nat
  BY DEF ReaderInv, ReaderType
<1>4. received[s] < StreamCount(s) =>
        /\ NextBatch(s) \in 0..(BatchCount - 1) /\ OfStream(s, NextBatch(s))
        /\ \A i \in Nat : received[s] <= i => NextBatch(s) <= BatchOf(StreamTx(s, i))
        /\ reading[s] <= NextBatch(s)
  <2> SUFFICES ASSUME received[s] < StreamCount(s)
               PROVE  reading[s] <= NextBatch(s)
    BY <1>3, NextRecord
  <2>1. received[s] <= received[s]
    BY <1>3
  <2> QED
    BY <1>1, <1>3, <2>1 DEF ReaderInv, ReadsInOrder, NextBatch
<1>5. \A u \in StreamIds : /\ flushing'[u] = IF u = s THEN reading[s] ELSE flushing[u]
                           /\ u # s => reading'[u] = reading[u]
  BY <1>1, <1>2, <1>3 DEF ReaderType
<1>6. reading'[s] \in {NoBatch} \cup 0..(BatchCount - 1) /\ reading'[s] # reading[s]
      /\ reading[s] \in 0..(BatchCount - 1) /\ OfStream(s, reading[s])
  BY <1>1, <1>2, <1>3, <1>4, WorkersCount DEF ReaderInv, ReaderType, ReadsInOrder
<1>7. ReaderType'
  BY <1>1, <1>2, <1>3, <1>4, <1>6 DEF ReaderType
<1>8. reading'[s] # NoBatch => reading'[s] = NextBatch(s) /\ received[s] < StreamCount(s)
  BY <1>2, <1>3 DEF ReaderType
<1>9. \A i \in Nat : StreamTx(s, i) \in Nat /\ BatchOf(StreamTx(s, i)) \in Int
  BY StreamHasTxs, Sizes, Division DEF BatchOf
<1>10. \A i \in Nat : received[s] <= i /\ i < StreamCount(s) => reading[s] < BatchOf(StreamTx(s, i))
  <2> SUFFICES ASSUME NEW i \in Nat, received[s] <= i, i < StreamCount(s)
               PROVE  reading[s] < BatchOf(StreamTx(s, i))
    OBVIOUS
  <2>1. StreamCount(s) \in Nat
    BY StreamHasTxs
  <2>2. received[s] < StreamCount(s)
    BY <1>3, <2>1
  <2>3. reading[s] # NextBatch(s)
    BY <1>2, <1>3, <2>1, <2>2
  <2> QED
    BY <1>4, <1>6, <1>9, <2>2, <2>3
<1>11. ReadsInOrder'
  <2> SUFFICES ASSUME NEW u \in StreamIds
               PROVE  /\ reading'[u] # NoBatch =>
                           /\ OfStream(u, reading'[u])
                           /\ \A i \in Nat : received'[u] <= i /\ i < StreamCount(u) =>
                                reading'[u] <= BatchOf(StreamTx(u, i))
                      /\ flushing'[u] # NoBatch =>
                           /\ OfStream(u, flushing'[u])
                           /\ \A i \in Nat : received'[u] <= i /\ i < StreamCount(u) =>
                                flushing'[u] < BatchOf(StreamTx(u, i))
                           /\ flushing'[u] # reading'[u]
    BY DEF ReadsInOrder, Ahead
  <2>1. CASE u # s
    BY <1>1, <1>5, <2>1 DEF ReaderInv, ReadsInOrder, Ahead
  <2>2. CASE u = s
    BY <1>1, <1>4, <1>5, <1>6, <1>8, <1>10, <2>2
  <2> QED
    BY <2>1, <2>2
<1>12. ASSUME NEW b \in 0..(BatchCount - 1) PROVE HandedOn(b)' = HandedOn(b)
  <2>1. \A u : Ahead(u, b)' <=> Ahead(u, b)
    BY <1>1 DEF Ahead
  <2>2. ASSUME NEW u \in StreamIds, u # s PROVE u \in HandedOn(b)' <=> u \in HandedOn(b)
    BY <1>5, <2>1, <2>2 DEF HandedOn
  <2>3. Ahead(s, b) /\ reading'[s] # NoBatch => reading'[s] # b
    <3> SUFFICES ASSUME Ahead(s, b), received[s] < StreamCount(s) PROVE NextBatch(s) # b
      BY <1>8
    <3>1. b < BatchOf(StreamTx(s, received[s]))
      <4>1. received[s] <= received[s]
        BY <1>3
      <4> QED
        BY <1>3, <4>1 DEF Ahead
    <3> QED
      BY <3>1 DEF NextBatch
  <2>4. s \in HandedOn(b)' <=> s \in HandedOn(b)
    BY <1>1, <1>5, <2>1, <2>3, WorkersCount DEF HandedOn
  <2> QED
    BY <2>2, <2>4 DEF HandedOn
<1>13. CountsStreams' /\ FillsLanes'
  BY <1>1, <1>5, <1>7, <1>12, StillHandedOn
<1> QED
  BY <1>7, <1>11, <1>13 DEF ReaderInv

\* While nothing is read, closed or counted, the same is handed on, and what threads
\* can see only grows.
LEMMA PassOnStep ==
  ASSUME ReaderInv, UNCHANGED <<transport, received, reading, flushing, streamDone, ready>>,
         parts' \in [Workers \cup {Coordinator} -> SUBSET Parts],
         inbox' \in [Workers \cup {Coordinator} -> Seq(Parts)],
         handed' \in [StreamIds -> Nat],
         \A c \in Workers : parts[c] \subseteq parts'[c],
         transport = "lanes" => \A s \in StreamIds :
           IF flushing[s] = NoBatch THEN handed'[s] = 0
           ELSE \A w \in Workers : w < handed'[s] => <<s, flushing[s]>> \in parts'[w]
  PROVE  ReaderInv'
<1>1. \A b : HandedOn(b)' = HandedOn(b)
  BY DEF HandedOn, Ahead
<1>2. ReaderType'
  BY DEF ReaderInv, ReaderType
<1>3. ReadsInOrder'
  BY DEF ReaderInv, ReadsInOrder, Ahead
<1>4. CountsStreams'
  BY <1>1 DEF ReaderInv, CountsStreams, Counts
<1>5. FillsLanes'
  BY <1>1 DEF ReaderInv, FillsLanes
<1> QED
  BY <1>2, <1>3, <1>4, <1>5 DEF ReaderInv

\* What is handed on is a part of a batch.
LEMMA PartToPass ==
  ASSUME ReaderInv, NEW s \in StreamIds, flushing[s] # NoBatch
  PROVE  <<s, flushing[s]>> \in Parts
BY DEF ReaderInv, ReaderType, ReadsInOrder, Parts

\* A chunk is sent to a worker, or a lane filled.
LEMMA HandStep ==
  ASSUME ReaderInv, NEW s \in StreamIds, SendChunk(s) \/ PublishLane(s)
  PROVE  ReaderInv'
<1> DEFINE part == <<s, flushing[s]>>
<1>1. /\ flushing[s] # NoBatch /\ handed[s] < WorkerCount
      /\ handed' = [handed EXCEPT ![s] = @ + 1]
      /\ UNCHANGED <<transport, received, reading, flushing, streamDone, ready>>
  BY DEF SendChunk, PublishLane, fixedVars
<1>2. ReaderType /\ part \in Parts /\ handed[s] \in Nat /\ handed[s] \in Workers
  BY <1>1, PartToPass, WorkersCount DEF ReaderInv, ReaderType
<1> HIDE DEF part
<1>3. handed' \in [StreamIds -> Nat]
  BY <1>1, <1>2 DEF ReaderType
<1>4. CASE SendChunk(s)
  <2>1. /\ transport = "chunks" /\ parts' = parts
        /\ inbox' = [inbox EXCEPT ![handed[s]] = Append(@, part)]
    BY <1>4 DEF SendChunk, Send, part
  <2>2. inbox' \in [Workers \cup {Coordinator} -> Seq(Parts)]
    BY <1>2, <2>1 DEF ReaderType
  <2> QED
    BY <1>1, <1>2, <1>3, <2>1, <2>2, PassOnStep DEF ReaderType
<1>5. CASE PublishLane(s)
  <2>1. /\ transport = "lanes" /\ inbox' = inbox
        /\ parts' = [parts EXCEPT ![handed[s]] = @ \cup {part}]
    BY <1>5 DEF PublishLane, part
  <2>2. parts' \in [Workers \cup {Coordinator} -> SUBSET Parts]
    BY <1>2, <2>1 DEF ReaderType
  <2>3. \A c \in Workers : parts'[c] = IF c = handed[s] THEN parts[c] \cup {part} ELSE parts[c]
    BY <1>2, <2>1 DEF ReaderType
  <2>4. ASSUME NEW u \in StreamIds
        PROVE  IF flushing[u] = NoBatch THEN handed'[u] = 0
               ELSE \A w \in Workers : w < handed'[u] => <<u, flushing[u]>> \in parts'[w]
    <3>1. IF flushing[u] = NoBatch THEN handed[u] = 0
          ELSE \A w \in Workers : w < handed[u] => <<u, flushing[u]>> \in parts[w]
      BY <2>1 DEF ReaderInv, FillsLanes
    <3>2. CASE u # s
      <4>1. handed'[u] = handed[u]
        BY <1>1, <1>2, <3>2 DEF ReaderType
      <4> QED
        BY <2>3, <3>1, <4>1
    <3>3. CASE u = s
      <4>1. handed'[s] = handed[s] + 1
        BY <1>1, <1>2 DEF ReaderType
      <4>2. \A w \in Workers : w < handed'[s] => w < handed[s] \/ w = handed[s]
        BY <1>2, <4>1, WorkersCount
      <4> QED
        BY <1>1, <2>3, <3>1, <3>3, <4>2 DEF part
    <3> QED
      BY <3>2, <3>3
  <2> QED
    BY <1>1, <1>2, <1>3, <2>1, <2>2, <2>3, <2>4, PassOnStep DEF ReaderType
<1> QED
  BY <1>4, <1>5

\* A thread takes a part out of its channel.
LEMMA ReceiveStep ==
  ASSUME ReaderInv, NEW c \in Workers \cup {Coordinator}, Receive(c),
         UNCHANGED <<transport, received, reading, flushing, handed, streamDone, ready>>,
         transport # "lanes"
  PROVE  ReaderInv'
<1>1. ReaderType /\ inbox[c] \in Seq(Parts) /\ inbox[c] # <<>>
  BY DEF ReaderInv, ReaderType, Receive
<1>2. Tail(inbox[c]) \in Seq(Parts) /\ Head(inbox[c]) \in Parts
  BY <1>1
<1>3. /\ inbox' = [inbox EXCEPT ![c] = Tail(@)]
      /\ parts' = [parts EXCEPT ![c] = @ \cup {Head(inbox[c])}]
  BY DEF Receive
<1>4. /\ inbox' \in [Workers \cup {Coordinator} -> Seq(Parts)]
      /\ parts' \in [Workers \cup {Coordinator} -> SUBSET Parts]
      /\ \A d \in Workers : parts[d] \subseteq parts'[d]
  BY <1>1, <1>2, <1>3 DEF ReaderType
<1> QED
  BY <1>1, <1>4, PassOnStep DEF ReaderType

\* A stream's part goes to the coordinator.
LEMMA SendPartStep ==
  ASSUME ReaderInv, NEW s \in StreamIds, SendPart(s)
  PROVE  ReaderInv'
<1>1. /\ flushing[s] # NoBatch /\ transport = "packets"
      /\ flushing' = [flushing EXCEPT ![s] = NoBatch]
      /\ inbox' = [inbox EXCEPT ![Coordinator] = Append(@, <<s, flushing[s]>>)]
      /\ UNCHANGED <<transport, received, reading, handed, streamDone, ready, parts>>
  BY DEF SendPart, Send, fixedVars
<1>2. ReaderType /\ <<s, flushing[s]>> \in Parts
  BY <1>1, PartToPass DEF ReaderInv
<1>3. inbox' \in [Workers \cup {Coordinator} -> Seq(Parts)]
  BY <1>1, <1>2 DEF ReaderType
<1>4. ReaderType'
  BY <1>1, <1>2, <1>3 DEF ReaderType
<1>5. ReadsInOrder'
  BY <1>1, <1>2 DEF ReaderInv, ReadsInOrder, ReaderType, Ahead
<1>6. CountsStreams' /\ FillsLanes'
  BY <1>1 DEF CountsStreams, Counts, FillsLanes
<1> QED
  BY <1>4, <1>5, <1>6 DEF ReaderInv

\* Only streams that a batch is waited for hand on a part of it.
LEMMA HandedOnIsExpected ==
  ASSUME NEW b
  PROVE  /\ HandedOn(b) \subseteq {s \in StreamIds : StreamHasRange(b, s)}
         /\ IsFiniteSet({s \in StreamIds : StreamHasRange(b, s)})
         /\ IsFiniteSet(HandedOn(b))
<1>1. HandedOn(b) \subseteq {s \in StreamIds : StreamHasRange(b, s)}
  BY StreamsOfBatch DEF HandedOn, OfStream, BatchTxs
<1>2. IsFiniteSet(StreamIds)
  BY Sizes, FS_Interval DEF StreamIds
<1>3. IsFiniteSet({s \in StreamIds : StreamHasRange(b, s)})
  BY <1>2, FS_Subset
<1> QED
  BY <1>1, <1>3, FS_Subset

\* A stream that is done with a batch counts itself; the last one announces it.
LEMMA CountStep ==
  ASSUME ReaderInv, NEW s \in StreamIds, CountStream(s)
  PROVE  ReaderInv'
<1>1. flushing[s] # NoBatch /\ flushing[s] \in 0..(BatchCount - 1)
  BY DEF CountStream, ReaderInv, ReaderType
<1>2. PICK b \in 0..(BatchCount - 1) : flushing[s] = b
  BY <1>1
<1>3. /\ b # NoBatch /\ Counts /\ (transport = "slots" \/ handed[s] = WorkerCount)
      /\ streamDone' = [streamDone EXCEPT ![b] = @ + 1]
      /\ ready' = IF streamDone[b] + 1 = ExpectedStreams(b) THEN ready \cup {b} ELSE ready
      /\ flushing' = [flushing EXCEPT ![s] = NoBatch]
      /\ handed' = [handed EXCEPT ![s] = 0]
      /\ UNCHANGED <<transport, received, reading, inbox, parts>>
  BY <1>1, <1>2 DEF CountStream, Counts, fixedVars
<1>4. ReaderType /\ b \in Nat
  BY Sizes DEF ReaderInv
<1>5. OfStream(s, b) /\ Ahead(s, b) /\ b # reading[s]
  BY <1>3, <1>2 DEF ReaderInv, ReadsInOrder
<1>6. ReaderType'
  <2>1. streamDone' \in [0..(BatchCount - 1) -> Nat]
    <3>1. streamDone \in [0..(BatchCount - 1) -> Nat]
      BY <1>4 DEF ReaderType
    <3>2. streamDone[b] + 1 \in Nat
      BY <3>1
    <3>3. streamDone' = [streamDone EXCEPT ![b] = streamDone[b] + 1]
      BY <1>3, Zenon
    <3> QED
      BY <3>1, <3>2, <3>3
  <2>2. ready' \subseteq 0..(BatchCount - 1)
    BY <1>3, <1>4 DEF ReaderType
  <2>3. /\ flushing' \in [StreamIds -> {NoBatch} \cup 0..(BatchCount - 1)]
        /\ handed' \in [StreamIds -> Nat]
    BY <1>3, <1>4 DEF ReaderType
  <2> QED
    BY <1>3, <1>4, <2>1, <2>2, <2>3 DEF ReaderType
<1>7. ReadsInOrder'
  BY <1>3, <1>4 DEF ReaderInv, ReadsInOrder, ReaderType, Ahead
<1>8. \A u \in StreamIds : /\ flushing'[u] = IF u = s THEN NoBatch ELSE flushing[u]
                           /\ handed'[u] = IF u = s THEN 0 ELSE handed[u]
  BY <1>3, <1>4 DEF ReaderType
<1>9. HandedOn(b)' = HandedOn(b) \cup {s} /\ s \notin HandedOn(b)
  BY <1>3, <1>4, <1>5, <1>8, <1>2, WorkersCount DEF HandedOn, Ahead
<1>10. ASSUME NEW c \in 0..(BatchCount - 1), c # b PROVE HandedOn(c)' = HandedOn(c)
  BY <1>3, <1>4, <1>8, <1>2, <1>10, WorkersCount, Sizes DEF HandedOn, Ahead
<1>11. /\ streamDone[b] = Cardinality(HandedOn(b))
       /\ Cardinality(HandedOn(b)') = Cardinality(HandedOn(b)) + 1
  BY <1>3, <1>4, <1>9, HandedOnIsExpected, FS_AddElement DEF ReaderInv, CountsStreams
<1>12. streamDone[b] + 1 = ExpectedStreams(b) =>
         \A u \in StreamIds : StreamHasRange(b, u) => u \in HandedOn(b)'
  <2> DEFINE all == {u \in StreamIds : StreamHasRange(b, u)}
  <2>1. HandedOn(b)' \subseteq all
    <3>1. s \in all
      BY <1>5, StreamsOfBatch DEF OfStream, BatchTxs
    <3> QED
      BY <1>9, <3>1, HandedOnIsExpected
  <2>2. IsFiniteSet(all) /\ ExpectedStreams(b) = Cardinality(all)
    BY HandedOnIsExpected DEF ExpectedStreams
  <2> HIDE DEF all
  <2>3. Cardinality(HandedOn(b)') = Cardinality(all) => all = HandedOn(b)'
    BY <2>1, <2>2, FS_Subset
  <2> QED
    BY <1>11, <2>2, <2>3 DEF all
<1>13. CountsStreams'
  <2> SUFFICES ASSUME NEW c \in 0..(BatchCount - 1)
               PROVE  /\ streamDone'[c] = Cardinality(HandedOn(c)')
                      /\ c \in ready' => \A u \in StreamIds : StreamHasRange(c, u) => u \in HandedOn(c)'
    BY DEF CountsStreams
  <2>1. /\ streamDone[c] = Cardinality(HandedOn(c))
        /\ c \in ready => \A u \in StreamIds : StreamHasRange(c, u) => u \in HandedOn(c)
    BY <1>3 DEF ReaderInv, CountsStreams
  <2>2. CASE c # b
    BY <1>3, <1>4, <1>10, <2>1, <2>2 DEF ReaderType
  <2>3. CASE c = b
    <3>1. streamDone'[b] = streamDone[b] + 1
      BY <1>3, <1>4 DEF ReaderType
    <3> QED
      BY <1>3, <1>9, <1>11, <1>12, <2>1, <2>3, <3>1
  <2> QED
    BY <2>2, <2>3
<1>14. FillsLanes'
  <2> SUFFICES ASSUME transport = "lanes"
               PROVE  /\ \A c \in 0..(BatchCount - 1) : \A u \in HandedOn(c)', w \in Workers : <<u, c>> \in parts[w]
                      /\ \A u \in StreamIds :
                           IF flushing'[u] = NoBatch THEN handed'[u] = 0
                           ELSE \A w \in Workers : w < handed'[u] => <<u, flushing'[u]>> \in parts[w]
    BY <1>3 DEF FillsLanes
  <2>1. \A w \in Workers : <<s, b>> \in parts[w]
    BY <1>3, <1>2, WorkersCount DEF ReaderInv, FillsLanes
  <2>2. \A c \in 0..(BatchCount - 1) : \A u \in HandedOn(c)', w \in Workers : <<u, c>> \in parts[w]
    BY <1>9, <1>10, <2>1 DEF ReaderInv, FillsLanes
  <2> QED
    BY <1>8, <2>2 DEF ReaderInv, FillsLanes
<1> QED
  BY <1>6, <1>7, <1>13, <1>14 DEF ReaderInv

\* Nothing has arrived in the beginning.
LEMMA ReaderInitially == IngressInit => ReaderInv
<1> SUFFICES ASSUME IngressInit PROVE ReaderInv
  OBVIOUS
<1>1. /\ transport \in IngressEditions
      /\ received = [s \in StreamIds |-> 0] /\ handed = [s \in StreamIds |-> 0]
      /\ reading = [s \in StreamIds |-> NoBatch] /\ flushing = [s \in StreamIds |-> NoBatch]
      /\ streamDone = [b \in 0..(BatchCount - 1) |-> 0] /\ ready = {}
      /\ inbox = [c \in Workers \cup {Coordinator} |-> <<>>]
      /\ parts = [c \in Workers \cup {Coordinator} |-> {}]
  BY DEF IngressInit
<1>2. ReaderType
  BY <1>1, IngressAssumption DEF IngressAssumption, ReaderType
<1>3. ReadsInOrder
  BY <1>1 DEF ReadsInOrder
<1>4. ASSUME NEW b \in 0..(BatchCount - 1) PROVE HandedOn(b) = {}
  <2> SUFFICES ASSUME NEW s \in HandedOn(b) PROVE FALSE
    OBVIOUS
  <2>1. s \in StreamIds /\ OfStream(s, b) /\ Ahead(s, b) /\ received[s] = 0
    BY <1>1 DEF HandedOn
  <2>2. PICK j \in Nat : j < StreamCount(s) /\ BatchOf(StreamTx(s, j)) = b
    BY <2>1, TxOfBatch
  <2>3. b < BatchOf(StreamTx(s, j))
    BY <2>1, <2>2 DEF Ahead
  <2> QED
    BY <2>2, <2>3
<1>5. CountsStreams
  BY <1>1, <1>4, FS_EmptySet DEF CountsStreams
<1>6. FillsLanes
  BY <1>1, <1>4 DEF FillsLanes
<1> QED
  BY <1>2, <1>3, <1>5, <1>6 DEF ReaderInv

\* Every step keeps the readers in order.
LEMMA ReaderStep == ReaderInv /\ [IngressNext]_ingressVars => ReaderInv'
<1> SUFFICES ASSUME ReaderInv, [IngressNext]_ingressVars PROVE ReaderInv'
  OBVIOUS
<1>1. ASSUME UNCHANGED <<transport, wireVars, inbox, parts>> PROVE ReaderInv'
  BY <1>1, PassOnStep DEF wireVars, ReaderInv, ReaderType, FillsLanes
<1>2. ASSUME NEW s \in StreamIds, Receiver(s) PROVE ReaderInv'
  BY <1>2, RecordStep, CloseStep, SendPartStep, HandStep, CountStep DEF Receiver
<1>3. ASSUME GatherPart PROVE ReaderInv'
  BY <1>3, ReceiveStep DEF GatherPart, fixedVars, wireVars
<1>4. ASSUME NEW w \in Workers, TakeChunk(w) PROVE ReaderInv'
  BY <1>4, ReceiveStep DEF TakeChunk, fixedVars, wireVars
<1>5. CASE StartBatch
  BY <1>1, <1>5 DEF StartBatch, fixedVars
<1>6. ASSUME NEW w \in Workers, Prepare(w) \/ Finalise(w) PROVE ReaderInv'
  BY <1>1, <1>6 DEF Prepare, Finalise, Settle, fixedVars
<1>7. CASE UNCHANGED ingressVars
  BY <1>1, <1>7 DEF ingressVars, wireVars
<1> QED
  BY <1>2, <1>3, <1>4, <1>5, <1>6, <1>7 DEF IngressNext, Worker

-----------------------------------------------------------------------------
\* What the workers need of a batch before they may start on it.
Arrived(b) ==
  /\ transport = "slots" => \A t \in BatchTxs(b) : t \div Streams < received[t % Streams]
  /\ transport = "packets" => \A t \in BatchTxs(b) : <<t % Streams, b>> \in parts[Coordinator]
  /\ transport = "lanes" => \A t \in BatchTxs(b), w \in Workers : <<t % Streams, b>> \in parts[w]

\* A thread that has as many parts as are expected has them all.
LEMMA PartsComplete ==
  ASSUME ReaderType, NEW c \in Workers \cup {Coordinator}, NEW b \in 0..(BatchCount - 1),
         HasAll(c, b), NEW t \in BatchTxs(b)
  PROVE  <<t % Streams, b>> \in parts[c]
<1> DEFINE all == {s \in StreamIds : StreamHasRange(b, s)}
<1>1. parts[c] \subseteq Parts
  BY DEF ReaderType
<1>2. \A s \in PartsOf(c, b) : s \in StreamIds /\ OfStream(s, b)
  BY <1>1 DEF PartsOf, Parts
<1>3. PartsOf(c, b) \subseteq all
  BY <1>2, StreamsOfBatch DEF OfStream, BatchTxs
<1>4. IsFiniteSet(all)
  BY HandedOnIsExpected
<1>5. Cardinality(PartsOf(c, b)) = Cardinality(all)
  BY DEF HasAll, ExpectedStreams
<1>6. t % Streams \in all
  BY TxInStream, StreamsOfBatch DEF BatchTxs
<1> HIDE DEF all
<1>7. all = PartsOf(c, b)
  BY <1>3, <1>4, <1>5, FS_Subset
<1> QED
  BY <1>6, <1>7 DEF PartsOf

\* A batch that is announced has arrived.
LEMMA ReadyHasArrived ==
  ASSUME ReaderInv, started \in 0..(BatchCount - 1), BatchIsReady
  PROVE  Arrived(started)
<1>1. CASE transport = "packets"
  BY <1>1, PartsComplete DEF BatchIsReady, Arrived, ReaderInv
<1>2. CASE transport \in {"slots", "lanes"}
  <2>1. started \in ready /\ Counts
    BY <1>2 DEF BatchIsReady, Counts
  <2>2. ASSUME NEW t \in BatchTxs(started) PROVE t % Streams \in HandedOn(started)
    <3>1. t \in AllTxs /\ BatchOf(t) = started
      BY DEF BatchTxs
    <3> QED
      BY <2>1, <3>1, TxInStream, StreamsOfBatch DEF ReaderInv, CountsStreams
  <2>3. ASSUME NEW t \in BatchTxs(started) PROVE t \div Streams < received[t % Streams]
    <3> DEFINE s == t % Streams
               i == t \div Streams
    <3>1. t \in AllTxs /\ BatchOf(t) = started
      BY DEF BatchTxs
    <3>2. s \in StreamIds /\ i \in Nat /\ t = StreamTx(s, i) /\ i < StreamCount(s)
      BY <3>1, TxInStream
    <3>3. Ahead(s, started)
      BY <2>2 DEF HandedOn
    <3> HIDE DEF s, i
    <3>4. ~ (received[s] <= i)
      BY <3>1, <3>2, <3>3 DEF Ahead
    <3>5. received[s] \in Nat
      BY <3>2 DEF ReaderInv, ReaderType
    <3>6. i < received[s]
      BY <3>2, <3>4, <3>5
    <3> QED
      BY <3>6 DEF s, i
  <2>4. transport = "lanes" =>
          \A t \in BatchTxs(started), w \in Workers : <<t % Streams, started>> \in parts[w]
    BY <2>2 DEF ReaderInv, FillsLanes
  <2> QED
    BY <1>2, <2>3, <2>4 DEF Arrived
<1>3. CASE transport \in {"loaded", "chunks"}
  BY <1>3 DEF Arrived
<1> QED
  BY <1>1, <1>2, <1>3 DEF ReaderInv, ReaderType

\* What has arrived stays.
LEMMA ArrivedStays ==
  ASSUME ReaderInv, [IngressNext]_ingressVars, NEW b, Arrived(b)
  PROVE  Arrived(b)'
<1>1. ASSUME transport' = transport,
             \A s \in StreamIds : received[s] <= received'[s] /\ received'[s] \in Nat,
             \A c \in Workers \cup {Coordinator} : parts[c] \subseteq parts'[c]
      PROVE  Arrived(b)'
  <2>1. \A t \in BatchTxs(b) : t % Streams \in StreamIds /\ t \div Streams \in Nat
    BY TxInStream DEF BatchTxs
  <2>2. \A s \in StreamIds : received[s] \in Nat
    BY DEF ReaderInv, ReaderType
  <2> QED
    BY <1>1, <2>1, <2>2 DEF Arrived
<1>2. ReaderType /\ \A s \in StreamIds : received[s] \in Nat /\ received[s] <= received[s]
  BY DEF ReaderInv, ReaderType
<1>3. CASE UNCHANGED <<transport, received, parts>>
  BY <1>1, <1>2, <1>3
<1>4. ASSUME NEW s \in StreamIds, StoreRecord(s) \/ RouteRecord(s) PROVE Arrived(b)'
  <2>1. received' = [received EXCEPT ![s] = @ + 1] /\ UNCHANGED <<transport, parts>>
    BY <1>4 DEF StoreRecord, RouteRecord, fixedVars
  <2>2. \A u \in StreamIds : received'[u] = IF u = s THEN received[u] + 1 ELSE received[u]
    BY <1>2, <2>1 DEF ReaderType
  <2> QED
    BY <1>1, <1>2, <2>1, <2>2
<1>5. ASSUME NEW s \in StreamIds, PublishLane(s) PROVE Arrived(b)'
  <2>1. parts' = [parts EXCEPT ![handed[s]] = @ \cup {<<s, flushing[s]>>}]
        /\ UNCHANGED <<transport, received>>
    BY <1>5 DEF PublishLane, fixedVars
  <2>2. \A c \in Workers \cup {Coordinator} : parts[c] \subseteq parts'[c]
    BY <1>2, <2>1 DEF ReaderType
  <2> QED
    BY <1>1, <1>2, <2>1, <2>2
<1>6. ASSUME NEW c \in Workers \cup {Coordinator}, Receive(c), UNCHANGED <<transport, received>>
      PROVE  Arrived(b)'
  <2>1. parts' = [parts EXCEPT ![c] = @ \cup {Head(inbox[c])}]
    BY <1>6 DEF Receive
  <2>2. \A d \in Workers \cup {Coordinator} : parts[d] \subseteq parts'[d]
    BY <1>2, <2>1 DEF ReaderType
  <2> QED
    BY <1>1, <1>2, <1>6, <2>2
<1>7. ASSUME NEW s \in StreamIds, Receiver(s) PROVE Arrived(b)'
  BY <1>3, <1>4, <1>5, <1>7
     DEF Receiver, OpenBatch, EndStream, SendPart, SendChunk, CountStream, fixedVars
<1>8. CASE GatherPart
  BY <1>6, <1>8 DEF GatherPart, fixedVars, wireVars
<1>9. ASSUME NEW w \in Workers, Worker(w) PROVE Arrived(b)'
  BY <1>3, <1>6, <1>9 DEF Worker, TakeChunk, Prepare, Finalise, Settle, fixedVars, wireVars
<1>10. CASE StartBatch \/ UNCHANGED ingressVars
  BY <1>3, <1>10 DEF StartBatch, ingressVars, fixedVars, wireVars
<1> QED
  BY <1>7, <1>8, <1>9, <1>10 DEF IngressNext

-----------------------------------------------------------------------------
(* The workers                                                             *)

Held == UNION {reserved[w] : w \in Workers}

\* The cells of the batch in work, in the maps or taken out of them.
CellsOfBatch == live \cup {p[2] : p \in Held}

\* No other transaction of the batch comes before it at the cell.
FirstAt(t, i) ==
  /\ i \in Refs(t, picked)
  /\ \A u \in BatchTxs(started - 1) : i \in Refs(u, picked) => u = t \/ Precedes(Order, t, u)

\* What the batch gives a worker to reserve.
ShareOf(w) ==
  {p \in BatchTxs(started - 1) \X CellsOfBatch : owner[p[2]] = w /\ FirstAt(p[1], p[2])}

WorkType ==
  /\ picked \in SUBSET (AllTxs \ {0}) /\ owner \in [Serials -> Workers]
  /\ started \in 0..BatchCount /\ phase \in [Workers -> Nat]
  /\ live \subseteq Serials /\ reserved \in [Workers -> SUBSET (AllTxs \X Serials)]
  /\ prepared \in [AllTxs -> Nat] /\ outputs \subseteq AllTxs

\* The workers are in the batch last started, which has arrived, and none is through
\* with it while another has not met it at the barrier.
InStep ==
  IF started = 0 THEN \A w \in Workers : phase[w] = 0
  ELSE /\ Arrived(started - 1)
       /\ \A w \in Workers : phase[w] \in {2 * started - 2, 2 * started - 1, 2 * started}
       /\ \A w \in Workers : phase[w] = 2 * started =>
            \A u \in Workers : phase[u] >= 2 * started - 1

\* Each worker before the barrier has its share, and the counters say so.
Shares ==
  /\ \A w \in Workers : phase[w] = 2 * started - 1 => reserved[w] = ShareOf(w)
  /\ live \cap {p[2] : p \in Held} = {}
  /\ \A t \in BatchTxs(started - 1) : prepared[t] = Cardinality({p \in Held : p[1] = t})

\* Between batches nothing is reserved, and a batch is counted only when it has begun.
HoldsForBatch ==
  /\ \A w \in Workers : phase[w] # 2 * started - 1 => reserved[w] = {}
  /\ \A t \in AllTxs : started <= BatchOf(t) => prepared[t] = 0

\* A worker that is through has made the outputs of its stripe.
StripesMade ==
  \A w \in Workers : started > 0 /\ phase[w] = 2 * started =>
    \A t \in BatchTxs(started - 1) :
      (t - (started - 1) * BatchSize) % WorkerCount = w /\ Eligible(t) => t \in outputs

WorkInv ==
  /\ WorkType /\ InStep /\ HoldsForBatch /\ StripesMade
  /\ started > 0 /\ ~ Decided => Shares


\* The guard of Prepare.
MayPrepare(w) ==
  /\ phase[w] % 2 = 0 /\ Batch(w) < started
  /\ transport = "chunks" => HasAll(w, Batch(w))

\* A worker that may reserve is one phase before the barrier of the batch in work, and
\* sees all of that batch.
LEMMA SeesBatch ==
  ASSUME ReaderInv, WorkInv, NEW w \in Workers, MayPrepare(w)
  PROVE  /\ started > 0 /\ phase[w] = 2 * started - 2 /\ ~ Decided /\ reserved[w] = {}
         /\ Batch(w) = started - 1
         /\ Visible(w) = BatchTxs(started - 1)
<1>1. started \in Nat /\ phase[w] \in Nat
  BY DEF WorkInv, WorkType
<1>2. phase[w] % 2 = 0 /\ phase[w] \div 2 < started
  BY DEF MayPrepare, Batch
<1>3. started > 0
  BY <1>1, <1>2 DEF WorkInv, InStep
<1>4. phase[w] \in {2 * started - 2, 2 * started - 1, 2 * started} /\ Arrived(started - 1)
  BY <1>1, <1>3 DEF WorkInv, InStep
<1>5. phase[w] = 2 * started - 2
  BY <1>1, <1>2, <1>3, <1>4
<1>6. Batch(w) = started - 1
  BY <1>1, <1>3, <1>5 DEF Batch
<1>7. ~ Decided /\ reserved[w] = {}
  BY <1>1, <1>5 DEF Decided, WorkInv, HoldsForBatch
<1>8. started - 1 \in 0..(BatchCount - 1)
  BY <1>1, <1>3, Sizes DEF WorkInv, WorkType
<1>9. transport = "chunks" =>
        \A t \in BatchTxs(started - 1) : <<t % Streams, started - 1>> \in parts[w]
  BY <1>6, <1>8, PartsComplete DEF MayPrepare, ReaderInv
<1>10. Visible(w) = BatchTxs(started - 1)
  BY <1>4, <1>6, <1>9 DEF Visible, Arrived, ReaderInv, ReaderType
<1> QED
  BY <1>3, <1>5, <1>6, <1>7, <1>10

\* Then it takes its share.
LEMMA TakesShare ==
  ASSUME ReaderInv, WorkInv, NEW w \in Workers, Prepare(w)
  PROVE  Taken(w) = ShareOf(w)
<1>1. /\ started > 0 /\ ~ Decided /\ reserved[w] = {} /\ Visible(w) = BatchTxs(started - 1)
  BY SeesBatch DEF Prepare, MayPrepare
<1>2. Shares
  BY <1>1 DEF WorkInv
<1>3. ASSUME NEW p \in Held PROVE owner[p[2]] # w
  <2>1. PICK v \in Workers : p \in reserved[v]
    BY DEF Held
  <2>2. v # w /\ reserved[v] = ShareOf(v)
    BY <1>1, <1>2, <2>1 DEF Shares, WorkInv, HoldsForBatch
  <2> QED
    BY <2>1, <2>2 DEF ShareOf
<1>4. \A i \in CellsOfBatch : owner[i] = w => i \in live
  BY <1>3 DEF CellsOfBatch
<1>5. \A t, i : ComesFirst(w, t, i) <=> owner[i] = w /\ FirstAt(t, i)
  BY <1>1 DEF ComesFirst, FirstAt
<1>6. Taken(w) = {p \in BatchTxs(started - 1) \X live : owner[p[2]] = w /\ FirstAt(p[1], p[2])}
  BY <1>1, <1>5 DEF Taken
<1>7. live \subseteq CellsOfBatch
  BY DEF CellsOfBatch
<1> QED
  BY <1>4, <1>6, <1>7 DEF ShareOf

\* What the workers hold for a transaction are references of it.
LEMMA HeldAreRefs ==
  ASSUME WorkType, started > 0, HoldsForBatch, Shares, NEW t
  PROVE  /\ {p \in Held : p[1] = t} \subseteq {t} \X Refs(t, picked)
         /\ t \in AllTxs => IsFiniteSet({p \in Held : p[1] = t})
<1>1. ASSUME NEW p \in Held
      PROVE  p \in BatchTxs(started - 1) \X CellsOfBatch /\ FirstAt(p[1], p[2])
  <2>1. PICK v \in Workers : p \in reserved[v]
    BY DEF Held
  <2> QED
    BY <2>1 DEF HoldsForBatch, Shares, ShareOf
<1>2. {p \in Held : p[1] = t} \subseteq {t} \X Refs(t, picked)
  <2> SUFFICES ASSUME NEW p \in Held, p[1] = t PROVE p \in {t} \X Refs(t, picked)
    OBVIOUS
  <2>1. p = <<p[1], p[2]>> /\ p[2] \in Refs(p[1], picked)
    BY <1>1 DEF FirstAt
  <2> QED
    BY <2>1
<1>3. t \in AllTxs => IsFiniteSet({t} \X Refs(t, picked))
  BY ArityOfRefs DEF WorkType
<1> QED
  BY <1>2, <1>3, FS_Subset


\* What a worker takes moves from the maps into its hands.
LEMMA PrepareMoves ==
  ASSUME ReaderInv, WorkInv, NEW w \in Workers, Prepare(w)
  PROVE  /\ Held' = Held \cup ShareOf(w)
         /\ CellsOfBatch' = CellsOfBatch
         /\ live' \cap {p[2] : p \in Held'} = {}
         /\ \A v \in Workers : phase'[v] = IF v = w THEN 2 * started - 1 ELSE phase[v]
         /\ \A v \in Workers : reserved'[v] = IF v = w THEN ShareOf(w) ELSE reserved[v]
         /\ UNCHANGED <<transport, picked, owner, started, outputs>>
         /\ \A v \in Workers : ShareOf(v)' = ShareOf(v)
<1>1. /\ started > 0 /\ phase[w] = 2 * started - 2 /\ ~ Decided /\ reserved[w] = {}
      /\ Taken(w) = ShareOf(w) /\ ShareOf(w) \subseteq BatchTxs(started - 1) \X live
  BY SeesBatch, TakesShare DEF Taken, Prepare, MayPrepare
<1>2. /\ reserved \in [Workers -> SUBSET (AllTxs \X Serials)] /\ phase \in [Workers -> Nat]
      /\ started \in Nat
  BY DEF WorkInv, WorkType
<1>3. /\ reserved' = [reserved EXCEPT ![w] = ShareOf(w)]
      /\ live' = live \ {p[2] : p \in ShareOf(w)}
      /\ phase' = [phase EXCEPT ![w] = @ + 1]
      /\ UNCHANGED <<transport, picked, owner, started, outputs>>
  BY <1>1 DEF Prepare, fixedVars
<1>4. /\ \A v \in Workers : phase'[v] = IF v = w THEN 2 * started - 1 ELSE phase[v]
      /\ \A v \in Workers : reserved'[v] = IF v = w THEN ShareOf(w) ELSE reserved[v]
  BY <1>1, <1>2, <1>3
<1>5. Held' = Held \cup ShareOf(w)
  BY <1>1, <1>4 DEF Held
<1>6. live \cap {p[2] : p \in Held} = {}
  BY <1>1 DEF WorkInv, Shares
<1>7. {p[2] : p \in ShareOf(w)} \subseteq live
  BY <1>1
<1>8. {p[2] : p \in Held'} = {p[2] : p \in Held} \cup {p[2] : p \in ShareOf(w)}
  BY <1>5
<1>9. CellsOfBatch' = CellsOfBatch /\ live' \cap {p[2] : p \in Held'} = {}
  BY <1>3, <1>6, <1>7, <1>8 DEF CellsOfBatch
<1>10. \A t, i : FirstAt(t, i)' <=> FirstAt(t, i)
  BY <1>3 DEF FirstAt, Order
<1>11. \A v \in Workers : ShareOf(v)' = ShareOf(v)
  BY <1>3, <1>9, <1>10 DEF ShareOf
<1> QED
  BY <1>3, <1>4, <1>5, <1>9, <1>11

\* The counters keep up with that.
LEMMA PrepareCounts ==
  ASSUME ReaderInv, WorkInv, NEW w \in Workers, Prepare(w)
  PROVE  /\ Shares'
         /\ prepared' \in [AllTxs -> Nat]
         /\ \A t \in AllTxs : started <= BatchOf(t) => prepared'[t] = 0
<1>1. /\ started > 0 /\ phase[w] = 2 * started - 2 /\ ~ Decided /\ reserved[w] = {}
      /\ Taken(w) = ShareOf(w) /\ ShareOf(w) \subseteq BatchTxs(started - 1) \X live
  BY SeesBatch, TakesShare DEF Taken, Prepare, MayPrepare
<1>2. Shares /\ WorkType /\ HoldsForBatch /\ started \in Nat
  BY <1>1 DEF WorkInv, WorkType
<1> DEFINE sofar(t) == {p \in Held : p[1] = t}
           more(t) == {p \in ShareOf(w) : p[1] = t}
<1>3. \A t \in AllTxs : prepared'[t] = prepared[t] + Cardinality(more(t))
  BY <1>1 DEF Prepare
<1>4. ASSUME NEW t \in AllTxs
      PROVE  /\ IsFiniteSet(sofar(t)) /\ IsFiniteSet(more(t)) /\ Cardinality(more(t)) \in Nat
             /\ Cardinality(sofar(t) \cup more(t)) = Cardinality(sofar(t)) + Cardinality(more(t))
  <2>1. IsFiniteSet(sofar(t))
    BY <1>1, <1>2, HeldAreRefs
  <2>2. more(t) \subseteq {t} \X Refs(t, picked)
    <3> SUFFICES ASSUME NEW p \in ShareOf(w), p[1] = t PROVE p \in {t} \X Refs(t, picked)
      OBVIOUS
    <3>1. p = <<p[1], p[2]>> /\ p[2] \in Refs(p[1], picked)
      BY DEF ShareOf, FirstAt
    <3> QED
      BY <3>1
  <2>3. IsFiniteSet(more(t))
    BY <1>2, <2>2, ArityOfRefs, FS_Subset DEF WorkType
  <2>4. sofar(t) \cap more(t) = {}
    BY <1>1, <1>2 DEF Shares
  <2>5. Cardinality(sofar(t) \cap more(t)) = 0
    BY <2>4, FS_EmptySet
  <2>6. Cardinality(sofar(t)) \in Nat /\ Cardinality(more(t)) \in Nat
    BY <2>1, <2>3, FS_CardinalityType
  <2>7. Cardinality(sofar(t) \cup more(t))
          = Cardinality(sofar(t)) + Cardinality(more(t)) - Cardinality(sofar(t) \cap more(t))
    BY <2>1, <2>3, FS_Union
  <2> HIDE DEF sofar, more
  <2> QED
    BY <2>1, <2>3, <2>5, <2>6, <2>7
<1>5. \A t : {p \in Held' : p[1] = t} = sofar(t) \cup more(t)
  BY PrepareMoves
<1>6. \A t \in BatchTxs(started - 1) : prepared'[t] = Cardinality({p \in Held' : p[1] = t})
  <2> HIDE DEF sofar, more
  <2> SUFFICES ASSUME NEW t \in BatchTxs(started - 1)
               PROVE  prepared'[t] = Cardinality({p \in Held' : p[1] = t})
    OBVIOUS
  <2>1. t \in AllTxs
    BY DEF BatchTxs
  <2>2. prepared[t] = Cardinality(sofar(t))
    BY <1>2 DEF Shares, sofar
  <2>3. prepared'[t] = Cardinality(sofar(t) \cup more(t))
    BY <1>3, <1>4, <2>1, <2>2
  <2> QED
    BY <1>5, <2>3
<1>7. Shares'
  <2>1. \A v \in Workers : phase'[v] = 2 * started - 1 => reserved'[v] = ShareOf(v)'
    BY <1>2, PrepareMoves DEF Shares
  <2>2. started' = started
    BY PrepareMoves
  <2> QED
    BY <1>6, <2>1, <2>2, PrepareMoves DEF Shares
<1>8. prepared' \in [AllTxs -> Nat]
  <2>1. prepared' = [t \in AllTxs |-> prepared[t] + Cardinality(more(t))]
    BY <1>1 DEF Prepare
  <2> HIDE DEF sofar, more
  <2>2. ASSUME NEW t \in AllTxs PROVE prepared[t] + Cardinality(more(t)) \in Nat
    <3>1. prepared[t] \in Nat
      BY <1>2 DEF WorkType
    <3>2. Cardinality(more(t)) \in Nat
      BY <1>4
    <3> QED
      BY <3>1, <3>2
  <2> QED
    BY <2>1, <2>2
<1>9. ASSUME NEW t \in AllTxs, started <= BatchOf(t) PROVE prepared'[t] = 0
  <2>1. BatchOf(t) # started - 1
    BY <1>2, <1>9, BatchInRange
  <2>2. more(t) = {}
    BY <1>1, <2>1 DEF BatchTxs
  <2> HIDE DEF more
  <2>3. Cardinality(more(t)) = 0
    BY <2>2, FS_EmptySet
  <2> QED
    BY <1>2, <1>3, <1>9, <2>3 DEF HoldsForBatch
<1> QED
  BY <1>7, <1>8, <1>9


\* A batch starts with the cells the one before has left.
LEMMA StartStep ==
  ASSUME ReaderInv, WorkInv, StartBatch
  PROVE  WorkInv' /\ ~ Decided' /\ Held = {} /\ Held' = {}
<1>1. /\ started < BatchCount /\ (\A w \in Workers : phase[w] = 2 * started)
      /\ started' = started + 1 /\ BatchIsReady
      /\ UNCHANGED <<transport, picked, owner, received, parts, phase, live, reserved, prepared,
                     outputs>>
  BY DEF StartBatch, Idle, fixedVars, wireVars, cellVars
<1>2. WorkType /\ HoldsForBatch /\ started \in Nat /\ BatchCount \in Nat
  BY Sizes DEF WorkInv, WorkType
<1>3. \A w \in Workers : reserved[w] = {}
  BY <1>1, <1>2 DEF HoldsForBatch
<1>4. Held = {} /\ Held' = {}
  BY <1>1, <1>3 DEF Held
<1>5. started' \in 0..BatchCount /\ started' - 1 = started /\ started' # 0
  BY <1>1, <1>2
<1>6. WorkType'
  BY <1>1, <1>2, <1>5 DEF WorkType
<1>7. InStep'
  <2>1. PICK b : b = started
    OBVIOUS
  <2>2. Arrived(b)
    BY <1>1, <1>2, <2>1, ReadyHasArrived
  <2>3. Arrived(b)'
    BY <1>1, <2>2 DEF Arrived
  <2>4. Arrived(started - 1)'
    BY <1>5, <2>1, <2>3 DEF Arrived
  <2>5. \A w \in Workers : phase'[w] = 2 * started' - 2
    BY <1>1, <1>2
  <2>6. \A w \in Workers : phase'[w] # 2 * started'
    BY <1>5, <2>5
  <2> QED
    BY <1>5, <2>4, <2>5, <2>6 DEF InStep
<1>8. HoldsForBatch'
  <2>1. \A t \in AllTxs : started + 1 <= BatchOf(t) => started <= BatchOf(t)
    BY <1>2, BatchInRange
  <2> QED
    BY <1>1, <1>2, <1>3, <2>1 DEF HoldsForBatch
<1>9. StripesMade'
  BY <1>1, <1>2 DEF StripesMade
<1>10. ~ Decided'
  <2>1. 0 \in Workers
    BY Sizes, WorkersCount
  <2> QED
    BY <1>1, <1>2, <2>1 DEF Decided
<1>11. Shares'
  <2>1. \A w \in Workers : phase'[w] # 2 * started' - 1
    BY <1>1, <1>2
  <2>2. \A t \in BatchTxs(started) : prepared[t] = 0
    BY <1>2 DEF HoldsForBatch, BatchTxs
  <2>3. \A t : {p \in Held' : p[1] = t} = {}
    BY <1>4
  <2>4. \A t \in BatchTxs(started' - 1) : prepared'[t] = Cardinality({p \in Held' : p[1] = t})
    BY <1>1, <1>5, <2>2, <2>3, FS_EmptySet
  <2>5. live' \cap {p[2] : p \in Held'} = {}
    BY <1>4
  <2> QED
    BY <2>1, <2>4, <2>5 DEF Shares
<1> QED
  BY <1>4, <1>6, <1>7, <1>8, <1>9, <1>10, <1>11 DEF WorkInv

\* A worker that reserves its share stays in step.
LEMMA PrepareStep ==
  ASSUME ReaderInv, WorkInv, [IngressNext]_ingressVars, NEW w \in Workers, Prepare(w)
  PROVE  WorkInv'
<1>1. /\ started > 0 /\ phase[w] = 2 * started - 2 /\ ~ Decided
  BY SeesBatch DEF Prepare, MayPrepare
<1>2. WorkType /\ HoldsForBatch /\ InStep /\ started \in Nat
  BY DEF WorkInv, WorkType
<1>3. /\ \A v \in Workers : phase'[v] = IF v = w THEN 2 * started - 1 ELSE phase[v]
      /\ \A v \in Workers : reserved'[v] = IF v = w THEN ShareOf(w) ELSE reserved[v]
      /\ UNCHANGED <<transport, picked, owner, started, outputs>>
  BY PrepareMoves
<1>4. \A v \in Workers : phase[v] \in {2 * started - 2, 2 * started - 1}
  BY <1>1, <1>2 DEF InStep
<1>5. WorkType'
  <2>1. /\ phase' = [phase EXCEPT ![w] = @ + 1] /\ live' \subseteq live
        /\ reserved' = [reserved EXCEPT ![w] = Taken(w)]
    BY DEF Prepare
  <2>2. Taken(w) \subseteq AllTxs \X Serials
    BY <1>2 DEF Taken, Visible, BatchTxs, WorkType
  <2>3. prepared' \in [AllTxs -> Nat]
    BY PrepareCounts
  <2>4. phase' \in [Workers -> Nat] /\ reserved' \in [Workers -> SUBSET (AllTxs \X Serials)]
    BY <1>2, <2>1, <2>2 DEF WorkType
  <2> QED
    BY <1>2, <1>3, <2>1, <2>3, <2>4 DEF WorkType
<1>6. InStep'
  <2>1. PICK b : b = started - 1
    OBVIOUS
  <2>2. Arrived(b)
    BY <1>1, <1>2, <2>1 DEF InStep
  <2>3. Arrived(b)'
    BY <2>2, ArrivedStays
  <2>4. Arrived(started - 1)'
    BY <1>3, <2>1, <2>3
  <2>5. \A v \in Workers : phase'[v] \in {2 * started - 2, 2 * started - 1}
    BY <1>3, <1>4
  <2> QED
    BY <1>1, <1>2, <1>3, <2>5, <2>4 DEF InStep
<1>7. HoldsForBatch'
  <2>1. \A t \in AllTxs : started <= BatchOf(t) => prepared'[t] = 0
    BY PrepareCounts
  <2> QED
    BY <1>1, <1>2, <1>3, <2>1 DEF HoldsForBatch
<1>8. StripesMade'
  <2>1. \A v \in Workers : phase'[v] # 2 * started
    BY <1>1, <1>2, <1>3, <1>4
  <2> QED
    BY <1>3, <2>1 DEF StripesMade
<1>9. Shares'
  BY PrepareCounts
<1> QED
  BY <1>5, <1>6, <1>7, <1>8, <1>9 DEF WorkInv

\* After the barrier a worker gives back what is not spent and makes its outputs.
LEMMA FinaliseStep ==
  ASSUME ReaderInv, WorkInv, [IngressNext]_ingressVars, NEW w \in Workers, Finalise(w)
  PROVE  /\ WorkInv' /\ started > 0 /\ Decided /\ Decided' /\ phase[w] = 2 * started - 1
         /\ outputs' \subseteq outputs \cup {t \in BatchTxs(started - 1) : Eligible(t)}
<1>1. WorkType /\ HoldsForBatch /\ InStep /\ started \in Nat /\ phase[w] \in Nat
  BY DEF WorkInv, WorkType
<1>2. phase[w] % 2 = 1 /\ \A u \in Workers : phase[u] >= phase[w]
  BY DEF Finalise
<1>3. started > 0
  BY <1>1, <1>2 DEF InStep
<1>4. \A u \in Workers : phase[u] \in {2 * started - 2, 2 * started - 1, 2 * started}
  BY <1>1, <1>3 DEF InStep
<1>5. phase[w] = 2 * started - 1
  BY <1>1, <1>2, <1>3, <1>4
<1>6. Decided
  BY <1>2, <1>3, <1>5 DEF Decided
<1>7. /\ reserved' = [reserved EXCEPT ![w] = {}] /\ phase' = [phase EXCEPT ![w] = @ + 1]
      /\ live' = live \cup {p[2] : p \in {q \in reserved[w] : ~ Eligible(q[1])}}
      /\ outputs' = outputs \cup {t \in Stripe(w) : Eligible(t)}
      /\ UNCHANGED <<transport, picked, owner, started, prepared>>
  BY DEF Finalise, Settle, fixedVars
<1>8. /\ \A v \in Workers : phase'[v] = IF v = w THEN 2 * started ELSE phase[v]
      /\ \A v \in Workers : reserved'[v] = IF v = w THEN {} ELSE reserved[v]
  BY <1>1, <1>5, <1>7 DEF WorkType
<1>9. Batch(w) = started - 1
  BY <1>1, <1>3, <1>5 DEF Batch
<1>10. Stripe(w) = {t \in BatchTxs(started - 1) : (t - (started - 1) * BatchSize) % WorkerCount = w}
  BY <1>9 DEF Stripe
<1>11. Decided'
  BY <1>1, <1>2, <1>3, <1>5, <1>7, <1>8 DEF Decided
<1>12. WorkType'
  <2>1. reserved[w] \subseteq AllTxs \X Serials
    BY <1>1 DEF WorkType
  <2>2. live' \subseteq Serials
    BY <1>1, <1>7, <2>1 DEF WorkType
  <2>3. Stripe(w) \subseteq AllTxs
    BY DEF Stripe, BatchTxs
  <2>4. phase' \in [Workers -> Nat] /\ reserved' \in [Workers -> SUBSET (AllTxs \X Serials)]
    BY <1>1, <1>7 DEF WorkType
  <2> QED
    BY <1>1, <1>7, <2>2, <2>3, <2>4 DEF WorkType
<1>13. InStep'
  <2>1. PICK b : b = started - 1
    OBVIOUS
  <2>2. Arrived(b)
    BY <1>1, <1>3, <2>1 DEF InStep
  <2>3. Arrived(b)'
    BY <2>2, ArrivedStays
  <2>4. Arrived(started - 1)'
    BY <1>7, <2>1, <2>3
  <2>5. \A v \in Workers : phase'[v] \in {2 * started - 1, 2 * started}
    BY <1>1, <1>2, <1>4, <1>5, <1>8
  <2>6. \A v \in Workers : phase'[v] >= 2 * started - 1
    BY <1>1, <2>5
  <2> QED
    BY <1>3, <1>7, <2>5, <2>6, <2>4 DEF InStep
<1>14. HoldsForBatch'
  BY <1>1, <1>7, <1>8 DEF HoldsForBatch
<1>15. StripesMade'
  <2>1. \A t : Eligible(t)' = Eligible(t)
    BY <1>7 DEF Eligible
  <2>2. StripesMade
    BY DEF WorkInv
  <2> QED
    BY <1>1, <1>3, <1>7, <1>8, <1>10, <2>1, <2>2 DEF StripesMade
<1> QED
  BY <1>3, <1>5, <1>6, <1>7, <1>10, <1>11, <1>12, <1>13, <1>14, <1>15 DEF WorkInv


\* What readers and channels do leaves the workers where they are.
LEMMA WorkUndisturbed ==
  ASSUME ReaderInv, WorkInv, [IngressNext]_ingressVars,
         UNCHANGED <<fixedVars, started, phase, cellVars>>
  PROVE  WorkInv'
<1>1. UNCHANGED <<transport, picked, owner, started, phase, live, reserved, prepared, outputs>>
  BY DEF fixedVars, cellVars
<1>2. WorkType' /\ HoldsForBatch'
  BY <1>1 DEF WorkInv, WorkType, HoldsForBatch
<1>3. InStep'
  <2>1. PICK b : b = started - 1
    OBVIOUS
  <2>2. started # 0 => Arrived(b)'
    BY <2>1, ArrivedStays DEF WorkInv, InStep
  <2>3. started # 0 => Arrived(started - 1)'
    BY <1>1, <2>1, <2>2
  <2> QED
    BY <1>1, <2>3 DEF WorkInv, InStep
<1>4. StripesMade'
  BY <1>1 DEF WorkInv, StripesMade, Eligible
<1>5. /\ Decided' = Decided /\ Held' = Held /\ CellsOfBatch' = CellsOfBatch
      /\ \A t, i : FirstAt(t, i)' <=> FirstAt(t, i)
  BY <1>1 DEF Decided, Held, CellsOfBatch, FirstAt, Order
<1>6. \A w \in Workers : ShareOf(w)' = ShareOf(w)
  BY <1>1, <1>5 DEF ShareOf
<1>7. Shares => Shares'
  BY <1>1, <1>5, <1>6 DEF Shares
<1> QED
  BY <1>1, <1>2, <1>3, <1>4, <1>5, <1>7 DEF WorkInv

\* Every step is one of a reader or a channel, of the coordinator, or of a worker.
LEMMA StepsOfIngress ==
  ASSUME [IngressNext]_ingressVars
  PROVE  \/ UNCHANGED <<fixedVars, started, phase, cellVars>>
         \/ StartBatch
         \/ \E w \in Workers : Prepare(w) \/ Finalise(w)
<1>1. CASE UNCHANGED ingressVars
  BY <1>1 DEF ingressVars, fixedVars, cellVars
<1>2. ASSUME NEW s \in StreamIds, Receiver(s)
      PROVE  UNCHANGED <<fixedVars, started, phase, cellVars>>
  BY <1>2 DEF Receiver, StoreRecord, OpenBatch, RouteRecord, EndStream, SendPart, SendChunk,
             PublishLane, CountStream
<1>3. CASE GatherPart
  BY <1>3 DEF GatherPart
<1>4. ASSUME NEW w \in Workers, TakeChunk(w) PROVE UNCHANGED <<fixedVars, started, phase, cellVars>>
  BY <1>4 DEF TakeChunk
<1> QED
  BY <1>1, <1>2, <1>3, <1>4 DEF IngressNext, Worker

\* Every step keeps the workers in step.
LEMMA WorkStep == ReaderInv /\ WorkInv /\ [IngressNext]_ingressVars => WorkInv'
BY StepsOfIngress, WorkUndisturbed, StartStep, PrepareStep, FinaliseStep

\* Nothing is reserved in the beginning.
LEMMA WorkInitially == IngressInit => WorkInv
<1> SUFFICES ASSUME IngressInit PROVE WorkInv
  OBVIOUS
<1>1. WorkType
  BY Sizes, IngressAssumption DEF IngressInit, WorkType, IngressAssumption, Workers
<1>2. InStep
  BY DEF IngressInit, InStep
<1>3. HoldsForBatch /\ StripesMade
  BY DEF IngressInit, HoldsForBatch, StripesMade
<1> QED
  BY <1>1, <1>2, <1>3 DEF WorkInv, IngressInit

-----------------------------------------------------------------------------
\* What the batch leaves unspent, and whom it makes eligible: those who came first at
\* all their cells.
FirstComersWin ==
  /\ Decided
  /\ \A t \in BatchTxs(started - 1) :
       Eligible(t) <=> \A i \in Refs(t, picked) : i \in CellsOfBatch /\ FirstAt(t, i)
  /\ Unspent = CellsOfBatch
                 \ UNION {Refs(t, picked) : t \in {u \in BatchTxs(started - 1) : Eligible(u)}}

AtBarrier == started > 0 /\ \A w \in Workers : phase[w] = 2 * started - 1

\* When every worker has reserved its share the batch is decided, and nobody holds a
\* cell of two.
LEMMA BatchOutcome == WorkType /\ HoldsForBatch /\ Shares /\ AtBarrier => FirstComersWin
<1> SUFFICES ASSUME WorkType, HoldsForBatch, Shares, started > 0,
                    \A w \in Workers : phase[w] = 2 * started - 1
             PROVE  FirstComersWin
  BY DEF AtBarrier
<1>1. Decided
  BY DEF WorkType, Decided
<1>2. CellsOfBatch \subseteq Serials
  BY DEF CellsOfBatch, Held, WorkType
<1>3. Held = {p \in BatchTxs(started - 1) \X CellsOfBatch : FirstAt(p[1], p[2])}
  <2>1. \A w \in Workers : reserved[w] = ShareOf(w)
    BY DEF Shares
  <2>2. \A i \in CellsOfBatch : owner[i] \in Workers
    BY <1>2 DEF WorkType
  <2>3. ASSUME NEW p \in BatchTxs(started - 1) \X CellsOfBatch, FirstAt(p[1], p[2])
        PROVE  p \in Held
    <3>1. owner[p[2]] \in Workers /\ p \in ShareOf(owner[p[2]])
      BY <2>2, <2>3 DEF ShareOf
    <3> QED
      BY <2>1, <3>1 DEF Held
  <2>4. \A p \in Held : p \in BatchTxs(started - 1) \X CellsOfBatch /\ FirstAt(p[1], p[2])
    BY <2>1 DEF Held, ShareOf
  <2> QED
    BY <2>3, <2>4
<1>4. ASSUME NEW t \in BatchTxs(started - 1)
      PROVE  Eligible(t) <=> \A i \in Refs(t, picked) : i \in CellsOfBatch /\ FirstAt(t, i)
  <2> DEFINE mine == {p \in Held : p[1] = t}
             all == {t} \X Refs(t, picked)
  <2>1. t \in AllTxs
    BY DEF BatchTxs
  <2>2. IsFiniteSet(all) /\ Cardinality(all) = Arity /\ mine \subseteq all
    BY <2>1, ArityOfRefs, HeldAreRefs DEF WorkType
  <2>3. prepared[t] = Cardinality(mine)
    BY DEF Shares
  <2>4. ASSUME \A i \in Refs(t, picked) : i \in CellsOfBatch /\ FirstAt(t, i)
        PROVE  mine = all
    <3>1. \A i \in Refs(t, picked) : <<t, i>> \in Held
      BY <1>3, <2>4
    <3> QED
      BY <2>2, <3>1
  <2>5. ASSUME mine = all, NEW i \in Refs(t, picked)
        PROVE  i \in CellsOfBatch /\ FirstAt(t, i)
    <3>1. <<t, i>> \in Held
      BY <2>5
    <3> QED
      BY <1>3, <3>1
  <2> HIDE DEF mine, all
  <2>6. Cardinality(mine) = Cardinality(all) => mine = all
    BY <2>2, FS_Subset
  <2>7. Eligible(t) <=> mine = all
    BY <2>2, <2>3, <2>6 DEF Eligible
  <2> QED
    BY <2>4, <2>5, <2>7
<1>5. \A t \in BatchTxs(started - 1) : \A i \in Refs(t, picked) : Eligible(t) => <<t, i>> \in Held
  BY <1>3, <1>4
<1>6. ASSUME NEW p \in Held, NEW q \in Held, p[2] = q[2] PROVE p[1] = q[1]
  <2>1. /\ p[1] \in BatchTxs(started - 1) /\ FirstAt(p[1], p[2])
        /\ q[1] \in BatchTxs(started - 1) /\ FirstAt(q[1], p[2])
    BY <1>3, <1>6
  <2>2. p[1] = q[1] \/ (Precedes(Order, p[1], q[1]) /\ Precedes(Order, q[1], p[1]))
    BY <2>1 DEF FirstAt
  <2>3. p[1] \in AllTxs /\ q[1] \in AllTxs
    BY <2>1 DEF BatchTxs
  <2> QED
    BY <2>2, <2>3, OneComesFirst
<1> DEFINE spent == UNION {Refs(t, picked) : t \in {u \in BatchTxs(started - 1) : Eligible(u)}}
<1>7. \A i : i \in spent <=> \E t \in BatchTxs(started - 1) : Eligible(t) /\ i \in Refs(t, picked)
  OBVIOUS
<1>8. \A i : i \in Unspent <=> i \in live \/ \E p \in Held : i = p[2] /\ ~ Eligible(p[1])
  BY <1>1 DEF Unspent, Held
<1> HIDE DEF spent
<1>9. ASSUME NEW i \in Unspent PROVE i \in CellsOfBatch \ spent
  <2>1. i \in CellsOfBatch
    BY <1>8 DEF CellsOfBatch
  <2>2. ASSUME NEW t \in BatchTxs(started - 1), Eligible(t), i \in Refs(t, picked) PROVE FALSE
    <3>1. PICK q \in Held : q = <<t, i>>
      BY <1>5, <2>2
    <3>2. q[1] = t /\ q[2] = i
      BY <3>1
    <3>3. i \notin live
      BY <3>1, <3>2 DEF Shares
    <3>4. PICK p \in Held : i = p[2] /\ ~ Eligible(p[1])
      BY <1>8, <3>3
    <3>5. p[1] = t
      BY <1>6, <3>1, <3>2, <3>4
    <3> QED
      BY <2>2, <3>4, <3>5
  <2> QED
    BY <1>7, <2>1, <2>2
<1>10. ASSUME NEW i \in CellsOfBatch \ spent PROVE i \in Unspent
  <2>1. CASE i \in live
    BY <1>8, <2>1
  <2>2. ASSUME NEW p \in Held, i = p[2] PROVE i \in Unspent
    <3>1. p[1] \in BatchTxs(started - 1) /\ i \in Refs(p[1], picked)
      BY <1>3, <2>2 DEF FirstAt
    <3>2. ~ Eligible(p[1])
      BY <1>7, <1>10, <3>1
    <3> QED
      BY <1>8, <2>2, <3>2
  <2> QED
    BY <2>1, <2>2 DEF CellsOfBatch
<1>11. Unspent = CellsOfBatch \ spent
  BY <1>9, <1>10
<1> QED
  BY <1>1, <1>4, <1>11 DEF spent, FirstComersWin


\* BatchEngine's batches are those of the workload.
LEMMA SameBatches ==
  /\ Engine!AllTxs = AllTxs /\ Engine!Serials = Serials /\ Engine!BatchCount = BatchCount
  /\ \A b : Engine!BatchTxs(b) = BatchTxs(b)
  /\ \A t, p : Engine!Refs(t, p) = Refs(t, p)
  /\ \A o, t, u : Engine!Precedes(o, t, u) <=> Precedes(o, t, u)
<1>1. Engine!AllTxs = AllTxs /\ Engine!Serials = Serials /\ Engine!BatchCount = BatchCount
  BY DEF Engine!AllTxs, AllTxs, Engine!Serials, Serials, Engine!BatchCount, BatchCount
<1>2. \A b : Engine!BatchTxs(b) = BatchTxs(b)
  BY <1>1 DEF Engine!BatchTxs, BatchTxs, Engine!BatchOf, BatchOf
<1>3. \A t, p : Engine!Refs(t, p) = Refs(t, p)
  BY DEF Engine!Refs, Refs, Engine!Referenced, Referenced
<1>4. \A o, t, u : Engine!Precedes(o, t, u) <=> Precedes(o, t, u)
  BY DEF Engine!Precedes, Precedes
<1> QED
  BY <1>1, <1>2, <1>3, <1>4

\* The transactions of a batch that come first at all their cells win.
LEMMA WinnersComeFirst ==
  ASSUME started > 0, Done = started - 1, Unspent = CellsOfBatch
  PROVE  Engine!Winners =
           {t \in BatchTxs(started - 1) :
              \A i \in Refs(t, picked) : i \in CellsOfBatch /\ FirstAt(t, i)}
<1>1. ASSUME NEW t \in BatchTxs(started - 1), NEW i \in Refs(t, picked)
      PROVE  Engine!Reserves(t, i) <=> i \in CellsOfBatch /\ FirstAt(t, i)
  BY <1>1, SameBatches DEF Engine!Reserves, FirstAt
<1> QED
  BY <1>1, SameBatches DEF Engine!Winners

\* The last worker to reserve its share decides the batch.
LEMMA LastPrepareDecides ==
  ASSUME ReaderInv, WorkInv, [IngressNext]_ingressVars, NEW w \in Workers, Prepare(w), Decided'
  PROVE  Engine!ProcessBatch
<1>1. /\ started > 0 /\ ~ Decided /\ phase[w] = 2 * started - 2
  BY SeesBatch DEF Prepare, MayPrepare
<1>2. WorkType /\ InStep /\ started \in Nat /\ BatchCount \in Nat /\ started <= BatchCount
  BY Sizes DEF WorkInv, WorkType
<1>3. /\ \A v \in Workers : phase'[v] = IF v = w THEN 2 * started - 1 ELSE phase[v]
      /\ UNCHANGED <<transport, picked, owner, started, outputs>>
      /\ CellsOfBatch' = CellsOfBatch
  BY PrepareMoves
<1>4. \A v \in Workers : phase[v] \in {2 * started - 2, 2 * started - 1}
  BY <1>1, <1>2 DEF InStep
<1>5. \A v \in Workers : phase'[v] = 2 * started' - 1
  BY <1>2, <1>3, <1>4 DEF Decided
<1>6. WorkType' /\ HoldsForBatch' /\ Shares'
  BY WorkStep, PrepareCounts DEF WorkInv
<1>7. (WorkType /\ HoldsForBatch /\ Shares /\ AtBarrier => FirstComersWin)'
  BY BatchOutcome, PTL
<1>8. FirstComersWin'
  BY <1>1, <1>3, <1>5, <1>6, <1>7 DEF AtBarrier
<1> DEFINE winners == {t \in BatchTxs(started - 1) :
                         \A i \in Refs(t, picked) : i \in CellsOfBatch /\ FirstAt(t, i)}
<1>9. \A t, i : FirstAt(t, i)' <=> FirstAt(t, i)
  BY <1>3 DEF FirstAt, Order
<1>10. {t \in BatchTxs(started - 1) : Eligible(t)}' = winners
  BY <1>1, <1>3, <1>8, <1>9 DEF FirstComersWin
<1>11. Unspent' = CellsOfBatch \ UNION {Refs(t, picked) : t \in winners}
  BY <1>1, <1>3, <1>8, <1>10 DEF FirstComersWin
<1>12. Unspent = CellsOfBatch /\ Made = outputs /\ Done = started - 1
  BY <1>1 DEF Unspent, CellsOfBatch, Held, Made, Done
<1>13. Made' = outputs \cup winners /\ Done' = started
  BY <1>1, <1>3, <1>10 DEF Made, Done
<1>14. Engine!Winners = winners
  BY <1>1, <1>12, WinnersComeFirst
<1> HIDE DEF winners
<1>15. Unspent' = Unspent \ UNION {Engine!Refs(t, picked) : t \in Engine!Winners}
  BY <1>11, <1>12, <1>14, SameBatches
<1>16. Done < Engine!BatchCount /\ Done' = Done + 1
  BY <1>1, <1>2, <1>12, <1>13, SameBatches
<1>17. Order' = Order
  BY <1>3 DEF Order
<1> QED
  BY <1>3, <1>12, <1>13, <1>14, <1>15, <1>16, <1>17 DEF Engine!ProcessBatch

\* A worker that reserves while others have not changes nothing of that.
LEMMA EarlyPrepareStutters ==
  ASSUME ReaderInv, WorkInv, NEW w \in Workers, Prepare(w), ~ Decided'
  PROVE  UNCHANGED <<picked, Order, Unspent, Made, Done>>
<1>1. /\ started > 0 /\ ~ Decided
  BY SeesBatch DEF Prepare, MayPrepare
<1>2. UNCHANGED <<transport, picked, started, outputs>> /\ CellsOfBatch' = CellsOfBatch
  BY PrepareMoves
<1>3. Unspent = CellsOfBatch /\ Unspent' = CellsOfBatch'
  BY <1>1 DEF Unspent, CellsOfBatch, Held
<1> QED
  BY <1>1, <1>2, <1>3 DEF Order, Made, Done

\* Nor does one that acts on the decision.
LEMMA FinaliseStutters ==
  ASSUME ReaderInv, WorkInv, [IngressNext]_ingressVars, NEW w \in Workers, Finalise(w)
  PROVE  UNCHANGED <<picked, Order, Unspent, Made, Done>>
<1>1. /\ started > 0 /\ Decided /\ Decided'
      /\ outputs' \subseteq outputs \cup {t \in BatchTxs(started - 1) : Eligible(t)}
  BY FinaliseStep
<1>2. /\ reserved' = [reserved EXCEPT ![w] = {}] /\ outputs \subseteq outputs'
      /\ live' = live \cup {p[2] : p \in {q \in reserved[w] : ~ Eligible(q[1])}}
      /\ UNCHANGED <<transport, picked, started, prepared>>
  BY DEF Finalise, Settle, fixedVars
<1>3. \A t : Eligible(t)' = Eligible(t)
  BY <1>2 DEF Eligible
<1>4. \A v \in Workers : reserved'[v] = IF v = w THEN {} ELSE reserved[v]
  BY <1>2 DEF WorkInv, WorkType
<1> DEFINE back(v) == {p[2] : p \in {q \in reserved[v] : ~ Eligible(q[1])}}
           left(v) == {p[2] : p \in {q \in reserved'[v] : ~ Eligible(q[1])}}
<1>5. /\ \A v \in Workers : left(v) = IF v = w THEN {} ELSE back(v)
      /\ live' = live \cup back(w)
  BY <1>2, <1>4
<1>6. Unspent = live \cup UNION {back(v) : v \in Workers}
  BY <1>1 DEF Unspent
<1>7. Unspent' = live' \cup UNION {left(v) : v \in Workers}
  BY <1>1, <1>3 DEF Unspent
<1> HIDE DEF back, left
<1>8. Unspent' = Unspent
  BY <1>5, <1>6, <1>7
<1>9. {t \in BatchTxs(started - 1) : Eligible(t)}' = {t \in BatchTxs(started - 1) : Eligible(t)}
  BY <1>2, <1>3
<1>10. Made' = Made
  BY <1>1, <1>2, <1>9 DEF Made
<1> QED
  BY <1>1, <1>2, <1>8, <1>10 DEF Order, Done

\* Between two batches all outputs of the one before exist and nothing is reserved.
LEMMA IdleIsSettled ==
  ASSUME WorkInv, \A w \in Workers : phase[w] = 2 * started
  PROVE  Unspent = live /\ Made = outputs /\ Done = started
<1>1. started \in Nat /\ StripesMade /\ \A w \in Workers : reserved[w] = {}
  BY DEF WorkInv, WorkType, HoldsForBatch
<1>2. started > 0 => Decided
  BY <1>1 DEF Decided
<1>3. started > 0 => {t \in BatchTxs(started - 1) : Eligible(t)} \subseteq outputs
  <2> SUFFICES ASSUME started > 0, NEW t \in BatchTxs(started - 1), Eligible(t)
               PROVE  t \in outputs
    OBVIOUS
  <2> DEFINE w == (t - (started - 1) * BatchSize) % WorkerCount
  <2>1. w \in Workers
    <3>1. t - (started - 1) * BatchSize \in Int
      BY <1>1, Sizes DEF BatchTxs, AllTxs
    <3> QED
      BY <3>1, Sizes, Division DEF Workers
  <2> QED
    BY <1>1, <2>1 DEF StripesMade
<1>4. Made = outputs
  BY <1>3 DEF Made, Decided
<1>5. Unspent = live
  BY <1>1 DEF Unspent
<1>6. Done = started
  BY <1>1, <1>2 DEF Done, Decided
<1> QED
  BY <1>4, <1>5, <1>6

\* Nor does the start of a batch.
LEMMA StartStutters ==
  ASSUME ReaderInv, WorkInv, StartBatch
  PROVE  UNCHANGED <<picked, Order, Unspent, Made, Done>>
<1>1. ~ Decided' /\ Held' = {} /\ started \in Nat
  BY StartStep DEF WorkInv, WorkType
<1>2. /\ \A w \in Workers : phase[w] = 2 * started
      /\ started' = started + 1
      /\ UNCHANGED <<transport, picked, live, outputs>>
  BY DEF StartBatch, Idle, fixedVars, cellVars
<1>3. Unspent = live /\ Made = outputs /\ Done = started
  BY <1>2, IdleIsSettled
<1>4. Unspent' = live' /\ Made' = outputs' /\ Done' = started
  BY <1>1, <1>2 DEF Unspent, Held, Made, Done
<1> QED
  BY <1>2, <1>3, <1>4 DEF Order

\* A step is the execution of a batch, or nothing to BatchEngine.
LEMMA StepIsBatch ==
  ASSUME ReaderInv, WorkInv, [IngressNext]_ingressVars
  PROVE  [Engine!ProcessBatch]_<<picked, Order, Unspent, Made, Done>>
<1>1. CASE UNCHANGED <<fixedVars, started, phase, cellVars>>
  BY <1>1 DEF fixedVars, cellVars, Order, Unspent, Made, Done, Decided, Eligible
<1>2. CASE StartBatch
  BY <1>2, StartStutters
<1>3. ASSUME NEW w \in Workers, Prepare(w)
      PROVE  [Engine!ProcessBatch]_<<picked, Order, Unspent, Made, Done>>
  BY <1>3, LastPrepareDecides, EarlyPrepareStutters
<1>4. ASSUME NEW w \in Workers, Finalise(w)
      PROVE  UNCHANGED <<picked, Order, Unspent, Made, Done>>
  BY <1>4, FinaliseStutters
<1> QED
  BY <1>1, <1>2, <1>3, <1>4, StepsOfIngress

\* Readers and workers keep their invariants.
LEMMA IngressSafe == IngressSpec => [](ReaderInv /\ WorkInv)
<1>1. IngressInit => ReaderInv /\ WorkInv
  BY ReaderInitially, WorkInitially
<1>2. ReaderInv /\ WorkInv /\ [IngressNext]_ingressVars => ReaderInv' /\ WorkInv'
  BY ReaderStep, WorkStep
<1> QED
  BY <1>1, <1>2, PTL DEF IngressSpec

\* The threads of PERF-006 to PERF-014 implement BatchEngine.
THEOREM BatchesTakeEffectAtOnce == IngressSpec => ImplementsBatchEngine
<1>1. IngressInit => Engine!EngineInit
  <2> SUFFICES ASSUME IngressInit PROVE Engine!EngineInit
    OBVIOUS
  <2>1. ~ Decided /\ Held = {}
    BY DEF IngressInit, Decided, Held
  <2>2. Unspent = Serials /\ Made = {} /\ Done = 0
    BY <2>1 DEF IngressInit, Unspent, Held, Made, Done
  <2>3. Order \in {"tx", "stream"}
    BY DEF Order
  <2> QED
    BY <2>2, <2>3, SameBatches DEF IngressInit, Engine!EngineInit
<1>2. ReaderInv /\ WorkInv /\ [IngressNext]_ingressVars
        => [Engine!ProcessBatch]_<<picked, Order, Unspent, Made, Done>>
  BY StepIsBatch
<1> QED
  BY <1>1, <1>2, IngressSafe, PTL
     DEF IngressSpec, ImplementsBatchEngine, Engine!EngineSpec, Engine!engineVars

-----------------------------------------------------------------------------
(* What that means for the cells                                           *)

\* Two transactions share a cell only if they are neighbours and the second, but not the
\* first, was picked to contend.
LEMMA NeighboursShare ==
  ASSUME picked \in SUBSET (AllTxs \ {0}), NEW t \in AllTxs, NEW u \in AllTxs, t < u,
         NEW i \in Refs(t, picked) \cap Refs(u, picked)
  PROVE  u = t + 1 /\ t \notin picked /\ u \in picked
<1>1. /\ Arity \in Nat \ {0} /\ t \in Nat /\ u \in Nat
      /\ t * Arity \in Int /\ u * Arity \in Int
      /\ (t + 1) * Arity = t * Arity + Arity /\ (t - 1) * Arity = t * Arity - Arity
      /\ (u - 1) * Arity = u * Arity - Arity
  BY Sizes DEF AllTxs
<1>2. PICK j \in 0..(Arity - 1) : i = Referenced(t, j, picked)
  BY DEF Refs
<1>3. PICK k \in 0..(Arity - 1) : i = Referenced(u, k, picked)
  BY DEF Refs
<1>4. (t + 1) * Arity <= u * Arity
  BY <1>1, TimesMonotone
<1>5. i < (t + 1) * Arity /\ i \in Int
  BY <1>1, <1>2 DEF Referenced
<1>6. u \in picked /\ i = (u - 1) * Arity
  BY <1>1, <1>3, <1>4, <1>5 DEF Referenced
<1>7. ASSUME t + 2 <= u PROVE FALSE
  <2>1. (t + 2) * Arity <= u * Arity /\ (t + 2) * Arity = t * Arity + Arity + Arity
    BY <1>1, <1>7, TimesMonotone
  <2> QED
    BY <1>1, <1>5, <1>6, <2>1
<1>8. u = t + 1
  BY <1>1, <1>7
<1>9. i = t * Arity
  BY <1>1, <1>6, <1>8
<1>10. t \notin picked
  BY <1>1, <1>2, <1>9 DEF Referenced
<1> QED
  BY <1>6, <1>8, <1>10

Rivals(t, u) == t # u /\ Refs(t, picked) \cap Refs(u, picked) # {}

\* So a transaction has at most one rival.
LEMMA OneRival ==
  ASSUME picked \in SUBSET (AllTxs \ {0}), NEW t \in AllTxs, NEW u \in AllTxs, NEW v \in AllTxs,
         Rivals(t, u), Rivals(t, v)
  PROVE  u = v
<1>1. t \in Int /\ u \in Int /\ v \in Int
  BY Sizes DEF AllTxs
<1>2. ASSUME NEW x \in AllTxs, Rivals(t, x)
      PROVE  IF t \in picked THEN t = x + 1 ELSE x = t + 1
  <2>1. t < x \/ x < t
    BY <1>1, <1>2, Sizes DEF Rivals, AllTxs
  <2>2. \E i : i \in Refs(t, picked) \cap Refs(x, picked)
    BY <1>2 DEF Rivals
  <2> QED
    BY <2>1, <2>2, NeighboursShare
<1> QED
  BY <1>1, <1>2

\* In either order one of two transactions does come first.
LEMMA SomeComesFirst ==
  ASSUME NEW t \in AllTxs, NEW u \in AllTxs, NEW o, t # u
  PROVE  Precedes(o, t, u) \/ Precedes(o, u, t)
<1>1. t \in Int /\ u \in Int /\ t % Streams \in Int /\ u % Streams \in Int
  BY Sizes, Division DEF AllTxs
<1> QED
  BY <1>1 DEF Precedes

\* Only transactions of the batches done have committed; every cell is live or spent by
\* one of them; and who aborted has lost a cell to one of them.
Settled ==
  /\ Made \subseteq {t \in AllTxs : BatchOf(t) < Done}
  /\ \A t, u \in Made : t # u => Refs(t, picked) \cap Refs(u, picked) = {}
  /\ Unspent = Serials \ UNION {Refs(t, picked) : t \in Made}
  /\ \A t \in AllTxs : BatchOf(t) < Done /\ t \notin Made =>
       \E u \in Made : Refs(t, picked) \cap Refs(u, picked) # {}

\* Who wins nothing in a batch has lost to a transaction of an earlier batch or to a
\* winner of this one.
LEMMA LosersLose ==
  ASSUME picked \in SUBSET (AllTxs \ {0}), Settled,
         NEW t \in BatchTxs(Done), t \notin Engine!Winners
  PROVE  \E u \in Made \cup Engine!Winners : Refs(t, picked) \cap Refs(u, picked) # {}
<1>1. t \in AllTxs /\ BatchOf(t) = Done
  BY DEF BatchTxs
<1>2. \A x \in BatchTxs(Done) :
        x \in Engine!Winners <=>
          \A i \in Refs(x, picked) :
            /\ i \in Unspent
            /\ \A u \in BatchTxs(Done) : i \in Refs(u, picked) => u = x \/ Precedes(Order, x, u)
  BY SameBatches DEF Engine!Winners, Engine!Reserves
<1>3. \A x \in AllTxs : \A i \in Refs(x, picked) :
        i \notin Unspent => \E u \in Made : i \in Refs(u, picked)
  <2>1. \A x \in AllTxs : Refs(x, picked) \subseteq Serials
    BY ReferencesAreCells
  <2> QED
    BY <2>1 DEF Settled
<1>4. PICK i \in Refs(t, picked) :
        \/ i \notin Unspent
        \/ \E u \in BatchTxs(Done) : i \in Refs(u, picked) /\ u # t /\ ~ Precedes(Order, t, u)
  BY <1>2
<1>5. CASE i \notin Unspent
  BY <1>1, <1>3, <1>5
<1>6. CASE i \in Unspent
  <2>1. PICK u \in BatchTxs(Done) : i \in Refs(u, picked) /\ u # t /\ ~ Precedes(Order, t, u)
    BY <1>4, <1>6
  <2>2. u \in AllTxs /\ Precedes(Order, u, t) /\ Rivals(u, t)
    BY <1>1, <2>1, SomeComesFirst DEF BatchTxs, Rivals
  <2>3. ASSUME NEW j \in Refs(u, picked), j \notin Unspent PROVE FALSE
    <3>1. PICK v \in Made : j \in Refs(v, picked)
      BY <1>3, <2>2, <2>3
    <3>2. v \in AllTxs /\ BatchOf(v) < Done
      BY <3>1 DEF Settled
    <3>3. BatchOf(u) = Done /\ Done \in Int /\ v # u /\ v # t
      <4>1. BatchOf(u) = Done /\ BatchOf(v) \in Int
        BY <2>2, <3>2, BatchInRange DEF BatchTxs
      <4>2. Done \in Int
        BY <1>1, BatchInRange
      <4> QED
        BY <1>1, <3>2, <4>1, <4>2
    <3>4. Rivals(u, v)
      BY <2>3, <3>1, <3>3 DEF Rivals
    <3> QED
      BY <1>1, <2>2, <3>2, <3>3, <3>4, OneRival
  <2>4. ASSUME NEW j \in Refs(u, picked), NEW v \in BatchTxs(Done), j \in Refs(v, picked), v # u
        PROVE  Precedes(Order, u, v)
    <3>1. v \in AllTxs /\ Rivals(u, v)
      BY <2>4 DEF BatchTxs, Rivals
    <3>2. v = t
      BY <1>1, <2>2, <3>1, OneRival
    <3> QED
      BY <2>2, <3>2
  <2>5. u \in Engine!Winners
    BY <1>2, <2>3, <2>4
  <2> QED
    BY <2>1, <2>5
<1> QED
  BY <1>5, <1>6

\* A batch leaves it so.
LEMMA BatchSettles ==
  ASSUME WorkType, Settled, Engine!ProcessBatch
  PROVE  Settled'
<1>1. /\ Unspent' = Unspent \ UNION {Refs(t, picked) : t \in Engine!Winners}
      /\ Made' = Made \cup Engine!Winners /\ Done' = Done + 1 /\ picked' = picked
  BY SameBatches DEF Engine!ProcessBatch
<1>2. picked \in SUBSET (AllTxs \ {0}) /\ Done \in Int
  BY DEF WorkType, Done
<1>3. \A t \in Engine!Winners :
        /\ t \in BatchTxs(Done) /\ t \in AllTxs /\ BatchOf(t) = Done
        /\ \A i \in Refs(t, picked) :
             /\ i \in Unspent
             /\ \A u \in BatchTxs(Done) : i \in Refs(u, picked) => u = t \/ Precedes(Order, t, u)
  BY SameBatches DEF Engine!Winners, Engine!Reserves, BatchTxs
<1>4. \A t \in AllTxs : BatchOf(t) \in Int
  BY BatchInRange
<1>5. Made' \subseteq {t \in AllTxs : BatchOf(t) < Done'}
  BY <1>1, <1>2, <1>3, <1>4 DEF Settled
<1>6. ASSUME NEW t \in Made', NEW u \in Made', t # u
      PROVE  Refs(t, picked) \cap Refs(u, picked) = {}
  <2>1. \A v \in Made, w \in Engine!Winners : Refs(v, picked) \cap Refs(w, picked) = {}
    BY <1>3 DEF Settled
  <2>2. CASE t \in Made /\ u \in Made
    BY <1>6, <2>2 DEF Settled
  <2>3. CASE t \in Engine!Winners /\ u \in Engine!Winners
    <3> SUFFICES ASSUME NEW i \in Refs(t, picked), i \in Refs(u, picked) PROVE FALSE
      OBVIOUS
    <3>1. Precedes(Order, t, u) /\ Precedes(Order, u, t) /\ t \in AllTxs /\ u \in AllTxs
      BY <1>3, <1>6, <2>3
    <3> QED
      BY <1>6, <3>1, OneComesFirst
  <2> QED
    BY <1>1, <2>1, <2>2, <2>3
<1>7. Unspent' = Serials \ UNION {Refs(t, picked) : t \in Made'}
  <2>1. UNION {Refs(t, picked) : t \in Made'}
          = (UNION {Refs(t, picked) : t \in Made})
              \cup UNION {Refs(t, picked) : t \in Engine!Winners}
    BY <1>1
  <2>2. Unspent = Serials \ UNION {Refs(t, picked) : t \in Made}
    BY DEF Settled
  <2> QED
    BY <1>1, <2>1, <2>2
<1>8. ASSUME NEW t \in AllTxs, BatchOf(t) < Done', t \notin Made'
      PROVE  \E u \in Made' : Refs(t, picked) \cap Refs(u, picked) # {}
  <2>1. CASE BatchOf(t) < Done
    BY <1>1, <1>8, <2>1 DEF Settled
  <2>2. CASE BatchOf(t) = Done
    <3>1. t \in BatchTxs(Done) /\ t \notin Engine!Winners
      BY <1>1, <1>8, <2>2 DEF BatchTxs
    <3> QED
      BY <1>1, <1>2, <3>1, LosersLose
  <2> QED
    BY <1>1, <1>2, <1>4, <1>8, <2>1, <2>2
<1> QED
  BY <1>1, <1>5, <1>6, <1>7, <1>8 DEF Settled

\* It is always so.
LEMMA IngressSettled == IngressSpec => []Settled
<1>1. IngressInit => Settled
  <2> SUFFICES ASSUME IngressInit PROVE Settled
    OBVIOUS
  <2>1. ~ Decided /\ Held = {}
    BY DEF IngressInit, Decided, Held
  <2>2. Unspent = Serials /\ Made = {} /\ Done = 0
    BY <2>1 DEF IngressInit, Unspent, Held, Made, Done
  <2>3. \A t \in AllTxs : ~ (BatchOf(t) < 0)
    BY BatchInRange
  <2> QED
    BY <2>2, <2>3 DEF Settled
<1>2. ReaderInv /\ WorkInv /\ Settled /\ [IngressNext]_ingressVars => Settled'
  <2> SUFFICES ASSUME ReaderInv, WorkInv, Settled, [IngressNext]_ingressVars PROVE Settled'
    OBVIOUS
  <2>1. CASE Engine!ProcessBatch
    BY <2>1, BatchSettles DEF WorkInv
  <2>2. CASE UNCHANGED <<picked, Order, Unspent, Made, Done>>
    BY <2>2 DEF Settled
  <2> QED
    BY <2>1, <2>2, StepIsBatch
<1> QED
  BY <1>1, <1>2, IngressSafe, PTL DEF IngressSpec

\* However the threads interleave, no cell is spent twice or lost, and no two
\* transactions abort each other: the invariants of BatchEngine.
THEOREM CellsAreSpentOnce == IngressSpec => [](Engine!SpentOnce /\ Engine!AbortsLoseToCommits)
<1>1. Settled => Engine!SpentOnce /\ Engine!AbortsLoseToCommits
  <2>1. \A t : Engine!BatchOf(t) = BatchOf(t)
    BY DEF Engine!BatchOf, BatchOf
  <2> QED
    BY <2>1, SameBatches DEF Settled, Engine!SpentOnce, Engine!AbortsLoseToCommits
<1> QED
  BY <1>1, IngressSettled, PTL

\* Transactions that share nothing refer to Arity cells each.
LEMMA CellsOfMany ==
  ASSUME NEW chosen \in SUBSET (AllTxs \ {0}), NEW many \in SUBSET AllTxs,
         \A t, u \in many : t # u => Refs(t, chosen) \cap Refs(u, chosen) = {}
  PROVE  /\ IsFiniteSet(many) /\ IsFiniteSet(UNION {Refs(t, chosen) : t \in many})
         /\ Cardinality(UNION {Refs(t, chosen) : t \in many}) = Cardinality(many) * Arity
<1> DEFINE ks == 0..(Arity - 1)
           cellsOf == UNION {Refs(t, chosen) : t \in many}
           f == [x \in many \X ks |-> Referenced(x[1], x[2], chosen)]
<1>1. /\ Arity \in Nat \ {0} /\ TxCount \in Nat \ {0}
      /\ \A t \in AllTxs : t \in Nat
  BY Sizes DEF AllTxs
<1>2. IsFiniteSet(ks) /\ Cardinality(ks) = Arity
  BY <1>1, FS_Interval
<1>3. IsFiniteSet(many)
  <2>1. IsFiniteSet(AllTxs)
    BY <1>1, FS_Interval DEF AllTxs
  <2> QED
    BY <2>1, FS_Subset
<1>4. ASSUME NEW t \in many, NEW j \in ks, NEW k \in ks,
             Referenced(t, j, chosen) = Referenced(t, k, chosen)
      PROVE  j = k
  <2>1. t \in Nat /\ t * Arity \in Int /\ (t - 1) * Arity = t * Arity - Arity
    BY <1>1
  <2> QED
    BY <1>1, <1>4, <2>1 DEF Referenced
<1>5. ASSUME NEW t \in many, NEW j \in ks, NEW u \in many, NEW k \in ks,
             Referenced(t, j, chosen) = Referenced(u, k, chosen)
      PROVE  t = u /\ j = k
  <2>1. Referenced(t, j, chosen) \in Refs(t, chosen) \cap Refs(u, chosen)
    BY <1>5 DEF Refs
  <2> QED
    BY <1>4, <1>5, <2>1
<1>6. \A x, y \in many \X ks : f[x] = f[y] => x = y
  BY <1>5
<1>7. \A x \in many \X ks : f[x] \in cellsOf
  BY DEF Refs
<1>8. \A i \in cellsOf : \E x \in many \X ks : f[x] = i
  <2> SUFFICES ASSUME NEW i \in cellsOf PROVE \E x \in many \X ks : f[x] = i
    OBVIOUS
  <2>1. PICK t \in many, k \in ks : i = Referenced(t, k, chosen)
    BY DEF Refs
  <2>2. <<t, k>> \in many \X ks /\ f[<<t, k>>] = i
    BY <2>1
  <2> QED
    BY <2>2
<1> HIDE DEF cellsOf
<1>9. f \in Bijection(many \X ks, cellsOf)
  BY <1>6, <1>7, <1>8 DEF Bijection, Injection, Surjection, IsInjective
<1>10. ExistsBijection(many \X ks, cellsOf)
  BY <1>9 DEF ExistsBijection
<1>11. IsFiniteSet(many \X ks) /\ Cardinality(many \X ks) = Cardinality(many) * Arity
  BY <1>2, <1>3, FS_Product
<1>12. IsFiniteSet(cellsOf) /\ Cardinality(cellsOf) = Cardinality(many) * Arity
  BY <1>10, <1>11, FS_Bijection
<1> QED
  BY <1>3, <1>12 DEF cellsOf

\* The cells they leave, and the outputs they make, are as many as the engines expect.
LEMMA CellsLeft ==
  ASSUME NEW chosen \in SUBSET (AllTxs \ {0}), NEW many \in SUBSET AllTxs,
         \A t, u \in many : t # u => Refs(t, chosen) \cap Refs(u, chosen) = {},
         NEW left, left = Serials \ UNION {Refs(t, chosen) : t \in many}
  PROVE  /\ IsFiniteSet(many)
         /\ Cardinality(left) + Cardinality(many)
              = TxCount * Arity - Cardinality(many) * Arity + Cardinality(many)
<1> DEFINE spent == UNION {Refs(t, chosen) : t \in many}
<1>1. Arity \in Nat \ {0} /\ TxCount \in Nat \ {0}
  BY Sizes
<1>2. spent \subseteq Serials
  BY ReferencesAreCells
<1>3. /\ IsFiniteSet(many) /\ IsFiniteSet(spent)
      /\ Cardinality(spent) = Cardinality(many) * Arity
  BY CellsOfMany
<1> HIDE DEF spent
<1>4. PICK n \in Nat : n = TxCount * Arity
  BY <1>1
<1>5. IsFiniteSet(Serials) /\ Cardinality(Serials) = n
  <2>1. Serials = 0..(n - 1)
    BY <1>4 DEF Serials
  <2> QED
    BY <2>1, FS_Interval
<1>6. Cardinality(left) = n - Cardinality(many) * Arity
  <2>1. Serials \cap spent = spent
    BY <1>2
  <2>2. Cardinality(Serials \ spent) = Cardinality(Serials) - Cardinality(Serials \cap spent)
    BY <1>5, FS_Difference
  <2> QED
    BY <1>3, <1>5, <2>1, <2>2 DEF spent
<1>7. Cardinality(many) \in Nat
  BY <1>3, FS_CardinalityType
<1>8. Cardinality(many) * Arity \in Nat
  BY <1>1, <1>7
<1> QED
  BY <1>3, <1>4, <1>6, <1>7, <1>8

\* The books of the editions, final_cells = expected_cells (perf006 main.rs:346-350).
CellsAddUp ==
  (\A w \in Workers : phase[w] = 2 * BatchCount) =>
    Cardinality(live) + Cardinality(outputs)
      = TxCount * Arity - Cardinality(outputs) * Arity + Cardinality(outputs)

\* When the workers are through with all batches, as many cells are there as the
\* transactions that have committed leave.
THEOREM CellsAreCounted == IngressSpec => []CellsAddUp
<1>1. WorkInv /\ Settled => CellsAddUp
  <2> SUFFICES ASSUME WorkInv, Settled, \A w \in Workers : phase[w] = 2 * BatchCount
               PROVE  Cardinality(live) + Cardinality(outputs)
                        = TxCount * Arity - Cardinality(outputs) * Arity + Cardinality(outputs)
    BY DEF CellsAddUp
  <2>1. /\ BatchCount \in Nat /\ started \in Nat /\ started <= BatchCount /\ 0 \in Workers
        /\ picked \in SUBSET (AllTxs \ {0}) /\ outputs \subseteq AllTxs
    BY Sizes, WorkersCount DEF WorkInv, WorkType
  <2>2. started = BatchCount
    BY <2>1 DEF WorkInv, InStep
  <2>3. Unspent = live /\ Made = outputs
    BY <2>2, IdleIsSettled
  <2> QED
    BY <2>1, <2>3, CellsLeft DEF Settled
<1> QED
  BY <1>1, IngressSafe, IngressSettled, PTL

-----------------------------------------------------------------------------
(* The panics of the workers                                               *)

\* What a worker is about to reserve has arrived: "execution saw an unparsed wire
\* input", perf009 main.rs:301.
InputsAreParsed ==
  \A w \in Workers : MayPrepare(w) => Visible(w) = BatchTxs(Batch(w))

\* Nobody else has put a cell where a worker may have to put it back: "rollback
\* collision", perf006 main.rs:260 and after it in every edition.
RollbackFindsRoom ==
  \A v, w \in Workers : \A p \in reserved[v], q \in reserved[w] :
    /\ p[2] \notin live
    /\ p[2] = q[2] => v = w /\ p = q

\* The outputs a worker is about to make are new: "output collision", perf006
\* main.rs:281 and after it in every edition.
OutputsAreNew ==
  \A w \in Workers : phase[w] % 2 = 1 => Stripe(w) \cap outputs = {}

StripeOf(t) == (t - BatchOf(t) * BatchSize) % WorkerCount

\* Every worker holds cells of its own only, each once and out of the maps.
HoldsOwn ==
  \A w \in Workers : \A p \in reserved[w] :
    /\ owner[p[2]] = w /\ p[2] \notin live
    /\ \A q \in reserved[w] : p[2] = q[2] => p = q

\* An output of the batch in work has been made by a worker that is through with it.
MadeInTurn ==
  \A t \in outputs :
    /\ BatchOf(t) < started
    /\ BatchOf(t) = started - 1 => phase[StripeOf(t)] = 2 * started

NoClash == HoldsOwn /\ MadeInTurn

\* Every output is one worker's to make.
LEMMA StripeIsWorkers ==
  ASSUME NEW t \in AllTxs
  PROVE  StripeOf(t) \in Workers
<1>1. t - BatchOf(t) * BatchSize \in Int
  BY Sizes, BatchInRange DEF AllTxs
<1> QED
  BY <1>1, Sizes, Division DEF StripeOf, Workers

\* A worker that takes its share takes cells of its own, and no cell for two transactions.
LEMMA PrepareNoClash ==
  ASSUME ReaderInv, WorkInv, NoClash, NEW w \in Workers, Prepare(w)
  PROVE  NoClash'
<1>1. started > 0 /\ phase[w] = 2 * started - 2 /\ started \in Nat
  <2>1. MayPrepare(w) /\ started \in Nat
    BY DEF Prepare, MayPrepare, WorkInv, WorkType
  <2> QED
    BY <2>1, SeesBatch
<1>2. /\ Held' = Held \cup ShareOf(w) /\ live' \cap {p[2] : p \in Held'} = {}
      /\ \A v \in Workers : phase'[v] = IF v = w THEN 2 * started - 1 ELSE phase[v]
      /\ \A v \in Workers : reserved'[v] = IF v = w THEN ShareOf(w) ELSE reserved[v]
      /\ UNCHANGED <<owner, started, outputs>>
  BY PrepareMoves
<1>3. ASSUME NEW p \in ShareOf(w), NEW q \in ShareOf(w), p[2] = q[2] PROVE p = q
  <2>1. /\ p = <<p[1], p[2]>> /\ q = <<q[1], q[2]>>
        /\ p[1] \in AllTxs /\ q[1] \in AllTxs
        /\ p[1] # q[1] => Precedes(Order, p[1], q[1]) /\ Precedes(Order, q[1], p[1])
    BY <1>3 DEF ShareOf, FirstAt, BatchTxs
  <2>2. p[1] = q[1]
    BY <2>1, OneComesFirst
  <2> QED
    BY <1>3, <2>1, <2>2
<1>4. HoldsOwn'
  <2> SUFFICES ASSUME NEW v \in Workers, NEW p \in reserved'[v]
               PROVE  /\ owner'[p[2]] = v /\ p[2] \notin live'
                      /\ \A q \in reserved'[v] : p[2] = q[2] => p = q
    BY DEF HoldsOwn
  <2>1. p[2] \notin live'
    BY <1>2 DEF Held
  <2>2. CASE v = w
    <3>1. reserved'[v] = ShareOf(w) /\ \A q \in ShareOf(w) : owner'[q[2]] = w
      BY <1>2, <2>2 DEF ShareOf
    <3> QED
      BY <1>3, <2>1, <2>2, <3>1
  <2>3. CASE v # w
    BY <1>2, <2>1, <2>3 DEF NoClash, HoldsOwn
  <2> QED
    BY <2>2, <2>3
<1>5. MadeInTurn'
  <2>1. \A v \in Workers : phase[v] = 2 * started => phase'[v] = 2 * started
    BY <1>1, <1>2
  <2>2. \A t \in outputs : StripeOf(t) \in Workers
    BY StripeIsWorkers DEF WorkInv, WorkType
  <2> QED
    BY <1>2, <2>1, <2>2 DEF NoClash, MadeInTurn
<1> QED
  BY <1>4, <1>5 DEF NoClash

\* A worker that gives cells back and makes outputs leaves the others' alone.
LEMMA FinaliseNoClash ==
  ASSUME ReaderInv, WorkInv, NoClash, [IngressNext]_ingressVars, NEW w \in Workers, Finalise(w)
  PROVE  NoClash'
<1>1. /\ started > 0 /\ phase[w] = 2 * started - 1 /\ started \in Nat
  BY FinaliseStep DEF WorkInv, WorkType
<1>2. /\ reserved' = [reserved EXCEPT ![w] = {}] /\ phase' = [phase EXCEPT ![w] = @ + 1]
      /\ live' = live \cup {p[2] : p \in {q \in reserved[w] : ~ Eligible(q[1])}}
      /\ outputs' = outputs \cup {t \in Stripe(w) : Eligible(t)}
      /\ UNCHANGED <<owner, started>>
  BY DEF Finalise, Settle, fixedVars
<1>3. /\ \A v \in Workers : phase'[v] = IF v = w THEN 2 * started ELSE phase[v]
      /\ \A v \in Workers : reserved'[v] = IF v = w THEN {} ELSE reserved[v]
  BY <1>1, <1>2 DEF WorkInv, WorkType
<1>4. HoldsOwn'
  BY <1>2, <1>3 DEF NoClash, HoldsOwn
<1>5. MadeInTurn'
  <2>1. \A t \in Stripe(w) : BatchOf(t) = started - 1 /\ StripeOf(t) = w
    <3>1. Batch(w) = started - 1
      BY <1>1 DEF Batch
    <3> QED
      BY <3>1 DEF Stripe, StripeOf, BatchTxs
  <2>2. \A t \in outputs : StripeOf(t) \in Workers
    BY StripeIsWorkers DEF WorkInv, WorkType
  <2>3. \A t \in outputs : BatchOf(t) = started - 1 => StripeOf(t) # w
    BY <1>1 DEF NoClash, MadeInTurn
  <2>4. ASSUME NEW t \in outputs
        PROVE  BatchOf(t) < started /\ (BatchOf(t) = started - 1 => phase'[StripeOf(t)] = 2 * started)
    BY <1>3, <2>2, <2>3 DEF NoClash, MadeInTurn
  <2>5. ASSUME NEW t \in Stripe(w)
        PROVE  BatchOf(t) < started /\ (BatchOf(t) = started - 1 => phase'[StripeOf(t)] = 2 * started)
    BY <1>1, <1>3, <2>1
  <2> QED
    BY <1>2, <2>4, <2>5 DEF MadeInTurn
<1> QED
  BY <1>4, <1>5 DEF NoClash

\* Every step keeps the workers apart.
LEMMA NoClashStep ==
  ReaderInv /\ WorkInv /\ NoClash /\ [IngressNext]_ingressVars => NoClash'
<1> SUFFICES ASSUME ReaderInv, WorkInv, NoClash, [IngressNext]_ingressVars PROVE NoClash'
  OBVIOUS
<1>1. CASE UNCHANGED <<fixedVars, started, phase, cellVars>>
  BY <1>1 DEF fixedVars, cellVars, NoClash, HoldsOwn, MadeInTurn
<1>2. CASE StartBatch
  <2>1. \A w \in Workers : reserved'[w] = {}
    BY <1>2, StartStep DEF Held
  <2>2. outputs' = outputs /\ started' = started + 1 /\ started \in Nat
    BY <1>2 DEF StartBatch, cellVars, WorkInv, WorkType
  <2>3. \A t \in outputs : BatchOf(t) \in Int /\ BatchOf(t) < started
    BY BatchInRange DEF NoClash, MadeInTurn, WorkInv, WorkType
  <2>4. MadeInTurn'
    BY <2>2, <2>3 DEF MadeInTurn
  <2> QED
    BY <2>1, <2>4 DEF NoClash, HoldsOwn
<1> QED
  BY <1>1, <1>2, StepsOfIngress, PrepareNoClash, FinaliseNoClash

\* No thread of the batch engines panics for an input that has not been parsed, for a cell
\* that is in its way, or for an output that exists.
THEOREM NoEnginePanics ==
  IngressSpec => [](InputsAreParsed /\ RollbackFindsRoom /\ OutputsAreNew)
<1>1. IngressInit => NoClash
  BY DEF IngressInit, NoClash, HoldsOwn, MadeInTurn
<1>2. ReaderInv /\ WorkInv => InputsAreParsed
  BY SeesBatch DEF InputsAreParsed
<1>3. NoClash => RollbackFindsRoom
  BY DEF NoClash, HoldsOwn, RollbackFindsRoom
<1>4. WorkInv /\ NoClash => OutputsAreNew
  <2> SUFFICES ASSUME WorkInv, NoClash, NEW w \in Workers, phase[w] % 2 = 1,
                      NEW t \in Stripe(w), t \in outputs
               PROVE  FALSE
    BY DEF OutputsAreNew
  <2>1. started \in Nat /\ phase[w] \in Nat
    BY DEF WorkInv, WorkType
  <2>2. started > 0
    BY <2>1 DEF WorkInv, InStep
  <2>3. phase[w] = 2 * started - 1
    BY <2>1, <2>2 DEF WorkInv, InStep
  <2>4. Batch(w) = started - 1
    BY <2>1, <2>2, <2>3 DEF Batch
  <2>5. BatchOf(t) = started - 1 /\ StripeOf(t) = w
    BY <2>4 DEF Stripe, StripeOf, BatchTxs
  <2>6. phase[w] = 2 * started
    BY <2>5 DEF NoClash, MadeInTurn
  <2> QED
    BY <2>1, <2>3, <2>6
<1> QED
  BY <1>1, <1>2, <1>3, <1>4, NoClashStep, IngressSafe, PTL DEF IngressSpec

-----------------------------------------------------------------------------
(* The books of the locking engine                                         *)

\* What SerialEngine keeps, and with it the locking engine.
LocksSettled ==
  /\ committed \subseteq AllTxs /\ aborted \subseteq AllTxs /\ committed \cap aborted = {}
  /\ \A t, u \in committed : t # u => Refs(t, contended) \cap Refs(u, contended) = {}
  /\ SerialUnspent = Serials \ UNION {Refs(t, contended) : t \in committed}

\* A transaction that takes effect leaves it so.
LEMMA SerialSettles ==
  ASSUME LocksSettled, Serial!SerialNext
  PROVE  LocksSettled'
<1>1. PICK t \in AllTxs : Serial!Commit(t) \/ Serial!Abort(t)
  BY SameWorkload DEF Serial!SerialNext
<1>2. CASE Serial!Commit(t)
  <2>1. /\ t \notin committed \cup aborted /\ Refs(t, contended) \subseteq SerialUnspent
        /\ SerialUnspent' = SerialUnspent \ Refs(t, contended)
        /\ committed' = committed \cup {t} /\ contended' = contended /\ aborted' = aborted
    BY <1>2, SameWorkload DEF Serial!Commit, SerialUnspent
  <2>2. \A u \in committed : Refs(t, contended) \cap Refs(u, contended) = {}
    BY <2>1 DEF LocksSettled
  <2>3. \A i : i \in UNION {Refs(u, contended) : u \in committed'}
                 <=> i \in Refs(t, contended) \/ i \in UNION {Refs(u, contended) : u \in committed}
    BY <2>1
  <2>4. SerialUnspent' = Serials \ UNION {Refs(u, contended) : u \in committed'}
    BY <2>1, <2>3 DEF LocksSettled
  <2> QED
    BY <2>1, <2>2, <2>4 DEF LocksSettled
<1>3. CASE Serial!Abort(t)
  <2>1. /\ t \notin committed \cup aborted /\ aborted' = aborted \cup {t}
        /\ contended' = contended /\ committed' = committed /\ SerialUnspent' = SerialUnspent
    BY <1>3 DEF Serial!Abort, SerialUnspent
  <2> QED
    BY <2>1 DEF LocksSettled
<1> QED
  BY <1>1, <1>2, <1>3

\* The transactions dealt to a worker are LockWorkers apart.
LEMMA DealtInTurn ==
  ASSUME NEW w \in Lockers, NEW t \in Dealt(w), NEW u \in Dealt(w), t < u + LockWorkers
  PROVE  t <= u
<1>1. LockWorkers \in Nat \ {0} /\ w \in Nat
  BY ShardLocksAssumption DEF ShardLocksAssumption, Lockers
<1>2. PICK j \in Nat, k \in Nat : t = w + j * LockWorkers /\ u = w + k * LockWorkers
  BY DEF Dealt
<1>3. j * LockWorkers \in Int /\ k * LockWorkers \in Int
  BY <1>1
<1>4. CASE j <= k
  BY <1>1, <1>2, <1>3, <1>4, TimesMonotone
<1>5. CASE k + 1 <= j
  <2>1. (k + 1) * LockWorkers <= j * LockWorkers
        /\ (k + 1) * LockWorkers = k * LockWorkers + LockWorkers
    BY <1>1, <1>5, TimesMonotone
  <2> QED
    BY <1>1, <1>2, <1>3, <2>1
<1> QED
  BY <1>4, <1>5

\* Every transaction is dealt to a worker.
LEMMA AllAreDealt ==
  ASSUME NEW t \in AllTxs
  PROVE  \E w \in Lockers : t \in Dealt(w)
<1>1. LockWorkers \in Nat \ {0} /\ t \in Nat
  BY Sizes, ShardLocksAssumption DEF ShardLocksAssumption, AllTxs
<1>2. t \div LockWorkers \in Int /\ t % LockWorkers \in 0..(LockWorkers - 1)
      /\ t = (t \div LockWorkers) * LockWorkers + (t % LockWorkers)
  BY <1>1, Division
<1>3. 0 <= t \div LockWorkers
  BY <1>1, QuotientBelow
<1>4. t = (t % LockWorkers) + (t \div LockWorkers) * LockWorkers
  BY <1>1, <1>2
<1> QED
  BY <1>2, <1>3, <1>4 DEF Dealt, Lockers

\* A worker leaves none of the transactions dealt to it undecided.
LeavesNone ==
  \A w \in Lockers : \A t \in Dealt(w) :
    t < current[w] \/ (t = current[w] /\ step[w] = "drop") => t \in committed \cup aborted

\* Every step keeps that.
LEMMA LeavesNoneStep ==
  ASSUME LocksInv, LeavesNone, [LockNext]_lockVars
  PROVE  LeavesNone'
<1>1. LockType /\ \A w \in Lockers : current[w] \in Dealt(w) /\ current[w] \in Nat
  BY DEF LocksInv, InHand, LockType
<1>2. ASSUME current' = current, committed \subseteq committed', aborted \subseteq aborted',
             \A v \in Lockers : step'[v] = "drop" =>
               step[v] = "drop" \/ current[v] \in committed' \cup aborted'
      PROVE  LeavesNone'
  BY <1>2 DEF LeavesNone
<1>3. CASE UNCHANGED lockVars
  BY <1>2, <1>3 DEF lockVars
<1>4. ASSUME NEW w \in Lockers, NEW k \in Shards, LockShard(w, k) PROVE LeavesNone'
  BY <1>2, <1>4 DEF LockShard
<1>5. ASSUME NEW w \in Lockers, Check(w) PROVE LeavesNone'
  <2>1. CASE Refs(current[w], contended) \subseteq cells
    <3>1. /\ step' = [step EXCEPT ![w] = "move"]
          /\ UNCHANGED <<current, committed, aborted>>
      BY <1>5, <2>1 DEF Check
    <3>2. \A v \in Lockers : step'[v] = IF v = w THEN "move" ELSE step[v]
      BY <1>1, <3>1 DEF LockType
    <3> QED
      BY <1>2, <3>1, <3>2
  <2>2. CASE ~ (Refs(current[w], contended) \subseteq cells)
    <3>1. /\ step' = [step EXCEPT ![w] = "drop"] /\ aborted' = aborted \cup {current[w]}
          /\ UNCHANGED <<current, committed>>
      BY <1>5, <2>2 DEF Check
    <3>2. \A v \in Lockers : step'[v] = IF v = w THEN "drop" ELSE step[v]
      BY <1>1, <3>1 DEF LockType
    <3> QED
      BY <1>2, <3>1, <3>2
  <2> QED
    BY <2>1, <2>2
<1>6. ASSUME NEW w \in Lockers, NEW i \in Serials, MoveInput(w, i) PROVE LeavesNone'
  <2>1. UNCHANGED <<current, committed, aborted, step>>
    BY <1>6, MoveInputStep DEF MoveInput
  <2> QED
    BY <1>2, <2>1
<1>7. ASSUME NEW w \in Lockers, InsertOutput(w) PROVE LeavesNone'
  <2>1. /\ step' = [step EXCEPT ![w] = "drop"] /\ committed' = committed \cup {current[w]}
        /\ UNCHANGED <<current, aborted>>
    BY <1>7 DEF InsertOutput
  <2>2. \A v \in Lockers : step'[v] = IF v = w THEN "drop" ELSE step[v]
    BY <1>1, <2>1 DEF LockType
  <2> QED
    BY <1>2, <2>1, <2>2
<1>8. ASSUME NEW w \in Lockers, DropLock(w) PROVE LeavesNone'
  <2>1. step[w] = "drop" /\ UNCHANGED <<committed, aborted>>
    BY <1>8 DEF DropLock
  <2>2. CASE Cardinality(held[w]) = 1
    <3>1. /\ current' = [current EXCEPT ![w] = @ + LockWorkers]
          /\ step' = [step EXCEPT ![w] = "lock"]
      BY <1>8, <2>2 DEF DropLock
    <3>2. \A v \in Lockers :
            /\ current'[v] = IF v = w THEN current[v] + LockWorkers ELSE current[v]
            /\ step'[v] = IF v = w THEN "lock" ELSE step[v]
      BY <1>1, <3>1 DEF LockType
    <3>3. ASSUME NEW t \in Dealt(w), t < current[w] + LockWorkers
          PROVE  t \in committed \cup aborted
      <4>1. t <= current[w] /\ t \in Nat
        BY <1>1, <3>3, DealtInTurn, NextIsDealt
      <4>2. t < current[w] \/ t = current[w]
        BY <1>1, <4>1
      <4> QED
        BY <2>1, <4>2 DEF LeavesNone
    <3> QED
      BY <2>1, <3>2, <3>3 DEF LeavesNone
  <2>3. CASE Cardinality(held[w]) # 1
    BY <1>2, <1>8, <2>1, <2>3 DEF DropLock
  <2> QED
    BY <2>2, <2>3
<1> QED
  BY <1>3, <1>4, <1>5, <1>6, <1>7, <1>8 DEF LockNext, LockWorker

\* The last assertions of run_lock: every transaction has committed or aborted (perf005
\* main.rs:263), and final_cells = expected_cells (:276).
LocksAddUp ==
  LocksDone =>
    /\ committed \cup aborted = AllTxs /\ committed \cap aborted = {}
    /\ Cardinality(cells) + Cardinality(committed)
         = TxCount * Arity - Cardinality(committed) * Arity + Cardinality(committed)

\* They hold when all workers have finished.
THEOREM LocksAreCounted == LockSpec => []LocksAddUp
<1>1. LockInit => LocksSettled /\ LeavesNone
  <2> SUFFICES ASSUME LockInit PROVE LocksSettled /\ LeavesNone
    OBVIOUS
  <2>1. LocksSettled
    BY DEF LockInit, LocksSettled, SerialUnspent
  <2>2. ASSUME NEW w \in Lockers, NEW t \in Dealt(w), t < current[w] PROVE FALSE
    <3>1. current[w] = w /\ LockWorkers \in Nat \ {0} /\ w \in Nat
      BY ShardLocksAssumption DEF LockInit, ShardLocksAssumption, Lockers
    <3>2. PICK k \in Nat : t = w + k * LockWorkers
      BY DEF Dealt
    <3>3. k * LockWorkers \in Nat
      BY <3>1
    <3> QED
      BY <2>2, <3>1, <3>2, <3>3
  <2>3. LeavesNone
    BY <2>2 DEF LockInit, LeavesNone
  <2> QED
    BY <2>1, <2>3
<1>2. LocksInv /\ LocksSettled /\ [LockNext]_lockVars => LocksSettled'
  <2> SUFFICES ASSUME LocksInv, LocksSettled, [LockNext]_lockVars PROVE LocksSettled'
    OBVIOUS
  <2>1. CASE Serial!SerialNext
    BY <2>1, SerialSettles
  <2>2. CASE UNCHANGED <<contended, SerialUnspent, committed, aborted>>
    BY <2>2 DEF LocksSettled
  <2> QED
    BY <2>1, <2>2, StepIsSerial
<1>3. LocksInv /\ LeavesNone /\ [LockNext]_lockVars => LeavesNone'
  BY LeavesNoneStep
<1>4. LocksInv /\ LocksSettled /\ LeavesNone => LocksAddUp
  <2> SUFFICES ASSUME LocksInv, LocksSettled, LeavesNone, LocksDone PROVE LocksAddUp
    BY DEF LocksAddUp
  <2>1. contended \in SUBSET (AllTxs \ {0}) /\ committed \in SUBSET AllTxs /\ aborted \in SUBSET AllTxs
    BY DEF LocksInv, LockType
  <2>2. \A w \in Lockers : current[w] \notin AllTxs /\ current[w] \in Nat /\ moved[w] = {}
    BY DEF LocksDone, Busy, LocksInv, LockType, InHand
  <2>3. cells = SerialUnspent
    BY <2>2 DEF SerialUnspent
  <2>4. ASSUME NEW t \in AllTxs PROVE t \in committed \cup aborted
    <3>1. PICK w \in Lockers : t \in Dealt(w)
      BY AllAreDealt
    <3>2. t < current[w]
      BY <2>2, Sizes DEF AllTxs
    <3> QED
      BY <3>1, <3>2 DEF LeavesNone
  <2>5. Cardinality(cells) + Cardinality(committed)
          = TxCount * Arity - Cardinality(committed) * Arity + Cardinality(committed)
    BY <2>1, <2>3, CellsLeft DEF LocksSettled
  <2> QED
    BY <2>1, <2>4, <2>5 DEF LocksAddUp, LocksSettled
<1> QED
  BY <1>1, <1>2, <1>3, <1>4, LocksSafe, PTL DEF LockSpec

=============================================================================
