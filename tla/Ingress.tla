------------------------------ MODULE Ingress ------------------------------
(***************************************************************************)
(* The threads of the batch engines, PERF-006 to PERF-014.  Receivers read *)
(* the transactions of one TCP stream each, in order, and hand the input   *)
(* references on to the workers; every cell belongs to one worker.  A      *)
(* coordinator starts a batch when all of it has arrived and the one       *)
(* before is done.  The workers reserve the referenced cells, meet at a    *)
(* barrier, and then spend or restore what they reserved.                  *)
(*                                                                         *)
(* The editions differ in how the references travel: there from the start  *)
(* (PERF-006, 007), in a slot per transaction that all workers scan (009,  *)
(* 010), through the coordinator (011), through an inbox per worker (012,  *)
(* 013), or in a lane per stream and worker (014).  Streams are reliable   *)
(* and ordered.  Between two barriers a worker touches its own cells and   *)
(* counters that only grow, so each of its phases is one step.             *)
(***************************************************************************)
EXTENDS Batches, Sequences

CONSTANTS
  WorkerCount,
  Owners,         \* the assignments of cells to workers, as a hash may make them
  InboxCapacity,  \* bound of a sync_channel, at least four in the code
  IngressEditions

ASSUME IngressAssumption ==
  /\ WorkerCount \in Nat \ {0} /\ InboxCapacity \in Nat \ {0}
  /\ Owners \subseteq [Serials -> 0..(WorkerCount - 1)]
  /\ IngressEditions \subseteq {"loaded", "slots", "packets", "chunks", "lanes"}

Workers == 0..(WorkerCount - 1)
Coordinator == WorkerCount
NoBatch == -1

VARIABLES
  transport,   \* the edition
  picked, owner,  \* what the hashes say
  \* per stream: records read, the batch being read, the one being handed on, and
  \* how many workers have got their part of that one
  received, reading, flushing, handed,
  streamDone,  \* per batch: streams that have handed on all of it
  ready,       \* batches announced as complete
  inbox,       \* channels to the coordinator and the workers: <<stream, batch>>
  parts,       \* per thread: the <<stream, batch>> it can see
  started,     \* batches started by the coordinator
  phase,       \* per worker: phases completed, two for each batch
  live,        \* serials of the cells in the maps
  reserved,    \* per worker: the <<transaction, serial>> it took out of its maps
  prepared,    \* prepared_counts
  outputs      \* transactions whose output cell exists

ingressVars == <<transport, picked, owner, received, reading, flushing, handed, streamDone,
                 ready, inbox, parts, started, phase, live, reserved, prepared, outputs>>
wireVars == <<received, reading, flushing, handed, streamDone, ready>>
cellVars == <<live, reserved, prepared, outputs>>
fixedVars == <<transport, picked, owner>>

IngressInit ==
  /\ transport \in IngressEditions
  /\ picked \in SUBSET (AllTxs \ {0}) /\ owner \in Owners
  /\ received = [s \in StreamIds |-> 0]
  /\ reading = [s \in StreamIds |-> NoBatch] /\ flushing = [s \in StreamIds |-> NoBatch]
  /\ handed = [s \in StreamIds |-> 0]
  /\ streamDone = [b \in 0..(BatchCount - 1) |-> 0] /\ ready = {}
  /\ inbox = [c \in Workers \cup {Coordinator} |-> <<>>]
  /\ parts = [c \in Workers \cup {Coordinator} |-> {}]
  /\ started = 0 /\ phase = [w \in Workers |-> 0]
  /\ live = Serials /\ reserved = [w \in Workers |-> {}]
  /\ prepared = [t \in AllTxs |-> 0] /\ outputs = {}

-----------------------------------------------------------------------------
(* Receivers.                                                              *)
NextBatch(s) == BatchOf(StreamTx(s, received[s]))

Reads(s) == flushing[s] = NoBatch /\ received[s] < StreamCount(s)

\* A record of the slot edition is stored first; if it opens a new batch, the
\* stream is then done with the one before.
StoreRecord(s) ==
  /\ transport = "slots" /\ Reads(s)
  /\ received' = [received EXCEPT ![s] = @ + 1]
  /\ reading' = [reading EXCEPT ![s] = NextBatch(s)]
  /\ flushing' = [flushing EXCEPT ![s] = IF reading[s] = NextBatch(s) THEN NoBatch ELSE reading[s]]
  /\ UNCHANGED <<fixedVars, handed, streamDone, ready, inbox, parts, started, phase, cellVars>>

\* In the others a new batch first hands on the one before.
OpenBatch(s) ==
  /\ transport \in {"packets", "chunks", "lanes"} /\ Reads(s)
  /\ reading[s] \notin {NoBatch, NextBatch(s)}
  /\ flushing' = [flushing EXCEPT ![s] = reading[s]]
  /\ reading' = [reading EXCEPT ![s] = NextBatch(s)]
  /\ UNCHANGED <<fixedVars, received, handed, streamDone, ready, inbox, parts, started, phase,
                 cellVars>>

RouteRecord(s) ==
  /\ transport \in {"packets", "chunks", "lanes"} /\ Reads(s)
  /\ reading[s] \in {NoBatch, NextBatch(s)}
  /\ received' = [received EXCEPT ![s] = @ + 1]
  /\ reading' = [reading EXCEPT ![s] = NextBatch(s)]
  /\ UNCHANGED <<fixedVars, flushing, handed, streamDone, ready, inbox, parts, started, phase,
                 cellVars>>

EndStream(s) ==
  /\ transport # "loaded"
  /\ flushing[s] = NoBatch /\ received[s] = StreamCount(s) /\ reading[s] # NoBatch
  /\ flushing' = [flushing EXCEPT ![s] = reading[s]]
  /\ reading' = [reading EXCEPT ![s] = NoBatch]
  /\ UNCHANGED <<fixedVars, received, handed, streamDone, ready, inbox, parts, started, phase,
                 cellVars>>

\* send waits while the channel is full.
Send(c, s) ==
  /\ Len(inbox[c]) < InboxCapacity
  /\ inbox' = [inbox EXCEPT ![c] = Append(@, <<s, flushing[s]>>)]

\* flush_batch of PERF-011: the whole part of the stream to the coordinator.
SendPart(s) ==
  /\ transport = "packets" /\ flushing[s] # NoBatch
  /\ Send(Coordinator, s)
  /\ flushing' = [flushing EXCEPT ![s] = NoBatch]
  /\ UNCHANGED <<fixedVars, received, reading, handed, streamDone, ready, parts, started, phase,
                 cellVars>>

\* flush_batch of PERF-012 and 013: a chunk, empty or not, to one worker after another.
SendChunk(s) ==
  /\ transport = "chunks" /\ flushing[s] # NoBatch /\ handed[s] < WorkerCount
  /\ Send(handed[s], s)
  /\ handed' = [handed EXCEPT ![s] = @ + 1]
  /\ UNCHANGED <<fixedVars, received, reading, flushing, streamDone, ready, parts, started, phase,
                 cellVars>>

\* flush_batch of PERF-014: Lane::publish for one worker after another.
PublishLane(s) ==
  /\ transport = "lanes" /\ flushing[s] # NoBatch /\ handed[s] < WorkerCount
  /\ parts' = [parts EXCEPT ![handed[s]] = @ \cup {<<s, flushing[s]>>}]
  /\ handed' = [handed EXCEPT ![s] = @ + 1]
  /\ UNCHANGED <<fixedVars, received, reading, flushing, streamDone, ready, inbox, started, phase,
                 cellVars>>

\* stream_done and the batch-ready message of the last stream.
CountStream(s) ==
  LET b == flushing[s]
  IN  /\ transport \in {"slots", "chunks", "lanes"} /\ b # NoBatch
      /\ transport = "slots" \/ handed[s] = WorkerCount
      /\ streamDone' = [streamDone EXCEPT ![b] = @ + 1]
      /\ ready' = IF streamDone[b] + 1 = ExpectedStreams(b) THEN ready \cup {b} ELSE ready
      /\ flushing' = [flushing EXCEPT ![s] = NoBatch]
      /\ handed' = [handed EXCEPT ![s] = 0]
      /\ UNCHANGED <<fixedVars, received, reading, inbox, parts, started, phase, cellVars>>

Receiver(s) ==
  \/ StoreRecord(s) \/ OpenBatch(s) \/ RouteRecord(s) \/ EndStream(s)
  \/ SendPart(s) \/ SendChunk(s) \/ PublishLane(s) \/ CountStream(s)

-----------------------------------------------------------------------------
(* The coordinator: one batch at a time, in order.                         *)
PartsOf(c, b) == {s \in StreamIds : <<s, b>> \in parts[c]}
HasAll(c, b) == Cardinality(PartsOf(c, b)) = ExpectedStreams(b)

Idle == \A w \in Workers : phase[w] = 2 * started

Receive(c) ==
  /\ inbox[c] # <<>>
  /\ inbox' = [inbox EXCEPT ![c] = Tail(@)]
  /\ parts' = [parts EXCEPT ![c] = @ \cup {Head(inbox[c])}]

\* PERF-011 takes parts only while the next batch is incomplete.
GatherPart ==
  /\ transport = "packets" /\ started < BatchCount /\ Idle
  /\ ~ HasAll(Coordinator, started)
  /\ Receive(Coordinator)
  /\ UNCHANGED <<fixedVars, wireVars, started, phase, cellVars>>

BatchIsReady ==
  CASE transport = "loaded" -> TRUE
    [] transport = "packets" -> HasAll(Coordinator, started)
    [] OTHER -> started \in ready

\* The start of a batch: barrier, packet, epoch or token.
StartBatch ==
  /\ started < BatchCount /\ Idle /\ BatchIsReady
  /\ started' = started + 1
  /\ UNCHANGED <<fixedVars, wireVars, inbox, parts, phase, cellVars>>

-----------------------------------------------------------------------------
(* Workers.                                                                *)
Batch(w) == phase[w] \div 2

\* A worker of PERF-012 takes chunks while it lacks one of its next batch.
TakeChunk(w) ==
  /\ transport = "chunks" /\ phase[w] % 2 = 0 /\ Batch(w) < BatchCount
  /\ ~ HasAll(w, Batch(w))
  /\ Receive(w)
  /\ UNCHANGED <<fixedVars, wireVars, started, phase, cellVars>>

\* The transactions of the batch whose references the worker comes across.
Visible(w) ==
  {t \in BatchTxs(Batch(w)) :
     CASE transport = "loaded" -> TRUE
       [] transport = "slots" -> t \div Streams < received[t % Streams]
       [] transport = "packets" -> <<t % Streams, Batch(w)>> \in parts[Coordinator]
       [] OTHER -> <<t % Streams, Batch(w)>> \in parts[w]}

Order == IF transport \in {"loaded", "slots"} THEN "tx" ELSE "stream"

\* Whoever comes first in that order takes the cell out of its map.
ComesFirst(w, t, i) ==
  /\ owner[i] = w /\ i \in Refs(t, picked)
  /\ \A u \in Visible(w) : i \in Refs(u, picked) => u = t \/ Precedes(Order, t, u)

Taken(w) == {p \in Visible(w) \X live : ComesFirst(w, p[1], p[2])}

Prepare(w) ==
  /\ phase[w] % 2 = 0 /\ Batch(w) < started
  /\ transport = "chunks" => HasAll(w, Batch(w))
  /\ reserved' = [reserved EXCEPT ![w] = Taken(w)]
  /\ live' = live \ {p[2] : p \in Taken(w)}
  /\ prepared' = [t \in AllTxs |-> prepared[t] + Cardinality({p \in Taken(w) : p[1] = t})]
  /\ phase' = [phase EXCEPT ![w] = @ + 1]
  /\ UNCHANGED <<fixedVars, wireVars, inbox, parts, started, outputs>>

Eligible(t) == prepared[t] = Arity

\* The outputs a worker makes: every WorkerCount-th transaction of the batch.
Stripe(w) == {t \in BatchTxs(Batch(w)) : (t - Batch(w) * BatchSize) % WorkerCount = w}

Settle(w) ==
  /\ live' = live \cup {p[2] : p \in {q \in reserved[w] : ~ Eligible(q[1])}}
  /\ reserved' = [reserved EXCEPT ![w] = {}]
  /\ outputs' = outputs \cup {t \in Stripe(w) : Eligible(t)}
  /\ phase' = [phase EXCEPT ![w] = @ + 1]
  /\ UNCHANGED <<fixedVars, wireVars, inbox, parts, started, prepared>>

\* Mutant: a worker does not wait for the others at the barrier.
FinaliseAlone(w) == phase[w] % 2 = 1 /\ Settle(w)

\* After the barrier: commit or roll back, make the outputs, report done.
Finalise(w) ==
  /\ phase[w] % 2 = 1
  /\ \A u \in Workers : phase[u] >= phase[w]
  /\ Settle(w)

Worker(w) == TakeChunk(w) \/ Prepare(w) \/ Finalise(w)

AllDone ==
  /\ \A w \in Workers : phase[w] = 2 * BatchCount
  /\ transport # "loaded" =>
       \A s \in StreamIds : received[s] = StreamCount(s) /\ reading[s] = NoBatch
                            /\ flushing[s] = NoBatch

IngressNext ==
  \/ \E s \in StreamIds : Receiver(s)
  \/ GatherPart \/ StartBatch
  \/ \E w \in Workers : Worker(w)

IngressSpec == IngressInit /\ [][IngressNext]_ingressVars

-----------------------------------------------------------------------------
IngressTypeOK ==
  /\ received \in [StreamIds -> 0..TxCount]
  /\ reading \in [StreamIds -> {NoBatch} \cup 0..(BatchCount - 1)]
  /\ flushing \in [StreamIds -> {NoBatch} \cup 0..(BatchCount - 1)]
  /\ handed \in [StreamIds -> 0..WorkerCount]
  /\ \A b \in DOMAIN streamDone : streamDone[b] <= ExpectedStreams(b)
  /\ ready \subseteq DOMAIN streamDone
  /\ \A c \in DOMAIN inbox : Len(inbox[c]) <= InboxCapacity
  /\ started \in 0..BatchCount /\ phase \in [Workers -> 0..(2 * BatchCount)]
  /\ live \subseteq Serials /\ outputs \subseteq AllTxs
  /\ \A t \in AllTxs : prepared[t] \in 0..Arity

\* A batch is decided when the last worker has reserved its share.
Decided == started > 0 /\ \A w \in Workers : phase[w] >= 2 * started - 1
Done == IF Decided THEN started ELSE IF started = 0 THEN 0 ELSE started - 1

Unspent ==
  live \cup {p[2] : p \in {q \in UNION {reserved[w] : w \in Workers} :
                            Decided => ~ Eligible(q[1])}}

Made ==
  outputs \cup IF Decided THEN {t \in BatchTxs(started - 1) : Eligible(t)} ELSE {}

Engine == INSTANCE BatchEngine WITH order <- Order, unspent <- Unspent, made <- Made, next <- Done

\* Threads, channels and lanes notwithstanding, batches take effect one at a time,
\* each at once, with the winners its order determines.
ImplementsBatchEngine == Engine!EngineSpec
=============================================================================
