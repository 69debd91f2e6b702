------------------------------ MODULE Batches ------------------------------
(***************************************************************************)
(* The workload of the state engines PERF-005 to PERF-014.  Transaction t  *)
(* spends Arity input cells into one output cell.  Its inputs are its own, *)
(* except that the transactions a hash picks take the first input of their *)
(* predecessor in place of their own first input.  Transactions are dealt  *)
(* to TCP streams in turn and executed in batches of consecutive ones.     *)
(***************************************************************************)
EXTENDS Integers, FiniteSets

CONSTANTS TxCount, Arity, BatchSize, Streams

ASSUME BatchesAssumption ==
  /\ TxCount \in Nat \ {0} /\ Arity \in Nat \ {0}
  /\ Streams \in Nat \ {0} /\ BatchSize \in Nat /\ BatchSize >= Streams

AllTxs == 0..(TxCount - 1)
Serials == 0..(TxCount * Arity - 1)
StreamIds == 0..(Streams - 1)

\* referenced_serial: "picked" are the transactions the hash makes contend.
Referenced(t, k, picked) ==
  IF t \in picked /\ k = 0 THEN (t - 1) * Arity ELSE t * Arity + k

Refs(t, picked) == {Referenced(t, k, picked) : k \in 0..(Arity - 1)}

-----------------------------------------------------------------------------
BatchCount == (TxCount + BatchSize - 1) \div BatchSize
BatchOf(t) == t \div BatchSize
BatchTxs(b) == {t \in AllTxs : BatchOf(t) = b}

\* stream_count and the i-th transaction of a stream.
StreamCount(s) == (TxCount \div Streams) + IF s < TxCount % Streams THEN 1 ELSE 0
StreamTx(s, i) == s + i * Streams

\* stream_has_range: the stream has a transaction of the batch.
StreamHasRange(b, s) ==
  LET start == b * BatchSize
      delta == (s + Streams - (start % Streams)) % Streams
  IN  /\ start < TxCount
      /\ start + delta < TxCount
      /\ start + delta < (b + 1) * BatchSize

\* Mutant: a batch waits for every stream.
ExpectAllStreams(b) == Streams

\* expected_streams.
ExpectedStreams(b) == Cardinality({s \in StreamIds : StreamHasRange(b, s)})

\* The order in which a batch's transactions get at a cell: by number, or, where
\* the streams' parts are taken one after the other, by stream first.
Precedes(order, t, u) ==
  IF order = "stream" /\ t % Streams # u % Streams
    THEN t % Streams < u % Streams ELSE t < u
=============================================================================
