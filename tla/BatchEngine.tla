---------------------------- MODULE BatchEngine ----------------------------
(***************************************************************************)
(* What the batch engines promise: batches take effect one at a time and   *)
(* each of them at once.  Of the transactions of a batch that reference a  *)
(* live cell the first one reserves it; a transaction that reserves all    *)
(* its inputs commits, the others leave no trace.  How many threads and    *)
(* streams there are and how they interleave makes no difference.          *)
(***************************************************************************)
EXTENDS Batches

VARIABLES
  picked,   \* the transactions that contend with their predecessor
  order,    \* the order of a batch
  unspent,  \* serials of the input cells that are live
  made,     \* the transactions whose output exists
  next      \* the batch to come

engineVars == <<picked, order, unspent, made, next>>

EngineInit ==
  /\ picked \in SUBSET (AllTxs \ {0}) /\ order \in {"tx", "stream"}
  /\ unspent = Serials /\ made = {} /\ next = 0

Reserves(t, i) ==
  /\ i \in unspent
  /\ \A u \in BatchTxs(next) : i \in Refs(u, picked) => u = t \/ Precedes(order, t, u)

Winners == {t \in BatchTxs(next) : \A i \in Refs(t, picked) : Reserves(t, i)}

ProcessBatch ==
  /\ next < BatchCount
  /\ unspent' = unspent \ UNION {Refs(t, picked) : t \in Winners}
  /\ made' = made \cup Winners
  /\ next' = next + 1
  /\ UNCHANGED <<picked, order>>

EngineSpec == EngineInit /\ [][ProcessBatch]_engineVars

-----------------------------------------------------------------------------
\* Every input cell is either live or spent by exactly one committed transaction.
SpentOnce ==
  /\ \A t, u \in made : t # u => Refs(t, picked) \cap Refs(u, picked) = {}
  /\ unspent = Serials \ UNION {Refs(t, picked) : t \in made}

\* No two transactions abort each other: who aborts has lost an input to one that
\* committed.
AbortsLoseToCommits ==
  \A t \in AllTxs : BatchOf(t) < next /\ t \notin made =>
    \E u \in made : Refs(t, picked) \cap Refs(u, picked) # {}
=============================================================================
