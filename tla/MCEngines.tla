----------------------------- MODULE MCEngines -----------------------------
(***************************************************************************)
(* The state engines for TLC: a behaviour runs the batch engine or the     *)
(* locking engine on five transactions of two inputs, in batches of two    *)
(* from two streams, with every choice of contending transactions.  The    *)
(* last batch has a transaction of one stream only.                        *)
(***************************************************************************)
EXTENDS Ingress, ShardLocks

CONSTANT EngineKinds
VARIABLE engine

allVars == <<engine, ingressVars, lockVars>>

\* Cells by hash: all with one worker, spread evenly, contended cells apart.
SampleOwners ==
  {[i \in Serials |-> 0],
   [i \in Serials |-> i % WorkerCount],
   [i \in Serials |-> (i \div Arity) % WorkerCount]}

SamplePlacements ==
  {[cell |-> [i \in Serials |-> (i * a) % ShardCount], output |-> [t \in AllTxs |-> (t + a) % ShardCount]]
     : a \in {1, 2}}

EnginesInit ==
  /\ engine \in EngineKinds
  /\ IngressInit /\ LockInit
  /\ engine # "batch" => transport = "loaded" /\ picked = {} /\ owner = [i \in Serials |-> 0]
  /\ engine # "locks" => /\ contended = {}
                         /\ placement = CHOOSE p \in Placements : TRUE

BatchEngineNext == engine = "batch" /\ IngressNext /\ UNCHANGED <<engine, lockVars>>
LockEngineNext == engine = "locks" /\ LockNext /\ UNCHANGED <<engine, ingressVars>>

EnginesNext == BatchEngineNext \/ LockEngineNext

\* The operating system runs every thread again and again.
EnginesFairness ==
  /\ \A s \in StreamIds : WF_allVars(engine = "batch" /\ Receiver(s) /\ UNCHANGED <<engine, lockVars>>)
  /\ WF_allVars(engine = "batch" /\ (GatherPart \/ StartBatch) /\ UNCHANGED <<engine, lockVars>>)
  /\ \A w \in Workers : WF_allVars(engine = "batch" /\ Worker(w) /\ UNCHANGED <<engine, lockVars>>)
  /\ \A w \in Lockers : WF_allVars(engine = "locks" /\ LockWorker(w) /\ UNCHANGED <<engine, ingressVars>>)

EnginesSpec == EnginesInit /\ [][EnginesNext]_allVars /\ EnginesFairness

EnginesTypeOK == IngressTypeOK /\ LockTypeOK

\* No thread waits for ever: on a full inbox, at the barrier, for a batch to which
\* some stream has nothing to add, or for a lock whose owner waits for another.
EnginesFinish == <>(IF engine = "batch" THEN AllDone ELSE LocksDone)
=============================================================================
