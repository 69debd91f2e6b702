------------------------------- MODULE PhaseA -------------------------------
(***************************************************************************)
(* The controller of integration001/src/main.rs: twice over, it starts the *)
(* validator processes, takes them through the Phase A campaign and ends   *)
(* them (run_controller, run_phase_a_once, Cluster).  Each stage runs one  *)
(* or several threads of requests over the nodes of Node, and the first    *)
(* answer that is not the expected one fails the campaign.                 *)
(* A failed stage ends when its other threads have; those of the schedules *)
(* are abandoned by the code and may ask until their validators are killed.*)
(*                                                                         *)
(* Requests fail, validators die or do not start, threads are not spawned; *)
(* the system refuses to poll, kill or wait for a process, or to make or   *)
(* remove the directory.  Evidence, metrics and the checks that ask no     *)
(* validator (field mutations, bad certificates) are left out.             *)
(***************************************************************************)
EXTENDS Node, Sequences

CONSTANTS
  Members,        \* the validators in the order of their indices
  HonestMembers,  \* those of them that transfers are submitted to
  Bob, Charlie,   \* Alice's two transfers of one cell
  Unowned,        \* a sequence of transfers without their owner's signature
  Bench,          \* a sequence of independent transfers
  ForBob, ForCharlie,  \* sequences of honest members: the split of round 1
  Restarted,      \* the honest member that is killed and restarted
  Schedules,      \* Schedules[n]: the order in which member n applies Bench
  MaxTrouble      \* bound: failures outside the campaign's own logic

ASSUME PhaseAAssumption ==
  /\ Members \in Seq(Validators)
  /\ \A v \in Validators : \E n \in DOMAIN Members : Members[n] = v
  /\ HonestMembers \in Seq(Honest) /\ Cardinality(Honest) = Q
  /\ ForBob \in Seq(Honest) /\ ForCharlie \in Seq(Honest)
  /\ {Bob, Charlie} \subseteq Intents /\ Conflicting(Bob, Charlie)
  /\ Unowned \in Seq(Intents \ Authorized) /\ Bench \in Seq(Intents)
  /\ {1, 2, 3} \cup {99 + n : n \in DOMAIN Bench} \subseteq Rounds
  /\ DOMAIN Schedules = DOMAIN Members
  /\ \A n \in DOMAIN Schedules, k \in DOMAIN Bench : Schedules[n][k] \in DOMAIN Bench
  /\ MaxQcs >= 1
  /\ MaxTrouble \in Nat

VARIABLES
  stage,     \* what the controller is at
  threads,   \* threads[n]: requests to come and votes received, of each thread
  spawned,   \* how many of them have been spawned
  gate,      \* whether they may start
  failing,   \* a thread has failed, the others are being joined; or a shutdown has
  running,   \* running[v]: processes of validator v
  handles,   \* the validators whose process the cluster holds
  starting,  \* the validator that is being waited for
  root,      \* the state directory: "absent", "present" or "unremoved"
  tally,     \* votes collected in the stages of this run
  results,   \* what each run that passed has come to
  outcome,   \* "running", "passed" or "error"
  trouble,   \* failures so far: calls on one process that fail together are one
  awaited,   \* a process that could not be killed and is waited for without a timeout
  unheld     \* processes that were let go of while they ran

labVars == <<vars, stage, threads, spawned, gate, failing, running, handles, starting,
             root, tally, results, outcome, trouble, awaited, unheld>>

processVars == <<running, handles, starting, root, awaited, unheld>>
threadVars == <<threads, spawned, gate, failing>>

\* Mutant: the opposing certificate is shown before anyone has locked.
StagesOpposingFirst ==
  <<"start", "owners", "split", "opposing", "bob", "kill", "restart", "conflict",
    "apply", "again", "bench", "schedules", "query", "shutdown">>

Stages == <<"start", "owners", "split", "bob", "opposing", "kill", "restart", "conflict",
            "apply", "again", "bench", "schedules", "query", "shutdown">>

After(s) == Stages[CHOOSE n \in 1..Len(Stages) : n > 1 /\ Stages[n - 1] = s]

-----------------------------------------------------------------------------
(* The requests of a stage.                                                *)
Ask(kind, nodes, r, i) ==
  [n \in DOMAIN nodes |-> [kind |-> kind, node |-> nodes[n], round |-> r, intent |-> i]]

\* finalize_transfer: prevotes of the honest members, then their precommits.
Finalizing(r, i) ==
  Ask("prevote", HonestMembers, r, i) \o Ask("precommit", HonestMembers, r, i)

\* One sequence of requests for each thread.
Script(s) ==
  CASE s = "owners" ->
         <<[n \in 1..Len(Unowned) * Len(Members) |->
             [kind |-> "prevote", node |-> Members[((n - 1) % Len(Members)) + 1],
              round |-> 40 + (n - 1) \div Len(Members),
              intent |-> Unowned[((n - 1) \div Len(Members)) + 1]]]>>
    [] s = "split" -> <<Ask("prevote", ForBob, 1, Bob), Ask("prevote", ForCharlie, 1, Charlie)>>
    [] s = "bob" -> <<Finalizing(2, Bob)>>
    [] s = "opposing" -> <<Ask("precommit", ForCharlie, 1, Charlie)>>
    [] s = "conflict" -> <<Ask("prevote", Members, 3, Charlie)>>
    [] s \in {"apply", "again"} -> <<Ask("apply", Members, 2, Bob)>>
    [] s = "bench" -> [n \in DOMAIN Bench |-> Finalizing(99 + n, Bench[n])]
    [] s = "schedules" ->
         [n \in DOMAIN Members |->
           [k \in DOMAIN Bench |-> [kind |-> "apply", node |-> Members[n], round |-> 99 + Schedules[n][k],
                                    intent |-> Bench[Schedules[n][k]]]]]
    [] s = "query" -> <<Ask("query", Members, 0, Bob)>>
    [] OTHER -> <<>>

\* Threads that are spawned one after the other and wait for the start gate.
Gated == {"split", "bench"}

Enter(s) ==
  LET script == Script(s) IN
  /\ stage' = s
  /\ threads' = [n \in DOMAIN script |-> [todo |-> script[n], kept |-> {}]]
  /\ spawned' = IF Len(script) = 1 THEN 1 ELSE 0
  /\ gate' = (s \notin Gated)
  /\ failing' = FALSE

-----------------------------------------------------------------------------
(* A request: the node's answer, and what the controller makes of it.      *)
Voters(t, kind) == {v \in Validators : <<kind, v>> \in t.kept}

\* The opposing certificate is signed with the laboratory's validator keys; every
\* other one is assembled from the thread's prevotes.
Certificate(t) ==
  IF stage = "opposing" THEN {Members[n] : n \in 1..Q} ELSE Voters(t, "prevote")

LockRejects(v, r, i) == \E l \in lock[v][InputOf[i]] : r < l.round \/ i # l.intent

\* The checks of an honest node in their order, each with the code of its rejection.
\* Certificates the controller sends are all valid.
Checks(m) ==
  << <<"invalid_proposal", m.intent \in Authorized>>,
     <<"input_not_live", InputOf[m.intent] \in live[m.node]>>,
     <<"local_prevote_missing", m.kind = "precommit" =>
                       Vote("prevote", m.round, m.intent) \in votes[m.node]>>,
     <<"durable_lock", ~ LockRejects(m.node, m.round, m.intent)>>,
     <<"durable_vote", ~ DurableVoteRejection(m.node, m.kind, m.round, m.intent)>> >>

VoteAnswer(m) ==
  LET failed == {n \in DOMAIN Checks(m) : ~ Checks(m)[n][2]} IN
  IF m.node \in Byzantine \/ failed = {} THEN "vote"
  ELSE Checks(m)[CHOOSE n \in failed : \A k \in failed : n <= k][1]

\* What the transfers of the campaign lead to.
Settled == {Bob} \cup {Bench[n] : n \in DOMAIN Bench}
ExpectedLive ==
  (Genesis \cup UNION {OutputsOf[i] : i \in Settled}) \ {InputOf[i] : i \in Settled}

\* The certificates of an apply are the ones the call has returned (CampaignPasses).
CanApply(v, i) ==
  /\ InputOf[i] \in live[v] /\ OutputsOf[i] \cap KnownIds(v) = {}
  /\ Cardinality(KnownIds(v) \cup OutputsOf[i]) <= MaxCollection

\* No precommit is asked for when assemble_qc finds too few prevotes.
Answer(t, m) ==
  CASE m.kind = "precommit" /\ ~ IsQuorum(Certificate(t)) -> "insufficient"
    [] m.kind = "apply" -> IF m.intent \in applied[m.node] THEN "idempotent"
                           ELSE IF CanApply(m.node, m.intent) THEN "applied"
                           ELSE "rejected"
    [] m.kind = "query" -> IF live[m.node] = ExpectedLive THEN "same_root" ELSE "other_root"
    [] OTHER -> VoteAnswer(m)

Serve(m, t, answer) ==
  IF answer = "vote" /\ m.node \in Honest
    THEN /\ PersistVote(m.node, m.kind, m.round, m.intent)
         /\ Issue(m.node, m.kind, m.round, m.intent,
                  IF m.kind = "prevote" THEN {} ELSE Certificate(t))
         /\ UNCHANGED <<live, applied>>
    ELSE IF answer = "applied"
      THEN /\ live' = [live EXCEPT ![m.node] = (@ \ {InputOf[m.intent]}) \cup OutputsOf[m.intent]]
           /\ applied' = [applied EXCEPT ![m.node] = @ \cup {m.intent}]
           /\ UNCHANGED <<votes, lock, shares>>
      ELSE UNCHANGED vars

\* The answers the controller takes; collect_votes skips any rejection.
Wanted(m) ==
  CASE stage \in {"apply", "schedules"} -> {"applied"}
    [] stage = "again" -> {"idempotent"}
    [] stage = "query" -> {"same_root"}
    [] stage = "opposing" -> {"durable_lock"}
    [] stage = "owners" ->
         {IF m.node \in Byzantine THEN "vote" ELSE "invalid_proposal"}
    [] stage = "conflict" -> {IF m.node \in Byzantine THEN "vote" ELSE "durable_lock"}
    [] OTHER -> {VoteAnswer(m)}

Ready(n) == gate /\ n <= spawned /\ threads[n].todo # <<>>

Fail(n) ==
  /\ threads' = [threads EXCEPT ![n].todo = <<>>]
  /\ failing' = TRUE
  /\ UNCHANGED <<spawned, gate>>

RequestServed(n) ==
  /\ Ready(n)
  /\ LET t == threads[n]  m == Head(t.todo)  answer == Answer(t, m) IN
     /\ running[m.node] > 0
     /\ Serve(m, t, answer)
     /\ \/ /\ answer \in Wanted(m)
           /\ threads' = [threads EXCEPT ![n] =
                [todo |-> Tail(t.todo),
                 kept |-> t.kept \cup (IF answer = "vote" THEN {<<m.kind, m.node>>} ELSE {})]]
           /\ UNCHANGED <<spawned, gate, failing>>
        \/ answer \notin Wanted(m) /\ Fail(n)
  /\ UNCHANGED <<stage, processVars, tally, results, outcome, trouble>>

\* The connection fails or times out, whether the node has served the request or not.
RequestFails(n) ==
  /\ Ready(n)
  /\ LET t == threads[n]  m == Head(t.todo) IN
     \/ running[m.node] = 0 /\ UNCHANGED <<vars, trouble>>
     \/ /\ trouble < MaxTrouble /\ trouble' = trouble + 1
        /\ Serve(m, t, Answer(t, m))
     \/ trouble < MaxTrouble /\ trouble' = trouble + 1 /\ UNCHANGED vars
  /\ Fail(n)
  /\ UNCHANGED <<stage, processVars, tally, results, outcome>>

-----------------------------------------------------------------------------
(* Stages and their threads.                                               *)
Spawning == outcome = "running" /\ ~ failing /\ spawned < Len(threads)

\* The last thread spawned opens the gate.
SpawnThread ==
  /\ Spawning
  /\ spawned' = spawned + 1
  /\ gate' = (gate \/ spawned + 1 = Len(threads))
  /\ UNCHANGED <<vars, stage, threads, failing, processVars, tally, results, outcome, trouble>>

\* Mutant: the threads already spawned keep waiting.
SpawnThreadFailsClosed ==
  /\ Spawning /\ trouble < MaxTrouble
  /\ failing' = TRUE /\ trouble' = trouble + 1
  /\ UNCHANGED <<vars, stage, threads, spawned, gate, processVars, tally, results, outcome>>

\* A thread cannot be spawned: those waiting are released and joined.
SpawnThreadFails ==
  /\ Spawning /\ trouble < MaxTrouble
  /\ failing' = TRUE /\ gate' = TRUE /\ trouble' = trouble + 1
  /\ UNCHANGED <<vars, stage, threads, spawned, processVars, tally, results, outcome>>

Joined ==
  /\ threads # <<>>
  /\ \A n \in 1..spawned : threads[n].todo = <<>>
  /\ spawned = Len(threads) \/ failing

\* What the stage has to come to besides the answers it took.
StagePassed ==
  \A n \in DOMAIN threads :
    /\ stage = "owners" => ~ IsQuorum(Voters(threads[n], "prevote"))
    /\ stage = "split" => Cardinality(Voters(threads[n], "prevote")) = Len(Script(stage)[n])
    /\ stage \in {"bob", "bench"} => IsQuorum(Voters(threads[n], "precommit"))
    /\ stage = "bob" => Cardinality(Voters(threads[n], "precommit")) = Q

\* exhaustive_conflict_safety_cases: no choice of the members makes two quorums.
ConflictCasesPass ==
  \A H \in SUBSET Honest, A, B \in SUBSET Byzantine :
    ~ (IsQuorum(H \cup A) /\ IsQuorum((Honest \ H) \cup B))

EndStage ==
  /\ Joined
  /\ IF ~ failing /\ StagePassed /\ (stage = "query" => ConflictCasesPass)
       THEN /\ Enter(After(stage))
            /\ tally' = Append(tally, [n \in DOMAIN threads |-> Cardinality(threads[n].kept)])
       ELSE Enter("drop") /\ UNCHANGED tally
  /\ UNCHANGED <<vars, processVars, results, outcome, trouble>>

-----------------------------------------------------------------------------
(* The cluster and its processes.                                          *)
Trouble == trouble < MaxTrouble /\ trouble' = trouble + 1

\* What becomes of the process of v: it ends; it is waited for, as kill() has failed and
\* wait() has no timeout; or its handle is dropped, which does not end it.
Ended(v) == running' = [running EXCEPT ![v] = 0] /\ UNCHANGED <<awaited, unheld>>
Awaited(v) == awaited' = {v} /\ UNCHANGED <<running, unheld>>
LetGo(v) == unheld' = unheld \cup {v} /\ UNCHANGED <<running, awaited>>

\* A process starts when there are a port and a child process for it.
SpawnNode ==
  /\ stage \in {"start", "restart"} /\ starting = {}
  /\ \E n \in DOMAIN Members :
       /\ Members[n] \notin handles
       /\ \A k \in 1..(n - 1) : Members[k] \in handles
       /\ running' = [running EXCEPT ![Members[n]] = @ + 1]
       /\ starting' = {Members[n]}
  /\ UNCHANGED <<vars, stage, threadVars, handles, root, awaited, unheld, tally, results,
                 outcome, trouble>>

SpawnNodeFails ==
  /\ stage \in {"start", "restart"} /\ starting = {} /\ Trouble
  /\ Enter("drop")
  /\ UNCHANGED <<vars, processVars, tally, results, outcome>>

\* The expected pong has come.
NodeReady ==
  /\ starting # {}
  /\ handles' = handles \cup starting /\ starting' = {}
  /\ IF handles' = Validators THEN Enter(After(stage)) ELSE UNCHANGED <<stage, threadVars>>
  /\ UNCHANGED <<vars, running, root, awaited, unheld, tally, results, outcome, trouble>>

\* Mutant: a validator that does not answer in time is not killed.
NodeNotReadyLeft ==
  /\ Trouble
  /\ \E v \in starting : Ended(v) \/ UNCHANGED <<running, awaited, unheld>>
  /\ starting' = {}
  /\ Enter("drop")
  /\ UNCHANGED <<vars, handles, root, tally, results, outcome>>

\* It has exited; it cannot be polled, and is let go of; or it has not answered in time
\* and is killed and waited for, what fails of that being ignored.
NodeNotReady ==
  /\ Trouble
  /\ \E v \in starting : Ended(v) \/ Awaited(v) \/ LetGo(v)
  /\ starting' = {}
  /\ Enter("drop")
  /\ UNCHANGED <<vars, handles, root, tally, results, outcome>>

\* A validator process ends on its own.
NodeDies ==
  /\ Trouble
  /\ \E v \in handles \cup unheld : running[v] > 0 /\ Ended(v)
  /\ UNCHANGED <<vars, stage, threadVars, handles, starting, root, tally, results, outcome>>

\* So does the one that is waited for, and the controller goes on.
WaitReturns ==
  /\ \E v \in awaited : running' = [running EXCEPT ![v] = 0]
  /\ awaited' = {}
  /\ UNCHANGED <<vars, stage, threadVars, handles, starting, root, unheld, tally, results,
                 outcome, trouble>>

\* Cluster::restart: the old process ends before its log is opened again.  Its handle is
\* taken first, so a process that cannot be killed is let go of.
KillForRestart ==
  /\ stage = "kill"
  /\ handles' = handles \ {Restarted}
  /\ \/ Ended(Restarted) /\ Enter("restart") /\ UNCHANGED trouble
     \/ Trouble /\ (Ended(Restarted) \/ LetGo(Restarted)) /\ Enter("drop")
  /\ UNCHANGED <<vars, starting, root, tally, results, outcome>>

\* The loops of shutdown_and_cleanup and of drop: the validators in the order of their
\* indices, each killed and waited for.  One that is gone already, and any failure, is an
\* error of the shutdown; a process that it cannot poll it lets go of.
EndNode ==
  /\ stage \in {"shutdown", "drop"} /\ awaited = {}
  /\ \E n \in DOMAIN Members :
       LET v == Members[n] IN
       /\ v \in handles /\ \A k \in 1..(n - 1) : Members[k] \notin handles
       /\ handles' = handles \ {v}
       /\ \/ Ended(v) /\ failing' = (failing \/ running[v] = 0) /\ UNCHANGED trouble
          \/ /\ running[v] > 0 /\ Trouble
             /\ Ended(v) \/ Awaited(v) \/ LetGo(v)
             /\ failing' = TRUE
  /\ UNCHANGED <<vars, stage, threads, spawned, gate, starting, root, tally, results, outcome>>

AllEnded == handles = {} /\ awaited = {}

Result == [live |-> [v \in Validators |-> live[v]], tally |-> tally]

\* The rest of shutdown_and_cleanup: the directory goes when there was no error.  After the
\* first run a second one starts from genesis.
Shutdown ==
  /\ stage = "shutdown" /\ AllEnded /\ ~ failing
  /\ root' = "absent"
  /\ results' = Append(results, Result)
  /\ tally' = <<>>
  /\ IF Len(results) = 0
       THEN /\ Enter("mkdir") /\ UNCHANGED outcome
            /\ votes' = [v \in Honest |-> {}]
            /\ lock' = [v \in Honest |-> [c \in Cells |-> {}]]
            /\ live' = [v \in Validators |-> Genesis]
            /\ applied' = [v \in Validators |-> {}]
            /\ shares' = {}
       ELSE /\ Enter("end") /\ UNCHANGED vars
            /\ outcome' = IF results[1] = Result THEN "passed" ELSE "error"
  /\ UNCHANGED <<running, handles, starting, awaited, unheld, trouble>>

\* There was an error, or the directory cannot be removed.
ShutdownFails ==
  /\ stage = "shutdown" /\ AllEnded
  /\ IF failing THEN UNCHANGED trouble ELSE Trouble
  /\ Enter("drop")
  /\ UNCHANGED <<vars, processVars, tally, results, outcome>>

\* Cluster::start makes the state directory and the genesis snapshot.
MakeRoot ==
  /\ stage = "mkdir"
  /\ root' = "present"
  /\ Enter("start")
  /\ UNCHANGED <<vars, running, handles, starting, awaited, unheld, tally, results, outcome,
                 trouble>>

\* One of them fails; what there is of the directory is removed if that can be done.
MakeRootFails ==
  /\ stage = "mkdir" /\ Trouble
  /\ root' \in {"absent", "unremoved"}
  /\ Enter("end") /\ outcome' = "error"
  /\ UNCHANGED <<vars, running, handles, starting, awaited, unheld, tally, results>>

\* The cluster is dropped on every error: after its processes have ended its directory is
\* removed, if that can be done.
Drop ==
  /\ stage = "drop" /\ AllEnded
  /\ root' \in {"absent", "unremoved"}
  /\ Enter("end") /\ outcome' = "error"
  /\ UNCHANGED <<vars, running, handles, starting, awaited, unheld, tally, results, trouble>>

-----------------------------------------------------------------------------
LabInit ==
  /\ Init
  /\ stage = "mkdir" /\ threads = <<>> /\ spawned = 0 /\ gate = TRUE /\ failing = FALSE
  /\ running = [v \in Validators |-> 0] /\ handles = {} /\ starting = {} /\ root = "absent"
  /\ tally = <<>> /\ results = <<>> /\ outcome = "running" /\ trouble = 0
  /\ awaited = {} /\ unheld = {}

LabStep ==
  \/ \E n \in DOMAIN threads : RequestServed(n) \/ RequestFails(n)
  \/ SpawnThread \/ EndStage
  \/ MakeRoot \/ SpawnNode \/ NodeReady \/ KillForRestart
  \/ EndNode \/ Shutdown \/ ShutdownFails \/ Drop

LabNext ==
  \/ LabStep \/ SpawnThreadFails \/ MakeRootFails \/ SpawnNodeFails
  \/ NodeNotReady \/ NodeDies \/ WaitReturns

\* The controller and its threads run until they are done; a request is answered or
\* times out, and a validator gets ready or the wait for it ends.  Nothing makes a
\* process end that could not be killed.
LabSpec == LabInit /\ [][LabNext]_labVars /\ WF_labVars(LabStep)

-----------------------------------------------------------------------------
(* Properties.                                                             *)

\* The campaign of seven validators with a quorum of five passes both times and to
\* the same end, however its threads interleave, unless something outside failed;
\* and what it has applied is certified.
CampaignPasses ==
  /\ outcome = "error" => trouble > 0
  /\ stage = "query" => Settled \subseteq Certified

NodeStep ==
  \/ \E s \in shares' \ shares :
       IF s.phase = "prevote" THEN Prevote(s.signer, s.round, s.intent)
       ELSE Precommit(s.signer, s.round, s.intent, s.justify)
  \/ \E v \in Validators : \E i \in applied'[v] \ applied[v] : Apply(v, i)

\* Whatever fails, the campaign does nothing to the nodes but what Node allows its
\* clients, or starts them afresh: no vote rests on the opposing certificate, signed by
\* nobody that had voted, and nothing is applied that is not certified.
CampaignDrivesNodes == [][NodeStep \/ Init']_vars

\* It comes to an end, and no thread is left waiting for the gate, unless it waits for
\* ever for a process that it could not kill (Child::wait has no timeout).
CampaignEnds == []<>(awaited = {}) => <>(outcome # "running")

\* Two processes of a validator never share a log.  Wherever the campaign stops, every
\* validator process has ended and the state directory is gone, but for those the system
\* has refused to poll, kill or remove; and a campaign that passes has left none, so that
\* no pass hides a failed clean-up.
NothingLeftBehind ==
  /\ \A v \in Validators : running[v] <= 1
  /\ outcome # "running" =>
       root # "present" /\ \A v \in Validators \ unheld : running[v] = 0
  /\ outcome = "passed" => root = "absent" /\ unheld = {}
  /\ unheld # {} => trouble > 0
=============================================================================
