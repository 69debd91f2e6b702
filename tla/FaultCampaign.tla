--------------------------- MODULE FaultCampaign ---------------------------
(***************************************************************************)
(* The fault campaigns SEC-008, SEC-008.1 and SEC-008.2.  A controller     *)
(* gives the honest certifiers two spends of one coin in any order, drops  *)
(* and repeats requests, lets the Byzantine ones sign what they like,      *)
(* kills and restarts one certifier, lets every request through in the     *)
(* end, counts the shares, and calls the trial finalised, deadlocked or an *)
(* error.  The module follows one trial: every trial has a coin of its own.*)
(*                                                                         *)
(* A certifier serves one connection at a time.  A request may go          *)
(* unanswered: it is lost, or the certifier is late, and is then still     *)
(* writing its lock when the controller goes on, or kills it.  A           *)
(* certifier that cannot write its reply stops.                            *)
(***************************************************************************)
EXTENDS Committee, Sequences

CONSTANTS
  Campaigns,      \* the campaigns to run: "sec008", "sec0081" and "sec0082"
  MaxUnanswered   \* bound: requests and restarts that time out

\* The honest certifiers can finalise on their own, and are not all there are: five of
\* seven, for a threshold of five.
ASSUME CampaignsAssumption ==
  /\ Campaigns \subseteq {"sec008", "sec0081", "sec0082"} /\ MaxUnanswered \in Nat
  /\ IsQuorum(Honest) /\ Byzantine # {}

VARIABLES
  campaign,
  trial,       \* "baseline", "split", "fault" or "forensic"
  firstHalf,   \* in a split: the certifiers that are given "a" first
  lockFile,    \* lockFile[i]: the records of i's file about this coin, or "torn"
  locked,      \* locked[i]: the spend i's memory locks, if any
  alive,       \* the certifiers whose process runs
  late,        \* late[i]: a request the controller no longer waits for, if any
  stages,      \* the stages of the trial still to come, the present one first
  toVisit,     \* the certifiers still to be visited in it
  todo,        \* the controller's next steps
  choice,      \* choice[i]: what the controller takes for i's lock
  counted,     \* counted[t]: the certifiers whose shares of t are counted
  unanswered,  \* requests without an answer and restarts that failed so far
  missed,      \* those since the last restart
  outcome      \* "running", then the result of the trial

faultVars == <<campaign, trial, firstHalf, lockFile, locked, alive, late, stages, toVisit,
               todo, choice, counted, unanswered, missed, outcome>>
fixedVars == <<campaign, trial, firstHalf>>

Opposing(t) == IF t = "a" THEN "b" ELSE "a"
Lockable == {"a", "b"}

-----------------------------------------------------------------------------
(* What the controller does                                                *)

Ask(i, t, use, tries) ==
  [do |-> "ask", at |-> i, spend |-> t, use |-> use, tries |-> tries]
RestartStep(i) == [do |-> "restart", at |-> i]
InspectStep(i) == [do |-> "inspect", at |-> i]

\* request_share_retry of SEC-008.2.
Tries == IF campaign = "sec0082" THEN 3 ELSE 1

StagesOf(c, kind) ==
  CASE kind = "baseline" -> <<"baseline">>
    [] kind = "split" -> <<"split", "heal">>
    [] kind = "forensic" -> <<"forensic">>
    [] kind = "fault" /\ c = "sec008" -> <<"first", "restart", "byzantine", "heal">>
    [] OTHER -> <<"first", "byzantine", "restart", "heal">>

\* Everyone is visited in a phase, but only one certifier is restarted or examined.
Visitors(phase) == IF phase = "byzantine" THEN Byzantine ELSE Honest
OneVisit(phase) == phase \in {"restart", "forensic"}

\* SEC-008: the first choice, perhaps twice, then the other spend, which must be refused.
First008(i) ==
  UNION {{<<Ask(i, c, "count", 1), Ask(i, Opposing(c), "refuse", 1)>>,
          <<Ask(i, c, "count", 1), Ask(i, c, "count", 1), Ask(i, Opposing(c), "refuse", 1)>>} :
           c \in Lockable}

\* SEC-008.2: the request is dropped, or the other spend follows an answer.
First0082(i) ==
  {<<>>} \cup {<<Ask(i, c, "first", 1)>> : c \in Lockable}
         \cup {<<Ask(i, c, "first", 1), Ask(i, c, "count", 1)>> : c \in Lockable}

Candidates0082 == {i \in Honest : choice[i] # {}}

\* A certifier with a lock is restarted and must keep it; the controller of SEC-008
\* takes the first choice for the lock.
CheckRestart(i) ==
  IF campaign = "sec008"
    THEN {<<RestartStep(i), Ask(i, Opposing(c), "refuseAfter", 1)>> : c \in choice[i]}
    ELSE IF Candidates0082 = {}
      THEN {<<Ask(i, "a", "establish", 3), RestartStep(i),
              Ask(i, "a", "keep", 3), Ask(i, "b", "refuseAfter", 3)>>}
      ELSE {<<RestartStep(i), Ask(i, c, "keep", 3), Ask(i, Opposing(c), "refuseAfter", 3)>> :
              c \in choice[i]}

Heal(i) ==
  {<<Ask(i, c, "count", Tries), Ask(i, Opposing(c), "count", Tries)>> :
     c \in IF campaign = "sec008" \/ trial = "split" THEN {"a"} ELSE Lockable}

\* SEC-008.1: one spend signed, the other refused, the file read by the controller.
Forensics(i) ==
  LET check == <<Ask(i, "a", "expect", 1), Ask(i, "b", "expectNot", 1)>> IN
  {check \o <<InspectStep(i)>>,
   check \o <<InspectStep(i), RestartStep(i), InspectStep(i)>> \o check}

Visits(phase, i) ==
  CASE phase = "baseline" -> {<<Ask(i, "a", "count", Tries)>>}
    [] phase = "split" ->
         {<<Ask(i, IF i \in firstHalf THEN "a" ELSE "b", "count", Tries)>>}
    [] phase = "first" -> IF campaign = "sec008" THEN First008(i) ELSE First0082(i)
    [] phase = "byzantine" ->
         {<<>>, <<Ask(i, "a", "count", 1)>>, <<Ask(i, "b", "count", 1)>>,
          <<Ask(i, "a", "count", 1), Ask(i, "b", "count", 1)>>}
    [] phase = "restart" -> CheckRestart(i)
    [] phase = "heal" -> Heal(i)
    [] phase = "forensic" -> Forensics(i)

TrialsOf(c) == IF c = "sec0081" THEN {"forensic"} ELSE {"baseline", "split", "fault"}

FaultInit ==
  /\ campaign \in Campaigns
  /\ trial \in TrialsOf(campaign)
  /\ firstHalf \in SUBSET Honest
  /\ IF trial = "split" THEN 2 * Cardinality(firstHalf) = Cardinality(Honest) + 1
                        ELSE firstHalf = {}
  /\ lockFile = [i \in Honest |-> <<>>] /\ locked = [i \in Honest |-> {}]
  /\ alive = Validators /\ late = [i \in Honest |-> {}]
  /\ stages = StagesOf(campaign, trial) /\ toVisit = Visitors(Head(stages))
  /\ todo = <<>> /\ choice = [i \in Honest |-> {}]
  /\ counted = [t \in Lockable |-> {}]
  /\ unanswered = 0 /\ missed = 0 /\ outcome = "running"

-----------------------------------------------------------------------------
(* The certifiers                                                          *)

\* Mutant: the lock is kept in memory, and the file is written on the next occasion.
LockInMemory(i, t) ==
  /\ locked' = [locked EXCEPT ![i] = IF @ = {} THEN {t} ELSE @]
  /\ UNCHANGED lockFile

\* LockStore::lock: a new lock is written and synced before it enters memory.
TakeLock(i, t) ==
  IF locked[i] = {}
    THEN /\ lockFile' = [lockFile EXCEPT ![i] = Append(@, t)]
         /\ locked' = [locked EXCEPT ![i] = {t}]
    ELSE UNCHANGED <<lockFile, locked>>

\* What an interrupted write of t may leave in i's file.
Leavings(i, t) ==
  IF locked[i] # {} THEN {lockFile[i]}
  ELSE {lockFile[i], Append(lockFile[i], "torn"), Append(lockFile[i], t)}

\* The certifier is done with a request whose sender has gone.
FinishLate(i) ==
  \E t \in late[i] :
    /\ TakeLock(i, t)
    /\ late' = [late EXCEPT ![i] = {}]
    /\ alive' \in {alive, alive \ {i}}
    /\ UNCHANGED <<fixedVars, stages, toVisit, todo, choice, counted, unanswered, missed, outcome>>

\* Or it stops over it, in reading the request or in writing the record.
StopOverLate(i) ==
  \E t \in late[i] :
    /\ \E f \in Leavings(i, t) : lockFile' = [lockFile EXCEPT ![i] = f]
    /\ late' = [late EXCEPT ![i] = {}] /\ alive' = alive \ {i}
    /\ locked' = [locked EXCEPT ![i] = {}]
    /\ UNCHANGED <<fixedVars, stages, toVisit, todo, choice, counted, unanswered, missed, outcome>>

-----------------------------------------------------------------------------
(* The controller's steps                                                  *)

Doing(what) == outcome = "running" /\ todo # <<>> /\ Head(todo).do = what

\* What the controller makes of a share and of none.
ErrorOf(use, got) ==
  CASE use = "refuse" /\ got = "share" -> {"double signed"}
    [] use = "expectNot" /\ got = "share" -> {"double signed"}
    [] use = "refuseAfter" /\ got = "share" -> {"lock lost"}
    [] use = "keep" /\ got = "none" -> {"lock lost"}
    [] use = "establish" /\ got = "none" -> {"no witness"}
    [] use = "expect" /\ got = "none" -> {"rejected"}
    [] OTHER -> {}

\* SEC-008.1 makes an error of a request that fails, the others take it for a refusal.
ErrorOfSilence(use) ==
  IF campaign = "sec0081" THEN {"request failed"} ELSE ErrorOf(use, "none")

Counting(use) == use \in {"count", "first", "establish"}

Receives(ask, got, errors) ==
  IF got = "none" /\ ask.tries > 1
    THEN /\ todo' = <<[ask EXCEPT !.tries = @ - 1]>> \o Tail(todo)
         /\ UNCHANGED <<choice, counted, outcome>>
    ELSE /\ outcome' = IF errors = {} THEN outcome ELSE CHOOSE e \in errors : TRUE
         /\ counted' = IF got = "share" /\ Counting(ask.use)
                         THEN [counted EXCEPT ![ask.spend] = @ \cup {ask.at}] ELSE counted
         /\ choice' = IF got = "share" /\ ask.use \in {"first", "establish"}
                        THEN [choice EXCEPT ![ask.at] = {ask.spend}] ELSE choice
         /\ todo' = IF got = "share" /\ ask.use = "first"
                      THEN <<Ask(ask.at, Opposing(ask.spend), "refuse", 1)>> \o Tail(todo)
                      ELSE Tail(todo)

\* A request is answered in time.  A Byzantine certifier signs without a lock.
Answered ==
  /\ Doing("ask")
  /\ LET ask == Head(todo) IN
     /\ ask.at \in alive
     /\ IF ask.at \in Byzantine
          THEN /\ UNCHANGED <<lockFile, locked>>
               /\ Receives(ask, "share", ErrorOf(ask.use, "share"))
          ELSE /\ late[ask.at] = {}
               /\ TakeLock(ask.at, ask.spend)
               /\ LET got == IF locked'[ask.at] = {ask.spend} THEN "share" ELSE "none" IN
                  Receives(ask, got, ErrorOf(ask.use, got))
  /\ UNCHANGED <<fixedVars, alive, late, stages, toVisit, unanswered, missed>>

\* It is not: the certifier has stopped, the request is lost, or served late.
Unanswered ==
  /\ Doing("ask")
  /\ LET ask == Head(todo) IN
     /\ Receives(ask, "none", ErrorOfSilence(ask.use))
     /\ missed' = missed + 1
     /\ \/ ask.at \notin alive /\ UNCHANGED <<late, unanswered>>
        \/ /\ unanswered < MaxUnanswered /\ unanswered' = unanswered + 1
           /\ \/ UNCHANGED late
              \/ /\ ask.at \in Honest \cap alive /\ late[ask.at] = {}
                 /\ late' = [late EXCEPT ![ask.at] = {ask.spend}]
  /\ UNCHANGED <<fixedVars, lockFile, locked, alive, stages, toVisit>>

\* SEC-008 refuses a file with an incomplete record at its end.
OpenedWhole(f) == IF \E n \in DOMAIN f : f[n] = "torn" THEN {} ELSE {f}

\* What LockStore::open makes of a file; the later campaigns cut such a record off.
Opened(f) ==
  IF campaign = "sec008" THEN OpenedWhole(f)
  ELSE {IF f # <<>> /\ f[Len(f)] = "torn" THEN SubSeq(f, 1, Len(f) - 1) ELSE f}

\* A kill may come in the middle of a late request.
Interrupted(i) == {lockFile[i]} \cup UNION {Leavings(i, t) : t \in late[i]}

\* The process is killed and started again.
CrashRestart ==
  /\ Doing("restart")
  /\ LET i == Head(todo).at IN
     /\ \E left \in Interrupted(i) :
          IF Opened(left) = {}
            THEN /\ lockFile' = [lockFile EXCEPT ![i] = left]
                 /\ alive' = alive \ {i} /\ locked' = [locked EXCEPT ![i] = {}]
                 /\ outcome' = "not ready"
            ELSE \E f \in Opened(left) :
                 /\ lockFile' = [lockFile EXCEPT ![i] = f]
                 /\ locked' = [locked EXCEPT ![i] = {f[n] : n \in DOMAIN f}]
                 /\ alive' = alive \cup {i} /\ UNCHANGED outcome
     /\ late' = [late EXCEPT ![i] = {}]
  /\ missed' = 0 /\ todo' = Tail(todo)
  /\ UNCHANGED <<fixedVars, stages, toVisit, choice, counted, unanswered>>

\* There is no port for it, it cannot be started, or is not ready in time: the campaign
\* ends, whether the new process gets to opening its file or not.
RestartFails ==
  /\ Doing("restart")
  /\ unanswered < MaxUnanswered /\ unanswered' = unanswered + 1
  /\ LET i == Head(todo).at IN
     /\ \E left \in Interrupted(i) : \E f \in {left} \cup Opened(left) :
          lockFile' = [lockFile EXCEPT ![i] = f]
     /\ locked' = [locked EXCEPT ![i] = {}] /\ late' = [late EXCEPT ![i] = {}]
     /\ alive' = alive \ {i}
  /\ missed' = 0 /\ todo' = Tail(todo) /\ outcome' = "not ready"
  /\ UNCHANGED <<fixedVars, stages, toVisit, choice, counted>>

\* inspect_wal: the controller reads the file itself.
Inspect ==
  /\ Doing("inspect")
  /\ LET f == lockFile[Head(todo).at] IN
     outcome' = IF f = <<"a">> THEN outcome ELSE "record missing"
  /\ todo' = Tail(todo)
  /\ UNCHANGED <<fixedVars, lockFile, locked, alive, late, stages, toVisit, choice, counted,
                 unanswered, missed>>

Pausing == outcome = "running" /\ todo = <<>> /\ stages # <<>>

Visit ==
  /\ Pausing
  /\ \E i \in toVisit : \E plan \in Visits(Head(stages), i) :
       /\ todo' = plan
       /\ toVisit' = IF OneVisit(Head(stages)) THEN {} ELSE toVisit \ {i}
       /\ choice' = IF campaign = "sec008" /\ Head(stages) = "first"
                      THEN [choice EXCEPT ![i] = {Head(plan).spend}] ELSE choice
  /\ UNCHANGED <<fixedVars, lockFile, locked, alive, late, stages, counted, unanswered, missed, outcome>>

\* Only every fiftieth trial has a restart.
NextStage ==
  /\ Pausing
  /\ toVisit = {} \/ Head(stages) = "restart"
  /\ stages' = Tail(stages)
  /\ toVisit' = IF Tail(stages) = <<>> THEN {} ELSE Visitors(Head(Tail(stages)))
  /\ UNCHANGED <<fixedVars, lockFile, locked, alive, late, todo, choice, counted, unanswered,
                 missed, outcome>>

\* The result of a trial.
Judge ==
  LET final == {t \in Lockable : IsQuorum(counted[t])} IN
  CASE trial = "forensic" -> "passed"
    [] trial = "baseline" -> IF "a" \in final THEN "finalised" ELSE "baseline failed"
    [] trial = "split" -> IF final = {} THEN "deadlocked" ELSE "split finalised"
    [] OTHER -> CASE final = {} -> "deadlocked"
                  [] final = Lockable -> "dual finality"
                  [] OTHER -> "finalised"

EndTrial ==
  /\ outcome = "running" /\ stages = <<>> /\ todo = <<>>
  /\ outcome' = Judge
  /\ UNCHANGED <<fixedVars, lockFile, locked, alive, late, stages, toVisit, todo, choice,
                 counted, unanswered, missed>>

FaultNext ==
  \/ \E i \in Honest : FinishLate(i) \/ StopOverLate(i)
  \/ Answered \/ Unanswered \/ CrashRestart \/ RestartFails \/ Inspect
  \/ Visit \/ NextStage \/ EndTrial

FaultSpec == FaultInit /\ [][FaultNext]_faultVars

-----------------------------------------------------------------------------
(* Properties                                                              *)

Results == {"running", "finalised", "deadlocked", "passed"}

\* No share is counted whose lock is not in its certifier's file.
CountedSharesAreLocked ==
  \A t \in Lockable : \A i \in Honest \cap counted[t] : t \in {lockFile[i][n] : n \in DOMAIN lockFile[i]}

\* A trial that hears an answer to every request ends in a result, and in a healed
\* trial every honest certifier is counted for one spend.
QuietTrialIsDecided ==
  unanswered = 0 =>
    /\ outcome \in Results
    /\ trial = "fault" /\ outcome \in {"finalised", "deadlocked"} =>
         \A i \in Honest : (i \in counted["a"]) # (i \in counted["b"])

\* The campaign never reports what the locks rule out.  A certifier is blamed only when
\* a request of the check went unanswered, or, in SEC-008, when the certifier had never
\* answered its first request and so had no lock to lose (the abort recorded in
\* sec008/LOCAL-RESULT-SNAPDRAGON-2000-ABORT.md, which SEC-008.2 no longer has).
BlameIsDeserved ==
  /\ outcome \notin {"dual finality", "rejected", "record missing"}
  /\ outcome \in {"double signed", "lock lost"} =>
       \/ campaign = "sec0082" /\ outcome = "lock lost" /\ missed > 0
       \/ campaign = "sec008" /\ \E i \in Honest : choice[i] # {} /\
            \A t \in choice[i] : i \notin counted[t]

CampaignTellsTheTruth ==
  CountedSharesAreLocked /\ QuietTrialIsDecided /\ BlameIsDeserved
=============================================================================
