--------------------------- MODULE CampaignProofs ---------------------------
(***************************************************************************)
(* What the fault campaigns report is true, for every committee, every     *)
(* order of requests, every loss and every kill.                           *)
(***************************************************************************)
EXTENDS FaultCampaign, CommitteeProofs, SequenceTheorems

-----------------------------------------------------------------------------
(* The invariant                                                           *)

Phase == IF stages = <<>> THEN "over" ELSE Head(stages)

LockFiles == {<<>>, <<"a">>, <<"b">>, <<"torn">>}
AtMostOneLock == {{}, {"a"}, {"b"}}
Uses == {"count", "first", "refuse", "refuseAfter", "establish", "keep", "expect", "expectNot"}
AskSteps ==
  [do : {"ask"}, at : Validators, spend : Lockable, use : Uses, tries : {1, 2, 3}]
OtherSteps == [do : {"restart", "inspect"}, at : Honest]

\* A file holds one record of the trial at most, whole or torn.
CampaignTyped ==
  /\ campaign \in Campaigns /\ trial \in TrialsOf(campaign)
  /\ firstHalf \in SUBSET Honest
  /\ trial = "split" => 2 * Cardinality(firstHalf) = Cardinality(Honest) + 1
  /\ lockFile \in [Honest -> LockFiles]
  /\ locked \in [Honest -> AtMostOneLock]
  /\ alive \in SUBSET Validators
  /\ late \in [Honest -> AtMostOneLock]
  /\ toVisit \in SUBSET Validators
  /\ todo \in Seq(AskSteps \cup OtherSteps)
  /\ choice \in [Honest -> AtMostOneLock]
  /\ counted \in [Lockable -> SUBSET Validators]
  /\ unanswered \in Nat /\ missed \in Nat

StagesRun ==
  \/ trial = "baseline" /\ stages \in {<<"baseline">>, <<>>}
  \/ trial = "split" /\ stages \in {<<"split", "heal">>, <<"heal">>, <<>>}
  \/ trial = "forensic" /\ stages \in {<<"forensic">>, <<>>}
  \/ /\ trial = "fault" /\ campaign = "sec008"
     /\ stages \in {<<"first", "restart", "byzantine", "heal">>,
                    <<"restart", "byzantine", "heal">>, <<"byzantine", "heal">>,
                    <<"heal">>, <<>>}
  \/ /\ trial = "fault" /\ campaign = "sec0082"
     /\ stages \in {<<"first", "byzantine", "restart", "heal">>,
                    <<"byzantine", "restart", "heal">>, <<"restart", "heal">>,
                    <<"heal">>, <<>>}

\* What a file says.
LocksIn(f) == {f[n] : n \in DOMAIN f} \ {"torn"}

\* A certifier that runs has a whole file, and its memory is what the file says.
FilesAreLocks ==
  \A i \in Honest :
    /\ locked[i] \subseteq LocksIn(lockFile[i])
    /\ i \in alive => lockFile[i] # <<"torn">> /\ locked[i] = LocksIn(lockFile[i])
    /\ late[i] # {} => i \in alive

-----------------------------------------------------------------------------
(* Files                                                                   *)

LEMMA FileFacts ==
  /\ \A t : Append(<<>>, t) = <<t>> /\ <<t>> # <<>>
  /\ \A s, t : <<s>> = <<t>> => s = t
  /\ LocksIn(<<>>) = {} /\ LocksIn(<<"torn">>) = {}
  /\ \A t \in Lockable : LocksIn(<<t>>) = {t}
<1>1. \A t : Append(<<>>, t) = <<t>>
  OBVIOUS
<1>2. \A t : <<t>> # <<>>
  OBVIOUS
<1>3. \A s, t : <<s>> = <<t>> => s = t
  OBVIOUS
<1>4. LocksIn(<<>>) = {}
  BY DEF LocksIn
<1>5. \A t : {<<t>>[n] : n \in DOMAIN <<t>>} = {t}
  OBVIOUS
<1> QED
  BY <1>1, <1>2, <1>3, <1>4, <1>5 DEF LocksIn, Lockable

\* A certifier that serves a request locks the spend if it had locked none.
LEMMA TakesLock ==
  ASSUME CampaignTyped, FilesAreLocks, NEW i \in Honest, i \in alive, NEW t \in Lockable,
         TakeLock(i, t)
  PROVE  /\ lockFile' = [lockFile EXCEPT ![i] = IF lockFile[i] = <<>> THEN <<t>> ELSE lockFile[i]]
         /\ locked' = [locked EXCEPT ![i] = LocksIn(lockFile'[i])]
         /\ lockFile'[i] \in {<<"a">>, <<"b">>}
<1>1. lockFile[i] \in {<<>>, <<"a">>, <<"b">>} /\ locked[i] = LocksIn(lockFile[i])
  BY DEF CampaignTyped, FilesAreLocks, LockFiles
<1>2. CASE lockFile[i] = <<>>
  <2>1. locked[i] = {}
    BY <1>1, <1>2, FileFacts
  <2>2. lockFile' = [lockFile EXCEPT ![i] = <<t>>] /\ locked' = [locked EXCEPT ![i] = {t}]
    BY <2>1, <1>2, FileFacts DEF TakeLock
  <2> QED
    BY <2>2, <1>2, FileFacts DEF CampaignTyped, Lockable
<1>3. CASE lockFile[i] \in {<<"a">>, <<"b">>}
  <2>1. locked[i] # {}
    BY <1>1, <1>3, FileFacts DEF Lockable
  <2>2. lockFile' = lockFile /\ locked' = locked
    BY <2>1 DEF TakeLock
  <2> QED
    BY <2>2, <1>1, <1>3, FileFacts DEF CampaignTyped
<1> QED
  BY <1>1, <1>2, <1>3

\* An interrupted write adds at most one record, and only to an empty file.
LEMMA WhatIsLeft ==
  ASSUME CampaignTyped, FilesAreLocks, NEW i \in Honest, i \in alive, NEW t \in Lockable,
         NEW f \in Leavings(i, t)
  PROVE  f = lockFile[i] \/ (lockFile[i] = <<>> /\ f \in {<<"torn">>, <<t>>})
<1>1. lockFile[i] \in {<<>>, <<"a">>, <<"b">>} /\ locked[i] = LocksIn(lockFile[i])
  BY DEF CampaignTyped, FilesAreLocks, LockFiles
<1>2. CASE lockFile[i] = <<>>
  BY <1>1, <1>2, FileFacts DEF Leavings
<1>3. CASE lockFile[i] \in {<<"a">>, <<"b">>}
  BY <1>1, <1>3, FileFacts DEF Leavings, Lockable
<1> QED
  BY <1>1, <1>2, <1>3

\* What a start makes of a file.
LEMMA WhatIsOpened ==
  ASSUME NEW f \in LockFiles
  PROVE  IF f = <<"torn">>
           THEN Opened(f) = IF campaign = "sec008" THEN {} ELSE {<<>>}
           ELSE Opened(f) = {f}
<1>1. CASE f = <<"torn">>
  <2>1. \E n \in DOMAIN f : f[n] = "torn"
    BY <1>1
  <2>2. f # <<>> /\ f[Len(f)] = "torn" /\ SubSeq(f, 1, Len(f) - 1) = <<>>
    BY <1>1
  <2> QED
    BY <1>1, <2>1, <2>2 DEF Opened, OpenedWhole
<1>2. CASE f = <<>>
  BY <1>2, FileFacts DEF Opened, OpenedWhole
<1>3. CASE f \in {<<"a">>, <<"b">>}
  <2>1. f # <<"torn">> /\ ~ (\E n \in DOMAIN f : f[n] = "torn") /\ f[Len(f)] # "torn"
    BY <1>3
  <2> QED
    BY <2>1 DEF Opened, OpenedWhole
<1> QED
  BY <1>1, <1>2, <1>3 DEF LockFiles

-----------------------------------------------------------------------------
(* The controller's next step                                              *)

LEMMA NextStep ==
  ASSUME CampaignTyped, NEW what, Doing(what)
  PROVE  /\ todo # <<>> /\ Head(todo) = todo[1] /\ Len(todo) \in Nat \ {0}
         /\ 1 \in DOMAIN todo /\ DOMAIN todo = 1..Len(todo) /\ todo[1].do = what
         /\ Tail(todo) \in Seq(AskSteps \cup OtherSteps)
         /\ Len(Tail(todo)) = Len(todo) - 1
         /\ DOMAIN Tail(todo) = 1..(Len(todo) - 1)
         /\ \A n \in DOMAIN Tail(todo) : Tail(todo)[n] = todo[n + 1] /\ n + 1 \in DOMAIN todo
         /\ what = "ask" => todo[1] \in AskSteps
         /\ what # "ask" => todo[1] \in OtherSteps
<1>1. todo \in Seq(AskSteps \cup OtherSteps) /\ todo # <<>>
  BY DEF CampaignTyped, Doing
<1>2. /\ Head(todo) = todo[1] /\ Len(todo) \in Nat \ {0} /\ DOMAIN todo = 1..Len(todo)
      /\ Tail(todo) \in Seq(AskSteps \cup OtherSteps)
      /\ Len(Tail(todo)) = Len(todo) - 1
      /\ DOMAIN Tail(todo) = 1..(Len(todo) - 1)
      /\ \A n \in DOMAIN Tail(todo) : Tail(todo)[n] = todo[n + 1] /\ n + 1 \in DOMAIN todo
  BY <1>1
<1>3. todo[1] \in AskSteps \cup OtherSteps /\ todo[1].do = what
  BY <1>1, <1>2 DEF Doing
<1>4. /\ \A s \in AskSteps : s.do = "ask"
      /\ \A s \in OtherSteps : s.do # "ask"
  BY DEF AskSteps, OtherSteps
<1> QED
  BY <1>1, <1>2, <1>3, <1>4

LEMMA PutInFront ==
  ASSUME NEW S, NEW s \in Seq(S), s # <<>>, NEW x
  PROVE  <<x>> \o Tail(s) = [s EXCEPT ![1] = x]
<1>1. /\ Len(<<x>> \o Tail(s)) = Len(s)
      /\ <<x>> \o Tail(s) \in Seq(S \cup {x}) /\ [s EXCEPT ![1] = x] \in Seq(S \cup {x})
      /\ Len([s EXCEPT ![1] = x]) = Len(s)
  OBVIOUS
<1>2. \A n \in 1..Len(s) : (<<x>> \o Tail(s))[n] = [s EXCEPT ![1] = x][n]
  OBVIOUS
<1> QED
  BY <1>1, <1>2, SeqEqual

\* A request that has got none may be repeated; the share of a first choice is
\* followed by the request that must be refused.
LEMMA WhatIsNext ==
  ASSUME CampaignTyped, Doing("ask"), NEW got \in {"share", "none"}, NEW errors,
         Receives(todo[1], got, errors)
  PROVE  \/ /\ got = "none" /\ todo[1].tries > 1
            /\ todo' = [todo EXCEPT ![1] = [todo[1] EXCEPT !.tries = todo[1].tries - 1]]
            /\ UNCHANGED <<choice, counted, outcome>>
         \/ /\ got = "share" \/ todo[1].tries <= 1
            /\ outcome' = IF errors = {} THEN outcome ELSE CHOOSE e \in errors : TRUE
            /\ counted' = IF got = "share" /\ Counting(todo[1].use)
                  THEN [counted EXCEPT ![todo[1].spend] = counted[todo[1].spend] \cup {todo[1].at}] ELSE counted
            /\ choice' = IF got = "share" /\ todo[1].use \in {"first", "establish"}
                   THEN [choice EXCEPT ![todo[1].at] = {todo[1].spend}] ELSE choice
            /\ todo' = IF got = "share" /\ todo[1].use = "first"
                         THEN [todo EXCEPT ![1] = Ask(todo[1].at, Opposing(todo[1].spend), "refuse", 1)]
                         ELSE Tail(todo)
<1>1. todo \in Seq(AskSteps \cup OtherSteps) /\ todo # <<>> /\ todo[1] \in AskSteps
  BY NextStep DEF CampaignTyped
<1>2. \A x : <<x>> \o Tail(todo) = [todo EXCEPT ![1] = x]
  BY <1>1, PutInFront
<1>3. todo[1].tries > 1 <=> ~ (todo[1].tries <= 1)
  BY <1>1 DEF AskSteps
<1> QED
  BY <1>2, <1>3 DEF Receives

\* A record stays in its file.
Stays == \A i \in Honest, t \in Lockable : lockFile[i] = <<t>> => lockFile'[i] = <<t>>

FilesTyped ==
  /\ lockFile \in [Honest -> LockFiles] /\ locked \in [Honest -> AtMostOneLock]
  /\ late \in [Honest -> AtMostOneLock] /\ alive \in SUBSET Validators

LEMMA LocksOfFiles ==
  \A f \in LockFiles : LocksIn(f) \in AtMostOneLock
BY FileFacts DEF LockFiles, AtMostOneLock, Lockable

\* The file and the memory of one certifier change.
LEMMA OneFileChanges ==
  ASSUME CampaignTyped, FilesAreLocks, NEW i \in Honest, NEW f \in LockFiles, NEW M,
         lockFile' = [lockFile EXCEPT ![i] = f], locked' = [locked EXCEPT ![i] = M],
         M \in AtMostOneLock, M \subseteq LocksIn(f),
         alive' \in {alive, alive \cup {i}, alive \ {i}},
         i \in alive' => f # <<"torn">> /\ M = LocksIn(f),
         late' = [late EXCEPT ![i] = {}] \/ (late' = late /\ i \in alive'),
         lockFile[i] \in {<<"a">>, <<"b">>} => f = lockFile[i]
  PROVE  FilesTyped' /\ FilesAreLocks' /\ Stays
<1>1. FilesTyped'
  <2>1. alive' \in SUBSET Validators
    BY DEF CampaignTyped, Honest
  <2>2. {} \in AtMostOneLock
    BY DEF AtMostOneLock
  <2> QED
    BY <2>1, <2>2 DEF FilesTyped, CampaignTyped
<1>2. FilesAreLocks'
  <2> SUFFICES ASSUME NEW j \in Honest
               PROVE  /\ locked'[j] \subseteq LocksIn(lockFile'[j])
                      /\ j \in alive' => lockFile'[j] # <<"torn">> /\ locked'[j] = LocksIn(lockFile'[j])
                      /\ late'[j] # {} => j \in alive'
    BY DEF FilesAreLocks, LocksIn
  <2>1. CASE j = i
    BY <2>1 DEF CampaignTyped
  <2>2. CASE j # i
    <3>1. lockFile'[j] = lockFile[j] /\ locked'[j] = locked[j] /\ late'[j] = late[j]
      BY <2>2 DEF CampaignTyped
    <3>2. j \in alive' <=> j \in alive
      BY <2>2
    <3> QED
      BY <3>1, <3>2 DEF FilesAreLocks
  <2> QED
    BY <2>1, <2>2
<1>3. Stays
  BY DEF Stays, CampaignTyped, Lockable
<1> QED
  BY <1>1, <1>2, <1>3

LEMMA WhatAKillLeaves ==
  ASSUME CampaignTyped, FilesAreLocks, NEW i \in Honest, NEW left \in Interrupted(i)
  PROVE  left \in LockFiles /\ (lockFile[i] \in {<<"a">>, <<"b">>} => left = lockFile[i])
<1>1. \/ left = lockFile[i]
      \/ lockFile[i] = <<>> /\ left \in {<<"torn">>, <<"a">>, <<"b">>}
  <2>1. CASE left = lockFile[i]
    BY <2>1
  <2>2. ASSUME NEW t \in late[i], left \in Leavings(i, t)
        PROVE  left = lockFile[i] \/ (lockFile[i] = <<>> /\ left \in {<<"torn">>, <<"a">>, <<"b">>})
    <3>1. t \in Lockable /\ i \in alive
      BY <2>2 DEF CampaignTyped, AtMostOneLock, Lockable, FilesAreLocks
    <3> QED
      BY <3>1, <2>2, WhatIsLeft DEF Lockable
  <2> QED
    BY <2>1, <2>2 DEF Interrupted
<1> QED
  BY <1>1, FileFacts DEF LockFiles, CampaignTyped

LEMMA FilesStep ==
  ASSUME CampaignTyped, FilesAreLocks, [FaultNext]_faultVars
  PROVE  FilesTyped' /\ FilesAreLocks' /\ Stays
<1>1. ASSUME UNCHANGED <<lockFile, locked, alive>>,
             late' = late \/ \E i \in Honest \cap alive, t \in Lockable : late' = [late EXCEPT ![i] = {t}]
      PROVE  FilesTyped' /\ FilesAreLocks' /\ Stays
  <2>1. FilesTyped'
    BY <1>1 DEF FilesTyped, CampaignTyped, AtMostOneLock, Lockable
  <2>2. FilesAreLocks'
    BY <1>1 DEF FilesAreLocks, LocksIn, CampaignTyped
  <2> QED
    BY <1>1, <2>1, <2>2 DEF Stays
<1>2. ASSUME NEW i \in Honest, FinishLate(i)
      PROVE  FilesTyped' /\ FilesAreLocks' /\ Stays
  <2>1. PICK t \in late[i] : TakeLock(i, t)
    BY <1>2 DEF FinishLate
  <2>2. t \in Lockable /\ i \in alive
    BY <2>1 DEF CampaignTyped, AtMostOneLock, Lockable, FilesAreLocks
  <2>3. /\ lockFile' = [lockFile EXCEPT ![i] = IF lockFile[i] = <<>> THEN <<t>> ELSE lockFile[i]]
        /\ locked' = [locked EXCEPT ![i] = LocksIn(lockFile'[i])]
        /\ lockFile'[i] \in {<<"a">>, <<"b">>}
    BY <2>1, <2>2, TakesLock
  <2>4. lockFile' = [lockFile EXCEPT ![i] = lockFile'[i]]
    BY <2>3 DEF CampaignTyped
  <2>5. /\ lockFile'[i] \in LockFiles /\ LocksIn(lockFile'[i]) \in AtMostOneLock
        /\ lockFile'[i] # <<"torn">>
    BY <2>3, LocksOfFiles, FileFacts DEF LockFiles
  <2>6. lockFile[i] \in {<<"a">>, <<"b">>} => lockFile'[i] = lockFile[i]
    BY <2>3, FileFacts DEF CampaignTyped
  <2> QED
    BY <1>2, <2>3, <2>4, <2>5, <2>6, OneFileChanges DEF FinishLate
<1>3. ASSUME NEW i \in Honest, StopOverLate(i)
      PROVE  FilesTyped' /\ FilesAreLocks' /\ Stays
  <2>0. PICK t \in late[i] : \E f \in Leavings(i, t) : lockFile' = [lockFile EXCEPT ![i] = f]
    BY <1>3 DEF StopOverLate
  <2>1. PICK f \in Leavings(i, t) : lockFile' = [lockFile EXCEPT ![i] = f]
    BY <2>0
  <2>2. t \in Lockable /\ i \in alive
    BY <2>1 DEF CampaignTyped, AtMostOneLock, Lockable, FilesAreLocks
  <2>3. f = lockFile[i] \/ (lockFile[i] = <<>> /\ f \in {<<"torn">>, <<t>>})
    BY <2>1, <2>2, WhatIsLeft
  <2>4. f \in LockFiles /\ (lockFile[i] \in {<<"a">>, <<"b">>} => f = lockFile[i])
    BY <2>2, <2>3, FileFacts DEF LockFiles, CampaignTyped, Lockable
  <2>5. {} \in AtMostOneLock /\ {} \subseteq LocksIn(f)
    BY DEF AtMostOneLock
  <2> QED
    BY <1>3, <2>1, <2>4, <2>5, OneFileChanges DEF StopOverLate
<1>4. CASE Answered
  <2>1. todo[1] \in AskSteps /\ Head(todo) = todo[1]
    BY <1>4, NextStep DEF Answered
  <2> DEFINE i == todo[1].at
             t == todo[1].spend
  <2>2. i \in Validators /\ t \in Lockable
    BY <2>1 DEF AskSteps
  <2>3. CASE i \in Byzantine
    BY <1>1, <1>4, <2>1, <2>3 DEF Answered
  <2>4. CASE i \notin Byzantine
    <3>1. i \in Honest /\ i \in alive /\ TakeLock(i, t) /\ late' = late /\ alive' = alive
      BY <1>4, <2>1, <2>2, <2>4 DEF Answered, Honest
    <3>3. /\ lockFile' = [lockFile EXCEPT ![i] = IF lockFile[i] = <<>> THEN <<t>> ELSE lockFile[i]]
          /\ locked' = [locked EXCEPT ![i] = LocksIn(lockFile'[i])]
          /\ lockFile'[i] \in {<<"a">>, <<"b">>}
      BY <3>1, <2>2, TakesLock
    <3>4. lockFile' = [lockFile EXCEPT ![i] = lockFile'[i]]
      BY <3>1, <3>3 DEF CampaignTyped
    <3>5. /\ lockFile'[i] \in LockFiles /\ LocksIn(lockFile'[i]) \in AtMostOneLock
          /\ lockFile'[i] # <<"torn">>
      BY <3>3, LocksOfFiles, FileFacts DEF LockFiles
    <3>6. lockFile[i] \in {<<"a">>, <<"b">>} => lockFile'[i] = lockFile[i]
      BY <3>1, <3>3, FileFacts DEF CampaignTyped
    <3> HIDE DEF i, t
    <3> QED
      BY <3>1, <3>3, <3>4, <3>5, <3>6, OneFileChanges
  <2> QED
    BY <2>3, <2>4
<1>5. CASE Unanswered
  <2>1. todo[1] \in AskSteps /\ Head(todo) = todo[1]
    BY <1>5, NextStep DEF Unanswered
  <2>2. todo[1].spend \in Lockable
    BY <2>1 DEF AskSteps
  <2> QED
    BY <1>1, <1>5, <2>1, <2>2 DEF Unanswered
<1>6. CASE CrashRestart
  <2>0. Doing("restart") /\ "restart" # "ask"
    BY <1>6 DEF CrashRestart
  <2>1. todo[1] \in OtherSteps /\ Head(todo) = todo[1]
    BY <2>0, NextStep
  <2> DEFINE i == todo[1].at
  <2>2. i \in Honest
    BY <2>1 DEF OtherSteps
  <2>3. PICK left \in Interrupted(i) :
          IF Opened(left) = {}
            THEN /\ lockFile' = [lockFile EXCEPT ![i] = left]
                 /\ alive' = alive \ {i} /\ locked' = [locked EXCEPT ![i] = {}]
                 /\ outcome' = "not ready"
            ELSE \E f \in Opened(left) :
                 /\ lockFile' = [lockFile EXCEPT ![i] = f]
                 /\ locked' = [locked EXCEPT ![i] = {f[n] : n \in DOMAIN f}]
                 /\ alive' = alive \cup {i} /\ UNCHANGED outcome
    BY <1>6, <2>1 DEF CrashRestart
  <2>4. late' = [late EXCEPT ![i] = {}]
    BY <1>6, <2>1 DEF CrashRestart
  <2>6. left \in LockFiles /\ (lockFile[i] \in {<<"a">>, <<"b">>} => left = lockFile[i])
    BY <2>2, <2>3, WhatAKillLeaves
  <2>7. {} \in AtMostOneLock /\ {} \subseteq LocksIn(left)
    BY DEF AtMostOneLock
  <2>8. CASE Opened(left) = {}
    <3> HIDE DEF i
    <3> QED
      BY <2>2, <2>3, <2>4, <2>6, <2>7, <2>8, OneFileChanges
  <2>9. CASE Opened(left) # {}
    <3>1. PICK f \in Opened(left) :
                 /\ lockFile' = [lockFile EXCEPT ![i] = f]
                 /\ locked' = [locked EXCEPT ![i] = {f[n] : n \in DOMAIN f}]
                 /\ alive' = alive \cup {i} /\ UNCHANGED outcome
      BY <2>3, <2>9
    <3>2. f \in {<<>>, <<"a">>, <<"b">>} /\ (left # <<"torn">> => f = left)
      BY <2>6, <3>1, WhatIsOpened, FileFacts DEF LockFiles
    <3>3. {f[n] : n \in DOMAIN f} = LocksIn(f)
      <4>1. "torn" \notin {f[n] : n \in DOMAIN f}
        BY <3>2
      <4> QED
        BY <4>1 DEF LocksIn
    <3>4. f \in LockFiles /\ f # <<"torn">> /\ LocksIn(f) \in AtMostOneLock
      BY <3>2, LocksOfFiles, FileFacts DEF LockFiles
    <3>5. lockFile[i] \in {<<"a">>, <<"b">>} => f = lockFile[i]
      BY <2>6, <3>2, FileFacts
    <3> HIDE DEF i
    <3> QED
      BY <2>2, <2>4, <3>1, <3>3, <3>4, <3>5, OneFileChanges
  <2> QED
    BY <2>8, <2>9
<1>7. CASE RestartFails
  <2>0. Doing("restart") /\ "restart" # "ask"
    BY <1>7 DEF RestartFails
  <2>1. todo[1] \in OtherSteps /\ Head(todo) = todo[1]
    BY <2>0, NextStep
  <2> DEFINE i == todo[1].at
  <2>2. i \in Honest
    BY <2>1 DEF OtherSteps
  <2>3. PICK left \in Interrupted(i) : \E f \in {left} \cup Opened(left) :
          lockFile' = [lockFile EXCEPT ![i] = f]
    BY <1>7, <2>1 DEF RestartFails
  <2>4. PICK f \in {left} \cup Opened(left) : lockFile' = [lockFile EXCEPT ![i] = f]
    BY <2>3
  <2>5. /\ late' = [late EXCEPT ![i] = {}] /\ locked' = [locked EXCEPT ![i] = {}]
        /\ alive' = alive \ {i}
    BY <1>7, <2>1 DEF RestartFails
  <2>6. left \in LockFiles /\ (lockFile[i] \in {<<"a">>, <<"b">>} => left = lockFile[i])
    BY <2>2, <2>3, WhatAKillLeaves
  <2>7. f \in LockFiles /\ (left # <<"torn">> => f = left)
    BY <2>4, <2>6, WhatIsOpened DEF LockFiles
  <2>8. lockFile[i] \in {<<"a">>, <<"b">>} => f = lockFile[i]
    BY <2>6, <2>7, FileFacts
  <2>9. {} \in AtMostOneLock /\ {} \subseteq LocksIn(f)
    BY DEF AtMostOneLock
  <2> HIDE DEF i
  <2> QED
    BY <2>2, <2>4, <2>5, <2>7, <2>8, <2>9, OneFileChanges
<1>8. CASE UNCHANGED <<lockFile, locked, alive, late>>
  BY <1>1, <1>8
<1> QED
  BY <1>2, <1>3, <1>4, <1>5, <1>6, <1>7, <1>8
     DEF FaultNext, faultVars, Inspect, Visit, NextStage, EndTrial

-----------------------------------------------------------------------------
(* Stages                                                                  *)

Following ==
  CASE Phase = "split" -> "heal"
    [] Phase = "first" -> IF campaign = "sec008" THEN "restart" ELSE "byzantine"
    [] Phase = "byzantine" -> IF campaign = "sec008" THEN "heal" ELSE "restart"
    [] Phase = "restart" -> IF campaign = "sec008" THEN "byzantine" ELSE "heal"
    [] OTHER -> "over"

Phases == {"baseline", "split", "forensic", "first", "restart", "byzantine", "heal", "over"}

\* Which trial a stage belongs to.
LEMMA PhaseFacts ==
  ASSUME StagesRun
  PROVE  /\ Phase \in Phases
         /\ Phase # "over" <=> stages # <<>>
         /\ Phase # "over" => Phase = Head(stages)
         /\ Phase = "baseline" => trial = "baseline"
         /\ Phase = "split" => trial = "split"
         /\ Phase = "forensic" => trial = "forensic"
         /\ Phase \in {"first", "restart", "byzantine"} => trial = "fault"
         /\ Phase = "heal" => trial \in {"split", "fault"}
         /\ trial = "forensic" => Phase \in {"forensic", "over"}
         /\ trial = "baseline" => Phase \in {"baseline", "over"}
         /\ trial = "split" => Phase \in {"split", "heal", "over"}
         /\ trial = "fault" => campaign \in {"sec008", "sec0082"}
BY DEF StagesRun, Phase, Phases

\* The stages follow one another.
LEMMA StagesFollow ==
  ASSUME StagesRun, stages # <<>>, stages' = Tail(stages), UNCHANGED fixedVars
  PROVE  /\ StagesRun' /\ Phase' = Following
         /\ (IF Tail(stages) = <<>> THEN {} ELSE Visitors(Head(Tail(stages))))
              = IF Following = "over" THEN {} ELSE Visitors(Following)
<1>1. trial' = trial /\ campaign' = campaign
  BY DEF fixedVars
<1>2. ASSUME NEW p, stages = <<p>>
      PROVE  stages' = <<>> /\ Phase = p /\ Phase' = "over" /\ Tail(stages) = <<>>
  BY <1>2 DEF Phase
<1>3. ASSUME NEW p, NEW q, stages = <<p, q>>
      PROVE  stages' = <<q>> /\ Phase = p /\ Phase' = q /\ Tail(stages) # <<>> /\ Head(Tail(stages)) = q
  BY <1>3 DEF Phase
<1>4. ASSUME NEW p, NEW q, NEW r, stages = <<p, q, r>>
      PROVE  stages' = <<q, r>> /\ Phase = p /\ Phase' = q /\ Tail(stages) # <<>> /\ Head(Tail(stages)) = q
  BY <1>4 DEF Phase
<1>5. ASSUME NEW p, NEW q, NEW r, NEW s, stages = <<p, q, r, s>>
      PROVE  stages' = <<q, r, s>> /\ Phase = p /\ Phase' = q /\ Tail(stages) # <<>> /\ Head(Tail(stages)) = q
  BY <1>5 DEF Phase
<1>6. CASE trial \in {"baseline", "forensic"}
  <2>1. stages \in {<<"baseline">>, <<"forensic">>}
    BY <1>6 DEF StagesRun
  <2> QED
    BY <2>1, <1>1, <1>2, <1>6 DEF StagesRun, Following
<1>7. CASE trial = "split"
  <2>1. stages \in {<<"split", "heal">>, <<"heal">>}
    BY <1>7 DEF StagesRun
  <2> QED
    BY <2>1, <1>1, <1>2, <1>3, <1>7 DEF StagesRun, Following
<1>8. CASE trial = "fault"
  <2>1. CASE campaign = "sec008"
    BY <2>1, <1>1, <1>2, <1>3, <1>4, <1>5, <1>8 DEF StagesRun, Following
  <2>2. CASE campaign = "sec0082"
    BY <2>2, <1>1, <1>2, <1>3, <1>4, <1>5, <1>8 DEF StagesRun, Following
  <2> QED
    BY <2>1, <2>2, <1>8 DEF StagesRun
<1> QED
  BY <1>6, <1>7, <1>8 DEF StagesRun

-----------------------------------------------------------------------------
(* Plans                                                                   *)

VisitorsAreMembers == toVisit \subseteq Visitors(Phase)

HalfOf(i) == IF i \in firstHalf THEN "a" ELSE "b"

UsesIn(phase) ==
  CASE phase = "first" ->
         IF campaign = "sec008" THEN {"count", "refuse"} ELSE {"count", "first", "refuse"}
    [] phase = "restart" ->
         IF campaign = "sec008" THEN {"refuseAfter"} ELSE {"establish", "keep", "refuseAfter"}
    [] phase = "forensic" -> {"expect", "expectNot"}
    [] OTHER -> {"count"}

\* What may be asked of whom in a stage.
StepFits(s) ==
  \/ s.do = "inspect" /\ Phase = "forensic"
  \/ s.do = "restart" /\ Phase \in {"restart", "forensic"}
  \/ /\ s.do = "ask" /\ Phase # "over"
     /\ s.at \in Visitors(Phase)
     /\ s.use \in UsesIn(Phase)
     /\ Phase = "baseline" => s.spend = "a"
     /\ Phase = "split" => s.spend = HalfOf(s.at)
     /\ s.use = "expect" => s.spend = "a"
     /\ s.use = "expectNot" => s.spend = "b"
     /\ Phase \in {"forensic", "first"} => s.tries = 1

\* A plan is about one certifier, which is not visited again in the stage.
StepsFit ==
  /\ \A n \in DOMAIN todo : StepFits(todo[n]) /\ todo[n].at = todo[1].at
  /\ todo # <<>> => todo[1].at \notin toVisit

PlanFits(i, plan) ==
  /\ plan \in Seq(AskSteps \cup OtherSteps)
  /\ \A n \in DOMAIN plan : StepFits(plan[n]) /\ plan[n].at = i

LEMMA AskStep ==
  ASSUME NEW i \in Validators, NEW t \in Lockable, NEW use \in Uses, NEW tries \in {1, 2, 3}
  PROVE  /\ Ask(i, t, use, tries) \in AskSteps
         /\ Ask(i, t, use, tries).do = "ask" /\ Ask(i, t, use, tries).at = i
         /\ Ask(i, t, use, tries).spend = t /\ Ask(i, t, use, tries).use = use
         /\ Ask(i, t, use, tries).tries = tries
BY DEF Ask, AskSteps

LEMMA OtherStep ==
  ASSUME NEW i \in Honest
  PROVE  /\ RestartStep(i) \in OtherSteps /\ RestartStep(i).do = "restart" /\ RestartStep(i).at = i
         /\ InspectStep(i) \in OtherSteps /\ InspectStep(i).do = "inspect" /\ InspectStep(i).at = i
BY DEF RestartStep, InspectStep, OtherSteps

LEMMA SpendFacts ==
  /\ "a" \in Lockable /\ "b" \in Lockable /\ "a" # "b"
  /\ \A t \in Lockable : Opposing(t) \in Lockable /\ Opposing(t) # t /\ Opposing(Opposing(t)) = t
  /\ \A s, t \in Lockable : s = t \/ s = Opposing(t)
BY DEF Lockable, Opposing

\* The plans of each stage, written out.
LEMMA PlansOfStages ==
  ASSUME CampaignTyped, NEW i, NEW plan
  PROVE  /\ plan \in Visits("baseline", i) => plan = <<Ask(i, "a", "count", Tries)>>
         /\ plan \in Visits("split", i) => plan = <<Ask(i, HalfOf(i), "count", Tries)>>
         /\ plan \in Visits("first", i) /\ campaign = "sec008" =>
              \E c \in Lockable :
                plan \in {<<Ask(i, c, "count", 1), Ask(i, Opposing(c), "refuse", 1)>>,
                          <<Ask(i, c, "count", 1), Ask(i, c, "count", 1),
                            Ask(i, Opposing(c), "refuse", 1)>>}
         /\ plan \in Visits("first", i) /\ campaign # "sec008" =>
              \/ plan = <<>>
              \/ \E c \in Lockable : plan = <<Ask(i, c, "first", 1)>>
              \/ \E c \in Lockable : plan = <<Ask(i, c, "first", 1), Ask(i, c, "count", 1)>>
         /\ plan \in Visits("byzantine", i) =>
              plan \in {<<>>, <<Ask(i, "a", "count", 1)>>, <<Ask(i, "b", "count", 1)>>,
                        <<Ask(i, "a", "count", 1), Ask(i, "b", "count", 1)>>}
         /\ plan \in Visits("restart", i) /\ campaign = "sec008" =>
              \E c \in choice[i] : plan = <<RestartStep(i), Ask(i, Opposing(c), "refuseAfter", 1)>>
         /\ plan \in Visits("restart", i) /\ campaign # "sec008" =>
              \/ /\ \A j \in Honest : choice[j] = {}
                 /\ plan = <<Ask(i, "a", "establish", 3), RestartStep(i),
                             Ask(i, "a", "keep", 3), Ask(i, "b", "refuseAfter", 3)>>
              \/ \E c \in choice[i] :
                   plan = <<RestartStep(i), Ask(i, c, "keep", 3), Ask(i, Opposing(c), "refuseAfter", 3)>>
         /\ plan \in Visits("heal", i) =>
              \E c \in Lockable :
                plan = <<Ask(i, c, "count", Tries), Ask(i, Opposing(c), "count", Tries)>>
<1>1. plan \in Visits("baseline", i) => plan = <<Ask(i, "a", "count", Tries)>>
  BY DEF Visits
<1>2. plan \in Visits("split", i) => plan = <<Ask(i, HalfOf(i), "count", Tries)>>
  BY DEF Visits, HalfOf
<1>3. plan \in Visits("first", i) /\ campaign = "sec008" =>
              \E c \in Lockable :
                plan \in {<<Ask(i, c, "count", 1), Ask(i, Opposing(c), "refuse", 1)>>,
                          <<Ask(i, c, "count", 1), Ask(i, c, "count", 1),
                            Ask(i, Opposing(c), "refuse", 1)>>}
  BY DEF Visits, First008
<1>4. plan \in Visits("first", i) /\ campaign # "sec008" =>
              \/ plan = <<>>
              \/ \E c \in Lockable : plan = <<Ask(i, c, "first", 1)>>
              \/ \E c \in Lockable : plan = <<Ask(i, c, "first", 1), Ask(i, c, "count", 1)>>
  BY DEF Visits, First0082
<1>5. plan \in Visits("byzantine", i) =>
              plan \in {<<>>, <<Ask(i, "a", "count", 1)>>, <<Ask(i, "b", "count", 1)>>,
                        <<Ask(i, "a", "count", 1), Ask(i, "b", "count", 1)>>}
  BY DEF Visits
<1>6. plan \in Visits("restart", i) /\ campaign = "sec008" =>
              \E c \in choice[i] : plan = <<RestartStep(i), Ask(i, Opposing(c), "refuseAfter", 1)>>
  BY DEF Visits, CheckRestart
<1>7. plan \in Visits("restart", i) /\ campaign # "sec008" =>
              \/ /\ \A j \in Honest : choice[j] = {}
                 /\ plan = <<Ask(i, "a", "establish", 3), RestartStep(i),
                             Ask(i, "a", "keep", 3), Ask(i, "b", "refuseAfter", 3)>>
              \/ \E c \in choice[i] :
                   plan = <<RestartStep(i), Ask(i, c, "keep", 3), Ask(i, Opposing(c), "refuseAfter", 3)>>
  BY DEF Visits, CheckRestart, Candidates0082
<1>8. plan \in Visits("heal", i) =>
              \E c \in Lockable :
                plan = <<Ask(i, c, "count", Tries), Ask(i, Opposing(c), "count", Tries)>>
  BY SpendFacts DEF Visits, Heal
<1> QED
  BY <1>1, <1>2, <1>3, <1>4, <1>5, <1>6, <1>7, <1>8

LEMMA ForensicPlans ==
  ASSUME NEW i \in Honest, NEW plan \in Visits("forensic", i)
  PROVE  /\ plan \in Seq({Ask(i, "a", "expect", 1), Ask(i, "b", "expectNot", 1),
                          InspectStep(i), RestartStep(i)})
         /\ plan # <<>> /\ plan[1] = Ask(i, "a", "expect", 1)
<1> DEFINE S == {Ask(i, "a", "expect", 1), Ask(i, "b", "expectNot", 1),
                 InspectStep(i), RestartStep(i)}
           check == <<Ask(i, "a", "expect", 1), Ask(i, "b", "expectNot", 1)>>
           rest == <<InspectStep(i), RestartStep(i), InspectStep(i)>>
<1>1. check \in Seq(S) /\ rest \in Seq(S) /\ <<InspectStep(i)>> \in Seq(S)
      /\ check # <<>> /\ Len(check) = 2 /\ check[1] = Ask(i, "a", "expect", 1)
  OBVIOUS
<1>2. plan \in {check \o <<InspectStep(i)>>, check \o rest \o check}
  BY DEF Visits, Forensics
<1> HIDE DEF S, check, rest
<1>3. ASSUME NEW t \in Seq(S)
      PROVE  check \o t \in Seq(S) /\ check \o t # <<>> /\ (check \o t)[1] = check[1]
  BY <1>1, <1>3
<1>4. check \o rest \o check = check \o (rest \o check) /\ rest \o check \in Seq(S)
  BY <1>1
<1> QED
  BY <1>1, <1>2, <1>3, <1>4 DEF S

LEMMA PlanOfSteps ==
  ASSUME NEW i, NEW S, NEW plan \in Seq(S),
         \A s \in S : s \in AskSteps \cup OtherSteps /\ StepFits(s) /\ s.at = i
  PROVE  PlanFits(i, plan)
BY DEF PlanFits

LEMMA ShortPlans ==
  ASSUME NEW S
  PROVE  /\ <<>> \in Seq(S)
         /\ \A x \in S : <<x>> \in Seq(S)
         /\ \A x, y \in S : <<x, y>> \in Seq(S)
         /\ \A x, y, z \in S : <<x, y, z>> \in Seq(S)
OBVIOUS

\* The plan of a visit is made of steps of its stage.
LEMMA PlansFit ==
  ASSUME CampaignTyped, StagesRun, VisitorsAreMembers, Phase # "over",
         NEW i \in toVisit, NEW plan \in Visits(Phase, i)
  PROVE  PlanFits(i, plan)
<1>1. i \in Visitors(Phase) /\ i \in Validators /\ Phase \in Phases
  BY PhaseFacts DEF VisitorsAreMembers, CampaignTyped
<1>2. Tries \in {1, 2, 3}
  BY DEF Tries
<1>3. /\ "a" \in Lockable /\ "b" \in Lockable /\ HalfOf(i) \in Lockable
      /\ \A c \in Lockable : Opposing(c) \in Lockable
  BY SpendFacts DEF HalfOf
<1>u. {"count", "first", "refuse", "refuseAfter", "establish", "keep", "expect", "expectNot"} = Uses
  BY DEF Uses
<1>4. CASE Phase = "baseline"
  <2>1. plan = <<Ask(i, "a", "count", Tries)>>
    BY <1>4, PlansOfStages
  <2>2. Ask(i, "a", "count", Tries) \in AskSteps /\ StepFits(Ask(i, "a", "count", Tries))
    BY <1>1, <1>2, <1>3, <1>u, <1>4, AskStep DEF StepFits, UsesIn
  <2> QED
    BY <2>1, <2>2, <1>1, <1>2, <1>3, <1>u, AskStep DEF PlanFits
<1>5. CASE Phase = "split"
  <2>1. plan = <<Ask(i, HalfOf(i), "count", Tries)>>
    BY <1>5, PlansOfStages
  <2>2. Ask(i, HalfOf(i), "count", Tries) \in AskSteps /\ StepFits(Ask(i, HalfOf(i), "count", Tries))
    BY <1>1, <1>2, <1>3, <1>u, <1>5, AskStep DEF StepFits, UsesIn
  <2> QED
    BY <2>1, <2>2, <1>1, <1>2, <1>3, <1>u, AskStep DEF PlanFits
<1>6. CASE Phase = "first"
  <2> DEFINE uses == UsesIn("first")
  <2>1. ASSUME NEW c \in Lockable, NEW use \in uses
        PROVE  /\ Ask(i, c, use, 1) \in AskSteps /\ StepFits(Ask(i, c, use, 1))
               /\ Ask(i, c, use, 1).at = i
    <3>1. use \in Uses
      BY <2>1 DEF UsesIn, Uses
    <3> QED
      BY <3>1, <1>1, <1>6, <2>1, AskStep DEF StepFits, UsesIn
  <2>2. CASE campaign = "sec008"
    <3>1. PICK c \in Lockable :
                plan \in {<<Ask(i, c, "count", 1), Ask(i, Opposing(c), "refuse", 1)>>,
                          <<Ask(i, c, "count", 1), Ask(i, c, "count", 1),
                            Ask(i, Opposing(c), "refuse", 1)>>}
      BY <1>6, <2>2, PlansOfStages
    <3>2. "count" \in uses /\ "refuse" \in uses /\ Opposing(c) \in Lockable
      BY <2>2, <1>3 DEF UsesIn
    <3>3. \A s \in {Ask(i, c, "count", 1), Ask(i, Opposing(c), "refuse", 1)} :
            s \in AskSteps /\ StepFits(s) /\ s.at = i
      BY <2>1, <3>2
    <3>4. plan \in Seq({Ask(i, c, "count", 1), Ask(i, Opposing(c), "refuse", 1)})
      BY <3>1, ShortPlans
    <3> QED
      BY <3>3, <3>4, PlanOfSteps
  <2>3. CASE campaign # "sec008"
    <3>1. "count" \in uses /\ "first" \in uses
      BY <2>3 DEF UsesIn
    <3>2. \/ plan = <<>>
          \/ \E c \in Lockable : plan = <<Ask(i, c, "first", 1)>>
          \/ \E c \in Lockable : plan = <<Ask(i, c, "first", 1), Ask(i, c, "count", 1)>>
      BY <1>6, <2>3, PlansOfStages
    <3>3. PICK c \in Lockable : plan \in Seq({Ask(i, c, "count", 1), Ask(i, c, "first", 1)})
      BY <3>2, ShortPlans, <1>3
    <3>4. \A s \in {Ask(i, c, "count", 1), Ask(i, c, "first", 1)} :
            s \in AskSteps /\ StepFits(s) /\ s.at = i
      BY <2>1, <3>1
    <3> QED
      BY <3>3, <3>4, PlanOfSteps
  <2> QED
    BY <2>2, <2>3
<1>7. CASE Phase = "byzantine"
  <2>1. plan \in {<<>>, <<Ask(i, "a", "count", 1)>>, <<Ask(i, "b", "count", 1)>>,
                        <<Ask(i, "a", "count", 1), Ask(i, "b", "count", 1)>>}
    BY <1>7, PlansOfStages
  <2>2. \A s \in {Ask(i, "a", "count", 1), Ask(i, "b", "count", 1)} :
          s \in AskSteps /\ StepFits(s) /\ s.at = i
    BY <1>1, <1>3, <1>u, <1>7, AskStep DEF StepFits, UsesIn
  <2>3. plan \in Seq({Ask(i, "a", "count", 1), Ask(i, "b", "count", 1)})
    BY <2>1, ShortPlans
  <2> QED
    BY <2>2, <2>3, PlanOfSteps
<1>8. CASE Phase = "restart"
  <2>1. i \in Honest /\ choice[i] \subseteq Lockable
    BY <1>1, <1>8 DEF Visitors, CampaignTyped, AtMostOneLock, Lockable
  <2>2. RestartStep(i) \in OtherSteps /\ StepFits(RestartStep(i)) /\ RestartStep(i).at = i
    BY <2>1, <1>8, OtherStep DEF StepFits
  <2>3. ASSUME NEW c \in Lockable, NEW use \in UsesIn("restart"), NEW tries \in {1, 2, 3}
        PROVE  /\ Ask(i, c, use, tries) \in AskSteps /\ StepFits(Ask(i, c, use, tries))
               /\ Ask(i, c, use, tries).at = i
    <3>1. use \in Uses /\ use \notin {"expect", "expectNot"}
      BY <2>3 DEF UsesIn, Uses
    <3> QED
      BY <3>1, <1>1, <1>8, <2>3, AskStep DEF StepFits
  <2>4. CASE campaign = "sec008"
    <3>1. PICK c \in choice[i] : plan = <<RestartStep(i), Ask(i, Opposing(c), "refuseAfter", 1)>>
      BY <1>8, <2>4, PlansOfStages
    <3>2. "refuseAfter" \in UsesIn("restart") /\ Opposing(c) \in Lockable
      BY <2>1, <2>4, <1>3 DEF UsesIn
    <3>3. \A s \in {Ask(i, Opposing(c), "refuseAfter", 1)} :
            s \in AskSteps /\ StepFits(s) /\ s.at = i
      BY <2>3, <3>2
    <3> QED
      BY <3>1, <3>3, <2>2 DEF PlanFits
  <2>5. CASE campaign # "sec008"
    <3>1. {"establish", "keep", "refuseAfter"} = UsesIn("restart")
      BY <2>5 DEF UsesIn
    <3>2. CASE plan = <<Ask(i, "a", "establish", 3), RestartStep(i),
                        Ask(i, "a", "keep", 3), Ask(i, "b", "refuseAfter", 3)>>
      <4>1. \A s \in {Ask(i, "a", "establish", 3), Ask(i, "a", "keep", 3), Ask(i, "b", "refuseAfter", 3)} :
              s \in AskSteps /\ StepFits(s) /\ s.at = i
        BY <2>3, <3>1, <1>3
      <4> QED
        BY <3>2, <4>1, <2>2 DEF PlanFits
    <3>3. ASSUME NEW c \in choice[i],
                 plan = <<RestartStep(i), Ask(i, c, "keep", 3), Ask(i, Opposing(c), "refuseAfter", 3)>>
          PROVE  PlanFits(i, plan)
      <4>1. \A s \in {Ask(i, c, "keep", 3), Ask(i, Opposing(c), "refuseAfter", 3)} :
              s \in AskSteps /\ StepFits(s) /\ s.at = i
        BY <2>1, <2>3, <3>1, <1>3
      <4> QED
        BY <3>3, <4>1, <2>2 DEF PlanFits
    <3> QED
      BY <1>8, <2>5, <3>2, <3>3, PlansOfStages
  <2> QED
    BY <2>4, <2>5
<1>9. CASE Phase = "heal"
  <2>1. PICK c \in Lockable : plan = <<Ask(i, c, "count", Tries), Ask(i, Opposing(c), "count", Tries)>>
    BY <1>9, PlansOfStages
  <2>2. \A s \in {Ask(i, c, "count", Tries), Ask(i, Opposing(c), "count", Tries)} :
          s \in AskSteps /\ StepFits(s) /\ s.at = i
    BY <1>1, <1>2, <1>3, <1>u, <1>9, AskStep DEF StepFits, UsesIn
  <2> QED
    BY <2>1, <2>2 DEF PlanFits
<1>10. CASE Phase = "forensic"
  <2>1. i \in Honest
    BY <1>1, <1>10 DEF Visitors
  <2> DEFINE S == {Ask(i, "a", "expect", 1), Ask(i, "b", "expectNot", 1), InspectStep(i), RestartStep(i)}
  <2>2. plan \in Seq(S)
    BY <2>1, <1>10, ForensicPlans
  <2>3. \A s \in S : s \in AskSteps \cup OtherSteps /\ StepFits(s) /\ s.at = i
    BY <1>1, <1>3, <1>u, <1>10, <2>1, AskStep, OtherStep DEF StepFits, UsesIn
  <2> HIDE DEF S
  <2> QED
    BY <2>2, <2>3 DEF PlanFits
<1> QED
  BY <1>1, <1>4, <1>5, <1>6, <1>7, <1>8, <1>9, <1>10 DEF Phases

-----------------------------------------------------------------------------
(* The controller's steps keep to the stage                                *)

\* The next step is done, repeated, or replaced by another one of its kind.
GoesOn ==
  \/ todo' = todo
  \/ todo' = Tail(todo)
  \/ \E x \in AskSteps :
       x.at = todo[1].at /\ StepFits(x) /\ todo' = [todo EXCEPT ![1] = x]

LEMMA SameStage ==
  ASSUME UNCHANGED <<fixedVars, stages>>
  PROVE  Phase' = Phase /\ \A s : StepFits(s)' <=> StepFits(s)
<1>1. Phase' = Phase /\ campaign' = campaign /\ \A i : HalfOf(i)' = HalfOf(i)
  BY DEF Phase, fixedVars, HalfOf
<1>2. UsesIn(Phase)' = UsesIn(Phase)
  BY <1>1 DEF UsesIn
<1> QED
  BY <1>1, <1>2 DEF StepFits, Visitors

LEMMA StepsGoOn ==
  ASSUME CampaignTyped, StepsFit, todo # <<>>, GoesOn, UNCHANGED <<fixedVars, stages, toVisit>>
  PROVE  todo' \in Seq(AskSteps \cup OtherSteps) /\ StepsFit'
<1>1. /\ todo \in Seq(AskSteps \cup OtherSteps) /\ 1 \in DOMAIN todo
      /\ todo[1].at \notin toVisit
      /\ \A n \in DOMAIN todo : StepFits(todo[n]) /\ todo[n].at = todo[1].at
  BY DEF CampaignTyped, StepsFit
<1>2. \A s : StepFits(s)' <=> StepFits(s)
  BY SameStage
<1>3. CASE todo' = todo
  BY <1>1, <1>2, <1>3 DEF StepsFit
<1>4. CASE todo' = Tail(todo)
  <2>1. /\ todo' \in Seq(AskSteps \cup OtherSteps)
        /\ \A n \in DOMAIN todo' : todo'[n] = todo[n + 1] /\ n + 1 \in DOMAIN todo
    BY <1>1, <1>4
  <2>2. \A n \in DOMAIN todo' : StepFits(todo'[n]) /\ todo'[n].at = todo[1].at
    BY <1>1, <2>1
  <2>3. todo' # <<>> => 1 \in DOMAIN todo'
    BY <2>1
  <2>4. \A n \in DOMAIN todo' : StepFits(todo'[n]) /\ todo'[n].at = todo'[1].at
    BY <2>1, <2>2
  <2>5. todo' # <<>> => todo'[1].at \notin toVisit
    BY <1>1, <2>2, <2>3
  <2> QED
    BY <1>2, <2>1, <2>4, <2>5 DEF StepsFit
<1>5. ASSUME NEW x \in AskSteps, x.at = todo[1].at, StepFits(x), todo' = [todo EXCEPT ![1] = x]
      PROVE  todo' \in Seq(AskSteps \cup OtherSteps) /\ StepsFit'
  <2>1. todo' \in Seq(AskSteps \cup OtherSteps) /\ DOMAIN todo' = DOMAIN todo /\ todo'[1] = x
    BY <1>1, <1>5
  <2>2. \A n \in DOMAIN todo : n # 1 => todo'[n] = todo[n]
    BY <1>1, <1>5
  <2>3. \A n \in DOMAIN todo' : StepFits(todo'[n]) /\ todo'[n].at = todo'[1].at
    BY <1>1, <1>5, <2>1, <2>2
  <2> QED
    BY <1>1, <1>2, <1>5, <2>1, <2>3 DEF StepsFit
<1> QED
  BY <1>3, <1>4, <1>5 DEF GoesOn

\* Which uses a request can have in a stage.
LEMMA UsesOfStages ==
  ASSUME StepsFit, Doing("ask"), CampaignTyped, StagesRun
  PROVE  /\ todo[1] \in AskSteps /\ StepFits(todo[1]) /\ Phase # "over"
         /\ todo[1].at \in Visitors(Phase) /\ todo[1].use \in UsesIn(Phase)
         /\ todo[1].use \in {"first", "refuse"} => Phase = "first"
         /\ todo[1].use \in {"refuseAfter", "establish", "keep"} => Phase = "restart"
         /\ todo[1].use \in {"expect", "expectNot"} => Phase = "forensic" /\ trial = "forensic"
         /\ todo[1].use = "first" => campaign = "sec0082"
         /\ todo[1].use \in {"establish", "keep"} => campaign = "sec0082"
         /\ todo[1].use # "count" => todo[1].at \in Honest
<1>1. todo[1] \in AskSteps /\ 1 \in DOMAIN todo /\ todo[1].do = "ask"
  BY NextStep
<1>2. StepFits(todo[1])
  BY <1>1 DEF StepsFit
<1>3. Phase # "over" /\ todo[1].at \in Visitors(Phase) /\ todo[1].use \in UsesIn(Phase)
  BY <1>1, <1>2 DEF StepFits
<1>4. Phase \in {"first", "restart"} => campaign \in {"sec008", "sec0082"}
  BY PhaseFacts
<1> QED
  BY <1>1, <1>2, <1>3, <1>4, PhaseFacts DEF UsesIn, Visitors

LEMMA ReceivesGoesOn ==
  ASSUME CampaignTyped, StagesRun, StepsFit, Doing("ask"), NEW got \in {"share", "none"},
         NEW errors, Receives(todo[1], got, errors)
  PROVE  /\ GoesOn
         /\ choice' \in [Honest -> AtMostOneLock]
         /\ counted' \in [Lockable -> SUBSET Validators]
<1>1. /\ todo[1] \in AskSteps /\ StepFits(todo[1]) /\ todo # <<>>
      /\ todo[1].use = "first" => Phase = "first" /\ campaign = "sec0082"
      /\ todo[1].use \in {"first", "establish"} => todo[1].at \in Honest
  BY UsesOfStages, NextStep
<1>2. CASE /\ got = "none" /\ todo[1].tries > 1
           /\ todo' = [todo EXCEPT ![1] = [todo[1] EXCEPT !.tries = todo[1].tries - 1]]
           /\ UNCHANGED <<choice, counted, outcome>>
  <2> DEFINE x == [todo[1] EXCEPT !.tries = todo[1].tries - 1]
  <2>1. /\ x \in AskSteps /\ x.do = todo[1].do /\ x.at = todo[1].at /\ x.spend = todo[1].spend
        /\ x.use = todo[1].use
    BY <1>1, <1>2 DEF AskSteps
  <2>2. todo[1].do = "ask" /\ todo[1].tries # 1
    BY <1>1, <1>2 DEF AskSteps
  <2>3. StepFits(x)
    BY <1>1, <2>1, <2>2 DEF StepFits
  <2> QED
    BY <1>2, <2>1, <2>3 DEF GoesOn, CampaignTyped
<1>3. CASE got = "share" /\ todo[1].use = "first"
  <2> DEFINE x == Ask(todo[1].at, Opposing(todo[1].spend), "refuse", 1)
  <2>1. /\ x \in AskSteps /\ x.do = "ask" /\ x.at = todo[1].at /\ x.use = "refuse" /\ x.tries = 1
    BY <1>1, AskStep, SpendFacts DEF AskSteps, Uses
  <2>2. StepFits(x)
    BY <1>1, <1>3, <2>1 DEF StepFits, UsesIn, AskSteps
  <2>3. todo' = [todo EXCEPT ![1] = x]
    BY <1>3, WhatIsNext
  <2>4. choice' = [choice EXCEPT ![todo[1].at] = {todo[1].spend}]
    BY <1>3, WhatIsNext
  <2>5. counted' = [counted EXCEPT ![todo[1].spend] = counted[todo[1].spend] \cup {todo[1].at}]
    BY <1>3, WhatIsNext DEF Counting
  <2> HIDE DEF x
  <2> QED
    BY <1>1, <1>3, <2>1, <2>2, <2>3, <2>4, <2>5
       DEF GoesOn, CampaignTyped, AskSteps, AtMostOneLock, Lockable
<1>4. CASE /\ ~ (got = "share" /\ todo[1].use = "first") /\ todo' = Tail(todo)
           /\ counted' = IF got = "share" /\ Counting(todo[1].use)
                  THEN [counted EXCEPT ![todo[1].spend] = counted[todo[1].spend] \cup {todo[1].at}] ELSE counted
           /\ choice' = IF got = "share" /\ todo[1].use \in {"first", "establish"}
                   THEN [choice EXCEPT ![todo[1].at] = {todo[1].spend}] ELSE choice
  BY <1>1, <1>4 DEF GoesOn, CampaignTyped, AskSteps, AtMostOneLock, Lockable
<1> QED
  BY <1>2, <1>3, <1>4, WhatIsNext

\* A Byzantine certifier signs, an honest one whatever its file says in the end.
LEMMA AnswerEffect ==
  ASSUME CampaignTyped, FilesAreLocks, Answered
  PROVE  /\ Doing("ask") /\ todo[1].at \in alive
         /\ \/ /\ todo[1].at \in Byzantine /\ lockFile' = lockFile
               /\ Receives(todo[1], "share", ErrorOf(todo[1].use, "share"))
            \/ \E got \in {"share", "none"} :
               /\ todo[1].at \in Honest
               /\ lockFile' = [lockFile EXCEPT ![todo[1].at] =
                     IF lockFile[todo[1].at] = <<>> THEN <<todo[1].spend>> ELSE lockFile[todo[1].at]]
               /\ lockFile'[todo[1].at] \in {<<"a">>, <<"b">>}
               /\ got = "share" <=> lockFile'[todo[1].at] = <<todo[1].spend>>
               /\ Receives(todo[1], got, ErrorOf(todo[1].use, got))
<1>1. /\ Doing("ask") /\ Head(todo) = todo[1] /\ todo[1] \in AskSteps
  BY NextStep DEF Answered
<1> DEFINE i == todo[1].at
           t == todo[1].spend
<1>2. i \in Validators /\ t \in Lockable /\ i \in alive
  BY <1>1 DEF AskSteps, Answered
<1>3. CASE i \in Byzantine
  BY <1>1, <1>2, <1>3 DEF Answered
<1>4. CASE i \notin Byzantine
  <2> DEFINE got == IF locked'[i] = {t} THEN "share" ELSE "none"
  <2>1. i \in Honest /\ TakeLock(i, t) /\ Receives(todo[1], got, ErrorOf(todo[1].use, got))
    BY <1>1, <1>2, <1>4 DEF Answered, Honest
  <2>2. /\ lockFile' = [lockFile EXCEPT ![i] = IF lockFile[i] = <<>> THEN <<t>> ELSE lockFile[i]]
        /\ locked' = [locked EXCEPT ![i] = LocksIn(lockFile'[i])]
        /\ lockFile'[i] \in {<<"a">>, <<"b">>}
    BY <2>1, <1>2, TakesLock
  <2>3. locked'[i] = LocksIn(lockFile'[i])
    BY <2>1, <2>2 DEF CampaignTyped
  <2>4. locked'[i] = {t} <=> lockFile'[i] = <<t>>
    BY <1>2, <2>2, <2>3, FileFacts DEF Lockable
  <2>5. got \in {"share", "none"} /\ (got = "share" <=> lockFile'[i] = <<t>>)
    BY <2>4
  <2> HIDE DEF got
  <2> QED
    BY <1>1, <1>2, <2>1, <2>2, <2>5
<1> QED
  BY <1>3, <1>4

LEMMA ControlStep ==
  ASSUME CampaignTyped, StagesRun, VisitorsAreMembers, StepsFit, FilesAreLocks,
         [FaultNext]_faultVars
  PROVE  CampaignTyped' /\ StagesRun' /\ VisitorsAreMembers' /\ StepsFit'
<1>0. FilesTyped'
  BY FilesStep
<1>1. ASSUME UNCHANGED <<fixedVars, stages, toVisit>>, todo' \in Seq(AskSteps \cup OtherSteps),
             StepsFit', choice' \in [Honest -> AtMostOneLock],
             counted' \in [Lockable -> SUBSET Validators], unanswered' \in Nat, missed' \in Nat
      PROVE  CampaignTyped' /\ StagesRun' /\ VisitorsAreMembers' /\ StepsFit'
  <2>1. CampaignTyped'
    BY <1>0, <1>1 DEF CampaignTyped, FilesTyped, fixedVars, TrialsOf
  <2>2. StagesRun' /\ VisitorsAreMembers'
    BY <1>1, SameStage DEF StagesRun, fixedVars, VisitorsAreMembers, Visitors
  <2> QED
    BY <1>1, <2>1, <2>2
<1>2. ASSUME UNCHANGED <<fixedVars, stages, toVisit>>, GoesOn, todo # <<>>, choice' \in [Honest -> AtMostOneLock],
             counted' \in [Lockable -> SUBSET Validators], unanswered' \in Nat, missed' \in Nat
      PROVE  CampaignTyped' /\ StagesRun' /\ VisitorsAreMembers' /\ StepsFit'
  BY <1>1, <1>2, StepsGoOn
<1>3. CASE Answered
  <2>1. Doing("ask") /\ \E got \in {"share", "none"} : \E errors : Receives(todo[1], got, errors)
    BY <1>3, AnswerEffect
  <2>2. todo # <<>>
    BY <2>1, NextStep
  <2> QED
    BY <1>2, <1>3, <2>1, <2>2, ReceivesGoesOn DEF Answered, CampaignTyped
<1>4. CASE Unanswered
  <2>1. Doing("ask") /\ todo # <<>> /\ Head(todo) = todo[1]
    BY <1>4, NextStep DEF Unanswered
  <2>2. Receives(todo[1], "none", ErrorOfSilence(todo[1].use)) /\ missed' = missed + 1
        /\ unanswered' \in {unanswered, unanswered + 1} /\ UNCHANGED <<fixedVars, stages, toVisit>>
    BY <1>4, <2>1 DEF Unanswered
  <2> QED
    BY <1>2, <2>1, <2>2, ReceivesGoesOn DEF CampaignTyped
<1>5. CASE CrashRestart \/ RestartFails \/ Inspect
  <2>1. todo' = Tail(todo) /\ todo # <<>> /\ UNCHANGED <<fixedVars, stages, toVisit, choice, counted>>
        /\ missed' \in {0, missed} /\ unanswered' \in {unanswered, unanswered + 1}
    BY <1>5 DEF CrashRestart, RestartFails, Inspect, Doing
  <2> QED
    BY <1>2, <2>1 DEF GoesOn, CampaignTyped
<1>6. CASE Visit
  <2>1. stages # <<>> /\ Phase = Head(stages) /\ Phase # "over" /\ todo = <<>>
    BY <1>6, PhaseFacts DEF Visit, Pausing
  <2>2. PICK i \in toVisit : \E plan \in Visits(Phase, i) :
       /\ todo' = plan
       /\ toVisit' = IF OneVisit(Phase) THEN {} ELSE toVisit \ {i}
       /\ choice' = IF campaign = "sec008" /\ Phase = "first"
                      THEN [choice EXCEPT ![i] = {Head(plan).spend}] ELSE choice
    BY <1>6, <2>1 DEF Visit
  <2>3. PICK plan \in Visits(Phase, i) :
       /\ todo' = plan
       /\ toVisit' = IF OneVisit(Phase) THEN {} ELSE toVisit \ {i}
       /\ choice' = IF campaign = "sec008" /\ Phase = "first"
                      THEN [choice EXCEPT ![i] = {Head(plan).spend}] ELSE choice
    BY <2>2
  <2>4. PlanFits(i, plan)
    BY <2>1, PlansFit
  <2>5. UNCHANGED <<fixedVars, stages, counted, unanswered, missed>>
    BY <1>6 DEF Visit
  <2>6. toVisit' \subseteq toVisit /\ i \notin toVisit'
    BY <2>3
  <2>7. StepsFit'
    <3>1. \A n \in DOMAIN todo' : StepFits(todo'[n]) /\ todo'[n].at = i
      BY <2>3, <2>4 DEF PlanFits
    <3>2. todo' # <<>> => 1 \in DOMAIN todo'
      BY <2>3, <2>4 DEF PlanFits
    <3>3. (\A n \in DOMAIN todo' : 1 \in DOMAIN todo')
      BY <2>3, <2>4 DEF PlanFits
    <3>4. \A s : StepFits(s)' <=> StepFits(s)
      BY <2>5, SameStage
    <3> QED
      BY <2>6, <3>1, <3>2, <3>3, <3>4 DEF StepsFit
  <2>8. choice' \in [Honest -> AtMostOneLock]
    <3>1. CASE campaign = "sec008" /\ Phase = "first"
      <4>1. \E c \in Lockable : Head(plan) = Ask(i, c, "count", 1)
        BY <2>3, <3>1, PlansOfStages
      <4>2. Head(plan).spend \in Lockable
        BY <4>1 DEF Ask
      <4> QED
        BY <2>3, <3>1, <4>2 DEF CampaignTyped, AtMostOneLock, Lockable
    <3> QED
      BY <2>3, <3>1 DEF CampaignTyped
  <2>9. CampaignTyped'
    BY <1>0, <2>3, <2>4, <2>5, <2>6, <2>8 DEF CampaignTyped, FilesTyped, fixedVars, TrialsOf, PlanFits
  <2>10. StagesRun' /\ VisitorsAreMembers'
    BY <2>5, <2>6, SameStage DEF StagesRun, fixedVars, VisitorsAreMembers, Visitors
  <2> QED
    BY <2>7, <2>9, <2>10
<1>7. CASE NextStage
  <2>1. /\ stages # <<>> /\ stages' = Tail(stages) /\ todo' = <<>> /\ todo = <<>>
        /\ toVisit' = IF Tail(stages) = <<>> THEN {} ELSE Visitors(Head(Tail(stages)))
        /\ UNCHANGED <<fixedVars, choice, counted, unanswered, missed>>
    BY <1>7 DEF NextStage, Pausing
  <2>2. StagesRun' /\ Phase' = Following /\ toVisit' = IF Following = "over" THEN {} ELSE Visitors(Following)
    BY <2>1, StagesFollow
  <2>3. toVisit' \subseteq Visitors(Following) /\ toVisit' \subseteq Validators
    BY <2>2, CommitteeAssumption DEF Visitors, Honest, CommitteeAssumption
  <2>4. VisitorsAreMembers'
    BY <2>2, <2>3 DEF VisitorsAreMembers, Visitors
  <2>5. StepsFit'
    BY <2>1 DEF StepsFit
  <2>6. CampaignTyped'
    BY <1>0, <2>1, <2>3 DEF CampaignTyped, FilesTyped, fixedVars, TrialsOf
  <2> QED
    BY <2>2, <2>4, <2>5, <2>6
<1>8. CASE UNCHANGED <<fixedVars, stages, toVisit, todo, choice, counted, unanswered, missed>>
  <2>1. StepsFit'
    BY <1>8, SameStage DEF StepsFit
  <2> QED
    BY <1>1, <1>8, <2>1 DEF CampaignTyped
<1>9. ASSUME NEW i \in Honest, FinishLate(i) \/ StopOverLate(i)
      PROVE  CampaignTyped' /\ StagesRun' /\ VisitorsAreMembers' /\ StepsFit'
  BY <1>8, <1>9 DEF FinishLate, StopOverLate
<1>10. CASE EndTrial
  BY <1>8, <1>10 DEF EndTrial
<1>11. CASE UNCHANGED faultVars
  BY <1>8, <1>11 DEF faultVars, fixedVars
<1> QED
  BY <1>3, <1>4, <1>5, <1>6, <1>7, <1>9, <1>10, <1>11 DEF FaultNext

-----------------------------------------------------------------------------
(* Shares are locks                                                        *)

CountsAreFiled ==
  \A t \in Lockable : \A i \in Honest \cap counted[t] : lockFile[i] = <<t>>

ChoicesAreFiled ==
  campaign # "sec008" =>
    \A i \in Honest, t \in Lockable : choice[i] = {t} => lockFile[i] = <<t>>

LEMMA SharesAreFiled ==
  ASSUME CampaignTyped, StagesRun, StepsFit, FilesAreLocks, CountsAreFiled, ChoicesAreFiled,
         [FaultNext]_faultVars
  PROVE  CountsAreFiled' /\ ChoicesAreFiled'
<1>0. Stays
  BY FilesStep
<1>1. ASSUME UNCHANGED <<campaign, counted>>, choice' = choice \/ campaign = "sec008"
      PROVE  CountsAreFiled' /\ ChoicesAreFiled'
  BY <1>0, <1>1 DEF CountsAreFiled, ChoicesAreFiled, Stays
<1>2. CASE Answered
  <2> DEFINE i == todo[1].at
             t == todo[1].spend
  <2>1. Doing("ask") /\ i \in alive /\ campaign' = campaign
    BY <1>2, AnswerEffect DEF Answered, fixedVars
  <2>2. /\ i \in Validators /\ t \in Lockable
        /\ todo[1].use \in {"first", "establish"} => i \in Honest
    BY <2>1, UsesOfStages DEF AskSteps
  <2>3. CASE i \in Byzantine
    <3>1. i \notin Honest
      BY <2>3 DEF Honest
    <3>2. Receives(todo[1], "share", ErrorOf(todo[1].use, "share"))
      BY <1>2, <2>3, <3>1, AnswerEffect
    <3>3. /\ choice' = choice
          /\ \A s \in Lockable : counted'[s] \subseteq counted[s] \cup {i}
      BY <2>1, <2>2, <3>1, <3>2, WhatIsNext DEF CampaignTyped
    <3> QED
      BY <1>0, <2>1, <3>1, <3>3 DEF CountsAreFiled, ChoicesAreFiled, Stays
  <2>4. CASE i \notin Byzantine
    <3>1. PICK got \in {"share", "none"} :
               /\ got = "share" <=> lockFile'[i] = <<t>>
               /\ Receives(todo[1], got, ErrorOf(todo[1].use, got))
      BY <1>2, <2>4, AnswerEffect
    <3>2. i \in Honest
      BY <2>2, <2>4 DEF Honest
    <3>3. CASE got = "none"
      <4>1. choice' = choice /\ counted' = counted
        BY <2>1, <3>1, <3>3, WhatIsNext
      <4> QED
        BY <1>1, <2>1, <4>1
    <3>4. CASE got = "share"
      <4>1. lockFile'[i] = <<t>>
        BY <3>1, <3>4
      <4>2. /\ counted' \in {counted, [counted EXCEPT ![t] = counted[t] \cup {i}]}
            /\ choice' \in {choice, [choice EXCEPT ![i] = {t}]}
        BY <2>1, <3>1, <3>4, WhatIsNext
      <4>3. \A s \in Lockable : \A j \in Honest \cap counted'[s] : j \in counted[s] \/ (j = i /\ s = t)
        BY <2>2, <4>2 DEF CampaignTyped
      <4>4. \A j \in Honest, s \in Lockable : choice'[j] = {s} => choice[j] = {s} \/ (j = i /\ s = t)
        BY <2>2, <3>2, <4>2 DEF CampaignTyped
      <4> HIDE DEF i, t
      <4> QED
        BY <1>0, <2>1, <4>1, <4>3, <4>4 DEF CountsAreFiled, ChoicesAreFiled, Stays
    <3> QED
      BY <3>3, <3>4
  <2> QED
    BY <2>3, <2>4
<1>3. CASE Unanswered
  <2>1. /\ Doing("ask") /\ Receives(todo[1], "none", ErrorOfSilence(todo[1].use))
        /\ campaign' = campaign
    BY <1>3, NextStep DEF Unanswered, fixedVars
  <2>2. choice' = choice /\ counted' = counted
    BY <2>1, WhatIsNext
  <2> QED
    BY <1>1, <2>1, <2>2
<1>4. ASSUME NEW i \in Honest, FinishLate(i) \/ StopOverLate(i)
      PROVE  CountsAreFiled' /\ ChoicesAreFiled'
  BY <1>1, <1>4 DEF FinishLate, StopOverLate, fixedVars
<1>5. CASE Visit
  <2>1. choice' = choice \/ campaign = "sec008"
    BY <1>5 DEF Visit
  <2> QED
    BY <1>1, <1>5, <2>1 DEF Visit, fixedVars
<1>6. CASE CrashRestart \/ RestartFails \/ Inspect \/ NextStage \/ EndTrial \/ UNCHANGED faultVars
  BY <1>1, <1>6 DEF CrashRestart, RestartFails, Inspect, NextStage, EndTrial, fixedVars, faultVars
<1> QED
  BY <1>2, <1>3, <1>4, <1>5, <1>6 DEF FaultNext

\* Two spends of the coin are never both final.
LEMMA OneSpendIsFinal ==
  ASSUME CountsAreFiled
  PROVE  ~ (IsQuorum(counted["a"]) /\ IsQuorum(counted["b"]))
<1> SUFFICES ASSUME IsQuorum(counted["a"]), IsQuorum(counted["b"]) PROVE FALSE
  OBVIOUS
<1>1. PICK i \in Honest : i \in counted["a"] /\ i \in counted["b"]
  BY QuorumsShareHonest
<1>2. lockFile[i] = <<"a">> /\ lockFile[i] = <<"b">>
  BY <1>1 DEF CountsAreFiled, Lockable
<1> QED
  BY <1>2, FileFacts

-----------------------------------------------------------------------------
(* Quiet trials                                                            *)

Quiet == unanswered = 0

\* As long as every request is answered, everyone is up and no one is late.
QuietMeansUp == Quiet => alive = Validators /\ \A i \in Honest : late[i] = {}

LEMMA QuietStep ==
  ASSUME CampaignTyped, FilesAreLocks, QuietMeansUp, [FaultNext]_faultVars, Quiet'
  PROVE  /\ Quiet /\ QuietMeansUp'
         /\ \/ Answered \/ Inspect \/ Visit \/ NextStage \/ EndTrial \/ UNCHANGED faultVars
            \/ CrashRestart /\ UNCHANGED <<lockFile, outcome>>
         /\ ~ Answered => UNCHANGED lockFile
<1>1. ASSUME NEW i \in Honest, FinishLate(i) \/ StopOverLate(i) PROVE FALSE
  <2>1. late[i] # {} /\ unanswered' = unanswered
    BY <1>1 DEF FinishLate, StopOverLate
  <2> QED
    BY <2>1 DEF QuietMeansUp, Quiet
<1>2. CASE Unanswered
  <2>1. Doing("ask") /\ Head(todo) = todo[1] /\ todo[1].at \in Validators
    BY <1>2, NextStep DEF Unanswered, AskSteps
  <2>2. \/ todo[1].at \notin alive /\ unanswered' = unanswered
        \/ unanswered' = unanswered + 1
    BY <1>2, <2>1 DEF Unanswered
  <2> QED
    BY <2>1, <2>2 DEF QuietMeansUp, Quiet, CampaignTyped
<1>3. CASE CrashRestart
  <2>1. Doing("restart") /\ "restart" # "ask" /\ unanswered' = unanswered
    BY <1>3 DEF CrashRestart
  <2>2. todo[1] \in OtherSteps /\ Head(todo) = todo[1]
    BY <2>1, NextStep
  <2> DEFINE i == todo[1].at
  <2>3. i \in Honest /\ i \in Validators /\ Quiet /\ alive = Validators /\ late[i] = {}
    BY <2>1, <2>2 DEF OtherSteps, Honest, QuietMeansUp, Quiet
  <2>4. lockFile[i] # <<"torn">> /\ lockFile[i] \in LockFiles
    BY <2>3 DEF FilesAreLocks, CampaignTyped
  <2>5. Opened(lockFile[i]) = {lockFile[i]}
    BY <2>4, WhatIsOpened
  <2>6. Interrupted(i) = {lockFile[i]}
    BY <2>3 DEF Interrupted
  <2>7. /\ lockFile' = [lockFile EXCEPT ![i] = lockFile[i]]
        /\ alive' = alive \cup {i} /\ UNCHANGED outcome /\ late' = [late EXCEPT ![i] = {}]
    <3>1. \E left \in {lockFile[i]} :
          IF Opened(left) = {}
            THEN /\ lockFile' = [lockFile EXCEPT ![i] = left]
                 /\ alive' = alive \ {i} /\ locked' = [locked EXCEPT ![i] = {}]
                 /\ outcome' = "not ready"
            ELSE \E f \in Opened(left) :
                 /\ lockFile' = [lockFile EXCEPT ![i] = f]
                 /\ locked' = [locked EXCEPT ![i] = {f[n] : n \in DOMAIN f}]
                 /\ alive' = alive \cup {i} /\ UNCHANGED outcome
      BY <1>3, <2>2, <2>6 DEF CrashRestart
    <3>2. late' = [late EXCEPT ![i] = {}]
      BY <1>3, <2>2 DEF CrashRestart
    <3> QED
      BY <3>1, <3>2, <2>5
  <2>8. lockFile' = lockFile /\ alive' = alive /\ \A j \in Honest : late'[j] = {}
    BY <2>3, <2>7 DEF CampaignTyped, QuietMeansUp
  <2> QED
    BY <1>3, <2>1, <2>3, <2>7, <2>8 DEF QuietMeansUp, Quiet
<1>4. CASE Answered \/ Inspect \/ Visit \/ NextStage \/ EndTrial \/ UNCHANGED faultVars
  <2>1. UNCHANGED <<alive, late, unanswered>> /\ (~ Answered => UNCHANGED lockFile)
    BY <1>4 DEF Answered, Inspect, Visit, NextStage, EndTrial, faultVars
  <2> QED
    BY <1>4, <2>1 DEF QuietMeansUp, Quiet
<1>5. CASE RestartFails
  <2>1. unanswered \in Nat /\ unanswered' = unanswered + 1 /\ unanswered' = 0
    BY <1>5 DEF RestartFails, Quiet, CampaignTyped
  <2> QED
    BY <2>1
<1> QED
  BY <1>1, <1>2, <1>3, <1>4, <1>5 DEF FaultNext

LEMMA QuietMeansUpStep ==
  ASSUME CampaignTyped, FilesAreLocks, QuietMeansUp, [FaultNext]_faultVars
  PROVE  QuietMeansUp'
<1>1. CASE Quiet'
  BY <1>1, QuietStep
<1>2. CASE ~ Quiet'
  BY <1>2 DEF QuietMeansUp
<1> QED
  BY <1>1, <1>2

-----------------------------------------------------------------------------
(* What the controller's steps are founded on                              *)

\* A refusal is expected where the other spend is locked, or, in SEC-008, was to be
\* locked; a share of a lock that must have been kept, where it was locked.
Founded(s, files, chosen) ==
  /\ s.use = "refuse" /\ campaign = "sec0082" => files[s.at] = <<Opposing(s.spend)>>
  /\ s.use \in {"refuse", "refuseAfter"} /\ campaign = "sec008" =>
       chosen[s.at] = {Opposing(s.spend)}
  /\ s.use = "refuseAfter" /\ campaign = "sec0082" => files[s.at] = <<Opposing(s.spend)>>
  /\ s.use = "keep" => files[s.at] = <<s.spend>>

\* Or on the lock that the first step of the plan establishes.
FoundedOn(first, s) ==
  /\ first.do = "ask" /\ first.use = "establish"
  /\ s.spend = IF s.use = "refuseAfter" THEN Opposing(first.spend) ELSE first.spend

StepsAreFounded ==
  outcome = "running" =>
    \A n \in DOMAIN todo : todo[n].do = "ask" =>
      /\ Founded(todo[n], lockFile, choice) \/ FoundedOn(todo[1], todo[n])
      /\ todo[n].use = "establish" => n = 1

LEMMA UsesOfSteps ==
  ASSUME CampaignTyped, StagesRun, StepsFit, NEW n \in DOMAIN todo, todo[n].do = "ask"
  PROVE  /\ todo[n] \in AskSteps /\ todo[n].at = todo[1].at
         /\ todo[n].use # "count" => todo[n].at \in Honest
         /\ todo[n].use \in {"first", "refuse"} => Phase = "first"
         /\ todo[n].use \in {"refuseAfter", "establish", "keep"} => Phase = "restart"
         /\ todo[n].use \in {"first", "establish", "keep"} => campaign = "sec0082"
<1>1. todo[n] \in AskSteps
  <2>1. todo[n] \in AskSteps \cup OtherSteps
    BY DEF CampaignTyped
  <2> QED
    BY <2>1 DEF OtherSteps
<1>2. StepFits(todo[n]) /\ todo[n].at = todo[1].at
  BY DEF StepsFit
<1>3. Phase # "over" /\ todo[n].at \in Visitors(Phase) /\ todo[n].use \in UsesIn(Phase)
  BY <1>2 DEF StepFits
<1>4. Phase \in {"first", "restart"} => campaign \in {"sec008", "sec0082"}
  BY PhaseFacts
<1> QED
  BY <1>1, <1>2, <1>3, <1>4 DEF UsesIn, Visitors

\* Nothing takes the foundation away.
LEMMA FoundedStays ==
  ASSUME Stays, campaign' = campaign, choice' = choice \/ campaign = "sec0082",
         NEW s \in AskSteps, s.use # "count" => s.at \in Honest, Founded(s, lockFile, choice)
  PROVE  Founded(s, lockFile', choice')
<1>1. s.spend \in Lockable /\ Opposing(s.spend) \in Lockable
  BY SpendFacts DEF AskSteps
<1> QED
  BY <1>1 DEF Founded, Stays

LEMMA ErrorFacts ==
  /\ ErrorOf("establish", "none") = {"no witness"}
  /\ ErrorOf("refuse", "share") = {"double signed"} /\ ErrorOf("expectNot", "share") = {"double signed"}
  /\ ErrorOf("refuseAfter", "share") = {"lock lost"} /\ ErrorOf("keep", "none") = {"lock lost"}
  /\ ErrorOf("expect", "none") = {"rejected"}
  /\ \A use \in Uses \ {"refuse", "expectNot", "refuseAfter"} : ErrorOf(use, "share") = {}
  /\ \A use \in Uses \ {"keep", "establish", "expect"} : ErrorOf(use, "none") = {}
  /\ \A x : (CHOOSE e \in {x} : TRUE) = x /\ {x} # {}
BY DEF ErrorOf, Uses

\* A request that is done with, when all goes on.
LEMMA ReceivedFounded ==
  ASSUME CampaignTyped, StagesRun, StepsFit, StepsAreFounded, Doing("ask"), Stays,
         UNCHANGED fixedVars,
         NEW got \in {"share", "none"}, NEW errors, Receives(todo[1], got, errors),
         got = "none" /\ campaign = "sec0082" => errors = ErrorOf(todo[1].use, "none"),
         got = "share" /\ todo[1].at \in Honest => lockFile'[todo[1].at] = <<todo[1].spend>>
  PROVE  StepsAreFounded'
<1> SUFFICES ASSUME outcome' = "running", NEW n \in DOMAIN todo', todo'[n].do = "ask"
             PROVE  /\ Founded(todo'[n], lockFile', choice') \/ FoundedOn(todo'[1], todo'[n])
                    /\ todo'[n].use = "establish" => n = 1
  BY DEF StepsAreFounded, Founded, FoundedOn, fixedVars
<1>0. /\ outcome = "running" /\ campaign' = campaign /\ 1 \in DOMAIN todo /\ todo[1] \in AskSteps
      /\ todo[1].do = "ask" /\ todo # <<>> /\ todo \in Seq(AskSteps \cup OtherSteps)
  BY NextStep DEF Doing, fixedVars, CampaignTyped
<1>1. \A m \in DOMAIN todo : todo[m].do = "ask" =>
        /\ Founded(todo[m], lockFile, choice) \/ FoundedOn(todo[1], todo[m])
        /\ todo[m].use = "establish" => m = 1
        /\ todo[m] \in AskSteps /\ (todo[m].use # "count" => todo[m].at \in Honest)
        /\ todo[m].at = todo[1].at
  BY <1>0, UsesOfSteps DEF StepsAreFounded
<1>2. choice' = choice \/ campaign = "sec0082"
  BY <1>0, WhatIsNext, UsesOfStages
<1>3. \A m \in DOMAIN todo : todo[m].do = "ask" /\ Founded(todo[m], lockFile, choice) => Founded(todo[m], lockFile', choice')
  BY <1>0, <1>1, <1>2, FoundedStays
<1>4. CASE todo' = [todo EXCEPT ![1] = [todo[1] EXCEPT !.tries = todo[1].tries - 1]]
  <2> DEFINE x == [todo[1] EXCEPT !.tries = todo[1].tries - 1]
  <2>1. /\ x.do = "ask" /\ x.use = todo[1].use /\ x.at = todo[1].at /\ x.spend = todo[1].spend
    BY <1>0 DEF AskSteps
  <2>2. /\ DOMAIN todo' = DOMAIN todo /\ todo'[1] = x
        /\ \A m \in DOMAIN todo : m # 1 => todo'[m] = todo[m]
    BY <1>0, <1>4
  <2>3. /\ todo[n].do = "ask" /\ todo'[n].use = todo[n].use /\ todo'[n].at = todo[n].at
        /\ todo'[n].spend = todo[n].spend
    BY <1>0, <2>1, <2>2
  <2> HIDE DEF x
  <2>4. CASE Founded(todo[n], lockFile, choice)
    <3>1. Founded(todo[n], lockFile', choice')
      BY <1>3, <2>2, <2>3, <2>4
    <3>2. Founded(todo'[n], lockFile', choice')
      BY <2>3, <3>1 DEF Founded
    <3> QED
      BY <1>1, <2>2, <2>3, <3>2
  <2>5. CASE FoundedOn(todo[1], todo[n])
    <3>1. FoundedOn(todo'[1], todo'[n])
      BY <2>1, <2>2, <2>3, <2>5 DEF FoundedOn
    <3> QED
      BY <1>1, <2>2, <2>3, <3>1
  <2> QED
    BY <1>1, <2>2, <2>3, <2>4, <2>5
<1>5. CASE /\ got = "share" /\ todo[1].use = "first"
           /\ todo' = [todo EXCEPT ![1] = Ask(todo[1].at, Opposing(todo[1].spend), "refuse", 1)]
  <2> DEFINE x == Ask(todo[1].at, Opposing(todo[1].spend), "refuse", 1)
  <2>1. /\ x.do = "ask" /\ x.use = "refuse" /\ x.at = todo[1].at /\ Opposing(x.spend) = todo[1].spend
    BY <1>0, AskStep, SpendFacts DEF AskSteps, Uses
  <2>2. /\ DOMAIN todo' = DOMAIN todo /\ todo'[1] = x
        /\ \A m \in DOMAIN todo : m # 1 => todo'[m] = todo[m]
    BY <1>0, <1>5
  <2>3. campaign = "sec0082" /\ lockFile'[todo[1].at] = <<todo[1].spend>>
    BY <1>5, UsesOfStages
  <2> HIDE DEF x
  <2>4. CASE n = 1
    <3>1. Founded(x, lockFile', choice')
      BY <1>0, <2>1, <2>3 DEF Founded
    <3> QED
      BY <2>1, <2>2, <2>4, <3>1
  <2>5. CASE n # 1
    <3>1. n \in DOMAIN todo /\ todo'[n] = todo[n] /\ ~ FoundedOn(todo[1], todo[n])
      BY <1>5, <2>2, <2>5 DEF FoundedOn
    <3>2. Founded(todo[n], lockFile', choice')
      BY <1>1, <1>3, <3>1
    <3>3. Founded(todo'[n], lockFile', choice')
      BY <3>1, <3>2
    <3> QED
      BY <1>1, <3>1, <3>3
  <2> QED
    BY <2>4, <2>5
<1>6. CASE /\ todo' = Tail(todo) /\ outcome' = IF errors = {} THEN outcome ELSE CHOOSE e \in errors : TRUE
  <2>1. todo'[n] = todo[n + 1] /\ n + 1 \in DOMAIN todo /\ n + 1 # 1
    BY <1>0, <1>6
  <2>2. todo[n + 1].do = "ask" /\ todo[n + 1].use # "establish"
    BY <1>1, <2>1
  <2>3. CASE Founded(todo[n + 1], lockFile, choice)
    <3>1. Founded(todo[n + 1], lockFile', choice')
      BY <1>3, <2>1, <2>2, <2>3
    <3>2. Founded(todo'[n], lockFile', choice')
      BY <2>1, <3>1
    <3> QED
      BY <2>1, <2>2, <3>2
  <2>4. CASE FoundedOn(todo[1], todo[n + 1])
    <3>1. todo[1].use = "establish" /\ campaign = "sec0082" /\ todo[1].at \in Honest
      BY <1>0, <1>1, <2>4, UsesOfSteps DEF FoundedOn
    <3>2. got = "share"
      <4> SUFFICES ASSUME got = "none" PROVE FALSE
        OBVIOUS
      <4>1. errors = {"no witness"}
        BY <3>1, ErrorFacts
      <4> QED
        BY <1>6, <4>1, ErrorFacts
    <3>3. lockFile'[todo[n + 1].at] = <<todo[1].spend>> /\ todo[1].spend \in Lockable /\ todo[n + 1].spend \in Lockable
      BY <1>0, <1>1, <2>1, <2>2, <3>1, <3>2 DEF AskSteps
    <3>4. /\ todo[n + 1].use # "refuseAfter" => todo[n + 1].spend = todo[1].spend
          /\ todo[n + 1].use = "refuseAfter" => todo[1].spend = Opposing(todo[n + 1].spend)
      BY <2>4, <3>3, SpendFacts DEF FoundedOn
    <3>5. todo[n + 1].use # "refuse"
      <4>1. Phase = "restart"
        BY <1>0, <3>1, UsesOfSteps
      <4> QED
        BY <4>1, <2>1, <2>2, UsesOfSteps
    <3>6. Founded(todo'[n], lockFile', choice')
      BY <1>0, <2>1, <3>1, <3>3, <3>4, <3>5 DEF Founded
    <3> QED
      BY <2>1, <2>2, <3>6
  <2> QED
    BY <1>1, <2>1, <2>2, <2>3, <2>4
<1> QED
  BY <1>4, <1>5, <1>6, WhatIsNext

\* A new plan is founded on the choices and the locks there are.
LEMMA PlanIsFounded ==
  ASSUME CampaignTyped, StagesRun, VisitorsAreMembers, Phase # "over", ChoicesAreFiled,
         NEW i \in toVisit, NEW plan \in Visits(Phase, i),
         choice' = IF campaign = "sec008" /\ Phase = "first"
                      THEN [choice EXCEPT ![i] = {Head(plan).spend}] ELSE choice,
         NEW n \in DOMAIN plan, plan[n].do = "ask"
  PROVE  /\ Founded(plan[n], lockFile, choice') \/ FoundedOn(plan[1], plan[n])
         /\ plan[n].use = "establish" => n = 1
<1>1. /\ Phase \in Phases /\ i \in Visitors(Phase) /\ i \in Validators /\ PlanFits(i, plan)
      /\ Phase \in {"first", "restart"} => campaign \in {"sec008", "sec0082"}
  BY PhaseFacts, PlansFit DEF VisitorsAreMembers, CampaignTyped
<1>2. /\ "refuse" \in Uses /\ "count" \in Uses /\ "first" \in Uses /\ "refuseAfter" \in Uses
      /\ "keep" \in Uses /\ "establish" \in Uses
  BY DEF Uses
<1>3. CASE Phase \notin {"first", "restart"}
  <2>1. plan[n].use \in UsesIn(Phase)
    BY <1>1 DEF PlanFits, StepFits
  <2>2. plan[n].use \notin {"refuse", "refuseAfter", "keep", "establish"}
    BY <1>3, <2>1 DEF UsesIn
  <2> QED
    BY <2>2 DEF Founded
<1>4. CASE Phase = "first"
  <2>0. i \in Honest
    BY <1>1, <1>4 DEF Visitors
  <2>1. CASE campaign = "sec008"
    <3>1. PICK c \in Lockable :
                plan \in {<<Ask(i, c, "count", 1), Ask(i, Opposing(c), "refuse", 1)>>,
                          <<Ask(i, c, "count", 1), Ask(i, c, "count", 1),
                            Ask(i, Opposing(c), "refuse", 1)>>}
      BY <1>4, <2>1, PlansOfStages
    <3>2. Head(plan) = Ask(i, c, "count", 1)
      BY <3>1
    <3>3. plan[n] \in {Ask(i, c, "count", 1), Ask(i, Opposing(c), "refuse", 1)}
      BY <3>1
    <3>4. Head(plan).spend = c
      BY <3>2 DEF Ask
    <3>5. choice'[i] = {c}
      BY <1>4, <2>0, <2>1, <3>4 DEF CampaignTyped
    <3>6. CASE plan[n] = Ask(i, c, "count", 1)
      <4>1. plan[n].use = "count"
        BY <3>6, <1>1, <1>2, AskStep
      <4> QED
        BY <4>1 DEF Founded
    <3>7. CASE plan[n] = Ask(i, Opposing(c), "refuse", 1)
      <4>1. plan[n].use = "refuse" /\ plan[n].at = i /\ Opposing(plan[n].spend) = c
        BY <3>7, <1>1, <1>2, AskStep, SpendFacts
      <4> QED
        BY <2>1, <3>5, <4>1 DEF Founded
    <3> QED
      BY <3>3, <3>6, <3>7
  <2>2. CASE campaign = "sec0082"
    <3>1. \E c \in Lockable : plan[n] \in {Ask(i, c, "first", 1), Ask(i, c, "count", 1)}
      <4>1. \/ plan = <<>>
            \/ \E c \in Lockable : plan = <<Ask(i, c, "first", 1)>>
            \/ \E c \in Lockable : plan = <<Ask(i, c, "first", 1), Ask(i, c, "count", 1)>>
        BY <1>4, <2>2, PlansOfStages
      <4> QED
        BY <4>1
    <3>2. plan[n].use \in {"first", "count"}
      BY <3>1, <1>1, <1>2, AskStep
    <3> QED
      BY <3>2 DEF Founded
  <2> QED
    BY <1>1, <1>4, <2>1, <2>2
<1>5. CASE Phase = "restart"
  <2>0. i \in Honest /\ choice' = choice
    BY <1>1, <1>5 DEF Visitors
  <2>1. \A c \in choice[i] : choice[i] = {c} /\ c \in Lockable
    BY <2>0 DEF CampaignTyped, AtMostOneLock, Lockable
  <2>2. RestartStep(i).do # "ask"
    BY <2>0, OtherStep
  <2>3. CASE campaign = "sec008"
    <3>1. PICK c \in choice[i] : plan = <<RestartStep(i), Ask(i, Opposing(c), "refuseAfter", 1)>>
      BY <1>5, <2>3, PlansOfStages
    <3>2. plan[n] = Ask(i, Opposing(c), "refuseAfter", 1)
      BY <2>2, <3>1
    <3>3. plan[n].use = "refuseAfter" /\ plan[n].at = i /\ Opposing(plan[n].spend) = c
      BY <2>1, <3>2, <1>1, <1>2, AskStep, SpendFacts
    <3> QED
      BY <2>0, <2>1, <2>3, <3>3 DEF Founded
  <2>4. CASE campaign = "sec0082"
    <3>1. CASE plan = <<Ask(i, "a", "establish", 3), RestartStep(i),
                        Ask(i, "a", "keep", 3), Ask(i, "b", "refuseAfter", 3)>>
      <4>1. /\ \/ n = 1 /\ plan[n] = Ask(i, "a", "establish", 3)
               \/ plan[n] = Ask(i, "a", "keep", 3)
               \/ plan[n] = Ask(i, "b", "refuseAfter", 3)
            /\ plan[1] = Ask(i, "a", "establish", 3)
        BY <2>2, <3>1
      <4>2. plan[1].do = "ask" /\ plan[1].use = "establish" /\ plan[1].spend = "a"
        BY <4>1, <1>1, <1>2, AskStep, SpendFacts
      <4>3. \/ n = 1 /\ plan[n].use = "establish"
            \/ plan[n].use = "keep" /\ plan[n].spend = "a"
            \/ plan[n].use = "refuseAfter" /\ plan[n].spend = "b"
        BY <4>1, <1>1, <1>2, AskStep, SpendFacts
      <4>4. CASE n = 1 /\ plan[n].use = "establish"
        BY <4>4 DEF Founded
      <4>5. CASE plan[n].use = "keep" /\ plan[n].spend = "a"
        BY <4>2, <4>5 DEF FoundedOn
      <4>6. CASE plan[n].use = "refuseAfter" /\ plan[n].spend = "b"
        BY <4>2, <4>6 DEF FoundedOn, Opposing
      <4> QED
        BY <4>3, <4>4, <4>5, <4>6
    <3>2. ASSUME NEW c \in choice[i],
                 plan = <<RestartStep(i), Ask(i, c, "keep", 3), Ask(i, Opposing(c), "refuseAfter", 3)>>
          PROVE  Founded(plan[n], lockFile, choice') /\ plan[n].use # "establish"
      <4>1. plan[n] = Ask(i, c, "keep", 3) \/ plan[n] = Ask(i, Opposing(c), "refuseAfter", 3)
        BY <2>2, <3>2
      <4>2. /\ plan[n].at = i
            /\ \/ plan[n].use = "keep" /\ plan[n].spend = c
               \/ plan[n].use = "refuseAfter" /\ Opposing(plan[n].spend) = c
        BY <4>1, <2>1, <1>1, <1>2, AskStep, SpendFacts
      <4>3. lockFile[i] = <<c>>
        BY <2>0, <2>1, <2>4 DEF ChoicesAreFiled
      <4> QED
        BY <2>4, <4>2, <4>3 DEF Founded
    <3> QED
      BY <1>5, <2>4, <3>1, <3>2, PlansOfStages
  <2> QED
    BY <1>1, <1>5, <2>3, <2>4
<1> QED
  BY <1>1, <1>3, <1>4, <1>5

LEMMA FoundedStep ==
  ASSUME CampaignTyped, StagesRun, VisitorsAreMembers, StepsFit, FilesAreLocks, ChoicesAreFiled,
         StepsAreFounded, [FaultNext]_faultVars
  PROVE  StepsAreFounded'
<1>0. Stays
  BY FilesStep
<1>1. ASSUME UNCHANGED <<campaign, todo, outcome, choice>> PROVE StepsAreFounded'
  <2> SUFFICES ASSUME outcome = "running", NEW n \in DOMAIN todo, todo[n].do = "ask"
               PROVE  /\ Founded(todo[n], lockFile', choice') \/ FoundedOn(todo[1], todo[n])
                      /\ todo[n].use = "establish" => n = 1
    BY <1>1 DEF StepsAreFounded, Founded, FoundedOn
  <2> QED
    BY <1>0, <1>1, UsesOfSteps, FoundedStays DEF StepsAreFounded
<1>2. CASE Answered
  <2>1. Doing("ask") /\ UNCHANGED fixedVars
    BY <1>2, AnswerEffect DEF Answered
  <2>2. PICK got \in {"share", "none"} :
               /\ got = "share" /\ todo[1].at \in Honest => lockFile'[todo[1].at] = <<todo[1].spend>>
               /\ Receives(todo[1], got, ErrorOf(todo[1].use, got))
    BY <1>2, AnswerEffect DEF Honest
  <2> QED
    BY <1>0, <2>1, <2>2, ReceivedFounded
<1>3. CASE Unanswered
  <2>1. Doing("ask") /\ UNCHANGED fixedVars /\ Receives(todo[1], "none", ErrorOfSilence(todo[1].use))
    BY <1>3, NextStep DEF Unanswered
  <2>2. campaign = "sec0082" => ErrorOfSilence(todo[1].use) = ErrorOf(todo[1].use, "none")
    BY DEF ErrorOfSilence
  <2> QED
    BY <1>0, <2>1, <2>2, ReceivedFounded
<1>4. CASE CrashRestart \/ RestartFails \/ Inspect
  <2> SUFFICES ASSUME outcome' = "running", NEW n \in DOMAIN todo', todo'[n].do = "ask"
               PROVE  Founded(todo'[n], lockFile', choice') /\ todo'[n].use # "establish"
    BY <1>4 DEF StepsAreFounded, Founded, FoundedOn, fixedVars, CrashRestart, RestartFails, Inspect
  <2>1. /\ todo' = Tail(todo) /\ choice' = choice /\ campaign' = campaign
        /\ Doing("restart") \/ Doing("inspect")
    BY <1>4 DEF CrashRestart, RestartFails, Inspect, fixedVars
  <2>2. /\ todo[1].do # "ask" /\ outcome = "running" /\ todo'[n] = todo[n + 1]
        /\ n + 1 \in DOMAIN todo /\ n + 1 # 1
    BY <2>1, NextStep DEF Doing
  <2>3. todo[n + 1].do = "ask" /\ Founded(todo[n + 1], lockFile, choice) /\ todo[n + 1].use # "establish"
    BY <2>2 DEF StepsAreFounded, FoundedOn
  <2> QED
    BY <1>0, <2>1, <2>2, <2>3, UsesOfSteps, FoundedStays
<1>5. CASE Visit
  <2>1. stages # <<>> /\ Phase = Head(stages) /\ Phase # "over"
    BY <1>5, PhaseFacts DEF Visit, Pausing
  <2>2. UNCHANGED <<campaign, lockFile>>
    BY <1>5 DEF Visit, fixedVars
  <2>3. \E i \in toVisit : \E plan \in Visits(Phase, i) :
       /\ todo' = plan
       /\ choice' = IF campaign = "sec008" /\ Phase = "first"
                      THEN [choice EXCEPT ![i] = {Head(plan).spend}] ELSE choice
    BY <1>5, <2>1 DEF Visit
  <2>4. \A n \in DOMAIN todo' : todo'[n].do = "ask" =>
      /\ Founded(todo'[n], lockFile, choice') \/ FoundedOn(todo'[1], todo'[n])
      /\ todo'[n].use = "establish" => n = 1
    BY <2>1, <2>3, PlanIsFounded
  <2> QED
    BY <2>2, <2>4 DEF StepsAreFounded, Founded
<1>6. CASE NextStage
  <2>1. todo' = <<>>
    BY <1>6 DEF NextStage, Pausing
  <2> QED
    BY <2>1 DEF StepsAreFounded
<1>7. CASE EndTrial
  <2>1. todo' = <<>>
    BY <1>7 DEF EndTrial
  <2> QED
    BY <2>1 DEF StepsAreFounded
<1>8. ASSUME NEW i \in Honest, FinishLate(i) \/ StopOverLate(i) PROVE StepsAreFounded'
  BY <1>1, <1>8 DEF FinishLate, StopOverLate, fixedVars
<1>9. CASE UNCHANGED faultVars
  BY <1>1, <1>9 DEF faultVars
<1> QED
  BY <1>2, <1>3, <1>4, <1>5, <1>6, <1>7, <1>8, <1>9 DEF FaultNext

-----------------------------------------------------------------------------
(* The forensic trial                                                      *)

\* A trial stays what it is, and a result is the end of it.
LEMMA TrialGoesOn ==
  ASSUME [FaultNext]_faultVars
  PROVE  /\ campaign' = campaign /\ trial' = trial /\ firstHalf' = firstHalf
         /\ outcome # "running" =>
              UNCHANGED <<stages, toVisit, todo, choice, counted, unanswered, missed, outcome>>
<1>1. CASE \E i \in Honest : FinishLate(i) \/ StopOverLate(i)
  BY <1>1 DEF FinishLate, StopOverLate, fixedVars
<1>2. CASE Answered \/ Unanswered
  BY <1>2 DEF Answered, Unanswered, Doing, fixedVars
<1>3. CASE CrashRestart \/ RestartFails \/ Inspect
  BY <1>3 DEF CrashRestart, RestartFails, Inspect, Doing, fixedVars
<1>4. CASE Visit \/ NextStage \/ EndTrial
  BY <1>4 DEF Visit, NextStage, EndTrial, Pausing, fixedVars
<1>5. CASE UNCHANGED faultVars
  BY <1>5 DEF faultVars
<1> QED
  BY <1>1, <1>2, <1>3, <1>4, <1>5 DEF FaultNext

\* The steps of a plan stay with the certifier that is visited.
LEMMA SamePlan ==
  ASSUME CampaignTyped, StepsFit, todo # <<>>, todo' = Tail(todo), todo' # <<>>
  PROVE  /\ 1 \in DOMAIN todo /\ 2 \in DOMAIN todo /\ todo'[1] = todo[2]
         /\ todo[2].at = todo[1].at /\ Len(todo') = Len(todo) - 1
<1>1. todo \in Seq(AskSteps \cup OtherSteps)
  BY DEF CampaignTyped
<1>2. 1 \in DOMAIN todo /\ 2 \in DOMAIN todo /\ todo'[1] = todo[2] /\ Len(todo') = Len(todo) - 1
  BY <1>1
<1> QED
  BY <1>2 DEF StepsFit

\* A forensic trial ends with the first request that goes unanswered.  Until then the
\* certifier locks what it is asked to sign before anything else is asked of it.
ForensicsAreQuiet ==
  trial = "forensic" /\ outcome = "running" =>
    /\ Quiet
    /\ \A i \in Honest : lockFile[i] \in {<<>>, <<"a">>}
    /\ todo # <<>> => \/ lockFile[todo[1].at] = <<"a">>
                      \/ todo[1].do = "ask" /\ todo[1].use = "expect"

LEMMA ForensicStep ==
  ASSUME CampaignTyped, StagesRun, VisitorsAreMembers, StepsFit, FilesAreLocks, QuietMeansUp,
         ForensicsAreQuiet, [FaultNext]_faultVars
  PROVE  ForensicsAreQuiet'
<1> SUFFICES ASSUME trial' = "forensic", outcome' = "running"
             PROVE  /\ Quiet'
                    /\ \A i \in Honest : lockFile'[i] \in {<<>>, <<"a">>}
                    /\ todo' # <<>> => \/ lockFile'[todo'[1].at] = <<"a">>
                                       \/ todo'[1].do = "ask" /\ todo'[1].use = "expect"
  BY DEF ForensicsAreQuiet
<1>1. /\ trial = "forensic" /\ outcome = "running" /\ Quiet
      /\ \A i \in Honest : lockFile[i] \in {<<>>, <<"a">>}
      /\ todo # <<>> => lockFile[todo[1].at] = <<"a">> \/ (todo[1].do = "ask" /\ todo[1].use = "expect")
      /\ campaign = "sec0081"
  BY TrialGoesOn DEF ForensicsAreQuiet, CampaignTyped, TrialsOf
<1>2. ~ Unanswered
  <2> SUFFICES ASSUME Unanswered PROVE FALSE
    OBVIOUS
  <2>1. /\ Doing("ask") /\ Head(todo) = todo[1] /\ Receives(todo[1], "none", {"request failed"})
    BY <1>1, NextStep DEF Unanswered, ErrorOfSilence
  <2>2. StepFits(todo[1]) /\ Phase # "over" /\ todo[1].do = "ask"
    BY <2>1, UsesOfStages, NextStep
  <2>3. Phase = "forensic"
    BY <1>1, <2>2, PhaseFacts
  <2>4. todo[1].tries = 1
    BY <2>2, <2>3 DEF StepFits
  <2>5. outcome' = IF {"request failed"} = {} THEN outcome ELSE CHOOSE e \in {"request failed"} : TRUE
    <3>1. ~ (todo[1].tries > 1)
      BY <2>4
    <3> QED
      BY <2>1, <3>1, WhatIsNext
  <2> QED
    BY <2>5, ErrorFacts
<1>3. Quiet'
  <2>1. unanswered' = unanswered
    BY <1>2 DEF FaultNext, faultVars, FinishLate, StopOverLate, Answered, CrashRestart, RestartFails,
                Inspect, Visit, NextStage, EndTrial
  <2> QED
    BY <1>1, <2>1 DEF Quiet
<1>4. \/ Answered \/ Inspect \/ Visit \/ NextStage \/ EndTrial \/ UNCHANGED faultVars \/ CrashRestart
  BY <1>3, QuietStep
<1>5. CASE Answered
  <2>1. Doing("ask") /\ todo # <<>> /\ todo[1].do = "ask" /\ todo[1] \in AskSteps
    BY <1>5, AnswerEffect, NextStep
  <2>2. StepFits(todo[1]) /\ Phase # "over" /\ todo[1].use \in UsesIn(Phase) /\ todo[1].at \in Visitors(Phase)
    BY <2>1, UsesOfStages
  <2>3. Phase = "forensic"
    BY <1>1, <2>2, PhaseFacts
  <2>4. todo[1].use \in {"expect", "expectNot"} /\ todo[1].at \in Honest
    BY <2>2, <2>3 DEF UsesIn, Visitors
  <2>5. todo[1].at \notin Byzantine
    BY <2>4 DEF Honest
  <2>6. PICK got \in {"share", "none"} :
               /\ lockFile' = [lockFile EXCEPT ![todo[1].at] =
                     IF lockFile[todo[1].at] = <<>> THEN <<todo[1].spend>> ELSE lockFile[todo[1].at]]
               /\ lockFile'[todo[1].at] \in {<<"a">>, <<"b">>}
               /\ Receives(todo[1], got, ErrorOf(todo[1].use, got))
    BY <1>5, <2>5, AnswerEffect
  <2>7. lockFile'[todo[1].at] = <<"a">>
    <3>1. CASE todo[1].use = "expect"
      <4>1. todo[1].spend = "a"
        BY <2>1, <2>2, <3>1 DEF StepFits
      <4> QED
        BY <1>1, <2>4, <2>6, <4>1 DEF CampaignTyped
    <3>2. CASE todo[1].use = "expectNot"
      <4>1. lockFile[todo[1].at] = <<"a">>
        BY <1>1, <2>1, <3>2
      <4> QED
        BY <2>4, <2>6, <4>1, FileFacts DEF CampaignTyped
    <3> QED
      BY <2>4, <3>1, <3>2
  <2>8. \A i \in Honest : lockFile'[i] \in {<<>>, <<"a">>}
    BY <1>1, <2>4, <2>6, <2>7 DEF CampaignTyped
  <2>9. todo' = Tail(todo)
    <3>1. todo[1].tries = 1
      BY <2>1, <2>2, <2>3 DEF StepFits
    <3> QED
      BY <2>4, <2>6, <3>1 DEF Receives
  <2> QED
    BY <1>3, <2>1, <2>7, <2>8, <2>9, SamePlan
<1>6. CASE CrashRestart \/ Inspect
  <2>1. /\ todo' = Tail(todo) /\ todo # <<>> /\ lockFile' = lockFile
        /\ Doing("restart") \/ Doing("inspect")
    BY <1>3, <1>6, QuietStep DEF CrashRestart, Inspect, Answered, Doing
  <2>2. todo[1].do # "ask"
    BY <2>1, NextStep
  <2> QED
    BY <1>1, <1>3, <2>1, <2>2, SamePlan
<1>7. CASE Visit
  <2>1. stages # <<>> /\ Phase = Head(stages) /\ Phase # "over" /\ lockFile' = lockFile
    BY <1>7, PhaseFacts DEF Visit, Pausing
  <2>2. Phase = "forensic"
    BY <1>1, <2>1, PhaseFacts
  <2>3. PICK i \in toVisit : todo' \in Visits("forensic", i)
    BY <1>7, <2>1, <2>2 DEF Visit
  <2>4. i \in Honest
    BY <2>2 DEF VisitorsAreMembers, Visitors
  <2>5. todo'[1] = Ask(i, "a", "expect", 1)
    BY <2>3, <2>4, ForensicPlans
  <2>6. todo'[1].do = "ask" /\ todo'[1].use = "expect"
    BY <2>5 DEF Ask
  <2> QED
    BY <1>1, <1>3, <2>1, <2>6
<1>8. CASE NextStage
  BY <1>1, <1>3, <1>8 DEF NextStage, Pausing
<1>9. CASE EndTrial
  BY <1>1, <1>9 DEF EndTrial, Judge
<1>10. CASE UNCHANGED faultVars
  BY <1>1, <1>3, <1>10 DEF faultVars
<1> QED
  BY <1>4, <1>5, <1>6, <1>7, <1>8, <1>9, <1>10

-----------------------------------------------------------------------------
(* The steps of a quiet trial                                              *)

\* A restart or a look at the file.
Passes ==
  /\ todo # <<>> /\ todo[1].do # "ask" /\ Phase \in {"restart", "forensic"}
  /\ todo' = Tail(todo)
  /\ UNCHANGED <<lockFile, choice, counted, stages, toVisit>>

Plans ==
  /\ todo = <<>> /\ Phase # "over"
  /\ \E i \in toVisit : \E plan \in Visits(Phase, i) :
       /\ todo' = plan
       /\ toVisit' = IF OneVisit(Phase) THEN {} ELSE toVisit \ {i}
       /\ choice' = IF campaign = "sec008" /\ Phase = "first"
                      THEN [choice EXCEPT ![i] = {Head(plan).spend}] ELSE choice
  /\ UNCHANGED <<lockFile, counted, stages>>

Advances ==
  /\ todo = <<>> /\ todo' = <<>> /\ Phase # "over"
  /\ toVisit = {} \/ Phase = "restart"
  /\ Phase' = Following
  /\ toVisit' = IF Following = "over" THEN {} ELSE Visitors(Following)
  /\ UNCHANGED <<lockFile, choice, counted>>

Rests == UNCHANGED <<lockFile, todo, choice, counted, stages, toVisit>>

LEMMA QuietKinds ==
  ASSUME CampaignTyped, StagesRun, StepsFit, FilesAreLocks, QuietMeansUp,
         [FaultNext]_faultVars, Quiet', outcome' = "running"
  PROVE  /\ Quiet /\ outcome = "running" /\ UNCHANGED fixedVars
         /\ Answered \/ Passes \/ Plans \/ Advances \/ Rests
<1>1. /\ Quiet
      /\ \/ Answered \/ Inspect \/ Visit \/ NextStage \/ EndTrial \/ UNCHANGED faultVars
         \/ CrashRestart /\ UNCHANGED <<lockFile, outcome>>
      /\ ~ Answered => UNCHANGED lockFile
  BY QuietStep
<1>2. outcome = "running" /\ UNCHANGED fixedVars
  BY TrialGoesOn DEF fixedVars
<1>3. CASE Inspect \/ (CrashRestart /\ UNCHANGED <<lockFile, outcome>>)
  <2>1. /\ Doing("inspect") \/ Doing("restart")
        /\ todo' = Tail(todo) /\ UNCHANGED <<lockFile, choice, counted, stages, toVisit>>
    BY <1>3 DEF Inspect, CrashRestart
  <2>2. todo # <<>> /\ todo[1].do # "ask" /\ StepFits(todo[1])
    BY <2>1, NextStep DEF StepsFit
  <2>3. Phase \in {"restart", "forensic"}
    BY <2>2 DEF StepFits
  <2> QED
    BY <1>1, <1>2, <2>1, <2>2, <2>3 DEF Passes
<1>4. CASE Visit
  <2>1. stages # <<>> /\ Phase = Head(stages) /\ Phase # "over" /\ todo = <<>>
    BY <1>4, PhaseFacts DEF Visit, Pausing
  <2>2. Plans
    BY <1>4, <2>1 DEF Visit, Plans
  <2> QED
    BY <1>1, <1>2, <2>2
<1>5. CASE NextStage
  <2>1. /\ stages # <<>> /\ stages' = Tail(stages) /\ todo' = <<>> /\ todo = <<>> /\ Phase # "over"
        /\ Phase = Head(stages)
        /\ toVisit = {} \/ Phase = "restart"
        /\ toVisit' = IF Tail(stages) = <<>> THEN {} ELSE Visitors(Head(Tail(stages)))
        /\ UNCHANGED <<lockFile, choice, counted>>
    BY <1>5, PhaseFacts DEF NextStage, Pausing
  <2>2. Advances
    BY <1>2, <2>1, StagesFollow DEF Advances
  <2> QED
    BY <1>1, <1>2, <2>2
<1>6. CASE EndTrial \/ UNCHANGED faultVars
  BY <1>1, <1>2, <1>6 DEF EndTrial, faultVars, Rests
<1> QED
  BY <1>1, <1>2, <1>3, <1>4, <1>5, <1>6

LEMMA FollowingFacts ==
  ASSUME StagesRun, Phase # "over"
  PROVE  /\ Following \notin {"first", "baseline", "split", "forensic"}
         /\ Following = "over" => Phase \in {"baseline", "forensic", "heal"}
         /\ Following = "heal" => Phase \in {"split", "byzantine", "restart"}
         /\ Following \in {"byzantine", "restart"} => Phase \in {"first", "byzantine", "restart"}
BY PhaseFacts DEF Following, Phases

\* The answer of an honest certifier: it signs what it has locked or locks now.
LEMMA HonestAnswer ==
  ASSUME CampaignTyped, FilesAreLocks, Answered, todo[1].at \in Honest
  PROVE  \E got \in {"share", "none"} :
           /\ lockFile' = [lockFile EXCEPT ![todo[1].at] =
                 IF lockFile[todo[1].at] = <<>> THEN <<todo[1].spend>> ELSE lockFile[todo[1].at]]
           /\ lockFile'[todo[1].at] \in {<<"a">>, <<"b">>}
           /\ got = "share" <=> lockFile'[todo[1].at] = <<todo[1].spend>>
           /\ got = "share" <=> lockFile[todo[1].at] \in {<<>>, <<todo[1].spend>>}
           /\ Receives(todo[1], got, ErrorOf(todo[1].use, got))
<1>1. PICK got \in {"share", "none"} :
           /\ lockFile' = [lockFile EXCEPT ![todo[1].at] =
                 IF lockFile[todo[1].at] = <<>> THEN <<todo[1].spend>> ELSE lockFile[todo[1].at]]
           /\ lockFile'[todo[1].at] \in {<<"a">>, <<"b">>}
           /\ got = "share" <=> lockFile'[todo[1].at] = <<todo[1].spend>>
           /\ Receives(todo[1], got, ErrorOf(todo[1].use, got))
  BY AnswerEffect DEF Honest
<1>2. lockFile'[todo[1].at] = <<todo[1].spend>> <=> lockFile[todo[1].at] \in {<<>>, <<todo[1].spend>>}
  BY <1>1, FileFacts DEF CampaignTyped
<1> QED
  BY <1>1, <1>2

\* An answer touches one file.
LEMMA AnswerFile ==
  ASSUME CampaignTyped, FilesAreLocks, Answered
  PROVE  \A i \in Honest : i # todo[1].at => lockFile'[i] = lockFile[i]
<1>1. CASE todo[1].at \in Honest
  BY <1>1, HonestAnswer DEF CampaignTyped
<1>2. CASE todo[1].at \notin Honest
  BY <1>2, AnswerEffect
<1> QED
  BY <1>1, <1>2

Untouched == Phase = "first" => \A i \in toVisit : lockFile[i] = <<>>

\* The controller of SEC-008 takes the first choice for the lock, and is right as soon as
\* the first request is answered.
Chosen008 ==
  campaign = "sec008" => \A i \in Honest, t \in Lockable : choice[i] = {t} =>
     \/ lockFile[i] = <<t>>
     \/ lockFile[i] = <<>> /\ todo # <<>> /\ todo[1] = Ask(i, t, "count", 1)

LEMMA UntouchedStep ==
  ASSUME CampaignTyped, StagesRun, VisitorsAreMembers, StepsFit, FilesAreLocks, UNCHANGED fixedVars, Untouched,
         Answered \/ Passes \/ Plans \/ Advances \/ Rests
  PROVE  Untouched'
<1> SUFFICES ASSUME Phase' = "first", NEW i \in toVisit' PROVE lockFile'[i] = <<>>
  BY DEF Untouched
<1>1. ASSUME UNCHANGED <<stages>>, toVisit' \subseteq toVisit, lockFile'[i] = lockFile[i]
      PROVE  lockFile'[i] = <<>>
  BY <1>1, SameStage DEF Untouched
<1>2. CASE Answered
  <2>1. UNCHANGED <<stages, toVisit>> /\ todo # <<>>
    BY <1>2, AnswerEffect DEF Answered, Doing
  <2>2. i \in Honest
    BY <2>1, SameStage DEF VisitorsAreMembers, Visitors
  <2>3. i # todo[1].at
    BY <2>1 DEF StepsFit
  <2> QED
    BY <1>1, <1>2, <2>1, <2>2, <2>3, AnswerFile
<1>3. CASE Passes \/ Plans \/ Rests
  BY <1>1, <1>3 DEF Passes, Plans, Rests
<1>4. CASE Advances
  BY <1>4, FollowingFacts DEF Advances
<1> QED
  BY <1>2, <1>3, <1>4

LEMMA Chosen008Step ==
  ASSUME CampaignTyped, StagesRun, VisitorsAreMembers, StepsFit, FilesAreLocks, UNCHANGED fixedVars, Untouched,
         Chosen008, Stays, Answered \/ Passes \/ Plans \/ Advances \/ Rests
  PROVE  Chosen008'
<1> SUFFICES ASSUME campaign = "sec008", NEW i \in Honest, NEW t \in Lockable, choice'[i] = {t}
             PROVE  \/ lockFile'[i] = <<t>>
                    \/ lockFile'[i] = <<>> /\ todo' # <<>> /\ todo'[1] = Ask(i, t, "count", 1)
  BY DEF Chosen008, fixedVars
<1>0. choice[i] = {t} => \/ lockFile[i] = <<t>>
                         \/ lockFile[i] = <<>> /\ todo # <<>> /\ todo[1] = Ask(i, t, "count", 1)
  BY DEF Chosen008
<1>1. lockFile[i] = <<t>> => lockFile'[i] = <<t>>
  BY DEF Stays
<1>2. Ask(i, t, "count", 1).do = "ask" /\ Ask(i, t, "count", 1).at = i /\ Ask(i, t, "count", 1).spend = t
  BY DEF Ask
<1>3. CASE Answered
  <2>1. Doing("ask") /\ \E got \in {"share", "none"} : Receives(todo[1], got, ErrorOf(todo[1].use, got))
    BY <1>3, AnswerEffect
  <2>2. todo[1].use \notin {"first", "establish"}
    BY <2>1, UsesOfStages
  <2>3. choice' = choice
    BY <2>1, <2>2, WhatIsNext
  <2>4. CASE lockFile[i] = <<>> /\ todo[1] = Ask(i, t, "count", 1)
    <3>1. todo[1].at = i /\ todo[1].spend = t
      BY <1>2, <2>4
    <3> QED
      BY <1>3, <2>4, <3>1, HonestAnswer DEF CampaignTyped
  <2> QED
    BY <1>0, <1>1, <2>3, <2>4
<1>4. CASE Passes \/ Advances \/ Rests
  BY <1>0, <1>1, <1>2, <1>4 DEF Passes, Advances, Rests
<1>5. CASE Plans
  <2>1. PICK j \in toVisit : \E plan \in Visits(Phase, j) :
       /\ todo' = plan
       /\ choice' = IF campaign = "sec008" /\ Phase = "first"
                      THEN [choice EXCEPT ![j] = {Head(plan).spend}] ELSE choice
    BY <1>5 DEF Plans
  <2>2. PICK plan \in Visits(Phase, j) :
       /\ todo' = plan
       /\ choice' = IF campaign = "sec008" /\ Phase = "first"
                      THEN [choice EXCEPT ![j] = {Head(plan).spend}] ELSE choice
    BY <2>1
  <2>3. CASE Phase = "first" /\ i = j
    <3>1. PICK c \in Lockable :
                plan \in {<<Ask(i, c, "count", 1), Ask(i, Opposing(c), "refuse", 1)>>,
                          <<Ask(i, c, "count", 1), Ask(i, c, "count", 1),
                            Ask(i, Opposing(c), "refuse", 1)>>}
      BY <2>2, <2>3, PlansOfStages
    <3>2. plan # <<>> /\ Head(plan) = Ask(i, c, "count", 1) /\ plan[1] = Ask(i, c, "count", 1)
      BY <3>1
    <3>3. Head(plan).spend = c
      BY <3>2 DEF Ask
    <3>4. {c} = {t}
      BY <2>2, <2>3, <3>3 DEF CampaignTyped
    <3>5. lockFile'[i] = <<>>
      BY <1>5, <2>3 DEF Plans, Untouched
    <3> QED
      BY <2>2, <3>2, <3>4, <3>5
  <2>4. CASE ~ (Phase = "first" /\ i = j)
    <3>1. choice[i] = {t} /\ todo = <<>>
      BY <1>5, <2>2, <2>4 DEF CampaignTyped, Plans
    <3> QED
      BY <1>0, <1>1, <3>1
  <2> QED
    BY <2>3, <2>4
<1> QED
  BY <1>3, <1>4, <1>5

\* The controller of SEC-008.2 knows of every lock there is, and establishes one only
\* where there is none.
Chosen0082 ==
  campaign = "sec0082" /\ Phase \in {"first", "byzantine", "restart"} =>
    /\ \A i \in Honest : lockFile[i] # <<>> => choice[i] # {}
    /\ \A n \in DOMAIN todo : todo[n].do = "ask" =>
         /\ Phase = "first" /\ todo[n].use = "count" =>
              choice[todo[n].at] # {} \/ todo[1].use = "first"
         /\ todo[n].use = "establish" => lockFile[todo[n].at] \in {<<>>, <<todo[n].spend>>}

LEMMA Chosen0082Answer ==
  ASSUME CampaignTyped, StagesRun, StepsFit, FilesAreLocks, StepsAreFounded, Chosen0082,
         campaign = "sec0082", Phase \in {"first", "byzantine", "restart"}, outcome = "running",
         Answered
  PROVE  /\ \A i \in Honest : lockFile'[i] # <<>> => choice'[i] # {}
         /\ \A n \in DOMAIN todo' : todo'[n].do = "ask" =>
              /\ Phase = "first" /\ todo'[n].use = "count" => choice'[todo'[n].at] # {}
              /\ todo'[n].use # "establish"
<1>0. /\ Doing("ask") /\ todo[1].at \in alive /\ todo[1].do = "ask" /\ todo # <<>>
      /\ todo \in Seq(AskSteps \cup OtherSteps) /\ 1 \in DOMAIN todo
      /\ todo[1] \in AskSteps /\ todo[1].at \in Validators /\ todo[1].spend \in Lockable
      /\ todo[1].use \in UsesIn(Phase) /\ todo[1].at \in Visitors(Phase)
      /\ StepFits(todo[1])
  BY AnswerEffect, NextStep, UsesOfStages DEF CampaignTyped, AskSteps
<1>1. \A m \in DOMAIN todo : todo[m].do = "ask" =>
        /\ todo[m].at = todo[1].at
        /\ Phase = "first" /\ todo[m].use = "count" => choice[todo[m].at] # {} \/ todo[1].use = "first"
        /\ todo[m].use = "establish" => m = 1 /\ lockFile[todo[m].at] \in {<<>>, <<todo[m].spend>>}
  BY UsesOfSteps DEF Chosen0082, StepsAreFounded
<1>2. \A i \in Honest : lockFile[i] # <<>> => choice[i] # {}
  BY DEF Chosen0082
<1>3. CASE todo[1].at \in Byzantine
  <2>1. Phase = "byzantine"
    BY <1>0, <1>3 DEF Visitors, Honest
  <2>2. todo[1].use = "count"
    BY <1>0, <2>1 DEF UsesIn
  <2>3. lockFile' = lockFile /\ Receives(todo[1], "share", ErrorOf(todo[1].use, "share"))
    BY <1>3, AnswerEffect DEF Honest
  <2>4. choice' = choice /\ todo' = Tail(todo)
    BY <1>0, <2>2, <2>3, WhatIsNext
  <2>5. \A n \in DOMAIN todo' : todo'[n] = todo[n + 1] /\ n + 1 \in DOMAIN todo /\ n + 1 # 1
    BY <1>0, <2>4
  <2> QED
    BY <1>1, <1>2, <2>1, <2>3, <2>4, <2>5
<1>4. CASE todo[1].at \notin Byzantine
  <2> DEFINE i == todo[1].at
             t == todo[1].spend
  <2>1. i \in Honest
    BY <1>0, <1>4 DEF Honest
  <2>2. PICK got \in {"share", "none"} :
           /\ lockFile' = [lockFile EXCEPT ![i] = IF lockFile[i] = <<>> THEN <<t>> ELSE lockFile[i]]
           /\ got = "share" <=> lockFile[i] \in {<<>>, <<t>>}
           /\ Receives(todo[1], got, ErrorOf(todo[1].use, got))
    BY <2>1, HonestAnswer
  <2>3. \A j \in Honest : j # i => lockFile'[j] = lockFile[j]
    BY AnswerFile
  <2>4. /\ choice' \in {choice, [choice EXCEPT ![i] = {t}]}
        /\ got = "share" /\ todo[1].use \in {"first", "establish"} => choice' = [choice EXCEPT ![i] = {t}]
    BY <1>0, <2>2, WhatIsNext
  <2>5. \A j \in Honest : choice[j] # {} => choice'[j] # {}
    BY <2>4 DEF CampaignTyped
  <2>6. lockFile[i] = <<>> => todo[1].use \in {"first", "establish"} \/ choice[i] # {}
    <3> SUFFICES ASSUME lockFile[i] = <<>>, todo[1].use \notin {"first", "establish"} PROVE choice[i] # {}
      OBVIOUS
    <3>1. Phase # "byzantine"
      BY <1>0, <2>1 DEF Visitors, Honest
    <3>2. todo[1].use \in {"count", "refuse", "refuseAfter", "keep"} /\ (todo[1].use = "count" => Phase = "first")
      BY <1>0, <3>1 DEF UsesIn
    <3>3. CASE todo[1].use = "count"
      BY <1>0, <1>1, <3>2, <3>3
    <3>4. CASE todo[1].use # "count"
      <4>1. Founded(todo[1], lockFile, choice)
        BY <1>0, <3>2 DEF StepsAreFounded, FoundedOn
      <4>2. \E s : lockFile[i] = <<s>>
        BY <3>2, <3>4, <4>1 DEF Founded
      <4> QED
        BY <4>2
    <3> QED
      BY <3>3, <3>4
  <2>7. choice'[i] # {}
    <3>1. CASE lockFile[i] = <<>> /\ todo[1].use \in {"first", "establish"}
      <4>1. choice' = [choice EXCEPT ![i] = {t}]
        BY <2>2, <2>4, <3>1
      <4> QED
        BY <2>1, <4>1 DEF CampaignTyped
    <3> QED
      BY <1>2, <2>1, <2>5, <2>6, <3>1
  <2>8. \A j \in Honest : lockFile'[j] # <<>> => choice'[j] # {}
    BY <1>2, <2>3, <2>5, <2>7
  <2>9. \A n \in DOMAIN todo' : todo'[n].do = "ask" => todo'[n].at = i /\ todo'[n].use # "establish"
    <3>1. CASE /\ got = "none"
               /\ todo' = [todo EXCEPT ![1] = [todo[1] EXCEPT !.tries = todo[1].tries - 1]]
      <4> DEFINE x == [todo[1] EXCEPT !.tries = todo[1].tries - 1]
      <4>1. x.use = todo[1].use /\ x.at = todo[1].at
        BY <1>0 DEF AskSteps
      <4>2. todo[1].use # "establish"
        BY <1>0, <1>1, <2>2, <3>1
      <4>3. /\ DOMAIN todo' = DOMAIN todo /\ todo'[1] = x
            /\ \A m \in DOMAIN todo : m # 1 => todo'[m] = todo[m]
        BY <1>0, <3>1
      <4> HIDE DEF x
      <4> QED
        BY <1>0, <1>1, <4>1, <4>2, <4>3
    <3>2. CASE todo' = [todo EXCEPT ![1] = Ask(i, Opposing(t), "refuse", 1)]
      <4> DEFINE x == Ask(i, Opposing(t), "refuse", 1)
      <4>1. x.use = "refuse" /\ x.at = i
        BY DEF Ask
      <4>2. /\ DOMAIN todo' = DOMAIN todo /\ todo'[1] = x
            /\ \A m \in DOMAIN todo : m # 1 => todo'[m] = todo[m]
        BY <1>0, <3>2
      <4> HIDE DEF x
      <4> QED
        BY <1>0, <1>1, <4>1, <4>2
    <3>3. CASE todo' = Tail(todo)
      <4>1. \A n \in DOMAIN todo' : todo'[n] = todo[n + 1] /\ n + 1 \in DOMAIN todo /\ n + 1 # 1
        BY <1>0, <3>3
      <4> QED
        BY <1>1, <4>1
    <3> QED
      BY <1>0, <2>2, <3>1, <3>2, <3>3, WhatIsNext
  <2> HIDE DEF i, t
  <2> QED
    BY <2>7, <2>8, <2>9
<1> QED
  BY <1>3, <1>4

LEMMA Chosen0082Step ==
  ASSUME CampaignTyped, StagesRun, VisitorsAreMembers, StepsFit, FilesAreLocks, UNCHANGED fixedVars,
         StepsAreFounded, Chosen0082, outcome = "running",
         Answered \/ Passes \/ Plans \/ Advances \/ Rests
  PROVE  Chosen0082'
<1> SUFFICES ASSUME campaign = "sec0082", Phase' \in {"first", "byzantine", "restart"}
             PROVE
    /\ \A i \in Honest : lockFile'[i] # <<>> => choice'[i] # {}
    /\ \A n \in DOMAIN todo' : todo'[n].do = "ask" =>
         /\ Phase' = "first" /\ todo'[n].use = "count" =>
              choice'[todo'[n].at] # {} \/ todo'[1].use = "first"
         /\ todo'[n].use = "establish" => lockFile'[todo'[n].at] \in {<<>>, <<todo'[n].spend>>}
  BY DEF Chosen0082, fixedVars
<1>1. Phase \in {"first", "byzantine", "restart"}
  <2>1. CASE Advances
    BY <2>1, FollowingFacts DEF Advances
  <2>2. CASE ~ Advances
    <3>1. UNCHANGED stages
      BY <2>2 DEF Answered, Passes, Plans, Rests
    <3> QED
      BY <3>1, SameStage
  <2> QED
    BY <2>1, <2>2
<1>2. /\ \A i \in Honest : lockFile[i] # <<>> => choice[i] # {}
      /\ \A n \in DOMAIN todo : todo[n].do = "ask" =>
         /\ Phase = "first" /\ todo[n].use = "count" =>
              choice[todo[n].at] # {} \/ todo[1].use = "first"
         /\ todo[n].use = "establish" => n = 1 /\ lockFile[todo[n].at] \in {<<>>, <<todo[n].spend>>}
  BY <1>1 DEF Chosen0082, StepsAreFounded
<1>3. CASE Answered
  <2>1. Phase' = Phase
    BY <1>3, SameStage DEF Answered
  <2> QED
    BY <1>1, <1>3, <2>1, Chosen0082Answer
<1>4. CASE Passes
  <2>1. Phase' = Phase /\ Phase # "first"
    BY <1>4, SameStage DEF Passes
  <2>2. \A n \in DOMAIN todo' : todo'[n] = todo[n + 1] /\ n + 1 \in DOMAIN todo /\ n + 1 # 1
    BY <1>4 DEF Passes, CampaignTyped
  <2> QED
    BY <1>2, <1>4, <2>1, <2>2 DEF Passes
<1>5. CASE Plans
  <2>1. PICK i \in toVisit : \E plan \in Visits(Phase, i) :
       /\ todo' = plan
       /\ choice' = IF campaign = "sec008" /\ Phase = "first"
                      THEN [choice EXCEPT ![i] = {Head(plan).spend}] ELSE choice
    BY <1>5 DEF Plans
  <2>2. PICK plan \in Visits(Phase, i) : todo' = plan /\ choice' = choice
    BY <2>1
  <2>3. /\ \A j \in Honest : lockFile'[j] # <<>> => choice'[j] # {}
        /\ Phase' = Phase /\ i \in Visitors(Phase) /\ i \in Validators /\ lockFile' = lockFile
    BY <1>2, <1>5, <2>2, SameStage DEF Plans, VisitorsAreMembers, CampaignTyped
  <2>4. CASE Phase = "first"
    <3>1. \/ plan = <<>>
          \/ \E c \in Lockable : plan = <<Ask(i, c, "first", 1)>>
          \/ \E c \in Lockable : plan = <<Ask(i, c, "first", 1), Ask(i, c, "count", 1)>>
      BY <2>2, <2>4, PlansOfStages
    <3>2. \A n \in DOMAIN plan : plan[1].use = "first" /\ plan[n].use \in {"first", "count"}
      BY <3>1 DEF Ask
    <3> QED
      BY <2>2, <2>3, <3>2
  <2>5. CASE Phase = "byzantine"
    <3>1. \A n \in DOMAIN plan : plan[n].use = "count"
      <4>1. plan \in {<<>>, <<Ask(i, "a", "count", 1)>>, <<Ask(i, "b", "count", 1)>>,
                        <<Ask(i, "a", "count", 1), Ask(i, "b", "count", 1)>>}
        BY <2>2, <2>5, PlansOfStages
      <4> QED
        BY <4>1 DEF Ask
    <3> QED
      BY <2>2, <2>3, <2>5, <3>1
  <2>6. CASE Phase = "restart"
    <3>1. i \in Honest
      BY <2>3, <2>6 DEF Visitors
    <3>2. CASE /\ \A j \in Honest : choice[j] = {}
               /\ plan = <<Ask(i, "a", "establish", 3), RestartStep(i),
                             Ask(i, "a", "keep", 3), Ask(i, "b", "refuseAfter", 3)>>
      <4>1. lockFile[i] = <<>>
        BY <1>2, <3>1, <3>2
      <4>2. \A n \in DOMAIN plan : plan[n].at = i
        BY <3>2 DEF Ask, RestartStep
      <4> QED
        BY <2>2, <2>3, <2>6, <4>1, <4>2
    <3>3. ASSUME NEW c \in choice[i],
                 plan = <<RestartStep(i), Ask(i, c, "keep", 3), Ask(i, Opposing(c), "refuseAfter", 3)>>,
                 NEW n \in DOMAIN plan, plan[n].do = "ask"
          PROVE  plan[n].use # "establish"
      <4>1. RestartStep(i).do # "ask"
        BY DEF RestartStep
      <4>2. plan[n] = Ask(i, c, "keep", 3) \/ plan[n] = Ask(i, Opposing(c), "refuseAfter", 3)
        BY <3>3, <4>1
      <4> QED
        BY <4>2 DEF Ask
    <3>4. \/ /\ \A j \in Honest : choice[j] = {}
             /\ plan = <<Ask(i, "a", "establish", 3), RestartStep(i),
                             Ask(i, "a", "keep", 3), Ask(i, "b", "refuseAfter", 3)>>
          \/ \E c \in choice[i] :
               plan = <<RestartStep(i), Ask(i, c, "keep", 3), Ask(i, Opposing(c), "refuseAfter", 3)>>
      BY <2>2, <2>6, PlansOfStages
    <3>5. CASE \E c \in choice[i] :
               plan = <<RestartStep(i), Ask(i, c, "keep", 3), Ask(i, Opposing(c), "refuseAfter", 3)>>
      BY <2>2, <2>3, <2>6, <3>3, <3>5
    <3> QED
      BY <3>2, <3>4, <3>5
  <2> QED
    BY <1>1, <2>4, <2>5, <2>6
<1>6. CASE Advances
  BY <1>2, <1>6 DEF Advances
<1>7. CASE Rests
  <2>1. Phase' = Phase
    BY <1>7, SameStage DEF Rests
  <2> QED
    BY <1>2, <1>7, <2>1 DEF Rests
<1> QED
  BY <1>3, <1>4, <1>5, <1>6, <1>7

\* A baseline gives everyone the same spend, a split gives each half its own, and what a
\* half has locked it keeps.
HalvesAreKept ==
  /\ trial = "baseline" => \A i \in Honest : lockFile[i] \in {<<>>, <<"a">>}
  /\ trial = "split" =>
       /\ \A i \in Honest : lockFile[i] \in {<<>>, <<HalfOf(i)>>}
       /\ \A t \in Lockable : counted[t] \subseteq Honest
       /\ Phase = "split" => \A i \in Honest :
            i \in toVisit \/ lockFile[i] # <<>> \/ (todo # <<>> /\ todo[1].at = i)
       /\ Phase \in {"heal", "over"} => \A i \in Honest : lockFile[i] # <<>>

LEMMA HalvesAnswer ==
  ASSUME CampaignTyped, StagesRun, VisitorsAreMembers, StepsFit, FilesAreLocks, UNCHANGED fixedVars,
         HalvesAreKept, Answered
  PROVE  HalvesAreKept'
<1>0. /\ Doing("ask") /\ todo[1].do = "ask" /\ todo # <<>> /\ StepFits(todo[1]) /\ Phase # "over"
      /\ todo[1] \in AskSteps /\ todo[1].at \in Validators /\ todo[1].spend \in Lockable
      /\ todo[1].at \in Visitors(Phase)
  BY AnswerEffect, NextStep, UsesOfStages DEF AskSteps
<1>1. Phase' = Phase /\ toVisit' = toVisit /\ \A i : HalfOf(i)' = HalfOf(i)
  BY SameStage DEF Answered, HalfOf, fixedVars
<1>2. trial \in {"baseline", "split"} => Phase \in {"baseline", "split", "heal"} /\ todo[1].at \in Honest
  BY <1>0, PhaseFacts DEF Visitors
<1> DEFINE i == todo[1].at
           t == todo[1].spend
<1>3. ASSUME i \in Honest
      PROVE  /\ lockFile' = [lockFile EXCEPT ![i] = IF lockFile[i] = <<>> THEN <<t>> ELSE lockFile[i]]
             /\ lockFile'[i] # <<>>
             /\ \A s \in Lockable : counted'[s] \subseteq counted[s] \cup {i}
  <2>1. PICK got \in {"share", "none"} :
           /\ lockFile' = [lockFile EXCEPT ![i] = IF lockFile[i] = <<>> THEN <<t>> ELSE lockFile[i]]
           /\ Receives(todo[1], got, ErrorOf(todo[1].use, got))
    BY <1>3, HonestAnswer
  <2>2. counted' \in {counted, [counted EXCEPT ![t] = counted[t] \cup {i}]}
    BY <1>0, <2>1, WhatIsNext
  <2> QED
    BY <1>0, <1>3, <2>1, <2>2, FileFacts DEF CampaignTyped
<1>4. CASE trial = "baseline"
  <2>1. t = "a" /\ i \in Honest
    BY <1>0, <1>2, <1>4, PhaseFacts DEF StepFits
  <2>2. \A j \in Honest : lockFile'[j] \in {<<>>, <<"a">>}
    BY <1>3, <1>4, <2>1 DEF HalvesAreKept, CampaignTyped
  <2> QED
    BY <1>4, <2>2 DEF HalvesAreKept, fixedVars
<1>5. CASE trial = "split"
  <2>1. i \in Honest /\ Phase \in {"split", "heal"} /\ (Phase = "split" => t = HalfOf(i))
    BY <1>0, <1>2, <1>5, PhaseFacts DEF StepFits
  <2>2. Phase = "heal" => lockFile[i] # <<>>
    BY <1>5, <2>1 DEF HalvesAreKept
  <2>3. \A j \in Honest : lockFile'[j] \in {<<>>, <<HalfOf(j)>>}
    BY <1>3, <1>5, <2>1, <2>2 DEF HalvesAreKept, CampaignTyped
  <2>4. \A s \in Lockable : counted'[s] \subseteq Honest
    BY <1>3, <1>5, <2>1 DEF HalvesAreKept
  <2>5. Phase = "split" => \A j \in Honest : j \in toVisit \/ lockFile'[j] # <<>>
    BY <1>3, <1>5, <2>1 DEF HalvesAreKept, CampaignTyped
  <2>6. Phase = "heal" => \A j \in Honest : lockFile'[j] # <<>>
    BY <1>3, <1>5, <2>1 DEF HalvesAreKept, CampaignTyped
  <2> HIDE DEF i, t
  <2> QED
    BY <1>1, <1>5, <2>1, <2>3, <2>4, <2>5, <2>6 DEF HalvesAreKept, fixedVars
<1>6. CASE trial \notin {"baseline", "split"}
  BY <1>6 DEF HalvesAreKept, fixedVars
<1> QED
  BY <1>4, <1>5, <1>6

LEMMA HalvesStep ==
  ASSUME CampaignTyped, StagesRun, VisitorsAreMembers, StepsFit, FilesAreLocks, UNCHANGED fixedVars,
         HalvesAreKept, Answered \/ Passes \/ Plans \/ Advances \/ Rests
  PROVE  HalvesAreKept'
<1>1. ASSUME UNCHANGED <<lockFile, counted>>,
             trial = "split" =>
               /\ Phase' = "split" => \A i \in Honest :
                    i \in toVisit' \/ lockFile[i] # <<>> \/ (todo' # <<>> /\ todo'[1].at = i)
               /\ Phase' \in {"heal", "over"} => \A i \in Honest : lockFile[i] # <<>>
      PROVE  HalvesAreKept'
  <2>1. \A i : HalfOf(i)' = HalfOf(i)
    BY DEF HalfOf, fixedVars
  <2> QED
    BY <1>1, <2>1 DEF HalvesAreKept, fixedVars
<1>2. CASE Passes
  <2>1. trial # "split"
    BY <1>2, PhaseFacts DEF Passes
  <2> QED
    BY <1>1, <1>2, <2>1 DEF Passes
<1>3. CASE Plans
  <2>1. PICK i \in toVisit : /\ todo' \in Visits(Phase, i)
                             /\ toVisit' = IF OneVisit(Phase) THEN {} ELSE toVisit \ {i}
    BY <1>3 DEF Plans
  <2>2. Phase' = Phase /\ todo = <<>> /\ UNCHANGED <<lockFile, counted>>
    BY <1>3, SameStage DEF Plans
  <2>3. ASSUME trial = "split", Phase = "split"
        PROVE  todo' # <<>> /\ todo'[1].at = i /\ toVisit' = toVisit \ {i}
    <3>1. todo' = <<Ask(i, HalfOf(i), "count", Tries)>>
      BY <2>1, <2>3, PlansOfStages
    <3> QED
      BY <2>1, <2>3, <3>1 DEF Ask, OneVisit
  <2> QED
    BY <1>1, <2>2, <2>3 DEF HalvesAreKept
<1>4. CASE Advances
  <2>1. trial = "split" => Phase' \in {"heal", "over"} /\ Phase \in {"split", "heal"}
    BY <1>4, PhaseFacts DEF Following, Advances
  <2>2. trial = "split" => \A i \in Honest : lockFile[i] # <<>>
    BY <1>4, <2>1 DEF Advances, HalvesAreKept
  <2> QED
    BY <1>1, <1>4, <2>1, <2>2 DEF Advances
<1>5. CASE Rests
  <2>1. Phase' = Phase
    BY <1>5, SameStage DEF Rests
  <2> QED
    BY <1>1, <1>5, <2>1 DEF Rests, HalvesAreKept
<1> QED
  BY <1>2, <1>3, <1>4, <1>5, HalvesAnswer

\* In the baseline and in the last stage everyone is asked until its lock is heard of.
HeardIn(i) ==
  IF trial = "baseline"
    THEN i \in counted["a"] \/ (todo # <<>> /\ todo[1].at = i)
    ELSE \/ \E t \in Lockable : i \in counted[t]
         \/ /\ Len(todo) = 2 /\ todo[1].at = i
            /\ todo[2].spend = Opposing(todo[1].spend)
         \/ Len(todo) = 1 /\ todo[1].at = i /\ lockFile[i] = <<todo[1].spend>>

AllAreHeard ==
  /\ Phase \in {"heal", "baseline"} => \A i \in Honest \ toVisit : HeardIn(i)
  /\ Phase = "over" =>
       /\ todo = <<>> /\ toVisit = {}
       /\ trial \in {"baseline", "split", "fault"} => \A i \in Honest : HeardIn(i)

LEMMA HeardAnswer ==
  ASSUME CampaignTyped, StagesRun, VisitorsAreMembers, StepsFit, FilesAreLocks, UNCHANGED fixedVars,
         HalvesAreKept, AllAreHeard, Answered
  PROVE  AllAreHeard'
<1>0. /\ Doing("ask") /\ todo[1].do = "ask" /\ todo # <<>> /\ StepFits(todo[1]) /\ Phase # "over"
      /\ todo[1] \in AskSteps /\ todo[1].at \in Validators /\ todo[1].spend \in Lockable
      /\ todo[1].at \in Visitors(Phase) /\ todo[1].use \in UsesIn(Phase)
      /\ todo \in Seq(AskSteps \cup OtherSteps) /\ todo[1].at \notin toVisit
  BY AnswerEffect, NextStep, UsesOfStages DEF AskSteps, StepsFit, CampaignTyped
<1>1. Phase' = Phase /\ toVisit' = toVisit /\ trial' = trial
  BY SameStage DEF Answered, fixedVars
<1> DEFINE i == todo[1].at
           t == todo[1].spend
<1> SUFFICES ASSUME Phase \in {"heal", "baseline"}, NEW j \in Honest \ toVisit PROVE HeardIn(j)'
  BY <1>0, <1>1 DEF AllAreHeard
<1>2. i \in Honest /\ todo[1].use = "count"
  BY <1>0 DEF Visitors, UsesIn
<1>3. PICK got \in {"share", "none"} :
           /\ lockFile' = [lockFile EXCEPT ![i] = IF lockFile[i] = <<>> THEN <<t>> ELSE lockFile[i]]
           /\ lockFile'[i] \in {<<"a">>, <<"b">>}
           /\ got = "share" <=> lockFile'[i] = <<t>>
           /\ got = "share" <=> lockFile[i] \in {<<>>, <<t>>}
           /\ Receives(todo[1], got, ErrorOf(todo[1].use, got))
  BY <1>2, HonestAnswer
<1>4. /\ got = "share" => counted' = [counted EXCEPT ![t] = counted[t] \cup {i}]
      /\ counted' \in {counted, [counted EXCEPT ![t] = counted[t] \cup {i}]}
      /\ \/ todo' = Tail(todo)
         \/ got = "none" /\ todo' = [todo EXCEPT ![1] = [todo[1] EXCEPT !.tries = todo[1].tries - 1]]
  BY <1>0, <1>2, <1>3, WhatIsNext DEF Counting
<1>5. \A s \in Lockable : counted[s] \subseteq counted'[s]
  BY <1>0, <1>4 DEF CampaignTyped
<1>6. got = "share" => i \in counted'[t]
  BY <1>0, <1>4 DEF CampaignTyped
<1>7. HeardIn(j)
  BY DEF AllAreHeard
<1>8. CASE trial = "baseline"
  <2>1. t = "a" /\ lockFile[i] \in {<<>>, <<"a">>}
    BY <1>0, <1>2, <1>8, PhaseFacts DEF StepFits, HalvesAreKept
  <2>2. j \in counted["a"] \/ j = i
    BY <1>7, <1>8 DEF HeardIn
  <2>3. j \in counted'["a"]
    BY <1>3, <1>5, <1>6, <2>1, <2>2 DEF Lockable
  <2> QED
    BY <1>1, <1>8, <2>3 DEF HeardIn
<1>9. CASE trial # "baseline"
  <2>1. CASE \E s \in Lockable : j \in counted[s]
    BY <1>1, <1>5, <1>9, <2>1 DEF HeardIn
  <2>2. CASE got = "share" /\ j = i
    BY <1>0, <1>1, <1>6, <1>9, <2>2 DEF HeardIn
  <2>3. CASE Len(todo) = 2 /\ i = j /\ todo[2].spend = Opposing(t) /\ got = "none"
    <3>1. lockFile'[i] = <<Opposing(t)>>
      BY <1>0, <1>3, <2>3 DEF Opposing, Lockable
    <3>2. CASE todo' = Tail(todo)
      <4>0. todo' # <<>>
        <5>1. todo' \in Seq(AskSteps \cup OtherSteps) /\ Len(todo') = 1
          BY <1>0, <2>3, <3>2
        <5> QED
          BY <5>1, EmptySeq
      <4>1. Len(todo') = 1 /\ todo'[1] = todo[2] /\ 2 \in DOMAIN todo
        BY <1>0, <2>3, <3>2, <4>0, SamePlan
      <4>2. todo[2].at = i
        BY <4>1 DEF StepsFit
      <4>3. lockFile'[j] = <<todo'[1].spend>>
        BY <2>3, <3>1, <4>1
      <4> QED
        BY <1>1, <1>9, <2>3, <4>1, <4>2, <4>3 DEF HeardIn
    <3>3. CASE todo' = [todo EXCEPT ![1] = [todo[1] EXCEPT !.tries = todo[1].tries - 1]]
      <4> DEFINE x == [todo[1] EXCEPT !.tries = todo[1].tries - 1]
      <4>1. x.spend = t /\ x.at = i
        BY <1>0 DEF AskSteps
      <4> HIDE DEF x
      <4>2. Len(todo') = 2 /\ todo'[1] = x /\ todo'[2] = todo[2]
        BY <1>0, <2>3, <3>3 DEF x
      <4> QED
        BY <1>1, <1>9, <2>3, <4>1, <4>2 DEF HeardIn
    <3> QED
      BY <1>4, <3>2, <3>3
  <2>4. Len(todo) = 1 /\ i = j /\ lockFile[j] = <<t>> => got = "share"
    BY <1>3
  <2> QED
    BY <1>3, <1>7, <1>9, <2>1, <2>2, <2>3, <2>4 DEF HeardIn
<1> QED
  BY <1>8, <1>9

LEMMA HeardStep ==
  ASSUME CampaignTyped, StagesRun, VisitorsAreMembers, StepsFit, FilesAreLocks, UNCHANGED fixedVars,
         HalvesAreKept, AllAreHeard, Answered \/ Passes \/ Plans \/ Advances \/ Rests
  PROVE  AllAreHeard'
<1>1. trial' = trial
  BY DEF fixedVars
<1>2. todo = <<>> => \A i \in Honest : HeardIn(i) => (trial = "baseline" /\ i \in counted["a"])
                                           \/ (trial # "baseline" /\ \E t \in Lockable : i \in counted[t])
  BY DEF HeardIn
<1>3. CASE Passes
  <2>1. Phase' = Phase /\ Phase \in {"restart", "forensic"}
    BY <1>3, SameStage DEF Passes
  <2> QED
    BY <2>1 DEF AllAreHeard
<1>4. CASE Plans
  <2>1. PICK i \in toVisit : /\ todo' \in Visits(Phase, i)
                             /\ toVisit' = IF OneVisit(Phase) THEN {} ELSE toVisit \ {i}
    BY <1>4 DEF Plans
  <2>2. Phase' = Phase /\ todo = <<>> /\ Phase # "over" /\ UNCHANGED <<lockFile, counted>>
    BY <1>4, SameStage DEF Plans
  <2> SUFFICES ASSUME Phase \in {"heal", "baseline"}, NEW j \in Honest \ toVisit' PROVE HeardIn(j)'
    BY <2>2 DEF AllAreHeard
  <2>3. i \in Validators /\ toVisit' = toVisit \ {i}
    BY <2>1 DEF CampaignTyped, OneVisit
  <2>4. CASE j # i
    <3>1. HeardIn(j)
      BY <2>3, <2>4 DEF AllAreHeard
    <3> QED
      BY <1>1, <1>2, <2>2, <3>1 DEF HeardIn
  <2>5. CASE j = i /\ Phase = "baseline"
    <3>1. todo' = <<Ask(i, "a", "count", Tries)>>
      BY <2>1, <2>5, PlansOfStages
    <3>2. todo' # <<>> /\ todo'[1].at = i
      BY <3>1 DEF Ask
    <3> QED
      BY <1>1, <2>5, <3>2, PhaseFacts DEF HeardIn
  <2>6. CASE j = i /\ Phase = "heal"
    <3>1. PICK c \in Lockable :
                todo' = <<Ask(i, c, "count", Tries), Ask(i, Opposing(c), "count", Tries)>>
      BY <2>1, <2>6, PlansOfStages
    <3>2. Len(todo') = 2 /\ todo'[1].at = i /\ todo'[2].spend = Opposing(todo'[1].spend)
      BY <3>1 DEF Ask
    <3>3. trial # "baseline"
      BY <2>6, PhaseFacts
    <3> QED
      BY <1>1, <2>6, <3>2, <3>3 DEF HeardIn
  <2> QED
    BY <2>4, <2>5, <2>6
<1>5. CASE Advances
  <2>1. /\ todo = <<>> /\ todo' = <<>> /\ Phase # "over" /\ (toVisit = {} \/ Phase = "restart")
        /\ Phase' = Following /\ toVisit' = IF Following = "over" THEN {} ELSE Visitors(Following)
        /\ UNCHANGED <<lockFile, counted>>
    BY <1>5 DEF Advances
  <2>2. CASE Following = "over"
    <3>1. Phase \in {"baseline", "forensic", "heal"} /\ toVisit = {}
      BY <2>1, <2>2, FollowingFacts
    <3>2. trial \in {"baseline", "split", "fault"} => \A i \in Honest : HeardIn(i)
      BY <3>1, PhaseFacts DEF AllAreHeard
    <3>3. trial \in {"baseline", "split", "fault"} => \A i \in Honest : HeardIn(i)'
      BY <1>1, <1>2, <2>1, <3>2 DEF HeardIn
    <3> QED
      BY <1>1, <2>1, <2>2, <3>3 DEF AllAreHeard
  <2>3. CASE Following # "over"
    <3>1. Following # "baseline" /\ (Following = "heal" => toVisit' = Honest)
      BY <2>1, <2>3, FollowingFacts DEF Visitors
    <3> QED
      BY <2>1, <2>3, <3>1 DEF AllAreHeard
  <2> QED
    BY <2>2, <2>3
<1>6. CASE Rests
  <2>1. Phase' = Phase
    BY <1>6, SameStage DEF Rests
  <2>2. \A i \in Honest : HeardIn(i)' <=> HeardIn(i)
    BY <1>1, <1>6 DEF Rests, HeardIn
  <2> QED
    BY <1>1, <1>6, <2>1, <2>2 DEF Rests, AllAreHeard
<1> QED
  BY <1>3, <1>4, <1>5, <1>6, HeardAnswer

\* What is known of a trial in which every request so far was answered.
QuietRun ==
  Quiet /\ outcome = "running" =>
    Untouched /\ Chosen008 /\ Chosen0082 /\ AllAreHeard /\ HalvesAreKept

LEMMA QuietRunStep ==
  ASSUME CampaignTyped, StagesRun, VisitorsAreMembers, StepsFit, FilesAreLocks, QuietMeansUp,
         StepsAreFounded, QuietRun, [FaultNext]_faultVars
  PROVE  QuietRun'
<1> SUFFICES ASSUME Quiet', outcome' = "running"
             PROVE  Untouched' /\ Chosen008' /\ Chosen0082' /\ AllAreHeard' /\ HalvesAreKept'
  BY DEF QuietRun
<1>1. /\ Quiet /\ outcome = "running" /\ UNCHANGED fixedVars
      /\ Answered \/ Passes \/ Plans \/ Advances \/ Rests
  BY QuietKinds
<1>2. Untouched /\ Chosen008 /\ Chosen0082 /\ AllAreHeard /\ HalvesAreKept
  BY <1>1 DEF QuietRun
<1>3. Stays
  BY FilesStep
<1> QED
  BY <1>1, <1>2, <1>3, UntouchedStep, Chosen008Step, Chosen0082Step, HeardStep, HalvesStep

-----------------------------------------------------------------------------
(* Results                                                                 *)

\* Neither half of a split is a quorum, and the honest certifiers together are one.
LEMMA HalvesAreNoQuorums ==
  ASSUME trial = "split", firstHalf \in SUBSET Honest,
         2 * Cardinality(firstHalf) = Cardinality(Honest) + 1
  PROVE  ~ IsQuorum(firstHalf) /\ ~ IsQuorum(Honest \ firstHalf)
<1>1. /\ IsFiniteSet(Validators) /\ IsFiniteSet(Byzantine) /\ IsFiniteSet(Honest)
      /\ IsFiniteSet(firstHalf) /\ IsFiniteSet(Honest \ firstHalf)
  <2>1. Byzantine \subseteq Validators /\ Honest \subseteq Validators /\ firstHalf \subseteq Validators
        /\ Honest \ firstHalf \subseteq Validators /\ IsFiniteSet(Validators)
    BY CommitteeAssumption DEF CommitteeAssumption, Honest
  <2> QED
    BY <2>1, FS_Subset
<1>2. /\ Cardinality(Validators) \in Nat /\ Cardinality(Byzantine) \in Nat
      /\ Cardinality(Honest) \in Nat /\ Cardinality(firstHalf) \in Nat
      /\ Cardinality(Honest \ firstHalf) \in Nat /\ Q \in Nat
      /\ Cardinality(Validators) + Cardinality(Byzantine) < Q + Q
  BY <1>1, FS_CardinalityType, CommitteeAssumption DEF CommitteeAssumption
<1>3. Cardinality(Honest) = Cardinality(Validators) - Cardinality(Byzantine)
  <2>1. Validators \cap Byzantine = Byzantine
    BY CommitteeAssumption DEF CommitteeAssumption
  <2>2. Cardinality(Validators \ Byzantine) = Cardinality(Validators) - Cardinality(Validators \cap Byzantine)
    BY <1>1, FS_Difference
  <2> QED
    BY <2>1, <2>2 DEF Honest
<1>4. Cardinality(Honest \ firstHalf) = Cardinality(Honest) - Cardinality(firstHalf)
  <2>1. Honest \cap firstHalf = firstHalf
    OBVIOUS
  <2>2. Cardinality(Honest \ firstHalf) = Cardinality(Honest) - Cardinality(Honest \cap firstHalf)
    BY <1>1, FS_Difference
  <2> QED
    BY <2>1, <2>2
<1>5. Cardinality(Byzantine) # 0
  BY <1>1, FS_EmptySet, CampaignsAssumption DEF CampaignsAssumption
<1>6. Cardinality(firstHalf) < Q /\ Cardinality(Honest \ firstHalf) < Q
  BY <1>2, <1>3, <1>4, <1>5
<1> QED
  BY <1>2, <1>6 DEF IsQuorum

\* A quiet trial that has come to its end is finalised or deadlocked, as it should be.
LEMMA QuietEnd ==
  ASSUME CampaignTyped, StagesRun, CountsAreFiled, AllAreHeard, HalvesAreKept,
         stages = <<>>
  PROVE  /\ Judge \in Results
         /\ trial = "fault" => \A i \in Honest : (i \in counted["a"]) # (i \in counted["b"])
<1>1. Phase = "over" /\ todo = <<>>
  BY DEF Phase, AllAreHeard
<1>2. \A t \in Lockable : counted[t] \subseteq Validators
  BY DEF CampaignTyped
<1>3. trial \in {"baseline", "split", "fault", "forensic"}
  BY DEF StagesRun
<1>4. \A i \in Honest : ~ (i \in counted["a"] /\ i \in counted["b"])
  <2> SUFFICES ASSUME NEW i \in Honest, i \in counted["a"], i \in counted["b"] PROVE FALSE
    OBVIOUS
  <2>1. lockFile[i] = <<"a">> /\ lockFile[i] = <<"b">>
    BY DEF CountsAreFiled, Lockable
  <2> QED
    BY <2>1, FileFacts
<1>5. CASE trial = "baseline"
  <2>1. Honest \subseteq counted["a"] /\ counted["a"] \subseteq Validators
    BY <1>1, <1>2, <1>5 DEF AllAreHeard, HeardIn, Lockable
  <2>2. IsQuorum(counted["a"])
    BY <2>1, LargerSignerSet, CampaignsAssumption DEF CampaignsAssumption
  <2> QED
    BY <1>5, <2>2 DEF Judge, Results, Lockable
<1>6. CASE trial = "split"
  <2>1. counted["a"] \subseteq Honest /\ counted["b"] \subseteq Honest
    BY <1>6 DEF HalvesAreKept, Lockable
  <2>2. \A i \in counted["a"] : lockFile[i] = <<"a">>
    BY <2>1 DEF CountsAreFiled, Lockable
  <2>3. \A i \in counted["b"] : lockFile[i] = <<"b">>
    BY <2>1 DEF CountsAreFiled, Lockable
  <2>4. \A i \in Honest : \A t : lockFile[i] = <<t>> => t = HalfOf(i)
    BY <1>6, FileFacts DEF HalvesAreKept
  <2>5. counted["a"] \subseteq firstHalf /\ counted["b"] \subseteq Honest \ firstHalf
    BY <2>1, <2>2, <2>3, <2>4 DEF HalfOf
  <2>6. ~ IsQuorum(firstHalf) /\ ~ IsQuorum(Honest \ firstHalf)
    BY <1>6, HalvesAreNoQuorums DEF CampaignTyped
  <2>7. firstHalf \subseteq Validators /\ Honest \ firstHalf \subseteq Validators
    BY DEF CampaignTyped, Honest
  <2>8. ~ IsQuorum(counted["a"]) /\ ~ IsQuorum(counted["b"])
    BY <2>5, <2>6, <2>7, LargerSignerSet
  <2> QED
    BY <1>6, <2>8 DEF Judge, Results, Lockable
<1>7. CASE trial = "fault"
  <2>1. \A i \in Honest : HeardIn(i)
    BY <1>1, <1>7 DEF AllAreHeard
  <2>2. Len(todo) = 0
    BY <1>1
  <2>3. \A i \in Honest : \E t \in Lockable : i \in counted[t]
    BY <1>7, <2>1, <2>2 DEF HeardIn
  <2>4. \A i \in Honest : (i \in counted["a"]) # (i \in counted["b"])
    <3> SUFFICES ASSUME NEW i \in Honest PROVE (i \in counted["a"]) # (i \in counted["b"])
      OBVIOUS
    <3>1. (i \in counted["a"] \/ i \in counted["b"]) /\ ~ (i \in counted["a"] /\ i \in counted["b"])
      BY <1>4, <2>3 DEF Lockable
    <3> QED
      BY <3>1
  <2>5. Judge \in Results
    <3>1. {t \in Lockable : IsQuorum(counted[t])} # Lockable
      BY OneSpendIsFinal DEF Lockable
    <3> QED
      BY <1>7, <3>1 DEF Judge, Results
  <2> QED
    BY <2>4, <2>5
<1>8. CASE trial = "forensic"
  BY <1>8 DEF Judge, Results
<1> QED
  BY <1>3, <1>5, <1>6, <1>7, <1>8

\* An answer ends a trial only in SEC-008, where the certifier had not answered its first
\* request: it signs what the controller thinks it must refuse.
LEMMA AnswerEnds ==
  ASSUME CampaignTyped, StagesRun, StepsFit, FilesAreLocks, CountsAreFiled, StepsAreFounded,
         ForensicsAreQuiet, QuietRun, UNCHANGED fixedVars,
         outcome = "running", Answered, outcome' # "running"
  PROVE  ~ Quiet /\ BlameIsDeserved'
<1> DEFINE i == todo[1].at
           t == todo[1].spend
           use == todo[1].use
<1>0. /\ Doing("ask") /\ todo[1].do = "ask" /\ todo # <<>> /\ StepFits(todo[1]) /\ Phase # "over"
      /\ todo[1] \in AskSteps /\ i \in Validators /\ t \in Lockable /\ use \in Uses
      /\ i \in Visitors(Phase) /\ use \in UsesIn(Phase) /\ 1 \in DOMAIN todo
  BY AnswerEffect, NextStep, UsesOfStages DEF AskSteps
<1>1. i \in Honest
  <2> SUFFICES ASSUME i \notin Honest PROVE FALSE
    OBVIOUS
  <2>1. Receives(todo[1], "share", ErrorOf(use, "share")) /\ use = "count"
    BY <1>0, AnswerEffect DEF Visitors, UsesIn
  <2>2. ErrorOf(use, "share") = {}
    BY <2>1, ErrorFacts DEF Uses
  <2> QED
    BY <1>0, <2>1, <2>2, WhatIsNext
<1>2. PICK got \in {"share", "none"} :
           /\ lockFile' = [lockFile EXCEPT ![i] = IF lockFile[i] = <<>> THEN <<t>> ELSE lockFile[i]]
           /\ lockFile'[i] \in {<<"a">>, <<"b">>}
           /\ got = "share" <=> lockFile'[i] = <<t>>
           /\ got = "share" <=> lockFile[i] \in {<<>>, <<t>>}
           /\ Receives(todo[1], got, ErrorOf(use, got))
  BY <1>1, HonestAnswer
<1>3. /\ ErrorOf(use, got) # {} /\ outcome' = CHOOSE e \in ErrorOf(use, got) : TRUE
      /\ ~ Counting(use) => counted' = counted
      /\ use \notin {"first", "establish"} => choice' = choice
  BY <1>0, <1>2, WhatIsNext
<1>4. \/ got = "share" /\ use \in {"refuse", "expectNot", "refuseAfter"}
      \/ got = "none" /\ use \in {"keep", "establish", "expect"}
  BY <1>0, <1>2, <1>3, ErrorFacts DEF Uses
<1>5. Opposing(t) \in Lockable /\ Opposing(t) # t /\ <<Opposing(t)>> # <<t>> /\ <<Opposing(t)>> # <<>>
  BY <1>0, SpendFacts, FileFacts
<1>6. use \in {"refuse", "refuseAfter", "keep"} => Founded(todo[1], lockFile, choice)
  BY <1>0 DEF StepsAreFounded, FoundedOn
<1>7. use \notin {"expect", "expectNot"}
  <2> SUFFICES ASSUME use \in {"expect", "expectNot"} PROVE FALSE
    OBVIOUS
  <2>1. trial = "forensic" /\ lockFile[i] \in {<<>>, <<"a">>}
        /\ (use = "expectNot" => lockFile[i] = <<"a">>)
    BY <1>0, <1>1, UsesOfStages DEF ForensicsAreQuiet
  <2>2. t = IF use = "expect" THEN "a" ELSE "b"
    BY <1>0 DEF StepFits
  <2> QED
    BY <1>2, <1>4, <2>1, <2>2, FileFacts
<1>8. use # "keep"
  BY <1>2, <1>4, <1>6 DEF Founded
<1>9. CASE use = "establish"
  <2>1. outcome' = "no witness"
    BY <1>3, <1>4, <1>9, ErrorFacts
  <2>2. Phase = "restart" /\ campaign = "sec0082"
    BY <1>0, <1>9, UsesOfStages
  <2>3. Quiet => lockFile[i] \in {<<>>, <<t>>}
    BY <1>0, <1>9, <2>2 DEF QuietRun, Chosen0082
  <2>4. BlameIsDeserved'
    BY <2>1 DEF BlameIsDeserved
  <2> QED
    BY <1>2, <1>4, <1>9, <2>3, <2>4
<1>10. CASE use \in {"refuse", "refuseAfter"}
  <2>1. outcome' \in {"double signed", "lock lost"} /\ got = "share"
    BY <1>3, <1>4, <1>10, ErrorFacts
  <2>2. lockFile[i] # <<Opposing(t)>>
    BY <1>2, <1>5, <2>1
  <2>3. campaign = "sec008"
    <3>1. Phase \in {"first", "restart"}
      BY <1>0, <1>10, UsesOfStages
    <3>2. campaign \in {"sec008", "sec0082"}
      BY <3>1, PhaseFacts
    <3> QED
      BY <1>6, <1>10, <2>2, <3>2 DEF Founded
  <2>4. choice[i] = {Opposing(t)} /\ choice' = choice /\ counted' = counted
    BY <1>3, <1>6, <1>10, <2>3 DEF Founded, Counting
  <2>5. i \notin counted[Opposing(t)]
    BY <1>1, <1>5, <2>2 DEF CountsAreFiled
  <2>6. choice'[i] # {} /\ \A s \in choice'[i] : i \notin counted'[s]
    BY <2>4, <2>5
  <2>7. BlameIsDeserved'
    BY <1>1, <2>1, <2>3, <2>6 DEF BlameIsDeserved, fixedVars
  <2>8. Ask(i, Opposing(t), "count", 1).use = "count"
    BY DEF Ask
  <2>9. ~ Quiet
    BY <1>1, <1>5, <1>10, <2>2, <2>3, <2>4, <2>8 DEF QuietRun, Chosen008
  <2> QED
    BY <2>7, <2>9
<1> QED
  BY <1>4, <1>7, <1>8, <1>9, <1>10

LEMMA SilenceEnds ==
  ASSUME CampaignTyped, StagesRun, StepsFit, QuietMeansUp, UNCHANGED fixedVars,
         outcome = "running", Unanswered, outcome' # "running"
  PROVE  ~ Quiet' /\ BlameIsDeserved'
<1>0. /\ Doing("ask") /\ Head(todo) = todo[1] /\ todo[1] \in AskSteps
      /\ todo[1].at \in Validators /\ todo[1].use \in Uses
  BY NextStep DEF Unanswered, AskSteps
<1>1. /\ Receives(todo[1], "none", ErrorOfSilence(todo[1].use)) /\ missed' = missed + 1
      /\ \/ todo[1].at \notin alive /\ unanswered' = unanswered
         \/ unanswered' = unanswered + 1
  BY <1>0 DEF Unanswered
<1>2. ~ Quiet'
  BY <1>0, <1>1 DEF Quiet, QuietMeansUp, CampaignTyped
<1>3. /\ ErrorOfSilence(todo[1].use) # {}
      /\ outcome' = CHOOSE e \in ErrorOfSilence(todo[1].use) : TRUE
  BY <1>0, <1>1, WhatIsNext
<1>4. CASE campaign = "sec0081"
  <2>1. outcome' = "request failed"
    BY <1>3, <1>4, ErrorFacts DEF ErrorOfSilence
  <2> QED
    BY <1>2, <2>1 DEF BlameIsDeserved
<1>5. CASE campaign # "sec0081"
  <2>1. ErrorOfSilence(todo[1].use) = ErrorOf(todo[1].use, "none")
    BY <1>5 DEF ErrorOfSilence
  <2>2. todo[1].use # "expect"
    <3>1. trial # "forensic"
      BY <1>5 DEF CampaignTyped, TrialsOf
    <3> QED
      BY <1>0, <3>1, UsesOfStages
  <2>3. todo[1].use \in {"keep", "establish"}
    BY <1>0, <1>3, <2>1, <2>2, ErrorFacts
  <2>4. CASE todo[1].use = "establish"
    <3>0. ErrorOfSilence(todo[1].use) = {"no witness"}
      BY <2>1, <2>4, ErrorFacts
    <3>1. outcome' = "no witness"
      BY <1>3, <3>0, ErrorFacts
    <3> QED
      BY <1>2, <3>1 DEF BlameIsDeserved
  <2>5. CASE todo[1].use = "keep"
    <3>0. ErrorOfSilence(todo[1].use) = {"lock lost"}
      BY <2>1, <2>5, ErrorFacts
    <3>1. outcome' = "lock lost" /\ campaign = "sec0082"
      BY <1>0, <1>3, <2>5, <3>0, ErrorFacts, UsesOfStages
    <3>2. missed' > 0
      BY <1>1 DEF CampaignTyped
    <3> QED
      BY <1>2, <3>1, <3>2 DEF BlameIsDeserved, fixedVars
  <2> QED
    BY <2>3, <2>4, <2>5
<1> QED
  BY <1>4, <1>5

LEMMA FailedRestartEnds ==
  ASSUME CampaignTyped, RestartFails
  PROVE  ~ Quiet' /\ BlameIsDeserved'
<1>1. outcome' = "not ready"
  BY DEF RestartFails
<1>2. ASSUME unanswered' = 0 PROVE FALSE
  <2>1. unanswered \in Nat /\ unanswered' = unanswered + 1 /\ unanswered' = 0
    BY <1>2 DEF RestartFails, CampaignTyped
  <2> QED
    BY <2>1
<1> QED
  BY <1>1, <1>2 DEF Quiet, BlameIsDeserved

LEMMA RestartEnds ==
  ASSUME CampaignTyped, FilesAreLocks, QuietMeansUp, [FaultNext]_faultVars,
         outcome = "running", CrashRestart, outcome' # "running"
  PROVE  ~ Quiet' /\ BlameIsDeserved'
<1>1. outcome' \in {outcome, "not ready"}
  BY DEF CrashRestart
<1>2. Doing("restart")
  BY DEF CrashRestart
<1>3. ~ (Answered \/ Inspect \/ Visit \/ NextStage \/ EndTrial \/ UNCHANGED faultVars)
  BY <1>1, <1>2 DEF Doing, Answered, Inspect, Visit, NextStage, EndTrial, Pausing, faultVars
<1>4. ~ Quiet'
  BY <1>1, <1>3, QuietStep
<1> QED
  BY <1>1, <1>4 DEF BlameIsDeserved

\* The file that the controller looks at holds the spend that was signed.
LEMMA InspectGoesOn ==
  ASSUME CampaignTyped, StagesRun, StepsFit, ForensicsAreQuiet, outcome = "running", Inspect
  PROVE  outcome' = "running"
<1>1. Doing("inspect") /\ "inspect" # "ask"
  BY DEF Inspect
<1>2. Head(todo) = todo[1] /\ todo # <<>> /\ todo[1].do = "inspect" /\ StepFits(todo[1])
  BY <1>1, NextStep DEF StepsFit
<1>3. trial = "forensic"
  BY <1>2, PhaseFacts DEF StepFits
<1>4. lockFile[todo[1].at] = <<"a">>
  BY <1>2, <1>3 DEF ForensicsAreQuiet
<1> QED
  BY <1>2, <1>4 DEF Inspect

LEMMA JudgeEnds ==
  ASSUME CampaignTyped, StagesRun, CountsAreFiled, QuietRun, UNCHANGED fixedVars, EndTrial
  PROVE  QuietTrialIsDecided' /\ BlameIsDeserved'
<1>1. outcome = "running" /\ stages = <<>> /\ outcome' = Judge /\ UNCHANGED <<unanswered, counted>>
  BY DEF EndTrial
<1>2. QuietTrialIsDecided'
  <2> SUFFICES ASSUME unanswered' = 0
               PROVE  /\ outcome' \in Results
                      /\ trial' = "fault" /\ outcome' \in {"finalised", "deadlocked"} =>
                           \A i \in Honest : (i \in counted'["a"]) # (i \in counted'["b"])
    BY DEF QuietTrialIsDecided
  <2>1. AllAreHeard /\ HalvesAreKept
    BY <1>1 DEF QuietRun, Quiet
  <2> QED
    BY <1>1, <2>1, QuietEnd DEF fixedVars
<1>3. BlameIsDeserved'
  <2>1. {t \in Lockable : IsQuorum(counted[t])} # Lockable
    BY OneSpendIsFinal DEF Lockable
  <2>2. Judge \in {"passed", "finalised", "baseline failed", "deadlocked", "split finalised"}
    BY <2>1 DEF Judge
  <2> QED
    BY <1>1, <2>2 DEF BlameIsDeserved
<1> QED
  BY <1>2, <1>3

LEMMA ResultStep ==
  ASSUME CampaignTyped, StagesRun, StepsFit, FilesAreLocks, QuietMeansUp, CountsAreFiled,
         StepsAreFounded, ForensicsAreQuiet, QuietRun, QuietTrialIsDecided, BlameIsDeserved,
         [FaultNext]_faultVars
  PROVE  QuietTrialIsDecided' /\ BlameIsDeserved'
<1>0. UNCHANGED fixedVars /\ campaign' = campaign /\ trial' = trial
  BY TrialGoesOn DEF fixedVars
<1>1. CASE outcome # "running"
  <2>1. UNCHANGED <<choice, counted, unanswered, missed, outcome>>
    BY <1>1, TrialGoesOn
  <2> QED
    BY <1>0, <2>1 DEF QuietTrialIsDecided, BlameIsDeserved
<1>2. CASE outcome' = "running"
  BY <1>2 DEF QuietTrialIsDecided, BlameIsDeserved, Results
<1>3. CASE outcome = "running" /\ outcome' # "running"
  <2>1. ASSUME ~ Quiet' PROVE QuietTrialIsDecided'
    BY <2>1 DEF Quiet, QuietTrialIsDecided
  <2>2. Answered \/ Unanswered \/ CrashRestart \/ RestartFails \/ Inspect \/ EndTrial
    BY <1>3 DEF FaultNext, FinishLate, StopOverLate, Visit, NextStage, faultVars
  <2>3. CASE Answered
    <3>1. ~ Quiet /\ BlameIsDeserved' /\ unanswered' = unanswered
      BY <1>0, <1>3, <2>3, AnswerEnds DEF Answered
    <3> QED
      BY <2>1, <3>1 DEF Quiet
  <2> QED
    BY <1>0, <1>3, <2>1, <2>2, <2>3, SilenceEnds, RestartEnds, FailedRestartEnds,
       InspectGoesOn, JudgeEnds
<1> QED
  BY <1>1, <1>2, <1>3

-----------------------------------------------------------------------------
(* The campaign                                                            *)

\* The reports rest on what the files and the memories of the certifiers say, on what the
\* controller has reason to expect of its next steps, and, in a trial without a silence,
\* on what every certifier has been asked so far.
CampaignInv ==
  /\ CampaignTyped /\ StagesRun /\ VisitorsAreMembers /\ StepsFit
  /\ FilesAreLocks /\ CountsAreFiled /\ ChoicesAreFiled /\ StepsAreFounded
  /\ QuietMeansUp /\ ForensicsAreQuiet /\ QuietRun
  /\ QuietTrialIsDecided /\ BlameIsDeserved

LEMMA CampaignInitially == FaultInit => CampaignInv
<1> SUFFICES ASSUME FaultInit PROVE CampaignInv
  OBVIOUS
<1>1. /\ campaign \in Campaigns /\ trial \in TrialsOf(campaign) /\ firstHalf \in SUBSET Honest
      /\ trial = "split" => 2 * Cardinality(firstHalf) = Cardinality(Honest) + 1
      /\ lockFile = [i \in Honest |-> <<>>] /\ locked = [i \in Honest |-> {}]
      /\ alive = Validators /\ late = [i \in Honest |-> {}]
      /\ stages = StagesOf(campaign, trial) /\ toVisit = Visitors(Head(stages))
      /\ todo = <<>> /\ choice = [i \in Honest |-> {}] /\ counted = [t \in Lockable |-> {}]
      /\ unanswered = 0 /\ missed = 0 /\ outcome = "running"
  BY DEF FaultInit
<1>2. /\ StagesRun /\ stages # <<>>
      /\ Head(stages) \in {"baseline", "split", "forensic", "first"}
  <2>1. campaign \in {"sec008", "sec0081", "sec0082"}
    BY <1>1, CampaignsAssumption DEF CampaignsAssumption
  <2>2. trial \in {"baseline", "split", "fault", "forensic"} /\ (trial = "fault" => campaign # "sec0081")
    BY <1>1 DEF TrialsOf
  <2>3. /\ trial = "baseline" => stages = <<"baseline">>
        /\ trial = "split" => stages = <<"split", "heal">>
        /\ trial = "forensic" => stages = <<"forensic">>
        /\ trial = "fault" /\ campaign = "sec008" =>
             stages = <<"first", "restart", "byzantine", "heal">>
        /\ trial = "fault" /\ campaign = "sec0082" =>
             stages = <<"first", "byzantine", "restart", "heal">>
    <3>1. \A c : /\ StagesOf(c, "baseline") = <<"baseline">>
                 /\ StagesOf(c, "split") = <<"split", "heal">>
                 /\ StagesOf(c, "forensic") = <<"forensic">>
      BY DEF StagesOf
    <3>2. StagesOf("sec008", "fault") = <<"first", "restart", "byzantine", "heal">>
      BY DEF StagesOf
    <3>3. StagesOf("sec0082", "fault") = <<"first", "byzantine", "restart", "heal">>
      BY DEF StagesOf
    <3> QED
      BY <1>1, <3>1, <3>2, <3>3
  <2>4. StagesRun
    <3>1. CASE trial = "fault"
      BY <2>1, <2>2, <2>3, <3>1 DEF StagesRun
    <3>2. CASE trial \in {"baseline", "split", "forensic"}
      BY <2>3, <3>2 DEF StagesRun
    <3> QED
      BY <2>2, <3>1, <3>2
  <2>5. \E s \in {<<"baseline">>, <<"split", "heal">>, <<"forensic">>,
                  <<"first", "restart", "byzantine", "heal">>,
                  <<"first", "byzantine", "restart", "heal">>} : stages = s
    BY <2>1, <2>2, <2>3
  <2>6. stages # <<>> /\ Head(stages) \in {"baseline", "split", "forensic", "first"}
    BY <2>5
  <2> QED
    BY <2>4, <2>6
<1>3. Phase = Head(stages) /\ toVisit = Visitors(Phase) /\ toVisit = Honest
  BY <1>1, <1>2 DEF Phase, Visitors
<1>4. CampaignTyped
  BY <1>1, <1>3 DEF CampaignTyped, LockFiles, AtMostOneLock, Honest
<1>5. VisitorsAreMembers /\ StepsFit /\ StepsAreFounded
  BY <1>1, <1>3 DEF VisitorsAreMembers, StepsFit, StepsAreFounded
<1>6. FilesAreLocks
  BY <1>1, FileFacts DEF FilesAreLocks
<1>7. CountsAreFiled /\ ChoicesAreFiled
  BY <1>1 DEF CountsAreFiled, ChoicesAreFiled
<1>8. QuietMeansUp /\ ForensicsAreQuiet
  BY <1>1 DEF QuietMeansUp, ForensicsAreQuiet, Quiet
<1>9. Untouched /\ Chosen008 /\ Chosen0082 /\ AllAreHeard /\ HalvesAreKept
  <2>1. Untouched /\ Chosen008 /\ Chosen0082
    BY <1>1, <1>3 DEF Untouched, Chosen008, Chosen0082, Honest
  <2>2. AllAreHeard
    BY <1>2, <1>3 DEF AllAreHeard
  <2>3. HalvesAreKept
    BY <1>1, <1>2, <1>3 DEF HalvesAreKept
  <2> QED
    BY <2>1, <2>2, <2>3
<1>10. QuietTrialIsDecided /\ BlameIsDeserved
  BY <1>1 DEF QuietTrialIsDecided, BlameIsDeserved, Results
<1> QED
  BY <1>2, <1>4, <1>5, <1>6, <1>7, <1>8, <1>9, <1>10 DEF CampaignInv, QuietRun

\* Every committee, every order of requests, every loss and every kill: a share that is
\* counted is on its certifier's disk; a trial in which every request is answered ends
\* with a result, and in the fault trials with one spend for each certifier; dual
\* finality, a refused first request and a missing record are never reported; and a
\* double signature or a lost lock is reported only after a silence, as BlameIsDeserved
\* says.
THEOREM CampaignReportsHold == FaultSpec => []CampaignTellsTheTruth
<1>1. CampaignInv /\ [FaultNext]_faultVars => CampaignInv'
  <2> SUFFICES ASSUME CampaignInv, [FaultNext]_faultVars PROVE CampaignInv'
    OBVIOUS
  <2>1. CampaignTyped' /\ StagesRun' /\ VisitorsAreMembers' /\ StepsFit'
    BY ControlStep DEF CampaignInv
  <2>2. FilesAreLocks'
    BY FilesStep DEF CampaignInv
  <2>3. CountsAreFiled' /\ ChoicesAreFiled'
    BY SharesAreFiled DEF CampaignInv
  <2>4. StepsAreFounded'
    BY FoundedStep DEF CampaignInv
  <2>5. QuietMeansUp'
    BY QuietMeansUpStep DEF CampaignInv
  <2>6. ForensicsAreQuiet'
    BY ForensicStep DEF CampaignInv
  <2>7. QuietRun'
    BY QuietRunStep DEF CampaignInv
  <2>8. QuietTrialIsDecided' /\ BlameIsDeserved'
    BY ResultStep DEF CampaignInv
  <2> QED
    BY <2>1, <2>2, <2>3, <2>4, <2>5, <2>6, <2>7, <2>8 DEF CampaignInv
<1>2. CampaignInv => CampaignTellsTheTruth
  <2> SUFFICES ASSUME CampaignInv PROVE CountedSharesAreLocked
    BY DEF CampaignInv, CampaignTellsTheTruth
  <2> SUFFICES ASSUME NEW t \in Lockable, NEW i \in Honest \cap counted[t]
               PROVE  t \in {lockFile[i][n] : n \in DOMAIN lockFile[i]}
    BY DEF CountedSharesAreLocked
  <2>1. lockFile[i] = <<t>>
    BY DEF CampaignInv, CountsAreFiled
  <2>2. 1 \in DOMAIN <<t>> /\ <<t>>[1] = t
    OBVIOUS
  <2> QED
    BY <2>1, <2>2
<1> QED
  BY <1>1, <1>2, CampaignInitially, PTL DEF FaultSpec
=============================================================================
