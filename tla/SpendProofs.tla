----------------------------- MODULE SpendProofs -----------------------------
(***************************************************************************)
(* What is spent is spent once, and by its owner: the certifiers of        *)
(* SEC-003 and their lock log, the money in the ledger of integration001,  *)
(* and the certified spends of SEC-001 and SEC-002, for every committee,   *)
(* set of cells, workload and word length. Sums over sets of cells are     *)
(* reasoned about by induction over the subsets of a finite set: a fold is *)
(* the one function that solves its equation, and the invariants follow    *)
(* from what that function does when an element is taken out.              *)
(***************************************************************************)
EXTENDS SpendLocks, CertifiedSpends, Transfers, CommitteeProofs, SequenceTheorems,
        WellFoundedInduction

(* SEC-003: the lock log                                                   *)

\* The records that stand for a spend.
RecordsFor(t) == {LockRecord(CoinsOf[t][n], t) : n \in DOMAIN CoinsOf[t]}

Jobs == {job \in [spend : Spends, rest : SUBSET Nat] :
           job.rest \subseteq DOMAIN CoinsOf[job.spend]}

LockLogType ==
  /\ wal \in [Honest -> Seq(LockRecords \cup {TornRecord})]
  /\ known \in [Honest -> SUBSET LockRecords]
  /\ task \in [Honest -> SUBSET Jobs]
  /\ server \in [Honest -> {"up", "down", "refused"}]
  /\ shares \subseteq Honest \X Spends
  /\ taken \in [Cores -> SUBSET Spends]

\* A certifier that has not lost its file: it knows no more than its log, the log holds
\* the records of what it signed, it knows them whenever it is up, and a request in hand
\* is for a spend that nothing it knows stands against, its records written but those
\* still to come.
Remembers(c) ==
  /\ known[c] \subseteq RecordsOf(wal[c])
  /\ \A t \in Spends : <<c, t>> \in shares =>
       /\ RecordsFor(t) \subseteq RecordsOf(wal[c])
       /\ server[c] = "up" => RecordsFor(t) \subseteq known[c]
  /\ \A job \in task[c] :
       /\ ~ LockedElsewhere(c, job.spend)
       /\ \A n \in DOMAIN CoinsOf[job.spend] :
            n \in job.rest \/ LockRecord(CoinsOf[job.spend][n], job.spend) \in RecordsOf(wal[c])
  /\ \A t, u \in Spends : Clash(t, u) => ~ (<<c, t>> \in shares /\ <<c, u>> \in shares)

LockLogInv ==
  /\ LockLogType
  /\ \A c \in Honest : server[c] # "up" => task[c] = {} /\ known[c] = {}
  /\ \A c \in Honest \ forgetful : Remembers(c)
  /\ \A k \in Cores : \A t \in taken[k] : SpendCertified(t)

\* A record is not the torn line.
LEMMA LockRecordIsWhole ==
  ASSUME NEW i, NEW t
  PROVE  LockRecord(i, t) # TornRecord
<1>1. DOMAIN LockRecord(i, t) = {"coin", "spend"} /\ DOMAIN TornRecord = {"torn"}
  BY DEF LockRecord, TornRecord
<1>2. "coin" \notin {"torn"}
  OBVIOUS
<1> QED
  BY <1>1, <1>2

\* The records of a spend are records of its coins.
LEMMA RecordsForType ==
  ASSUME NEW t \in Spends
  PROVE  /\ RecordsFor(t) \subseteq LockRecords
         /\ DOMAIN CoinsOf[t] \subseteq Nat
         /\ \A n \in DOMAIN CoinsOf[t] : LockRecord(CoinsOf[t][n], t) \in LockRecords
<1>1. CoinsOf[t] \in Seq(Coins)
  BY SpendLocksAssumption DEF SpendLocksAssumption
<1> QED
  BY <1>1 DEF RecordsFor, LockRecord, LockRecords

\* One more record, and one more torn record.
LEMMA RecordsOfAppend ==
  ASSUME NEW S, NEW s \in Seq(S), NEW r \in S
  PROVE  RecordsOf(Append(s, r)) = RecordsOf(s) \cup ({r} \ {TornRecord})
<1> DEFINE t == Append(s, r)
<1>1. DOMAIN t = DOMAIN s \cup {Len(s) + 1} /\ t[Len(s) + 1] = r /\ \A n \in DOMAIN s : t[n] = s[n]
  OBVIOUS
<1> HIDE DEF t
<1>2. {t[n] : n \in DOMAIN t} = {s[n] : n \in DOMAIN s} \cup {r}
  BY <1>1
<1> QED
  BY <1>2 DEF RecordsOf, t

\* What a restart cuts off holds no record.
LEMMA RecordsOfCut ==
  ASSUME NEW S, NEW s \in Seq(S), NEW n \in 0..Len(s), TornAt(s) = (n + 1)..Len(s)
  PROVE  RecordsOf(SubSeq(s, 1, n)) = RecordsOf(s)
<1> DEFINE t == SubSeq(s, 1, n)
<1>1. DOMAIN t = 1..n /\ \A k \in 1..n : t[k] = s[k]
  OBVIOUS
<1>2. DOMAIN s = 1..Len(s) /\ Len(s) \in Nat
  OBVIOUS
<1>3. \A k \in DOMAIN s : s[k] # TornRecord => k \in 1..n
  BY <1>2 DEF TornAt
<1>4. \A k \in 1..n : k \in DOMAIN s
  BY <1>2
<1> HIDE DEF t
<1> QED
  BY <1>1, <1>3, <1>4 DEF RecordsOf, t

\* The certifiers begin with empty logs.
LEMMA LockLogInit == SpendLocksInit => LockLogInv
<1> SUFFICES ASSUME SpendLocksInit PROVE LockLogInv
  OBVIOUS
<1>1. <<>> \in Seq(LockRecords \cup {TornRecord})
  OBVIOUS
<1>2. LockLogType
  BY <1>1 DEF SpendLocksInit, LockLogType
<1>3. \A c \in Honest : Remembers(c)
  BY DEF SpendLocksInit, Remembers
<1> QED
  BY <1>2, <1>3 DEF LockLogInv, SpendLocksInit

\* A certificate stays one: shares are never taken back.
LEMMA CertifiedStays ==
  ASSUME shares \subseteq shares', NEW t, SpendCertified(t)
  PROVE  SpendCertified(t)'
<1>1. SharesOf(t) \subseteq SharesOf(t)' /\ SharesOf(t)' \subseteq Validators
  BY CommitteeAssumption DEF SharesOf, CommitteeAssumption, Honest
<1> QED
  BY <1>1, LargerSignerSet DEF SpendCertified

\* What a step does not touch stays remembered.
LEMMA StillRemembers ==
  ASSUME NEW c \in Honest, Remembers(c),
         wal'[c] = wal[c], known'[c] = known[c], task'[c] = task[c], server'[c] = server[c],
         \A t \in Spends : <<c, t>> \in shares' => <<c, t>> \in shares
  PROVE  Remembers(c)'
BY DEF Remembers, LockedElsewhere

\* A step of one certifier that signs nothing.
LEMMA OneCertifierMoves ==
  ASSUME LockLogInv, LockLogType', NEW c \in Honest,
         \A d \in Honest : d # c =>
           wal'[d] = wal[d] /\ known'[d] = known[d] /\ task'[d] = task[d] /\ server'[d] = server[d],
         server'[c] # "up" => task'[c] = {} /\ known'[c] = {},
         shares' = shares, taken' = taken, forgetful \subseteq forgetful',
         c \notin forgetful' => Remembers(c)'
  PROVE  LockLogInv'
<1>1. \A d \in Honest : server'[d] # "up" => task'[d] = {} /\ known'[d] = {}
  BY DEF LockLogInv
<1>2. \A d \in Honest \ forgetful' : Remembers(d)'
  <2> SUFFICES ASSUME NEW d \in Honest \ forgetful' PROVE Remembers(d)'
    OBVIOUS
  <2>1. CASE d = c
    BY <2>1
  <2>2. CASE d # c
    <3>1. Remembers(d)
      BY DEF LockLogInv
    <3> QED
      BY <2>2, <3>1, StillRemembers
  <2> QED
    BY <2>1, <2>2
<1>3. \A k \in Cores : \A t \in taken'[k] : SpendCertified(t)'
  BY CertifiedStays DEF LockLogInv
<1> QED
  BY <1>1, <1>2, <1>3 DEF LockLogInv

\* A step of one certifier keeps the invariant when it keeps that certifier's part.
LEMMA CertifierStep ==
  ASSUME LockLogInv, NEW c \in Honest, NEW w, NEW k, NEW j, NEW u,
         wal' = [wal EXCEPT ![c] = w], known' = [known EXCEPT ![c] = k],
         task' = [task EXCEPT ![c] = j], server' = [server EXCEPT ![c] = u],
         w \in Seq(LockRecords \cup {TornRecord}), k \in SUBSET LockRecords,
         j \in SUBSET Jobs, u \in {"up", "down", "refused"},
         u # "up" => j = {} /\ k = {},
         shares' = shares, taken' = taken, forgetful \subseteq forgetful',
         c \notin forgetful' => Remembers(c)'
  PROVE  LockLogInv'
<1>1. LockLogType'
  BY DEF LockLogInv, LockLogType
<1>2. wal'[c] = w /\ known'[c] = k /\ task'[c] = j /\ server'[c] = u
  BY DEF LockLogInv, LockLogType
<1>3. \A d \in Honest : d # c =>
        wal'[d] = wal[d] /\ known'[d] = known[d] /\ task'[d] = task[d] /\ server'[d] = server[d]
  BY DEF LockLogInv, LockLogType
<1> QED
  BY <1>1, <1>2, <1>3, OneCertifierMoves

\* What the invariant says of one certifier.
LEMMA LockLogFacts ==
  ASSUME LockLogInv, NEW c \in Honest
  PROVE  /\ wal[c] \in Seq(LockRecords \cup {TornRecord}) /\ known[c] \in SUBSET LockRecords
         /\ task[c] \in SUBSET Jobs /\ server[c] \in {"up", "down", "refused"}
         /\ wal = [wal EXCEPT ![c] = wal[c]] /\ known = [known EXCEPT ![c] = known[c]]
         /\ task = [task EXCEPT ![c] = task[c]] /\ server = [server EXCEPT ![c] = server[c]]
         /\ server[c] # "up" => task[c] = {} /\ known[c] = {}
         /\ c \notin forgetful => Remembers(c)
BY DEF LockLogInv, LockLogType

\* A request finds the coins free, and the records are still to be written.
LEMMA ReceiveStep ==
  ASSUME LockLogInv, NEW c \in Honest, NEW t \in Spends, Receive(c, t)
  PROVE  LockLogInv'
<1> DEFINE job == [spend |-> t, rest |-> PendingInputs(c, t)]
<1>1. /\ server[c] = "up" /\ ~ LockedElsewhere(c, t)
      /\ task' = [task EXCEPT ![c] = {job}]
      /\ UNCHANGED <<wal, known, server, shares, forgetful, taken>>
  BY DEF Receive
<1>2. job \in Jobs
  BY RecordsForType DEF PendingInputs, Jobs
<1>3. ASSUME c \notin forgetful' PROVE Remembers(c)'
  <2>1. Remembers(c)
    BY <1>1, <1>3, LockLogFacts
  <2>2. task'[c] = {job} /\ job.spend = t /\ job.rest = PendingInputs(c, t)
    BY <1>1 DEF LockLogInv, LockLogType
  <2> HIDE DEF job
  <2>3. ~ LockedElsewhere(c, t)'
    BY <1>1 DEF LockedElsewhere
  <2>4. \A n \in DOMAIN CoinsOf[t] :
          n \in job.rest \/ LockRecord(CoinsOf[t][n], t) \in RecordsOf(wal[c])
    BY <2>1, <2>2 DEF PendingInputs, Remembers
  <2> QED
    BY <1>1, <2>1, <2>2, <2>3, <2>4 DEF Remembers
<1>4. LockLogType'
  BY <1>1, <1>2 DEF LockLogInv, LockLogType
<1> HIDE DEF job
<1>5. \A d \in Honest : d # c =>
        wal'[d] = wal[d] /\ known'[d] = known[d] /\ task'[d] = task[d] /\ server'[d] = server[d]
  BY <1>1 DEF LockLogInv, LockLogType
<1> QED
  BY <1>1, <1>3, <1>4, <1>5, OneCertifierMoves

\* One record more in the log is one more in memory.
LEMMA WriteRecordStep ==
  ASSUME LockLogInv, NEW c \in Honest, WriteRecord(c)
  PROVE  LockLogInv'
<1>0. PICK job \in task[c] : \E n \in job.rest :
        /\ wal' = [wal EXCEPT ![c] = Append(@, LockRecord(CoinsOf[job.spend][n], job.spend))]
        /\ task' = [task EXCEPT ![c] = {[job EXCEPT !.rest = @ \ {n}]}]
        /\ UNCHANGED <<known, server, shares, forgetful, taken>>
  BY Zenon DEF WriteRecord
<1>1. PICK n \in job.rest :
        /\ wal' = [wal EXCEPT ![c] = Append(@, LockRecord(CoinsOf[job.spend][n], job.spend))]
        /\ task' = [task EXCEPT ![c] = {[job EXCEPT !.rest = @ \ {n}]}]
        /\ UNCHANGED <<known, server, shares, forgetful, taken>>
  BY <1>0
<1> DEFINE t == job.spend
           r == LockRecord(CoinsOf[t][n], t)
           new == [spend |-> t, rest |-> job.rest \ {n}]
           w == Append(wal[c], r)
<1>2. job \in Jobs /\ t \in Spends /\ server[c] = "up"
  BY <1>1, LockLogFacts DEF Jobs
<1>3. task' = [task EXCEPT ![c] = {new}] /\ new \in Jobs
  <2>1. [job EXCEPT !.rest = @ \ {n}] = new
    BY <1>2 DEF Jobs
  <2>2. new \in Jobs
    BY <1>2 DEF Jobs
  <2> QED
    BY <1>1, <2>1, <2>2
<1>4. r \in LockRecords /\ w \in Seq(LockRecords \cup {TornRecord})
  BY <1>1, <1>2, LockLogFacts, RecordsForType DEF Jobs
<1>5. ASSUME c \notin forgetful' PROVE Remembers(c)'
  <2>1. Remembers(c) /\ wal[c] \in Seq(LockRecords \cup {TornRecord})
    BY <1>1, <1>5, LockLogFacts
  <2>2. task'[c] = {new} /\ wal'[c] = w /\ new.spend = t /\ new.rest = job.rest \ {n}
    BY <1>1, <1>3 DEF LockLogInv, LockLogType
  <2> HIDE DEF new
  <2>3. RecordsOf(w) = RecordsOf(wal[c]) \cup {r}
    BY <1>4, <2>1, LockRecordIsWhole, RecordsOfAppend
  <2>4. ~ LockedElsewhere(c, t)'
    BY <1>1, <2>1 DEF LockedElsewhere, Remembers
  <2>5. \A m \in DOMAIN CoinsOf[t] :
          m \in job.rest \/ LockRecord(CoinsOf[t][m], t) \in RecordsOf(wal[c])
    BY <1>1, <2>1 DEF Remembers
  <2>6. \A m \in DOMAIN CoinsOf[t] :
          m \in new.rest \/ LockRecord(CoinsOf[t][m], t) \in RecordsOf(w)
    BY <2>2, <2>3, <2>5
  <2> HIDE DEF w, r, t
  <2> QED
    BY <1>1, <2>1, <2>2, <2>3, <2>4, <2>6 DEF Remembers
<1>6. wal' = [wal EXCEPT ![c] = w]
  BY <1>1
<1> HIDE DEF new, w
<1>7. LockLogType'
  <2>1. wal' \in [Honest -> Seq(LockRecords \cup {TornRecord})]
    BY <1>4, <1>6 DEF LockLogInv, LockLogType
  <2>2. task' \in [Honest -> SUBSET Jobs]
    BY <1>3 DEF LockLogInv, LockLogType
  <2> QED
    BY <1>1, <2>1, <2>2 DEF LockLogInv, LockLogType
<1>8. \A d \in Honest : d # c =>
        wal'[d] = wal[d] /\ known'[d] = known[d] /\ task'[d] = task[d] /\ server'[d] = server[d]
  BY <1>1 DEF LockLogInv, LockLogType
<1> QED
  BY <1>1, <1>2, <1>5, <1>7, <1>8, OneCertifierMoves

\* A share is given for a spend that is in the log with all its coins.
LEMMA SignSpendStep ==
  ASSUME LockLogInv, NEW c \in Honest, SignSpend(c)
  PROVE  LockLogInv'
<1>1. PICK job \in task[c] :
        /\ job.rest = {}
        /\ known' = [known EXCEPT ![c] = @ \cup RecordsFor(job.spend)]
        /\ shares' = shares \cup {<<c, job.spend>>}
        /\ task' = [task EXCEPT ![c] = {}]
        /\ UNCHANGED <<wal, server, forgetful, taken>>
  BY Zenon DEF SignSpend, RecordsFor
<1> DEFINE t == job.spend
<1>2. t \in Spends /\ server[c] = "up" /\ RecordsFor(t) \subseteq LockRecords
  BY <1>1, LockLogFacts, RecordsForType DEF Jobs
<1>3. LockLogType'
  BY <1>1, <1>2 DEF LockLogInv, LockLogType
<1>4. \A d \in Honest : server'[d] # "up" => task'[d] = {} /\ known'[d] = {}
  BY <1>1, <1>2 DEF LockLogInv, LockLogType
<1>5. ASSUME NEW d \in Honest \ forgetful', d # c PROVE Remembers(d)'
  <2>1. Remembers(d)
    BY <1>1 DEF LockLogInv
  <2>2. /\ wal'[d] = wal[d] /\ known'[d] = known[d] /\ task'[d] = task[d] /\ server'[d] = server[d]
        /\ \A u \in Spends : <<d, u>> \in shares' => <<d, u>> \in shares
    BY <1>1, <1>5 DEF LockLogInv, LockLogType
  <2> QED
    BY <2>1, <2>2, StillRemembers
<1>6. ASSUME c \notin forgetful' PROVE Remembers(c)'
  <2>1. Remembers(c)
    BY <1>1, <1>6, LockLogFacts
  <2>2. task'[c] = {} /\ known'[c] = known[c] \cup RecordsFor(t) /\ wal' = wal
    BY <1>1 DEF LockLogInv, LockLogType
  <2>3. RecordsFor(t) \subseteq RecordsOf(wal[c])
    BY <1>1, <2>1 DEF Remembers, RecordsFor
  <2>4. \A u \in Spends : <<c, u>> \in shares' <=> <<c, u>> \in shares \/ u = t
    BY <1>1
  <2>5. \A u \in Spends : Clash(t, u) \/ Clash(u, t) => <<c, u>> \notin shares
    <3> SUFFICES ASSUME NEW u \in Spends, Clash(t, u) \/ Clash(u, t), <<c, u>> \in shares
                 PROVE  FALSE
      OBVIOUS
    <3>1. PICK m \in DOMAIN CoinsOf[u], n \in DOMAIN CoinsOf[t] :
            CoinsOf[u][m] = CoinsOf[t][n] /\ u # t
      BY DEF Clash, CoinSet
    <3>2. LockRecord(CoinsOf[u][m], u) \in known[c]
      BY <1>2, <2>1, <3>1 DEF Remembers, RecordsFor
    <3>3. LockedElsewhere(c, t)
      BY <3>1, <3>2 DEF LockedElsewhere, LockRecord
    <3> QED
      BY <1>1, <2>1, <3>3 DEF Remembers
  <2> HIDE DEF t
  <2>6. \A u, x \in Spends : Clash(u, x) => ~ (<<c, u>> \in shares' /\ <<c, x>> \in shares')
    BY <2>1, <2>4, <2>5 DEF Remembers, Clash
  <2> QED
    BY <1>1, <2>1, <2>2, <2>3, <2>4, <2>6 DEF Remembers
<1>7. \A d \in Honest \ forgetful' : Remembers(d)'
  BY <1>5, <1>6
<1>8. \A k \in Cores : \A u \in taken'[k] : SpendCertified(u)'
  BY <1>1, CertifiedStays DEF LockLogInv
<1> QED
  BY <1>3, <1>4, <1>7, <1>8 DEF LockLogInv

\* An interrupted write leaves the records as they were.
LEMMA LeavesPartFacts ==
  ASSUME LockLogInv, NEW c \in Honest, LeavesPart(c)
  PROVE  \E w \in Seq(LockRecords \cup {TornRecord}) :
           wal' = [wal EXCEPT ![c] = w] /\ RecordsOf(w) = RecordsOf(wal[c])
<1>1. wal[c] \in Seq(LockRecords \cup {TornRecord}) /\ wal = [wal EXCEPT ![c] = wal[c]]
  BY LockLogFacts
<1>2. CASE UNCHANGED wal
  BY <1>1, <1>2
<1>3. CASE wal' = [wal EXCEPT ![c] = Append(@, TornRecord)]
  <2>1. Append(wal[c], TornRecord) \in Seq(LockRecords \cup {TornRecord})
    BY <1>1
  <2>2. RecordsOf(Append(wal[c], TornRecord)) = RecordsOf(wal[c])
    <3> DEFINE S == LockRecords \cup {TornRecord}
               s == wal[c]
    <3>1. s \in Seq(S) /\ TornRecord \in S
      BY <1>1
    <3> HIDE DEF S, s
    <3>2. RecordsOf(Append(s, TornRecord)) = RecordsOf(s) \cup ({TornRecord} \ {TornRecord})
      BY <3>1, RecordsOfAppend
    <3> QED
      BY <3>2 DEF s
  <2>3. wal' = [wal EXCEPT ![c] = Append(wal[c], TornRecord)]
    BY <1>3
  <2> QED
    BY <2>1, <2>2, <2>3
<1> QED
  BY <1>2, <1>3 DEF LeavesPart

\* A torn append ends the process, with the records before it in the log.
LEMMA FailAppendStep ==
  ASSUME LockLogInv, NEW c \in Honest, FailAppend(c)
  PROVE  LockLogInv'
<1>1. PICK w \in Seq(LockRecords \cup {TornRecord}) :
        wal' = [wal EXCEPT ![c] = w] /\ RecordsOf(w) = RecordsOf(wal[c])
  BY LeavesPartFacts DEF FailAppend
<1>2. task' = [task EXCEPT ![c] = {}] /\ UNCHANGED <<known, server, shares, forgetful, taken>>
  BY DEF FailAppend
<1>3. ASSUME c \notin forgetful' PROVE Remembers(c)'
  <2>1. Remembers(c)
    BY <1>2, <1>3, LockLogFacts
  <2>2. task'[c] = {} /\ wal'[c] = w
    BY <1>1, <1>2 DEF LockLogInv, LockLogType
  <2> QED
    BY <1>1, <1>2, <2>1, <2>2 DEF Remembers
<1> QED
  BY <1>1, <1>2, <1>3, LockLogFacts, CertifierStep

\* A kill loses the memory and keeps the log.
LEMMA KillCertifierStep ==
  ASSUME LockLogInv, NEW c \in Honest, KillCertifier(c)
  PROVE  LockLogInv'
<1>1. PICK w \in Seq(LockRecords \cup {TornRecord}) :
        wal' = [wal EXCEPT ![c] = w] /\ RecordsOf(w) = RecordsOf(wal[c])
  BY LeavesPartFacts DEF KillCertifier
<1>2. /\ server' = [server EXCEPT ![c] = "down"]
      /\ task' = [task EXCEPT ![c] = {}] /\ known' = [known EXCEPT ![c] = {}]
      /\ UNCHANGED <<shares, forgetful, taken>>
  BY DEF KillCertifier
<1>3. ASSUME c \notin forgetful' PROVE Remembers(c)'
  <2>1. Remembers(c)
    BY <1>2, <1>3, LockLogFacts
  <2>2. task'[c] = {} /\ wal'[c] = w /\ known'[c] = {} /\ server'[c] = "down"
    BY <1>1, <1>2 DEF LockLogInv, LockLogType
  <2> QED
    BY <1>1, <1>2, <2>1, <2>2 DEF Remembers
<1> QED
  BY <1>1, <1>2, <1>3, LockLogFacts, CertifierStep

\* Who gets an older log has forgotten.
LEMMA RestoreSnapshotStep ==
  ASSUME LockLogInv, NEW c \in Honest, RestoreSnapshot(c)
  PROVE  LockLogInv'
<1>1. PICK n \in 0..(Len(wal[c]) - 1) : wal' = [wal EXCEPT ![c] = SubSeq(@, 1, n)]
  BY Zenon DEF RestoreSnapshot
<1>2. SubSeq(wal[c], 1, n) \in Seq(LockRecords \cup {TornRecord})
  <2>1. wal[c] \in Seq(LockRecords \cup {TornRecord})
    BY LockLogFacts
  <2> QED
    BY <2>1
<1>3. /\ server' = [server EXCEPT ![c] = "down"] /\ forgetful' = forgetful \cup {c}
      /\ server[c] # "up" /\ UNCHANGED <<known, task, shares, taken>>
  BY DEF RestoreSnapshot
<1>4. wal' = [wal EXCEPT ![c] = SubSeq(wal[c], 1, n)]
  BY <1>1
<1> QED
  BY <1>2, <1>3, <1>4, LockLogFacts, CertifierStep

\* A start that accepts the file knows what it holds.
LEMMA StartWithStep ==
  ASSUME LockLogInv, NEW c \in Honest, server[c] = "down", StartWith(c, wal[c])
  PROVE  LockLogInv'
<1>1. PICK n \in 0..Len(wal[c]) :
        TornAt(wal[c]) = (n + 1)..Len(wal[c]) /\ wal' = [wal EXCEPT ![c] = SubSeq(wal[c], 1, n)]
  BY Zenon DEF StartWith
<1>2. /\ known' = [known EXCEPT ![c] = RecordsOf(wal[c])]
      /\ server' = [server EXCEPT ![c] = "up"]
      /\ UNCHANGED <<task, shares, forgetful, taken>>
  BY DEF StartWith
<1> DEFINE w == SubSeq(wal[c], 1, n)
<1>3. /\ wal[c] \in Seq(LockRecords \cup {TornRecord}) /\ task[c] = {}
      /\ w \in Seq(LockRecords \cup {TornRecord})
  <2>1. wal[c] \in Seq(LockRecords \cup {TornRecord}) /\ task[c] = {}
    BY LockLogFacts
  <2> QED
    BY <2>1
<1>4. RecordsOf(w) = RecordsOf(wal[c])
  BY <1>1, <1>3, RecordsOfCut
<1>5. RecordsOf(wal[c]) \in SUBSET LockRecords
  BY <1>3 DEF RecordsOf
<1>6. wal' = [wal EXCEPT ![c] = w]
  BY <1>1
<1> HIDE DEF w
<1>7. ASSUME c \notin forgetful' PROVE Remembers(c)'
  <2>1. Remembers(c)
    BY <1>2, <1>7, LockLogFacts
  <2>2. task'[c] = {} /\ wal'[c] = w /\ known'[c] = RecordsOf(wal[c]) /\ server'[c] = "up"
    BY <1>2, <1>3, <1>6 DEF LockLogInv, LockLogType
  <2> QED
    BY <1>2, <1>4, <2>1, <2>2 DEF Remembers
<1> QED
  BY <1>2, <1>3, <1>5, <1>6, <1>7, LockLogFacts, CertifierStep

\* A log that is not accepted leaves the server out.
LEMMA RefuseStep ==
  ASSUME LockLogInv, NEW c \in Honest, server[c] = "down", Refuse(c)
  PROVE  LockLogInv'
<1>1. /\ server' = [server EXCEPT ![c] = "refused"]
      /\ UNCHANGED <<wal, known, task, shares, forgetful, taken>>
  BY DEF Refuse
<1>2. ASSUME c \notin forgetful' PROVE Remembers(c)'
  <2>1. Remembers(c) /\ server'[c] = "refused"
    BY <1>1, <1>2, LockLogFacts DEF LockLogInv, LockLogType
  <2> QED
    BY <1>1, <2>1 DEF Remembers, LockedElsewhere
<1> QED
  BY <1>1, <1>2, LockLogFacts, CertifierStep

\* Who reads a torn record as another has forgotten.
LEMMA OpenMisreadStep ==
  ASSUME LockLogInv, NEW c \in Honest, OpenMisread(c)
  PROVE  LockLogInv'
<1> DEFINE s == wal[c]
           read == {s[n] : n \in {m \in DOMAIN s : (\A k \in TornAt(s) : m < k)
                                                   \/ (\A k \in TornAt(s) : m > k)}}
<1>1. /\ known' = [known EXCEPT ![c] = read] /\ server' = [server EXCEPT ![c] = "up"]
      /\ server[c] = "down" /\ forgetful' = forgetful \cup {c}
      /\ UNCHANGED <<wal, task, shares, taken>>
  BY Zenon DEF OpenMisread
<1>2. read \in SUBSET LockRecords
  <2>1. s \in Seq(LockRecords \cup {TornRecord})
    BY LockLogFacts
  <2> HIDE DEF s
  <2>2. \A m \in DOMAIN s : s[m] # TornRecord => s[m] \in LockRecords
    BY <2>1
  <2>3. \A m \in DOMAIN s : m \in Nat /\ (s[m] = TornRecord => m \in TornAt(s))
    BY <2>1 DEF TornAt
  <2> QED
    BY <2>2, <2>3
<1> HIDE DEF read
<1> QED
  BY <1>1, <1>2, LockLogFacts, CertifierStep

\* The core adds no share.
LEMMA ApplySpendStep ==
  ASSUME LockLogInv, NEW k \in Cores, NEW t \in Spends, ApplySpend(k, t)
  PROVE  LockLogInv'
<1>1. /\ SpendCertified(t) /\ taken' = [taken EXCEPT ![k] = @ \cup {t}]
      /\ UNCHANGED <<wal, known, task, server, shares, forgetful>>
  BY DEF ApplySpend
<1>2. LockLogType'
  BY <1>1 DEF LockLogInv, LockLogType
<1>3. \A c \in Honest \ forgetful' : Remembers(c)'
  BY <1>1, StillRemembers DEF LockLogInv
<1>4. \A j \in Cores : \A u \in taken'[j] : SpendCertified(u)'
  BY <1>1, CertifiedStays DEF LockLogInv, LockLogType
<1> QED
  BY <1>1, <1>2, <1>3, <1>4 DEF LockLogInv

\* Every step keeps the invariant.
LEMMA LockLogStep == LockLogInv /\ [SpendLocksNext]_lockLogVars => LockLogInv'
<1> SUFFICES ASSUME LockLogInv, [SpendLocksNext]_lockLogVars PROVE LockLogInv'
  OBVIOUS
<1>1. CASE UNCHANGED lockLogVars
  <2>1. UNCHANGED <<wal, known, task, server, shares, forgetful, taken>>
    BY <1>1 DEF lockLogVars
  <2>2. \A c \in Honest \ forgetful' : Remembers(c)'
    BY <2>1, StillRemembers DEF LockLogInv
  <2>3. \A j \in Cores : \A u \in taken'[j] : SpendCertified(u)'
    BY <2>1, CertifiedStays DEF LockLogInv
  <2> QED
    BY <2>1, <2>2, <2>3 DEF LockLogInv, LockLogType
<1>2. CASE \E c \in Honest : OpenChecked(c) \/ OpenWhole(c)
  BY <1>2, StartWithStep, RefuseStep DEF OpenChecked, OpenWhole
<1> QED
  BY <1>1, <1>2, ReceiveStep, WriteRecordStep, SignSpendStep, FailAppendStep, KillCertifierStep,
     RestoreSnapshotStep, OpenMisreadStep, ApplySpendStep DEF SpendLocksNext

\* For every committee, every set of spends and any number of failed writes, kills and
\* restarts (SEC-003 main.rs lock_inputs_before_signing and open): an honest certifier
\* never signs two spends of one coin unless its file was restored or read out of step,
\* and while no file was, no two cores spend a coin differently.
THEOREM OnlyForgettersConflict == SpendLocksSpec => []ConflictsNeedAmnesia
<1>1. LockLogInv => ConflictsNeedAmnesia
  <2> SUFFICES ASSUME LockLogInv PROVE ConflictsNeedAmnesia
    OBVIOUS
  <2>1. \A c \in Honest \ forgetful, t, u \in Spends :
          Clash(t, u) => ~ {<<c, t>>, <<c, u>>} \subseteq shares
    BY DEF LockLogInv, Remembers
  <2>2. ASSUME forgetful = {}, NEW k \in Cores, NEW l \in Cores,
               NEW t \in taken[k], NEW u \in taken[l], Clash(t, u)
        PROVE  FALSE
    <3>1. t \in Spends /\ u \in Spends /\ SpendCertified(t) /\ SpendCertified(u)
      BY DEF LockLogInv, LockLogType
    <3>2. PICK v \in Honest : v \in SharesOf(t) /\ v \in SharesOf(u)
      BY <3>1, QuorumsShareHonest DEF SpendCertified
    <3>3. <<v, t>> \in shares /\ <<v, u>> \in shares
      BY <3>2 DEF SharesOf, Honest
    <3> QED
      BY <2>1, <2>2, <3>1, <3>3
  <2> QED
    BY <2>1, <2>2 DEF ConflictsNeedAmnesia
<1> QED
  BY <1>1, LockLogInit, LockLogStep, PTL DEF SpendLocksSpec

-----------------------------------------------------------------------------
(* Sums over finite sets                                                   *)

\* A nonempty set of numbers has a least one.
LEMMA LeastElement ==
  ASSUME NEW S \in SUBSET Nat, S # {}
  PROVE  \E n \in S : \A m \in S : n <= m
<1>1. PICK n \in S : \A m \in S : ~ (<<m, n>> \in OpToRel(<, Nat))
  BY NatLessThanWellFounded, WFMin
<1>2. \A m \in S : ~ (m < n)
  BY <1>1, Zenon DEF OpToRel
<1> QED
  BY <1>2

\* Induction over the subsets of a finite set, of which G are the good ones.
LEMMA SubsetInduction ==
  ASSUME NEW S, IsFiniteSet(S), NEW G,
         \A T \in SUBSET S : (\A U \in SUBSET T : U # T => U \in G) => T \in G
  PROVE  S \in G
<1> DEFINE Bad == {T \in SUBSET S : T \notin G}
           Sizes == {Cardinality(T) : T \in Bad}
<1> SUFFICES ASSUME S \notin G PROVE FALSE
  OBVIOUS
<1>1. \A T \in SUBSET S : IsFiniteSet(T) /\ Cardinality(T) \in Nat
  BY FS_Subset, FS_CardinalityType
<1>2. PICK n \in Sizes : \A m \in Sizes : n <= m
  <2>1. Sizes \in SUBSET Nat
    BY <1>1
  <2>2. Cardinality(S) \in Sizes
    OBVIOUS
  <2> HIDE DEF Sizes
  <2> QED
    BY <2>1, <2>2, LeastElement
<1>3. PICK T \in Bad : Cardinality(T) = n
  BY <1>2
<1>4. ASSUME NEW U \in SUBSET T, U # T PROVE U \in G
  <2>1. Cardinality(U) <= Cardinality(T) /\ Cardinality(U) # Cardinality(T)
    BY <1>1, <1>3, <1>4, FS_Subset
  <2>2. U \in SUBSET S /\ Cardinality(U) \in Nat /\ Cardinality(T) \in Nat
    BY <1>1, <1>3
  <2> SUFFICES ASSUME U \notin G PROVE FALSE
    OBVIOUS
  <2>3. Cardinality(U) \in Sizes
    BY <2>2
  <2> HIDE DEF Sizes
  <2> QED
    BY <1>2, <1>3, <2>1, <2>2, <2>3
<1> QED
  BY <1>3, <1>4

\* The sums of f over the sets of Ts, as the folds of the community modules take them.
Sums(f, Ts, g) ==
  g = [s \in Ts |-> IF s = {} THEN 0
                    ELSE f[CHOOSE x \in s : TRUE] + g[s \ {CHOOSE x \in s : TRUE}]]

Tally(f, S) == (CHOOSE g : Sums(f, SUBSET S, g))[S]

\* Two functions that solve the equations of a sum agree on every subset.
LEMMA SumsAgree ==
  ASSUME NEW f, NEW S, IsFiniteSet(S), NEW g, NEW h,
         Sums(f, SUBSET S, g), Sums(f, SUBSET S, h)
  PROVE  g[S] = h[S]
<1> DEFINE G == {T \in SUBSET S : g[T] = h[T]}
<1>a. \A T \in SUBSET S :
        /\ g[T] = IF T = {} THEN 0
                  ELSE f[CHOOSE x \in T : TRUE] + g[T \ {CHOOSE x \in T : TRUE}]
        /\ h[T] = IF T = {} THEN 0
                  ELSE f[CHOOSE x \in T : TRUE] + h[T \ {CHOOSE x \in T : TRUE}]
  BY Zenon DEF Sums
<1>1. ASSUME NEW T \in SUBSET S, \A U \in SUBSET T : U # T => U \in G
      PROVE  T \in G
  <2>1. CASE T = {}
    <3>1. g[T] = 0 /\ h[T] = 0
      BY <1>a, <2>1, Zenon
    <3> QED
      BY <3>1
  <2>2. CASE T # {}
    <3> DEFINE x == CHOOSE y \in T : TRUE
    <3>1. x \in T
      BY <2>2
    <3>2. g[T] = f[x] + g[T \ {x}] /\ h[T] = f[x] + h[T \ {x}]
      BY <1>a, <2>2, Zenon
    <3> HIDE DEF x
    <3>3. T \ {x} \in G
      BY <1>1, <3>1
    <3> QED
      BY <3>2, <3>3
  <2> QED
    BY <2>1, <2>2
<1> HIDE DEF G
<1>2. S \in G
  BY <1>1, SubsetInduction
<1> QED
  BY <1>2 DEF G

\* The sum over a set that is not empty is that over the set without the element that
\* CHOOSE takes, and this element.
LEMMA TallyStep ==
  ASSUME NEW f, NEW S, IsFiniteSet(S)
  PROVE  Tally(f, S) = IF S = {} THEN 0
                       ELSE f[CHOOSE x \in S : TRUE] + Tally(f, S \ {CHOOSE x \in S : TRUE})
<1> DEFINE c(s) == CHOOSE x \in s : TRUE
           Right(s) == IF s = {} THEN 0 ELSE f[c(s)] + Tally(f, s \ {c(s)})
           G == {T \in SUBSET S : Tally(f, T) = Right(T)}
<1>1. ASSUME NEW T \in SUBSET S, \A U \in SUBSET T : U # T => U \in G
      PROVE  T \in G
  <2> DEFINE g == [s \in SUBSET T |-> Right(s)]
             found == CHOOSE h : Sums(f, SUBSET T, h)
  <2>1. \A s \in SUBSET T : s # T => g[s] = Tally(f, s)
    BY <1>1
  <2>2. \A s \in SUBSET T : s # {} => c(s) \in s /\ s \ {c(s)} \in SUBSET T /\ s \ {c(s)} # T
    OBVIOUS
  <2>3. Sums(f, SUBSET T, g)
    <3>1. \A s \in SUBSET T : s # {} => g[s \ {c(s)}] = Tally(f, s \ {c(s)})
      BY <2>1, <2>2
    <3>2. \A s \in SUBSET T : Right(s) = IF s = {} THEN 0 ELSE f[c(s)] + g[s \ {c(s)}]
      <4> SUFFICES ASSUME NEW s \in SUBSET T
                   PROVE  Right(s) = IF s = {} THEN 0 ELSE f[c(s)] + g[s \ {c(s)}]
        OBVIOUS
      <4>1. s # {} => g[s \ {c(s)}] = Tally(f, s \ {c(s)})
        BY <3>1
      <4> QED
        BY <4>1, Zenon
    <3> QED
      BY <3>2, Zenon DEF Sums
  <2>4. Sums(f, SUBSET T, found)
    BY <2>3, Zenon
  <2>5. IsFiniteSet(T)
    BY FS_Subset
  <2>6. found[T] = g[T]
    <3> HIDE DEF found, g
    <3> QED
      BY <2>3, <2>4, <2>5, SumsAgree
  <2>7. Tally(f, T) = found[T]
    BY Zenon DEF Tally
  <2>8. g[T] = Right(T)
    BY Zenon
  <2> QED
    BY <2>6, <2>7, <2>8
<1> HIDE DEF G
<1>2. S \in G
  BY <1>1, SubsetInduction
<1> QED
  BY <1>2 DEF G

\* Nothing is worth nothing.
LEMMA TallyNothing == ASSUME NEW f PROVE Tally(f, {}) = 0
BY TallyStep, FS_EmptySet

\* Any element can be taken out first.
LEMMA TallyRemove ==
  ASSUME NEW S, IsFiniteSet(S), NEW f, \A y \in S : f[y] \in Nat, NEW x \in S
  PROVE  Tally(f, S) = f[x] + Tally(f, S \ {x})
<1> DEFINE G == {T \in SUBSET S : /\ Tally(f, T) \in Nat
                                  /\ \A y \in T : Tally(f, T) = f[y] + Tally(f, T \ {y})}
<1>1. ASSUME NEW T \in SUBSET S, \A U \in SUBSET T : U # T => U \in G
      PROVE  T \in G
  <2>0. IsFiniteSet(T)
    BY FS_Subset
  <2>1. CASE T = {}
    BY <2>1, TallyNothing
  <2>2. CASE T # {}
    <3> DEFINE c == CHOOSE y \in T : TRUE
    <3>1. c \in T
      BY <2>2
    <3>2. Tally(f, T) = f[c] + Tally(f, T \ {c})
      BY <2>0, <2>2, TallyStep
    <3> HIDE DEF c
    <3>3. T \ {c} \in G
      BY <1>1, <3>1
    <3>4. ASSUME NEW y \in T PROVE Tally(f, T) = f[y] + Tally(f, T \ {y})
      <4>1. CASE y = c
        BY <3>2, <4>1
      <4>2. CASE y # c
        <5>1. T \ {y} \in G
          BY <1>1
        <5>2. T \ {y, c} \in G
          BY <1>1
        <5>3. (T \ {y}) \ {c} = T \ {y, c} /\ (T \ {c}) \ {y} = T \ {y, c}
          OBVIOUS
        <5>4. Tally(f, T \ {y}) = f[c] + Tally(f, T \ {y, c})
          BY <3>1, <4>2, <5>1, <5>3
        <5>5. Tally(f, T \ {c}) = f[y] + Tally(f, T \ {y, c})
          BY <3>3, <4>2, <5>3
        <5>6. f[y] \in Nat /\ f[c] \in Nat /\ Tally(f, T \ {y, c}) \in Nat
          BY <3>1, <5>2
        <5> QED
          BY <3>2, <5>4, <5>5, <5>6
      <4> QED
        BY <4>1, <4>2
    <3>5. Tally(f, T) \in Nat
      BY <3>1, <3>2, <3>3
    <3> QED
      BY <3>4, <3>5
  <2> QED
    BY <2>1, <2>2
<1> HIDE DEF G
<1>2. S \in G
  BY <1>1, SubsetInduction
<1> QED
  BY <1>2 DEF G

\* A sum of numbers is a number.
LEMMA TallyType ==
  ASSUME NEW S, IsFiniteSet(S), NEW f, \A y \in S : f[y] \in Nat
  PROVE  Tally(f, S) \in Nat
<1> DEFINE G == {T \in SUBSET S : Tally(f, T) \in Nat}
<1>1. ASSUME NEW T \in SUBSET S, \A U \in SUBSET T : U # T => U \in G
      PROVE  T \in G
  <2>1. CASE T = {}
    BY <2>1, TallyNothing
  <2>2. CASE T # {}
    <3>1. PICK y \in T : TRUE
      BY <2>2
    <3>2. IsFiniteSet(T) /\ T \ {y} \in G
      BY <1>1, FS_Subset
    <3>3. Tally(f, T) = f[y] + Tally(f, T \ {y})
      BY <3>2, TallyRemove
    <3> QED
      BY <3>2, <3>3
  <2> QED
    BY <2>1, <2>2
<1> HIDE DEF G
<1>2. S \in G
  BY <1>1, SubsetInduction
<1> QED
  BY <1>2 DEF G

\* A sum depends on nothing but the summands: T is S with other names.
LEMMA TallyRenamed ==
  ASSUME NEW S, IsFiniteSet(S), NEW f, \A y \in S : f[y] \in Nat,
         NEW R, NEW name \in [S -> R], NEW g, \A y \in S : g[name[y]] = f[y],
         \A x, y \in S : name[x] = name[y] => x = y
  PROVE  Tally(g, {name[y] : y \in S}) = Tally(f, S)
<1> DEFINE Named(T) == {name[y] : y \in T}
           G == {T \in SUBSET S : /\ IsFiniteSet(Named(T))
                                  /\ Tally(g, Named(T)) = Tally(f, T)}
<1>1. ASSUME NEW T \in SUBSET S, \A U \in SUBSET T : U # T => U \in G
      PROVE  T \in G
  <2>1. CASE T = {}
    <3>1. Named(T) = {}
      BY <2>1
    <3> QED
      BY <2>1, <3>1, TallyNothing, FS_EmptySet
  <2>2. CASE T # {}
    <3>1. PICK y \in T : TRUE
      BY <2>2
    <3>2. IsFiniteSet(T) /\ T \ {y} \in G
      BY <1>1, FS_Subset
    <3>3. Named(T) = Named(T \ {y}) \cup {name[y]} /\ name[y] \notin Named(T \ {y})
      OBVIOUS
    <3>4. IsFiniteSet(Named(T))
      <4>1. IsFiniteSet(Named(T \ {y}))
        BY <3>2
      <4> HIDE DEF Named
      <4>2. IsFiniteSet(Named(T \ {y}) \cup {name[y]})
        BY <4>1, FS_AddElement
      <4> QED
        BY <3>3, <4>2, Zenon
    <3>5. Named(T) \ {name[y]} = Named(T \ {y}) /\ name[y] \in Named(T)
      BY <3>3
    <3>6. \A z \in Named(T) : g[z] \in Nat
      OBVIOUS
    <3>7. Tally(g, Named(T)) = g[name[y]] + Tally(g, Named(T) \ {name[y]})
      <4> HIDE DEF Named
      <4> QED
        BY <3>4, <3>5, <3>6, TallyRemove
    <3>8. Tally(f, T) = f[y] + Tally(f, T \ {y})
      BY <3>2, TallyRemove
    <3> QED
      BY <3>2, <3>4, <3>5, <3>7, <3>8
  <2> QED
    BY <2>1, <2>2
<1> HIDE DEF G
<1>2. S \in G
  BY <1>1, SubsetInduction
<1> QED
  BY <1>2 DEF G

\* Sums over sets that are apart add up.
LEMMA TallyApart ==
  ASSUME NEW S, IsFiniteSet(S), NEW T, IsFiniteSet(T), S \cap T = {},
         NEW f, \A y \in S \cup T : f[y] \in Nat
  PROVE  Tally(f, S \cup T) = Tally(f, S) + Tally(f, T)
<1> DEFINE G == {U \in SUBSET T : Tally(f, S \cup U) = Tally(f, S) + Tally(f, U)}
<1>1. ASSUME NEW U \in SUBSET T, \A V \in SUBSET U : V # U => V \in G
      PROVE  U \in G
  <2>0. Tally(f, S) \in Nat
    BY TallyType
  <2>1. CASE U = {}
    <3>1. S \cup U = S
      BY <2>1
    <3> QED
      BY <2>0, <2>1, <3>1, TallyNothing
  <2>2. CASE U # {}
    <3>1. PICK y \in U : TRUE
      BY <2>2
    <3>2. IsFiniteSet(U) /\ IsFiniteSet(S \cup U) /\ U \ {y} \in G
      BY <1>1, FS_Subset, FS_Union
    <3>3. (S \cup U) \ {y} = S \cup (U \ {y})
      OBVIOUS
    <3>4. Tally(f, S \cup U) = f[y] + Tally(f, S \cup (U \ {y}))
      BY <3>2, <3>3, TallyRemove
    <3>5. Tally(f, U) = f[y] + Tally(f, U \ {y})
      BY <3>2, TallyRemove
    <3>6. f[y] \in Nat /\ Tally(f, U \ {y}) \in Nat
      <4>1. IsFiniteSet(U \ {y})
        BY <3>2, FS_Subset
      <4> QED
        BY <4>1, TallyType
    <3> QED
      BY <2>0, <3>2, <3>4, <3>5, <3>6
  <2> QED
    BY <2>1, <2>2
<1> HIDE DEF G
<1>2. T \in G
  BY <1>1, SubsetInduction
<1> QED
  BY <1>2 DEF G

-----------------------------------------------------------------------------
(* integration001: money                                                   *)

\* Every function that solves the equations of the sum gives the sum.
LEMMA SumsAreTally ==
  ASSUME NEW f, NEW S, IsFiniteSet(S), NEW h, Sums(f, SUBSET S, h)
  PROVE  h[S] = Tally(f, S)
<1> DEFINE found == CHOOSE g : Sums(f, SUBSET S, g)
<1>1. Sums(f, SUBSET S, found)
  BY Zenon
<1>2. Tally(f, S) = found[S]
  BY Zenon DEF Tally
<1> HIDE DEF found
<1> QED
  BY <1>1, <1>2, SumsAgree

\* The equations of a sum have a solution on every finite set.
LEMMA SumsExist ==
  ASSUME NEW f, NEW S, IsFiniteSet(S)
  PROVE  \E g : Sums(f, SUBSET S, g)
<1> DEFINE g == [s \in SUBSET S |-> Tally(f, s)]
<1>1. ASSUME NEW s \in SUBSET S
      PROVE  Tally(f, s) = IF s = {} THEN 0
                           ELSE f[CHOOSE x \in s : TRUE] + g[s \ {CHOOSE x \in s : TRUE}]
  <2>1. IsFiniteSet(s)
    BY FS_Subset
  <2>2. s \ {CHOOSE x \in s : TRUE} \in SUBSET S
    OBVIOUS
  <2>3. g[s \ {CHOOSE x \in s : TRUE}] = Tally(f, s \ {CHOOSE x \in s : TRUE})
    BY <2>2, Zenon
  <2> QED
    BY <2>1, <2>3, TallyStep, Zenon
<1>2. Sums(f, SUBSET S, g)
  BY <1>1, Zenon DEF Sums
<1> QED
  BY <1>2

\* What cells are worth is the sum of their amounts.
LEMMA WorthIsTally ==
  ASSUME NEW S, IsFiniteSet(S), NEW f, \A c \in S : f[c] = c.amount
  PROVE  Worth(S) = Tally(f, S)
<1> DEFINE Is(g) == g = [s \in SUBSET S |->
                           IF s = {} THEN 0
                           ELSE (CHOOSE x \in s : TRUE).amount + g[s \ {CHOOSE x \in s : TRUE}]]
           found == CHOOSE g : Is(g)
<1>1. \A s \in SUBSET S : s # {} => f[CHOOSE x \in s : TRUE] = (CHOOSE x \in s : TRUE).amount
  OBVIOUS
<1>2. ASSUME NEW g PROVE Is(g) <=> Sums(f, SUBSET S, g)
  <2>1. ASSUME NEW s \in SUBSET S
        PROVE  (IF s = {} THEN 0
                ELSE (CHOOSE x \in s : TRUE).amount + g[s \ {CHOOSE x \in s : TRUE}])
               = (IF s = {} THEN 0
                  ELSE f[CHOOSE x \in s : TRUE] + g[s \ {CHOOSE x \in s : TRUE}])
    <3>1. CASE s = {}
      BY <3>1, Zenon
    <3>2. CASE s # {}
      BY <1>1, <3>2
    <3> QED
      BY <3>1, <3>2
  <2>2. [s \in SUBSET S |-> IF s = {} THEN 0
           ELSE (CHOOSE x \in s : TRUE).amount + g[s \ {CHOOSE x \in s : TRUE}]]
        = [s \in SUBSET S |-> IF s = {} THEN 0
             ELSE f[CHOOSE x \in s : TRUE] + g[s \ {CHOOSE x \in s : TRUE}]]
    BY <2>1, Zenon
  <2> QED
    BY <2>2, Zenon DEF Sums
<1>3. Worth(S) = found[S]
  BY DEF Worth, MapThenSumSet, MapThenFoldSet
<1>4. \E g : Is(g)
  <2>1. PICK g : Sums(f, SUBSET S, g)
    BY SumsExist
  <2>2. Is(g)
    BY <1>2, <2>1
  <2> QED
    BY <2>2
<1>5. Is(found)
  BY <1>4, Zenon
<1>6. Sums(f, SUBSET S, found)
  BY <1>2, <1>5, Zenon
<1> HIDE DEF found
<1> QED
  BY <1>3, <1>6, SumsAreTally

\* So is the sum that validate_tx takes over the outputs and the fee.
LEMMA SumOfIsTally ==
  ASSUME NEW tx, NEW f, IsFiniteSet(DOMAIN Effects(tx)),
         \A n \in DOMAIN Effects(tx) : f[n] = Effects(tx)[n].amount
  PROVE  SumOf(tx) = Tally(f, DOMAIN Effects(tx))
<1> DEFINE e == Effects(tx)
           S == DOMAIN e
           Is(g) == g = [s \in SUBSET S |->
                           IF s = {} THEN 0
                           ELSE e[CHOOSE x \in s : TRUE].amount + g[s \ {CHOOSE x \in s : TRUE}]]
           found == CHOOSE g : Is(g)
<1>3. SumOf(tx) = found[S]
  BY DEF SumOf, FoldFunction, FoldFunctionOnSet, MapThenFoldSet
<1> HIDE DEF e
<1>1. \A s \in SUBSET S : s # {} => f[CHOOSE x \in s : TRUE] = e[CHOOSE x \in s : TRUE].amount
  BY DEF e
<1>2. ASSUME NEW g PROVE Is(g) <=> Sums(f, SUBSET S, g)
  <2>1. ASSUME NEW s \in SUBSET S
        PROVE  (IF s = {} THEN 0
                ELSE e[CHOOSE x \in s : TRUE].amount + g[s \ {CHOOSE x \in s : TRUE}])
               = (IF s = {} THEN 0
                  ELSE f[CHOOSE x \in s : TRUE] + g[s \ {CHOOSE x \in s : TRUE}])
    <3>1. CASE s = {}
      BY <3>1, Zenon
    <3>2. CASE s # {}
      BY <1>1, <3>2
    <3> QED
      BY <3>1, <3>2
  <2>2. [s \in SUBSET S |-> IF s = {} THEN 0
           ELSE e[CHOOSE x \in s : TRUE].amount + g[s \ {CHOOSE x \in s : TRUE}]]
        = [s \in SUBSET S |-> IF s = {} THEN 0
             ELSE f[CHOOSE x \in s : TRUE] + g[s \ {CHOOSE x \in s : TRUE}]]
    BY <2>1, Zenon
  <2> QED
    BY <2>2, Zenon DEF Sums
<1>0. IsFiniteSet(S)
  BY DEF e
<1>4. \E g : Is(g)
  <2> HIDE DEF S, Is
  <2>1. PICK g : Sums(f, SUBSET S, g)
    BY <1>0, SumsExist
  <2>2. Is(g)
    BY <1>2, <2>1
  <2> QED
    BY <2>2
<1>5. Is(found)
  BY <1>4, Zenon
<1>6. Sums(f, SUBSET S, found)
  BY <1>2, <1>5, Zenon
<1>7. found[S] = Tally(f, S)
  <2> HIDE DEF found, S
  <2> QED
    BY <1>0, <1>6, SumsAreTally
<1> QED
  BY <1>3, <1>7 DEF e

-----------------------------------------------------------------------------
\* Amounts are numbers, and so is what cells are worth.
Cashable(S) == IsFiniteSet(S) /\ \A c \in S : c.amount \in Nat

\* Cells that are apart are worth the sum of both.
LEMMA WorthApart ==
  ASSUME NEW S, NEW T, Cashable(S), Cashable(T), S \cap T = {}
  PROVE  Cashable(S \cup T) /\ Worth(S \cup T) = Worth(S) + Worth(T)
<1> DEFINE f == [c \in S \cup T |-> c.amount]
<1>1. \A c \in S \cup T : f[c] = c.amount /\ f[c] \in Nat
  BY DEF Cashable
<1>2. IsFiniteSet(S) /\ IsFiniteSet(T) /\ IsFiniteSet(S \cup T)
  BY FS_Union DEF Cashable
<1> HIDE DEF f
<1>3. Worth(S) = Tally(f, S) /\ Worth(T) = Tally(f, T) /\ Worth(S \cup T) = Tally(f, S \cup T)
  BY <1>1, <1>2, WorthIsTally
<1>4. Tally(f, S \cup T) = Tally(f, S) + Tally(f, T)
  BY <1>1, <1>2, TallyApart
<1> QED
  BY <1>1, <1>2, <1>3, <1>4 DEF Cashable

\* A cell can be taken out of the others at its amount.
LEMMA WorthRemove ==
  ASSUME NEW S, Cashable(S), NEW c \in S
  PROVE  /\ Cashable(S \ {c}) /\ Worth(S \ {c}) \in Nat
         /\ Worth(S) = c.amount + Worth(S \ {c})
<1> DEFINE f == [x \in S |-> x.amount]
<1>1. \A x \in S : f[x] = x.amount /\ f[x] \in Nat
  BY DEF Cashable
<1>2. IsFiniteSet(S) /\ IsFiniteSet(S \ {c})
  BY FS_Subset DEF Cashable
<1> HIDE DEF f
<1>3. Worth(S) = Tally(f, S) /\ Worth(S \ {c}) = Tally(f, S \ {c})
  BY <1>1, <1>2, WorthIsTally
<1>4. Tally(f, S) = f[c] + Tally(f, S \ {c}) /\ Tally(f, S \ {c}) \in Nat
  BY <1>1, <1>2, TallyRemove, TallyType
<1> QED
  BY <1>1, <1>2, <1>3, <1>4 DEF Cashable

\* A transfer as certify_transfer finds it.
Proper(tx) == tx.outputs \in Payees /\ tx.fee \in Amounts

\* The outputs and the fee of a transfer are a finite list of amounts.
LEMMA EffectsType ==
  ASSUME NEW tx, Proper(tx)
  PROVE  /\ Effects(tx) \in Seq(Payments)
         /\ DOMAIN Effects(tx) = 1..Len(Effects(tx)) /\ IsFiniteSet(DOMAIN Effects(tx))
         /\ \A n \in DOMAIN Effects(tx) : Effects(tx)[n].amount \in Nat
<1>1. PICK n \in 1..MaxPayees : tx.outputs \in [1..n -> Payments]
  BY DEF Proper, Payees
<1>2. n \in Nat /\ Word \in Nat /\ Amounts \subseteq 0..(Word - 1) /\ Collector \in Owners
  BY TransfersAssumption DEF TransfersAssumption
<1>3. tx.outputs \in Seq(Payments)
  BY <1>1, <1>2
<1>4. [amount |-> tx.fee, owner |-> Collector] \in Payments
  BY <1>2 DEF Proper, Payments
<1>5. Effects(tx) \in Seq(Payments)
  BY <1>3, <1>4 DEF Effects
<1>6. DOMAIN Effects(tx) = 1..Len(Effects(tx)) /\ Len(Effects(tx)) \in Nat
  BY <1>5
<1>7. IsFiniteSet(DOMAIN Effects(tx))
  BY <1>6, FS_Interval
<1>8. \A k \in DOMAIN Effects(tx) : Effects(tx)[k] \in Payments
  BY <1>5, <1>6
<1>9. \A p \in Payments : p.amount \in Nat
  <2>1. Amounts \subseteq Nat
    BY <1>2
  <2> QED
    BY <2>1 DEF Payments
<1> QED
  BY <1>5, <1>6, <1>7, <1>8, <1>9

\* The outputs and the fee are worth what validate_tx has added up.
LEMMA MaterializedWorth ==
  ASSUME NEW tx, Proper(tx)
  PROVE  Cashable(Materialized(tx)) /\ Worth(Materialized(tx)) = SumOf(tx)
<1> DEFINE e == Effects(tx)
           S == DOMAIN e
           Cell(n) == [ref |-> [by |-> {tx}, index |-> n], amount |-> e[n].amount,
                       owner |-> e[n].owner]
           M == {Cell(n) : n \in S}
           name == [n \in S |-> Cell(n)]
           f == [n \in S |-> e[n].amount]
           g == [c \in M |-> c.amount]
<1>1. IsFiniteSet(S) /\ \A n \in S : e[n].amount \in Nat
  BY EffectsType
<1>2. Materialized(tx) = M
  BY DEF Materialized
<1>3. name \in [S -> M] /\ {name[n] : n \in S} = M
  OBVIOUS
<1>4. \A m, n \in S : name[m] = name[n] => m = n
  <2> SUFFICES ASSUME NEW m \in S, NEW n \in S, name[m] = name[n] PROVE m = n
    OBVIOUS
  <2>1. Cell(m).ref.index = m /\ Cell(n).ref.index = n
    OBVIOUS
  <2>2. Cell(m) = Cell(n)
    OBVIOUS
  <2> QED
    BY <2>1, <2>2
<1>5. \A n \in S : f[n] = e[n].amount /\ f[n] \in Nat /\ g[name[n]] = f[n]
  <2> SUFFICES ASSUME NEW n \in S
               PROVE  f[n] = e[n].amount /\ f[n] \in Nat /\ g[name[n]] = f[n]
    OBVIOUS
  <2>1. name[n] = Cell(n) /\ Cell(n) \in M /\ Cell(n).amount = e[n].amount
    OBVIOUS
  <2> QED
    BY <1>1, <2>1
<1>6. IsFiniteSet(M)
  <2>1. name \in Surjection(S, M)
    BY <1>3 DEF Surjection
  <2> HIDE DEF M, S, name
  <2> QED
    BY <1>1, <2>1, FS_Surjection
<1>7. \A c \in M : g[c] = c.amount /\ c.amount \in Nat
  BY <1>1
<1>8. Tally(g, M) = Tally(f, S)
  <2> HIDE DEF M, S, name, f, g
  <2>1. IsFiniteSet(S) /\ name \in [S -> M]
    BY <1>1, <1>3
  <2>2. \A n \in S : f[n] \in Nat
    BY <1>5
  <2>3. \A n \in S : g[name[n]] = f[n]
    BY <1>5
  <2>4. Tally(g, {name[n] : n \in S}) = Tally(f, S)
    BY <1>4, <2>1, <2>2, <2>3, TallyRenamed
  <2> QED
    BY <1>3, <2>4
<1>9. SumOf(tx) = Tally(f, S)
  <2>1. \A n \in DOMAIN Effects(tx) : f[n] = Effects(tx)[n].amount
    BY <1>5
  <2> HIDE DEF f
  <2> QED
    BY <1>1, <2>1, SumOfIsTally
<1>10. Worth(M) = Tally(g, M)
  <2> HIDE DEF M, g
  <2> QED
    BY <1>6, <1>7, WorthIsTally
<1> QED
  BY <1>2, <1>6, <1>7, <1>8, <1>9, <1>10 DEF Cashable

-----------------------------------------------------------------------------
\* What is certified adds up, is signed by the owner of its input, and is the only
\* transfer that spends it.
CertifiedAddUp ==
  /\ \A e \in certifiedTransfers : Proper(e.tx) /\ OwnerSigned(e.tx, e.signer)
  /\ \A e, x \in certifiedTransfers : e.tx.input.ref = x.tx.input.ref => e = x

\* Every live cell is a genesis cell or an output of a transfer that was applied.
CellsAreMade ==
  \A v \in Ledgers : \A c \in money[v] :
    c \in GenesisCells \/ \E e \in receipts[v] : c \in Materialized(e.tx)

MoneyType ==
  /\ money = [v \in Ledgers |-> money[v]] /\ receipts = [v \in Ledgers |-> receipts[v]]
  /\ \A v \in Ledgers : Cashable(money[v]) /\ receipts[v] \subseteq certifiedTransfers

MoneyInv == MoneyType /\ CertifiedAddUp /\ CellsAreMade /\ MoneyIsConserved

\* The genesis cells are finitely many and hold amounts.
LEMMA GenesisIsCashable == Cashable(GenesisCells)
<1> DEFINE S == DOMAIN GenesisMoney
           Cell(n) == [ref |-> [by |-> {}, index |-> n], amount |-> GenesisMoney[n].amount,
                       owner |-> GenesisMoney[n].owner]
           name == [n \in S |-> Cell(n)]
           M == {Cell(n) : n \in S}
<1>1. /\ GenesisMoney \in Seq([amount : Amounts \ {0}, owner : Owners])
      /\ Amounts \subseteq 0..(Word - 1) /\ Word \in Nat
  BY TransfersAssumption DEF TransfersAssumption
<1>2. S = 1..Len(GenesisMoney) /\ Len(GenesisMoney) \in Nat
  BY <1>1
<1>3. IsFiniteSet(S)
  BY <1>2, FS_Interval
<1>4. name \in Surjection(S, M)
  BY DEF Surjection
<1>5. IsFiniteSet(M)
  <2> HIDE DEF name, M, S
  <2> QED
    BY <1>3, <1>4, FS_Surjection
<1>6. \A n \in S : GenesisMoney[n] \in [amount : Amounts \ {0}, owner : Owners]
  <2> DEFINE A == [amount : Amounts \ {0}, owner : Owners]
  <2>1. GenesisMoney \in Seq(A)
    BY <1>1
  <2> HIDE DEF A
  <2>2. \A n \in 1..Len(GenesisMoney) : GenesisMoney[n] \in A
    BY <2>1
  <2> QED
    BY <1>2, <2>2 DEF A
<1>7. Amounts \subseteq Nat
  BY <1>1
<1>8. \A c \in M : c.amount \in Nat
  <2>1. \A n \in S : GenesisMoney[n].amount \in Nat
    BY <1>6, <1>7
  <2>2. \A n \in S : Cell(n).amount = GenesisMoney[n].amount
    OBVIOUS
  <2> QED
    BY <2>1, <2>2
<1>9. M = GenesisCells
  BY DEF GenesisCells
<1> QED
  BY <1>5, <1>8, <1>9 DEF Cashable

\* The outputs of a transfer are no genesis cells, and not those of another transfer.
LEMMA OutputsAreNew ==
  ASSUME NEW tx, NEW c \in Materialized(tx)
  PROVE  c \notin GenesisCells /\ \A other : c \in Materialized(other) => tx = other
<1>1. c.ref.by = {tx}
  BY DEF Materialized
<1>2. \A d \in GenesisCells : d.ref.by = {}
  BY DEF GenesisCells
<1>3. ASSUME NEW other, c \in Materialized(other) PROVE tx = other
  <2>1. c.ref.by = {other}
    BY <1>3 DEF Materialized
  <2> QED
    BY <1>1, <2>1
<1> QED
  BY <1>1, <1>2, <1>3

\* In the beginning the validators hold the genesis cells.
LEMMA MoneyInitially == MoneyInit => MoneyInv
<1> SUFFICES ASSUME MoneyInit PROVE MoneyInv
  OBVIOUS
<1>1. \A v \in Ledgers : money[v] = GenesisCells /\ receipts[v] = {}
  BY DEF MoneyInit
<1>2. MoneyType
  <2>1. money = [v \in Ledgers |-> money[v]] /\ receipts = [v \in Ledgers |-> receipts[v]]
    BY DEF MoneyInit
  <2> QED
    BY <1>1, <2>1, GenesisIsCashable DEF MoneyType
<1>3. CertifiedAddUp /\ CellsAreMade
  BY <1>1 DEF CertifiedAddUp, CellsAreMade, MoneyInit
<1>4. MoneyIsConserved
  BY <1>1 DEF MoneyIsConserved
<1> QED
  BY <1>2, <1>3, <1>4 DEF MoneyInv

\* A transfer is only certified for a cell that no other certified transfer spends.
LEMMA CertifyTransferStep == MoneyInv /\ CertifyTransfer => MoneyInv'
<1> SUFFICES ASSUME MoneyInv, CertifyTransfer PROVE MoneyInv'
  OBVIOUS
<1>0. PICK cell \in Known : \E input \in Claims(cell) :
        /\ \A e \in certifiedTransfers : e.tx.input.ref # input.ref
        /\ \E outputs \in Payees, fee \in Amounts, signer \in Owners :
             LET tx == [input |-> input, outputs |-> outputs, fee |-> fee] IN
             /\ OwnerSigned(tx, signer)
             /\ certifiedTransfers' = certifiedTransfers \cup {[tx |-> tx, signer |-> signer]}
  BY DEF CertifyTransfer
<1>a. PICK input \in Claims(cell) :
        /\ \A e \in certifiedTransfers : e.tx.input.ref # input.ref
        /\ \E outputs \in Payees, fee \in Amounts, signer \in Owners :
             LET tx == [input |-> input, outputs |-> outputs, fee |-> fee] IN
             /\ OwnerSigned(tx, signer)
             /\ certifiedTransfers' = certifiedTransfers \cup {[tx |-> tx, signer |-> signer]}
  BY <1>0
<1>1. PICK outputs \in Payees, fee \in Amounts, signer \in Owners :
        LET tx == [input |-> input, outputs |-> outputs, fee |-> fee] IN
        /\ OwnerSigned(tx, signer)
        /\ certifiedTransfers' = certifiedTransfers \cup {[tx |-> tx, signer |-> signer]}
  BY <1>a
<1> DEFINE tx == [input |-> input, outputs |-> outputs, fee |-> fee]
           new == [tx |-> tx, signer |-> signer]
<1>2. UNCHANGED <<money, receipts>>
  BY DEF CertifyTransfer
<1>3. Proper(new.tx) /\ OwnerSigned(new.tx, new.signer) /\ new.tx.input.ref = input.ref
  BY <1>1 DEF Proper
<1>4. certifiedTransfers' = certifiedTransfers \cup {new}
  BY <1>1
<1>5. \A e \in certifiedTransfers : e.tx.input.ref # new.tx.input.ref
  BY <1>a, <1>3
<1> HIDE DEF new
<1>6. CertifiedAddUp'
  BY <1>3, <1>4, <1>5 DEF MoneyInv, CertifiedAddUp
<1>7. MoneyType'
  BY <1>2, <1>4 DEF MoneyInv, MoneyType
<1>8. CellsAreMade' /\ MoneyIsConserved'
  BY <1>2 DEF MoneyInv, CellsAreMade, MoneyIsConserved
<1> QED
  BY <1>6, <1>7, <1>8 DEF MoneyInv

\* A transfer exchanges its input for cells that are worth the same and are new.
LEMMA ApplyTransferStep ==
  ASSUME MoneyInv, NEW v \in Ledgers, ApplyTransfer(v)
  PROVE  MoneyInv'
<1>1. PICK e \in certifiedTransfers \ receipts[v] :
        /\ OwnerSigned(e.tx, e.signer)
        /\ e.tx.input \in money[v]
        /\ money' = [money EXCEPT ![v] = (@ \ {e.tx.input}) \cup Materialized(e.tx)]
        /\ receipts' = [receipts EXCEPT ![v] = @ \cup {e}]
        /\ UNCHANGED certifiedTransfers
  BY DEF ApplyTransfer
<1> DEFINE in == e.tx.input
           out == Materialized(e.tx)
<1>2. \A u \in Ledgers : money'[u] = IF u = v THEN (money[v] \ {in}) \cup out ELSE money[u]
  BY <1>1 DEF MoneyInv, MoneyType
<1>3. \A u \in Ledgers : receipts'[u] = IF u = v THEN receipts[v] \cup {e} ELSE receipts[u]
  BY <1>1 DEF MoneyInv, MoneyType
<1>4. Proper(e.tx)
  BY DEF MoneyInv, CertifiedAddUp
<1>5. Cashable(out) /\ Worth(out) = in.amount
  <2>1. in.amount = SumOf(e.tx)
    BY <1>1 DEF OwnerSigned, ValidTransfer, CheckedTotal
  <2> QED
    BY <1>4, <2>1, MaterializedWorth
<1>6. money[v] \cap out = {}
  <2> SUFFICES ASSUME NEW c \in money[v], c \in out PROVE FALSE
    OBVIOUS
  <2>1. PICK x \in receipts[v] : c \in Materialized(x.tx)
    BY OutputsAreNew DEF MoneyInv, CellsAreMade
  <2>2. e.tx = x.tx
    BY <2>1, OutputsAreNew
  <2>3. x \in certifiedTransfers /\ e \in certifiedTransfers /\ e \notin receipts[v]
    BY <2>1 DEF MoneyInv, MoneyType
  <2>4. e = x
    BY <2>2, <2>3 DEF MoneyInv, CertifiedAddUp
  <2> QED
    BY <2>1, <2>3, <2>4
<1> HIDE DEF in, out
<1>7. Cashable(money'[v]) /\ Worth(money'[v]) = Worth(money[v])
  <2>1. Cashable(money[v]) /\ in \in money[v]
    BY <1>1 DEF MoneyInv, MoneyType, in
  <2>2. /\ Cashable(money[v] \ {in}) /\ Worth(money[v] \ {in}) \in Nat
        /\ Worth(money[v]) = in.amount + Worth(money[v] \ {in}) /\ in.amount \in Nat
    BY <2>1, WorthRemove DEF Cashable
  <2>3. (money[v] \ {in}) \cap out = {}
    BY <1>6
  <2>4. /\ Cashable((money[v] \ {in}) \cup out)
        /\ Worth((money[v] \ {in}) \cup out) = Worth(money[v] \ {in}) + Worth(out)
    BY <1>5, <2>2, <2>3, WorthApart
  <2> QED
    BY <1>2, <1>5, <2>2, <2>4
<1>8. MoneyType'
  <2>1. money' = [u \in Ledgers |-> money'[u]] /\ receipts' = [u \in Ledgers |-> receipts'[u]]
    BY <1>1 DEF MoneyInv, MoneyType
  <2>2. \A u \in Ledgers : Cashable(money'[u])
    BY <1>2, <1>7 DEF MoneyInv, MoneyType
  <2>3. \A u \in Ledgers : receipts'[u] \subseteq certifiedTransfers'
    BY <1>1, <1>3 DEF MoneyInv, MoneyType
  <2> QED
    BY <2>1, <2>2, <2>3 DEF MoneyType
<1>9. CertifiedAddUp'
  BY <1>1 DEF MoneyInv, CertifiedAddUp
<1>10. CellsAreMade'
  BY <1>2, <1>3 DEF MoneyInv, CellsAreMade, out
<1>11. MoneyIsConserved'
  <2>1. ASSUME NEW u \in Ledgers PROVE Worth(money'[u]) = Worth(GenesisCells)
    BY <1>2, <1>7 DEF MoneyInv, MoneyIsConserved
  <2>2. ASSUME NEW u \in Ledgers,
               NEW c \in (GenesisCells \cup UNION {Materialized(x.tx) : x \in receipts'[u]}) \ money'[u]
        PROVE  \E x \in receipts'[u] : x.tx.input = c /\ x.signer = c.owner
    <3>1. CASE u # v
      BY <1>2, <1>3, <2>2, <3>1 DEF MoneyInv, MoneyIsConserved
    <3>2. CASE u = v /\ c = in
      BY <1>1, <1>3, <3>2 DEF OwnerSigned, in
    <3>3. CASE u = v /\ c # in
      <4>1. c \notin out /\ c \notin money[v]
        BY <1>2, <2>2, <3>3
      <4>2. c \in GenesisCells \cup UNION {Materialized(x.tx) : x \in receipts[v]}
        BY <1>3, <2>2, <3>3, <4>1 DEF out
      <4>3. \E x \in receipts[v] : x.tx.input = c /\ x.signer = c.owner
        BY <4>1, <4>2 DEF MoneyInv, MoneyIsConserved
      <4> QED
        BY <1>3, <3>3, <4>3
    <3> QED
      BY <3>1, <3>2, <3>3
  <2> QED
    BY <2>1, <2>2 DEF MoneyIsConserved
<1> QED
  BY <1>8, <1>9, <1>10, <1>11 DEF MoneyInv

\* On every validator the live cells are worth what the genesis cells were, and a cell
\* that is gone was signed away by its own owner (model.rs validate_tx and
\* apply_finalized), for every genesis, word length and number of outputs.
THEOREM NoMoneyIsMade == MoneySpec => []MoneyIsConserved
<1>1. MoneyInv /\ [MoneyNext]_moneyVars => MoneyInv'
  <2> SUFFICES ASSUME MoneyInv, [MoneyNext]_moneyVars PROVE MoneyInv'
    OBVIOUS
  <2>1. CASE UNCHANGED moneyVars
    BY <2>1 DEF moneyVars, MoneyInv, MoneyType, CertifiedAddUp, CellsAreMade, MoneyIsConserved
  <2> QED
    BY <2>1, CertifyTransferStep, ApplyTransferStep DEF MoneyNext
<1>2. MoneyInv => MoneyIsConserved
  BY DEF MoneyInv
<1> QED
  BY <1>1, <1>2, MoneyInitially, PTL DEF MoneySpec

-----------------------------------------------------------------------------
(* SEC-001 and SEC-002: certified spends                                   *)

\* What cells hold is the sum of their values.
LEMMA TotalIsTally ==
  ASSUME NEW S, IsFiniteSet(S), NEW f, \A p \in S : f[p] = p.value
  PROVE  Total(S) = Tally(f, S)
<1> DEFINE Is(g) == g = [s \in SUBSET S |->
                           IF s = {} THEN 0
                           ELSE (CHOOSE x \in s : TRUE).value + g[s \ {CHOOSE x \in s : TRUE}]]
           found == CHOOSE g : Is(g)
<1>1. \A s \in SUBSET S : s # {} => f[CHOOSE x \in s : TRUE] = (CHOOSE x \in s : TRUE).value
  OBVIOUS
<1>2. ASSUME NEW g PROVE Is(g) <=> Sums(f, SUBSET S, g)
  <2>1. ASSUME NEW s \in SUBSET S
        PROVE  (IF s = {} THEN 0
                ELSE (CHOOSE x \in s : TRUE).value + g[s \ {CHOOSE x \in s : TRUE}])
               = (IF s = {} THEN 0
                  ELSE f[CHOOSE x \in s : TRUE] + g[s \ {CHOOSE x \in s : TRUE}])
    <3>1. CASE s = {}
      BY <3>1, Zenon
    <3>2. CASE s # {}
      BY <1>1, <3>2
    <3> QED
      BY <3>1, <3>2
  <2>2. [s \in SUBSET S |-> IF s = {} THEN 0
           ELSE (CHOOSE x \in s : TRUE).value + g[s \ {CHOOSE x \in s : TRUE}]]
        = [s \in SUBSET S |-> IF s = {} THEN 0
             ELSE f[CHOOSE x \in s : TRUE] + g[s \ {CHOOSE x \in s : TRUE}]]
    BY <2>1, Zenon
  <2> QED
    BY <2>2, Zenon DEF Sums
<1>3. Total(S) = found[S]
  BY DEF Total, MapThenSumSet, MapThenFoldSet
<1>4. \E g : Is(g)
  <2>1. PICK g : Sums(f, SUBSET S, g)
    BY SumsExist
  <2>2. Is(g)
    BY <1>2, <2>1
  <2> QED
    BY <2>2
<1>5. Is(found)
  BY <1>4, Zenon
<1>6. Sums(f, SUBSET S, found)
  BY <1>2, <1>5, Zenon
<1> HIDE DEF found
<1> QED
  BY <1>3, <1>6, SumsAreTally

\* Cells as the maps of the core hold them: one per identifier.
PurseSet(S) ==
  /\ IsFiniteSet(S) /\ \A p \in S : p.value \in Nat
  /\ \A p, q \in S : p.id = q.id => p = q

\* Cells that are apart hold the sum of both.
LEMMA TotalApart ==
  ASSUME NEW S, IsFiniteSet(S), NEW T, IsFiniteSet(T), S \cap T = {},
         \A p \in S \cup T : p.value \in Nat
  PROVE  Total(S \cup T) = Total(S) + Total(T)
<1> DEFINE f == [p \in S \cup T |-> p.value]
<1>1. \A p \in S \cup T : f[p] = p.value /\ f[p] \in Nat
  OBVIOUS
<1>2. IsFiniteSet(S \cup T)
  BY FS_Union
<1> HIDE DEF f
<1>3. Total(S) = Tally(f, S) /\ Total(T) = Tally(f, T) /\ Total(S \cup T) = Tally(f, S \cup T)
  BY <1>1, <1>2, TotalIsTally
<1>4. Tally(f, S \cup T) = Tally(f, S) + Tally(f, T)
  BY <1>1, TallyApart
<1> QED
  BY <1>3, <1>4

\* One cell holds its value.
LEMMA TotalOfOne ==
  ASSUME NEW p, p.value \in Nat
  PROVE  Total({p}) = p.value
<1> DEFINE f == [x \in {p} |-> x.value]
<1>1. \A x \in {p} : f[x] = x.value /\ f[x] \in Nat
  OBVIOUS
<1>2. IsFiniteSet({p}) /\ p \in {p} /\ {p} \ {p} = {}
  BY FS_Singleton
<1>3. f[p] = p.value
  OBVIOUS
<1> HIDE DEF f
<1>4. Total({p}) = Tally(f, {p})
  BY <1>1, <1>2, TotalIsTally
<1>5. Tally(f, {p}) = f[p] + Tally(f, {p} \ {p})
  BY <1>1, <1>2, TallyRemove
<1> QED
  BY <1>2, <1>3, <1>4, <1>5, TallyNothing

\* The name of a cell, by which an order refers to it.
NameOf(p) == [id |-> p.id, generation |-> p.generation]

\* An order that adds up names cells that are there, each of them.
LEMMA InputsAreThere ==
  ASSUME NEW o \in Orders, NEW cells, PurseSet(cells), Adds(o, cells)
  PROVE  \A i \in InputsOfOrder(o) : \E p \in NamedCells(o, cells) : i = NameOf(p)
<1> DEFINE N == NamedCells(o, cells)
           I == InputsOfOrder(o)
           in == o.inputs
           name == [p \in N |-> NameOf(p)]
<1>1. in \in Seq([id : Nat, generation : Nat]) /\ IsInjective(in) /\ Cardinality(N) = Len(in)
  BY CertifiedSpendsAssumption DEF CertifiedSpendsAssumption, Adds
<1>2. DOMAIN in = 1..Len(in) /\ Len(in) \in Nat
  BY <1>1
<1>3. IsFiniteSet(1..Len(in)) /\ Cardinality(1..Len(in)) = Len(in)
  <2>1. \A k \in Nat : IsFiniteSet(1..k) /\ Cardinality(1..k) = k
    BY FS_Interval
  <2> QED
    BY <1>2, <2>1
<1>4. I = {in[n] : n \in 1..Len(in)}
  BY <1>2 DEF InputsOfOrder
<1>5. in = [n \in 1..Len(in) |-> in[n]]
  BY <1>1, <1>2
<1>6. in \in Surjection(1..Len(in), I) /\ in \in Injection(1..Len(in), I)
  <2> HIDE DEF in
  <2>1. in \in [1..Len(in) -> I] /\ \A i \in I : \E n \in 1..Len(in) : in[n] = i
    BY <1>4, <1>5
  <2> QED
    BY <1>1, <2>1 DEF Surjection, Injection
<1>7. IsFiniteSet(I) /\ Cardinality(I) = Len(in)
  <2> HIDE DEF in, I
  <2> QED
    BY <1>3, <1>6, FS_Surjection
<1>8. name \in Injection(N, I)
  <2>1. \A p \in N : NameOf(p) \in I /\ p \in cells
    BY DEF NamedCells, NameOf
  <2>2. name \in [N -> I]
    BY <2>1
  <2>3. \A p, q \in N : name[p] = name[q] => p = q
    <3> SUFFICES ASSUME NEW p \in N, NEW q \in N, name[p] = name[q] PROVE p = q
      OBVIOUS
    <3>1. NameOf(p) = NameOf(q)
      OBVIOUS
    <3>2. p.id = q.id
      BY <3>1 DEF NameOf
    <3> QED
      BY <2>1, <3>2 DEF PurseSet
  <2> QED
    BY <2>2, <2>3 DEF Injection, IsInjective
<1>9. name \in Surjection(N, I)
  <2> HIDE DEF name, N, I
  <2> QED
    BY <1>1, <1>7, <1>8, FS_Injection
<1>10. \A i \in I : \E p \in N : name[p] = i
  BY <1>9 DEF Surjection
<1> QED
  BY <1>10

\* The keys of the cells of the beginning are not those of outputs.
LEMMA AuthorizedInputs ==
  ASSUME NEW s \in Signed, UserAuthorized(s), NEW i \in InputsOfOrder(s.order)
  PROVE  i.generation # 0
<1>1. s.order \in Orders
  BY DEF Signed
<1>2. PurseSet(Purses)
  BY CertifiedSpendsAssumption DEF CertifiedSpendsAssumption, PurseSet
<1>3. PICK p \in NamedCells(s.order, Purses) : i = NameOf(p)
  BY <1>1, <1>2, InputsAreThere DEF UserAuthorized
<1> QED
  BY <1>3, CertifiedSpendsAssumption DEF CertifiedSpendsAssumption, NamedCells, NameOf

-----------------------------------------------------------------------------
\* A share is given for a spend its owner has signed, by the trusted certifier, or with
\* all inputs locked to the spend.
SharesAreSound ==
  \A c \in Honest, s \in Signed : <<c, s>> \in spendShares =>
    /\ UserAuthorized(s)
    /\ tier = "sec002" =>
         \A i \in InputsOfOrder(s.order) : \E l \in spendLocks[c] : l.input = i /\ l.to = s

\* An input is locked to one spend.
LocksAreSingle ==
  \A c \in Honest : \A l, m \in spendLocks[c] : l.input = m.input => l.to = m.to

\* What a copy has applied is certified, and the cells of the beginning it names are gone
\* for good: an output that takes their identifier has another generation.
SpentAreGone ==
  \A k \in Copies : \A s \in spent[k] :
    /\ s \in Signed /\ CertificateHolds(s)
    /\ UserAuthorized(s) => \A p \in active[k] : NameOf(p) \notin InputsOfOrder(s.order)

\* On one copy no input is spent twice by spends their owner has signed.
SpentOnce ==
  \A k \in Copies : \A s, t \in spent[k] :
    UserAuthorized(s) /\ UserAuthorized(t) /\ s # t =>
      InputsOfOrder(s.order) \cap InputsOfOrder(t.order) = {}

SpendType ==
  /\ tier \in {"sec001", "sec002"}
  /\ spendLocks = [c \in Honest |-> spendLocks[c]]
  /\ active = [k \in Copies |-> active[k]] /\ spent = [k \in Copies |-> spent[k]]
  /\ \A k \in Copies : PurseSet(active[k]) /\ Total(active[k]) = Total(Purses)

SpendInv == SpendType /\ SharesAreSound /\ LocksAreSingle /\ SpentAreGone /\ SpentOnce

\* In the beginning every copy has the cells of the beginning.
LEMMA SpendInitially == SpendInit => SpendInv
<1> SUFFICES ASSUME SpendInit PROVE SpendInv
  OBVIOUS
<1>1. PurseSet(Purses)
  BY CertifiedSpendsAssumption DEF CertifiedSpendsAssumption, PurseSet
<1>2. /\ \A k \in Copies : active[k] = Purses /\ spent[k] = {}
      /\ \A c \in Honest : spendLocks[c] = {}
      /\ active = [k \in Copies |-> active[k]] /\ spent = [k \in Copies |-> spent[k]]
      /\ spendLocks = [c \in Honest |-> spendLocks[c]] /\ spendShares = {}
  BY DEF SpendInit
<1>3. tier \in {"sec001", "sec002"}
  BY CertifiedSpendsAssumption DEF CertifiedSpendsAssumption, SpendInit
<1>4. SpendType
  BY <1>1, <1>2, <1>3 DEF SpendType
<1>5. SharesAreSound /\ LocksAreSingle /\ SpentAreGone /\ SpentOnce
  BY <1>2 DEF SharesAreSound, LocksAreSingle, SpentAreGone, SpentOnce
<1> QED
  BY <1>4, <1>5 DEF SpendInv

\* A certificate stays one when there are more shares.
LEMMA CertificatesStay ==
  ASSUME NEW s, CertificateHolds(s), UNCHANGED <<tier, trusted>>, spendShares \subseteq spendShares'
  PROVE  CertificateHolds(s)'
<1>1. Vouching(s) \subseteq Vouching(s)' /\ Vouching(s)' \subseteq Validators
  BY CommitteeAssumption DEF Vouching, Honest, CommitteeAssumption
<1> QED
  BY <1>1, LargerSignerSet DEF CertificateHolds, TrustedVouches, QuorumVouches

\* More shares and locks disturb nothing that copies have done.
LEMMA SharesAdded ==
  ASSUME SpendInv, UNCHANGED <<tier, trusted, active, spent>>, spendShares \subseteq spendShares',
         spendLocks' = [c \in Honest |-> spendLocks'[c]], SharesAreSound', LocksAreSingle'
  PROVE  SpendInv'
<1>1. SpendType'
  BY DEF SpendInv, SpendType
<1>2. SpentAreGone'
  BY CertificatesStay DEF SpendInv, SpentAreGone
<1>3. SpentOnce'
  BY DEF SpendInv, SpentOnce
<1> QED
  BY <1>1, <1>2, <1>3 DEF SpendInv

\* The certifier of SEC-001 signs what an owner has signed.
LEMMA IssueStep ==
  ASSUME SpendInv, NEW s \in Signed, IssueCertificate(s)
  PROVE  SpendInv'
<1>1. /\ tier = "sec001" /\ UserAuthorized(s) /\ spendShares' = spendShares \cup {<<trusted, s>>}
      /\ UNCHANGED <<tier, trusted, spendLocks, active, spent>>
  BY DEF IssueCertificate
<1>2. SharesAreSound'
  BY <1>1 DEF SpendInv, SharesAreSound, UserAuthorized
<1>3. LocksAreSingle' /\ spendLocks' = [c \in Honest |-> spendLocks'[c]]
  BY <1>1 DEF SpendInv, LocksAreSingle, SpendType
<1> QED
  BY <1>1, <1>2, <1>3, SharesAdded

\* A certifier of SEC-002 locks what it signs, and has locked it to nothing else.
LEMMA SignStep ==
  ASSUME SpendInv, NEW c \in Honest, NEW s \in Signed, AuthorizeAndSign(c, s)
  PROVE  SpendInv'
<1> DEFINE new == {[input |-> i, to |-> s] : i \in InputsOfOrder(s.order)}
<1>1. /\ tier = "sec002" /\ UserAuthorized(s) /\ InputsAreFree(c, s)
      /\ spendLocks' = [spendLocks EXCEPT ![c] = @ \cup new]
      /\ spendShares' = spendShares \cup {<<c, s>>}
      /\ UNCHANGED <<tier, trusted, active, spent>>
  BY DEF AuthorizeAndSign
<1>2. \A d \in Honest : spendLocks'[d] = IF d = c THEN spendLocks[c] \cup new ELSE spendLocks[d]
  BY <1>1 DEF SpendInv, SpendType
<1>3. spendLocks' = [d \in Honest |-> spendLocks'[d]]
  BY <1>1 DEF SpendInv, SpendType
<1>4. \A l \in new : l.input \in InputsOfOrder(s.order) /\ l.to = s
  OBVIOUS
<1>5. \A i \in InputsOfOrder(s.order) : \E l \in new : l.input = i /\ l.to = s
  <2> TAKE i \in InputsOfOrder(s.order)
  <2> WITNESS [input |-> i, to |-> s] \in new
  <2> QED
    OBVIOUS
<1> HIDE DEF new
<1>6. SharesAreSound'
  <2> SUFFICES ASSUME NEW d \in Honest, NEW t \in Signed, <<d, t>> \in spendShares'
               PROVE  /\ UserAuthorized(t)
                      /\ \A i \in InputsOfOrder(t.order) :
                           \E l \in spendLocks'[d] : l.input = i /\ l.to = t
    BY <1>1 DEF SharesAreSound, UserAuthorized
  <2>1. CASE <<d, t>> \in spendShares
    BY <1>1, <1>2, <2>1 DEF SpendInv, SharesAreSound
  <2>2. CASE <<d, t>> \notin spendShares
    <3>1. d = c /\ t = s
      BY <1>1, <2>2
    <3> QED
      BY <1>1, <1>2, <1>5, <3>1
  <2> QED
    BY <2>1, <2>2
<1>7. LocksAreSingle'
  <2> SUFFICES ASSUME NEW d \in Honest, NEW l \in spendLocks'[d], NEW m \in spendLocks'[d],
                      l.input = m.input
               PROVE  l.to = m.to
    BY DEF LocksAreSingle
  <2>1. CASE d # c
    BY <1>2, <2>1 DEF SpendInv, LocksAreSingle
  <2>2. CASE d = c
    BY <1>1, <1>2, <1>4, <2>2 DEF SpendInv, LocksAreSingle, InputsAreFree
  <2> QED
    BY <2>1, <2>2
<1> QED
  BY <1>1, <1>3, <1>6, <1>7, SharesAdded

\* A core exchanges cells for one that is worth the same.
LEMMA ExchangeStep ==
  ASSUME NEW o \in Orders, NEW S, PurseSet(S), Adds(o, S), \A p \in S : p.id # o.output
  PROVE  PurseSet(Exchanged(o, S)) /\ Total(Exchanged(o, S)) = Total(S)
<1> DEFINE N == NamedCells(o, S)
           out == OutputCell(o)
<1>1. N \subseteq S /\ IsFiniteSet(N) /\ IsFiniteSet(S \ N) /\ IsFiniteSet(S)
  <2>1. N \subseteq S /\ S \ N \subseteq S
    BY DEF NamedCells
  <2> QED
    BY <2>1, FS_Subset DEF PurseSet
<1>2. Total(N) = o.value
  BY DEF Adds, Total
<1>3. out.id = o.output /\ out.value = o.value
  BY DEF OutputCell
<1> HIDE DEF N, out
<1>4. \A p \in S : p.value \in Nat
  BY DEF PurseSet
<1>5. o.value \in Nat /\ Total(S \ N) \in Nat
  <2>1. ASSUME NEW T, T \subseteq S PROVE Total(T) \in Nat
    <3> DEFINE f == [p \in T |-> p.value]
    <3>1. \A p \in T : f[p] = p.value /\ f[p] \in Nat
      BY <1>4, <2>1
    <3>2. IsFiniteSet(T)
      BY <1>1, <2>1, FS_Subset
    <3> HIDE DEF f
    <3> QED
      BY <3>1, <3>2, TotalIsTally, TallyType
  <2> QED
    BY <1>1, <1>2, <2>1
<1>6. Total(S) = Total(S \ N) + o.value
  <2>1. S = (S \ N) \cup N /\ (S \ N) \cap N = {}
    BY <1>1
  <2>2. Total((S \ N) \cup N) = Total(S \ N) + Total(N)
    BY <1>1, <1>4, <2>1, TotalApart
  <2> QED
    BY <1>2, <2>1, <2>2
<1>7. Exchanged(o, S) = (S \ N) \cup {out} /\ (S \ N) \cap {out} = {}
  BY <1>3 DEF Exchanged, N, out
<1>8. IsFiniteSet({out})
  BY FS_Singleton
<1>9. Total((S \ N) \cup {out}) = Total(S \ N) + o.value
  <2>1. \A p \in (S \ N) \cup {out} : p.value \in Nat
    BY <1>3, <1>4, <1>5
  <2>2. Total((S \ N) \cup {out}) = Total(S \ N) + Total({out})
    BY <1>1, <1>7, <1>8, <2>1, TotalApart
  <2>3. Total({out}) = out.value
    BY <1>3, <1>5, TotalOfOne
  <2> QED
    BY <1>3, <2>2, <2>3
<1>10. PurseSet((S \ N) \cup {out})
  <2>1. IsFiniteSet((S \ N) \cup {out})
    BY <1>1, <1>8, FS_Union
  <2> QED
    BY <1>3, <1>4, <1>5, <2>1 DEF PurseSet
<1> QED
  BY <1>6, <1>7, <1>9, <1>10

\* A copy of the core applies what is certified, and its inputs are gone.
LEMMA ApplyStep ==
  ASSUME SpendInv, NEW k \in Copies, NEW s \in Signed, ApplyCertified(k, s)
  PROVE  SpendInv'
<1> DEFINE o == s.order
<1>1. /\ CertificateHolds(s) /\ Adds(o, active[k]) /\ \A p \in active[k] : p.id # o.output
      /\ active' = [active EXCEPT ![k] = Exchanged(o, @)]
      /\ spent' = [spent EXCEPT ![k] = @ \cup {s}]
      /\ UNCHANGED <<tier, trusted, spendLocks, spendShares>>
  BY DEF ApplyCertified
<1>2. o \in Orders
  BY DEF Signed
<1>3. \A j \in Copies : /\ active'[j] = IF j = k THEN Exchanged(o, active[k]) ELSE active[j]
                        /\ spent'[j] = IF j = k THEN spent[k] \cup {s} ELSE spent[j]
  BY <1>1 DEF SpendInv, SpendType
<1>4. PurseSet(active[k])
  BY DEF SpendInv, SpendType
<1>5. \A p \in active'[k] : \/ p.generation = 0
                            \/ p \in active[k] /\ NameOf(p) \notin InputsOfOrder(o)
  <2> TAKE p \in active'[k]
  <2>1. p \in Exchanged(o, active[k])
    BY <1>3
  <2>2. CASE p = OutputCell(o)
    BY <2>2 DEF OutputCell
  <2>3. CASE p \in active[k] \ NamedCells(o, active[k])
    BY <2>3 DEF NamedCells, NameOf
  <2> QED
    BY <2>1, <2>2, <2>3 DEF Exchanged
<1>6. SpendType'
  <2>1. PurseSet(active'[k]) /\ Total(active'[k]) = Total(active[k])
    BY <1>1, <1>2, <1>3, <1>4, ExchangeStep
  <2>2. active' = [j \in Copies |-> active'[j]] /\ spent' = [j \in Copies |-> spent'[j]]
    BY <1>1 DEF SpendInv, SpendType
  <2>3. \A j \in Copies : PurseSet(active'[j]) /\ Total(active'[j]) = Total(Purses)
    BY <1>3, <2>1 DEF SpendInv, SpendType
  <2> QED
    BY <1>1, <2>2, <2>3 DEF SpendInv, SpendType
<1>7. SharesAreSound' /\ LocksAreSingle'
  BY <1>1 DEF SpendInv, SharesAreSound, LocksAreSingle, UserAuthorized
<1>8. \A t \in Signed : CertificateHolds(t) => CertificateHolds(t)'
  BY <1>1, CertificatesStay
<1> HIDE DEF o
<1>9. SpentAreGone'
  <2> SUFFICES ASSUME NEW j \in Copies, NEW t \in spent'[j]
               PROVE  /\ t \in Signed /\ CertificateHolds(t)'
                      /\ UserAuthorized(t) =>
                           \A p \in active'[j] : NameOf(p) \notin InputsOfOrder(t.order)
    BY DEF SpentAreGone, UserAuthorized
  <2>1. t \in Signed /\ CertificateHolds(t)'
    BY <1>1, <1>3, <1>8 DEF SpendInv, SpentAreGone
  <2>2. ASSUME UserAuthorized(t), NEW p \in active'[j], NameOf(p) \in InputsOfOrder(t.order)
        PROVE  FALSE
    <3>1. p.generation # 0
      BY <2>1, <2>2, AuthorizedInputs DEF NameOf
    <3>2. p \in active[j]
      BY <1>3, <1>5, <3>1
    <3>3. t \notin spent[j]
      BY <2>2, <3>2 DEF SpendInv, SpentAreGone
    <3>4. j = k /\ t = s
      BY <1>3, <3>3
    <3> QED
      BY <1>5, <2>2, <3>1, <3>4 DEF o
  <2> QED
    BY <2>1, <2>2
<1>10. SpentOnce'
  <2>1. ASSUME NEW t \in spent[k], UserAuthorized(t), UserAuthorized(s),
               NEW i \in InputsOfOrder(t.order), i \in InputsOfOrder(o)
        PROVE  FALSE
    <3>1. PICK p \in NamedCells(o, active[k]) : i = NameOf(p)
      BY <1>1, <1>2, <1>4, <2>1, InputsAreThere
    <3>2. p \in active[k]
      BY DEF NamedCells
    <3> QED
      BY <2>1, <3>1, <3>2 DEF SpendInv, SpentAreGone
  <2>2. \A t \in spent[k] : UserAuthorized(s) /\ UserAuthorized(t) =>
          InputsOfOrder(s.order) \cap InputsOfOrder(t.order) = {}
    BY <2>1 DEF o
  <2> SUFFICES ASSUME NEW j \in Copies, NEW t \in spent'[j], NEW u \in spent'[j],
                      UserAuthorized(t), UserAuthorized(u), t # u
               PROVE  InputsOfOrder(t.order) \cap InputsOfOrder(u.order) = {}
    BY DEF SpentOnce, UserAuthorized
  <2>3. CASE j # k \/ (t # s /\ u # s)
    BY <1>3, <2>3 DEF SpendInv, SpentOnce
  <2>4. CASE j = k /\ t = s
    BY <1>3, <2>2, <2>4
  <2>5. CASE j = k /\ u = s
    BY <1>3, <2>2, <2>5
  <2> QED
    BY <2>3, <2>4, <2>5
<1> QED
  BY <1>6, <1>7, <1>9, <1>10 DEF SpendInv

\* With an honest certifier, or fewer Byzantine ones than a quorum can do without, what
\* is certified was signed by its owner, and in SEC-002 for no input twice.
LEMMA CertificatesAreSound ==
  ASSUME SpendInv, NEW s \in Signed, CertificateHolds(s)
  PROVE  /\ tier = "sec002" \/ trusted \in Honest => UserAuthorized(s)
         /\ tier = "sec002" => \A t \in Signed : CertificateHolds(t) /\ s # t =>
              InputsOfOrder(s.order) \cap InputsOfOrder(t.order) = {}
<1>1. ASSUME NEW t \in Signed, NEW c \in Honest, c \in Vouching(t)
      PROVE  /\ UserAuthorized(t)
             /\ tier = "sec002" => \A i \in InputsOfOrder(t.order) :
                  \E l \in spendLocks[c] : l.input = i /\ l.to = t
  BY <1>1 DEF Vouching, Honest, SpendInv, SharesAreSound
<1>2. CASE tier = "sec001"
  BY <1>1, <1>2 DEF CertificateHolds, TrustedVouches
<1>3. CASE tier = "sec002"
  <2>1. IsQuorum(Vouching(s))
    BY <1>3 DEF CertificateHolds, QuorumVouches
  <2>2. UserAuthorized(s)
    BY <1>1, <2>1, QuorumHasHonest
  <2>3. ASSUME NEW t \in Signed, CertificateHolds(t), s # t,
               NEW i \in InputsOfOrder(s.order), i \in InputsOfOrder(t.order)
        PROVE  FALSE
    <3>1. IsQuorum(Vouching(t))
      BY <1>3, <2>3 DEF CertificateHolds, QuorumVouches
    <3>2. PICK c \in Honest : c \in Vouching(s) /\ c \in Vouching(t)
      BY <2>1, <3>1, QuorumsShareHonest
    <3>3. PICK l \in spendLocks[c] : l.input = i /\ l.to = s
      BY <1>1, <1>3, <2>3, <3>2
    <3>4. PICK m \in spendLocks[c] : m.input = i /\ m.to = t
      BY <1>1, <1>3, <2>3, <3>2
    <3> QED
      BY <2>3, <3>3, <3>4 DEF SpendInv, LocksAreSingle
  <2> QED
    BY <1>3, <2>2, <2>3
<1> QED
  BY <1>2, <1>3 DEF SpendInv, SpendType

\* No copy of the core loses or makes money, and with sound certifiers what is spent was
\* signed by its owner and is not spent twice (sec001 and sec002 main.rs
\* authorize_and_sign and apply_certified_spend).
THEOREM CertifiedSpendsHold == SpendSpec => []CertifiedSpendsAreSound
<1>1. SpendInv /\ [SpendNext]_spendVars => SpendInv'
  <2> SUFFICES ASSUME SpendInv, [SpendNext]_spendVars PROVE SpendInv'
    OBVIOUS
  <2>1. CASE UNCHANGED spendVars
    <3>1. spendShares \subseteq spendShares' /\ UNCHANGED <<tier, trusted, active, spent, spendLocks, spendShares>>
      BY <2>1 DEF spendVars
    <3>2. SharesAreSound' /\ LocksAreSingle' /\ spendLocks' = [c \in Honest |-> spendLocks'[c]]
      BY <3>1 DEF SpendInv, SharesAreSound, LocksAreSingle, SpendType, UserAuthorized
    <3> QED
      BY <3>1, <3>2, SharesAdded
  <2> QED
    BY <2>1, IssueStep, SignStep, ApplyStep DEF SpendNext
<1>2. SpendInv => CertifiedSpendsAreSound
  <2> SUFFICES ASSUME SpendInv PROVE CertifiedSpendsAreSound
    OBVIOUS
  <2>1. \A k \in Copies : Total(active[k]) = Total(Purses)
    BY DEF SpendInv, SpendType
  <2>2. ASSUME NEW k \in Copies, NEW s \in spent[k]
        PROVE  s \in Signed /\ CertificateHolds(s)
    BY DEF SpendInv, SpentAreGone
  <2>3. ASSUME tier = "sec002" \/ trusted \in Honest, NEW k \in Copies, NEW s \in spent[k]
        PROVE  UserAuthorized(s)
    BY <2>2, <2>3, CertificatesAreSound
  <2>4. ASSUME tier = "sec002" \/ trusted \in Honest,
               NEW j \in Copies, NEW k \in Copies, NEW s \in spent[j], NEW t \in spent[k],
               tier = "sec002" \/ j = k, s # t
        PROVE  InputsOfOrder(s.order) \cap InputsOfOrder(t.order) = {}
    <3>1. CASE tier = "sec002"
      BY <2>2, <2>4, <3>1, CertificatesAreSound
    <3>2. CASE j = k
      BY <2>3, <2>4, <3>2 DEF SpendInv, SpentOnce
    <3> QED
      BY <2>4, <3>1, <3>2
  <2> QED
    BY <2>1, <2>3, <2>4 DEF CertifiedSpendsAreSound
<1> QED
  BY <1>1, <1>2, SpendInitially, PTL DEF SpendSpec
=============================================================================
