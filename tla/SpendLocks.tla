----------------------------- MODULE SpendLocks -----------------------------
(***************************************************************************)
(* The lock logs of SEC-003 and SEC-007.  A certifier signs a spend only   *)
(* after it has written and synced a lock record for every input that it   *)
(* has not locked before, and refuses one whose input it has locked for    *)
(* another.  Writes fail, processes are killed between any two writes, and *)
(* a restart trusts the file.  Cores take a spend with a quorum of shares. *)
(*                                                                         *)
(* A record is written whole or torn.  SEC-003 checks each record by magic *)
(* and checksum, and cuts off an incomplete tail.  SEC-007 checks that the *)
(* file is a whole number of records and nothing else.                     *)
(***************************************************************************)
EXTENDS Committee, Sequences

CONSTANTS
  LockStores,   \* the experiments: "sec003" and "sec007"
  Spends,       \* spends their owner has signed
  Coins,
  CoinsOf,      \* CoinsOf[t]: the inputs of a spend in their order
  Cores,
  MaxWal,       \* bound: entries of one log
  MaxFailing    \* bound: honest certifiers with failing writes, kills or restores

ASSUME SpendLocksAssumption ==
  /\ LockStores \subseteq {"sec003", "sec007"}
  /\ CoinsOf \in [Spends -> Seq(Coins)]
  /\ MaxWal \in Nat /\ MaxFailing \in Nat

VARIABLES
  store,
  wal,        \* wal[c]: the file, complete records and torn ones
  known,      \* known[c]: the locks in memory
  task,       \* task[c]: the spend being locked and the inputs still to be recorded, if any
  server,     \* server[c]: "up", "down", or "refused" if its file is not accepted
  shares,     \* pairs of a certifier and the spend it signed
  failing,    \* certifiers that have failed once
  forgetful,  \* those whose file was restored from a copy or read out of step
  taken       \* taken[k]: the spends core k has applied

lockLogVars == <<store, wal, known, task, server, shares, failing, forgetful, taken>>

TornRecord == [torn |-> TRUE]
LockRecord(i, t) == [coin |-> i, spend |-> t]
LockRecords == [coin : Coins, spend : Spends]

SpendLocksInit ==
  /\ store \in LockStores
  /\ wal = [c \in Honest |-> <<>>] /\ known = [c \in Honest |-> {}]
  /\ task = [c \in Honest |-> {}] /\ server = [c \in Honest |-> "up"]
  /\ shares = {} /\ failing = {} /\ forgetful = {}
  /\ taken = [k \in Cores |-> {}]

-----------------------------------------------------------------------------
(* One request: lock_inputs_before_signing, then the share.                *)

\* Memory locks an input of t for another spend.
LockedElsewhere(c, t) ==
  \E r \in known[c] : r.spend # t /\ \E n \in DOMAIN CoinsOf[t] : CoinsOf[t][n] = r.coin

\* The inputs of t whose records are still to be written.
PendingInputs(c, t) ==
  {n \in DOMAIN CoinsOf[t] : LockRecord(CoinsOf[t][n], t) \notin known[c]}

Receive(c, t) ==
  /\ server[c] = "up" /\ task[c] = {}
  /\ ~ LockedElsewhere(c, t)
  /\ task' = [task EXCEPT ![c] = {[spend |-> t, rest |-> PendingInputs(c, t)]}]
  /\ UNCHANGED <<store, wal, known, server, shares, failing, forgetful, taken>>

\* In the order of the inputs.
WriteRecord(c) ==
  \E job \in task[c] : \E n \in job.rest :
    /\ Len(wal[c]) < MaxWal /\ \A m \in job.rest : n <= m
    /\ wal' = [wal EXCEPT ![c] = Append(@, LockRecord(CoinsOf[job.spend][n], job.spend))]
    /\ task' = [task EXCEPT ![c] = {[job EXCEPT !.rest = @ \ {n}]}]
    /\ UNCHANGED <<store, known, server, shares, failing, forgetful, taken>>

\* Mutant: the share does not wait for the records.
SignBeforeLocking(c) ==
  \E job \in task[c] :
    /\ known' = [known EXCEPT ![c] = @ \cup {LockRecord(CoinsOf[job.spend][n], job.spend) :
                                               n \in DOMAIN CoinsOf[job.spend]}]
    /\ shares' = shares \cup {<<c, job.spend>>}
    /\ task' = [task EXCEPT ![c] = {}]
    /\ UNCHANGED <<store, wal, server, failing, forgetful, taken>>

\* After sync_all the locks enter memory and the share is signed.
SignSpend(c) ==
  \E job \in task[c] :
    /\ job.rest = {}
    /\ known' = [known EXCEPT ![c] = @ \cup {LockRecord(CoinsOf[job.spend][n], job.spend) :
                                               n \in DOMAIN CoinsOf[job.spend]}]
    /\ shares' = shares \cup {<<c, job.spend>>}
    /\ task' = [task EXCEPT ![c] = {}]
    /\ UNCHANGED <<store, wal, server, failing, forgetful, taken>>

-----------------------------------------------------------------------------
(* Failures.                                                               *)
MayFail(c) == Cardinality(failing \cup {c}) <= MaxFailing

\* What an interrupted write leaves: nothing of the record, or a part of it.
LeavesPart(c) ==
  \/ UNCHANGED wal
  \/ /\ \E job \in task[c] : job.rest # {}
     /\ Len(wal[c]) < MaxWal
     /\ wal' = [wal EXCEPT ![c] = Append(@, TornRecord)]

\* A write or the sync fails: the request is rejected, and the process goes on.
FailAppend(c) ==
  /\ MayFail(c) /\ \E job \in task[c] : PendingInputs(c, job.spend) # {}
  /\ LeavesPart(c)
  /\ task' = [task EXCEPT ![c] = {}]
  /\ failing' = failing \cup {c}
  /\ UNCHANGED <<store, known, server, shares, forgetful, taken>>

KillCertifier(c) ==
  /\ MayFail(c) /\ server[c] = "up"
  /\ LeavesPart(c)
  /\ server' = [server EXCEPT ![c] = "down"]
  /\ task' = [task EXCEPT ![c] = {}] /\ known' = [known EXCEPT ![c] = {}]
  /\ failing' = failing \cup {c}
  /\ UNCHANGED <<store, shares, forgetful, taken>>

\* restore_snapshot: an earlier copy takes the place of the file.
RestoreSnapshot(c) ==
  /\ MayFail(c) /\ server[c] # "up"
  /\ \E n \in 0..(Len(wal[c]) - 1) : wal' = [wal EXCEPT ![c] = SubSeq(@, 1, n)]
  /\ server' = [server EXCEPT ![c] = "down"]
  /\ forgetful' = forgetful \cup {c}
  /\ UNCHANGED <<store, known, task, shares, failing, taken>>

-----------------------------------------------------------------------------
(* Restart.                                                                *)
RecordsOf(s) == {s[n] : n \in DOMAIN s} \ {TornRecord}
TornAt(s) == {n \in DOMAIN s : s[n] = TornRecord}

Consistent(L) == \A a, b \in L : a.coin = b.coin => a.spend = b.spend

\* The torn records at the end are cut off.
StartWith(c, s) ==
  /\ Consistent(RecordsOf(s))
  /\ \E n \in 0..Len(s) :
       TornAt(s) = (n + 1)..Len(s) /\ wal' = [wal EXCEPT ![c] = SubSeq(s, 1, n)]
  /\ known' = [known EXCEPT ![c] = RecordsOf(s)]
  /\ server' = [server EXCEPT ![c] = "up"]
  /\ UNCHANGED <<store, task, shares, failing, forgetful, taken>>

Refuse(c) ==
  /\ server' = [server EXCEPT ![c] = "refused"]
  /\ UNCHANGED <<store, wal, known, task, shares, failing, forgetful, taken>>

\* Nothing complete follows a torn record.
TornTailOnly(s) == \A m \in TornAt(s) : \A n \in m..Len(s) : n \in TornAt(s)

\* SEC-003 cuts off a tail that is shorter than a record.  Two torn ones may be
\* longer, and then they are taken for a record with a wrong checksum.
OpenChecked(c) ==
  /\ store = "sec003" /\ server[c] = "down"
  /\ \/ StartWith(c, wal[c])
     \/ /\ ~ TornTailOnly(wal[c]) \/ Cardinality(TornAt(wal[c])) > 1
           \/ ~ Consistent(RecordsOf(wal[c]))
        /\ Refuse(c)

\* SEC-007 refuses a file that is not a whole number of records.
OpenWhole(c) ==
  /\ store = "sec007" /\ server[c] = "down"
  /\ \/ TornAt(wal[c]) = {} /\ StartWith(c, wal[c])
     \/ TornAt(wal[c]) # {} /\ Refuse(c)
     \/ ~ Consistent(RecordsOf(wal[c])) /\ Refuse(c)

\* But torn records may add up to whole ones.  What lies between them is then read
\* out of step, as locks on inputs that nobody asks about.
OpenMisread(c) ==
  LET s == wal[c]
      read == {s[n] : n \in {m \in DOMAIN s : (\A k \in TornAt(s) : m < k)
                                              \/ (\A k \in TornAt(s) : m > k)}}
  IN  /\ store = "sec007" /\ server[c] = "down"
      /\ Cardinality(TornAt(s)) > 1 /\ Consistent(read)
      /\ known' = [known EXCEPT ![c] = read]
      /\ server' = [server EXCEPT ![c] = "up"]
      /\ forgetful' = forgetful \cup {c}
      /\ UNCHANGED <<store, wal, task, shares, failing, taken>>

-----------------------------------------------------------------------------
(* The cores.  Byzantine certifiers sign every spend.                      *)
SharesOf(t) == Byzantine \cup {c \in Honest : <<c, t>> \in shares}

SpendCertified(t) == IsQuorum(SharesOf(t))

CoinSet(t) == {CoinsOf[t][n] : n \in DOMAIN CoinsOf[t]}

\* The inputs of t are active.
InputsActive(k, t) == \A u \in taken[k] : CoinSet(u) \cap CoinSet(t) = {}

ApplySpend(k, t) ==
  /\ SpendCertified(t) /\ InputsActive(k, t)
  /\ taken' = [taken EXCEPT ![k] = @ \cup {t}]
  /\ UNCHANGED <<store, wal, known, task, server, shares, failing, forgetful>>

SpendLocksNext ==
  \/ \E c \in Honest :
       \/ \E t \in Spends : Receive(c, t)
       \/ WriteRecord(c) \/ SignSpend(c) \/ FailAppend(c) \/ KillCertifier(c)
       \/ RestoreSnapshot(c) \/ OpenChecked(c) \/ OpenWhole(c) \/ OpenMisread(c)
  \/ \E k \in Cores, t \in Spends : ApplySpend(k, t)

SpendLocksSpec == SpendLocksInit /\ [][SpendLocksNext]_lockLogVars

-----------------------------------------------------------------------------
SpendLocksTypeOK ==
  /\ store \in LockStores
  /\ \A c \in Honest : \A n \in DOMAIN wal[c] : wal[c][n] \in LockRecords \cup {TornRecord}
  /\ known \in [Honest -> SUBSET LockRecords]
  /\ \A c \in Honest : \A job \in task[c] : job.spend \in Spends
  /\ server \in [Honest -> {"up", "down", "refused"}]
  /\ shares \subseteq Honest \X Spends
  /\ failing \subseteq Honest /\ forgetful \subseteq failing
  /\ taken \in [Cores -> SUBSET Spends]

Clash(t, u) == t # u /\ CoinSet(t) \cap CoinSet(u) # {}

\* Through failed writes, kills and restarts, an honest certifier signs two spends
\* of one coin only if its file was restored from a copy or read out of step, and
\* without such a certifier no two cores spend a coin differently (SEC-003's
\* crash matrix and its storage-rollback boundary).
ConflictsNeedAmnesia ==
  /\ \A c \in Honest \ forgetful, t, u \in Spends :
       Clash(t, u) => ~ {<<c, t>>, <<c, u>>} \subseteq shares
  /\ forgetful = {} =>
       \A k, l \in Cores : \A t \in taken[k], u \in taken[l] : ~ Clash(t, u)
=============================================================================
