------------------------------ MODULE LogProofs ------------------------------
(***************************************************************************)
(* The write-ahead log of integration001 for every log it can come to      *)
(* have: what memory holds is what the file gives, what is acknowledged    *)
(* survives, a damaged file ends in a torn line, and the votes that can be *)
(* recovered are a VoteBook. What Replay returns is proved by induction    *)
(* over logs, from the least log for which it would be otherwise; the      *)
(* inductive invariant is WalInv.                                          *)
(***************************************************************************)
EXTENDS WalStore, SequenceTheorems, FiniteSetTheorems, WellFoundedInduction, TLAPS

\* A nonempty set of numbers has a least one: the induction over logs below rests on
\* it.
LEMMA LeastElement ==
  ASSUME NEW S \in SUBSET Nat, S # {}
  PROVE  \E n \in S : \A m \in S : n <= m
<1>1. PICK n \in S : \A m \in S : ~ (<<m, n>> \in OpToRel(<, Nat))
  BY NatLessThanWellFounded, WFMin
<1>2. \A m \in S : ~ (m < n)
  BY <1>1, Zenon DEF OpToRel
<1> QED
  BY <1>2

Runs(log, n, f) ==
  f = [k \in 1..n |-> IF k = 1 THEN {InitialStore(log[1].op.snapshot)}
                               ELSE ReplayRecord(f[k - 1], log[k])]

\* The states that Replay goes through exist for every log, by induction on its length.
LEMMA RunExists ==
  ASSUME NEW log, NEW n \in Nat
  PROVE  \E f : Runs(log, n, f)
<1> DEFINE S == {m \in Nat : ~ \E f : Runs(log, m, f)}
<1> SUFFICES ASSUME S # {} PROVE FALSE
  OBVIOUS
<1>1. PICK m \in S : \A k \in S : m <= k
  <2> HIDE DEF S
  <2>1. S \in SUBSET Nat
    BY DEF S
  <2> QED
    BY <2>1, LeastElement
<1>2. m # 0
  <2>1. Runs(log, 0, [k \in 1..0 |-> {}])
    BY DEF Runs
  <2> QED
    BY <2>1
<1>3. m - 1 \in Nat /\ m - 1 \notin S
  BY <1>1, <1>2
<1>4. PICK f : Runs(log, m - 1, f)
  BY <1>3
<1> DEFINE g == [k \in 1..m |->
                   IF k = 1 THEN {InitialStore(log[1].op.snapshot)}
                            ELSE ReplayRecord(f[k - 1], log[k])]
<1>5. \A k \in 1..(m - 1) : g[k] = f[k]
  <2> SUFFICES ASSUME NEW k \in 1..(m - 1) PROVE g[k] = f[k]
    OBVIOUS
  <2>1. k \in 1..m
    BY <1>1
  <2>2. \A j \in 1..(m - 1) : f[j] = IF j = 1 THEN {InitialStore(log[1].op.snapshot)}
                                 ELSE ReplayRecord(f[j - 1], log[j])
    BY <1>4, Zenon DEF Runs
  <2> QED
    BY <2>1, <2>2, Zenon
<1>6. g = [k \in 1..m |-> IF k = 1 THEN {InitialStore(log[1].op.snapshot)}
                                   ELSE ReplayRecord(g[k - 1], log[k])]
  <2>1. \A k \in 1..m : k # 1 => k - 1 \in 1..(m - 1)
    BY <1>1
  <2>2. \A k \in 1..m : k # 1 => g[k - 1] = f[k - 1]
    BY <1>5, <2>1
  <2> QED
    BY <2>2, Zenon
<1>7. Runs(log, m, g)
  BY <1>6, Zenon DEF Runs
<1> QED
  BY <1>1, <1>7

\* Two logs that agree on their first records go through the same states over these.
LEMMA RunsAgree ==
  ASSUME NEW log, NEW longer, NEW m \in Nat, NEW n \in Nat, m <= n,
         NEW f, NEW g, Runs(log, m, f), Runs(longer, n, g),
         \A k \in 1..m : log[k] = longer[k]
  PROVE  \A k \in 1..m : f[k] = g[k]
<1>a. \A j \in 1..m : f[j] = IF j = 1 THEN {InitialStore(log[1].op.snapshot)}
                             ELSE ReplayRecord(f[j - 1], log[j])
  BY Zenon DEF Runs
<1>b. \A j \in 1..n : g[j] = IF j = 1 THEN {InitialStore(longer[1].op.snapshot)}
                             ELSE ReplayRecord(g[j - 1], longer[j])
  BY Zenon DEF Runs
<1> DEFINE S == {k \in 1..m : f[k] # g[k]}
<1> SUFFICES ASSUME S # {} PROVE FALSE
  OBVIOUS
<1>1. PICK k \in S : \A j \in S : k <= j
  <2> HIDE DEF S
  <2>1. S \in SUBSET Nat
    BY DEF S
  <2> QED
    BY <2>1, LeastElement
<1>0. k \in 1..m /\ k \in 1..n /\ log[k] = longer[k] /\ f[k] # g[k]
  BY <1>1
<1>2. k # 1
  <2> SUFFICES ASSUME k = 1 PROVE FALSE
    OBVIOUS
  <2>1. f[1] = {InitialStore(log[1].op.snapshot)}
    BY <1>0, <1>a, Zenon
  <2>2. g[1] = {InitialStore(longer[1].op.snapshot)}
    BY <1>0, <1>b, Zenon
  <2> QED
    BY <1>0, <2>1, <2>2, Zenon
<1>3. k - 1 \in 1..m /\ k - 1 \notin S
  BY <1>1, <1>2
<1>4. f[k] = ReplayRecord(f[k - 1], log[k])
  BY <1>0, <1>2, <1>a, Zenon
<1>5. g[k] = ReplayRecord(g[k - 1], longer[k])
  BY <1>0, <1>2, <1>b, Zenon
<1>6. f[k - 1] = g[k - 1] /\ log[k] = longer[k]
  BY <1>3
<1>7. f[k] = g[k]
  BY <1>4, <1>5, <1>6, Zenon
<1> QED
  BY <1>1, <1>7

\* Replay returns the last state of such a run (store.rs replay).
LEMMA ReplayRuns ==
  ASSUME NEW S, NEW log \in Seq(S), log # <<>>, log[1].op.kind = "initialize",
         NEW f, Runs(log, Len(log), f)
  PROVE  Replay(log) = f[Len(log)]
<1> DEFINE Is(g) == g = [k \in DOMAIN log |->
                           IF k = 1 THEN {InitialStore(log[1].op.snapshot)}
                                    ELSE ReplayRecord(g[k - 1], log[k])]
           found == CHOOSE g : Is(g)
<1>1. DOMAIN log = 1..Len(log) /\ Len(log) \in Nat /\ Len(log) \in 1..Len(log)
  OBVIOUS
<1>2. Is(f)
  BY <1>1, Zenon DEF Runs
<1>3. Is(found)
  BY <1>2, Zenon
<1>4. Runs(log, Len(log), found)
  BY <1>1, <1>3, Zenon DEF Runs
<1>5. found[Len(log)] = f[Len(log)]
  <2> HIDE DEF found
  <2> QED
    BY <1>1, <1>4, RunsAgree
<1>6. Replay(log) = found[Len(log)]
  BY Zenon DEF Replay
<1> QED
  BY <1>5, <1>6

\* A log that does not begin with Initialize is refused.
LEMMA ReplayNotInitialized ==
  ASSUME NEW log, log = <<>> \/ log[1].op.kind # "initialize"
  PROVE  Replay(log) = {}
BY Zenon DEF Replay

\* Initialize alone gives the initial store.
LEMMA ReplayOne ==
  ASSUME NEW rec, rec.op.kind = "initialize"
  PROVE  Replay(<<rec>>) = {InitialStore(rec.op.snapshot)}
<1> DEFINE log == <<rec>>
<1>1. log \in Seq({rec}) /\ log # <<>> /\ Len(log) = 1 /\ log[1] = rec
  OBVIOUS
<1>2. PICK f : Runs(log, 1, f)
  BY RunExists
<1>3. f[1] = {InitialStore(log[1].op.snapshot)}
  <2>1. 1 \in 1..1
    OBVIOUS
  <2> HIDE DEF log
  <2> QED
    BY <1>2, <2>1, Zenon DEF Runs
<1>4. Replay(log) = f[Len(log)]
  <2> HIDE DEF log
  <2> QED
    BY <1>1, <1>2, ReplayRuns
<1> QED
  BY <1>1, <1>3, <1>4

\* A longer file is replayed record by record.
LEMMA ReplayAppend ==
  ASSUME NEW S, NEW log \in Seq(S), NEW rec \in S, log # <<>>
  PROVE  Replay(Append(log, rec)) = ReplayRecord(Replay(log), rec)
<1> DEFINE longer == Append(log, rec)
           n == Len(log)
<1>1. /\ longer \in Seq(S) /\ longer # <<>> /\ Len(longer) = n + 1
      /\ \A k \in 1..n : longer[k] = log[k]
      /\ longer[n + 1] = rec
      /\ n \in Nat /\ n >= 1 /\ longer[1] = log[1]
  OBVIOUS
<1> HIDE DEF longer
<1>2. CASE log[1].op.kind # "initialize"
  BY <1>1, <1>2, ReplayNotInitialized DEF ReplayRecord, longer
<1>3. CASE log[1].op.kind = "initialize"
  <2>1. PICK f : Runs(log, n, f)
    BY <1>1, RunExists
  <2>2. PICK g : Runs(longer, n + 1, g)
    <3>1. n + 1 \in Nat
      BY <1>1
    <3> QED
      BY <3>1, RunExists
  <2>3. \A k \in 1..n : f[k] = g[k]
    BY <1>1, <2>1, <2>2, RunsAgree
  <2>4. Replay(log) = f[n]
    BY <1>3, <2>1, ReplayRuns
  <2>5. Replay(longer) = g[n + 1]
    BY <1>1, <1>3, <2>2, ReplayRuns
  <2>6. g[n + 1] = ReplayRecord(g[n], rec)
    <3>1. n + 1 \in 1..(n + 1) /\ n + 1 # 1 /\ (n + 1) - 1 = n
      BY <1>1
    <3>2. g[n + 1] = ReplayRecord(g[(n + 1) - 1], longer[n + 1])
      BY <2>2, <3>1, Zenon DEF Runs
    <3> QED
      BY <1>1, <3>1, <3>2
  <2> QED
    BY <1>1, <2>3, <2>4, <2>5, <2>6 DEF longer
<1> QED
  BY <1>2, <1>3

\* A set of sequences that holds the empty one and, with each, its extensions.
LEMMA SequencesFromAppend ==
  ASSUME NEW S, NEW G, <<>> \in G,
         \A s \in Seq(S) : s \in G => \A x \in S : Append(s, x) \in G
  PROVE  \A s \in Seq(S) : s \in G
<1> DEFINE L == {n \in Nat : \E s \in Seq(S) : Len(s) = n /\ s \notin G}
<1> SUFFICES ASSUME L # {} PROVE FALSE
  OBVIOUS
<1>1. PICK n \in L : \A m \in L : n <= m
  <2> HIDE DEF L
  <2>1. L \in SUBSET Nat
    BY DEF L
  <2> QED
    BY <2>1, LeastElement
<1>2. PICK s \in Seq(S) : Len(s) = n /\ s \notin G
  BY <1>1
<1>3. s # <<>>
  BY <1>2
<1> DEFINE front == SubSeq(s, 1, n - 1)
<1>4. /\ front \in Seq(S) /\ Len(front) = n - 1 /\ s[n] \in S
      /\ s = Append(front, s[n]) /\ n - 1 \in Nat
  BY <1>2, <1>3
<1>5. front \in G
  <2>1. n - 1 \notin L
    <3> HIDE DEF L, front
    <3>1. n \in Nat
      BY DEF L
    <3> QED
      BY <1>1, <1>4, <3>1
  <2> HIDE DEF front
  <2> QED
    BY <1>4, <2>1
<1> QED
  BY <1>2, <1>4, <1>5

\* What comes before a record of a log that is accepted is accepted as well.
LEMMA ReplayPrefix ==
  ASSUME NEW S, NEW log \in Seq(S), Replay(log) # {}, NEW n \in 1..Len(log)
  PROVE  Replay(SubSeq(log, 1, n)) # {}
<1> DEFINE G == {s \in Seq(S) : Replay(s) # {} =>
                   \A m \in 1..Len(s) : Replay(SubSeq(s, 1, m)) # {}}
<1>1. <<>> \in G
  BY ReplayNotInitialized
<1>2. ASSUME NEW s \in Seq(S), s \in G, NEW x \in S
      PROVE  Append(s, x) \in G
  <2> DEFINE t == Append(s, x)
  <2> SUFFICES ASSUME Replay(t) # {}, NEW m \in 1..Len(t)
               PROVE  Replay(SubSeq(t, 1, m)) # {}
    OBVIOUS
  <2>1. CASE m = Len(t)
    <3>1. SubSeq(t, 1, m) = t
      BY <2>1
    <3> QED
      BY <3>1
  <2>2. CASE m # Len(t)
    <3>1. m \in 1..Len(s) /\ s # <<>>
      BY <2>2
    <3>2. SubSeq(t, 1, m) = SubSeq(s, 1, m)
      BY <3>1
    <3>3. Replay(s) # {}
      BY <3>1, ReplayAppend DEF ReplayRecord
    <3> QED
      BY <1>2, <3>1, <3>2, <3>3
  <2> QED
    BY <2>1, <2>2
<1>3. \A s \in Seq(S) : s \in G
  <2> HIDE DEF G
  <2> QED
    BY <1>1, <1>2, SequencesFromAppend
<1> QED
  BY <1>3

-----------------------------------------------------------------------------
StoreType ==
  [initial : Snapshots, lifecycle : {"initialized", "active", "retired"},
   snapshot : Snapshots, activation : SUBSET Activations, retirement : SUBSET Retirements,
   votes : SUBSET Votes,
   locks : [Conflicts -> SUBSET [round : Rounds, digest : Digests]],
   applied : SUBSET Applications, nextSeq : Nat]

\* What a store has recorded since its first record.
Recorded(s) == s.activation \cup s.votes \cup s.applied \cup s.retirement

\* A payload is of the kind it says it is.
LEMMA PayloadKinds ==
  ASSUME NEW op \in Payloads
  PROVE  /\ op.kind = "initialize" => op \in Initializes
         /\ op.kind = "activate" => op \in Activations
         /\ op.kind = "vote" => op \in Votes
         /\ op.kind = "apply" => op \in Applications
         /\ op.kind = "retire" => op \in Retirements
         /\ op.kind \in {"initialize", "activate", "vote", "apply", "retire"}
BY DEF Payloads, Initializes, Activations, Votes, Applications, Retirements

\* The store after Initialize has its type, and nothing recorded.
LEMMA InitialStoreType ==
  ASSUME NEW snap \in Snapshots
  PROVE  /\ InitialStore(snap) \in StoreType
         /\ InitialStore(snap).nextSeq = 1 /\ Recorded(InitialStore(snap)) = {}
         /\ InitialStore(snap).lifecycle = "initialized"
BY DEF InitialStore, StoreType, Recorded

\* A record that is accepted keeps the type of the store, and adds nothing but itself.
LEMMA ReplayEffectType ==
  ASSUME NEW s \in StoreType, NEW rec, rec.op \in Payloads, Replayable(s, rec),
         NEW t, t = ReplayEffect(s, rec)
  PROVE  /\ t \in StoreType
         /\ t.nextSeq = s.nextSeq + 1
         /\ Recorded(t) \subseteq Recorded(s) \cup {rec.op}
         /\ rec.op.kind = "retire" => t.lifecycle = "retired"
         /\ s.lifecycle # "retired" /\ t.lifecycle # "initialized"
<1> DEFINE op == rec.op
<1> USE DEF StoreType
<1>1. CASE op.kind = "activate"
  <2>1. op \in Activations
    BY <1>1, PayloadKinds
  <2>2. t = [[s EXCEPT !.nextSeq = @ + 1] EXCEPT !.lifecycle = "active", !.activation = {op}]
    BY <1>1 DEF ReplayEffect
  <2>3. s.lifecycle = "initialized" /\ s.activation = {}
    BY <1>1 DEF Replayable
  <2>4. t = [initial |-> s.initial, lifecycle |-> "active", snapshot |-> s.snapshot, activation |-> {op},
             retirement |-> s.retirement, votes |-> s.votes,
             locks |-> s.locks,
             applied |-> s.applied, nextSeq |-> s.nextSeq + 1]
    BY <2>1, <2>2
  <2> QED
    BY <1>1, <2>1, <2>3, <2>4 DEF Recorded
<1>2. CASE op.kind = "vote"
  <2>1. op \in Votes /\ op.conflict \in Conflicts /\ Lock(op) \in [round : Rounds, digest : Digests]
    BY <1>2, PayloadKinds DEF Votes, Lock
  <2>2. t = [[s EXCEPT !.nextSeq = @ + 1] EXCEPT !.votes = @ \cup {op},
               !.locks[op.conflict] = IF op.phase = "precommit" THEN {Lock(op)} ELSE @]
    BY <1>2 DEF ReplayEffect
  <2>3. s.lifecycle = "active"
    BY <1>2 DEF Replayable
  <2>4. t = [initial |-> s.initial, lifecycle |-> s.lifecycle, snapshot |-> s.snapshot, activation |-> s.activation,
             retirement |-> s.retirement, votes |-> s.votes \cup {op},
             locks |-> [s.locks EXCEPT ![op.conflict] = IF op.phase = "precommit" THEN {Lock(op)} ELSE @],
             applied |-> s.applied, nextSeq |-> s.nextSeq + 1]
    BY <2>1, <2>2
  <2> QED
    BY <1>2, <2>1, <2>3, <2>4 DEF Recorded
<1>3. CASE op.kind = "apply"
  <2>1. op \in Applications /\ op.next \in Snapshots
    BY <1>3, PayloadKinds DEF Applications
  <2>2. t = [[s EXCEPT !.nextSeq = @ + 1] EXCEPT !.applied = @ \cup {op}, !.snapshot = op.next]
    BY <1>3 DEF ReplayEffect
  <2>3. s.lifecycle = "active"
    BY <1>3 DEF Replayable
  <2>4. t = [initial |-> s.initial, lifecycle |-> s.lifecycle, snapshot |-> op.next, activation |-> s.activation,
             retirement |-> s.retirement, votes |-> s.votes,
             locks |-> s.locks,
             applied |-> s.applied \cup {op}, nextSeq |-> s.nextSeq + 1]
    BY <2>1, <2>2
  <2> QED
    BY <1>3, <2>1, <2>3, <2>4 DEF Recorded
<1>4. CASE op.kind = "retire"
  <2>1. op \in Retirements
    BY <1>4, PayloadKinds
  <2>2. t = [[s EXCEPT !.nextSeq = @ + 1] EXCEPT !.lifecycle = "retired", !.retirement = {op}]
    BY <1>4 DEF ReplayEffect
  <2>3. s.lifecycle = "active"
    BY <1>4 DEF Replayable
  <2>4. t = [initial |-> s.initial, lifecycle |-> "retired", snapshot |-> s.snapshot, activation |-> s.activation,
             retirement |-> {op}, votes |-> s.votes,
             locks |-> s.locks,
             applied |-> s.applied, nextSeq |-> s.nextSeq + 1]
    BY <2>1, <2>2
  <2> QED
    BY <1>4, <2>1, <2>3, <2>4 DEF Recorded
<1> QED
  BY <1>1, <1>2, <1>3, <1>4 DEF Replayable

Entry == Record \cup {Torn}

\* What is true of the store that replaying a log yields.
StoreOf(log, s) ==
  /\ s \in StoreType /\ s.nextSeq = Len(log)
  /\ Recorded(s) \subseteq Payload(log)
  /\ s.lifecycle = "initialized" => s.activation = {}
  /\ Replay(log) = {s}
  /\ log # <<>> /\ log[Len(log)] # Torn
  /\ log[Len(log)].op.kind = "retire" => s.lifecycle = "retired"

\* An entry of a file is a record or the torn line.
LEMMA EntryFacts ==
  ASSUME NEW x \in Entry
  PROVE  /\ x # Torn => x \in Record /\ x.op \in Payloads
         /\ x.op.kind \in {"initialize", "activate", "vote", "apply", "retire"} => x.op \in Payloads
         /\ Torn.op.kind = "torn"
BY DEF Entry, Record, Torn

\* What is known of a store that a log gives, by induction over the log.
LEMMA ReplayFacts ==
  ASSUME NEW log \in Seq(Entry), NEW s \in Replay(log)
  PROVE  StoreOf(log, s)
<1> DEFINE G == {l \in Seq(Entry) : \A u \in Replay(l) : StoreOf(l, u)}
<1>1. <<>> \in G
  BY ReplayNotInitialized
<1>2. ASSUME NEW l \in Seq(Entry), l \in G, NEW x \in Entry
      PROVE  Append(l, x) \in G
  <2> DEFINE t == Append(l, x)
  <2> SUFFICES ASSUME NEW u \in Replay(t)
               PROVE  StoreOf(t, u)
    OBVIOUS
  <2>1. t \in Seq(Entry) /\ Len(t) = Len(l) + 1 /\ t[Len(t)] = x /\ t # <<>> /\ Len(t) \in Nat
    OBVIOUS
  <2>2. Payload(t) = Payload(l) \cup {x.op}
    <3>1. DOMAIN t = DOMAIN l \cup {Len(l) + 1} /\ \A k \in DOMAIN l : t[k] = l[k]
      OBVIOUS
    <3> HIDE DEF t
    <3> QED
      BY <2>1, <3>1 DEF Payload
  <2>3. CASE l = <<>>
    <3>1. t = <<x>> /\ t[1] = x
      BY <2>3
    <3>2. x.op.kind = "initialize"
      BY <3>1, ReplayNotInitialized
    <3>3. Replay(t) = {InitialStore(x.op.snapshot)}
      BY <3>1, <3>2, ReplayOne
    <3>4. x # Torn /\ x.op.snapshot \in Snapshots
      BY <3>2, EntryFacts, PayloadKinds DEF Initializes
    <3> HIDE DEF t
    <3>5. InitialStore(x.op.snapshot).activation = {}
      BY DEF InitialStore
    <3>6. u = InitialStore(x.op.snapshot)
      BY <3>3
    <3>7. Len(t) = 1 /\ t[Len(t)].op.kind # "retire"
      BY <2>1, <2>3, <3>2
    <3> QED
      BY <2>1, <3>3, <3>4, <3>5, <3>6, <3>7, InitialStoreType DEF StoreOf
  <2>4. CASE l # <<>>
    <3>1. Replay(t) = ReplayRecord(Replay(l), x)
      BY <2>4, ReplayAppend
    <3> HIDE DEF t
    <3>2. PICK s0 \in Replay(l) : Replayable(s0, x) /\ u = ReplayEffect(s0, x)
      BY <3>1 DEF ReplayRecord
    <3>3. StoreOf(l, s0)
      BY <1>2
    <3>4. x.op \in Payloads /\ x # Torn
      BY <3>2, EntryFacts DEF Replayable
    <3>5. Replay(t) = {u}
      BY <3>1, <3>2, <3>3 DEF ReplayRecord, StoreOf
    <3>6. /\ u \in StoreType /\ u.nextSeq = s0.nextSeq + 1
          /\ Recorded(u) \subseteq Recorded(s0) \cup {x.op}
          /\ x.op.kind = "retire" => u.lifecycle = "retired"
          /\ u.lifecycle # "initialized"
      BY <3>2, <3>3, <3>4, ReplayEffectType DEF StoreOf
    <3> QED
      BY <2>1, <2>2, <3>3, <3>4, <3>5, <3>6 DEF StoreOf
  <2> QED
    BY <2>3, <2>4
<1>3. \A l \in Seq(Entry) : l \in G
  <2> HIDE DEF G
  <2> QED
    BY <1>1, <1>2, SequencesFromAppend
<1> QED
  BY <1>3

-----------------------------------------------------------------------------
NextRecord(op) == [seq |-> mem.nextSeq, op |-> op]

\* A call may append this payload, and what it will remember is what a replay of
\* the record makes of the store.
Appendable(op) ==
  /\ op \in Payloads
  /\ Replayable(mem, NextRecord(op))
  /\ ReplayEffect(mem, NextRecord(op)) = Remember(op)

\* A call that memory allows is a record that replay accepts after the log in memory.
LEMMA CallsAreAppendable ==
  ASSUME mem \in StoreType, mem.lifecycle = "initialized" => mem.activation = {},
         WalAssumption, NEW op \in Request,
         ActivateAllowed(op) \/ VoteAllowed(op) \/ ApplyAllowed(op) \/ RetireAllowed(op)
  PROVE  Appendable(op)
<1> DEFINE rec == NextRecord(op)
           m == [mem EXCEPT !.nextSeq = @ + 1]
<1>1. op \in Payloads /\ rec.op = op /\ rec.seq = mem.nextSeq
  BY DEF Request, Payloads, NextRecord
<1>2. CASE ActivateAllowed(op)
  <2>1. op.kind = "activate" /\ mem.lifecycle = "initialized" /\ op.snapshot = mem.snapshot
    BY <1>2 DEF ActivateAllowed
  <2>2. Replayable(mem, rec)
    BY <1>1, <2>1 DEF Replayable
  <2>3. ReplayEffect(mem, rec) = [m EXCEPT !.lifecycle = "active", !.activation = {op}]
    BY <1>1, <2>1 DEF ReplayEffect
  <2>4. Remember(op) = [m EXCEPT !.lifecycle = "active", !.snapshot = op.snapshot,
                                 !.activation = {op}]
    BY <2>1 DEF Remember
  <2>5. [m EXCEPT !.lifecycle = "active", !.activation = {op}]
          = [m EXCEPT !.lifecycle = "active", !.snapshot = op.snapshot, !.activation = {op}]
    BY <2>1 DEF StoreType
  <2> QED
    BY <1>1, <2>2, <2>3, <2>4, <2>5 DEF Appendable
<1>3. CASE VoteAllowed(op)
  <2>1. op.kind = "vote" /\ op \in Votes /\ op.conflict \in Conflicts
    BY <1>1, <1>3, PayloadKinds DEF VoteAllowed, Votes
  <2>2. Replayable(mem, rec)
    BY <1>1, <1>3, <2>1 DEF Replayable, VoteAllowed
  <2>3. ReplayEffect(mem, rec)
          = [m EXCEPT !.votes = @ \cup {op},
                      !.locks[op.conflict] = IF op.phase = "precommit" THEN {Lock(op)} ELSE @]
    BY <1>1, <2>1 DEF ReplayEffect
  <2>4. Remember(op)
          = IF op.phase = "precommit"
              THEN [m EXCEPT !.votes = @ \cup {op}, !.locks[op.conflict] = {Lock(op)}]
              ELSE [m EXCEPT !.votes = @ \cup {op}]
    BY <2>1 DEF Remember
  <2>5. CASE op.phase = "precommit"
    BY <1>1, <2>2, <2>3, <2>4, <2>5 DEF Appendable
  <2>6. CASE op.phase # "precommit"
    <3>1. [m.locks EXCEPT ![op.conflict] = @] = m.locks
      BY <2>1 DEF StoreType
    <3>2. m.locks = mem.locks /\ m \in StoreType
      BY DEF StoreType
    <3> HIDE DEF m
    <3>3. [m EXCEPT !.votes = @ \cup {op}, !.locks[op.conflict] = @]
            = [m EXCEPT !.votes = @ \cup {op}]
      BY <3>1, <3>2 DEF StoreType
    <3> QED
      BY <1>1, <2>2, <2>3, <2>4, <2>6, <3>3 DEF Appendable
  <2> QED
    BY <2>5, <2>6
<1>4. CASE ApplyAllowed(op)
  <2>1. op.kind = "apply" /\ op \in Applications
    BY <1>1, <1>4, PayloadKinds DEF ApplyAllowed
  <2>2. op.prior = mem.snapshot
    BY <2>1 DEF Request, Activations, Votes, Retirements
  <2>3. Replayable(mem, rec)
    BY <1>1, <1>4, <2>1, <2>2 DEF Replayable, ApplyAllowed
  <2>4. ReplayEffect(mem, rec) = Remember(op)
    BY <1>1, <2>1 DEF ReplayEffect, Remember
  <2> QED
    BY <1>1, <2>3, <2>4 DEF Appendable
<1>5. CASE RetireAllowed(op)
  <2>1. op.kind = "retire" /\ op \in Retirements
    BY <1>1, <1>5, PayloadKinds DEF RetireAllowed
  <2>2. op.snapshot = mem.snapshot
    BY <2>1 DEF Request, Activations, Votes, Applications
  <2>3. Replayable(mem, rec)
    BY <1>1, <1>5, <2>1, <2>2 DEF Replayable, RetireAllowed
  <2>4. ReplayEffect(mem, rec) = Remember(op)
    BY <1>1, <2>1 DEF ReplayEffect, Remember
  <2> QED
    BY <1>1, <2>3, <2>4 DEF Appendable
<1> QED
  BY <1>2, <1>3, <1>4, <1>5

\* The record a call appends is replayed to what the call remembers.
LEMMA AppendedIsRemembered ==
  ASSUME NEW op, Appendable(op), mem \in StoreType,
         NEW log \in Seq(Entry), log # <<>>, Replay(log) = {mem}, Len(log) < MaxRecords
  PROVE  /\ NextRecord(op) \in Record
         /\ Replay(Append(log, NextRecord(op))) = {Remember(op)}
<1>1. mem.nextSeq = Len(log)
  BY ReplayFacts DEF StoreOf
<1>2. NextRecord(op) \in Record
  BY <1>1, WalAssumption DEF NextRecord, Record, Appendable, WalAssumption
<1>3. Replay(Append(log, NextRecord(op))) = ReplayRecord({mem}, NextRecord(op))
  <2>1. NextRecord(op) \in Entry
    BY <1>2 DEF Entry
  <2> QED
    BY <2>1, ReplayAppend
<1> QED
  BY <1>2, <1>3 DEF ReplayRecord, Appendable

-----------------------------------------------------------------------------
\* What is said of the file, whoever wrote it.
FileInv ==
  /\ file \in Seq(Entry) /\ Len(file) <= MaxRecords /\ synced \in 0..Len(file)
  /\ OnlyATornTailIsRefused /\ RetirementIsLast

\* The shape of an append in progress.
CallInv ==
  /\ proc \in {"down", "opening", "up"} /\ poisoned \in BOOLEAN
  /\ stage \in {"idle", "called", "partial", "complete"}
  /\ stage = "idle" <=> pending = {}
  /\ pending \subseteq Payloads /\ \A a, b \in pending : a = b
  /\ proc # "up" => mem = NoStore /\ ~ poisoned
  /\ proc = "down" => stage = "idle"
  /\ stage # "idle" => ~ poisoned
  /\ stage \in {"partial", "complete"} => synced < Len(file)

\* A process that makes a new log.
OpeningInv ==
  proc = "opening" =>
    /\ stage # "idle" /\ \A op \in pending : op.kind = "initialize"
    /\ stage = "called" => file = <<>>
    /\ stage = "partial" => file = <<Torn>>
    /\ stage = "complete" => \A op \in pending : file = <<[seq |-> 0, op |-> op]>>

\* A running process: what it remembers, and what its append will make of that.
UpInv ==
  proc = "up" =>
    /\ mem \in StoreType
    /\ stage \in {"idle", "called"} /\ ~ poisoned => Replay(file) = {mem}
    /\ stage \in {"called", "partial"} => \A op \in pending : Appendable(op)
    /\ stage = "called" => Len(file) < MaxRecords
    /\ stage = "partial" =>
         file # <<>> /\ file[Len(file)] = Torn /\ Replay(Complete(file)) = {mem}
    /\ stage = "complete" =>
         file # <<>> /\ \A op \in pending : file[Len(file)].op = op /\ Replay(file) = {Remember(op)}

FreshInv ==
  /\ fresh \subseteq acked /\ acked \subseteq Payloads
  /\ fresh \subseteq {file[k].op : k \in 1..synced}

WalInv == FileInv /\ CallInv /\ OpeningInv /\ UpInv /\ FreshInv

\* The torn line is an entry of files.
LEMMA TornIsEntry == Torn \in Entry /\ Torn.op.kind = "torn" /\ <<Torn>> \in Seq(Entry)
<1>1. Torn \in Entry
  BY DEF Entry
<1> QED
  BY <1>1 DEF Torn

\* Two ways for a step to leave a file that is in order.
LEMMA WholeFile ==
  ASSUME NEW log \in Seq(Entry), file' = log,
         Len(log) <= MaxRecords, synced' \in 0..Len(log),
         \A k \in 1..Len(log) : log[k] # Torn,
         \A k \in 1..(Len(log) - 1) : log[k].op.kind # "retire",
         log # <<>> => Replay(log) # {}
  PROVE  FileInv' /\ Complete(file') = log
<1>1. Complete(file') = log
  BY DEF Complete
<1>2. OnlyATornTailIsRefused'
  BY <1>1 DEF OnlyATornTailIsRefused
<1>3. RetirementIsLast'
  <2> SUFFICES ASSUME NEW k \in DOMAIN log, log[k].op.kind = "retire"
               PROVE  k = Len(log)
    BY DEF RetirementIsLast
  <2>1. k \in 1..Len(log) /\ Len(log) \in Nat
    OBVIOUS
  <2> QED
    BY <2>1
<1> QED
  BY <1>1, <1>2, <1>3 DEF FileInv

\* A file that gets a torn line keeps its invariant, and its complete records.
LEMMA TornFile ==
  ASSUME NEW log \in Seq(Entry), file' = Append(log, Torn),
         Len(log) < MaxRecords, MaxRecords \in Nat, synced' \in 0..(Len(log) + 1),
         \A k \in 1..Len(log) : log[k] # Torn /\ log[k].op.kind # "retire",
         log # <<>> => Replay(log) # {}
  PROVE  FileInv' /\ Complete(file') = log /\ file'[Len(file')] = Torn /\ file' # <<>>
<1> DEFINE t == Append(log, Torn)
<1>1. /\ t \in Seq(Entry) /\ Len(t) = Len(log) + 1 /\ t[Len(t)] = Torn /\ t # <<>>
      /\ \A k \in 1..Len(log) : t[k] = log[k]
      /\ SubSeq(t, 1, Len(t) - 1) = log /\ DOMAIN t = 1..(Len(log) + 1) /\ Len(log) \in Nat
  BY TornIsEntry
<1> HIDE DEF t
<1>2. Complete(t) = log
  BY <1>1 DEF Complete
<1>3. file' = t
  BY DEF t
<1>4. OnlyATornTailIsRefused'
  <2>1. \A k \in 1..(Len(t) - 1) : t[k] # Torn
    BY <1>1
  <2> QED
    BY <1>2, <1>3, <2>1 DEF OnlyATornTailIsRefused
<1>5. RetirementIsLast'
  <2>1. \A k \in DOMAIN t : t[k].op.kind # "retire"
    BY <1>1, TornIsEntry
  <2> QED
    BY <1>3, <2>1 DEF RetirementIsLast
<1> QED
  BY <1>1, <1>2, <1>3, <1>4, <1>5 DEF FileInv

\* What FileInv says of a file, record by record.
LEMMA FileFacts ==
  ASSUME FileInv
  PROVE  /\ file \in Seq(Entry) /\ Len(file) \in Nat /\ Len(file) <= MaxRecords
         /\ synced \in 0..Len(file) /\ DOMAIN file = 1..Len(file)
         /\ \A k \in 1..(Len(file) - 1) : file[k] # Torn /\ file[k].op.kind # "retire"
         /\ file # <<>> /\ file[Len(file)] # Torn => Complete(file) = file /\ Replay(file) # {}
<1>1. file \in Seq(Entry) /\ Len(file) \in Nat /\ Len(file) <= MaxRecords
      /\ synced \in 0..Len(file) /\ DOMAIN file = 1..Len(file)
  BY DEF FileInv
<1>2. \A k \in 1..(Len(file) - 1) : file[k] # Torn
  BY DEF FileInv, OnlyATornTailIsRefused
<1>3. \A k \in 1..(Len(file) - 1) : file[k].op.kind # "retire"
  BY <1>1 DEF FileInv, RetirementIsLast
<1>4. file # <<>> /\ file[Len(file)] # Torn => Complete(file) = file /\ Replay(file) # {}
  BY DEF FileInv, OnlyATornTailIsRefused, Complete
<1> QED
  BY <1>1, <1>2, <1>3, <1>4

\* The empty directory satisfies the invariant.
LEMMA WalInit == WalAssumption /\ Init => WalInv
<1> SUFFICES ASSUME WalAssumption, Init PROVE WalInv
  OBVIOUS
<1>1. file = <<>> /\ synced = 0 /\ file \in Seq(Entry) /\ Len(file) = 0
  BY DEF Init
<1>2. OnlyATornTailIsRefused
  BY <1>1 DEF OnlyATornTailIsRefused, Complete
<1>3. RetirementIsLast
  BY <1>1 DEF RetirementIsLast
<1>4. FileInv
  BY <1>1, <1>2, <1>3 DEF FileInv, WalAssumption
<1>5. CallInv /\ OpeningInv /\ UpInv
  BY DEF Init, CallInv, OpeningInv, UpInv
<1>6. FreshInv
  BY DEF Init, FreshInv
<1> QED
  BY <1>4, <1>5, <1>6 DEF WalInv

\* Cutting the file between two records leaves one that can be replayed.
LEMMA CutsAreReplayable ==
  ASSUME FileInv, NEW n \in 1..(Len(file) - 1)
  PROVE  Replay(SubSeq(file, 1, n)) # {}
<1>1. file \in Seq(Entry) /\ Len(file) \in Nat /\ n \in 1..Len(file) /\ file # <<>>
  BY FileFacts
<1>2. CASE file[Len(file)] # Torn
  BY <1>1, <1>2, FileFacts, ReplayPrefix
<1>3. CASE file[Len(file)] = Torn
  <2> DEFINE log == SubSeq(file, 1, Len(file) - 1)
  <2>1. log \in Seq(Entry) /\ Len(log) = Len(file) - 1 /\ n \in 1..Len(log) /\ log # <<>>
    <3>1. log \in Seq(Entry)
      BY <1>1
    <3>2. Len(log) = Len(file) - 1
      BY <1>1
    <3>3. n \in 1..Len(log)
      BY <3>2
    <3> HIDE DEF log
    <3>4. log # <<>>
      BY <1>1, <3>2, <3>3
    <3> QED
      BY <1>1, <3>1, <3>2, <3>3, <3>4
  <2>2. SubSeq(log, 1, n) = SubSeq(file, 1, n)
    <3> DEFINE a == SubSeq(log, 1, n)
               b == SubSeq(file, 1, n)
    <3>1. a \in Seq(Entry) /\ Len(a) = n /\ \A k \in 1..n : a[k] = log[k]
      <4> HIDE DEF log
      <4> QED
        BY <2>1
    <3>2. b \in Seq(Entry) /\ Len(b) = n /\ \A k \in 1..n : b[k] = file[k]
      BY <1>1
    <3>3. \A k \in 1..n : log[k] = file[k]
      BY <1>1, <2>1
    <3> HIDE DEF a, b, log
    <3> QED
      BY <3>1, <3>2, <3>3, SeqEqual
  <2>3. Replay(log) # {}
    BY <1>1, <1>3, <2>1 DEF FileInv, OnlyATornTailIsRefused, Complete
  <2> HIDE DEF log
  <2>4. Replay(SubSeq(log, 1, n)) # {}
    BY <2>1, <2>3, ReplayPrefix
  <2> QED
    BY <2>2, <2>4
<1> QED
  BY <1>2, <1>3

\* A process that is gone leaves nothing to show but the file.
LEMMA KilledIsSafe ==
  ASSUME WalInv, Stop, stage' = "idle", pending' = {}, FileInv', FreshInv'
  PROVE  WalInv'
BY DEF WalInv, CallInv, OpeningInv, UpInv, Stop

\* A machine that loses power loses records that are not synced, and may tear the first
\* of them.
LEMMA LosePowerStep == WalAssumption /\ WalInv /\ LosePower => WalInv'
<1> SUFFICES ASSUME WalAssumption, WalInv, LosePower PROVE WalInv'
  OBVIOUS
<1>1. PICK n \in synced..Len(file) :
        file' = SubSeq(file, 1, n) \/ (n < Len(file) /\ file' = Append(SubSeq(file, 1, n), Torn))
  BY Zenon DEF LosePower
<1>2. synced' = Len(file') /\ acked' = acked /\ fresh' = fresh
  BY DEF LosePower
<1>3. file \in Seq(Entry) /\ synced \in 0..Len(file) /\ Len(file) \in Nat /\ n \in 0..Len(file)
      /\ FileInv /\ Len(file) <= MaxRecords /\ MaxRecords \in Nat
  BY FileFacts DEF WalInv, WalAssumption
<1> DEFINE cut == SubSeq(file, 1, n)
<1>4. cut \in Seq(Entry) /\ Len(cut) = n /\ \A k \in 1..n : cut[k] = file[k]
  BY <1>3
<1>5. FileInv' /\ n <= Len(file') /\ \A k \in 1..n : file'[k] = file[k]
  <2>1. CASE n = Len(file)
    <3>1. file' = file
      BY <1>1, <1>3, <2>1
    <3>2. Len(file') \in 0..Len(file')
      BY <1>3, <3>1
    <3>3. FileInv'
      BY <1>2, <1>3, <3>1, <3>2
         DEF FileInv, OnlyATornTailIsRefused, RetirementIsLast
    <3> QED
      BY <1>3, <2>1, <3>1, <3>3
  <2>2. CASE n < Len(file)
    <3>1. \A k \in 1..n : cut[k] # Torn /\ cut[k].op.kind # "retire"
      BY <1>3, <1>4, <2>2, FileFacts
    <3>2. cut # <<>> => Replay(cut) # {}
      BY <1>3, <1>4, <2>2, CutsAreReplayable
    <3>3. CASE file' = cut
      <4> HIDE DEF cut
      <4>1. \A k \in 1..(n - 1) : k \in 1..n
        BY <1>3
      <4> QED
        BY <1>2, <1>3, <1>4, <2>2, <3>1, <3>2, <3>3, <4>1, WholeFile
    <3>4. CASE file' = Append(cut, Torn)
      <4> HIDE DEF cut
      <4>1. Len(file') = n + 1 /\ \A k \in 1..n : file'[k] = cut[k]
        BY <1>3, <1>4, <3>4, TornIsEntry
      <4> QED
        BY <1>2, <1>3, <1>4, <2>2, <3>1, <3>2, <3>4, <4>1, TornFile
    <3> QED
      BY <1>1, <3>3, <3>4
  <2> QED
    BY <1>3, <2>1, <2>2
<1>6. FreshInv'
  <2>1. \A k \in 1..synced : k \in 1..synced' /\ file'[k] = file[k]
    <3>1. n \in Nat /\ synced \in Nat /\ synced <= n /\ Len(file') \in Nat
      BY <1>1, <1>3, <1>5 DEF FileInv
    <3> QED
      BY <1>2, <1>5, <3>1
  <2> QED
    BY <1>2, <2>1 DEF WalInv, FreshInv
<1> QED
  BY <1>5, <1>6, KilledIsSafe DEF LosePower
-----------------------------------------------------------------------------
\* A store that is up between calls, or has just been called, is what its file
\* replays to.
LEMMA UpFacts ==
  ASSUME WalInv, proc = "up", stage \in {"idle", "called"}, ~ poisoned
  PROVE  /\ StoreOf(file, mem) /\ mem \in StoreType /\ Replay(file) = {mem}
         /\ file # <<>> /\ file[Len(file)] # Torn /\ mem.nextSeq = Len(file)
<1>1. file \in Seq(Entry) /\ Replay(file) = {mem}
  BY DEF WalInv, FileInv, UpInv
<1>2. StoreOf(file, mem)
  BY <1>1, ReplayFacts
<1> QED
  BY <1>2 DEF StoreOf

\* The facts about the file are about the file, the synced length and the acknowledged
\* calls.
LEMMA SameFile ==
  ASSUME FileInv, UNCHANGED <<file, synced>>
  PROVE  FileInv'
BY DEF FileInv, OnlyATornTailIsRefused, RetirementIsLast

\* A call that is allowed in memory is one that the log can take.
LEMMA CallStep == WalAssumption /\ WalInv /\ Call => WalInv'
<1> SUFFICES ASSUME WalAssumption, WalInv, Call PROVE WalInv'
  OBVIOUS
<1>1. PICK op \in Request :
        /\ ActivateAllowed(op) \/ VoteAllowed(op) \/ ApplyAllowed(op) \/ RetireAllowed(op)
        /\ Begin(op)
  BY Zenon DEF Call
<1>2. proc = "up" /\ stage = "idle" /\ ~ poisoned /\ mem.nextSeq < MaxRecords /\ proc' = proc
  BY DEF Call, Healthy
<1>3. StoreOf(file, mem) /\ mem \in StoreType /\ Replay(file) = {mem} /\ mem.nextSeq = Len(file)
  BY <1>2, UpFacts
<1>4. Appendable(op)
  BY <1>1, <1>3, CallsAreAppendable DEF StoreOf
<1>5. /\ UNCHANGED <<file, synced, proc, mem, poisoned, acked, fresh>>
      /\ stage' = "called" /\ pending' = {op}
  BY <1>1, <1>2 DEF Begin
<1>6. op \in Payloads /\ Appendable(op)'
  <2>1. Appendable(op)'
    BY <1>4, <1>5 DEF Appendable, NextRecord, Remember
  <2> QED
    BY <1>4, <2>1 DEF Appendable
<1>7. FileInv'
  BY <1>5, SameFile DEF WalInv
<1>8. CallInv'
  BY <1>2, <1>5, <1>6 DEF WalInv, CallInv
<1>9. UpInv'
  BY <1>2, <1>3, <1>5, <1>6 DEF UpInv
<1>10. OpeningInv' /\ FreshInv'
  BY <1>2, <1>5 DEF WalInv, OpeningInv, FreshInv
<1> QED
  BY <1>7, <1>8, <1>9, <1>10 DEF WalInv

\* A call that has been recorded already writes nothing.
LEMMA CallAgainStep == WalInv /\ CallAgain => WalInv'
<1> SUFFICES ASSUME WalInv, CallAgain PROVE WalInv'
  OBVIOUS
<1>1. PICK op \in mem.activation \cup mem.votes \cup mem.applied \cup mem.retirement :
        acked' = acked \cup {op}
  BY Zenon DEF CallAgain
<1>2. /\ proc = "up" /\ stage = "idle" /\ ~ poisoned
      /\ UNCHANGED <<file, synced, proc, mem, poisoned, pending, stage, fresh>>
  BY DEF CallAgain, Healthy
<1>3. op \in Payloads
  <2>1. mem \in StoreType
    BY <1>2, UpFacts
  <2> QED
    BY <1>1, <2>1 DEF StoreType, Payloads
<1>4. FileInv'
  BY <1>2, SameFile DEF WalInv
<1>5. CallInv' /\ OpeningInv'
  BY <1>2 DEF WalInv, CallInv, OpeningInv
<1>6. UpInv'
  BY <1>2 DEF WalInv, UpInv
<1>7. FreshInv'
  BY <1>1, <1>2, <1>3 DEF WalInv, FreshInv
<1> QED
  BY <1>4, <1>5, <1>6, <1>7 DEF WalInv

\* An append in progress finds the store open for one more record.
LEMMA NotRetired ==
  ASSUME NEW op, Appendable(op)
  PROVE  mem.lifecycle # "retired"
BY DEF Appendable, Replayable, NextRecord

\* A torn write leaves the records before it.
LEMMA WritePartStep == WalAssumption /\ WalInv /\ WritePart => WalInv'
<1> SUFFICES ASSUME WalAssumption, WalInv, WritePart PROVE WalInv'
  OBVIOUS
<1>1. /\ stage = "called" /\ stage' = "partial" /\ file' = Append(file, Torn)
      /\ UNCHANGED <<synced, proc, mem, poisoned, pending, acked, fresh>>
  BY DEF WritePart
<1>2. proc \in {"opening", "up"} /\ ~ poisoned /\ pending # {} /\ FileInv
  BY <1>1 DEF WalInv, CallInv
<1>3. file \in Seq(Entry) /\ Len(file) \in Nat /\ synced \in 0..Len(file) /\ MaxRecords \in Nat \ {0}
  BY <1>2, FileFacts DEF WalAssumption
<1>4. /\ FileInv' /\ Complete(file') = file /\ file'[Len(file')] = Torn /\ file' # <<>>
      /\ proc = "up" => Replay(file) = {mem}
      /\ proc = "opening" => file = <<>>
  <2>1. CASE proc = "opening"
    <3>1. file = <<>>
      BY <1>1, <2>1 DEF WalInv, OpeningInv
    <3>2. Len(file) < MaxRecords /\ synced' \in 0..(Len(file) + 1) /\ MaxRecords \in Nat
      BY <1>1, <1>3, <3>1
    <3>3. \A k \in 1..Len(file) : file[k] # Torn /\ file[k].op.kind # "retire"
      BY <3>1
    <3> QED
      BY <1>1, <1>3, <2>1, <3>1, <3>2, <3>3, TornFile
  <2>2. CASE proc = "up"
    <3>1. StoreOf(file, mem) /\ Replay(file) = {mem} /\ file # <<>> /\ file[Len(file)] # Torn
      BY <1>1, <1>2, <2>2, UpFacts
    <3>2. mem.lifecycle # "retired" /\ Len(file) < MaxRecords
      BY <1>1, <1>2, <2>2, NotRetired DEF WalInv, UpInv
    <3>3. \A k \in 1..Len(file) : file[k] # Torn /\ file[k].op.kind # "retire"
      <4>1. file[Len(file)].op.kind # "retire"
        BY <3>1, <3>2 DEF StoreOf
      <4>2. \A k \in 1..Len(file) : k \in 1..(Len(file) - 1) \/ k = Len(file)
        BY <1>3
      <4> QED
        BY <1>2, <3>1, <4>1, <4>2, FileFacts
    <3>4. synced' \in 0..(Len(file) + 1)
      BY <1>1, <1>3
    <3>5. FileInv' /\ Complete(file') = file /\ file'[Len(file')] = Torn /\ file' # <<>>
      BY <1>1, <1>3, <3>1, <3>2, <3>3, <3>4, TornFile
    <3> QED
      BY <2>2, <3>1, <3>5
  <2> QED
    BY <1>2, <2>1, <2>2
<1>5. Len(file') = Len(file) + 1 /\ \A k \in 1..Len(file) : file'[k] = file[k]
  BY <1>1, <1>3, TornIsEntry
<1>6. CallInv'
  <2>1. synced' < Len(file')
    BY <1>1, <1>3, <1>5
  <2> QED
    BY <1>1, <1>2, <2>1 DEF WalInv, CallInv
<1>7. OpeningInv'
  <2>1. file = <<>> => file' = <<Torn>>
    BY <1>1
  <2> QED
    BY <1>1, <1>4, <2>1 DEF WalInv, OpeningInv
<1>8. UpInv'
  <2>1. ASSUME NEW op \in pending, proc = "up"
        PROVE  Appendable(op)'
    <3>1. Appendable(op)
      BY <1>1, <2>1 DEF WalInv, UpInv
    <3> QED
      BY <1>1, <3>1 DEF Appendable, NextRecord, Remember
  <2> QED
    BY <1>1, <1>4, <2>1 DEF WalInv, UpInv
<1>9. FreshInv'
  <2>1. \A k \in 1..synced : file'[k] = file[k]
    BY <1>3, <1>5
  <2> QED
    BY <1>1, <2>1 DEF WalInv, FreshInv
<1> QED
  BY <1>4, <1>6, <1>7, <1>8, <1>9 DEF WalInv

\* The last bytes of the record: what the step makes of the file.
LEMMA WriteRestFile ==
  ASSUME WalAssumption, WalInv, WriteRest
  PROVE  \E op \in pending, log \in Seq(Entry) :
           /\ pending = {op} /\ op \in Payloads /\ log = Complete(file)
           /\ proc \in {"opening", "up"} /\ ~ poisoned /\ Len(file) = Len(log) + 1
           /\ file = Append(log, Torn)
           /\ proc = "up" =>
                /\ Appendable(op) /\ mem \in StoreType /\ log # <<>> /\ Replay(log) = {mem}
                /\ file' = Append(log, NextRecord(op))
           /\ proc = "opening" =>
                /\ log = <<>> /\ op.kind = "initialize" /\ file' = <<[seq |-> 0, op |-> op]>>
<1>1. stage = "partial" /\ UNCHANGED <<proc, mem, pending>>
  BY DEF WriteRest
<1>2. proc \in {"opening", "up"} /\ ~ poisoned /\ pending # {} /\ FileInv /\ pending \subseteq Payloads
  BY <1>1 DEF WalInv, CallInv
<1>3. PICK op \in pending :
        file' = [file EXCEPT ![Len(file)] =
                   [seq |-> IF proc = "opening" THEN 0 ELSE mem.nextSeq, op |-> op]]
  BY Zenon DEF WriteRest
<1>4. pending = {op} /\ op \in Payloads
  BY <1>2 DEF WalInv, CallInv
<1>5. CASE proc = "opening"
  <2>1. file = <<Torn>> /\ op.kind = "initialize"
    BY <1>1, <1>5 DEF WalInv, OpeningInv
  <2>2. Complete(file) = <<>>
    BY <2>1 DEF Complete
  <2>3. file' = <<[seq |-> 0, op |-> op]>>
    BY <1>3, <1>5, <2>1
  <2>4. <<>> \in Seq(Entry) /\ file = Append(<<>>, Torn) /\ Len(file) = Len(<<>>) + 1
    BY <2>1
  <2> QED
    BY <1>2, <1>4, <1>5, <2>1, <2>2, <2>3, <2>4
<1>6. CASE proc = "up"
  <2> DEFINE log == SubSeq(file, 1, Len(file) - 1)
  <2>1. /\ mem \in StoreType /\ Appendable(op)
        /\ file # <<>> /\ file[Len(file)] = Torn /\ Replay(Complete(file)) = {mem}
    BY <1>1, <1>6 DEF WalInv, UpInv
  <2>2. log = Complete(file)
    BY <2>1 DEF Complete
  <2>3. file \in Seq(Entry) /\ Len(file) \in Nat /\ Len(file) > 0
    BY <1>2, <2>1, FileFacts
  <2>4. log \in Seq(Entry) /\ Len(log) = Len(file) - 1 /\ \A k \in 1..Len(log) : log[k] = file[k]
    <3>1. log \in Seq(Entry)
      BY <2>3
    <3>2. Len(log) = Len(file) - 1
      BY <2>3
    <3>3. \A k \in 1..(Len(file) - 1) : log[k] = file[k]
      BY <2>3
    <3> HIDE DEF log
    <3> QED
      BY <3>1, <3>2, <3>3
  <2>5. log # <<>>
    <3> HIDE DEF log
    <3>1. StoreOf(log, mem)
      BY <2>1, <2>2, <2>4, ReplayFacts
    <3> QED
      BY <3>1 DEF StoreOf
  <2>6. file = Append(log, Torn)
    <3> HIDE DEF log
    <3> DEFINE t == Append(log, Torn)
    <3>1. t \in Seq(Entry) /\ Len(t) = Len(file) /\ \A k \in 1..Len(t) : t[k] = file[k]
      BY <2>1, <2>3, <2>4, TornIsEntry
    <3> HIDE DEF t
    <3>2. t = file
      BY <2>3, <3>1, SeqEqual
    <3> QED
      BY <3>2 DEF t
  <2>7. file' = Append(log, NextRecord(op))
    <3>1. file' = [file EXCEPT ![Len(file)] = NextRecord(op)]
      BY <1>3, <1>6 DEF NextRecord
    <3> HIDE DEF log
    <3> DEFINE t == Append(log, NextRecord(op))
               r == NextRecord(op)
               U == Entry \cup {r}
               f == [file EXCEPT ![Len(file)] = r]
    <3>2. log \in Seq(U)
      BY <2>4
    <3>3. file \in Seq(U)
      BY <2>3
    <3> HIDE DEF r
    <3>4. t \in Seq(U) /\ Len(t) = Len(file) /\ \A k \in 1..Len(t) : t[k] = IF k = Len(file) THEN r ELSE file[k]
      BY <2>3, <2>4, <3>2 DEF r
    <3>5. f \in Seq(U) /\ Len(f) = Len(file) /\ \A k \in 1..Len(f) : f[k] = IF k = Len(file) THEN r ELSE file[k]
      BY <2>3, <3>3
    <3> HIDE DEF t, f, U
    <3>6. t = f
      BY <3>4, <3>5, SeqEqual
    <3> QED
      BY <3>1, <3>6 DEF t, f, r
  <2> HIDE DEF log
  <2> QED
    BY <1>2, <1>4, <1>6, <2>1, <2>2, <2>3, <2>4, <2>5, <2>6, <2>7
<1> QED
  BY <1>2, <1>5, <1>6

\* A complete write is the torn line made whole: replay gives what memory will have.
LEMMA WriteRestStep == WalAssumption /\ WalInv /\ WriteRest => WalInv'
<1> SUFFICES ASSUME WalAssumption, WalInv, WriteRest PROVE WalInv'
  OBVIOUS
<1>1. /\ stage = "partial" /\ stage' = "complete"
      /\ UNCHANGED <<synced, proc, mem, poisoned, pending, acked, fresh>>
  BY DEF WriteRest
<1>2. PICK op \in pending, log \in Seq(Entry) :
           /\ pending = {op} /\ op \in Payloads /\ log = Complete(file)
           /\ proc \in {"opening", "up"} /\ ~ poisoned /\ Len(file) = Len(log) + 1
           /\ file = Append(log, Torn)
           /\ proc = "up" =>
                /\ Appendable(op) /\ mem \in StoreType /\ log # <<>> /\ Replay(log) = {mem}
                /\ file' = Append(log, NextRecord(op))
           /\ proc = "opening" =>
                /\ log = <<>> /\ op.kind = "initialize" /\ file' = <<[seq |-> 0, op |-> op]>>
  BY WriteRestFile, Zenon
<1>3. Len(log) \in Nat /\ synced \in 0..Len(log) /\ Len(file) <= MaxRecords /\ MaxRecords \in Nat \ {0}
  <2>1. synced < Len(file) /\ synced \in Nat /\ Len(file) <= MaxRecords
    BY <1>1, FileFacts DEF WalInv, CallInv
  <2> QED
    BY <1>2, <2>1 DEF WalAssumption
<1> DEFINE r == IF proc = "opening" THEN [seq |-> 0, op |-> op] ELSE NextRecord(op)
<1>4. /\ r \in Entry /\ r # Torn /\ r.op = op /\ file' = Append(log, r)
      /\ proc = "up" => Replay(file') = {Remember(op)}
      /\ Replay(Append(log, r)) # {}
      /\ \A k \in 1..Len(log) : log[k] # Torn /\ log[k].op.kind # "retire"
  <2>1. CASE proc = "opening"
    <3>1. r = [seq |-> 0, op |-> op] /\ r.op = op /\ r.op.kind # "torn"
      BY <1>2, <2>1
    <3>2. r \in Record
      BY <1>2, <1>3, <3>1 DEF Record
    <3>3. r # Torn
      BY <3>1, TornIsEntry
    <3> HIDE DEF r
    <3>4. Append(log, r) = <<r>>
      BY <1>2, <2>1
    <3>5. Replay(<<r>>) = {InitialStore(r.op.snapshot)}
      BY <1>2, <2>1, <3>1, <3>2, ReplayOne DEF Entry
    <3> QED
      BY <1>2, <2>1, <3>1, <3>2, <3>3, <3>4, <3>5 DEF Entry
  <2>2. CASE proc = "up"
    <3>1. r = NextRecord(op) /\ r.op = op
      BY <2>2 DEF NextRecord
    <3>2. r.op.kind # "torn"
      BY <1>2, <3>1, PayloadKinds
    <3>3. r # Torn
      BY <3>2, TornIsEntry
    <3>4. Len(log) < MaxRecords
      BY <1>2, <1>3
    <3>5. r \in Record /\ Replay(Append(log, r)) = {Remember(op)}
      <4> HIDE DEF r
      <4> QED
        BY <1>2, <2>2, <3>1, <3>4, AppendedIsRemembered
    <3>6. \A k \in 1..Len(log) : log[k] # Torn /\ log[k].op.kind # "retire"
      <4>1. StoreOf(log, mem)
        BY <1>2, <2>2, ReplayFacts
      <4>2. mem.lifecycle # "retired"
        BY <1>2, <2>2, NotRetired
      <4>3. log[Len(log)] # Torn /\ log[Len(log)].op.kind # "retire"
        BY <4>1, <4>2 DEF StoreOf
      <4>4. \A k \in 1..(Len(file) - 1) : file[k] # Torn /\ file[k].op.kind # "retire"
        BY FileFacts DEF WalInv
      <4>5. Len(log) = Len(file) - 1 /\ \A k \in 1..Len(log) : file[k] = log[k]
        BY <1>2, <1>3, TornIsEntry
      <4> QED
        BY <4>4, <4>5
    <3> HIDE DEF r
    <3> QED
      BY <1>2, <2>2, <3>1, <3>3, <3>5, <3>6 DEF Entry
  <2> QED
    BY <1>2, <2>1, <2>2
<1> HIDE DEF r
<1> DEFINE t == Append(log, r)
<1>5. /\ t \in Seq(Entry) /\ Len(t) = Len(log) + 1 /\ t[Len(t)] = r /\ t # <<>>
      /\ \A k \in 1..Len(log) : t[k] = log[k] /\ file[k] = log[k]
      /\ file' = t
  BY <1>2, <1>3, <1>4, TornIsEntry
<1> HIDE DEF t
<1>6. FileInv' /\ Len(file') = Len(file)
  <2>1. \A k \in 1..Len(t) : t[k] # Torn
    <3>1. \A k \in 1..Len(t) : k \in 1..Len(log) \/ k = Len(t)
      BY <1>3, <1>5
    <3> QED
      BY <1>4, <1>5, <3>1
  <2>2. \A k \in 1..(Len(t) - 1) : t[k].op.kind # "retire"
    BY <1>3, <1>4, <1>5
  <2>3. Len(t) <= MaxRecords /\ synced' \in 0..Len(t)
    BY <1>1, <1>2, <1>3, <1>5
  <2>4. FileInv'
    BY <1>4, <1>5, <2>1, <2>2, <2>3, WholeFile DEF t
  <2> QED
    BY <1>2, <1>5, <2>4
<1>7. CallInv'
  <2>1. synced' < Len(file')
    BY <1>1, <1>2, <1>3, <1>6
  <2> QED
    BY <1>1, <1>2, <2>1 DEF WalInv, CallInv
<1>8. OpeningInv'
  BY <1>1, <1>2 DEF WalInv, OpeningInv
<1>9. UpInv'
  <2> SUFFICES ASSUME proc' = "up"
               PROVE  UpInv'
    BY DEF UpInv
  <2>1. proc = "up" /\ file' # <<>> /\ file'[Len(file')].op = op /\ pending' = {op} /\ mem' = mem
    BY <1>1, <1>2, <1>4, <1>5
  <2>2. Replay(file') = {Remember(op)'}
    <3>1. Remember(op)' = Remember(op)
      BY <2>1 DEF Remember
    <3> QED
      BY <1>4, <2>1, <3>1
  <2> QED
    BY <1>1, <1>2, <2>1, <2>2 DEF UpInv
<1>10. FreshInv'
  <2>1. \A k \in 1..synced : file'[k] = file[k]
    BY <1>3, <1>5
  <2> QED
    BY <1>1, <2>1 DEF WalInv, FreshInv
<1> QED
  BY <1>6, <1>7, <1>8, <1>9, <1>10 DEF WalInv

\* What is acknowledged is synced, and memory has caught up with the file.
LEMMA SyncAndReturnStep == WalAssumption /\ WalInv /\ SyncAndReturn => WalInv'
<1> SUFFICES ASSUME WalAssumption, WalInv, SyncAndReturn PROVE WalInv'
  OBVIOUS
<1>1. /\ stage = "complete" /\ stage' = "idle" /\ synced' = Len(file) /\ proc' = "up"
      /\ pending' = {} /\ UNCHANGED <<file, poisoned>>
  BY DEF SyncAndReturn
<1>2. PICK op \in pending :
        /\ mem' = IF proc = "opening" THEN InitialStore(op.snapshot) ELSE Remember(op)
        /\ acked' = acked \cup {op} /\ fresh' = fresh \cup {op}
  BY Zenon DEF SyncAndReturn
<1>3. /\ proc \in {"opening", "up"} /\ ~ poisoned /\ op \in Payloads /\ FileInv
      /\ file \in Seq(Entry) /\ Len(file) \in Nat /\ synced \in 0..Len(file)
  BY <1>1, FileFacts DEF WalInv, CallInv
<1>4. file # <<>> /\ file[Len(file)].op = op /\ Replay(file) = {mem'}
  <2>1. CASE proc = "opening"
    <3>1. file = <<[seq |-> 0, op |-> op]>> /\ op.kind = "initialize"
      BY <1>1, <2>1 DEF WalInv, OpeningInv
    <3> DEFINE r == [seq |-> 0, op |-> op]
    <3>2. r \in Entry /\ r.op = op
      BY <1>3, WalAssumption DEF Entry, Record, WalAssumption
    <3> HIDE DEF r
    <3>3. Replay(<<r>>) = {InitialStore(op.snapshot)}
      BY <3>1, <3>2, ReplayOne
    <3>4. file = <<r>>
      BY <3>1 DEF r
    <3> QED
      BY <1>2, <2>1, <3>2, <3>3, <3>4
  <2>2. CASE proc = "up"
    BY <1>1, <1>2, <2>2 DEF WalInv, UpInv
  <2> QED
    BY <1>3, <2>1, <2>2
<1>5. mem' \in StoreType
  BY <1>3, <1>4, ReplayFacts DEF StoreOf
<1>6. FileInv'
  <2>1. synced' \in 0..Len(file)
    BY <1>1, <1>3
  <2> QED
    BY <1>1, <1>3, <2>1 DEF FileInv, OnlyATornTailIsRefused, RetirementIsLast
<1>7. CallInv'
  BY <1>1, <1>3 DEF WalInv, CallInv
<1>8. OpeningInv' /\ UpInv'
  BY <1>1, <1>4, <1>5 DEF OpeningInv, UpInv
<1>9. FreshInv'
  <2>1. Len(file) \in 1..synced' /\ \A k \in 1..synced : k \in 1..synced'
    BY <1>1, <1>3, <1>4
  <2> QED
    BY <1>1, <1>2, <1>3, <1>4, <2>1 DEF WalInv, FreshInv
<1> QED
  BY <1>6, <1>7, <1>8, <1>9 DEF WalInv

\* The sessions without a crash are about the file and the acknowledged calls.
LEMMA SameFresh ==
  ASSUME FreshInv, UNCHANGED <<file, synced, acked, fresh>>
  PROVE  FreshInv'
BY DEF FreshInv

\* An append that fails poisons the store.
LEMMA IoErrorStep == WalInv /\ IoError => WalInv'
<1> SUFFICES ASSUME WalInv, IoError PROVE WalInv'
  OBVIOUS
<1>1. /\ stage # "idle" /\ stage' = "idle" /\ pending' = {}
      /\ UNCHANGED <<file, synced, acked, fresh>>
  BY DEF IoError
<1>2. FileInv' /\ FreshInv'
  BY <1>1, SameFile, SameFresh DEF WalInv
<1>3. CASE proc = "opening"
  BY <1>1, <1>2, <1>3, KilledIsSafe DEF IoError
<1>4. CASE proc # "opening"
  <2>1. poisoned' = TRUE /\ UNCHANGED <<proc, mem>> /\ proc = "up"
    BY <1>1, <1>4 DEF IoError, WalInv, CallInv
  <2>2. CallInv' /\ OpeningInv' /\ UpInv'
    BY <1>1, <2>1 DEF WalInv, CallInv, OpeningInv, UpInv
  <2> QED
    BY <1>2, <2>2 DEF WalInv
<1> QED
  BY <1>3, <1>4

\* A killed process leaves the file as it was.
LEMMA KillStep == WalInv /\ Kill => WalInv'
<1> SUFFICES ASSUME WalInv, Kill PROVE WalInv'
  OBVIOUS
<1>1. FileInv' /\ FreshInv'
  BY SameFile, SameFresh DEF WalInv, Kill
<1> QED
  BY <1>1, KilledIsSafe DEF Kill

\* Opening an empty file writes Initialize.
LEMMA OpenEmptyStep == WalAssumption /\ WalInv /\ OpenEmpty => WalInv'
<1> SUFFICES ASSUME WalAssumption, WalInv, OpenEmpty PROVE WalInv'
  OBVIOUS
<1>1. PICK g \in GenesisOffers : Begin([kind |-> "initialize", snapshot |-> g])
  BY Zenon DEF OpenEmpty
<1> DEFINE op == [kind |-> "initialize", snapshot |-> g]
<1>2. op \in Payloads /\ op.kind = "initialize"
  BY DEF WalAssumption, Payloads, Initializes
<1>3. /\ proc = "down" /\ file = <<>> /\ proc' = "opening"
      /\ pending' = {op} /\ stage' = "called"
      /\ UNCHANGED <<file, synced, mem, poisoned, acked, fresh>>
  BY <1>1 DEF OpenEmpty, Begin
<1> HIDE DEF op
<1>4. FileInv' /\ FreshInv'
  BY <1>3, SameFile, SameFresh DEF WalInv
<1>5. CallInv'
  BY <1>2, <1>3 DEF WalInv, CallInv
<1>6. OpeningInv' /\ UpInv'
  BY <1>2, <1>3 DEF OpeningInv, UpInv
<1> QED
  BY <1>4, <1>5, <1>6 DEF WalInv

\* Opening a file with records replays them.
LEMMA OpenExistingStep == WalInv /\ OpenExisting => WalInv'
<1> SUFFICES ASSUME WalInv, OpenExisting PROVE WalInv'
  OBVIOUS
<1>1. PICK s \in Replay(file) : mem' = s
  BY Zenon DEF OpenExisting
<1>2. /\ proc = "down" /\ file # <<>> /\ proc' = "up"
      /\ UNCHANGED <<file, synced, poisoned, pending, stage, acked, fresh>>
  BY DEF OpenExisting
<1>3. s \in StoreType /\ Replay(file) = {s}
  <2>1. StoreOf(file, s)
    BY ReplayFacts DEF WalInv, FileInv
  <2> QED
    BY <2>1 DEF StoreOf
<1>4. stage = "idle" /\ ~ poisoned
  BY <1>2 DEF WalInv, CallInv
<1>5. FileInv' /\ FreshInv'
  BY <1>2, SameFile, SameFresh DEF WalInv
<1>6. CallInv' /\ OpeningInv' /\ UpInv'
  BY <1>1, <1>2, <1>3, <1>4 DEF WalInv, CallInv, OpeningInv, UpInv
<1> QED
  BY <1>5, <1>6 DEF WalInv

\* Steps of nothing keep the invariant.
LEMMA StutterStep == WalInv /\ UNCHANGED vars => WalInv'
<1> SUFFICES ASSUME WalInv, UNCHANGED vars PROVE WalInv'
  OBVIOUS
<1>1. FileInv' /\ FreshInv'
  BY SameFile, SameFresh DEF WalInv, vars
<1>2. CallInv' /\ OpeningInv'
  BY DEF WalInv, CallInv, OpeningInv, vars
<1>3. UpInv'
  <2>1. UNCHANGED <<file, proc, mem, poisoned, pending, stage>>
    BY DEF vars
  <2>2. \A op : Remember(op)' = Remember(op) /\ Appendable(op)' = Appendable(op)
    BY <2>1 DEF Remember, Appendable, NextRecord
  <2> QED
    BY <2>1, <2>2 DEF WalInv, UpInv
<1> QED
  BY <1>1, <1>2, <1>3 DEF WalInv

\* Every step keeps the invariant.
LEMMA WalStep == WalAssumption /\ WalInv /\ [PowerNext]_vars => WalInv'
BY CallStep, CallAgainStep, WritePartStep, WriteRestStep, SyncAndReturnStep, IoErrorStep,
   KillStep, OpenEmptyStep, OpenExistingStep, LosePowerStep, StutterStep
   DEF PowerNext, Next

\* The invariant holds in every reachable state, loss of power included.
LEMMA WalSafe == PowerSpec => []WalInv
<1>1. Init => WalInv
  BY WalInit, WalAssumption
<1>2. WalInv /\ [PowerNext]_vars => WalInv'
  BY WalStep, WalAssumption
<1> QED
  BY <1>1, <1>2, PTL DEF PowerSpec

\* What holds however power is lost holds when processes are only killed.
LEMMA KillsArePowerSteps == Spec => PowerSpec
<1>1. [Next]_vars => [PowerNext]_vars
  BY DEF PowerNext
<1> QED
  BY <1>1, PTL DEF Spec, PowerSpec

\* The log is well formed and the process in order, whatever is interrupted, fails or
\* is lost: one append at a time, and memory in a running process only.
THEOREM WalTyped == PowerSpec => []TypeOK
<1>1. WalInv => TypeOK
  <2> SUFFICES ASSUME WalInv PROVE TypeOK
    OBVIOUS
  <2>1. file \in Seq(Record \cup {Torn}) /\ Len(file) <= MaxRecords /\ synced \in 0..Len(file)
    BY DEF WalInv, FileInv, Entry
  <2>2. mem = NoStore <=> proc # "up"
    BY DEF WalInv, CallInv, UpInv, StoreType, NoStore
  <2>3. Cardinality(pending) <= 1
    <3>1. CASE pending = {}
      BY <3>1, FS_EmptySet
    <3>2. CASE pending # {}
      <4>1. PICK op \in pending : pending = {op}
        BY <3>2 DEF WalInv, CallInv
      <4> QED
        BY <4>1, FS_Singleton
    <3> QED
      BY <3>1, <3>2
  <2> QED
    BY <2>1, <2>2, <2>3 DEF TypeOK, WalInv, CallInv, FreshInv
<1> QED
  BY <1>1, WalSafe, PTL

\* Between calls a healthy store remembers exactly what a start would make of its file
\* (store.rs persist_vote, activate, record_application and retire against open_at).
THEOREM MemoryIsTheFile == PowerSpec => []MemoryMatchesFile
<1>1. WalInv => MemoryMatchesFile
  BY DEF WalInv, UpInv, MemoryMatchesFile, Healthy
<1> QED
  BY <1>1, WalSafe, PTL

\* Whatever interrupts an append, the records before it can be replayed: only an
\* incomplete last record makes a start refuse the file.
THEOREM DamageIsATornTail == PowerSpec => []OnlyATornTailIsRefused
<1>1. WalInv => OnlyATornTailIsRefused
  BY DEF WalInv, FileInv
<1> QED
  BY <1>1, WalSafe, PTL

\* No record ever follows a retirement, in this process or in a later one.
THEOREM RetirementIsTerminal == PowerSpec => []RetirementIsLast
<1>1. WalInv => RetirementIsLast
  BY DEF WalInv, FileInv
<1> QED
  BY <1>1, WalSafe, PTL

\* What a call reported as Persisted is in the part of the file that a completed
\* sync_all covers, so a loss of power leaves it there.
THEOREM PersistedSurvivesPowerLoss == PowerSpec => []PersistedIsSynced
<1>1. WalInv => PersistedIsSynced
  <2> SUFFICES ASSUME WalInv PROVE PersistedIsSynced
    OBVIOUS
  <2>1. file \in Seq(Entry) /\ synced \in 0..Len(file)
    BY DEF WalInv, FileInv
  <2> DEFINE log == SubSeq(file, 1, synced)
  <2>2. DOMAIN log = 1..synced /\ \A k \in 1..synced : log[k] = file[k]
    BY <2>1
  <2> HIDE DEF log
  <2>3. Payload(log) = {file[k].op : k \in 1..synced}
    BY <2>2 DEF Payload
  <2> QED
    BY <2>3 DEF WalInv, FreshInv, PersistedIsSynced, log
<1> QED
  BY <1>1, WalSafe, PTL

\* Without a loss of power no complete record is ever changed or removed.
LEMMA RecordsStay ==
  ASSUME WalAssumption, WalInv, [Next]_vars
  PROVE  \A k \in DOMAIN file : file[k] # Torn => k \in DOMAIN file' /\ file'[k] = file[k]
<1>1. CASE UNCHANGED file
  BY <1>1
<1>2. CASE WritePart
  <2>1. file' = Append(file, Torn) /\ file \in Seq(Entry)
    BY <1>2 DEF WritePart, WalInv, FileInv
  <2> QED
    BY <2>1, TornIsEntry
<1>3. CASE WriteRest
  <2>1. PICK op \in pending, log \in Seq(Entry) :
           /\ Len(file) = Len(log) + 1 /\ file = Append(log, Torn)
           /\ proc \in {"opening", "up"}
           /\ proc = "up" => file' = Append(log, NextRecord(op))
           /\ proc = "opening" => log = <<>> /\ file' = <<[seq |-> 0, op |-> op]>>
    BY <1>3, WriteRestFile, Zenon
  <2>2. \E r : file' = Append(log, r)
    BY <2>1
  <2>3. PICK r : file' = Append(log, r)
    BY <2>2
  <2> DEFINE U == Entry \cup {r}
  <2>4. log \in Seq(U) /\ r \in U /\ Torn \in U
    BY TornIsEntry
  <2> HIDE DEF U
  <2>5. \A k \in DOMAIN file : k \in 1..Len(log) \/ file[k] = Torn
    BY <2>1, <2>4
  <2>6. \A k \in 1..Len(log) : k \in DOMAIN file' /\ file'[k] = log[k] /\ file[k] = log[k]
    BY <2>1, <2>3, <2>4
  <2> QED
    BY <2>5, <2>6
<1> QED
  BY <1>1, <1>2, <1>3
     DEF Next, vars, Call, Begin, CallAgain, SyncAndReturn, IoError, Kill, OpenEmpty, OpenExisting

\* Whatever a call reported as done, AlreadyPresent included, is in the file of every
\* later process, however often the process is killed.
THEOREM AckedIsNeverForgotten == Spec => []AckedSurvivesKill
<1> DEFINE Kept == acked \subseteq Payload(file)
<1>1. Init => Kept
  BY DEF Init
<1>2. WalInv /\ Kept /\ [Next]_vars => Kept'
  <2> SUFFICES ASSUME WalInv, Kept, [Next]_vars PROVE Kept'
    OBVIOUS
  <2>1. acked \subseteq Payload(file')
    <3> SUFFICES ASSUME NEW op \in acked PROVE op \in Payload(file')
      OBVIOUS
    <3>1. PICK k \in DOMAIN file : file[k].op = op
      BY DEF Payload
    <3>2. file[k] # Torn
      BY <3>1, PayloadKinds, TornIsEntry DEF WalInv, FreshInv
    <3> QED
      BY <3>1, <3>2, RecordsStay, WalAssumption DEF Payload
  <2>2. CASE UNCHANGED acked
    BY <2>1, <2>2
  <2>3. CASE CallAgain
    <3>1. PICK op \in mem.activation \cup mem.votes \cup mem.applied \cup mem.retirement :
            acked' = acked \cup {op}
      BY <2>3, Zenon DEF CallAgain
    <3>2. StoreOf(file, mem) /\ file' = file
      BY <2>3, UpFacts DEF CallAgain, Healthy
    <3>3. op \in Payload(file)
      BY <3>1, <3>2 DEF StoreOf, Recorded
    <3> QED
      BY <2>1, <3>1, <3>2, <3>3
  <2>4. CASE SyncAndReturn
    <3>1. PICK op \in pending : acked' = acked \cup {op}
      BY <2>4, Zenon DEF SyncAndReturn
    <3>2. file' = file /\ stage = "complete" /\ proc \in {"opening", "up"}
      BY <2>4 DEF SyncAndReturn, WalInv, CallInv
    <3>3. file \in Seq(Entry) /\ file # <<>> /\ file[Len(file)].op = op
      BY <3>1, <3>2 DEF WalInv, FileInv, OpeningInv, UpInv
    <3>4. Len(file) \in DOMAIN file
      BY <3>3
    <3> QED
      BY <2>1, <3>1, <3>2, <3>3, <3>4 DEF Payload
  <2> QED
    BY <2>2, <2>3, <2>4
       DEF Next, vars, Call, Begin, WritePart, WriteRest, IoError, Kill, OpenEmpty, OpenExisting
<1>3. Kept => AckedSurvivesKill
  BY DEF AckedSurvivesKill
<1> QED
  BY <1>1, <1>2, <1>3, WalSafe, KillsArePowerSteps, PTL DEF Spec

-----------------------------------------------------------------------------
\* A vote and a lock as VoteBook writes them, and the book of a set of stores.
BallotOf(w) == [phase |-> w.phase, round |-> w.round, cell |-> w.conflict, value |-> w.digest]
BookLockOf(l) == [round |-> l.round, value |-> l.digest]

BookOf(found) ==
  [o \in {Committee} |-> {BallotOf(w) : w \in UNION {s.votes : s \in found}}]
LocksOf(found) ==
  [o \in {Committee} |->
     [c \in Conflicts |-> {BookLockOf(l) : l \in UNION {s.locks[c] : s \in found}}]]

\* No store, and a store without votes, are the same empty book.
EmptyBook == BookOf({})
EmptyLocks == LocksOf({})

\* The initial store is the empty book.
LEMMA InitialBookIsEmpty ==
  ASSUME NEW snap
  PROVE  /\ BookOf({InitialStore(snap)}) = EmptyBook
         /\ LocksOf({InitialStore(snap)}) = EmptyLocks
<1>1. InitialStore(snap).votes = {} /\ InitialStore(snap).locks = [c \in Conflicts |-> {}]
  BY DEF InitialStore
<1>2. UNION {s.votes : s \in {InitialStore(snap)}} = UNION {s.votes : s \in {}}
  BY <1>1
<1>3. \A c \in Conflicts : UNION {s.locks[c] : s \in {InitialStore(snap)}}
                             = UNION {s.locks[c] : s \in {}}
  BY <1>1
<1> QED
  BY <1>2, <1>3 DEF BookOf, LocksOf, EmptyBook, EmptyLocks

\* The book of one store.
LEMMA BookOfOne ==
  ASSUME NEW s
  PROVE  /\ BookOf({s}) = [o \in {Committee} |-> {BallotOf(w) : w \in s.votes}]
         /\ LocksOf({s}) = [o \in {Committee} |->
                              [c \in Conflicts |-> {BookLockOf(l) : l \in s.locks[c]}]]
<1>1. UNION {t.votes : t \in {s}} = s.votes
  OBVIOUS
<1>2. \A c \in Conflicts : UNION {t.locks[c] : t \in {s}} = s.locks[c]
  OBVIOUS
<1> QED
  BY <1>1, <1>2 DEF BookOf, LocksOf

\* A vote that is appended is cast in the book.
LEMMA VoteIsCast ==
  ASSUME NEW op \in Votes, Appendable(op), op.kind = "vote", mem \in StoreType,
         BookOf(Recoverable) = BookOf({mem}), LocksOf(Recoverable) = LocksOf({mem}),
         BookOf(Recoverable)' = BookOf({Remember(op)}),
         LocksOf(Recoverable)' = LocksOf({Remember(op)})
  PROVE  Book!Cast(Committee, BallotOf(op))
<1> DEFINE b == BallotOf(op)
           m == [mem EXCEPT !.nextSeq = @ + 1]
           t == Remember(op)
<1>1. /\ b.phase = op.phase /\ b.round = op.round /\ b.cell = op.conflict /\ b.value = op.digest
      /\ op.conflict \in Conflicts
  BY DEF BallotOf, Votes
<1>2. /\ ~ \E w \in mem.votes : SameKey(w, op)
      /\ \A l \in mem.locks[op.conflict] : l.round <= op.round /\ l.digest = op.digest
  BY DEF Appendable, Replayable, NextRecord, RespectsLock
<1>3. /\ t.votes = mem.votes \cup {op}
      /\ t.locks = IF op.phase = "precommit"
                     THEN [mem.locks EXCEPT ![op.conflict] = {Lock(op)}] ELSE mem.locks
  <2>1. t = IF op.phase = "precommit"
              THEN [m EXCEPT !.votes = @ \cup {op}, !.locks[op.conflict] = {Lock(op)}]
              ELSE [m EXCEPT !.votes = @ \cup {op}]
    BY DEF Remember
  <2> QED
    BY <2>1 DEF StoreType
<1>4. mem.locks \in [Conflicts -> SUBSET [round : Rounds, digest : Digests]]
  BY DEF StoreType
<1> HIDE DEF t, m, b
<1>a. /\ BookOf({mem}) = [o \in {Committee} |-> {BallotOf(w) : w \in mem.votes}]
      /\ LocksOf({mem}) = [o \in {Committee} |->
                             [c \in Conflicts |-> {BookLockOf(l) : l \in mem.locks[c]}]]
  BY BookOfOne, Zenon
<1>b. /\ BookOf({t}) = [o \in {Committee} |-> {BallotOf(w) : w \in t.votes}]
      /\ LocksOf({t}) = [o \in {Committee} |->
                             [c \in Conflicts |-> {BookLockOf(l) : l \in t.locks[c]}]]
  BY BookOfOne, Zenon
<1>5. ~ \E a \in BookOf({mem})[Committee] : Book!SameBallot(a, b)
  <2> SUFFICES ASSUME NEW w \in mem.votes, Book!SameBallot(BallotOf(w), b) PROVE FALSE
    BY <1>a, <1>b
  <2> QED
    BY <1>1, <1>2 DEF Book!SameBallot, SameKey, BallotOf
<1>6. \A l \in LocksOf({mem})[Committee][b.cell] : l.round <= b.round /\ l.value = b.value
  <2>1. LocksOf({mem})[Committee][b.cell] = {BookLockOf(l) : l \in mem.locks[op.conflict]}
    BY <1>1, <1>a, <1>b
  <2> QED
    BY <1>1, <1>2, <2>1 DEF BookLockOf
<1>7. BookOf({t}) = [BookOf({mem}) EXCEPT ![Committee] = @ \cup {b}]
  <2>1. {BallotOf(w) : w \in t.votes} = {BallotOf(w) : w \in mem.votes} \cup {b}
    BY <1>3 DEF b
  <2> QED
    BY <2>1, <1>a, <1>b
<1>8. LocksOf({t}) = IF b.phase = "precommit"
                       THEN [LocksOf({mem}) EXCEPT
                               ![Committee][b.cell] = {[round |-> b.round, value |-> b.value]}]
                       ELSE LocksOf({mem})
  <2>1. CASE op.phase # "precommit"
    <3>1. t.locks = mem.locks
      BY <1>3, <2>1
    <3> QED
      BY <1>1, <2>1, <3>1, <1>a, <1>b
  <2>2. CASE op.phase = "precommit"
    <3>1. \A c \in Conflicts : t.locks[c] = IF c = op.conflict THEN {Lock(op)} ELSE mem.locks[c]
      BY <1>3, <1>4, <2>2
    <3>2. {BookLockOf(l) : l \in {Lock(op)}} = {[round |-> b.round, value |-> b.value]}
      BY <1>1 DEF BookLockOf, Lock
    <3>3. \A c \in Conflicts :
            {BookLockOf(l) : l \in t.locks[c]}
              = IF c = b.cell THEN {[round |-> b.round, value |-> b.value]}
                              ELSE {BookLockOf(l) : l \in mem.locks[c]}
      BY <1>1, <3>1, <3>2
    <3> DEFINE new == {[round |-> b.round, value |-> b.value]}
               L(s) == [c \in Conflicts |-> {BookLockOf(l) : l \in s.locks[c]}]
    <3>4. L(t) = [L(mem) EXCEPT ![b.cell] = new]
      BY <1>1, <3>3
    <3>5. LocksOf({t}) = [o \in {Committee} |-> L(t)] /\ LocksOf({mem}) = [o \in {Committee} |-> L(mem)]
      BY <1>a, <1>b
    <3> HIDE DEF L
    <3>6. LocksOf({t}) = [LocksOf({mem}) EXCEPT ![Committee] = [@ EXCEPT ![b.cell] = new]]
      BY <3>4, <3>5
    <3>7. LocksOf({t}) = [LocksOf({mem}) EXCEPT ![Committee][b.cell] = new]
      BY <3>6
    <3> QED
      BY <1>1, <2>2, <3>7
  <2> QED
    BY <2>1, <2>2
<1> QED
  BY <1>5, <1>6, <1>7, <1>8
     DEF Book!Cast, BookOf, LocksOf, BallotOf, BookLockOf, b, t

\* Any other payload leaves the book as it was.
LEMMA OnlyVotesAreBooked ==
  ASSUME NEW op, Appendable(op), op.kind # "vote", mem \in StoreType
  PROVE  Remember(op).votes = mem.votes /\ Remember(op).locks = mem.locks
<1>1. op.kind \in {"activate", "apply", "retire"}
  BY DEF Appendable, Replayable, NextRecord
<1> QED
  BY <1>1 DEF Remember, StoreType

\* Stores with the same votes and locks are the same book.
LEMMA SameBook ==
  ASSUME NEW s, NEW t, t.votes = s.votes, t.locks = s.locks
  PROVE  BookOf({t}) = BookOf({s}) /\ LocksOf({t}) = LocksOf({s})
<1>1. /\ BookOf({s}) = [o \in {Committee} |-> {BallotOf(w) : w \in s.votes}]
      /\ LocksOf({s}) = [o \in {Committee} |->
                             [c \in Conflicts |-> {BookLockOf(l) : l \in s.locks[c]}]]
  BY BookOfOne, Zenon
<1>2. /\ BookOf({t}) = [o \in {Committee} |-> {BallotOf(w) : w \in t.votes}]
      /\ LocksOf({t}) = [o \in {Committee} |->
                             [c \in Conflicts |-> {BookLockOf(l) : l \in t.locks[c]}]]
  BY BookOfOne, Zenon
<1> QED
  BY <1>1, <1>2

\* Every step casts one vote in the book that can be recovered, or none.
LEMMA StepIsBooked ==
  ASSUME WalAssumption, WalInv, WalInv', [Next]_vars
  PROVE  [Book!Next]_<<BookOf(Recoverable), LocksOf(Recoverable)>>
<1>1. CASE UNCHANGED file
  BY <1>1 DEF Recoverable, BookOf, LocksOf
<1>2. CASE WritePart
  <2>1. stage = "called" /\ file' = Append(file, Torn) /\ FileInv
    BY <1>2 DEF WritePart, WalInv
  <2>2. file \in Seq(Entry)
    BY <2>1 DEF FileInv
  <2>3. file = <<>> \/ file[Len(file)] # Torn
    BY <2>1, UpFacts DEF WalInv, CallInv, OpeningInv
  <2>4. Complete(file) = file
    BY <2>3 DEF Complete
  <2>5. Complete(Append(file, Torn)) = file
    BY <2>2, TornIsEntry DEF Complete
  <2>6. Recoverable' = Recoverable
    BY <2>1, <2>4, <2>5 DEF Recoverable
  <2> QED
    BY <2>6 DEF BookOf, LocksOf
<1>3. CASE WriteRest
  <2>1. PICK op \in pending, log \in Seq(Entry) :
           /\ pending = {op} /\ op \in Payloads /\ log = Complete(file)
           /\ proc \in {"opening", "up"}
           /\ proc = "up" => Appendable(op) /\ mem \in StoreType /\ Replay(log) = {mem}
           /\ proc = "opening" =>
                /\ log = <<>> /\ op.kind = "initialize" /\ file' = <<[seq |-> 0, op |-> op]>>
    BY <1>3, WriteRestFile, Zenon
  <2>2. stage' = "complete" /\ UNCHANGED <<proc, mem, pending>>
    BY <1>3 DEF WriteRest
  <2>3. CASE proc = "opening"
    <3> DEFINE r == [seq |-> 0, op |-> op]
    <3>1. r.op = op /\ r # Torn
      BY <2>1, <2>3, PayloadKinds, TornIsEntry
    <3> HIDE DEF r
    <3>2. file' = <<r>>
      BY <2>1, <2>3 DEF r
    <3>3. Complete(file') = <<r>>
      BY <3>1, <3>2 DEF Complete
    <3>4. Replay(<<r>>) = {InitialStore(op.snapshot)}
      BY <2>1, <2>3, <3>1, ReplayOne
    <3>5. Recoverable' = {InitialStore(op.snapshot)} /\ Recoverable = {}
      BY <2>1, <2>3, <3>3, <3>4, ReplayNotInitialized DEF Recoverable
    <3>6. /\ BookOf(Recoverable') = BookOf(Recoverable)
          /\ LocksOf(Recoverable') = LocksOf(Recoverable)
      BY <3>5, InitialBookIsEmpty DEF EmptyBook, EmptyLocks
    <3> QED
      BY <3>6 DEF BookOf, LocksOf
  <2>4. CASE proc = "up"
    <3>1. Recoverable = {mem}
      BY <2>1, <2>4 DEF Recoverable
    <3>2. Recoverable' = {Remember(op)}
      <4>1. file' # <<>> /\ file'[Len(file')].op = op /\ Replay(file') = {Remember(op)'}
        BY <2>1, <2>2, <2>4 DEF WalInv, UpInv
      <4>2. file'[Len(file')] # Torn
        BY <2>1, <4>1, PayloadKinds, TornIsEntry
      <4>3. Complete(file') = file'
        BY <4>1, <4>2 DEF Complete
      <4>4. Remember(op)' = Remember(op)
        BY <2>2 DEF Remember
      <4> QED
        BY <4>1, <4>3, <4>4 DEF Recoverable
    <3>3. BookOf(Recoverable)' = BookOf({Remember(op)}) /\ LocksOf(Recoverable)' = LocksOf({Remember(op)})
      BY <3>2 DEF BookOf, LocksOf
    <3>4. CASE op.kind = "vote"
      <4>1. Book!Cast(Committee, BallotOf(op)) /\ op \in Votes
        BY <2>1, <2>4, <3>1, <3>3, <3>4, PayloadKinds, VoteIsCast
      <4>2. BallotOf(op) \in Book!Ballots
        BY <4>1 DEF BallotOf, Votes, Phases, Book!Ballots
      <4> QED
        BY <4>1, <4>2 DEF Book!Next
    <3>5. CASE op.kind # "vote"
      <4>1. Remember(op).votes = mem.votes /\ Remember(op).locks = mem.locks
        BY <2>1, <2>4, <3>5, OnlyVotesAreBooked
      <4>2. BookOf({Remember(op)}) = BookOf({mem}) /\ LocksOf({Remember(op)}) = LocksOf({mem})
        BY <4>1, SameBook
      <4> QED
        BY <3>1, <3>3, <4>2
    <3> QED
      BY <3>4, <3>5
  <2> QED
    BY <2>1, <2>3, <2>4
<1> QED
  BY <1>1, <1>2, <1>3
     DEF Next, vars, Call, Begin, CallAgain, SyncAndReturn, IoError, Kill, OpenEmpty, OpenExisting

\* Through every interrupted append, failed write and kill, the votes and locks a start
\* would recover are a book of votes: it only gains votes, by the rules of VoteBook, so
\* by BooksNeverEquivocate the validator never equivocates.
THEOREM LogIsAVoteBook == Spec => RecoversAVoteBook
<1>1. Init => Book!Init
  <2> SUFFICES ASSUME Init PROVE Book!Init
    OBVIOUS
  <2>1. Recoverable = {}
    BY ReplayNotInitialized DEF Init, Recoverable, Complete
  <2> QED
    BY <2>1 DEF Book!Init
<1>2. WalInv /\ WalInv' /\ [Next]_vars => [Book!Next]_<<BookOf(Recoverable), LocksOf(Recoverable)>>
  BY StepIsBooked, WalAssumption
<1> QED
  BY <1>1, <1>2, WalSafe, KillsArePowerSteps, PTL
     DEF Spec, RecoversAVoteBook, Book!Spec, Book!vars, BookOf, LocksOf, BallotOf, BookLockOf
=============================================================================
