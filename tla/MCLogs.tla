------------------------------- MODULE MCLogs -------------------------------
(***************************************************************************)
(* Logs and bytes for TLC: a behaviour runs the validator's log under loss *)
(* of power, or a committee of four, one member Byzantine, whose           *)
(* certifiers keep the lock logs of SEC-003 or SEC-007, or it takes one    *)
(* message from its writer to its reader, or runs one trial of a fault     *)
(* campaign against the same committee, or moves money between cells, or    *)
(* spends cells in the way of the first two experiments.                   *)
(***************************************************************************)
EXTENDS WalStore, SpendLocks, MCWire, FaultCampaign, Transfers,
        CertifiedSpends, TLC

CONSTANTS LogKinds, v1, v2, v3, b1, pay, steal, coin, gem, core1, core2,
          alice, bob

VARIABLE keeping  \* the log this behaviour is about

logVars == <<keeping, vars, lockLogVars, wireVars, faultVars, moneyVars, spendVars>>

\* Both spends take the same coin, and one of them another in front of it.
SpendCoins == [t \in Spends |-> IF t = pay THEN <<coin, gem>> ELSE <<gem>>]

\* Amounts of which some add up to the genesis amounts, and some only modulo the word.
GenesisPurse == <<[amount |-> 3, owner |-> alice], [amount |-> 2, owner |-> bob]>>

\* Three cells of alice's, and orders that conflict, name a cell twice, take too much,
\* spend the output of another, call theirs by the name of a cell that may be gone, or
\* add up to more than a word holds.
Ref(id, generation) == [id |-> id, generation |-> generation]
Order(inputs, output, recipient, value) ==
  [inputs |-> inputs, output |-> output, recipient |-> recipient, value |-> value]

AlicePurse ==
  {[id |-> i, value |-> IF i = 5 THEN 2 ELSE 1, generation |-> 7, owner |-> alice] : i \in {1, 2, 5}}

SampleOrders ==
  {Order(<<Ref(1, 7), Ref(2, 7)>>, 3, bob, 2), Order(<<Ref(2, 7), Ref(1, 7)>>, 3, alice, 2),
   Order(<<Ref(1, 7)>>, 4, bob, 1), Order(<<Ref(2, 7)>>, 1, alice, 1),
   Order(<<Ref(1, 7)>>, 2, bob, 1), Order(<<Ref(2, 7), Ref(2, 7)>>, 4, bob, 2),
   Order(<<Ref(1, 7)>>, 4, bob, 2), Order(<<Ref(3, 0)>>, 1, alice, 2),
   Order(<<Ref(1, 7), Ref(2, 7), Ref(5, 7)>>, 4, bob, 4)}

LogsInit ==
  /\ keeping \in LogKinds
  /\ Init /\ SpendLocksInit /\ WireInit /\ FaultInit /\ MoneyInit
  /\ SpendInit
  /\ keeping # "locks" => store = CHOOSE s \in LockStores : TRUE
  /\ keeping # "wire" => message = CHOOSE m \in Messages : TRUE
  /\ keeping # "faults" => campaign = "sec008" /\ trial = "baseline"
  /\ keeping # "spends" => tier = "sec002" /\ trusted = b1

LogsNext ==
  \/ /\ keeping = "wal" /\ PowerNext
     /\ UNCHANGED <<keeping, lockLogVars, wireVars, faultVars, moneyVars, spendVars>>
  \/ /\ keeping = "locks" /\ SpendLocksNext
     /\ UNCHANGED <<keeping, vars, wireVars, faultVars, moneyVars, spendVars>>
  \/ /\ keeping = "wire" /\ WireNext
     /\ UNCHANGED <<keeping, vars, lockLogVars, faultVars, moneyVars, spendVars>>
  \/ /\ keeping = "faults" /\ FaultNext
     /\ UNCHANGED <<keeping, vars, lockLogVars, wireVars, moneyVars, spendVars>>
  \/ /\ keeping = "money" /\ MoneyNext
     /\ UNCHANGED <<keeping, vars, lockLogVars, wireVars, faultVars, spendVars>>
  \/ /\ keeping = "spends" /\ SpendNext
     /\ UNCHANGED <<keeping, vars, lockLogVars, wireVars, faultVars, moneyVars>>

LogsSpec == LogsInit /\ [][LogsNext]_logVars

\* Honest certifiers are alike.
LogsSymmetry == Permutations({v1, v2, v3})
=============================================================================
