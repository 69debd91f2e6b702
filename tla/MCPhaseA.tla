------------------------------ MODULE MCPhaseA ------------------------------
(***************************************************************************)
(* The campaign of PhaseA for TLC, with the program's seven validators, of *)
(* which two are Byzantine, and its quorum of five.                        *)
(***************************************************************************)
EXTENDS PhaseA

CONSTANTS
  b0, b1, v2, v3, v4, v5, v6,
  toBob, toCharlie, bad1, bad2, bench1, bench2,
  alice, neg1, neg2, ben1, ben2, bobs, charlies, out1, out2

LabMembers == <<b0, b1, v2, v3, v4, v5, v6>>
LabHonest == <<v2, v3, v4, v5, v6>>
BobSide == <<v2, v3, v4>>
CharlieSide == <<v5, v6>>

LabInputOf == [i \in Intents |-> CASE i \in {toBob, toCharlie} -> alice
                                   [] i = bad1 -> neg1
                                   [] i = bad2 -> neg2
                                   [] i = bench1 -> ben1
                                   [] i = bench2 -> ben2]

LabOutputsOf == [i \in Intents |-> CASE i = toBob -> {bobs}
                                     [] i = toCharlie -> {charlies}
                                     [] i = bench1 -> {out1}
                                     [] i = bench2 -> {out2}
                                     [] OTHER -> {}]

LabUnowned == <<bad1, bad2>>
LabBench == <<bench1, bench2>>

\* Forward, reverse and shuffled.
LabSchedules == [n \in 1..7 |-> IF n % 3 = 2 THEN <<2, 1>> ELSE <<1, 2>>]
=============================================================================
