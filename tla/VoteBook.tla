------------------------------ MODULE VoteBook ------------------------------
(***************************************************************************)
(* What a validator promises about its votes: it writes them in a book it  *)
(* never loses, one per cell, round and phase, and once it has precommitted *)
(* to a value for a cell it only ever votes for that value there, in no     *)
(* lower round.  WalStore recovers such a book after every kill, and the    *)
(* votes of every honest node in Node are one.                              *)
(***************************************************************************)
EXTENDS Naturals

CONSTANTS
  Owners,   \* who keeps a book
  Cells,    \* what votes are about: conflict keys
  Values,   \* what they are for: intent digests
  Rounds

VARIABLES
  votes,    \* votes[o]: the votes in o's book
  lock      \* lock[o][c]: the round and value of o's last precommit on c

vars == <<votes, lock>>

Ballots == [phase : {"prevote", "precommit"}, round : Rounds, cell : Cells,
            value : Values]

Init ==
  /\ votes = [o \in Owners |-> {}]
  /\ lock = [o \in Owners |-> [c \in Cells |-> {}]]

SameBallot(a, b) == a.cell = b.cell /\ a.round = b.round /\ a.phase = b.phase

Cast(o, b) ==
  /\ ~ \E a \in votes[o] : SameBallot(a, b)
  /\ \A l \in lock[o][b.cell] : l.round <= b.round /\ l.value = b.value
  /\ votes' = [votes EXCEPT ![o] = @ \cup {b}]
  /\ lock' = IF b.phase = "precommit"
               THEN [lock EXCEPT ![o][b.cell] = {[round |-> b.round, value |-> b.value]}]
               ELSE lock

Next == \E o \in Owners, b \in Ballots : Cast(o, b)

Spec == Init /\ [][Next]_vars

-----------------------------------------------------------------------------
TypeOK ==
  /\ votes \in [Owners -> SUBSET Ballots]
  /\ lock \in [Owners -> [Cells -> SUBSET [round : Rounds, value : Values]]]

\* The lock on a cell is the value of every precommit about it, in the last of
\* their rounds, so no two precommits about a cell are for different values.
LockSumsUpPrecommits ==
  \A o \in Owners, b \in Ballots :
    b \in votes[o] /\ b.phase = "precommit" =>
      \E l \in lock[o][b.cell] : l.value = b.value /\ b.round <= l.round

\* No book ever holds two votes for one slot, nor two precommits about a cell
\* for different values: a signer that keeps a book never equivocates.
NoEquivocation ==
  \A o \in Owners : \A a, b \in votes[o] :
    a.value # b.value =>
      ~ SameBallot(a, b)
        /\ ~ (a.cell = b.cell /\ a.phase = "precommit" /\ b.phase = "precommit")
=============================================================================
