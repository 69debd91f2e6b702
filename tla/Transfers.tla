----------------------------- MODULE Transfers -----------------------------
(***************************************************************************)
(* The money in the ledger of integration001/src/model.rs.  Node keeps     *)
(* which cells are live and abstracts what is in them; here a cell has an  *)
(* amount and an owner, a transfer names the exact cell it spends, its     *)
(* outputs and a fee, and validate_tx adds them up in machine words.       *)
(*                                                                         *)
(* Anyone may propose any transfer, with a cell that is not what it says   *)
(* it is, with amounts that do not add up, or signed by somebody else.  It *)
(* is certified when the validators of a quorum accept it and no other     *)
(* transfer of the cell is certified (AtMostOneCertified of Node), and     *)
(* every validator applies certified transfers in an order of its own.     *)
(*                                                                         *)
(* Digests are injective: the identifier of an output is its transfer and  *)
(* its index, and the digest of a cell says nothing its fields do not say. *)
(***************************************************************************)
EXTENDS Integers, Sequences, FiniteSets, FiniteSetsExt, Functions

CONSTANTS
  Ledgers,       \* the validators whose states are followed
  Owners,        \* the keys that may own a cell
  Collector,     \* fee_collector, one of them
  GenesisMoney,  \* GenesisMoney[n]: amount and owner of the n-th genesis cell
  Amounts,       \* the amounts a proposal may name
  Word,          \* the first amount a word cannot hold, 2^64 in the code
  MaxPayees      \* bound on the outputs of a transfer, 8 in the code

ASSUME TransfersAssumption ==
  /\ Collector \in Owners
  /\ MaxPayees \in Nat /\ Word \in Nat /\ Amounts \subseteq 0..(Word - 1)
  /\ GenesisMoney \in Seq([amount : Amounts \ {0}, owner : Owners])

VARIABLES
  certifiedTransfers,  \* certified transfers, each with the key that signed it
  money,               \* money[v]: the live cells of v's state
  receipts             \* receipts[v]: the certified transfers v has applied

moneyVars == <<certifiedTransfers, money, receipts>>

GenesisCells ==
  {[ref |-> [by |-> {}, index |-> n], amount |-> GenesisMoney[n].amount,
    owner |-> GenesisMoney[n].owner] :
     n \in DOMAIN GenesisMoney}

Payments == [amount : Amounts, owner : Owners]
Payees == UNION {[1..n -> Payments] : n \in 1..MaxPayees}

\* materialize_outputs: the outputs, and the fee as the last of them.
Effects(tx) == Append(tx.outputs, [amount |-> tx.fee, owner |-> Collector])

Materialized(tx) ==
  LET effects == Effects(tx) IN
  {[ref |-> [by |-> {tx}, index |-> n], amount |-> effects[n].amount, owner |-> effects[n].owner] :
     n \in DOMAIN effects}

-----------------------------------------------------------------------------
(* Validation                                                              *)

SumOf(tx) ==
  FoldFunction(LAMBDA payment, sum : payment.amount + sum, 0, Effects(tx))

\* Mutant: the sum wraps around.
WrappedTotal(tx) == {SumOf(tx) % Word}

\* Fee and outputs are added with checked_add: no result when they overflow.
CheckedTotal(tx) == IF SumOf(tx) < Word THEN {SumOf(tx)} ELSE {}

\* validate_tx.
ValidTransfer(tx) ==
  /\ tx.input.amount # 0 /\ tx.fee # 0
  /\ \A n \in DOMAIN tx.outputs : tx.outputs[n].amount # 0
  /\ tx.input.amount \in CheckedTotal(tx)

\* verify_user_auth.
OwnerSigned(tx, signer) == signer = tx.input.owner /\ ValidTransfer(tx)

\* What a proposer may say of a cell it knows.
Claims(cell) == {[cell EXCEPT !.amount = a, !.owner = o] : a \in Amounts, o \in Owners}

Known == GenesisCells \cup UNION {Materialized(e.tx) : e \in certifiedTransfers}

-----------------------------------------------------------------------------
(* Actions                                                                 *)

MoneyInit ==
  /\ certifiedTransfers = {}
  /\ money = [v \in Ledgers |-> GenesisCells]
  /\ receipts = [v \in Ledgers |-> {}]

\* A quorum votes for a transfer whose exact input is live at one of its members.
CertifyTransfer ==
  \E cell \in Known : \E input \in Claims(cell) :
    /\ \E v \in Ledgers : input \in money[v]
    /\ \A e \in certifiedTransfers : e.tx.input.ref # input.ref
    /\ \E outputs \in Payees, fee \in Amounts, signer \in Owners :
         LET tx == [input |-> input, outputs |-> outputs, fee |-> fee] IN
         /\ OwnerSigned(tx, signer)
         /\ certifiedTransfers' = certifiedTransfers \cup {[tx |-> tx, signer |-> signer]}
  /\ UNCHANGED <<money, receipts>>

\* apply_finalized: the input is exchanged for the outputs and the fee cell.
ApplyTransfer(v) ==
  \E e \in certifiedTransfers \ receipts[v] :
    /\ OwnerSigned(e.tx, e.signer)
    /\ e.tx.input \in money[v]
    /\ money' = [money EXCEPT ![v] = (@ \ {e.tx.input}) \cup Materialized(e.tx)]
    /\ receipts' = [receipts EXCEPT ![v] = @ \cup {e}]
    /\ UNCHANGED certifiedTransfers

MoneyNext == CertifyTransfer \/ \E v \in Ledgers : ApplyTransfer(v)

MoneySpec == MoneyInit /\ [][MoneyNext]_moneyVars

-----------------------------------------------------------------------------
(* Properties                                                              *)

Worth(cells) == MapThenSumSet(LAMBDA c : c.amount, cells)

\* On every validator, whatever it has applied and in whatever order: the live cells are
\* worth what the genesis cells were, and a cell that is gone was signed away by its own
\* owner.  total_value adds the cells up in a word, and stays within it for this reason.
MoneyIsConserved ==
  \A v \in Ledgers :
    /\ Worth(money[v]) = Worth(GenesisCells)
    /\ \A c \in (GenesisCells \cup UNION {Materialized(e.tx) : e \in receipts[v]}) \ money[v] :
         \E e \in receipts[v] : e.tx.input = c /\ e.signer = c.owner
=============================================================================
