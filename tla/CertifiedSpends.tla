--------------------------- MODULE CertifiedSpends ---------------------------
(***************************************************************************)
(* The first two experiments: SEC-001, where one trusted certifier checks  *)
(* the owner of a spend and the core takes its word for it, and SEC-002,   *)
(* where Q certifiers have to, and an honest one locks every input of a    *)
(* spend to it before it signs.  Nothing is persisted and nothing fails;   *)
(* what may go wrong is what the certifiers and the core each leave to the *)
(* other.  The certifiers look at the cells of the beginning, the core at  *)
(* the present ones; the certifiers check the owner, the core does not;    *)
(* and every copy of the core applies what it gets in its own order.       *)
(*                                                                         *)
(* A spend joins cells into one, whose identifier the spender chooses.     *)
(* That there are at most MAX_INPUTS of them is left to Orders.            *)
(* Digests and signatures are injective.                                   *)
(***************************************************************************)
EXTENDS Committee, Sequences, FiniteSetsExt, Functions

CONSTANTS
  Tiers,      \* the experiments: "sec001" and "sec002"
  Purses,     \* the cells of the beginning
  Orders,     \* spends that somebody proposes: inputs, output, recipient and value
  Signers,    \* the keys that sign proposals
  Copies,     \* the copies of the core
  MaxSum      \* the largest sum a word holds, 2^64 - 1 in the code

ASSUME CertifiedSpendsAssumption ==
  /\ Tiers \subseteq {"sec001", "sec002"}
  /\ IsFiniteSet(Purses) /\ \A p \in Purses : p.value \in Nat /\ p.generation # 0
  /\ \A p, q \in Purses : p.id = q.id => p = q
  /\ \A o \in Orders : o.inputs \in Seq([id : Nat, generation : Nat])
  /\ MaxSum \in Nat

VARIABLES
  tier,
  trusted,     \* the one certifier of SEC-001
  spendLocks,  \* spendLocks[c]: pairs of an input and the signed spend it is locked to
  spendShares, \* pairs of an honest certifier and a signed spend
  active,      \* active[k]: the live cells of copy k
  spent        \* spent[k]: the signed spends copy k has applied

spendVars == <<tier, trusted, spendLocks, spendShares, active, spent>>

\* What a digest commits to: the spend and the key it names as the owner's.
Signed == [order : Orders, signer : Signers]

InputsOfOrder(o) == {o.inputs[n] : n \in DOMAIN o.inputs}

SpendInit ==
  /\ tier \in Tiers
  /\ trusted \in Validators
  /\ spendLocks = [c \in Honest |-> {}] /\ spendShares = {}
  /\ active = [k \in Copies |-> Purses] /\ spent = [k \in Copies |-> {}]

-----------------------------------------------------------------------------
(* Certifiers                                                              *)

\* The cells an order names exist in these generations.
NamedCells(o, cells) ==
  {p \in cells : [id |-> p.id, generation |-> p.generation] \in InputsOfOrder(o)}

\* Each input is named once and is there, and together they are worth the output: a sum
\* that a word does not hold is refused (checked_add).
Adds(o, cells) ==
  /\ o.inputs # <<>> /\ IsInjective(o.inputs)
  /\ Cardinality(NamedCells(o, cells)) = Len(o.inputs)
  /\ LET sum == MapThenSumSet(LAMBDA p : p.value, NamedCells(o, cells)) IN
     sum <= MaxSum /\ sum = o.value

\* verify_user_authorization, always about the cells of the beginning.
UserAuthorized(s) ==
  Adds(s.order, Purses) /\ \A p \in NamedCells(s.order, Purses) : p.owner = s.signer

\* Mutant: only the first input of a spend is looked up.
FirstIsFree(c, s) == \A l \in spendLocks[c] : l.input = Head(s.order.inputs) => l.to = s

InputsAreFree(c, s) ==
  \A l \in spendLocks[c] : l.input \in InputsOfOrder(s.order) => l.to = s

\* SEC-001 issues a certificate, and remembers nothing.
IssueCertificate(s) ==
  /\ tier = "sec001" /\ trusted \in Honest /\ UserAuthorized(s)
  /\ spendShares' = spendShares \cup {<<trusted, s>>}
  /\ UNCHANGED <<tier, trusted, spendLocks, active, spent>>

\* SEC-002 signs a share, with all inputs locked.
AuthorizeAndSign(c, s) ==
  /\ tier = "sec002" /\ UserAuthorized(s) /\ InputsAreFree(c, s)
  /\ spendLocks' = [spendLocks EXCEPT ![c] = @ \cup {[input |-> i, to |-> s] :
                                                       i \in InputsOfOrder(s.order)}]
  /\ spendShares' = spendShares \cup {<<c, s>>}
  /\ UNCHANGED <<tier, trusted, active, spent>>

-----------------------------------------------------------------------------
(* The core                                                                *)

\* A Byzantine certifier signs any spend for any key.
Vouching(s) == Byzantine \cup {c \in Honest : <<c, s>> \in spendShares}

\* SEC-001: the certificate of the one trusted certifier.
TrustedVouches(s) == trusted \in Vouching(s)

\* SEC-002: shares of Q distinct members.
QuorumVouches(s) == IsQuorum(Vouching(s))

CertificateHolds(s) == IF tier = "sec001" THEN TrustedVouches(s) ELSE QuorumVouches(s)

OutputCell(o) ==
  [id |-> o.output, value |-> o.value, generation |-> 0, owner |-> o.recipient]

\* The inputs give way to the output.
Exchanged(o, cells) == (cells \ NamedCells(o, cells)) \cup {OutputCell(o)}

\* apply_certified_spend: nothing is said about owners.
ApplyCertified(k, s) ==
  /\ CertificateHolds(s)
  /\ \A p \in active[k] : p.id # s.order.output
  /\ Adds(s.order, active[k])
  /\ active' = [active EXCEPT ![k] = Exchanged(s.order, @)]
  /\ spent' = [spent EXCEPT ![k] = @ \cup {s}]
  /\ UNCHANGED <<tier, trusted, spendLocks, spendShares>>

SpendNext ==
  \E s \in Signed :
    \/ IssueCertificate(s)
    \/ \E c \in Honest : AuthorizeAndSign(c, s)
    \/ \E k \in Copies : ApplyCertified(k, s)

SpendSpec == SpendInit /\ [][SpendNext]_spendVars

-----------------------------------------------------------------------------
(* Properties                                                              *)

Total(cells) == MapThenSumSet(LAMBDA p : p.value, cells)

\* The copies of the core never lose or make money.  With an honest certifier, or a
\* minority of others among Q, they spend nothing its owner did not sign; an input is
\* spent once on a copy, and in SEC-002 no two copies spend it differently, whatever
\* orders the owner signs.  The one certifier of SEC-001 promises neither if it lies,
\* nor the last if it does not.
CertifiedSpendsAreSound ==
  /\ \A k \in Copies : Total(active[k]) = Total(Purses)
  /\ tier = "sec002" \/ trusted \in Honest =>
       /\ \A k \in Copies : \A s \in spent[k] : UserAuthorized(s)
       /\ \A j, k \in Copies : \A s \in spent[j], t \in spent[k] :
            (tier = "sec002" \/ j = k) /\ s # t =>
              InputsOfOrder(s.order) \cap InputsOfOrder(t.order) = {}
=============================================================================
