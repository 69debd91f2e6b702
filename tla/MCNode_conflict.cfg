\* Four members, one of them Byzantine, threshold three: two conflicting
\* intents and a forged one over two rounds.
SPECIFICATION Spec
CONSTANTS
  v1 = v1  v2 = v2  v3 = v3  v4 = v4  v5 = v5  b1 = b1  b2 = b2
  pay1 = pay1  pay2 = pay2  forged = forged  next = next
  alice = alice  bob1 = bob1  bob2 = bob2  carol = carol
  Validators = {v1, v2, v3, b1}
  Byzantine = {b1}
  Q = 3
  Cells = {alice, bob1, bob2}
  Genesis = {alice}
  Intents = {pay1, pay2, forged}
  InputOf <- LedgerInputOf
  OutputsOf <- LedgerOutputsOf
  Authorized = {pay1, pay2}
  Rounds = {1, 2}
  MaxCollection = 3
  MaxQcs = 1
SYMMETRY HonestSymmetry
INVARIANTS
  IssuedSharesAreDurable
  OnePrevoteQcPerRound
  TypeOK
  AtMostOneCertified
PROPERTIES
  ImplementsVoteBook
\* The ledger is finite: once every intent is settled or stuck, nothing is left to do.
CHECK_DEADLOCK FALSE
