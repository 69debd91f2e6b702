\* Two clients whose calls overlap, one request that fails: two conflicting
\* transfers and one that spends what the first creates, over two rounds.
SPECIFICATION FSpec
CONSTANTS
  v1 = v1  v2 = v2  v3 = v3  b1 = b1
  pay1 = pay1  pay2 = pay2  next = next
  alice = alice  bob1 = bob1  bob2 = bob2  carol = carol
  c1 = c1  c2 = c2
  Validators = {v1, v2, v3, b1}
  Byzantine = {b1}
  Q = 3
  Cells = {alice, bob1, bob2, carol}
  Genesis = {alice}
  Intents = {pay1, pay2, next}
  InputOf <- LedgerInputOf
  OutputsOf <- LedgerOutputsOf
  Authorized = {pay1, pay2, next}
  Rounds = {1, 2}
  MaxCollection = 4
  MaxQcs = 1
  Clients = {c1, c2}
  ContactLists <- All
  MaxCalls = 2
  MaxFaults = 1
INVARIANTS
  ReturnedChainIsFinal
  ApplyFailsOnlyBehind
  LedgerFollowsApplied
PROPERTIES
  ImplementsNode
  ImplementsSuccessorChoice
\* The calls are bounded: after the last one nothing is left to do.
CHECK_DEADLOCK FALSE
