\* Three calls in a row, two requests that fail, contacts that are one node or all
\* honest ones: two conflicting transfers over two rounds.
SPECIFICATION FSpec
CONSTANTS
  v1 = v1  v2 = v2  v3 = v3  b1 = b1
  pay1 = pay1  pay2 = pay2  next = next
  alice = alice  bob1 = bob1  bob2 = bob2  carol = carol
  c1 = c1  c2 = c2
  Validators = {v1, v2, v3, b1}
  Byzantine = {b1}
  Q = 3
  Cells = {alice, bob1, bob2}
  Genesis = {alice}
  Intents = {pay1, pay2}
  InputOf <- LedgerInputOf
  OutputsOf <- LedgerOutputsOf
  Authorized = {pay1, pay2}
  Rounds = {1, 2}
  MaxCollection = 3
  MaxQcs = 1
  Clients = {c1}
  ContactLists <- AllOrOne
  MaxCalls = 3
  MaxFaults = 2
PROPERTIES
  UndisputedCallsSettle
\* The calls are bounded: after the last one nothing is left to do.
CHECK_DEADLOCK FALSE
