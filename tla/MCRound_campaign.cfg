SPECIFICATION RoundSpec
CONSTANTS
  v1 = v1  v2 = v2  v3 = v3  b1 = b1
  A = A  B = B
  Validators = {v1, v2, v3, b1}
  Byzantine = {b1}
  Q = 3
  Digests = {A, B}
  Canonical = A
  Roster <- LeaderOrder
  Editions = {"sec009", "sec010", "sec011"}
  AdvRounds = 2
  MaxEnded = 1
  MaxRound = 4
PROPERTIES
  ConflictsFinalize
  ImplementsRoundModel
CHECK_DEADLOCK FALSE
