SPECIFICATION SpecAll
CONSTANTS
  v1 = v1  v2 = v2  v3 = v3  b1 = b1  b2 = b2
  Experiments = {"round", "anchor", "handoff", "lineage", "freshness", "ratchet", "keys"}
  A = A  B = B
  pay = pay  steal = steal  coin = coin  gem = gem
  w1 = w1  w2 = w2  w3 = w3  wb = wb
  ours = ours  other = other
  Validators = {v1, v2, v3, b1, b2}
  Byzantine = {b1, b2}
  Q = 4
  Digests = {A, B}
  Canonical = A
  Roster <- LeaderOrder
  Editions = {"sec009", "sec010"}
  AdvRounds = 3
  MaxEnded = 0
  MaxRound = 2
  Txs = {pay, steal}
  Inputs = {coin, gem}
  InputsOf <- SpendInputs
  MaxAsked = 1
  Witnesses = {w1, w2, w3, wb}
  ByzantineWitnesses = {wb}
  AnchorQ = 3
  RecoveryQ = 4
  MaxRestored = 1
  Transitions = {ours, other}
  OurTransition = ours
  HandoffInputs = {coin}
  HandoffDigests = {A, B}
  LockRounds = {1}
  LastLineageEpoch = 1
  MaxLineageGen = 1
  LineageDigests = {A, B}
  GenesisLineage = A
  LastEpoch = 1
  MaxGen = 1
  StateDigests = {A, B}
  GenesisDigest = A
  Restarting = {1}
  KeyTests = {"sec017", "sec018"}
  MaxFailures = 4
  Retirements = {ours, other}
INVARIANTS
  KeyTestPasses
  NoKeyIsLeft
  NoDualFinality
  FinalityIsNotOvertaken
  NoSecondSignature
  NewEpochInherits
  EpochNeverForks
  NoStaleFreshness
  HistoryNeverForks
  OldKeysMakeNoQuorum
CHECK_DEADLOCK FALSE
SYMMETRY HonestSymmetry
