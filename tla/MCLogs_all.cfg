\* Loss of power drops bytes that were not synced; lock logs are torn, killed and
\* restored on one of three honest certifiers; collections hold at most two.
SPECIFICATION LogsSpec
CONSTANTS
  Conflicts = {c}
  Digests = {d1, d2}
  Rounds = {1}
  Txs = {t1}
  Certs = {q1}
  Snapshots = {genesis, s1}
  GenesisOffers = {genesis}
  Handoffs = {h1}
  Committees = {old, new}
  Committee = old
  Epochs = {8}
  Epoch = 7
  MaxEpoch = 9
  MaxRecords = 4
  LogKinds = {"wal", "locks", "wire", "faults", "money", "spends"}
  v1 = v1  v2 = v2  v3 = v3  b1 = b1
  pay = pay  steal = steal  coin = coin  gem = gem
  core1 = core1  core2 = core2
  Validators = {v1, v2, v3, b1}
  Byzantine = {b1}
  Q = 3
  LockStores = {"sec003", "sec007"}
  Spends = {pay, steal}
  Coins = {coin, gem}
  CoinsOf <- SpendCoins
  Cores = {core1, core2}
  MaxWal = 3
  MaxFailing = 1
  Messages <- SampleMessages
  Noise = {0, 1, 2, 3, 9}
  MaxFrameLen = 60
  MaxCollectionLen = 2
  MaxOutputs = 2
  MaxVotes = 2
  MaxMembers = 2
  Campaigns = {"sec008", "sec0081", "sec0082"}
  MaxUnanswered = 1
  alice = alice  bob = bob
  Ledgers = {v1, v2, v3}
  Owners = {alice, bob}
  Collector = bob
  GenesisMoney <- GenesisPurse
  Amounts = {0, 1, 2, 3, 7}
  Word = 8
  MaxSum = 3
  MaxPayees = 2
  Tiers = {"sec001", "sec002"}
  Purses <- AlicePurse
  Orders <- SampleOrders
  Signers = {alice, bob}
  Copies = {core1, core2}
SYMMETRY LogsSymmetry
INVARIANTS
  OnlyATornTailIsRefused
  PersistedIsSynced
  ConflictsNeedAmnesia
  WireIsExact
  CampaignTellsTheTruth
  MoneyIsConserved
  CertifiedSpendsAreSound
\* A torn tail stops the node for good, and so does a full file.
CHECK_DEADLOCK FALSE
