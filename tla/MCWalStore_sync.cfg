\* The comment on sync_all, read of every successful return.
SPECIFICATION Spec
CONSTANTS
  Conflicts = {c}
  Digests = {d1, d2}
  Rounds = {1}
  Txs = {t1}
  Certs = {q1}
  Snapshots = {genesis, s1}
  GenesisOffers = {genesis, s1}
  Handoffs = {h1}
  Committees = {old, new}
  Committee = old
  Epochs = {8, 9}
  Epoch = 7
  MaxEpoch = 9
  MaxRecords = 4
INVARIANTS
  AckedIsSynced
\* A torn tail stops the node for good, and so does a full file.
CHECK_DEADLOCK FALSE
