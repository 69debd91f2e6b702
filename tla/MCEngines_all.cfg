SPECIFICATION EnginesSpec
CONSTANTS
  EngineKinds = {"batch", "locks"}
  TxCount = 5
  Arity = 2
  BatchSize = 2
  Streams = 2
  WorkerCount = 2
  Owners <- SampleOwners
  InboxCapacity = 1
  IngressEditions = {"loaded", "slots", "packets", "chunks", "lanes"}
  LockWorkers = 3
  ShardCount = 4
  Placements <- SamplePlacements
PROPERTIES
  ImplementsBatchEngine
  ImplementsSerialEngine
  EnginesFinish
CHECK_DEADLOCK FALSE
