SPECIFICATION Spec
CONSTANTS
  Threads = {"t1", "t2"}
  Addresses <- MCAddresses
  Slots = {1}
  Numbers = {1}
  Precompiles = {"precompile"}
  Chain <- MCChain
  BlockHash <- MCBlockHash
  NoCode = ""
  Workloads <- MCWorkloads
  RetryLimit = 1
INVARIANTS
  AnswersAreRight
  CacheIsFaithful
  SnapshotReplays
PROPERTIES
  EveryCallReturns
