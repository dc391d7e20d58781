SPECIFICATION PexeFairSpec
CONSTANTS
  w1 = w1
  w2 = w2
  BlockSize = 3
  Workers = {w1, w2}
  Locations = {"a", "b"}
  CodeHashes = {}
  MaxIncarnation = 3
  Kinds = {"nonce0", "nonce1", "look", "invalid", "ghost"}
  Blocks <- NonceBlocks
  Behaviour <- MCBehaviour
  Estimated <- BeneficiaryEstimates
  MaxReads = 3
INVARIANTS
  EstimateIsUnfinished
PROPERTIES
  ReturnsSequential
  PexeTermination
