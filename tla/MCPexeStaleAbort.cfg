SPECIFICATION PexeSpec
CONSTANTS
  w1 = w1
  w2 = w2
  BlockSize = 3
  Workers = {w1, w2}
  Locations = {"a", "b"}
  CodeHashes = {}
  MaxIncarnation = 3
  Kinds = {"incrA"}
  Blocks <- MCBlocks
  Behaviour <- MCBehaviour
  Estimated <- NoEstimates
  MaxReads = 3
PROPERTIES
  OneAbortPerVersion
