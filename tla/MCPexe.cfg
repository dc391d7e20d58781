SPECIFICATION PexeSpec
CONSTANTS
  w1 = w1
  w2 = w2
  BlockSize = 3
  Workers = {w1, w2}
  Locations = {"a", "b", "h"}
  CodeHashes = {"h"}
  MaxIncarnation = 3
  Kinds = {"bToA", "both", "branch", "incrH", "hToB", "ghostH", "invalid"}
  Blocks <- MixedBlocks
  Behaviour <- MCBehaviour
  Estimated <- NoEstimates
  MaxReads = 3
CONSTRAINT BoundedIncarnations
SYMMETRY Symmetry
INVARIANTS
  MemTypeOK
  FinalMemory
  EstimateIsUnfinished
  FinishedIsRecorded
  ReadsAreCovered
PROPERTIES
  ReturnsSequential
