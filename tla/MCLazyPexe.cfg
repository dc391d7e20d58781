SPECIFICATION LazySpec
CONSTANTS
  w1 = w1
  w2 = w2
  BlockSize = 3
  Workers = {w1, w2}
  Accounts = {"alice", "carol", "fred"}
  Coinbase = "carol"
  BaseFee = 1
  TransferGas = 1
  NewAccountGas = 1
  MaxBalance = 1000
  Gift = 4
  Kinds = {"aliceFred", "fredAlice", "payFred", "payCarol"}
  Stored <- MCStored
  Blocks <- MCBlocks
SYMMETRY Symmetry
INVARIANTS
  SettledPrefixIsSequential
  LazyIsListed
  NoEstimateIsLeft
PROPERTIES
  EvaluatesSequential
