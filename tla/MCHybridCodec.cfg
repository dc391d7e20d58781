SPECIFICATION CodecSpec
CONSTANTS
  Transactions <- MCTransactions
  Fees = {8}
  U64Range = 1024
  Trailers <- MCTrailers
INVARIANTS
  ReadsInBounds
  DecodesWhatWasEncoded
CHECK_DEADLOCK FALSE
