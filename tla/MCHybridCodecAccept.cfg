SPECIFICATION CodecSpec
CONSTANTS
  Transactions <- MCTransactions
  Fees = {8}
  U64Range = 1024
  Trailers <- MCTrailers
INVARIANTS
  AcceptsWhatWasEncoded
CHECK_DEADLOCK FALSE
