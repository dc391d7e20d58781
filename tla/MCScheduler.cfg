SPECIFICATION MCSpec
CONSTANTS
  w1 = w1
  w2 = w2
  BlockSize = 3
  Workers = {w1, w2}
  MaxIncarnation = 1
  Faults = TRUE
SYMMETRY Symmetry
INVARIANTS
  TypeOK
  ExclusiveExecution
  ResumedExactlyOnce
  WaitsForUnfinished
  NumValidatedIsExact
  NoLostTask
  CompletionIsTotal
  AbortHasReason
PROPERTIES
  LifeCycle
