SPECIFICATION DexSpec
CONSTANTS
  u1 = u1
  u2 = u2
  Users = {u1, u2}
  Markets = {1, 2}
  Threads = {t1, t2}
  Workloads <- MCWorkloads
  InitialBalance = 10
  MarkPrice <- MCMarkPrice
  PricePrecision = 2
  I128Max = 7
  U256Max = 255
SYMMETRY Symmetry
INVARIANTS
  OrderIdsAreUnique
  IndexFindsOrders
  NeverOverdrawn
  PositionIsLastFills
  EntryPriceIsBounded
PROPERTIES
  CancelAllEmptiesMarket
