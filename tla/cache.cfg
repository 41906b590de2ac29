SPECIFICATION BothSpec
CONSTANTS
  S = 2
  E = 2
  B = 2
  Addresses <- FourBlocks
  ClockMax = 7
  MaxAccesses = 6
INVARIANTS BlocksUnique ClockOrders LoadedIsThere WiderHoldsMore
PROPERTIES StoreOfModifyHits RefinesLruCache
\* the trace ends
CHECK_DEADLOCK FALSE
