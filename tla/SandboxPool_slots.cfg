SPECIFICATION FairSpec
CONSTANTS
  w1 = w1  w2 = w2  w3 = w3  w4 = w4
  Workers = {w1, w2, w3}
  Capacity = 1
  Kinds <- AnyKind
  MaxCost = 1
INVARIANTS SlotsCounted NoIdleSlot PoolKept
PROPERTY EveryoneServed
CHECK_DEADLOCK FALSE
