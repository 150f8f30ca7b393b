SPECIFICATION FairSpec
CONSTANTS
  Worker = {w1, w2}
  NoOne = NoOne
  Item = {1, 2, 3}
  Capacity = 2
  DrainCaps = {1, 2}
  Thresholds <- FallAndRise
INVARIANTS
  TypeOK
  FlagHonest
PROPERTIES
  PoolSpec
  Consumed
CHECK_DEADLOCK FALSE
