SPECIFICATION Spec
CONSTANTS
  POOL_NUM = 3
  SIZE <- MCSize
  NUM <- MCNum
  HEADER = 2
  Request <- MCRequest
INVARIANTS
  Partition
  LargeEnough
PROPERTIES
  PoolsCounted
CHECK_DEADLOCK FALSE
