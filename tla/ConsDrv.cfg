SPECIFICATION FairSpec
CONSTANTS
  Text <- MCText
  Key <- MCKey
  Char <- MCChar
  WRITES = 2
  KEYS = 3
INVARIANTS
  OutputInOrder
  NeverWaits
  LinesWhole
PROPERTIES
  Drained
CHECK_DEADLOCK FALSE
