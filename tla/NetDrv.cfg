SPECIFICATION FairSpec
CONSTANTS
  START = 1
  STOP = 5
  SENDS = 3
  RECVS = 4
INVARIANTS
  FramesInOrder
  FramesReceived
PROPERTIES
  Through
CHECK_DEADLOCK FALSE
