SPECIFICATION Spec
CONSTANTS
  START = 1
  STOP = 5
  SENDS = 1
  RECVS = 2
INVARIANT
  Listening
CHECK_DEADLOCK FALSE
