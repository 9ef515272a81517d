SPECIFICATION FairSpec
CONSTANTS
  Req = {r1, r2, r3}
  EXPIRE = EXPIRE
  MSEC = 3
INVARIANTS
  Armed
  InOnePlace
  
PROPERTIES
  Answered
