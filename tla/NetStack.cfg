SPECIFICATION FairSpec
CONSTANTS
  ME = me
  p1 = p1
  p2 = p2
  Peer <- MCPeer
  BUFS = 6
  NULL = NULL
  Target = {p1}
  Frame <- MCFrame
  NUMBER = 2
  PINGS = 1
  RECVS = 2
INVARIANTS
  OneOwner
  ListsWell
  NoneStuck
  RightAddress
  NoneDropped

  
CHECK_DEADLOCK FALSE
