SPECIFICATION FairSpec
CONSTANTS
  BYTE = 8
  SOH = 1
  EOT = 4
  CAN = 6
  NEWLINE = 2
  LOAD = 5
  RUN = 3
  BLOCK_SIZE = 2
  Image <- MCImage
  RETRY = 4
  LOADS = 2
  HITS = 2
  NAKS = 2
  BLOCKS = 3
  TRANSFERS = 2
  FAULTS = 2
  Code <- MCCode
  Thread = {"t1", "t2"}
  Entry <- MCEntry
  Breakpoint = {12}
  COMMANDS = 3
  NOISE = 1
INVARIANTS
  LoadedRight
  
  MemoryKnown
  

  
  
CHECK_DEADLOCK FALSE
