SPECIFICATION Spec
CONSTANTS
  THREAD_NUM = 2
  PRIORITY_NUM = 2
  MsgBox = {}
  SoftVec = {}
  Data = {}
  NoMsg = NoMsg
  BLOCKS = 0
INVARIANT
  CallerKept
CHECK_DEADLOCK FALSE
