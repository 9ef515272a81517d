SPECIFICATION FairSpec
CONSTANTS
  THREAD_NUM = 3
  PRIORITY_NUM = 2
  MsgBox = {m1}
  SoftVec = {v1}
  Data = {d1}
  NoMsg = NoMsg
  BLOCKS = 0
INVARIANTS
  TypeOK
  ReadyQueueOK
  RunningIsFirst
  NobodyForgotten
PROPERTIES
  PreemptedByHigher
  RoundRobin
CHECK_DEADLOCK FALSE
