SPECIFICATION Spec
CONSTANTS
  THREAD_NUM = 2
  PRIORITY_NUM = 2
  MsgBox = {m1, m2}
  SoftVec = {v1}
  Data = {d1}
  NoMsg = NoMsg
  BLOCKS = 3
SYMMETRY MCSymmetry
INVARIANTS
  ReceiverBlocked
  BlocksConserved
PROPERTIES
  MailboxOK
CHECK_DEADLOCK FALSE
