SPECIFICATION FairSpec
CONSTANTS
  c1 = c1
  c2 = c2
  Client <- MCClient
  None = None
  Request <- MCRequest
  Leaver <- MCLeaver
  PIECES = 2
  RETRIES = 1
INVARIANTS
  Serving
  AnswersRight
  ReplyIntact
  
PROPERTIES
  Served
CHECK_DEADLOCK FALSE
