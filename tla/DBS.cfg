SPECIFICATION Spec
CONSTANTS
  QSize = 2
  NQueues = 5
  CapMsgs = 2
  CapRoom = 1
  PageMsgs = 2
  PageRoom = 1
  MaxCaplets = 3
  MayShutdown = TRUE
  None = None
INVARIANTS
  TypeOK
  Conserved
  OneUser
  ClosedIsComplete
  SentIsPublished
 
CHECK_DEADLOCK FALSE
