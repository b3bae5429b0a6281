SPECIFICATION Spec
CONSTANTS
  QSize = 2
  NQueues = 5
  CapMsgs = 2
  CapRoom = 1
  PageMsgs = 2
  PageRoom = 1
  MaxCaplets = 3
  MayShutdown = TRUE
  None = None
PROPERTY ShutdownEnds
CHECK_DEADLOCK FALSE
