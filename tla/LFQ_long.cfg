CONSTANTS
  Source = source
  Sink = sink
  None = none
  NumQueues = 3
  QueueSize = 2
  PSpin = TRUE
  CSpin = TRUE
  MaxSent = 9
  MaxReplies = 0
SPECIFICATION SSpec
PROPERTY AllSent
PROPERTY AllButOneQueue
CHECK_DEADLOCK FALSE
