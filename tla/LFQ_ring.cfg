CONSTANTS
  Source = source
  Sink = sink
  None = none
  NumQueues = 3
  QueueSize = 2
  PSpin = TRUE
  CSpin = TRUE
  MaxSent = 7
  MaxReplies = 1
SPECIFICATION Spec
INVARIANT OneThreadPerQueue
INVARIANT RingOrder
INVARIANT IInv
PROPERTY StreamSpec
