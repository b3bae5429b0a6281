CONSTANTS
  Source = source
  Sink = sink
  None = none
  NumQueues = 3
  QueueSize = 1
  PSpin = FALSE
  CSpin = FALSE
  MaxSent = 5
  MaxReplies = 1
SPECIFICATION FairSpec
INVARIANT TypeOK
PROPERTY PublishedDelivered
PROPERTY ProducerReturns
