SPECIFICATION FairSpec
CONSTANTS
  Threads = {t1, t2}
  Kinds = {"bytes", "pool"}
  Sizes = {1, 2}
  Total = 3
  MaxBlocks = 3
  Null = Null
INVARIANTS TypeOK Exclusive Accounting BoundedOvercommit BytesFit FreeSpaceExact
PROPERTY CallsReturn
CHECK_DEADLOCK FALSE
