SPECIFICATION FairSpec
CONSTANTS
  Threads = {t1, t2, t3}
  Starters = {t1}
  Kinds = {"LOCAL", "REMOTE"}
  Slots = 3
  IntBits = 2
  MaxCalls = 3
  None = None
INVARIANTS IInv Exclusive IndexExact KeepsItsSlot OffersNoneInUse
PROPERTY CallsReturn
CHECK_DEADLOCK FALSE
