SPECIFICATION Spec
CONSTANTS
  Owner = owner
  Readers = {r1}
  Slots = 2
  MaxObjects = 1
  None = None
INVARIANT ThreadSafe
CHECK_DEADLOCK FALSE
