CONSTANTS
  Items = {a, b}
  Size = 3
  Null = null
SPECIFICATION Spec
INVARIANT TypeOK
PROPERTY QueueSpec
