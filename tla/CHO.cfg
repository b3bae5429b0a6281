SPECIFICATION Spec
CONSTANTS
  Clients = {c1, c2}
  Workers = {1, 2}
  Data = 1
  S = S
  None = None
INVARIANTS
  TypeOK
  AvailableIsIdle
  OneToOne
  Conserved
PROPERTY EachServed
CHECK_DEADLOCK FALSE
