CONSTANTS
  PageSize = 11
  PageHeader = 1
  CapHeader = 1
  IntSize = 1
  MaxPages = 2
  CapletsPerMsg = 5
  Sizes = {1, 3}
  MaxCaplets = 10
SPECIFICATION Spec
INVARIANTS HeadersExact ReadBack
PROPERTY AllRead
CHECK_DEADLOCK FALSE
