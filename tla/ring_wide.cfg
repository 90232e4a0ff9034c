CONSTANTS
  Capacity = 3
  NULL = NULL
  Pointers = {p1}
  Sizes = {1, 65537}
  Offsets <- MCOffsets
SPECIFICATION Spec
INVARIANTS FindExact
