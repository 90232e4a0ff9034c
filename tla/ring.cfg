CONSTANTS
  Capacity = 3
  NULL = NULL
  Pointers = {p1, p2}
  Sizes = {1, 2, 65536}
  Offsets <- MCOffsets
SPECIFICATION Spec
INVARIANTS TypeOK FindExact SizeExact
PROPERTIES ImplementsRecentCommands
