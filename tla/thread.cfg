CONSTANTS
  Clients = {c1, c2}
  NL = NL
  NULL = NULL
  INIT_BUFFER_SIZE = 2
  MaxChunks = 2
  Faults = TRUE
SPECIFICATION FairSpec
INVARIANTS TypeOK RoomForRecv EchoExact
PROPERTIES ClosedClientEnds
CHECK_DEADLOCK FALSE
