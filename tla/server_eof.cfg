CONSTANTS
  Capacity = 1
  NULL = NULL
  NL = NL
  LetterA = LetterA
  Daemon = FALSE
  Clients = {c1}
  MaxFds = 7
  Chunks <- MCChunks
  MaxChunks <- MCMaxChunks
  Talkative = {c1}
  bufferSize = 2
  Faulty = {}
SPECIFICATION FairSpec

PROPERTIES ClosedConnectionEnds
CHECK_DEADLOCK FALSE
