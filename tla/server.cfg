CONSTANTS
  Capacity = 2
  NULL = NULL
  NL = NL
  LetterA = LetterA
  Daemon = TRUE
  Clients = {c1, c2}
  MaxFds = 4
  Chunks <- MCChunks
  MaxChunks <- MCMaxChunks
  Talkative = {c1}
  bufferSize = 2
  Faulty = {c2}
SPECIFICATION FairSpec
INVARIANTS TypeOK IsolatedEcho FdsRestored
PROPERTIES ListenerKept HandlersFinish
CHECK_DEADLOCK FALSE
