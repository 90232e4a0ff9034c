CONSTANTS
  Capacity = 1
  NULL = NULL
  NL = NL
  LetterA = LetterA
  Tasks = {t1, t2}
  Writers = {t1}
  Readers = {t2}
  Seekers = {t1, t2}
  Files = {f1}
  Blocks = {b1, b2}
  Bytes <- MCBytes
  Bufs <- MCBufs
  Counts = {2}
  SeekOffsets <- MCSeekOffsets
  CmdOffsets = {1}
  MaxPos = 0
  KmallocMax = 2
  MaxLeaked = 0
  Signals = TRUE
  PendingFaults = TRUE

SPECIFICATION FairSpec
PROPERTIES CallsReturn
CHECK_DEADLOCK FALSE
