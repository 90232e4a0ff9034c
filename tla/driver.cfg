CONSTANTS
  Capacity = 2
  NULL = NULL
  NL = NL
  LetterA = LetterA
  Tasks = {t1, t2}
  Writers = {t1, t2}
  Readers = {t2}
  Seekers = {t2}
  Files = {f1}
  Blocks = {b1, b2, b3, b4}
  Bytes <- MCBytes
  Bufs <- MCBufs
  Counts = {2}
  SeekOffsets <- MCSeekOffsets
  CmdOffsets = {1}
  MaxPos = 4
  KmallocMax = 2
  MaxLeaked = 1
  Signals = FALSE
  PendingFaults = FALSE
SYMMETRY BlockSymmetry
SPECIFICATION Spec
INVARIANTS TypeOK LockOwned HeapExact ReadExact
PROPERTIES SizeAccounting SeekExact ImplementsCommandLog
