-------------------------- MODULE MCCircularBuffer --------------------------
(***************************************************************************)
(* TLC instance of CircularBuffer: positions on both sides of every entry  *)
(* boundary the chosen sizes can make.                                     *)
(***************************************************************************)
EXTENDS CircularBuffer

MCOffsets ==
  LET ends == {a + b + c : a, b, c \in Sizes \union {0}}
  IN  {p \in UNION {{n - 1, n} : n \in ends} : p >= 0}
=============================================================================
