----------------------------- MODULE CommandLog -----------------------------
(***************************************************************************)
(* What /dev/aesdchar promises its writers: bytes written, by whichever    *)
(* file or task, are joined in the order of the writes until one write     *)
(* ends in a newline; the joined bytes then become one command, and the    *)
(* last Capacity commands are remembered, oldest first.                    *)
(***************************************************************************)
EXTENDS Integers, Sequences

CONSTANTS Capacity, NL, Bufs

VARIABLES log,       \* the remembered commands, oldest first
          pending    \* the bytes of the unfinished command

Init == log = <<>> /\ pending = <<>>

Remember(l, c) == Append(IF Len(l) = Capacity THEN Tail(l) ELSE l, c)

Write(s) ==
  /\ s # <<>>
  /\ IF s[Len(s)] = NL
     THEN log' = Remember(log, pending \o s) /\ pending' = <<>>
     ELSE pending' = pending \o s /\ UNCHANGED log

(* The module is unloaded and everything is forgotten. *)
Forget == log' = <<>> /\ pending' = <<>>

Next == Forget \/ \E s \in Bufs : Write(s)

Spec == Init /\ [][Next]_<<log, pending>>
=============================================================================
