--------------------------- MODULE RecentCommands ---------------------------
(***************************************************************************)
(* What the circular buffer promises: it remembers the last Capacity entries    *)
(* given to it, oldest first, and hands back the memory of the one it      *)
(* forgets.                                                                *)
(***************************************************************************)
EXTENDS Integers, Sequences

CONSTANTS Capacity, NULL, Entries

VARIABLES log,      \* the remembered entries, oldest first
          evicted   \* the buffptr the last addition gave back, or NULL

Remember(l, e) == Append(IF Len(l) = Capacity THEN Tail(l) ELSE l, e)

Init == log = <<>> /\ evicted = NULL

Add(e) ==
  /\ log' = Remember(log, e)
  /\ evicted' = IF Len(log) = Capacity THEN Head(log).buffptr ELSE NULL

Next == \E e \in Entries : Add(e)

Spec == Init /\ [][Next]_<<log, evicted>>
=============================================================================
