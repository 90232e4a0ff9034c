--------------------------- MODULE CircularBuffer ---------------------------
(***************************************************************************)
(* The circular buffer on its own, driven by a caller that adds entries.   *)
(* This is the component the repository's unit tests exercise.             *)
(***************************************************************************)
EXTENDS CircularBufferOps, Sequences

CONSTANTS Pointers,   \* memory an entry may point to
          Sizes,      \* sizes an entry may have
          Offsets     \* positions looked up

ASSUME NullAssumption == NULL \notin Pointers
ASSUME SizesAssumption == Sizes \subseteq Nat

Entries == [buffptr : Pointers, size : Sizes]

VARIABLES buffer,     \* struct aesd_circular_buffer
          returned    \* what the last add_entry returned

vars == <<buffer, returned>>

Init == buffer = aesd_circular_buffer_init /\ returned = NULL

AddEntry(e) ==
  /\ buffer' = aesd_circular_buffer_add_entry(buffer, e)
  /\ returned' = pointer_to_free(buffer)

Next == \E e \in Entries : AddEntry(e)

Spec == Init /\ [][Next]_vars

---------------------------------------------------------------------------
Log == [k \in 1 .. Retained(buffer) |-> buffer.entry[SlotAt(buffer, k)]]

(* The fields have their C types, and the indices never leave the array. *)
TypeOK ==
  /\ buffer \in [entry : [Slots -> Entries \union {EmptyEntry}],
                 in_offs : Slots, out_offs : Slots, full : BOOLEAN]
  /\ returned \in Pointers \union {NULL}

(* The buffer refines RecentCommands: through any number of wrap-arounds it *)
(* holds the last Capacity entries in order, and add_entry returns exactly the   *)
(* memory of the entry it drops (aesd-circular-buffer.c, add_entry).        *)
Recent == INSTANCE RecentCommands WITH log <- Log, evicted <- returned
ImplementsRecentCommands == Recent!Spec

(* Bytes stored in the first k remembered entries, summed independently of  *)
(* the lookup loop.                                                         *)
BytesBefore(k) == SumFunctionOnSet([j \in DOMAIN Log |-> Log[j].size], 1 .. k)

(* The lookup finds byte p of the concatenated entries: the entry and the   *)
(* offset in it whose preceding bytes add up to p, and nothing past the end *)
(* ("the position described by char_offset, or NULL if this position is not *)
(* available", aesd_circular_buffer_find_entry_offset_for_fpos).            *)
FindExact ==
  \A p \in Offsets :
    LET r == aesd_circular_buffer_find_entry_offset_for_fpos(buffer, p)
    IN  IF p < BytesBefore(Len(Log))
        THEN \E k \in DOMAIN Log : /\ r.slot = SlotAt(buffer, k)
                                   /\ r.offset = p - BytesBefore(k - 1)
                                   /\ r.offset < Log[k].size
        ELSE r = NotFound

(* aesd_circular_buffer_size adds up exactly the remembered entries, whose  *)
(* slots it visits in array order and not in age order.                     *)
SizeExact == aesd_circular_buffer_size(buffer) = BytesBefore(Len(Log))
=============================================================================
