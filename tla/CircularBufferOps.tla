------------------------- MODULE CircularBufferOps -------------------------
(***************************************************************************)
(* struct aesd_circular_buffer and its functions, as operators over one    *)
(* record [entry, in_offs, out_offs, full].  An entry is a record          *)
(* [buffptr, size]; what buffptr is (a heap block, or the bytes            *)
(* themselves) is the business of the module that uses the buffer.         *)
(*                                                                         *)
(* The uint32_t running total of the lookup is left unbounded: kmalloc     *)
(* refuses a block of more than a few MiB, so ten entries stay far below   *)
(* 2^32.  The uint16_t offset inside an entry keeps its width.             *)
(***************************************************************************)
EXTENDS Integers, FiniteSetsExt, Functions

CONSTANTS Capacity,   \* AESDCHAR_MAX_WRITE_OPERATIONS_SUPPORTED
          NULL   \* the null pointer

ASSUME CapacityAssumption == Capacity \in Nat \ {0}

Slots == 0 .. Capacity - 1

(* Mutant: the index runs off the end of the array. *)
NextSlotUnwrapped(i) == i + 1

(* The slot after i: the (i + 1) % AESDCHAR_MAX_... of every index update. *)
NextSlot(i) == (i + 1) % Capacity

EmptyEntry == [buffptr |-> NULL, size |-> 0]

aesd_circular_buffer_init ==
  [entry |-> [i \in Slots |-> EmptyEntry], in_offs |-> 0, out_offs |-> 0,
   full |-> FALSE]

---------------------------------------------------------------------------
(* How often the lookup's while loop runs: from out_offs up to in_offs,    *)
(* where isfull forces the first round when the two are equal.             *)
Retained(b) ==
  IF b.in_offs = b.out_offs THEN (IF b.full THEN Capacity ELSE 0)
                            ELSE (b.in_offs - b.out_offs) % Capacity

(* The slot of the k-th round, k = 1 being the oldest entry. *)
SlotAt(b, k) == (b.out_offs + k - 1) % Capacity

NotFound == [slot |-> NULL, offset |-> 0]

(* The loop's running total of sizes, after each round. *)
Totals(b) ==
  LET total[k \in 0 .. Capacity] ==
        IF k = 0 THEN 0 ELSE total[k-1] + b.entry[SlotAt(b, k)].size
  IN  total

(* Mutant: a position at the very end of an entry still matches it. *)
FindOffByOne(b, char_offset) ==
  LET total == Totals(b)
      hits == {k \in 1 .. Retained(b) : total[k] >= char_offset}
      k == Min(hits)
      s == SlotAt(b, k)
  IN  IF hits = {} THEN NotFound
      ELSE [slot |-> s, offset |-> char_offset - (total[k] - b.entry[s].size)]

(* The entry that holds byte char_offset of the concatenated entries, and  *)
(* the offset inside it, truncated to last_index's 16 bits.                *)
aesd_circular_buffer_find_entry_offset_for_fpos(b, char_offset) ==
  LET total == Totals(b)
      hits == {k \in 1 .. Retained(b) : total[k] > char_offset}
      k == Min(hits)
      s == SlotAt(b, k)
      last_index == (char_offset - (total[k] - b.entry[s].size)) % 2^16
  IN  IF hits = {} THEN NotFound ELSE [slot |-> s, offset |-> last_index]

---------------------------------------------------------------------------
(* Mutant: the oldest entry is overwritten but out_offs stays on it. *)
AddKeepingOut(b, e) ==
  LET in == NextSlot(b.in_offs)
  IN  [entry |-> [b.entry EXCEPT ![b.in_offs] = e], in_offs |-> in,
       out_offs |-> b.out_offs, full |-> b.full \/ in = b.out_offs]

(* Store e at in_offs; a full buffer gives up its oldest entry first. *)
aesd_circular_buffer_add_entry(b, e) ==
  LET out == IF b.full THEN NextSlot(b.out_offs) ELSE b.out_offs
      in  == NextSlot(b.in_offs)
  IN  [entry |-> [b.entry EXCEPT ![b.in_offs] = e], in_offs |-> in,
       out_offs |-> out, full |-> b.full \/ in = out]

(* What add_entry returns: the evicted entry's memory, for the caller to free. *)
pointer_to_free(b) == IF b.full THEN b.entry[b.in_offs].buffptr ELSE NULL

(* Mutant: the last slot is left out of the sum. *)
SizeAllButLast(b) == SumFunctionOnSet([i \in Slots |-> b.entry[i].size], 0 .. Capacity - 2)

(* The bytes stored, summed from slot 0 up to the first slot without memory. *)
aesd_circular_buffer_size(b) ==
  LET used == {i \in Slots : \A j \in 0 .. i : b.entry[j].buffptr # NULL}
  IN  SumFunctionOnSet([i \in Slots |-> b.entry[i].size], used)
=============================================================================
