------------------------ MODULE CircularBufferProofs ------------------------
(***************************************************************************)
(* The circular buffer, for every capacity: its indices stay in the array, *)
(* it implements RecentCommands, and its lookup and its size agree with    *)
(* the entries it remembers.                                               *)
(***************************************************************************)
EXTENDS CircularBuffer, CircularBufferLemmas

USE CapacityAssumption DEF Slots

(* With TypeOK, what is inductive: a full buffer's two indices coincide,   *)
(* and the slots in use are known.                                         *)
RingInv == TypeOK /\ Ring(buffer) /\ Filled(buffer)

LEMMA AddPreservesRing ==
  ASSUME RingInv, NEW e \in Entries, AddEntry(e)
  PROVE  RingInv'
<1>1. TypeOK /\ Ring(buffer) /\ Filled(buffer)
  BY DEF RingInv
<1>2. buffer' = aesd_circular_buffer_add_entry(buffer, e)
  BY DEF AddEntry
<1>3. /\ buffer' = [entry |-> buffer'.entry, in_offs |-> buffer'.in_offs,
                    out_offs |-> buffer'.out_offs, full |-> buffer'.full]
      /\ buffer'.entry = [buffer.entry EXCEPT ![buffer.in_offs] = e]
      /\ buffer'.in_offs = NextSlot(buffer.in_offs)
      /\ buffer'.out_offs = IF buffer.full THEN NextSlot(buffer.out_offs) ELSE buffer.out_offs
      /\ buffer.full => buffer'.full
  BY <1>2 DEF aesd_circular_buffer_add_entry
<1>4. Ring(buffer') /\ Filled(buffer')
  <2>1. e.buffptr # NULL /\ DOMAIN buffer.entry = Slots
    BY <1>1, NullAssumption DEF Entries, TypeOK
  <2> QED BY <1>1, <1>2, <2>1, AddFilled
<1>5. TypeOK'
  <2>1. pointer_to_free(buffer) \in Pointers \union {NULL}
    BY <1>1 DEF pointer_to_free, TypeOK, Entries, EmptyEntry
  <2> QED BY <1>1, <1>3, <1>4, <2>1 DEF TypeOK, AddEntry, Ring
<1> QED BY <1>4, <1>5 DEF RingInv

(* Spec keeps every index inside the array, and "full" means in = out. *)
THEOREM RingInvariant == Spec => []RingInv
<1>1. Init => RingInv
  BY NullAssumption DEF Init, RingInv, TypeOK, Ring, Filled, aesd_circular_buffer_init, EmptyEntry
<1>2. RingInv /\ [Next]_vars => RingInv'
  <2> SUFFICES ASSUME RingInv, [Next]_vars PROVE RingInv'
    OBVIOUS
  <2>1. CASE Next
    BY <2>1, AddPreservesRing DEF Next
  <2>2. CASE UNCHANGED vars
    BY <2>2 DEF vars, RingInv, TypeOK, Ring, Filled
  <2> QED BY <2>1, <2>2
<1> QED BY <1>1, <1>2, PTL DEF Spec

(* The type invariant the ring run checks: no index ever leaves the array. *)
THEOREM TypeCorrect == Spec => []TypeOK
<1>1. RingInv => TypeOK
  BY DEF RingInv
<1> QED BY <1>1, RingInvariant, PTL

---------------------------------------------------------------------------
(* The remembered entries form a sequence, and "full" is its length. *)
LEMMA LogShape ==
  ASSUME RingInv
  PROVE  /\ Log \in Seq(Entries \union {EmptyEntry})
         /\ Len(Log) = Retained(buffer) /\ DOMAIN Log = 1 .. Retained(buffer)
         /\ Retained(buffer) \in 0 .. Capacity
         /\ buffer.full <=> Retained(buffer) = Capacity
<1>1. Ring(buffer)
  BY DEF RingInv
<1>2. Retained(buffer) \in 0 .. Capacity /\ (buffer.full <=> Retained(buffer) = Capacity)
  BY <1>1, RingSlots
<1>3. \A k \in 1 .. Retained(buffer) : SlotAt(buffer, k) \in Slots
  BY <1>1, <1>2, RingSlots
<1>4. Log \in [1 .. Retained(buffer) -> Entries \union {EmptyEntry}]
  BY <1>3 DEF Log, RingInv, TypeOK
<1> QED BY <1>2, <1>4

(* Into a buffer with room, add_entry appends. *)
LEMMA AddWithRoom ==
  ASSUME RingInv, NEW e \in Entries, AddEntry(e), ~ buffer.full
  PROVE  Log' = Append(Log, e)
<1> DEFINE n == Retained(buffer)
<1>1. /\ Ring(buffer) /\ buffer' = aesd_circular_buffer_add_entry(buffer, e)
      /\ buffer'.entry = [buffer.entry EXCEPT ![buffer.in_offs] = e]
  BY DEF RingInv, AddEntry, aesd_circular_buffer_add_entry
<1>2. /\ n \in 0 .. Capacity - 1 /\ Retained(buffer') = n + 1
      /\ \A k \in 1 .. n + 1 : SlotAt(buffer', k) = SlotAt(buffer, k)
      /\ SlotAt(buffer, n + 1) = buffer.in_offs /\ buffer.in_offs \in Slots
      /\ \A k \in 1 .. n : SlotAt(buffer, k) \in Slots \ {buffer.in_offs}
  BY <1>1, AddRoomSlots DEF Ring
<1>3. Log' = [k \in 1 .. n + 1 |-> IF k = n + 1 THEN e ELSE Log[k]]
  <2>1. Log' = [k \in 1 .. n + 1 |-> buffer'.entry[SlotAt(buffer', k)]]
    BY <1>2 DEF Log
  <2>2. \A k \in 1 .. n : buffer'.entry[SlotAt(buffer', k)] = Log[k]
    BY <1>1, <1>2 DEF Log, RingInv, TypeOK
  <2>3. buffer'.entry[SlotAt(buffer', n + 1)] = e
    BY <1>1, <1>2 DEF RingInv, TypeOK
  <2> QED BY <1>2, <2>1, <2>2, <2>3
<1>4. Len(Log) = n /\ Log \in Seq(Entries \union {EmptyEntry})
  BY LogShape
<1> QED BY <1>2, <1>3, <1>4, AppendByElement

(* Into a full buffer, add_entry appends after dropping the oldest entry,  *)
(* and returns the memory of the entry it dropped.                         *)
LEMMA AddWhenFull ==
  ASSUME RingInv, NEW e \in Entries, AddEntry(e), buffer.full
  PROVE  /\ Log' = Append(Tail(Log), e)
         /\ returned' = Head(Log).buffptr
<1>1. /\ Ring(buffer) /\ buffer' = aesd_circular_buffer_add_entry(buffer, e)
      /\ buffer'.entry = [buffer.entry EXCEPT ![buffer.in_offs] = e]
  BY DEF RingInv, AddEntry, aesd_circular_buffer_add_entry
<1>2. /\ Retained(buffer) = Capacity /\ Retained(buffer') = Capacity
      /\ \A k \in 1 .. Capacity - 1 : /\ SlotAt(buffer', k) = SlotAt(buffer, k + 1)
                                      /\ SlotAt(buffer, k + 1) \in Slots \ {buffer.in_offs}
      /\ SlotAt(buffer', Capacity) = buffer.in_offs /\ SlotAt(buffer, 1) = buffer.in_offs
  BY <1>1, AddFullSlots
<1>3. Log' = [k \in 1 .. Capacity |-> IF k = Capacity THEN e ELSE Log[k + 1]]
  <2>1. Log' = [k \in 1 .. Capacity |-> buffer'.entry[SlotAt(buffer', k)]]
    BY <1>2 DEF Log
  <2>2. \A k \in 1 .. Capacity - 1 : buffer'.entry[SlotAt(buffer', k)] = Log[k + 1]
    BY <1>1, <1>2 DEF Log, RingInv, TypeOK
  <2>3. buffer'.entry[SlotAt(buffer', Capacity)] = e
    BY <1>1, <1>2 DEF RingInv, TypeOK, Ring
  <2> QED BY <2>1, <2>2, <2>3
<1>4. Log' = Append(Tail(Log), e)
  <2>1. Log \in Seq(Entries \union {EmptyEntry}) /\ Len(Log) = Capacity
    BY <1>2, LogShape
  <2>2. /\ Tail(Log) \in Seq(Entries \union {EmptyEntry})
        /\ Len(Tail(Log)) = Capacity - 1
        /\ \A k \in 1 .. Capacity - 1 : Tail(Log)[k] = Log[k + 1]
    BY <2>1, HeadTailProperties
  <2> DEFINE n == Capacity - 1
             tail == Tail(Log)
  <2>3. /\ n \in Nat /\ e \in Entries \union {EmptyEntry}
        /\ tail \in Seq(Entries \union {EmptyEntry}) /\ Len(tail) = n
    BY <2>2
  <2>4. Log' = [k \in 1 .. n + 1 |-> IF k = n + 1 THEN e ELSE tail[k]]
    BY <1>3, <2>2
  <2> HIDE DEF n, tail
  <2>5. Log' = Append(tail, e)
    BY <2>3, <2>4, AppendByElement
  <2> QED BY <2>5 DEF tail
<1>5. returned' = Head(Log).buffptr
  BY <1>2 DEF AddEntry, pointer_to_free, Log
<1> QED BY <1>4, <1>5

(* The circular buffer implements RecentCommands for every capacity: it    *)
(* always holds the last Capacity entries in order, across any number of   *)
(* wrap-arounds, and add_entry returns exactly the memory it drops.        *)
THEOREM Refinement == Spec => ImplementsRecentCommands
<1>1. Init => Recent!Init
  <2> SUFFICES ASSUME Init PROVE Log = <<>> /\ returned = NULL
    BY DEF Recent!Init
  <2>1. Retained(buffer) = 0
    BY DEF Init, aesd_circular_buffer_init, Retained
  <2> QED BY <2>1 DEF Init, Log
<1>2. RingInv /\ [Next]_vars => [Recent!Next]_<<Log, returned>>
  <2> SUFFICES ASSUME RingInv, [Next]_vars
               PROVE  Recent!Next \/ UNCHANGED <<Log, returned>>
    OBVIOUS
  <2>1. CASE UNCHANGED vars
    BY <2>1 DEF vars, Log
  <2>2. CASE Next
    <3>1. PICK e \in Entries : AddEntry(e)
      BY <2>2 DEF Next
    <3>2. CASE buffer.full
      BY <3>1, <3>2, LogShape, AddWhenFull DEF Recent!Next, Recent!Add, Recent!Remember
    <3>3. CASE ~ buffer.full
      <4>1. returned' = NULL
        BY <3>1, <3>3 DEF AddEntry, pointer_to_free
      <4> QED
        BY <3>1, <3>3, <4>1, LogShape, AddWithRoom
           DEF Recent!Next, Recent!Add, Recent!Remember
    <3> QED BY <3>2, <3>3
  <2> QED BY <2>1, <2>2
<1> QED BY <1>1, <1>2, RingInvariant, PTL DEF Spec, ImplementsRecentCommands, Recent!Spec
---------------------------------------------------------------------------
(* Bytes, counted by the properties and by the code *)

LEMMA EntrySizes ==
  ASSUME RingInv
  PROVE  \A i \in Slots : buffer.entry[i].size \in Nat /\ buffer.entry[i].size \in Sizes \union {0}
<1> TAKE i \in Slots
<1>1. buffer.entry[i] \in Entries \union {EmptyEntry}
  BY DEF RingInv, TypeOK
<1>2. CASE buffer.entry[i] \in Entries
  BY <1>2, SizesAssumption DEF Entries
<1>3. CASE buffer.entry[i] = EmptyEntry
  BY <1>3 DEF EmptyEntry
<1> QED BY <1>1, <1>2, <1>3

(* The reference count of bytes, over the remembered entries, is the       *)
(* lookup's running total.                                                 *)
LEMMA BytesAreTotals ==
  ASSUME RingInv
  PROVE  /\ Sized(buffer)
         /\ \A k \in 0 .. Len(Log) : BytesBefore(k) = Totals(buffer)[k]
<1> DEFINE size == [j \in DOMAIN Log |-> Log[j].size]
           n == Retained(buffer)
           N == {k \in Nat : k \in 0 .. n =>
                               SumFunctionOnSet(size, 1 .. k) = Totals(buffer)[k]}
<1>1. /\ Ring(buffer) /\ Len(Log) = n /\ DOMAIN Log = 1 .. n /\ n \in 0 .. Capacity
  BY LogShape DEF RingInv
<1>2. Sized(buffer)
  BY EntrySizes DEF Sized
<1>3. \A k \in 1 .. n : size[k] = buffer.entry[SlotAt(buffer, k)].size /\ size[k] \in Nat
  BY <1>1, <1>2, RingSlots DEF Log, Sized
<1>4. 0 \in N
  <2>1. 1 .. 0 = {}
    OBVIOUS
  <2> QED BY <2>1, SumEmpty, TotalsDef
<1> HIDE DEF size, n
<1>5. ASSUME NEW k \in Nat, k \in N PROVE k + 1 \in N
  <2> SUFFICES ASSUME k + 1 \in 0 .. n
               PROVE  SumFunctionOnSet(size, 1 .. k + 1) = Totals(buffer)[k + 1]
    OBVIOUS
  <2> DEFINE S == 1 .. k + 1
             x == k + 1
  <2>0. IsFiniteSet(S)
    BY FS_Interval
  <2>1. x \in S /\ (\A y \in S : size[y] \in Nat) /\ S \ {x} = 1 .. k
    BY <1>1, <1>3
  <2>2. SumFunctionOnSet(size, S) = size[x] + SumFunctionOnSet(size, S \ {x})
    <3> HIDE DEF S, x
    <3> QED BY <2>0, <2>1, SumRemove
  <2>3. SumFunctionOnSet(size, 1 .. k) = Totals(buffer)[k]
    BY <1>1, <1>5
  <2>4. /\ Totals(buffer)[k + 1] = Totals(buffer)[k] + size[k + 1]
        /\ Totals(buffer)[k] \in Nat /\ size[k + 1] \in Nat
    <3>1. k + 1 \in 1 .. Capacity /\ k \in 0 .. Capacity /\ k + 1 \in 1 .. n
      BY <1>1
    <3>2. Totals(buffer)[k] \in Nat
      BY <1>1, <1>2, <3>1, TotalsSum
    <3>3. Totals(buffer)[k + 1] = Totals(buffer)[k + 1 - 1] + buffer.entry[SlotAt(buffer, k + 1)].size
      BY <3>1, TotalsDef
    <3> QED BY <1>3, <3>1, <3>2, <3>3
  <2>5. SumFunctionOnSet(size, S) = size[k + 1] + Totals(buffer)[k]
    <3> HIDE DEF S
    <3> QED BY <2>1, <2>2, <2>3
  <2> QED BY <2>4, <2>5
<1>6. Nat \subseteq N
  <2> HIDE DEF N
  <2> QED BY <1>4, <1>5, SetInduction
<1> QED BY <1>1, <1>2, <1>6 DEF BytesBefore, size

(* aesd_circular_buffer_size, which walks the array, counts the bytes of   *)
(* the remembered entries, wherever the oldest of them is.                 *)
THEOREM SizeAlwaysExact == Spec => []SizeExact
<1>1. RingInv => SizeExact
  BY BytesAreTotals, LogShape, SizeCorrect DEF SizeExact, RingInv
<1> QED BY <1>1, RingInvariant, PTL

LEMMA FindInRing ==
  ASSUME RingInv, Offsets \subseteq Nat
  PROVE  Sizes \subseteq 0 .. 2^16 => FindExact
<1> DEFINE Small == Sizes \subseteq 0 .. 2^16
           width == 2^16
<1>0. width \in Nat /\ width > 0
  OBVIOUS
<1> HIDE DEF width
<1> SUFFICES ASSUME Small PROVE FindExact
  OBVIOUS
<1>s. \A s \in Sizes : s \in 0 .. width
  BY DEF width
<1> HIDE DEF Small
<1>1. ASSUME NEW p \in Offsets
      PROVE  LET r == aesd_circular_buffer_find_entry_offset_for_fpos(buffer, p)
             IN  IF p < BytesBefore(Len(Log))
                 THEN \E k \in DOMAIN Log : /\ r.slot = SlotAt(buffer, k)
                                            /\ r.offset = p - BytesBefore(k - 1)
                                            /\ r.offset < Log[k].size
                 ELSE r = NotFound
  <2> DEFINE r == aesd_circular_buffer_find_entry_offset_for_fpos(buffer, p)
             n == Retained(buffer)
             total == Totals(buffer)
  <2>0. p \in Nat
    OBVIOUS
  <2>1. /\ Ring(buffer) /\ Len(Log) = n /\ DOMAIN Log = 1 .. n /\ n \in 0 .. Capacity
    BY <1>1, LogShape DEF RingInv
  <2>2. Sized(buffer) /\ \A k \in 0 .. n : BytesBefore(k) = total[k]
    BY <1>1, <2>1, BytesAreTotals
  <2>3. \A k \in 0 .. n : total[k] \in Nat
    <3>1. \A k \in 0 .. Capacity : total[k] \in Nat
      BY <2>1, <2>2, TotalsSum
    <3> QED BY <2>1, <3>1
  <2>4. IF p < total[n]
        THEN \E k \in 1 .. n : /\ total[k - 1] <= p /\ p < total[k]
                               /\ r = [slot |-> SlotAt(buffer, k), offset |-> (p - total[k - 1]) % width]
        ELSE r = NotFound
    BY <2>0, <2>1, <2>2, FindCorrect DEF width
  <2> HIDE DEF r, n, total
  <2>5. CASE p < total[n]
    <3>1. PICK k \in 1 .. n :
            /\ total[k - 1] <= p /\ p < total[k]
            /\ r = [slot |-> SlotAt(buffer, k), offset |-> (p - total[k - 1]) % width]
      BY <2>4, <2>5
    <3>2. /\ k - 1 \in 0 .. n /\ k \in 0 .. n /\ k \in 1 .. Capacity
      <4>1. n \in 0 .. Capacity
        BY <2>1
      <4> QED BY <4>1
    <3>3. total[k] = total[k - 1] + Log[k].size /\ Log[k].size \in 0 .. width
      <4>1. Log[k] = buffer.entry[SlotAt(buffer, k)] /\ SlotAt(buffer, k) \in Slots
        BY <2>1, <3>2, RingSlots DEF Log, n
      <4>2. buffer.entry[SlotAt(buffer, k)].size \in 0 .. width
        BY <1>0, <1>1, <1>s, <4>1, EntrySizes
      <4>3. total[k] = total[k - 1] + buffer.entry[SlotAt(buffer, k)].size
        BY <3>2, TotalsDef DEF total
      <4> QED BY <4>1, <4>2, <4>3
    <3>4. p - total[k - 1] \in 0 .. width - 1 /\ p - total[k - 1] < Log[k].size
      BY <1>0, <2>0, <2>3, <3>1, <3>2, <3>3
    <3>5. (p - total[k - 1]) % width = p - total[k - 1]
      BY <1>0, <3>4
    <3>6. r.slot = SlotAt(buffer, k) /\ r.offset = p - total[k - 1]
      BY <3>1, <3>5
    <3> QED BY <2>1, <2>2, <2>5, <3>2, <3>4, <3>6 DEF r
  <2>6. CASE ~ (p < total[n])
    <3>1. n \in 0 .. n
      BY <2>1
    <3> QED BY <2>1, <2>2, <2>4, <2>6, <3>1 DEF r
  <2> QED BY <2>5, <2>6
<1> QED BY <1>1 DEF FindExact

(* The lookup finds the entry and the offset of every position, provided   *)
(* an entry has no more than 2^16 bytes: a larger one has offsets that     *)
(* last_index cannot hold.                                                 *)
THEOREM FindAlwaysExact ==
  (Sizes \subseteq 0 .. 2^16) /\ (Offsets \subseteq Nat) => (Spec => []FindExact)
<1> SUFFICES ASSUME Sizes \subseteq 0 .. 2^16, Offsets \subseteq Nat
             PROVE  Spec => []FindExact
  OBVIOUS
<1>1. RingInv => FindExact
  BY FindInRing
<1> QED BY <1>1, RingInvariant, PTL
=============================================================================
