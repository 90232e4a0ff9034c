------------------------- MODULE AesdCommandProofs -------------------------
(***************************************************************************)
(* What the driver does with commands, when no signal interrupts a wait    *)
(* for the lock and no copy of a further piece fails: it implements        *)
(* CommandLog, reads and seeks find the bytes they name, and buffer_size   *)
(* is off by no more than one command.                                     *)
(***************************************************************************)
EXTENDS AesdCharProofs

USE NullAssumption, CapacityAssumption

(* The remembered commands, as the refinement sees them. *)
LEMMA BarShape ==
  ASSUME TypeInv, HeapInv, loaded
  PROVE  /\ CommandsBar \in Seq(Seq(Bytes)) /\ Len(CommandsBar) = Retained(circular_buffer)
         /\ Retained(circular_buffer) \in 0 .. Capacity
         /\ circular_buffer.full <=> Retained(circular_buffer) = Capacity
         /\ \A k \in 1 .. Retained(circular_buffer) :
              LET b == circular_buffer.entry[SlotAt(circular_buffer, k)].buffptr
              IN  /\ b \in Blocks /\ InSlot(b) /\ SlotAt(circular_buffer, k) \in Slots
                  /\ CommandsBar[k] = heap[b]
<1> DEFINE n == Retained(circular_buffer)
           Block(k) == circular_buffer.entry[SlotAt(circular_buffer, k)].buffptr
<1>1. Ring(circular_buffer) /\ Filled(circular_buffer)
  BY DEF TypeInv, DevType, HeapInv
<1>2. n \in 0 .. Capacity /\ (circular_buffer.full <=> n = Capacity)
  BY <1>1, RingSlots
<1>3. ASSUME NEW k \in 1 .. n
      PROVE  /\ Block(k) \in Blocks /\ InSlot(Block(k)) /\ SlotAt(circular_buffer, k) \in Slots
             /\ heap[Block(k)] \in Seq(Bytes)
  <2>1. SlotAt(circular_buffer, k) \in Slots /\ Block(k) # NULL
    BY <1>1, RetainedFilled
  <2>2. Block(k) \in Blocks /\ InSlot(Block(k))
    BY <2>1 DEF TypeInv, DevType, EntrySet, BlockOrNull, InSlot
  <2>3. heap[Block(k)] # NULL
    BY <2>2 DEF HeapInv, Owned
  <2> QED BY <2>1, <2>2, <2>3 DEF TypeInv, MemoryType
<1>4. CommandsBar = [k \in 1 .. n |-> heap[Block(k)]]
  BY DEF CommandsBar
<1>5. CommandsBar \in [1 .. n -> Seq(Bytes)]
  BY <1>3, <1>4
<1>6. CommandsBar \in Seq(Seq(Bytes)) /\ Len(CommandsBar) = n
  BY <1>2, <1>5
<1> QED BY <1>2, <1>3, <1>4, <1>6

LEMMA CommandsKept ==
  ASSUME TypeInv, HeapInv, loaded, loaded', UNCHANGED circular_buffer,
         \A b \in Blocks : InSlot(b) => heap'[b] = heap[b]
  PROVE  CommandsBar' = CommandsBar
  BY BarShape DEF CommandsBar

(* The unfinished command, seen by the only writer that may be at work. *)
PendingOf(t) ==
  IF pc[t] = "w_copy" THEN heap[ptr[t]]
  ELSE IF pc[t] \in Busy \/ entry_cache.buffptr = NULL THEN <<>>
  ELSE heap[entry_cache.buffptr]

LEMMA PendingValue ==
  ASSUME NEW t \in Tasks, Solo(t), loaded PROVE PendingBar = PendingOf(t)
<1>1. \A labels \in SUBSET Busy : At(labels) <=> pc[t] \in labels
  BY DEF Solo, At
<1>2. At({"w_evict", "w_account"}) <=> pc[t] \in {"w_evict", "w_account"}
  BY <1>1 DEF Busy
<1>3. At({"w_copy"}) <=> pc[t] = "w_copy"
  BY <1>1 DEF Busy
<1>4. CASE pc[t] = "w_copy"
  <2>1. (CHOOSE u \in Tasks : pc[u] = "w_copy") = t
    BY <1>4 DEF Solo, Busy
  <2> QED BY <1>2, <1>3, <1>4, <2>1 DEF PendingBar, PendingOf
<1>5. CASE pc[t] # "w_copy"
  BY <1>2, <1>3, <1>5 DEF PendingBar, PendingOf, Busy
<1> QED BY <1>4, <1>5

LEMMA PendingValueNext ==
  ASSUME NEW t \in Tasks, Solo(t)', loaded' PROVE PendingBar' = PendingOf(t)'
<1>1. \A labels \in SUBSET Busy : At(labels)' <=> pc'[t] \in labels
  BY DEF Solo, At
<1>2. At({"w_evict", "w_account"})' <=> pc'[t] \in {"w_evict", "w_account"}
  BY <1>1 DEF Busy
<1>3. At({"w_copy"})' <=> pc'[t] = "w_copy"
  BY <1>1 DEF Busy
<1>4. CASE pc'[t] = "w_copy"
  <2>1. (CHOOSE u \in Tasks : pc'[u] = "w_copy") = t
    BY <1>4 DEF Solo, Busy
  <2> QED BY <1>2, <1>3, <1>4, <2>1 DEF PendingBar, PendingOf
<1>5. CASE pc'[t] # "w_copy"
  BY <1>2, <1>3, <1>5 DEF PendingBar, PendingOf, Busy
<1> QED BY <1>4, <1>5

(* Steps that leave the device and the heap alone leave the commands alone. *)
LEMMA BarsQuiet ==
  ASSUME LockInv, TypeInv, HeapInv, NEW t \in Tasks, NEW to, Quiet(t, to)
  PROVE  UNCHANGED <<CommandsBar, PendingBar>>
<1>1. UNCHANGED <<circular_buffer, entry_cache, heap, loaded>>
  BY DEF Quiet, dev, memory
<1>2. CommandsBar' = CommandsBar
  BY <1>1 DEF CommandsBar
<1>3. CASE ~ loaded
  <2>1. ~ loaded'
    BY <1>1, <1>3
  <2>2. PendingBar = <<>>
    BY <1>3 DEF PendingBar
  <2>3. PendingBar' = <<>>
    BY <2>1 DEF PendingBar
  <2> QED BY <1>2, <2>2, <2>3
<1>4. CASE loaded
  <2>1. pc \in [Tasks -> Labels]
    BY DEF TypeInv, CallType
  <2>2. PICK u \in Tasks : Solo(u) /\ (pc[u] \notin Busy => u = t)
    <3>1. CASE \E v \in Tasks : pc[v] \in Busy
      <4>1. PICK v \in Tasks : pc[v] \in Busy
        BY <3>1
      <4> QED BY <4>1, SoloNow DEF Busy, Critical
    <3>2. CASE \A v \in Tasks : pc[v] \notin Busy
      BY <3>2 DEF Solo, HeapInv, Writing, Busy
    <3> QED BY <3>1, <3>2
  <2>3. \A v \in Tasks : v # t => pc'[v] = pc[v] /\ ptr'[v] = ptr[v]
    BY <2>1 DEF Quiet
  <2>4. pc'[t] = to /\ to \notin Busy /\ pc[t] \notin Busy
    BY <2>1 DEF Quiet
  <2>5. free_buffer[t] = NULL /\ free_buffer'[t] = NULL
    BY <2>4 DEF Quiet, HeapInv, Writing, Busy
  <2>6. Solo(u)'
    BY <2>2, <2>3, <2>4, <2>5 DEF Solo, Quiet
  <2>7. PendingOf(u)' = PendingOf(u)
    BY <1>1, <2>2, <2>3, <2>4 DEF PendingOf, Busy
  <2> QED BY <1>1, <1>2, <1>4, <2>2, <2>6, <2>7, PendingValue, PendingValueNext
<1> QED BY <1>2, <1>3, <1>4

(* A block for the first piece, empty, or a grown one with the same bytes. *)
LEMMA BarsAlloc ==
  ASSUME LockInv, TypeInv, HeapInv, NEW t \in Tasks, WriteKmalloc(t) \/ WriteKrealloc(t)
  PROVE  UNCHANGED <<CommandsBar, PendingBar>>
<1>1. /\ pc[t] = "w_alloc" /\ pc' = [pc EXCEPT ![t] = "w_copy"]
      /\ UNCHANGED <<dev, loaded, free_buffer>>
  BY DEF WriteKmalloc, WriteKrealloc, Goto, files
<1>2. Solo(t) /\ loaded
  BY <1>1, SoloNow DEF Critical
<1>3. Solo(t)' /\ pc'[t] = "w_copy"
  BY <1>1, <1>2, SoloStep
<1>4. PendingOf(t)' = heap'[ptr'[t]]
  BY <1>3 DEF PendingOf
<1>5. heap \in [Blocks -> Seq(Bytes) \union {NULL}] /\ DOMAIN ptr = Tasks
  BY DEF TypeInv, MemoryType
<1>6. (\A b \in Blocks : InSlot(b) => heap'[b] = heap[b]) /\ heap'[ptr'[t]] = PendingOf(t)
  <2>1. CASE WriteKmalloc(t)
    <3>1. PICK b \in Blocks : /\ heap[b] = NULL /\ heap' = [heap EXCEPT ![b] = <<>>]
                              /\ ptr' = [ptr EXCEPT ![t] = b]
      BY <2>1 DEF WriteKmalloc
    <3>2. ~ InSlot(b)
      BY <1>2, <3>1 DEF HeapInv, Owned
    <3>3. PendingOf(t) = <<>>
      BY <1>1, <2>1 DEF WriteKmalloc, PendingOf
    <3> QED BY <1>5, <3>1, <3>2, <3>3
  <2>2. CASE WriteKrealloc(t)
    <3> DEFINE old == entry_cache.buffptr
    <3>1. old \in Blocks
      BY <2>2 DEF WriteKrealloc, TypeInv, DevType, EntrySet, BlockOrNull
    <3>2. InCache(old)
      BY <1>1, <1>2, <3>1, SoloOwners DEF Busy
    <3>3. heap[old] # NULL /\ ~ InSlot(old)
      BY <1>2, <3>1, <3>2 DEF HeapInv, Owned, Apart, InUseOutsideSlots
    <3>4. PICK b \in Blocks : /\ heap[b] = NULL \/ b = old
                              /\ heap' = [heap EXCEPT ![old] = NULL, ![b] = heap[old]]
                              /\ ptr' = [ptr EXCEPT ![t] = b]
      BY <2>2, <3>3 DEF WriteKrealloc
    <3>5. ~ InSlot(b)
      BY <1>2, <3>3, <3>4 DEF HeapInv, Owned
    <3>6. PendingOf(t) = heap[old]
      BY <1>1, <3>1 DEF PendingOf, Busy
    <3> QED BY <1>5, <3>1, <3>3, <3>4, <3>5, <3>6
  <2> QED BY <2>1, <2>2
<1> QED BY <1>1, <1>2, <1>3, <1>4, <1>6, CommandsKept, PendingValue, PendingValueNext DEF dev

(* A failed copy of a first piece, the freeing of an evicted command and   *)
(* the accounting for a new one.                                           *)
LEMMA BarsAfterCopy ==
  ASSUME ~ PendingFaults, LockInv, TypeInv, HeapInv, NEW t \in Tasks,
         WriteFault(t) \/ WriteEvict(t) \/ WriteAccount(t)
  PROVE  UNCHANGED <<CommandsBar, PendingBar>>
<1>1. PICK to \in {"w_unlock", "w_account"} : pc' = [pc EXCEPT ![t] = to]
  BY DEF WriteFault, WriteEvict, WriteAccount, Goto
<1>2. pc[t] \in Busy /\ UNCHANGED <<circular_buffer, loaded>>
  BY DEF WriteFault, WriteEvict, WriteAccount, Goto, Busy, dev, files
<1>3. Solo(t) /\ loaded
  BY <1>2, SoloNow DEF Critical, Busy
<1>4. \A u \in Tasks \ {t} : free_buffer'[u] = free_buffer[u]
  BY DEF WriteFault, WriteEvict, WriteAccount, TypeInv, MemoryType
<1>5. Solo(t)' /\ pc'[t] = to
  BY <1>1, <1>3, <1>4, SoloStep
<1>6. heap \in [Blocks -> Seq(Bytes) \union {NULL}]
  BY DEF TypeInv, MemoryType
<1>7. /\ \A b \in Blocks : InSlot(b) => heap'[b] = heap[b]
      /\ PendingOf(t) = <<>> /\ PendingOf(t)' = <<>>
  <2>1. CASE WriteFault(t)
    <3>1. /\ pc[t] = "w_copy" /\ entry_cache.buffptr = NULL /\ entry_cache' = entry_cache
          /\ heap' = [heap EXCEPT ![ptr[t]] = NULL] /\ pc'[t] = "w_unlock"
      BY <1>5, <2>1 DEF WriteFault, Goto, dev, TypeInv, CallType
    <3>2. /\ ptr[t] \in Blocks /\ ~ InSlot(ptr[t]) /\ heap[ptr[t]] \in Seq(Bytes)
          /\ Len(heap[ptr[t]]) = entry_cache.size
      BY <3>1, AboutToCopy
    <3>3. heap[ptr[t]] = <<>>
      BY <3>1, <3>2, EmptySeq DEF HeapInv, Measured
    <3> QED BY <1>6, <3>1, <3>2, <3>3 DEF PendingOf, Busy
  <2>2. CASE WriteEvict(t)
    <3> DEFINE b == free_buffer[t]
    <3>1. /\ pc[t] = "w_evict" /\ pc'[t] = "w_account"
          /\ heap' = IF b = NULL THEN heap ELSE [heap EXCEPT ![b] = NULL]
      BY <1>5, <2>2 DEF WriteEvict, Goto, TypeInv, CallType
    <3>2. \A x \in Blocks : InSlot(x) => x # b
      BY <1>3, SoloOwners DEF HeapInv, Apart, InUseOutsideSlots
    <3>3. b \in BlockOrNull
      BY DEF TypeInv, MemoryType
    <3> QED BY <1>6, <3>1, <3>2, <3>3 DEF PendingOf, Busy, BlockOrNull
  <2>3. CASE WriteAccount(t)
    <3>1. /\ pc[t] = "w_account" /\ pc'[t] = "w_unlock" /\ heap' = heap
          /\ entry_cache' = EmptyEntry
      BY <1>5, <2>3 DEF WriteAccount, Goto, TypeInv, CallType, memory
    <3> QED BY <3>1 DEF PendingOf, Busy, EmptyEntry
  <2> QED BY <2>1, <2>2, <2>3
<1> QED BY <1>2, <1>3, <1>5, <1>7, CommandsKept, PendingValue, PendingValueNext

(* A piece that does not end its command is appended to the pending bytes. *)
LEMMA BarsPiece ==
  ASSUME LockInv, TypeInv, HeapInv, NEW t \in Tasks, WritePiece(t)
  PROVE  Commands!Write(args[t].buf)
<1>1. /\ pc[t] = "w_copy" /\ pc' = [pc EXCEPT ![t] = "w_unlock"] /\ CopyFromUser(t)
      /\ ~ EndsCommand(t) /\ UNCHANGED <<circular_buffer, loaded, free_buffer>>
  BY DEF WritePiece, Goto, files
<1>2. /\ Solo(t) /\ loaded /\ ptr[t] \in Blocks /\ ~ InSlot(ptr[t])
  BY <1>1, AboutToCopy
<1>3. /\ heap'[ptr[t]] = heap[ptr[t]] \o args[t].buf
      /\ \A x \in Blocks \ {ptr[t]} : heap'[x] = heap[x]
      /\ entry_cache'.buffptr = ptr[t]
  BY <1>1, CopyEffect
<1>4. Solo(t)' /\ pc'[t] = "w_unlock"
  BY <1>1, <1>2, SoloStep
<1>5. CommandsBar' = CommandsBar
  BY <1>1, <1>2, <1>3, CommandsKept
<1>6. PendingBar = heap[ptr[t]] /\ PendingBar' = heap'[ptr[t]]
  <2>1. PendingOf(t) = heap[ptr[t]]
    BY <1>1 DEF PendingOf
  <2>2. PendingOf(t)' = heap'[ptr[t]]
    BY <1>2, <1>3, <1>4 DEF PendingOf, Busy
  <2> QED BY <1>1, <1>2, <1>4, <2>1, <2>2, PendingValue, PendingValueNext
<1>7. /\ args[t].buf \in Seq(Bytes) /\ args[t].count = Len(args[t].buf) /\ args[t].count > 0
  BY <1>1 DEF TypeInv, CallType, ArgSet, HeapInv, Writing, WriteLabels
<1>8. args[t].buf # <<>> /\ args[t].buf[Len(args[t].buf)] # NL
  BY <1>1, <1>7 DEF EndsCommand
<1> QED BY <1>3, <1>5, <1>6, <1>8 DEF Commands!Write

(* A piece that ends its command adds the joined bytes to the log, and     *)
(* drops the oldest command of a full one.                                 *)
LEMMA BarsCommand ==
  ASSUME LockInv, TypeInv, HeapInv, HeapInv', TypeInv', NEW t \in Tasks, WriteCommand(t)
  PROVE  Commands!Write(args[t].buf)
<1> DEFINE n == Retained(circular_buffer)
           joined == PendingBar \o args[t].buf
           Now(k) == heap[circular_buffer.entry[SlotAt(circular_buffer, k)].buffptr]
           Then(k) == heap'[circular_buffer'.entry[SlotAt(circular_buffer', k)].buffptr]
<1>1. /\ pc[t] = "w_copy" /\ pc' = [pc EXCEPT ![t] = "w_evict"] /\ CopyFromUser(t)
      /\ circular_buffer' = aesd_circular_buffer_add_entry(circular_buffer, Copied(t))
      /\ EndsCommand(t) /\ UNCHANGED loaded
      /\ \A u \in Tasks \ {t} : free_buffer'[u] = free_buffer[u]
  BY DEF WriteCommand, Goto, files, TypeInv, MemoryType
<1>2. /\ Solo(t) /\ loaded /\ ptr[t] \in Blocks /\ ~ InSlot(ptr[t])
  BY <1>1, AboutToCopy
<1>3. /\ heap'[ptr[t]] = heap[ptr[t]] \o args[t].buf /\ heap'[ptr[t]] \in Seq(Bytes)
      /\ \A x \in Blocks \ {ptr[t]} : heap'[x] = heap[x]
      /\ Copied(t).buffptr = ptr[t]
  BY <1>1, CopyEffect
<1>4. Solo(t)' /\ pc'[t] = "w_evict"
  BY <1>1, <1>2, SoloStep
<1>5. PendingBar = heap[ptr[t]] /\ PendingBar' = <<>>
  <2>1. PendingOf(t) = heap[ptr[t]]
    BY <1>1 DEF PendingOf
  <2>2. PendingOf(t)' = <<>>
    BY <1>4 DEF PendingOf, Busy
  <2> QED BY <1>1, <1>2, <1>4, <2>1, <2>2, PendingValue, PendingValueNext
<1>6. joined \in Seq(Bytes) /\ joined = heap'[ptr[t]]
  BY <1>3, <1>5
<1>7. /\ args[t].buf \in Seq(Bytes) /\ args[t].count = Len(args[t].buf) /\ args[t].count > 0
  BY <1>1 DEF TypeInv, CallType, ArgSet, HeapInv, Writing, WriteLabels
<1>8. args[t].buf # <<>> /\ args[t].buf[Len(args[t].buf)] = NL
  BY <1>1, <1>7 DEF EndsCommand
<1>9. /\ CommandsBar \in Seq(Seq(Bytes)) /\ Len(CommandsBar) = n /\ n \in 0 .. Capacity
      /\ circular_buffer.full <=> n = Capacity
      /\ \A k \in 1 .. n :
           /\ CommandsBar[k] = Now(k) /\ SlotAt(circular_buffer, k) \in Slots
           /\ circular_buffer.entry[SlotAt(circular_buffer, k)].buffptr \in Blocks \ {ptr[t]}
  <2>1. \A b \in Blocks : InSlot(b) => b # ptr[t]
    BY <1>2
  <2> QED BY <1>2, <2>1, BarShape
<1>10. CommandsBar' = [k \in 1 .. Retained(circular_buffer') |-> Then(k)]
  BY <1>1, <1>2 DEF CommandsBar
<1>11. /\ Ring(circular_buffer) /\ DOMAIN circular_buffer.entry = Slots
       /\ circular_buffer.in_offs \in Slots
       /\ circular_buffer'.entry
            = [circular_buffer.entry EXCEPT ![circular_buffer.in_offs] = Copied(t)]
  BY <1>1 DEF TypeInv, DevType, Ring, aesd_circular_buffer_add_entry
<1>12. \A i \in Slots : circular_buffer'.entry[i] = IF i = circular_buffer.in_offs THEN Copied(t)
                                                     ELSE circular_buffer.entry[i]
  BY <1>11
<1>13. CASE ~ circular_buffer.full
  <2>1. /\ Retained(circular_buffer') = n + 1
        /\ \A k \in 1 .. n + 1 : SlotAt(circular_buffer', k) = SlotAt(circular_buffer, k)
        /\ SlotAt(circular_buffer, n + 1) = circular_buffer.in_offs
        /\ \A k \in 1 .. n : SlotAt(circular_buffer, k) \in Slots \ {circular_buffer.in_offs}
    BY <1>1, <1>11, <1>13, AddRoomSlots
  <2>2. n \in Nat /\ 1 .. n \subseteq 1 .. n + 1 /\ n + 1 \in 1 .. n + 1
    BY <1>9
  <2>3. \A k \in 1 .. n : Then(k) = CommandsBar[k]
    BY <1>3, <1>9, <1>12, <2>1, <2>2, SMTT(30)
  <2>4. Then(n + 1) = joined
    <3>1. SlotAt(circular_buffer', n + 1) = circular_buffer.in_offs
      BY <2>1, <2>2
    <3>2. circular_buffer'.entry[circular_buffer.in_offs] = Copied(t)
      BY <1>11, <1>12
    <3> QED BY <1>3, <1>6, <3>1, <3>2
  <2> HIDE DEF joined, Then, n
  <2>5. CommandsBar' = [k \in 1 .. n + 1 |-> IF k = n + 1 THEN joined ELSE CommandsBar[k]]
    BY <1>10, <2>1, <2>2, <2>3, <2>4
  <2>6. CommandsBar' = Append(CommandsBar, joined)
    BY <1>6, <1>9, <2>2, <2>5, AppendByElement
  <2>7. CommandsBar' = Commands!Remember(CommandsBar, joined)
    BY <1>9, <1>13, <2>6 DEF Commands!Remember
  <2> QED BY <1>5, <1>8, <2>7 DEF Commands!Write, joined
<1>14. CASE circular_buffer.full
  <2>1. /\ Retained(circular_buffer') = Capacity /\ n = Capacity
        /\ \A k \in 1 .. Capacity - 1 :
             /\ SlotAt(circular_buffer', k) = SlotAt(circular_buffer, k + 1)
             /\ SlotAt(circular_buffer, k + 1) \in Slots \ {circular_buffer.in_offs}
        /\ SlotAt(circular_buffer', Capacity) = circular_buffer.in_offs
    BY <1>1, <1>11, <1>14, AddFullSlots
  <2> DEFINE m == Capacity - 1
             tail == Tail(CommandsBar)
  <2>2. /\ tail \in Seq(Seq(Bytes)) /\ Len(tail) = m /\ m \in Nat
        /\ \A k \in 1 .. m : tail[k] = CommandsBar[k + 1]
    BY <1>9, <2>1, HeadTailProperties
  <2>3. \A k \in 1 .. m : Then(k) = CommandsBar[k + 1]
    <3> TAKE k \in 1 .. m
    <3>1. k + 1 \in 1 .. n
      BY <2>1
    <3> DEFINE s == SlotAt(circular_buffer, k + 1)
    <3>2. /\ CommandsBar[k + 1] = heap[circular_buffer.entry[s].buffptr]
          /\ circular_buffer.entry[s].buffptr \in Blocks \ {ptr[t]}
      BY <1>9, <3>1
    <3>3. SlotAt(circular_buffer', k) = s /\ s \in Slots \ {circular_buffer.in_offs}
      BY <2>1
    <3>4. circular_buffer'.entry[s] = circular_buffer.entry[s]
      BY <1>12, <3>3
    <3> HIDE DEF s
    <3> QED BY <1>3, <3>2, <3>3, <3>4
  <2>4. Then(Capacity) = joined
    BY <1>3, <1>6, <1>11, <1>12, <2>1
  <2> HIDE DEF joined, Then, n, tail
  <2>5. CommandsBar' = [k \in 1 .. m + 1 |-> IF k = m + 1 THEN joined ELSE tail[k]]
    <3>1. Retained(circular_buffer') = m + 1 /\ Then(m + 1) = joined
      BY <2>1, <2>2, <2>4
    <3> HIDE DEF m
    <3>2. \A k \in 1 .. m + 1 : k # m + 1 => k \in 1 .. m
      BY <2>2
    <3>3. \A k \in 1 .. m + 1 : Then(k) = IF k = m + 1 THEN joined ELSE tail[k]
      BY <2>2, <2>3, <3>1, <3>2
    <3> QED BY <1>10, <3>1, <3>3
  <2> HIDE DEF m
  <2>6. CommandsBar' = Append(tail, joined)
    BY <1>6, <2>2, <2>5, AppendByElement
  <2>7. CommandsBar' = Commands!Remember(CommandsBar, joined)
    BY <1>9, <2>1, <2>6 DEF Commands!Remember, tail
  <2> QED BY <1>5, <1>8, <2>7 DEF Commands!Write, joined
<1> QED BY <1>13, <1>14

(* insmod starts from an empty log, and rmmod forgets it. *)
LEMMA BarsModule ==
  ASSUME LockInv, TypeInv, HeapInv, Module
  PROVE  Commands!Forget \/ UNCHANGED <<CommandsBar, PendingBar>>
<1>1. ASSUME NEW f \in Files, aesd_open(f) \/ aesd_release(f)
      PROVE  UNCHANGED <<CommandsBar, PendingBar>>
  <2>1. UNCHANGED <<circular_buffer, entry_cache, heap, loaded, pc, ptr>>
    BY <1>1 DEF aesd_open, aesd_release, dev, memory, locals
  <2> QED BY <2>1 DEF CommandsBar, PendingBar, At
<1>2. CASE aesd_init_module
  <2>1. Retained(circular_buffer') = 0 /\ loaded' /\ entry_cache' = EmptyEntry
    BY <1>2 DEF aesd_init_module, aesd_circular_buffer_init, Retained
  <2>2. \A t \in Tasks : pc'[t] = "idle"
    BY <1>2 DEF aesd_init_module, LockInv, InUse
  <2>3. CommandsBar' = <<>>
    BY <2>1 DEF CommandsBar
  <2>4. ~ At({"w_copy"})' /\ ~ At({"w_evict", "w_account"})'
    BY <2>2 DEF At
  <2>5. PendingBar' = <<>>
    BY <2>1, <2>4 DEF PendingBar, EmptyEntry
  <2> QED BY <2>3, <2>5 DEF Commands!Forget
<1>3. CASE aesd_cleanup_module
  <2>1. ~ loaded'
    BY <1>3 DEF aesd_cleanup_module
  <2>2. CommandsBar' = <<>>
    BY <2>1 DEF CommandsBar
  <2>3. PendingBar' = <<>>
    BY <2>1 DEF PendingBar
  <2> QED BY <2>2, <2>3 DEF Commands!Forget
<1> QED BY <1>1, <1>2, <1>3 DEF Module

(* For any number of writers and any capacity, the driver implements       *)
(* CommandLog: writes are joined in one order, each enters whole or not at *)
(* all, and the last commands are kept (aesd_write).                       *)
THEOREM Refinement == Orderly => (Spec => ImplementsCommandLog)
<1> SUFFICES ASSUME Orderly PROVE Spec => ImplementsCommandLog
  OBVIOUS
<1> DEFINE Inv == LockInv /\ TypeInv /\ HeapInv
<1>1. Init => Commands!Init
  <2> SUFFICES ASSUME Init PROVE CommandsBar = <<>> /\ PendingBar = <<>>
    BY DEF Commands!Init
  <2>1. ~ loaded
    BY DEF Init
  <2> QED BY <2>1 DEF CommandsBar, PendingBar
<1>2. Inv /\ Inv' /\ [Next]_vars => [Commands!Next]_<<CommandsBar, PendingBar>>
  <2> SUFFICES ASSUME Inv, Inv', [Next]_vars
               PROVE  Commands!Next \/ UNCHANGED <<CommandsBar, PendingBar>>
    OBVIOUS
  <2>1. CASE UNCHANGED vars
    BY <2>1 DEF vars, dev, memory, files, locals, CommandsBar, PendingBar, At
  <2>2. ASSUME NEW t \in Tasks, WritePiece(t) \/ WriteCommand(t) PROVE Commands!Next
    <3>1. Commands!Write(args[t].buf)
      BY <2>2, BarsPiece, BarsCommand
    <3>2. args[t].buf \in Bufs
      BY <2>2 DEF WritePiece, WriteCommand, Goto, HeapInv, Writing, WriteLabels
    <3> QED BY <3>1, <3>2 DEF Commands!Next
  <2>3. ASSUME NEW t \in Tasks, Interrupted(t) PROVE FALSE
    BY <2>3 DEF Interrupted, WriteInterrupted, IoctlInterrupted, LockInterrupted, Orderly
  <2>4. ASSUME NEW t \in Tasks, Step(t)
        PROVE  Commands!Next \/ UNCHANGED <<CommandsBar, PendingBar>>
    BY <2>2, <2>4, IdleStepIsQuiet, BarsQuiet, BarsAlloc, BarsAfterCopy DEF Step, Orderly
  <2>5. ASSUME NEW t \in Tasks, Call(t) \/ Acquire(t)
        PROVE  UNCHANGED <<CommandsBar, PendingBar>>
    BY <2>5, CallIsQuiet, IdleStepIsQuiet, BarsQuiet
  <2>6. CASE Module
    BY <2>6, BarsModule DEF Commands!Next
  <2> QED BY <2>1, <2>3, <2>4, <2>5, <2>6 DEF Next
<1>3. Spec => []Inv
  BY HeapInvariant
<1> HIDE DEF Inv
<1> QED BY <1>1, <1>2, <1>3, PTL DEF Spec, ImplementsCommandLog, Commands!Spec

---------------------------------------------------------------------------
(* What a reader finds, while no command completes. *)

(* No entry is longer than the largest block, nor will be after the copy,  *)
(* and a slot without a block has no size.                                 *)
SizeInv ==
  /\ \A i \in Slots : /\ circular_buffer.entry[i].size <= KmallocMax
                      /\ circular_buffer.entry[i].buffptr = NULL
                         => circular_buffer.entry[i].size = 0
  /\ entry_cache.size <= KmallocMax
  /\ \A t \in Tasks : pc[t] = "w_copy" => entry_cache.size + args[t].count <= KmallocMax

LEMMA SizeInit == Init => SizeInv
  BY LimitsAssumption DEF Init, SizeInv, aesd_circular_buffer_init, EmptyEntry

LEMMA SizeQuiet ==
  ASSUME TypeInv, SizeInv, NEW t \in Tasks, NEW to, Quiet(t, to) PROVE SizeInv'
<1>1. UNCHANGED <<circular_buffer, entry_cache>>
  BY DEF Quiet, dev
<1>2. \A u \in Tasks : pc'[u] = "w_copy" => pc[u] = "w_copy" /\ args'[u] = args[u]
  BY DEF Quiet, Busy, TypeInv, CallType
<1> QED BY <1>1, <1>2 DEF SizeInv

LEMMA SizeAlloc ==
  ASSUME LockInv, TypeInv, HeapInv, SizeInv, NEW t \in Tasks, WriteKmalloc(t) \/ WriteKrealloc(t)
  PROVE  SizeInv'
<1>1. /\ pc[t] = "w_alloc" /\ pc' = [pc EXCEPT ![t] = "w_copy"]
      /\ UNCHANGED <<circular_buffer, entry_cache, args>>
  BY DEF WriteKmalloc, WriteKrealloc, Goto, dev
<1>2. entry_cache.size + args[t].count <= KmallocMax
  <2>1. CASE WriteKmalloc(t)
    <3>1. entry_cache.size = 0 /\ args[t].count \in 1 .. KmallocMax
      BY <2>1 DEF WriteKmalloc, HeapInv, Measured
    <3> QED BY <3>1, LimitsAssumption
  <2>2. CASE WriteKrealloc(t)
    BY <2>2 DEF WriteKrealloc
  <2> QED BY <2>1, <2>2
<1>3. \A u \in Tasks : pc'[u] = "w_copy" => u = t \/ pc[u] = "w_copy"
  BY <1>1 DEF TypeInv, CallType
<1> QED BY <1>1, <1>2, <1>3 DEF SizeInv

LEMMA SizeWrite ==
  ASSUME LockInv, TypeInv, HeapInv, SizeInv, NEW t \in Tasks,
         \/ WriteFault(t) \/ WritePiece(t) \/ WriteCommand(t) \/ WriteEvict(t) \/ WriteAccount(t)
  PROVE  SizeInv'
<1>1. PICK to \in {"w_unlock", "w_evict", "w_account"} : pc' = [pc EXCEPT ![t] = to]
  BY DEF WriteFault, WritePiece, WriteCommand, WriteEvict, WriteAccount, Goto
<1>2. pc[t] \in Busy
  BY DEF WriteFault, WritePiece, WriteCommand, WriteEvict, WriteAccount, Goto, Busy
<1>3. Solo(t)
  BY <1>2, SoloNow DEF Busy, Critical
<1>4. \A u \in Tasks : pc'[u] # "w_copy"
  BY <1>1, <1>3 DEF Solo, Busy, TypeInv, CallType
<1>5. CASE WriteFault(t) \/ WriteEvict(t)
  <2>1. UNCHANGED <<circular_buffer, entry_cache>>
    BY <1>5 DEF WriteFault, WriteEvict, dev
  <2> QED BY <1>4, <2>1 DEF SizeInv
<1>6. CASE WriteAccount(t)
  <2>1. UNCHANGED circular_buffer /\ entry_cache'.size = 0
    BY <1>6 DEF WriteAccount, EmptyEntry
  <2> QED BY <1>4, <2>1, LimitsAssumption DEF SizeInv
<1>7. CASE WritePiece(t) \/ WriteCommand(t)
  <2>1. /\ pc[t] = "w_copy" /\ entry_cache' = Copied(t)
        /\ circular_buffer' \in {circular_buffer,
                                  aesd_circular_buffer_add_entry(circular_buffer, Copied(t))}
    BY <1>7 DEF WritePiece, WriteCommand, Goto, CopyFromUser
  <2>2. Copied(t).size <= KmallocMax /\ Copied(t).buffptr # NULL
    BY <2>1, AboutToCopy DEF Copied, SizeInv
  <2>3. \A i \in Slots : circular_buffer'.entry[i] \in {circular_buffer.entry[i], Copied(t)}
    BY <2>1 DEF aesd_circular_buffer_add_entry, TypeInv, DevType
  <2>4. \A i \in Slots : /\ circular_buffer'.entry[i].size <= KmallocMax
                         /\ circular_buffer'.entry[i].buffptr = NULL
                            => circular_buffer'.entry[i].size = 0
    <3> TAKE i \in Slots
    <3>1. CASE circular_buffer'.entry[i] = circular_buffer.entry[i]
      BY <3>1 DEF SizeInv
    <3>2. CASE circular_buffer'.entry[i] = Copied(t)
      BY <2>2, <3>2
    <3> QED BY <2>3, <3>1, <3>2
  <2> QED BY <1>4, <2>1, <2>2, <2>4 DEF SizeInv
<1> QED BY <1>5, <1>6, <1>7

LEMMA SizeModule == ASSUME TypeInv, SizeInv, Module PROVE SizeInv'
<1>1. UNCHANGED <<pc, args>>
  BY DEF Module, aesd_init_module, aesd_cleanup_module, aesd_open, aesd_release
<1>2. CASE aesd_init_module
  <2>1. /\ entry_cache'.size = 0 /\ entry_cache.size \in Nat
        /\ \A i \in Slots : circular_buffer'.entry[i].size = 0
    BY <1>2 DEF aesd_init_module, aesd_circular_buffer_init, EmptyEntry, TypeInv, DevType, EntrySet
  <2>2. \A t \in Tasks : args[t].count \in Nat
    BY DEF TypeInv, CallType, ArgSet
  <2> QED BY <1>1, <2>1, <2>2, LimitsAssumption DEF SizeInv
<1>3. CASE aesd_cleanup_module \/ \E f \in Files : aesd_open(f) \/ aesd_release(f)
  BY <1>1, <1>3 DEF aesd_cleanup_module, aesd_open, aesd_release, dev, SizeInv
<1> QED BY <1>2, <1>3 DEF Module

LEMMA SizeNext == Orderly /\ LockInv /\ TypeInv /\ HeapInv /\ SizeInv /\ [Next]_vars => SizeInv'
<1> SUFFICES ASSUME Orderly, LockInv, TypeInv, HeapInv, SizeInv, [Next]_vars PROVE SizeInv'
  OBVIOUS
<1>1. CASE UNCHANGED vars
  BY <1>1 DEF vars, dev, SizeInv
<1>2. ASSUME NEW t \in Tasks, Interrupted(t) PROVE FALSE
  BY <1>2 DEF Interrupted, WriteInterrupted, IoctlInterrupted, LockInterrupted, Orderly
<1>3. ASSUME NEW t \in Tasks, Call(t) \/ Acquire(t) PROVE SizeInv'
  BY <1>3, CallIsQuiet, IdleStepIsQuiet, SizeQuiet
<1>4. ASSUME NEW t \in Tasks, Step(t) PROVE SizeInv'
  BY <1>4, IdleStepIsQuiet, SizeQuiet, SizeAlloc, SizeWrite DEF Step
<1> QED BY <1>1, <1>2, <1>3, <1>4, SizeModule DEF Next

(* How far reader t has come with the k-th remembered command. *)
Located(t, k) ==
  LET e == circular_buffer.entry[SlotAt(circular_buffer, k)]
  IN  /\ at[t].slot = SlotAt(circular_buffer, k) /\ at[t].offset < e.size
      /\ pos[t] = Totals(circular_buffer)[k - 1] + at[t].offset
      /\ pc[t] # "r_size" => todo[t] = Min({args[t].count, e.size - at[t].offset})
      /\ pc[t] = "r_copy" => ptr[t] = e.buffptr

ReadLabels == {"r_size", "r_load", "r_copy"}

(* A reader that no command has overtaken is where its lookup sent it. *)
ReadInv ==
  \A t \in Tasks : quiet[t] /\ pc[t] \in ReadLabels =>
                    \E k \in 1 .. Retained(circular_buffer) : Located(t, k)

(* What a step of task t leaves to the other tasks. *)
Undisturbed(u) ==
  /\ pc'[u] = pc[u] /\ args'[u] = args[u] /\ pos'[u] = pos[u] /\ ptr'[u] = ptr[u]
  /\ at'[u] = at[u] /\ todo'[u] = todo[u] /\ (quiet'[u] => quiet[u])

LEMMA ReadUndisturbed ==
  ASSUME ReadInv, UNCHANGED circular_buffer, NEW u \in Tasks, Undisturbed(u),
         quiet'[u], pc'[u] \in ReadLabels
  PROVE  \E k \in 1 .. Retained(circular_buffer') : Located(u, k)'
<1>1. quiet[u] /\ pc[u] \in ReadLabels
  BY Zenon DEF Undisturbed
<1>2. PICK k \in 1 .. Retained(circular_buffer) : Located(u, k)
  BY <1>1, Zenon DEF ReadInv
<1>3. Located(u, k)'
  BY <1>2 DEF Located, Undisturbed
<1> QED BY <1>3

LEMMA CallApart ==
  ASSUME TypeInv, FlagsInv, NEW t \in Tasks, Call(t) \/ Acquire(t), NEW u \in Tasks \ {t}
  PROVE  UNCHANGED circular_buffer /\ Undisturbed(u)
<1>1. UNCHANGED circular_buffer
  BY Zenon DEF Call, CallWrite, CallRead, aesd_llseek, CallIoctl, Acquire, WriteLock, IoctlLock,
               MutexLock, dev
<1>2. UNCHANGED <<quiet, ptr, at, todo>>
  BY Zenon DEF Call, CallWrite, CallRead, aesd_llseek, CallIoctl, Acquire, WriteLock, IoctlLock,
               MutexLock, locals
<1>3. DOMAIN pc = Tasks /\ DOMAIN args = Tasks /\ DOMAIN pos = Tasks
  BY DEF TypeInv, CallType, PosType
<1>4. pc'[u] = pc[u] /\ args'[u] = args[u]
  <2>1. CASE Acquire(t)
    BY <1>3, <2>1 DEF Acquire, WriteLock, IoctlLock, MutexLock, Goto
  <2>2. ASSUME NEW l, NEW a, Enter(t, l, a) PROVE pc'[u] = pc[u] /\ args'[u] = args[u]
    BY <1>3, <2>2 DEF Enter
  <2>3. CASE Call(t)
    BY <2>2, <2>3 DEF Call, CallWrite, CallRead, aesd_llseek, CallIoctl
  <2> QED BY <2>1, <2>2, <2>3
<1>5. pos'[u] = pos[u]
  <2>1. CASE Acquire(t)
    BY <2>1 DEF Acquire, WriteLock, IoctlLock, MutexLock, locals
  <2>2. CASE Call(t)
    <3>1. pos' = pos \/ \E p : pos' = [pos EXCEPT ![t] = p]
      BY <2>2 DEF Call, CallWrite, CallRead, aesd_llseek, CallIoctl, locals
    <3> QED BY <1>3, <3>1
  <2> QED BY <2>1, <2>2
<1> QED BY <1>1, <1>2, <1>4, <1>5, Zenon DEF Undisturbed

LEMMA StepApart ==
  ASSUME TypeInv, FlagsInv, NEW t \in Tasks, Step(t), ~ WriteCommand(t), NEW u \in Tasks \ {t}
  PROVE  UNCHANGED circular_buffer /\ Undisturbed(u)
<1> USE DEF Step, WriteReject, WriteKmalloc, WriteKrealloc, WriteFault, WritePiece, WriteEvict,
            WriteAccount, WriteUnlock, ReadFind, ReadSize, ReadLoad, ReadCopy, IoctlSeek,
            IoctlUnlock, StorePosition, dev, locals
<1>1. UNCHANGED circular_buffer
  BY Zenon
<1>2. \E to : pc' = [pc EXCEPT ![t] = to]
  BY Zenon DEF Goto, Leave
<1>3. args' = args \/ \E a : args' = [args EXCEPT ![t] = a]
  BY Zenon DEF Leave
<1>4. pos' = pos \/ \E p : pos' = [pos EXCEPT ![t] = p]
  BY Zenon DEF Leave
<1>5. ptr' = ptr \/ \E p : ptr' = [ptr EXCEPT ![t] = p]
  BY Zenon DEF Leave, CopyFromUser
<1>6. at' = at \/ \E r : at' = [at EXCEPT ![t] = r]
  BY Zenon DEF Leave
<1>7. todo' = todo \/ \E n : todo' = [todo EXCEPT ![t] = n]
  BY Zenon DEF Leave
<1>8. quiet' = quiet \/ \E q : quiet' = [quiet EXCEPT ![t] = q]
  BY Zenon DEF Leave
<1>9. quiet'[u] => quiet[u]
  BY <1>8, Zenon DEF FlagsInv
<1>10. /\ DOMAIN pc = Tasks /\ DOMAIN args = Tasks /\ DOMAIN pos = Tasks
       /\ DOMAIN ptr = Tasks /\ DOMAIN at = Tasks /\ DOMAIN todo = Tasks
  BY DEF TypeInv, CallType, PosType, MemoryType
<1>11. /\ pc'[u] = pc[u] /\ args'[u] = args[u] /\ pos'[u] = pos[u]
       /\ ptr'[u] = ptr[u] /\ at'[u] = at[u] /\ todo'[u] = todo[u]
  BY <1>2, <1>3, <1>4, <1>5, <1>6, <1>7, <1>10
<1> QED BY <1>1, <1>9, <1>11, Zenon DEF Undisturbed

(* No entry outgrows the lookup's 16-bit offset. *)
LEMMA AllShort ==
  ASSUME TypeInv, SizeInv, KmallocMax <= 2^16 PROVE Short(circular_buffer)
<1> DEFINE width == 2^16
<1>1. Sized(circular_buffer)
  BY DevSized DEF TypeInv
<1>2. width \in Nat /\ KmallocMax <= width
  OBVIOUS
<1> HIDE DEF width
<1>3. \A i \in Slots : circular_buffer.entry[i].size <= KmallocMax
  BY DEF SizeInv
<1>4. \A i \in Slots : circular_buffer.entry[i].size <= width
  BY <1>1, <1>2, <1>3, LimitsAssumption DEF Sized
<1> QED BY <1>4 DEF Short, width

(* The lookup takes a reader to the entry that holds its position. *)
LEMMA FindLocates ==
  ASSUME TypeInv, SizeInv, KmallocMax <= 2^16, NEW t \in Tasks, ReadFind(t),
         pc'[t] \in ReadLabels
  PROVE  \E k \in 1 .. Retained(circular_buffer') : Located(t, k)'
<1> DEFINE r == aesd_circular_buffer_find_entry_offset_for_fpos(circular_buffer, pos[t])
           total == Totals(circular_buffer)
           n == Retained(circular_buffer)
           Size(k) == circular_buffer.entry[SlotAt(circular_buffer, k)].size
<1>1. /\ pc[t] = "r_find" /\ pc' = [pc EXCEPT ![t] = IF r = NotFound THEN "vfs" ELSE "r_size"]
      /\ at' = [at EXCEPT ![t] = r] /\ UNCHANGED <<circular_buffer, pos>>
  BY DEF ReadFind, Goto, dev
<1>2. pos[t] \in Nat
  BY <1>1 DEF TypeInv, PosType
<1>3. Ring(circular_buffer) /\ Sized(circular_buffer)
  BY DevSized DEF TypeInv, DevType
<1>4. Short(circular_buffer)
  BY AllShort
<1>5. DOMAIN pc = Tasks /\ DOMAIN at = Tasks
  BY DEF TypeInv, CallType
<1> HIDE DEF r
<1>6. r # NotFound /\ pc'[t] = "r_size" /\ at'[t] = r
  BY <1>1, <1>5 DEF ReadLabels
<1>7. PICK k \in 1 .. n :
        /\ total[k - 1] <= pos[t] /\ pos[t] - total[k - 1] < Size(k)
        /\ r = [slot |-> SlotAt(circular_buffer, k), offset |-> pos[t] - total[k - 1]]
  BY <1>2, <1>3, <1>4, <1>6, FindShort DEF r
<1>8. k - 1 \in 0 .. Capacity
  BY <1>3, RingSlots
<1>9. total[k - 1] \in Nat
  BY <1>3, <1>8, TotalsSum
<1>10. pos[t] = total[k - 1] + (pos[t] - total[k - 1])
  BY <1>2, <1>9
<1>11. Located(t, k)'
  BY <1>1, <1>6, <1>7, <1>10 DEF Located
<1> QED BY <1>1, <1>11

(* count is clipped to what the entry has left. *)
LEMMA SizeLocates ==
  ASSUME TypeInv, NEW t \in Tasks, ReadSize(t), NEW k \in 1 .. Retained(circular_buffer),
         Located(t, k)
  PROVE  Located(t, k)'
<1> DEFINE e == circular_buffer.entry[SlotAt(circular_buffer, k)]
           left == e.size - at[t].offset
           count == args[t].count
<1>1. /\ pc[t] = "r_size" /\ pc' = [pc EXCEPT ![t] = "r_load"]
      /\ todo' = [todo EXCEPT ![t] =
           IF circular_buffer.entry[at[t].slot].size - at[t].offset \in 0 .. args[t].count
           THEN circular_buffer.entry[at[t].slot].size - at[t].offset ELSE args[t].count]
      /\ UNCHANGED <<circular_buffer, at, pos, args>>
  BY DEF ReadSize, Goto, dev
<1>2. at[t].slot = SlotAt(circular_buffer, k) /\ at[t].offset < e.size
  BY DEF Located
<1>3. Ring(circular_buffer) /\ Sized(circular_buffer)
  BY DevSized DEF TypeInv, DevType
<1>4. SlotAt(circular_buffer, k) \in Slots
  BY <1>3, RingSlots
<1>5. /\ left \in Nat /\ count \in Nat /\ DOMAIN pc = Tasks /\ DOMAIN todo = Tasks
  BY <1>2, <1>3, <1>4 DEF Sized, TypeInv, CallType, ArgSet, AtSet
<1>6. todo'[t] = IF left \in 0 .. count THEN left ELSE count
  BY <1>1, <1>2, <1>5
<1> HIDE DEF left, count
<1>7. Min({count, left}) \in {count, left} /\ Min({count, left}) <= count /\ Min({count, left}) <= left
  <2>1. {count, left} \in SUBSET Nat /\ {count, left} # {}
    BY <1>5
  <2> QED BY <2>1, MinIn
<1>8. todo'[t] = Min({count, left})
  BY <1>5, <1>6, <1>7
<1>9. pc'[t] = "r_load"
  BY <1>1, <1>5
<1> QED BY <1>1, <1>8, <1>9 DEF Located, left, count

(* The pointer is the entry's. *)
LEMMA LoadLocates ==
  ASSUME TypeInv, NEW t \in Tasks, ReadLoad(t), NEW k \in 1 .. Retained(circular_buffer),
         Located(t, k)
  PROVE  Located(t, k)'
<1>1. /\ pc[t] = "r_load" /\ pc' = [pc EXCEPT ![t] = "r_copy"]
      /\ ptr' = [ptr EXCEPT ![t] = circular_buffer.entry[at[t].slot].buffptr]
      /\ UNCHANGED <<circular_buffer, at, pos, args, todo>>
  BY DEF ReadLoad, Goto, dev
<1>2. DOMAIN pc = Tasks /\ DOMAIN ptr = Tasks
  BY DEF TypeInv, CallType, MemoryType
<1>3. pc'[t] = "r_copy" /\ ptr'[t] = circular_buffer.entry[at[t].slot].buffptr
  BY <1>1, <1>2
<1> QED BY <1>1, <1>3 DEF Located

(* A task of its own is a reader only by the three steps above. *)
LEMMA ReadOwn ==
  ASSUME TypeInv, FlagsInv, SizeInv, KmallocMax <= 2^16, ReadInv, NEW t \in Tasks,
         Call(t) \/ Acquire(t) \/ Step(t), quiet'[t], pc'[t] \in ReadLabels
  PROVE  \E k \in 1 .. Retained(circular_buffer') : Located(t, k)'
<1>1. DOMAIN pc = Tasks
  BY DEF TypeInv, CallType
<1>2. ReadFind(t) \/ ReadSize(t) \/ ReadLoad(t)
  <2>1. CASE Acquire(t)
    BY <1>1, <2>1 DEF Acquire, WriteLock, IoctlLock, MutexLock, Goto, ReadLabels
  <2>2. CASE Call(t)
    <3>1. PICK l \in {"w_lock", "r_find", "vfs", "i_lock"} : pc' = [pc EXCEPT ![t] = l]
      BY <2>2 DEF Call, CallWrite, CallRead, aesd_llseek, CallIoctl, Enter
    <3> QED BY <1>1, <3>1 DEF ReadLabels
  <2>3. CASE Step(t)
    <3>1. \/ ReadFind(t) \/ ReadSize(t) \/ ReadLoad(t)
          \/ \E to \in {"w_unlock", "w_copy", "w_evict", "w_account", "vfs", "i_unlock", "idle"} :
               pc' = [pc EXCEPT ![t] = to]
      BY <2>3 DEF Step, WriteReject, WriteKmalloc, WriteKrealloc, WriteFault, WritePiece,
                  WriteCommand, WriteEvict, WriteAccount, WriteUnlock, ReadCopy, IoctlSeek,
                  IoctlUnlock, StorePosition, Goto, Leave
    <3> QED BY <1>1, <3>1 DEF ReadLabels
  <2> QED BY <2>1, <2>2, <2>3
<1>3. CASE ReadFind(t)
  BY <1>3, FindLocates
<1>4. CASE ReadSize(t) \/ ReadLoad(t)
  <2>1. quiet' = quiet /\ circular_buffer' = circular_buffer
    BY <1>4, Zenon DEF ReadSize, ReadLoad, dev
  <2>2. pc[t] \in ReadLabels
    BY <1>4 DEF ReadSize, ReadLoad, Goto, ReadLabels
  <2>3. quiet[t]
    BY <2>1, Zenon
  <2>4. PICK k \in 1 .. Retained(circular_buffer) : Located(t, k)
    BY <2>2, <2>3, Zenon DEF ReadInv
  <2>5. Located(t, k)'
    BY <1>4, <2>4, SizeLocates, LoadLocates
  <2> QED BY <2>1, <2>5
<1> QED BY <1>2, <1>3, <1>4

LEMMA ReadNext ==
  ASSUME Orderly, KmallocMax <= 2^16, LockInv, TypeInv, FlagsInv, SizeInv, ReadInv, [Next]_vars
  PROVE  ReadInv'
<1> SUFFICES ASSUME NEW u \in Tasks, quiet'[u], pc'[u] \in ReadLabels
             PROVE  \E k \in 1 .. Retained(circular_buffer') : Located(u, k)'
  BY Zenon DEF ReadInv
<1>1. CASE UNCHANGED vars
  <2>1. UNCHANGED <<circular_buffer, pc, args, pos, ptr, at, todo, quiet>>
    BY <1>1, Zenon DEF vars, dev, locals
  <2>2. Undisturbed(u)
    BY <2>1, Zenon DEF Undisturbed
  <2> QED BY <2>1, <2>2, ReadUndisturbed
<1>2. ASSUME NEW t \in Tasks, Call(t) \/ Acquire(t) \/ Step(t), ~ WriteCommand(t)
      PROVE  \E k \in 1 .. Retained(circular_buffer') : Located(u, k)'
  <2>1. CASE u = t
    BY <1>2, <2>1, ReadOwn
  <2>2. CASE u # t
    <3>1. UNCHANGED circular_buffer /\ Undisturbed(u)
      BY <1>2, <2>2, CallApart, StepApart
    <3> QED BY <3>1, ReadUndisturbed
  <2> QED BY <2>1, <2>2
<1>3. ASSUME NEW t \in Tasks, WriteCommand(t) PROVE FALSE
  <2>1. quiet' = [x \in Tasks |-> FALSE]
    BY <1>3, Zenon DEF WriteCommand
  <2>2. ~ quiet'[u]
    BY <2>1, Zenon
  <2> QED BY <2>2, Zenon
<1>4. ASSUME NEW t \in Tasks, Interrupted(t) PROVE FALSE
  BY <1>4 DEF Interrupted, WriteInterrupted, IoctlInterrupted, LockInterrupted, Orderly
<1>5. CASE Module
  <2>1. UNCHANGED <<pc, args, pos, ptr, at, todo, quiet>>
    BY <1>5, Zenon DEF Module, aesd_init_module, aesd_cleanup_module, aesd_open, aesd_release,
                       locals
  <2>2. CASE aesd_init_module
    BY <2>1, <2>2 DEF aesd_init_module, LockInv, InUse, ReadLabels
  <2>3. CASE aesd_cleanup_module \/ \E f \in Files : aesd_open(f) \/ aesd_release(f)
    <3>1. UNCHANGED circular_buffer
      BY <2>3, Zenon DEF aesd_cleanup_module, aesd_open, aesd_release, dev
    <3>2. Undisturbed(u)
      BY <2>1, Zenon DEF Undisturbed
    <3> QED BY <3>1, <3>2, ReadUndisturbed
  <2> QED BY <1>5, <2>2, <2>3 DEF Module
<1> QED BY <1>1, <1>2, <1>3, <1>4, <1>5 DEF Next

LEMMA LocatedIsExact ==
  ASSUME LockInv, TypeInv, HeapInv, NEW t \in Tasks, pc[t] = "r_copy",
         NEW k \in 1 .. Retained(circular_buffer), Located(t, k)
  PROVE  LET e == circular_buffer.entry[SlotAt(circular_buffer, k)]
         IN  /\ ptr[t] = e.buffptr /\ heap[ptr[t]] # NULL
             /\ pos[t] = RetainedBytes(k - 1) + at[t].offset /\ at[t].offset < e.size
             /\ todo[t] = Min({args[t].count, e.size - at[t].offset})
<1> DEFINE e == circular_buffer.entry[SlotAt(circular_buffer, k)]
<1>1. loaded
  BY DEF LockInv, InUse
<1>2. Ring(circular_buffer) /\ Sized(circular_buffer) /\ Retained(circular_buffer) \in 0 .. Capacity
  BY DevSized, RingSlots DEF TypeInv, DevType
<1>3. RetainedBytes(k - 1) = Totals(circular_buffer)[k - 1]
  <2>1. k - 1 \in 0 .. Capacity
    BY <1>2
  <2> QED BY <1>2, <2>1, RoundsSum DEF RetainedBytes
<1>4. e.buffptr \in Blocks /\ heap[e.buffptr] # NULL
  <2>1. e.buffptr \in Blocks /\ InSlot(e.buffptr)
    BY <1>1, BarShape
  <2> QED BY <1>1, <2>1 DEF HeapInv, Owned
<1> QED BY <1>3, <1>4 DEF Located

(* For any number of tasks, a read that no completed command overtakes     *)
(* copies the bytes at its file position, from allocated memory, up to the *)
(* end of their command, as long as no command outgrows the lookup's       *)
(* 16-bit offset (aesd_read).                                              *)
THEOREM ReadAlwaysExact == Orderly /\ KmallocMax <= 2^16 => (Spec => []ReadExact)
<1> SUFFICES ASSUME Orderly, KmallocMax <= 2^16 PROVE Spec => []ReadExact
  OBVIOUS
<1>1. Init => SizeInv /\ ReadInv /\ FlagsInv
  <2> SUFFICES ASSUME Init PROVE SizeInv /\ ReadInv /\ FlagsInv
    OBVIOUS
  <2>1. SizeInv
    BY SizeInit
  <2>2. ReadInv
    BY DEF Init, ReadInv, ReadLabels
  <2>3. FlagsInv
    BY Zenon DEF Init, FlagsInv
  <2> QED BY <2>1, <2>2, <2>3
<1>2. LockInv /\ TypeInv /\ HeapInv /\ SizeInv /\ [Next]_vars => SizeInv'
  BY SizeNext
<1>3. LockInv /\ TypeInv /\ FlagsInv /\ SizeInv /\ ReadInv /\ [Next]_vars => ReadInv'
  BY ReadNext
<1>4. LockInv /\ TypeInv /\ HeapInv /\ ReadInv => ReadExact
  <2> SUFFICES ASSUME LockInv, TypeInv, HeapInv, ReadInv, NEW t \in Tasks, pc[t] = "r_copy", quiet[t]
               PROVE  \E k \in 1 .. Retained(circular_buffer) :
                        LET e == circular_buffer.entry[SlotAt(circular_buffer, k)]
                        IN  /\ ptr[t] = e.buffptr /\ heap[ptr[t]] # NULL
                            /\ pos[t] = RetainedBytes(k - 1) + at[t].offset /\ at[t].offset < e.size
                            /\ todo[t] = Min({args[t].count, e.size - at[t].offset})
    BY Zenon DEF ReadExact
  <2>1. pc[t] \in ReadLabels
    BY DEF ReadLabels
  <2>2. PICK k \in 1 .. Retained(circular_buffer) : Located(t, k)
    BY <2>1, Zenon DEF ReadInv
  <2> QED BY <2>2, LocatedIsExact, Zenon
<1>5. Spec => [](LockInv /\ TypeInv /\ HeapInv)
  BY HeapInvariant
<1> QED BY <1>1, <1>2, <1>3, <1>4, <1>5, FlagsNext, PTL DEF Spec

(* Until the buffer wraps, slot cmd is round cmd + 1 of the lookup. *)
LEMMA SlotStartValue ==
  ASSUME TypeInv, circular_buffer.out_offs = 0, NEW cmd \in Slots
  PROVE  /\ SlotAt(circular_buffer, cmd + 1) = cmd
         /\ SlotStart(cmd) = Totals(circular_buffer)[cmd]
<1>1. Ring(circular_buffer) /\ Sized(circular_buffer)
  BY DevSized DEF TypeInv, DevType
<1>2. \A j \in 1 .. Capacity : SlotAt(circular_buffer, j) = j - 1
  BY <1>1, RingSlots
<1>3. cmd \in 0 .. Capacity /\ cmd + 1 \in 1 .. Capacity
  BY DEF Slots
<1>4. Visited(circular_buffer, cmd) = 0 .. cmd - 1
  <2>1. ASSUME NEW i \in 0 .. cmd - 1 PROVE i \in Visited(circular_buffer, cmd)
    <3>1. i + 1 \in 1 .. cmd /\ SlotAt(circular_buffer, i + 1) = i
      BY <1>2, <1>3
    <3> QED BY <3>1 DEF Visited
  <2>2. Visited(circular_buffer, cmd) \subseteq 0 .. cmd - 1
    BY <1>2, <1>3 DEF Visited
  <2> QED BY <2>1, <2>2
<1>5. Totals(circular_buffer)[cmd]
        = SumFunctionOnSet([i \in Slots |-> circular_buffer.entry[i].size],
                           Visited(circular_buffer, cmd))
  BY <1>1, <1>3, TotalsSum
<1> QED BY <1>2, <1>3, <1>4, <1>5 DEF SlotStart

(* A slot that holds bytes is remembered. *)
LEMMA NonEmptyRetained ==
  ASSUME TypeInv, HeapInv, SizeInv, circular_buffer.out_offs = 0, NEW cmd \in Slots,
         circular_buffer.entry[cmd].size > 0
  PROVE  cmd + 1 \in 1 .. Retained(circular_buffer)
<1>1. Ring(circular_buffer) /\ Filled(circular_buffer)
  BY DEF TypeInv, DevType, HeapInv
<1>2. circular_buffer.entry[cmd].buffptr # NULL
  BY DEF SizeInv
<1>3. CASE circular_buffer.full
  <2>1. Retained(circular_buffer) = Capacity
    BY <1>1, <1>3, RingSlots
  <2> QED BY <2>1 DEF Slots
<1>4. CASE ~ circular_buffer.full
  <2>1. cmd < circular_buffer.in_offs /\ circular_buffer.in_offs \in Slots
    BY <1>1, <1>2, <1>4 DEF Filled, Ring
  <2>2. Retained(circular_buffer) = circular_buffer.in_offs
    BY <1>1, <1>4, <2>1, RetainedValue DEF Ring, Slots
  <2> QED BY <2>1, <2>2 DEF Slots
<1> QED BY <1>3, <1>4

(* Until the buffer wraps, an accepted AESDCHAR_IOCSEEKTO to a byte inside *)
(* a command moves the file to where the lookup of aesd_read finds that    *)
(* byte of that command, for any number of slots                           *)
(* (aesd_adjust_file_offset).                                              *)
THEOREM SeekAlwaysExact == Orderly /\ KmallocMax <= 2^16 => (Spec => SeekExact)
<1> SUFFICES ASSUME Orderly, KmallocMax <= 2^16 PROVE Spec => SeekExact
  OBVIOUS
<1> DEFINE Exact(t) ==
             LET a == args[t]
             IN  /\ IoctlSeek(t) /\ circular_buffer.out_offs = 0
                 /\ SeekValid(a.cmd, a.offset) /\ a.offset < circular_buffer.entry[a.cmd].size
                 => aesd_circular_buffer_find_entry_offset_for_fpos(circular_buffer,
                                                                    f_pos'[a.filp])
                      = [slot |-> a.cmd, offset |-> a.offset]
<1>1. ASSUME LockInv, TypeInv, HeapInv, SizeInv, NEW t \in Tasks PROVE Exact(t)
  <2> DEFINE cmd == args[t].cmd
             offset == args[t].offset
             filp == args[t].filp
             total == Totals(circular_buffer)
  <2> SUFFICES ASSUME IoctlSeek(t), circular_buffer.out_offs = 0, SeekValid(cmd, offset),
                      offset < circular_buffer.entry[cmd].size
               PROVE  aesd_circular_buffer_find_entry_offset_for_fpos(circular_buffer, f_pos'[filp])
                        = [slot |-> cmd, offset |-> offset]
    OBVIOUS
  <2>1. pc[t] = "i_seek" /\ f_pos' = [f_pos EXCEPT ![filp] = SlotStart(cmd) + offset]
    BY DEF IoctlSeek, Goto
  <2>2. filp \in Files /\ DOMAIN f_pos = Files /\ offset \in Nat /\ cmd \in Slots
    <3>1. filp \in open /\ open \subseteq Files
      BY <1>1, <2>1 DEF LockInv, InUse, TypeInv, CallType
    <3>2. offset \in Nat
      BY <1>1 DEF TypeInv, CallType, ArgSet
    <3> QED BY <1>1, <3>1, <3>2 DEF TypeInv, PosType, SeekValid
  <2>3. Ring(circular_buffer) /\ Sized(circular_buffer) /\ Short(circular_buffer)
    BY <1>1, DevSized, AllShort DEF TypeInv, DevType
  <2>4. f_pos'[filp] = SlotStart(cmd) + offset
    BY <2>1, <2>2
  <2> HIDE DEF cmd, offset, filp
  <2>5. cmd + 1 \in 1 .. Retained(circular_buffer)
    <3>1. circular_buffer.entry[cmd].size > 0
      BY <2>2, <2>3 DEF Sized
    <3> QED BY <1>1, <2>2, <3>1, NonEmptyRetained
  <2>6. SlotAt(circular_buffer, cmd + 1) = cmd /\ SlotStart(cmd) = total[cmd]
    BY <1>1, <2>2, SlotStartValue
  <2>7. aesd_circular_buffer_find_entry_offset_for_fpos(circular_buffer, total[cmd] + offset)
          = [slot |-> cmd, offset |-> offset]
    <3> DEFINE k == cmd + 1
    <3>1. /\ k \in 1 .. Retained(circular_buffer) /\ k - 1 = cmd
          /\ SlotAt(circular_buffer, k) = cmd
      <4>1. k \in 1 .. Retained(circular_buffer)
        BY <2>5
      <4>2. k - 1 = cmd
        BY <2>2 DEF Slots
      <4>3. SlotAt(circular_buffer, k) = cmd
        BY <2>6
      <4> QED BY <4>1, <4>2, <4>3
    <3> HIDE DEF k
    <3>2. aesd_circular_buffer_find_entry_offset_for_fpos(circular_buffer, total[k - 1] + offset)
            = [slot |-> SlotAt(circular_buffer, k), offset |-> offset]
      BY <2>2, <2>3, <3>1, FindAt
    <3> QED BY <3>1, <3>2
  <2> QED BY <2>4, <2>6, <2>7
<1>2. LockInv /\ TypeInv /\ HeapInv /\ SizeInv => [\A t \in Tasks : Exact(t)]_vars
  BY <1>1
<1>3. LockInv /\ TypeInv /\ HeapInv /\ SizeInv /\ [Next]_vars => SizeInv'
  BY SizeNext
<1>4. Spec => [](LockInv /\ TypeInv /\ HeapInv)
  BY HeapInvariant
<1> QED BY <1>2, <1>3, <1>4, SizeInit, PTL DEF Spec, SeekExact

---------------------------------------------------------------------------
(* What buffer_size says. *)

Finishing == At({"w_evict", "w_account"})
Oldest == circular_buffer.entry[circular_buffer.out_offs].size
Stored == Totals(circular_buffer)[Retained(circular_buffer)]

(* From the first command on, Drift is that command's size, which the      *)
(* first eviction's wrong subtraction leaves behind for good.  While a     *)
(* command is being accounted for it is the newest, and what it evicted    *)
(* came from a full buffer.                                                *)
AccountInv ==
  LET n == Retained(circular_buffer)
  IN  /\ n = 0 => buffer_size = 0
      /\ n = 1 => Drift = Oldest
      /\ n >= 1 => Drift >= 0
      /\ Finishing => /\ n >= 1
                      /\ entry_cache.size
                           = circular_buffer.entry[SlotAt(circular_buffer, n)].size
      /\ EvictedBlocks # {} => circular_buffer.full /\ Finishing

LEMMA DriftValue ==
  ASSUME TypeInv, HeapInv
  PROVE  /\ Drift = buffer_size + (IF Finishing THEN entry_cache.size ELSE 0)
                      - (IF EvictedBlocks # {} THEN Oldest ELSE 0) + Oldest - Stored
         /\ Oldest \in Nat /\ Stored \in Nat /\ entry_cache.size \in Nat /\ buffer_size \in Int
<1>1. Ring(circular_buffer) /\ Sized(circular_buffer) /\ Filled(circular_buffer)
  BY DevSized DEF TypeInv, DevType, HeapInv
<1>2. aesd_circular_buffer_size(circular_buffer) = Stored
  BY <1>1, SizeCorrect DEF Stored
<1>3. Stored \in Nat
  <2>1. Retained(circular_buffer) \in 0 .. Capacity
    BY <1>1, RingSlots
  <2> QED BY <1>1, <2>1, TotalsSum DEF Stored
<1>4. Oldest \in Nat /\ entry_cache.size \in Nat /\ buffer_size \in Int
  BY <1>1 DEF Oldest, Ring, Sized, TypeInv, DevType, EntrySet
<1> QED BY <1>2, <1>3, <1>4 DEF Drift, SettledSize, Oldest, Finishing

LEMMA DriftValueNext ==
  ASSUME TypeInv', HeapInv'
  PROVE  /\ Drift' = buffer_size' + (IF Finishing' THEN entry_cache'.size ELSE 0)
                      - (IF EvictedBlocks' # {} THEN Oldest' ELSE 0) + Oldest' - Stored'
         /\ Oldest' \in Nat /\ Stored' \in Nat /\ entry_cache'.size \in Nat /\ buffer_size' \in Int
<1>1. Ring(circular_buffer') /\ Sized(circular_buffer') /\ Filled(circular_buffer')
  BY DEF TypeInv, DevType, HeapInv, EntrySet, Sized, Ring, Filled
<1>2. aesd_circular_buffer_size(circular_buffer') = Stored'
  BY <1>1, SizeCorrect DEF Stored
<1>3. Stored' \in Nat
  <2>1. Retained(circular_buffer') \in 0 .. Capacity
    BY <1>1, RingSlots
  <2> QED BY <1>1, <2>1, TotalsSum DEF Stored
<1>4. Oldest' \in Nat /\ entry_cache'.size \in Nat /\ buffer_size' \in Int
  BY <1>1 DEF Oldest, Ring, Sized, TypeInv, DevType, EntrySet
<1> QED BY <1>2, <1>3, <1>4 DEF Drift, SettledSize, Oldest, Finishing

LEMMA SoloFinishing ==
  ASSUME NEW t \in Tasks, Solo(t)
  PROVE  /\ Finishing <=> pc[t] \in {"w_evict", "w_account"}
         /\ EvictedBlocks # {} <=> free_buffer[t] # NULL
  BY DEF Solo, Finishing, At, EvictedBlocks, Busy

LEMMA SoloFinishingNext ==
  ASSUME NEW t \in Tasks, Solo(t)'
  PROVE  /\ Finishing' <=> pc'[t] \in {"w_evict", "w_account"}
         /\ EvictedBlocks' # {} <=> free_buffer'[t] # NULL
  BY DEF Solo, Finishing, At, EvictedBlocks, Busy

LEMMA AccountSame ==
  ASSUME AccountInv, UNCHANGED <<circular_buffer, buffer_size>>, Finishing' <=> Finishing,
         EvictedBlocks' # {} <=> EvictedBlocks # {}, Finishing => entry_cache' = entry_cache
  PROVE  AccountInv' /\ Drift' = Drift
<1>1. Drift' = Drift
  BY DEF Drift, SettledSize, Finishing
<1> QED BY <1>1 DEF AccountInv, Oldest

(* Steps that are not a writer's, and the writer's up to the copy. *)
LEMMA AccountQuiet ==
  ASSUME TypeInv, HeapInv, AccountInv, NEW t \in Tasks, NEW to, Quiet(t, to)
  PROVE  AccountInv' /\ Drift' = Drift
<1>1. UNCHANGED <<circular_buffer, buffer_size, entry_cache>>
  BY DEF Quiet, dev
<1>2. \A u \in Tasks : pc'[u] # pc[u] => pc[u] \notin Busy /\ pc'[u] \notin Busy
  BY DEF Quiet, TypeInv, CallType
<1>3. Finishing' <=> Finishing
  BY <1>2 DEF Finishing, At, Busy
<1>4. \A u \in Tasks : free_buffer'[u] = free_buffer[u]
  BY DEF Quiet, HeapInv, Writing, Busy
<1>5. EvictedBlocks' # {} <=> EvictedBlocks # {}
  BY <1>4 DEF EvictedBlocks
<1> QED BY <1>1, <1>3, <1>5, AccountSame

LEMMA AccountBeforeCopy ==
  ASSUME LockInv, TypeInv, HeapInv, AccountInv, NEW t \in Tasks,
         WriteKmalloc(t) \/ WriteKrealloc(t) \/ WriteFault(t) \/ WritePiece(t)
  PROVE  AccountInv' /\ Drift' = Drift
<1>1. /\ UNCHANGED <<circular_buffer, buffer_size, free_buffer>> /\ pc[t] \in {"w_alloc", "w_copy"}
      /\ \E to \in {"w_copy", "w_unlock"} : pc' = [pc EXCEPT ![t] = to]
  BY DEF WriteKmalloc, WriteKrealloc, WriteFault, WritePiece, Goto, dev
<1>2. Solo(t)
  BY <1>1, SoloNow DEF Critical
<1>3. Solo(t)' /\ pc'[t] \in {"w_copy", "w_unlock"}
  BY <1>1, <1>2, SoloStep
<1>4. ~ Finishing /\ ~ Finishing'
  BY <1>1, <1>2, <1>3, SoloFinishing, SoloFinishingNext
<1>5. EvictedBlocks' = EvictedBlocks
  BY <1>1 DEF EvictedBlocks
<1> QED BY <1>1, <1>4, <1>5, AccountSame

(* The size subtracted is that of the slot in_offs has moved on to: the    *)
(* next one to go, and not the one that went.                              *)
LEMMA AccountEvict ==
  ASSUME LockInv, TypeInv, HeapInv, TypeInv', HeapInv', AccountInv, NEW t \in Tasks, WriteEvict(t)
  PROVE  AccountInv' /\ Drift' = Drift
<1>1. /\ pc[t] = "w_evict" /\ pc' = [pc EXCEPT ![t] = "w_account"]
      /\ UNCHANGED <<circular_buffer, entry_cache>>
      /\ free_buffer' = [free_buffer EXCEPT ![t] = NULL]
      /\ buffer_size' = IF free_buffer[t] = NULL THEN buffer_size
                        ELSE buffer_size - circular_buffer.entry[circular_buffer.in_offs].size
  BY DEF WriteEvict, Goto
<1>2. Solo(t)
  BY <1>1, SoloNow DEF Critical
<1>3. free_buffer'[t] = NULL /\ \A u \in Tasks \ {t} : free_buffer'[u] = free_buffer[u]
  BY <1>1 DEF TypeInv, MemoryType
<1>4. Solo(t)' /\ pc'[t] = "w_account"
  BY <1>1, <1>2, <1>3, SoloStep
<1>5. Finishing /\ Finishing' /\ EvictedBlocks' = {} /\ (EvictedBlocks # {} <=> free_buffer[t] # NULL)
  BY <1>1, <1>2, <1>3, <1>4, SoloFinishing, SoloFinishingNext
<1>6. free_buffer[t] # NULL =>
        circular_buffer.entry[circular_buffer.in_offs].size = Oldest
  <2>1. free_buffer[t] # NULL => circular_buffer.full
    BY <1>5 DEF AccountInv
  <2> QED BY <2>1 DEF Oldest, TypeInv, DevType, Ring
<1>7. Oldest' = Oldest /\ Stored' = Stored /\ Retained(circular_buffer') = Retained(circular_buffer)
  BY <1>1 DEF Oldest, Stored
<1>8. Drift' = Drift
  BY <1>1, <1>5, <1>6, <1>7, DriftValue, DriftValueNext
<1>9. Retained(circular_buffer) >= 1
  BY <1>5 DEF AccountInv
<1>10. Retained(circular_buffer) # 0
  BY <1>9
<1> QED BY <1>1, <1>5, <1>7, <1>8, <1>9, <1>10 DEF AccountInv

LEMMA AccountAccount ==
  ASSUME LockInv, TypeInv, HeapInv, TypeInv', HeapInv', AccountInv, NEW t \in Tasks, WriteAccount(t)
  PROVE  AccountInv' /\ Drift' = Drift
<1>1. /\ pc[t] = "w_account" /\ pc' = [pc EXCEPT ![t] = "w_unlock"]
      /\ UNCHANGED <<circular_buffer, free_buffer>>
      /\ buffer_size' = buffer_size + entry_cache.size
  BY DEF WriteAccount, Goto
<1>2. Solo(t)
  BY <1>1, SoloNow DEF Critical
<1>3. Solo(t)' /\ pc'[t] = "w_unlock" /\ free_buffer[t] = NULL
  BY <1>1, <1>2, SoloStep DEF HeapInv, Writing
<1>4. Finishing /\ ~ Finishing' /\ EvictedBlocks' = {} /\ EvictedBlocks = {}
  BY <1>1, <1>2, <1>3, SoloFinishing, SoloFinishingNext
<1>5. Oldest' = Oldest /\ Stored' = Stored /\ Retained(circular_buffer') = Retained(circular_buffer)
  BY <1>1 DEF Oldest, Stored
<1>6. Drift' = Drift
  BY <1>1, <1>4, <1>5, DriftValue, DriftValueNext
<1>7. Retained(circular_buffer) >= 1
  BY <1>4 DEF AccountInv
<1>8. Retained(circular_buffer) # 0
  BY <1>7
<1> QED BY <1>1, <1>4, <1>5, <1>6, <1>7, <1>8 DEF AccountInv

(* A command enters the buffer before buffer_size hears of it. *)
LEMMA AccountCommand ==
  ASSUME Capacity > 1, LockInv, TypeInv, HeapInv, TypeInv', HeapInv', AccountInv, NEW t \in Tasks,
         WriteCommand(t)
  PROVE  AccountInv' /\ (Retained(circular_buffer) >= 1 => Drift' = Drift)
<1> DEFINE n == Retained(circular_buffer)
           new == Copied(t)
           in == circular_buffer.in_offs
<1>1. /\ pc[t] = "w_copy" /\ pc' = [pc EXCEPT ![t] = "w_evict"] /\ CopyFromUser(t)
      /\ circular_buffer' = aesd_circular_buffer_add_entry(circular_buffer, new)
      /\ free_buffer' = [free_buffer EXCEPT ![t] = pointer_to_free(circular_buffer)]
      /\ UNCHANGED buffer_size
  BY DEF WriteCommand, Goto
<1>2. Solo(t) /\ free_buffer[t] = NULL
  BY <1>1, AboutToCopy
<1>3. /\ free_buffer'[t] = pointer_to_free(circular_buffer)
      /\ \A u \in Tasks \ {t} : free_buffer'[u] = free_buffer[u]
  BY <1>1 DEF TypeInv, MemoryType
<1>4. Solo(t)' /\ pc'[t] = "w_evict"
  BY <1>1, <1>2, <1>3, SoloStep
<1>5. /\ ~ Finishing /\ Finishing' /\ EvictedBlocks = {}
      /\ EvictedBlocks' # {} <=> pointer_to_free(circular_buffer) # NULL
  BY <1>1, <1>2, <1>3, <1>4, SoloFinishing, SoloFinishingNext
<1>6. entry_cache' = new /\ new.size \in Nat
  <2>1. entry_cache' = new
    BY <1>1 DEF CopyFromUser
  <2> QED BY <2>1 DEF TypeInv, DevType, EntrySet
<1>7. /\ Ring(circular_buffer) /\ Sized(circular_buffer) /\ Filled(circular_buffer)
      /\ DOMAIN circular_buffer.entry = Slots /\ in \in Slots
  BY DevSized DEF TypeInv, DevType, HeapInv, Ring
<1>8. circular_buffer'.entry = [circular_buffer.entry EXCEPT ![in] = new]
  BY <1>1 DEF aesd_circular_buffer_add_entry
<1>9. circular_buffer'.entry[in] = new
  BY <1>7, <1>8
<1> HIDE DEF new
<1>10. CASE ~ circular_buffer.full
  <2>1. /\ n \in 0 .. Capacity - 1 /\ Retained(circular_buffer') = n + 1
        /\ \A k \in 1 .. n + 1 : SlotAt(circular_buffer', k) = SlotAt(circular_buffer, k)
        /\ SlotAt(circular_buffer, n + 1) = in
        /\ \A k \in 1 .. n : SlotAt(circular_buffer, k) \in Slots \ {in}
    BY <1>1, <1>7, <1>10, AddRoomSlots
  <2>2. Stored' = Stored + new.size
    BY <1>1, <1>6, <1>7, <1>10, AddRoomTotals DEF Stored
  <2>3. EvictedBlocks' = {}
    BY <1>5, <1>10 DEF pointer_to_free
  <2>4. entry_cache'.size = circular_buffer'.entry[SlotAt(circular_buffer', n + 1)].size
    BY <1>6, <1>9, <2>1
  <2>5. circular_buffer'.out_offs = circular_buffer.out_offs
    BY <1>1, <1>10 DEF aesd_circular_buffer_add_entry
  <2>6. SlotAt(circular_buffer, 1) = circular_buffer.out_offs
    BY <1>7, FirstRound
  <2>7. CASE n = 0
    <3>1. Oldest' = new.size
      BY <1>9, <2>1, <2>5, <2>6, <2>7 DEF Oldest
    <3>2. Stored = 0
      BY <2>7, TotalsDef DEF Stored
    <3>3. buffer_size = 0
      BY <2>7 DEF AccountInv
    <3>4. Drift' = Oldest' /\ Drift' >= 0
      BY <1>1, <1>5, <1>6, <2>2, <2>3, <3>1, <3>2, <3>3, DriftValueNext
    <3>5. Retained(circular_buffer') = 1
      BY <2>1, <2>7
    <3> QED BY <1>5, <2>3, <2>4, <2>7, <3>4, <3>5 DEF AccountInv
  <2>8. CASE n # 0
    <3>1. Oldest' = Oldest
      <4>1. circular_buffer.out_offs \in Slots \ {in}
        BY <2>1, <2>6, <2>8
      <4> QED BY <1>7, <1>8, <2>5, <4>1 DEF Oldest
    <3>2. Drift' = Drift
      BY <1>1, <1>5, <1>6, <2>2, <2>3, <3>1, DriftValue, DriftValueNext
    <3>3. Drift >= 0
      BY <2>1, <2>8 DEF AccountInv
    <3>4. Retained(circular_buffer') \notin {0, 1} /\ Retained(circular_buffer') >= 1
      BY <2>1, <2>8
    <3> QED BY <1>5, <2>1, <2>3, <2>4, <3>2, <3>3, <3>4 DEF AccountInv
  <2> QED BY <2>7, <2>8
<1>11. CASE circular_buffer.full
  <2>1. /\ Retained(circular_buffer') = Capacity /\ n = Capacity /\ circular_buffer'.full
        /\ SlotAt(circular_buffer', Capacity) = in
    BY <1>1, <1>7, <1>11, AddFullSlots
  <2>2. Stored' = Stored - Oldest + new.size
    BY <1>1, <1>6, <1>7, <1>11, AddFullTotals DEF Stored, Oldest
  <2>3. EvictedBlocks' # {}
    BY <1>5, <1>7, <1>11 DEF pointer_to_free, Filled
  <2>4. Drift' = Drift
    BY <1>1, <1>5, <1>6, <2>2, <2>3, DriftValue, DriftValueNext
  <2>5. Drift >= 0
    BY <2>1 DEF AccountInv
  <2>6. Retained(circular_buffer') \notin {0, 1} /\ Retained(circular_buffer') >= 1
    BY <2>1
  <2>7. entry_cache'.size
          = circular_buffer'.entry[SlotAt(circular_buffer', Retained(circular_buffer'))].size
    BY <1>6, <1>9, <2>1
  <2> QED BY <1>5, <2>1, <2>4, <2>5, <2>6, <2>7 DEF AccountInv
<1> QED BY <1>10, <1>11

LEMMA AccountModule ==
  ASSUME LockInv, AccountInv, Module
  PROVE  AccountInv' /\ (loaded => Drift' = Drift)
<1>1. UNCHANGED <<pc, free_buffer>>
  BY DEF Module, aesd_init_module, aesd_cleanup_module, aesd_open, aesd_release, locals
<1>2. (Finishing' <=> Finishing) /\ EvictedBlocks' = EvictedBlocks
  BY <1>1 DEF Finishing, At, EvictedBlocks
<1>3. CASE aesd_init_module
  <2>1. Retained(circular_buffer') = 0 /\ buffer_size' = 0 /\ ~ loaded
    BY <1>3 DEF aesd_init_module, aesd_circular_buffer_init, Retained
  <2>2. ~ Finishing
    BY <2>1 DEF LockInv, InUse, Finishing, At
  <2> QED BY <1>2, <2>1, <2>2 DEF AccountInv
<1>4. CASE aesd_cleanup_module \/ \E f \in Files : aesd_open(f) \/ aesd_release(f)
  <2>1. UNCHANGED <<circular_buffer, buffer_size, entry_cache>>
    BY <1>4 DEF aesd_cleanup_module, aesd_open, aesd_release, dev
  <2> QED BY <1>2, <2>1, AccountSame
<1> QED BY <1>3, <1>4 DEF Module

(* Only the first command moves Drift. *)
LEMMA AccountNext ==
  ASSUME Orderly, Capacity > 1, LockInv, TypeInv, HeapInv, TypeInv', HeapInv', AccountInv,
         [Next]_vars
  PROVE  AccountInv' /\ (loaded /\ Retained(circular_buffer) >= 1 => Drift' = Drift)
<1>1. CASE UNCHANGED vars
  <2>1. UNCHANGED <<circular_buffer, buffer_size, entry_cache, pc, free_buffer>>
    BY <1>1 DEF vars, dev, locals
  <2>2. (Finishing' <=> Finishing) /\ EvictedBlocks' = EvictedBlocks
    BY <2>1 DEF Finishing, At, EvictedBlocks
  <2> QED BY <2>1, <2>2, AccountSame
<1>2. ASSUME NEW t \in Tasks, Interrupted(t) PROVE FALSE
  BY <1>2 DEF Interrupted, WriteInterrupted, IoctlInterrupted, LockInterrupted, Orderly
<1>3. ASSUME NEW t \in Tasks, Call(t) \/ Acquire(t) PROVE AccountInv' /\ Drift' = Drift
  BY <1>3, CallIsQuiet, IdleStepIsQuiet, AccountQuiet
<1>4. ASSUME NEW t \in Tasks, Step(t), ~ WriteCommand(t) PROVE AccountInv' /\ Drift' = Drift
  BY <1>4, IdleStepIsQuiet, AccountQuiet, AccountBeforeCopy, AccountEvict, AccountAccount DEF Step
<1> QED BY <1>1, <1>2, <1>3, <1>4, AccountCommand, AccountModule DEF Next

(* What is subtracted was counted before. *)
LEMMA SizeNotNegative ==
  ASSUME TypeInv, HeapInv, AccountInv PROVE buffer_size >= 0
<1> DEFINE n == Retained(circular_buffer)
           total == Totals(circular_buffer)
           newest == circular_buffer.entry[SlotAt(circular_buffer, n)].size
<1>1. Ring(circular_buffer) /\ Sized(circular_buffer) /\ n \in 0 .. Capacity
  BY DevSized, RingSlots DEF TypeInv, DevType
<1>2. CASE n = 0
  BY <1>2 DEF AccountInv
<1>3. CASE n # 0
  <2>1. /\ total[1] = Oldest /\ total[n] = Stored
    <3>1. SlotAt(circular_buffer, 1) = circular_buffer.out_offs
      BY <1>1, FirstRound
    <3>2. total[0] = 0 /\ total[1] = total[1 - 1] + Oldest
      BY <3>1, TotalsDef DEF Oldest
    <3>3. Oldest \in Nat
      BY DriftValue
    <3> QED BY <3>2, <3>3 DEF Stored
  <2>2. \A k \in 0 .. Capacity : total[k] \in Nat
    BY <1>1, TotalsSum
  <2>3. \A k \in 1 .. n : total[1] <= total[k]
    BY <1>1, TotalsGrow
  <2>4. total[n] = total[n - 1] + newest /\ newest \in Nat
    BY <1>1, <1>3, TotalsDef, RingSlots DEF Sized
  <2>5. Drift >= 0 /\ (n = 1 => Drift = Oldest) /\ (Finishing => entry_cache.size = newest)
    BY <1>1, <1>3 DEF AccountInv
  <2>6. EvictedBlocks # {} => Finishing
    BY DEF AccountInv
  <2> HIDE DEF total, newest, n
  <2>7. Stored >= Oldest /\ (n # 1 => Stored >= Oldest + newest) /\ (n = 1 => newest = Oldest)
    <3>1. n \in 1 .. n /\ (n # 1 => n - 1 \in 1 .. n)
      BY <1>1, <1>3
    <3>2. CASE n = 1
      <4>1. total[n - 1] = 0
        BY <3>2, TotalsDef DEF total
      <4> QED BY <2>1, <2>4, <3>2, <4>1
    <3>3. CASE n # 1
      <4>1. total[n - 1] \in Nat /\ total[1] \in Nat /\ total[1] <= total[n - 1]
        BY <1>1, <2>2, <2>3, <3>1, <3>3
      <4> QED BY <2>1, <2>4, <3>3, <4>1
    <3> QED BY <3>2, <3>3
  <2>8. newest \in Nat
    BY <2>4
  <2>9. /\ Drift = buffer_size + (IF Finishing THEN entry_cache.size ELSE 0)
                      - (IF EvictedBlocks # {} THEN Oldest ELSE 0) + Oldest - Stored
        /\ Oldest \in Nat /\ Stored \in Nat /\ buffer_size \in Int
    BY DriftValue
  <2> QED BY <2>5, <2>6, <2>7, <2>8, <2>9
<1> QED BY <1>2, <1>3

(* For any number of slots above one, of tasks and of commands, the error  *)
(* aesd_write makes when it subtracts the size of an evicted command never *)
(* grows beyond the size of the first command, and buffer_size, which is   *)
(* unsigned in the code, never wraps.                                      *)
THEOREM SizeAlwaysAccounted == Orderly /\ Capacity > 1 => (Spec => SizeAccounting)
<1> SUFFICES ASSUME Orderly, Capacity > 1 PROVE Spec => SizeAccounting
  OBVIOUS
<1> DEFINE Inv == LockInv /\ TypeInv /\ HeapInv
           Kept == circular_buffer.entry[0].buffptr # NULL /\ loaded /\ loaded' => Drift' = Drift
<1>1. Init => AccountInv
  <2> SUFFICES ASSUME Init PROVE AccountInv
    OBVIOUS
  <2>1. Retained(circular_buffer) = 0 /\ buffer_size = 0
    BY DEF Init, aesd_circular_buffer_init, Retained
  <2>2. ~ Finishing /\ EvictedBlocks = {}
    BY DEF Init, Finishing, At, EvictedBlocks
  <2> QED BY <2>1, <2>2 DEF AccountInv
<1>2. Inv /\ Inv' /\ AccountInv /\ [Next]_vars => AccountInv'
  BY AccountNext
<1>3. Inv /\ Inv' /\ AccountInv /\ [Next]_vars => [Kept]_vars
  <2> SUFFICES ASSUME Inv, Inv', AccountInv, [Next]_vars, loaded,
                      circular_buffer.entry[0].buffptr # NULL
               PROVE  Drift' = Drift
    OBVIOUS
  <2>1. Ring(circular_buffer) /\ Filled(circular_buffer) /\ 0 \in Slots
    BY DEF TypeInv, DevType, HeapInv, Slots
  <2>2. Retained(circular_buffer) >= 1
    <3>1. CASE circular_buffer.full
      BY <2>1, <3>1, RingSlots
    <3>2. CASE ~ circular_buffer.full
      <4>1. circular_buffer.out_offs = 0 /\ circular_buffer.in_offs > 0
            /\ circular_buffer.in_offs \in Slots
        BY <2>1, <3>2 DEF Filled, Ring
      <4> QED BY <2>1, <4>1, RetainedValue DEF Ring, Slots
    <3> QED BY <3>1, <3>2
  <2> QED BY <2>2, AccountNext
<1>4. Inv /\ AccountInv => buffer_size >= 0
  BY SizeNotNegative
<1>5. Spec => []Inv
  BY HeapInvariant
<1> HIDE DEF Inv
<1> QED BY <1>1, <1>2, <1>3, <1>4, <1>5, PTL DEF Spec, SizeAccounting
=============================================================================
