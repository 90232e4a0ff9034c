--------------------------- MODULE AesdCharProofs ---------------------------
(***************************************************************************)
(* The driver, for any number of tasks, files and blocks and any capacity. *)
(* A signal that interrupts a wait for dev->lock makes the code unlock a   *)
(* mutex it does not hold, so mutual exclusion is proved for ~ Signals; a  *)
(* failed copy of a further piece leaves a freed block in entry_cache, so  *)
(* the heap is proved sound without those too.                             *)
(***************************************************************************)
EXTENDS AesdChar, CircularBufferLemmas

USE NullAssumption, CapacityAssumption

Holding == Critical \union {"w_unlock", "i_unlock"}

(* A task inside the driver has its file open, and a file is open only     *)
(* while the module is loaded: insmod's mutex_init finds the lock idle.    *)
InUse ==
  /\ ~ loaded => open = {}
  /\ \A t \in Tasks : pc[t] # "idle" => args[t].filp \in open

LockType ==
  /\ lock \in Tasks \union {NULL} /\ pc \in [Tasks -> Labels]
  /\ DOMAIN args = Tasks

LockInv == LockType /\ InUse /\ LockOwned

LEMMA LockInit == Init => LockInv
  BY DEF Init, LockInv, LockType, InUse, LockOwned, Labels, Critical

LEMMA LockModule == LockInv /\ Module => LockInv'
<1> SUFFICES ASSUME LockInv, Module PROVE LockInv'
  OBVIOUS
<1> USE DEF LockInv, LockType, InUse, LockOwned, Critical, Labels
<1>1. CASE aesd_init_module
  BY <1>1 DEF aesd_init_module
<1>2. CASE aesd_cleanup_module
  BY <1>2 DEF aesd_cleanup_module
<1>3. ASSUME NEW f \in Files, aesd_open(f) PROVE LockInv'
  BY <1>3 DEF aesd_open
<1>4. ASSUME NEW f \in Files, aesd_release(f) PROVE LockInv'
  BY <1>4 DEF aesd_release
<1> QED BY <1>1, <1>2, <1>3, <1>4 DEF Module

LEMMA LockCall == ASSUME LockInv, NEW t \in Tasks, Call(t) PROVE LockInv'
<1>1. ASSUME NEW l \in {"w_lock", "r_find", "vfs", "i_lock"}, NEW a,
             Enter(t, l, a), UNCHANGED <<lock, loaded, open>>
      PROVE  LockInv'
  BY <1>1 DEF Enter, LockInv, LockType, InUse, LockOwned, Critical, Labels
<1>2. PICK f \in Files :
        \/ \E s \in Bufs : CallWrite(t, f, s)
        \/ \E c \in Counts : CallRead(t, f, c)
        \/ \E o \in SeekOffsets : aesd_llseek(t, f, o)
        \/ \E c \in 0 .. Capacity, o \in CmdOffsets : CallIoctl(t, f, c, o)
  BY DEF Call
<1>3. ASSUME NEW s \in Bufs, CallWrite(t, f, s) PROVE LockInv'
  BY <1>1, <1>3 DEF CallWrite, files
<1>4. ASSUME NEW c \in Counts, CallRead(t, f, c) PROVE LockInv'
  BY <1>1, <1>4 DEF CallRead, files
<1>5. ASSUME NEW o \in SeekOffsets, aesd_llseek(t, f, o) PROVE LockInv'
  BY <1>1, <1>5 DEF aesd_llseek, files
<1>6. ASSUME NEW c \in 0 .. Capacity, NEW o \in CmdOffsets, CallIoctl(t, f, c, o)
      PROVE  LockInv'
  BY <1>1, <1>6 DEF CallIoctl, files
<1> QED BY <1>2, <1>3, <1>4, <1>5, <1>6

LEMMA LockAcquire == ASSUME LockInv, NEW t \in Tasks, Acquire(t) PROVE LockInv'
  BY DEF Acquire, WriteLock, IoctlLock, MutexLock, Goto, files,
         LockInv, LockType, InUse, LockOwned, Critical, Labels

(* A step that moves t without touching the lock, or gives the lock up. *)
LEMMA LockStep == ASSUME LockInv, NEW t \in Tasks, Step(t) PROVE LockInv'
<1> DEFINE Stays == UNCHANGED <<lock, loaded, open, args>>
<1>1. ASSUME NEW from \in Labels, NEW to \in Labels, Goto(t, from, to), Stays,
             from # "idle", from \in Holding <=> to \in Holding
      PROVE  LockInv'
  BY <1>1 DEF Goto, Holding, LockInv, LockType, InUse, LockOwned
<1> USE DEF files, memory, dev, locals, Labels, Holding, Critical
<1>3. CASE WriteReject(t)
  BY <1>1, <1>3 DEF WriteReject
<1>4. CASE WriteKmalloc(t)
  BY <1>1, <1>4 DEF WriteKmalloc
<1>5. CASE WriteKrealloc(t)
  BY <1>1, <1>5 DEF WriteKrealloc
<1>6. CASE WriteFault(t)
  BY <1>1, <1>6 DEF WriteFault
<1>7. CASE WritePiece(t)
  BY <1>1, <1>7 DEF WritePiece
<1>8. CASE WriteCommand(t)
  BY <1>1, <1>8 DEF WriteCommand
<1>9. CASE WriteEvict(t)
  BY <1>1, <1>9 DEF WriteEvict
<1>10. CASE WriteAccount(t)
  BY <1>1, <1>10 DEF WriteAccount
<1>11. CASE WriteUnlock(t)
  BY <1>11 DEF WriteUnlock, Goto, LockInv, LockType, InUse, LockOwned
<1>12. CASE ReadFind(t)
  <2>1. PICK to \in {"vfs", "r_size"} : Goto(t, "r_find", to)
    BY <1>12 DEF ReadFind
  <2> QED BY <1>1, <1>12, <2>1 DEF ReadFind
<1>13. CASE ReadSize(t)
  BY <1>1, <1>13 DEF ReadSize
<1>14. CASE ReadLoad(t)
  BY <1>1, <1>14 DEF ReadLoad
<1>15. CASE ReadCopy(t)
  BY <1>1, <1>15 DEF ReadCopy
<1>16. CASE IoctlSeek(t)
  BY <1>1, <1>16 DEF IoctlSeek
<1>17. CASE IoctlUnlock(t)
  <2>1. /\ pc[t] = "i_unlock" /\ pc' = [pc EXCEPT ![t] = "idle"] /\ lock' = NULL
        /\ args' = [args EXCEPT ![t] = NoArgs] /\ UNCHANGED <<loaded, open>>
    BY <1>17 DEF IoctlUnlock, Leave
  <2> QED BY <2>1 DEF LockInv, LockType, InUse, LockOwned
<1>18. CASE StorePosition(t)
  <2>1. /\ pc[t] = "vfs" /\ pc' = [pc EXCEPT ![t] = "idle"]
        /\ args' = [args EXCEPT ![t] = NoArgs] /\ UNCHANGED <<loaded, open, lock>>
    BY <1>18 DEF StorePosition, Leave
  <2> QED BY <2>1 DEF LockInv, LockType, InUse, LockOwned
<1> QED
  BY <1>3, <1>4, <1>5, <1>6, <1>7, <1>8, <1>9, <1>10, <1>11, <1>12, <1>13, <1>14, <1>15,
     <1>16, <1>17, <1>18 DEF Step

(* Without signals dev->lock is owned by the task between lock and unlock, *)
(* a task inside the driver has its file open, and no file is open while   *)
(* the module is out (aesd_write, aesd_ioctl, aesd_init_module).           *)
THEOREM LockInvariant == ~ Signals => (Spec => []LockInv)
<1> SUFFICES ASSUME ~ Signals PROVE Spec => []LockInv
  OBVIOUS
<1>1. LockInv /\ [Next]_vars => LockInv'
  <2> SUFFICES ASSUME LockInv, [Next]_vars PROVE LockInv'
    OBVIOUS
  <2>1. CASE UNCHANGED vars
    BY <2>1 DEF vars, files, LockInv, LockType, InUse, LockOwned
  <2>2. CASE Next
    <3>1. ASSUME NEW t \in Tasks, Interrupted(t) PROVE FALSE
      BY <3>1 DEF Interrupted, WriteInterrupted, IoctlInterrupted, LockInterrupted
    <3> QED BY <2>2, <3>1, LockModule, LockCall, LockAcquire, LockStep DEF Next
  <2> QED BY <2>1, <2>2
<1> QED BY <1>1, LockInit, PTL DEF Spec

(* On every path, error paths included, the task about to unlock dev->lock *)
(* is the one that locked it.                                              *)
THEOREM LockAlwaysOwned == ~ Signals => (Spec => []LockOwned)
<1>1. LockInv => LockOwned
  BY DEF LockInv
<1> QED BY <1>1, LockInvariant, PTL

(* dev->lock excludes: no two tasks are inside its critical sections. *)
THEOREM Exclusion == ~ Signals => (Spec => []MutualExclusion)
<1>1. LockInv => MutualExclusion
  BY DEF LockInv, LockOwned, MutualExclusion
<1> QED BY <1>1, LockInvariant, PTL

---------------------------------------------------------------------------
(* Types.  Whatever the signals and the faults, every index stays in its   *)
(* array; a position is negative only on its way out of a refused seek.    *)

ArgSet == [filp : Files \union {NULL}, buf : Seq(Bytes), count : Nat, cmd : Nat, offset : Nat]
AtSet == [slot : Slots \union {NULL}, offset : Nat]
EntrySet == [buffptr : BlockOrNull, size : Nat]

DevType ==
  /\ circular_buffer \in [entry : [Slots -> EntrySet], in_offs : Slots, out_offs : Slots,
                          full : BOOLEAN]
  /\ Ring(circular_buffer)
  /\ entry_cache \in EntrySet /\ buffer_size \in Int

MemoryType ==
  /\ heap \in [Blocks -> Seq(Bytes) \union {NULL}] /\ leaked \subseteq Blocks
  /\ ptr \in [Tasks -> BlockOrNull] /\ free_buffer \in [Tasks -> BlockOrNull]

CallType ==
  /\ lock \in Tasks \union {NULL} /\ pc \in [Tasks -> Labels] /\ args \in [Tasks -> ArgSet]
  /\ open \subseteq Files /\ at \in [Tasks -> AtSet] /\ todo \in [Tasks -> Nat]
  /\ \A t \in Tasks : pc[t] \in {"r_size", "r_load"} => at[t].slot \in Slots

PosType ==
  /\ f_pos \in [Files -> Nat] /\ pos \in [Tasks -> Int] /\ retval \in [Tasks -> Int]
  /\ \A t \in Tasks : pos[t] < 0 => retval[t] < 0 /\ pc[t] = "vfs"

TypeInv == DevType /\ MemoryType /\ CallType /\ PosType

LEMMA TypeInit == Init => TypeInv
<1> SUFFICES ASSUME Init PROVE TypeInv
  OBVIOUS
<1>1. DevType
  BY DEF Init, DevType, EntrySet, BlockOrNull, aesd_circular_buffer_init, EmptyEntry, Ring, Slots
<1>2. MemoryType
  BY DEF Init, MemoryType, BlockOrNull
<1>3. CallType
  BY DEF Init, CallType, Labels, NoArgs, NotFound, ArgSet, AtSet
<1>4. PosType
  BY DEF Init, PosType
<1> QED BY <1>1, <1>2, <1>3, <1>4 DEF TypeInv

LEMMA TypeModule == ASSUME TypeInv, Module PROVE TypeInv'
<1> USE DEF TypeInv, dev, memory, files, locals
<1>1. CASE aesd_init_module
  <2>1. DevType'
    BY <1>1 DEF aesd_init_module, DevType, EntrySet, BlockOrNull, aesd_circular_buffer_init,
                EmptyEntry, Ring, Slots
  <2> QED BY <1>1, <2>1 DEF aesd_init_module, MemoryType, CallType, PosType
<1>2. CASE aesd_cleanup_module
  <2>1. MemoryType'
    BY <1>2 DEF aesd_cleanup_module, MemoryType, DevType, EntrySet, BlockOrNull
  <2> QED BY <1>2, <2>1 DEF aesd_cleanup_module, DevType, CallType, PosType
<1>3. ASSUME NEW f \in Files, aesd_open(f) \/ aesd_release(f) PROVE TypeInv'
  <2>1. f_pos' = [f_pos EXCEPT ![f] = 0] /\ open' \subseteq open \union {f}
    BY <1>3 DEF aesd_open, aesd_release
  <2>2. UNCHANGED <<dev, lock, memory, pc, args, locals>>
    BY <1>3 DEF aesd_open, aesd_release
  <2> QED BY <2>1, <2>2 DEF DevType, MemoryType, CallType, PosType
<1> QED BY <1>1, <1>2, <1>3 DEF Module

LEMMA NoArgsTyped == NoArgs \in ArgSet
  BY DEF NoArgs, ArgSet

LEMMA TypeCall == ASSUME TypeInv, NEW t \in Tasks, Call(t) PROVE TypeInv'
<1> USE DEF TypeInv, dev, memory, files, locals
<1>1. ASSUME NEW l \in Labels \ {"r_size", "r_load"}, NEW a \in ArgSet, Enter(t, l, a),
             UNCHANGED <<dev, lock, memory, files, ptr, free_buffer, at, todo>>
      PROVE  DevType' /\ MemoryType' /\ CallType'
  BY <1>1 DEF Enter, DevType, MemoryType, CallType
<1>2. ASSUME NEW f \in Files, NEW s \in Bufs, CallWrite(t, f, s) PROVE TypeInv'
  <2> DEFINE a == [NoArgs EXCEPT !.filp = f, !.buf = s, !.count = Len(s)]
  <2>1. a \in ArgSet
    <3>1. s \in Seq(Bytes) /\ Len(s) \in Nat
      BY InputsAssumption
    <3> QED BY <3>1, NoArgsTyped DEF ArgSet
  <2>2. PosType'
    BY <1>2 DEF CallWrite, Enter, PosType, CallType
  <2> QED BY <1>1, <1>2, <2>1, <2>2 DEF CallWrite, Labels
<1>3. ASSUME NEW f \in Files, NEW c \in Counts, CallRead(t, f, c) PROVE TypeInv'
  <2> DEFINE a == [NoArgs EXCEPT !.filp = f, !.count = c]
  <2>1. a \in ArgSet
    BY NoArgsTyped, InputsAssumption DEF ArgSet
  <2>2. PosType'
    BY <1>3 DEF CallRead, Enter, PosType, CallType
  <2> QED BY <1>1, <1>3, <2>1, <2>2 DEF CallRead, Labels
<1>4. ASSUME NEW f \in Files, NEW o \in SeekOffsets, aesd_llseek(t, f, o) PROVE TypeInv'
  <2> DEFINE a == [NoArgs EXCEPT !.filp = f]
  <2>1. a \in ArgSet
    BY NoArgsTyped DEF ArgSet
  <2>2. PosType'
    BY <1>4, InputsAssumption
       DEF aesd_llseek, Enter, Return, PosType, CallType, DevType, EINVAL
  <2> QED BY <1>1, <1>4, <2>1, <2>2 DEF aesd_llseek, Labels
<1>5. ASSUME NEW f \in Files, NEW c \in 0 .. Capacity, NEW o \in CmdOffsets, CallIoctl(t, f, c, o)
      PROVE  TypeInv'
  <2> DEFINE a == [NoArgs EXCEPT !.filp = f, !.cmd = c, !.offset = o]
  <2>1. a \in ArgSet
    <3>1. c \in Nat /\ o \in Nat
      BY InputsAssumption
    <3> QED BY <3>1, NoArgsTyped DEF ArgSet
  <2>2. PosType'
    BY <1>5 DEF CallIoctl, Enter, PosType, CallType
  <2> QED BY <1>1, <1>5, <2>1, <2>2 DEF CallIoctl, Labels
<1> QED BY <1>2, <1>3, <1>4, <1>5 DEF Call

LEMMA FindTyped ==
  ASSUME NEW b, Ring(b), Sized(b), NEW p \in Nat
  PROVE  LET r == aesd_circular_buffer_find_entry_offset_for_fpos(b, p)
         IN  r \in AtSet /\ (r # NotFound => r.slot \in Slots)
<1> DEFINE r == aesd_circular_buffer_find_entry_offset_for_fpos(b, p)
           width == 2^16
           total == Totals(b)
<1>1. width \in Nat /\ width > 0
  OBVIOUS
<1> HIDE DEF width
<1>2. IF p < total[Retained(b)]
      THEN \E k \in 1 .. Retained(b) :
             r = [slot |-> SlotAt(b, k), offset |-> (p - total[k - 1]) % width]
      ELSE r = NotFound
  BY FindCorrect DEF width
<1> HIDE DEF r
<1>3. Retained(b) \in 0 .. Capacity /\ \A k \in 1 .. Capacity : SlotAt(b, k) \in Slots
  BY RingSlots
<1>4. \A k \in 0 .. Capacity : total[k] \in Nat
  BY TotalsSum
<1>5. r \in AtSet /\ (r # NotFound => r.slot \in Slots)
  <2>1. CASE r = NotFound
    BY <2>1 DEF NotFound, AtSet
  <2>2. CASE r # NotFound
    <3>1. PICK k \in 1 .. Retained(b) :
            r = [slot |-> SlotAt(b, k), offset |-> (p - total[k - 1]) % width]
      BY <1>2, <2>2
    <3>2. k \in 1 .. Capacity /\ k - 1 \in 0 .. Capacity
      BY <1>3
    <3>3. SlotAt(b, k) \in Slots /\ total[k - 1] \in Nat
      BY <1>3, <1>4, <3>2
    <3>4. (p - total[k - 1]) % width \in Nat
      BY <1>1, <3>3
    <3> QED BY <3>1, <3>3, <3>4 DEF AtSet
  <2> QED BY <2>1, <2>2
<1> QED BY <1>5 DEF r

LEMMA DevSized == DevType => Sized(circular_buffer)
  BY DEF DevType, EntrySet, Sized

(* A step of aesd_write under the lock, up to the copy. *)
LEMMA TypeWrite ==
  ASSUME TypeInv, NEW t \in Tasks,
         \/ WriteReject(t) \/ WriteKmalloc(t) \/ WriteKrealloc(t) \/ WriteFault(t)
         \/ WriteEvict(t) \/ WriteAccount(t) \/ WriteUnlock(t)
  PROVE  TypeInv'
<1> USE DEF TypeInv, dev, memory, files, locals
<1>1. CASE WriteReject(t)
  BY <1>1 DEF WriteReject, Goto, Return, EINVAL, ENOMEM, DevType, MemoryType, CallType, PosType,
              Labels
<1>2. CASE WriteKmalloc(t)
  <2>1. <<>> \in Seq(Bytes)
    OBVIOUS
  <2>2. MemoryType'
    BY <1>2, <2>1 DEF WriteKmalloc, MemoryType, BlockOrNull
  <2> QED BY <1>2, <2>2 DEF WriteKmalloc, Goto, DevType, CallType, PosType, Labels
<1>3. CASE WriteKrealloc(t)
  <2>1. heap' \in [Blocks -> Seq(Bytes) \cup {NULL}] /\ ptr' \in [Tasks -> BlockOrNull]
    <3>1. CASE heap[entry_cache.buffptr] = NULL
      BY <1>3, <3>1 DEF WriteKrealloc, MemoryType
    <3>2. CASE heap[entry_cache.buffptr] # NULL
      <4>1. entry_cache.buffptr \in Blocks
        BY <1>3 DEF WriteKrealloc, DevType, EntrySet, BlockOrNull
      <4>2. PICK b \in Blocks :
              /\ heap' = [heap EXCEPT ![entry_cache.buffptr] = NULL, ![b] = heap[entry_cache.buffptr]]
              /\ ptr' = [ptr EXCEPT ![t] = b]
        BY <1>3, <3>2 DEF WriteKrealloc
      <4> QED BY <4>1, <4>2 DEF MemoryType, BlockOrNull
    <3> QED BY <3>1, <3>2
  <2>2. UNCHANGED <<leaked, free_buffer>>
    BY <1>3 DEF WriteKrealloc
  <2>3. MemoryType'
    BY <2>1, <2>2 DEF MemoryType
  <2> QED BY <1>3, <2>3 DEF WriteKrealloc, Goto, DevType, CallType, PosType, Labels
<1>4. CASE WriteFault(t)
  <2>1. MemoryType'
    BY <1>4 DEF WriteFault, MemoryType, BlockOrNull
  <2> QED BY <1>4, <2>1
          DEF WriteFault, Goto, Return, EFAULT, DevType, CallType, PosType, Labels
<1>5. CASE WriteEvict(t)
  <2>1. MemoryType'
    BY <1>5 DEF WriteEvict, MemoryType, BlockOrNull
  <2>2. DevType'
    BY <1>5 DEF WriteEvict, DevType, EntrySet
  <2> QED BY <1>5, <2>1, <2>2 DEF WriteEvict, Goto, CallType, PosType, Labels
<1>6. CASE WriteAccount(t)
  <2>1. DevType'
    BY <1>6 DEF WriteAccount, DevType, EntrySet, EmptyEntry, BlockOrNull
  <2>2. PosType'
    <3>1. args[t].count \in Nat
      BY DEF CallType, ArgSet
    <3> QED BY <1>6, <3>1 DEF WriteAccount, Goto, Return, PosType, CallType
  <2> QED BY <1>6, <2>1, <2>2 DEF WriteAccount, Goto, MemoryType, CallType, Labels
<1>7. CASE WriteUnlock(t)
  BY <1>7 DEF WriteUnlock, Goto, DevType, MemoryType, CallType, PosType, Labels
<1> QED BY <1>1, <1>2, <1>3, <1>4, <1>5, <1>6, <1>7

(* The copy, which may hand the command over to the circular buffer. *)
LEMMA TypeCopy ==
  ASSUME TypeInv, NEW t \in Tasks, WritePiece(t) \/ WriteCommand(t)
  PROVE  TypeInv'
<1> USE DEF TypeInv, dev, memory, files, locals
<1>1. args[t].count \in Nat /\ args[t].buf \in Seq(Bytes)
  BY DEF CallType, ArgSet
<1>2. Copied(t) \in EntrySet
  <2>1. entry_cache.size \in Nat /\ ptr[t] \in BlockOrNull
    BY DEF DevType, EntrySet, MemoryType
  <2> QED BY <1>1, <2>1 DEF Copied, EntrySet
<1>3. CopyFromUser(t)
  BY DEF WritePiece, WriteCommand
<1>4. heap' \in [Blocks -> Seq(Bytes) \union {NULL}]
  <2>1. CASE Trampled(t)
    BY <1>3, <2>1 DEF CopyFromUser, MemoryType
  <2>2. CASE ~ Trampled(t)
    <3>1. heap' = [heap EXCEPT ![ptr[t]] = heap[ptr[t]] \o args[t].buf]
      BY <1>3, <2>2 DEF CopyFromUser
    <3>2. CASE ptr[t] \notin Blocks
      BY <3>1, <3>2 DEF MemoryType
    <3>3. CASE ptr[t] \in Blocks
      <4>1. heap[ptr[t]] \in Seq(Bytes)
        BY <2>2, <3>3 DEF Trampled, MemoryType
      <4>2. heap[ptr[t]] \o args[t].buf \in Seq(Bytes)
        BY <1>1, <4>1, ConcatProperties
      <4> QED BY <3>1, <4>2 DEF MemoryType
    <3> QED BY <3>2, <3>3
  <2> QED BY <2>1, <2>2
<1>5. CASE WritePiece(t)
  <2>1. MemoryType'
    BY <1>3, <1>4, <1>5 DEF WritePiece, CopyFromUser, MemoryType, BlockOrNull
  <2>2. DevType'
    BY <1>2, <1>3, <1>5 DEF WritePiece, CopyFromUser, DevType
  <2>3. PosType'
    BY <1>1, <1>5 DEF WritePiece, Goto, Return, PosType, CallType
  <2> QED BY <1>5, <2>1, <2>2, <2>3 DEF WritePiece, Goto, CallType, Labels
<1>6. CASE WriteCommand(t)
  <2>1. DevType'
    <3>1. circular_buffer' = aesd_circular_buffer_add_entry(circular_buffer, Copied(t))
      BY <1>6 DEF WriteCommand
    <3>2. Ring(circular_buffer)'
      BY <3>1, AddRoomSlots, AddFullSlots DEF DevType
    <3>3. /\ circular_buffer' = [entry |-> circular_buffer'.entry,
                                  in_offs |-> circular_buffer'.in_offs,
                                  out_offs |-> circular_buffer'.out_offs,
                                  full |-> circular_buffer'.full]
          /\ circular_buffer'.entry
               = [circular_buffer.entry EXCEPT ![circular_buffer.in_offs] = Copied(t)]
      BY <3>1 DEF aesd_circular_buffer_add_entry
    <3>4. entry_cache' \in EntrySet /\ buffer_size' \in Int
      BY <1>2, <1>3, <1>6 DEF CopyFromUser, WriteCommand, DevType
    <3> QED BY <1>2, <3>2, <3>3, <3>4 DEF DevType, Ring
  <2>2. MemoryType'
    <3>1. pointer_to_free(circular_buffer) \in BlockOrNull
      BY DEF pointer_to_free, DevType, EntrySet, Ring, BlockOrNull
    <3> QED BY <1>3, <1>4, <1>6, <3>1 DEF WriteCommand, CopyFromUser, MemoryType, BlockOrNull
  <2> QED BY <1>6, <2>1, <2>2 DEF WriteCommand, Goto, CallType, PosType, Labels
<1> QED BY <1>5, <1>6

LEMMA TypeRead ==
  ASSUME TypeInv, NEW t \in Tasks, ReadFind(t) \/ ReadSize(t) \/ ReadLoad(t) \/ ReadCopy(t)
  PROVE  TypeInv'
<1> USE DEF TypeInv, dev, memory, files, locals
<1>1. CASE ReadFind(t)
  <2> DEFINE r == aesd_circular_buffer_find_entry_offset_for_fpos(circular_buffer, pos[t])
  <2>1. r \in AtSet /\ (r # NotFound => r.slot \in Slots)
    <3>1. pos[t] \in Nat
      BY <1>1 DEF ReadFind, Goto, PosType
    <3> QED BY <3>1, FindTyped, DevSized DEF DevType
  <2>2. PICK to \in {"vfs", "r_size"} :
          pc' = [pc EXCEPT ![t] = to] /\ (to = "r_size" => r # NotFound)
    BY <1>1 DEF ReadFind, Goto
  <2>3. at' = [at EXCEPT ![t] = r] /\ pc[t] = "r_find"
    BY <1>1 DEF ReadFind, Goto
  <2>4. UNCHANGED <<dev, lock, memory, files, args, pos, ptr, free_buffer, todo, retval>>
    BY <1>1 DEF ReadFind
  <2> HIDE DEF r
  <2> QED BY <2>1, <2>2, <2>3, <2>4 DEF DevType, MemoryType, CallType, PosType, Labels
<1>2. CASE ReadSize(t)
  <2> DEFINE available == circular_buffer.entry[at[t].slot].size - at[t].offset
             n == IF available \in 0 .. args[t].count THEN available ELSE args[t].count
  <2>1. args[t].count \in Nat
    BY DEF CallType, ArgSet
  <2>2. n \in Nat
    BY <2>1
  <2>3. todo' = [todo EXCEPT ![t] = n]
    BY <1>2 DEF ReadSize
  <2> HIDE DEF n
  <2> QED BY <1>2, <2>2, <2>3
          DEF ReadSize, Goto, DevType, MemoryType, CallType, PosType, Labels
<1>3. CASE ReadLoad(t)
  <2>1. MemoryType'
    <3>0. PICK p : p = circular_buffer.entry[at[t].slot].buffptr
      OBVIOUS
    <3>1. ptr' = [ptr EXCEPT ![t] = p] /\ UNCHANGED <<memory, free_buffer>>
      BY <1>3, <3>0 DEF ReadLoad
    <3>2. p \in BlockOrNull
      BY <1>3, <3>0 DEF ReadLoad, Goto, CallType, DevType, EntrySet
    <3> QED BY <3>1, <3>2 DEF MemoryType
  <2> QED BY <1>3, <2>1 DEF ReadLoad, Goto, DevType, CallType, PosType, Labels
<1>4. CASE ReadCopy(t)
  <2>1. PosType'
    <3>1. todo[t] \in Nat
      BY DEF CallType
    <3> QED BY <1>4, <3>1 DEF ReadCopy, Goto, Return, EFAULT, PosType, CallType
  <2> QED BY <1>4, <2>1 DEF ReadCopy, Goto, DevType, MemoryType, CallType, Labels
<1> QED BY <1>1, <1>2, <1>3, <1>4

LEMMA TypeIoctl ==
  ASSUME TypeInv, NEW t \in Tasks, IoctlSeek(t) \/ IoctlUnlock(t) \/ StorePosition(t)
  PROVE  TypeInv'
<1> USE DEF TypeInv, dev, memory, files, locals
<1>1. CASE IoctlSeek(t)
  <2> DEFINE a == args[t]
             sizes == [i \in Slots |-> circular_buffer.entry[i].size]
  <2>1. SeekValid(a.cmd, a.offset) => SlotStart(a.cmd) + a.offset \in Nat
    <3> SUFFICES ASSUME SeekValid(a.cmd, a.offset) PROVE SlotStart(a.cmd) + a.offset \in Nat
      OBVIOUS
    <3>1. a.cmd \in Slots /\ a.offset \in Nat
      BY DEF SeekValid, CallType, ArgSet
    <3> DEFINE S == 0 .. a.cmd - 1
    <3>2. IsFiniteSet(S) /\ \A x \in S : sizes[x] \in Nat
      <4>1. IsFiniteSet(S)
        <5>1. 0 \in Int /\ a.cmd - 1 \in Int
          BY <3>1 DEF Slots
        <5> QED BY <5>1, FS_Interval, Zenon
      <4>2. \A x \in S : x \in Slots
        BY <3>1 DEF Slots
      <4> QED BY <4>1, <4>2, DevSized DEF Sized
    <3>3. SumFunctionOnSet(sizes, S) \in Nat
      <4> HIDE DEF sizes, S
      <4> QED BY <3>2, SumNat
    <3> QED BY <3>1, <3>3 DEF SlotStart
  <2>2. PosType'
    BY <1>1, <2>1 DEF IoctlSeek, Goto, Return, EINVAL, PosType, CallType
  <2> QED BY <1>1, <2>2 DEF IoctlSeek, Goto, DevType, MemoryType, CallType, Labels
<1>2. CASE IoctlUnlock(t) \/ StorePosition(t)
  <2>1. Leave(t) /\ UNCHANGED <<dev, memory, loaded, open>> /\ lock' \in {lock, NULL}
    BY <1>2 DEF IoctlUnlock, StorePosition
  <2>2. MemoryType'
    BY <2>1 DEF Leave, MemoryType, BlockOrNull
  <2>3. CallType'
    <3>1. NotFound \in AtSet
      BY DEF NotFound, AtSet
    <3> QED BY <2>1, <3>1, NoArgsTyped DEF Leave, CallType, Labels
  <2>4. f_pos' \in [Files -> Nat]
    BY <1>2 DEF IoctlUnlock, StorePosition, PosType
  <2> QED BY <2>1, <2>2, <2>3, <2>4 DEF Leave, DevType, PosType, CallType
<1> QED BY <1>1, <1>2

LEMMA TypeNext == TypeInv /\ [Next]_vars => TypeInv'
<1> SUFFICES ASSUME TypeInv, [Next]_vars PROVE TypeInv'
  OBVIOUS
<1>1. CASE UNCHANGED vars
  BY <1>1 DEF vars, TypeInv, DevType, MemoryType, CallType, PosType, dev, memory, files, locals
<1>2. ASSUME NEW t \in Tasks, Acquire(t) \/ Interrupted(t) PROVE TypeInv'
  <2>1. PICK from \in {"w_lock", "i_lock"}, to \in {"w_alloc", "i_seek", "w_unlock", "i_unlock"} :
          pc[t] = from /\ pc' = [pc EXCEPT ![t] = to]
    BY <1>2 DEF Acquire, Interrupted, WriteLock, IoctlLock, WriteInterrupted, IoctlInterrupted,
                MutexLock, LockInterrupted, Goto
  <2>2. /\ lock' \in {lock, t} /\ (retval' = retval \/ retval' = [retval EXCEPT ![t] = ERESTARTSYS])
        /\ UNCHANGED <<dev, memory, files, args, pos, ptr, free_buffer, at, todo>>
    BY <1>2 DEF Acquire, Interrupted, WriteLock, IoctlLock, WriteInterrupted, IoctlInterrupted,
                MutexLock, LockInterrupted, Return, locals
  <2>3. DevType' /\ MemoryType'
    BY <2>2 DEF TypeInv, DevType, MemoryType, dev, memory
  <2>4. CallType'
    BY <2>1, <2>2 DEF TypeInv, CallType, Labels, files
  <2>5. PosType'
    BY <2>1, <2>2 DEF TypeInv, CallType, PosType, files, ERESTARTSYS
  <2> QED BY <2>3, <2>4, <2>5 DEF TypeInv
<1>3. ASSUME NEW t \in Tasks, Step(t) PROVE TypeInv'
  BY <1>3, TypeWrite, TypeCopy, TypeRead, TypeIoctl DEF Step
<1> QED BY <1>1, <1>2, <1>3, TypeModule, TypeCall DEF Next

(* The types of the driver's data, with what keeps them: the ring's        *)
(* indices, the reader's slot, and a negative position only in a failed    *)
(* call (every handler of main.c).                                         *)
THEOREM TypeInvariant == Spec => []TypeInv
  BY TypeInit, TypeNext, PTL DEF Spec

(* The Boolean variables. *)
FlagsInv == loaded \in BOOLEAN /\ corrupt \in BOOLEAN /\ quiet \in [Tasks -> BOOLEAN]

LEMMA FlagsNext == FlagsInv /\ [Next]_vars => FlagsInv'
<1> SUFFICES ASSUME FlagsInv, [Next]_vars PROVE FlagsInv'
  OBVIOUS
<1> USE DEF FlagsInv, memory, files, locals
<1>1. CASE UNCHANGED vars
  BY <1>1, Zenon DEF vars
<1>2. CASE Module
  BY <1>2, Zenon DEF Module, aesd_init_module, aesd_cleanup_module, aesd_open, aesd_release
<1>3. ASSUME NEW t \in Tasks, Call(t) \/ Acquire(t) \/ Interrupted(t) PROVE FlagsInv'
  BY <1>3, Zenon
     DEF Call, CallWrite, CallRead, aesd_llseek, CallIoctl, Acquire, WriteLock, IoctlLock,
         MutexLock, Interrupted, WriteInterrupted, IoctlInterrupted, LockInterrupted
<1>4. ASSUME NEW t \in Tasks,
             \/ WriteReject(t) \/ WriteKmalloc(t) \/ WriteAccount(t) \/ WriteUnlock(t)
             \/ ReadSize(t) \/ ReadLoad(t) \/ ReadCopy(t) \/ IoctlSeek(t)
      PROVE  FlagsInv'
  BY <1>4, Zenon DEF WriteReject, WriteKmalloc, WriteAccount, WriteUnlock, ReadSize, ReadLoad,
                     ReadCopy, IoctlSeek
<1>5. ASSUME NEW t \in Tasks, WriteFault(t) \/ WritePiece(t) PROVE FlagsInv'
  <2>1. UNCHANGED <<loaded, quiet>>
    BY <1>5, Zenon DEF WriteFault, WritePiece
  <2>2. corrupt' \in BOOLEAN
    BY <1>5, Zenon DEF WriteFault, WritePiece, CopyFromUser, Trampled
  <2> QED BY <2>1, <2>2, Zenon
<1>6. ASSUME NEW t \in Tasks, WriteCommand(t) PROVE FlagsInv'
  BY <1>6, Zenon DEF WriteCommand, CopyFromUser, Trampled
<1>7. ASSUME NEW t \in Tasks, WriteKrealloc(t) PROVE FlagsInv'
  BY <1>7, Zenon DEF WriteKrealloc
<1>8. ASSUME NEW t \in Tasks, WriteEvict(t) PROVE FlagsInv'
  BY <1>8, Zenon DEF WriteEvict
<1>9. ASSUME NEW t \in Tasks, ReadFind(t) PROVE FlagsInv'
  <2> DEFINE found == aesd_circular_buffer_find_entry_offset_for_fpos(circular_buffer, pos[t])
                        # NotFound
  <2>1. quiet' = [quiet EXCEPT ![t] = found] /\ UNCHANGED <<loaded, corrupt>>
    BY <1>9, Zenon DEF ReadFind
  <2>2. found \in BOOLEAN
    BY Zenon
  <2> QED BY <2>1, <2>2, Zenon
<1>10. ASSUME NEW t \in Tasks, IoctlUnlock(t) \/ StorePosition(t) PROVE FlagsInv'
  BY <1>10, Zenon DEF IoctlUnlock, StorePosition, Leave
<1>11. ASSUME NEW t \in Tasks, Step(t) PROVE FlagsInv'
  BY <1>11, <1>4, <1>5, <1>6, <1>7, <1>8, <1>9, <1>10 DEF Step
<1> QED BY <1>1, <1>2, <1>3, <1>11 DEF Next

(* Whatever tasks, signals and failing copies do, every field and local of *)
(* the driver has its C type, no index leaves the circular buffer's array, *)
(* and no call stores a negative file position.                            *)
THEOREM TypeCorrect == Spec => []TypeOK
<1>1. Init => FlagsInv
  BY Zenon DEF Init, FlagsInv
<1>2. TypeInv /\ FlagsInv => TypeOK
  BY Zenon DEF TypeInv, DevType, MemoryType, CallType, PosType, FlagsInv, TypeOK, ArgSet, AtSet,
               EntrySet
<1> QED BY <1>1, <1>2, FlagsNext, TypeInvariant, PTL DEF Spec

---------------------------------------------------------------------------
(* The heap, when no signal interrupts a wait for the lock and no copy of  *)
(* a further piece of a command fails.                                     *)

(* Who may own block b, as HeapExact lists them. *)
InSlot(b) == \E i \in Slots : circular_buffer.entry[i].buffptr = b
InCache(b) == entry_cache.buffptr = b /\ ~ At({"w_copy", "w_evict", "w_account"})
InWork(b) == \E t \in Tasks : pc[t] = "w_copy" /\ ptr[t] = b
InEviction(b) == \E t \in Tasks : free_buffer[t] = b
InUseOutsideSlots(b) == InCache(b) \/ InWork(b) \/ InEviction(b)

(* Nothing allocated is without an owner, and nobody owns what is free. *)
Owned ==
  \A b \in Blocks :
    heap[b] # NULL <=> b \in leaked \/ (loaded /\ (InSlot(b) \/ InUseOutsideSlots(b)))

(* No block has two owners. *)
Apart ==
  loaded =>
    /\ \A b \in Blocks : /\ InSlot(b) => ~ InUseOutsideSlots(b)
                         /\ b \in leaked => ~ InSlot(b) /\ ~ InUseOutsideSlots(b)
    /\ \A i, j \in Slots :
         /\ circular_buffer.entry[i].buffptr # NULL
         /\ circular_buffer.entry[j].buffptr = circular_buffer.entry[i].buffptr
         => i = j

(* The size fields are the lengths of what the blocks hold. *)
Measured ==
  /\ loaded => \A i \in Slots :
       LET e == circular_buffer.entry[i] IN e.buffptr # NULL => Len(heap[e.buffptr]) = e.size
  /\ loaded => \A b \in Blocks : InCache(b) => Len(heap[b]) = entry_cache.size
  /\ entry_cache.buffptr = NULL => entry_cache.size = 0
  /\ \A t \in Tasks : pc[t] = "w_copy" => /\ ptr[t] \in Blocks
                                          /\ Len(heap[ptr[t]]) = entry_cache.size

WriteLabels == {"w_lock", "w_alloc", "w_copy", "w_evict", "w_account", "w_unlock"}

(* A writer's arguments are those it was called with, and it remembers an  *)
(* evicted block only until it frees it.                                   *)
Writing ==
  \A t \in Tasks :
    /\ pc[t] \in WriteLabels => args[t].buf \in Bufs /\ args[t].count = Len(args[t].buf)
    /\ pc[t] = "w_copy" => args[t].count > 0
    /\ free_buffer[t] # NULL => pc[t] = "w_evict"

HeapInv == Owned /\ Apart /\ Measured /\ Writing /\ Filled(circular_buffer) /\ ~ corrupt

Busy == {"w_copy", "w_evict", "w_account"}

LEMMA HeapInit == Init => HeapInv
<1> SUFFICES ASSUME Init PROVE HeapInv
  OBVIOUS
<1>1. Filled(circular_buffer) /\ entry_cache = EmptyEntry
  BY DEF Init, Filled, aesd_circular_buffer_init, EmptyEntry, Slots
<1>2. Owned /\ Apart
  BY DEF Init, Owned, Apart
<1>3. Measured /\ Writing
  BY <1>1 DEF Init, Measured, Writing, WriteLabels, EmptyEntry
<1> QED BY <1>1, <1>2, <1>3 DEF Init, HeapInv

(* A step that leaves the device, the heap and the writers alone. *)
Quiet(t, to) ==
  /\ UNCHANGED <<dev, memory, loaded>>
  /\ pc' = [pc EXCEPT ![t] = to] /\ pc[t] \notin Busy /\ to \notin Busy
  /\ \A u \in Tasks \ {t} : /\ ptr'[u] = ptr[u] /\ free_buffer'[u] = free_buffer[u]
                            /\ args'[u] = args[u]
  /\ free_buffer'[t] \in {free_buffer[t], NULL}
  /\ to \in WriteLabels => args'[t].buf \in Bufs /\ args'[t].count = Len(args'[t].buf)

LEMMA HeapQuiet ==
  ASSUME TypeInv, HeapInv, NEW t \in Tasks, NEW to, Quiet(t, to)
  PROVE  HeapInv'
<1> USE DEF Quiet
<1>1. pc \in [Tasks -> Labels] /\ Writing
  BY DEF TypeInv, CallType, HeapInv
<1>2. \A u \in Tasks : pc'[u] \in Busy <=> pc[u] \in Busy
  BY <1>1
<1>3. \A u \in Tasks : pc'[u] \in Busy => u # t /\ pc'[u] = pc[u]
  BY <1>1
<1>4. free_buffer[t] = NULL /\ free_buffer'[t] = NULL
  BY <1>1 DEF Writing, Busy
<1>5. \A b \in Blocks : /\ InSlot(b)' <=> InSlot(b)
                        /\ InWork(b)' <=> InWork(b)
                        /\ InCache(b)' <=> InCache(b)
                        /\ InEviction(b)' <=> InEviction(b)
  <2> TAKE b \in Blocks
  <2>1. InSlot(b)' <=> InSlot(b)
    BY DEF InSlot, dev
  <2>2. InWork(b)' <=> InWork(b)
    BY <1>1, <1>2, <1>3 DEF InWork, Busy
  <2>3. InCache(b)' <=> InCache(b)
    BY <1>2 DEF InCache, At, Busy, dev
  <2>4. InEviction(b)' <=> InEviction(b)
    BY <1>4 DEF InEviction
  <2> QED BY <2>1, <2>2, <2>3, <2>4
<1>6. Owned' /\ Apart'
  BY <1>5 DEF HeapInv, Owned, Apart, InUseOutsideSlots, dev, memory
<1>7. Measured'
  BY <1>1, <1>3, <1>5 DEF HeapInv, Measured, Busy, dev, memory
<1>8. Writing'
  BY <1>1, <1>2, <1>4 DEF Writing, WriteLabels, Busy
<1> QED BY <1>6, <1>7, <1>8 DEF HeapInv, Filled, dev, memory

LEMMA HeapModule == ASSUME LockInv, TypeInv, HeapInv, Module PROVE HeapInv'
<1> USE DEF dev, memory, files, locals
<1>1. ASSUME NEW f \in Files, aesd_open(f) \/ aesd_release(f) PROVE HeapInv'
  <2>1. UNCHANGED <<dev, memory, loaded, pc, args, ptr, free_buffer>>
    BY <1>1 DEF aesd_open, aesd_release
  <2> QED BY <2>1 DEF HeapInv, Owned, Apart, Measured, Writing, InSlot, InCache, InWork,
                      InEviction, InUseOutsideSlots, At, Filled
<1>2. ASSUME open = {} PROVE \A t \in Tasks : pc[t] = "idle" /\ free_buffer[t] = NULL
  BY <1>2 DEF LockInv, InUse, HeapInv, Writing
<1>3. CASE aesd_init_module
  <2>1. open = {} /\ ~ loaded
    BY <1>3 DEF aesd_init_module, LockInv, InUse
  <2>2. UNCHANGED <<memory, pc, args, ptr, free_buffer>> /\ entry_cache' = EmptyEntry
    BY <1>3 DEF aesd_init_module
  <2>3. Filled(circular_buffer)' /\ \A i \in Slots : circular_buffer'.entry[i].buffptr = NULL
    BY <1>3 DEF aesd_init_module, Filled, aesd_circular_buffer_init, EmptyEntry, Slots
  <2>4. \A b \in Blocks : ~ InSlot(b)' /\ ~ InUseOutsideSlots(b)'
    BY <1>2, <2>1, <2>2, <2>3
       DEF InSlot, InUseOutsideSlots, InCache, InWork, InEviction, EmptyEntry
  <2>5. Owned' /\ Apart'
    BY <2>1, <2>2, <2>3, <2>4 DEF HeapInv, Owned, Apart
  <2>6. Measured'
    BY <1>2, <2>1, <2>2, <2>3, <2>4 DEF Measured, InUseOutsideSlots, EmptyEntry
  <2> QED BY <2>2, <2>3, <2>5, <2>6 DEF HeapInv, Writing
<1>4. CASE aesd_cleanup_module
  <2>1. /\ open = {} /\ loaded /\ ~ loaded' /\ UNCHANGED <<dev, corrupt, pc, args, ptr, free_buffer>>
        /\ leaked' = leaked \union ({entry_cache.buffptr} \ {NULL})
    BY <1>4 DEF aesd_cleanup_module
  <2>2. \A b \in Blocks : heap'[b] = IF InSlot(b) THEN NULL ELSE heap[b]
    BY <1>4 DEF aesd_cleanup_module, InSlot
  <2>3. \A b \in Blocks : InUseOutsideSlots(b) <=> entry_cache.buffptr = b
    BY <1>2, <2>1 DEF InUseOutsideSlots, InCache, InWork, InEviction, At
  <2>4. \A b \in Blocks : heap'[b] # NULL <=> b \in leaked'
    BY <2>1, <2>2, <2>3 DEF HeapInv, Owned, Apart
  <2>5. Owned' /\ Apart'
    BY <2>1, <2>4 DEF Owned, Apart
  <2>6. Measured'
    BY <1>2, <2>1 DEF HeapInv, Measured
  <2> QED BY <2>1, <2>5, <2>6 DEF HeapInv, Writing, Filled
<1> QED BY <1>1, <1>3, <1>4 DEF Module

LEMMA CallIsQuiet ==
  ASSUME TypeInv, HeapInv, NEW t \in Tasks, Call(t) PROVE \E to : Quiet(t, to)
<1> USE DEF dev, memory, files, locals
<1>1. ASSUME NEW l \in Labels \ Busy, NEW a, Enter(t, l, a),
             UNCHANGED <<dev, memory, files, ptr, free_buffer>>,
             l \in WriteLabels => a.buf \in Bufs /\ a.count = Len(a.buf)
      PROVE  \E to : Quiet(t, to)
  <2>1. /\ pc[t] = "idle" /\ pc' = [pc EXCEPT ![t] = l] /\ args' = [args EXCEPT ![t] = a]
        /\ args \in [Tasks -> ArgSet]
    BY <1>1 DEF Enter, TypeInv, CallType
  <2>2. pc[t] \notin Busy
    BY <2>1 DEF Busy
  <2>3. args'[t] = a /\ \A u \in Tasks \ {t} : args'[u] = args[u]
    BY <2>1
  <2> QED BY <1>1, <2>1, <2>2, <2>3 DEF Quiet
<1>2. PICK f \in Files :
        \/ \E s \in Bufs : CallWrite(t, f, s)
        \/ \E c \in Counts : CallRead(t, f, c)
        \/ \E o \in SeekOffsets : aesd_llseek(t, f, o)
        \/ \E c \in 0 .. Capacity, o \in CmdOffsets : CallIoctl(t, f, c, o)
  BY DEF Call
<1>3. ASSUME NEW s \in Bufs, CallWrite(t, f, s) PROVE \E to : Quiet(t, to)
  <2> DEFINE a == [NoArgs EXCEPT !.filp = f, !.buf = s, !.count = Len(s)]
  <2>1. a.buf = s /\ a.count = Len(s)
    BY DEF NoArgs
  <2>2. Enter(t, "w_lock", a) /\ UNCHANGED <<dev, memory, files, ptr, free_buffer>>
    BY <1>3 DEF CallWrite
  <2> HIDE DEF a
  <2> QED BY <1>1, <2>1, <2>2 DEF Labels, Busy
<1>4. ASSUME NEW c \in Counts, CallRead(t, f, c) PROVE \E to : Quiet(t, to)
  BY <1>1, <1>4 DEF CallRead, Labels, Busy, WriteLabels
<1>5. ASSUME NEW o \in SeekOffsets, aesd_llseek(t, f, o) PROVE \E to : Quiet(t, to)
  BY <1>1, <1>5 DEF aesd_llseek, Labels, Busy, WriteLabels
<1>6. ASSUME NEW c \in 0 .. Capacity, NEW o \in CmdOffsets, CallIoctl(t, f, c, o)
      PROVE  \E to : Quiet(t, to)
  BY <1>1, <1>6 DEF CallIoctl, Labels, Busy, WriteLabels
<1> QED BY <1>2, <1>3, <1>4, <1>5, <1>6

(* The steps of a task that is not between its copy and its accounting. *)
LEMMA IdleStepIsQuiet ==
  ASSUME TypeInv, HeapInv, NEW t \in Tasks,
         \/ Acquire(t) \/ WriteReject(t) \/ WriteUnlock(t) \/ ReadFind(t) \/ ReadSize(t)
         \/ ReadLoad(t) \/ ReadCopy(t) \/ IoctlSeek(t) \/ IoctlUnlock(t) \/ StorePosition(t)
  PROVE  \E to : Quiet(t, to)
<1> USE DEF dev, memory, files, locals
<1>1. PICK to \in Labels : pc' = [pc EXCEPT ![t] = to]
  BY DEF Acquire, WriteLock, IoctlLock, MutexLock, WriteReject, WriteUnlock, ReadFind, ReadSize,
         ReadLoad, ReadCopy, IoctlSeek, IoctlUnlock, StorePosition, Goto, Leave, Labels
<1>2. pc \in [Tasks -> Labels] /\ args \in [Tasks -> ArgSet] /\ DOMAIN ptr = Tasks
      /\ DOMAIN free_buffer = Tasks
  BY DEF TypeInv, CallType, MemoryType
<1>3. /\ pc[t] \notin Busy /\ to \notin Busy
      /\ to \in WriteLabels => pc[t] \in WriteLabels
  BY <1>1, <1>2
     DEF Acquire, WriteLock, IoctlLock, MutexLock, WriteReject, WriteUnlock, ReadFind, ReadSize,
         ReadLoad, ReadCopy, IoctlSeek, IoctlUnlock, StorePosition, Goto, Leave, Busy, WriteLabels
<1>4. UNCHANGED <<dev, memory, loaded>>
  BY DEF Acquire, WriteLock, IoctlLock, MutexLock, WriteReject, WriteUnlock, ReadFind, ReadSize,
         ReadLoad, ReadCopy, IoctlSeek, IoctlUnlock, StorePosition
<1>5. /\ ptr' = ptr \/ \E p : ptr' = [ptr EXCEPT ![t] = p]
      /\ free_buffer' = free_buffer \/ free_buffer' = [free_buffer EXCEPT ![t] = NULL]
  BY DEF Acquire, WriteLock, IoctlLock, MutexLock, WriteReject, WriteUnlock, ReadFind, ReadSize,
         ReadLoad, ReadCopy, IoctlSeek, IoctlUnlock, StorePosition, Leave
<1>6. args' = args \/ (args' = [args EXCEPT ![t] = NoArgs] /\ to = "idle")
  BY <1>1, <1>2
     DEF Acquire, WriteLock, IoctlLock, MutexLock, WriteReject, WriteUnlock, ReadFind, ReadSize,
         ReadLoad, ReadCopy, IoctlSeek, IoctlUnlock, StorePosition, Leave
<1>7. to \in WriteLabels => args'[t].buf \in Bufs /\ args'[t].count = Len(args'[t].buf)
  BY <1>3, <1>6 DEF HeapInv, Writing, WriteLabels
<1>8. \A u \in Tasks \ {t} : /\ ptr'[u] = ptr[u] /\ free_buffer'[u] = free_buffer[u]
                             /\ args'[u] = args[u]
  BY <1>2, <1>5, <1>6
<1>9. free_buffer'[t] \in {free_buffer[t], NULL}
  BY <1>2, <1>5
<1> QED BY <1>1, <1>3, <1>4, <1>7, <1>8, <1>9 DEF Quiet

---------------------------------------------------------------------------
(* A writer that holds the lock is the only owner outside the slots, apart *)
(* from the cache.                                                         *)
Solo(t) == \A u \in Tasks \ {t} : pc[u] \notin Busy /\ free_buffer[u] = NULL

LEMMA SoloNow ==
  ASSUME LockInv, HeapInv, NEW t \in Tasks, pc[t] \in Critical
  PROVE  Solo(t) /\ loaded
<1>1. \A u \in Tasks \ {t} : pc[u] \notin Critical
  BY DEF LockInv, LockOwned
<1>2. loaded
  BY DEF LockInv, InUse, Critical
<1> QED BY <1>1, <1>2 DEF Solo, Busy, Critical, HeapInv, Writing

LEMMA SoloOwners ==
  ASSUME NEW t \in Tasks, Solo(t)
  PROVE  \A b \in Blocks : /\ InCache(b) <=> entry_cache.buffptr = b /\ pc[t] \notin Busy
                           /\ InWork(b) <=> pc[t] = "w_copy" /\ ptr[t] = b
                           /\ InEviction(b) <=> free_buffer[t] = b
  BY DEF Solo, InCache, InWork, InEviction, At, Busy

LEMMA SoloOwnersNext ==
  ASSUME NEW t \in Tasks, Solo(t)'
  PROVE  \A b \in Blocks : /\ InCache(b)' <=> entry_cache'.buffptr = b /\ pc'[t] \notin Busy
                           /\ InWork(b)' <=> pc'[t] = "w_copy" /\ ptr'[t] = b
                           /\ InEviction(b)' <=> free_buffer'[t] = b
  BY DEF Solo, InCache, InWork, InEviction, At, Busy

(* A step of one writer leaves the other tasks where they were. *)
LEMMA SoloStep ==
  ASSUME TypeInv, NEW t \in Tasks, Solo(t), NEW to, pc' = [pc EXCEPT ![t] = to],
         \A u \in Tasks \ {t} : free_buffer'[u] = free_buffer[u]
  PROVE  Solo(t)' /\ pc'[t] = to
  BY DEF Solo, TypeInv, CallType

LEMMA WritingStep ==
  ASSUME TypeInv, HeapInv, NEW t \in Tasks, NEW to, pc' = [pc EXCEPT ![t] = to],
         pc[t] \in WriteLabels, args' = args,
         \A u \in Tasks \ {t} : free_buffer'[u] = free_buffer[u],
         free_buffer'[t] # NULL => to = "w_evict", to = "w_copy" => args[t].count > 0
  PROVE  Writing'
<1>1. pc \in [Tasks -> Labels] /\ Writing
  BY DEF TypeInv, CallType, HeapInv
<1> QED BY <1>1 DEF Writing

LEMMA HeapKmalloc ==
  ASSUME LockInv, TypeInv, HeapInv, NEW t \in Tasks, WriteKmalloc(t)
  PROVE  HeapInv'
<1>1. /\ pc[t] = "w_alloc" /\ pc' = [pc EXCEPT ![t] = "w_copy"] /\ entry_cache.buffptr = NULL
      /\ args[t].count > 0
      /\ UNCHANGED <<dev, leaked, corrupt, loaded, args, free_buffer>>
  BY LimitsAssumption DEF WriteKmalloc, Goto, files
<1>2. PICK b \in Blocks : /\ heap[b] = NULL /\ heap' = [heap EXCEPT ![b] = <<>>]
                          /\ ptr' = [ptr EXCEPT ![t] = b]
  BY DEF WriteKmalloc
<1>3. Solo(t) /\ loaded /\ free_buffer[t] = NULL
  BY <1>1, SoloNow DEF Critical, HeapInv, Writing
<1>4. Solo(t)' /\ pc'[t] = "w_copy" /\ ptr'[t] = b
  BY <1>1, <1>2, <1>3, SoloStep DEF TypeInv, MemoryType
<1>5. \A x \in Blocks : ~ InUseOutsideSlots(x)
  BY <1>1, <1>3, SoloOwners DEF InUseOutsideSlots
<1>6. \A x \in Blocks : InUseOutsideSlots(x)' <=> x = b
  BY <1>1, <1>3, <1>4, SoloOwnersNext DEF InUseOutsideSlots, dev, Busy
<1>7. \A x \in Blocks : InSlot(x)' <=> InSlot(x)
  BY <1>1 DEF InSlot, dev
<1>8. /\ heap \in [Blocks -> Seq(Bytes) \union {NULL}] /\ <<>> \in Seq(Bytes)
      /\ heap'[b] = <<>> /\ <<>> # NULL /\ \A x \in Blocks \ {b} : heap'[x] = heap[x]
  <2>1. <<>> \in Seq(Bytes)
    OBVIOUS
  <2>2. <<>> # NULL
    BY <2>1, FreeAssumption, Zenon
  <2> QED BY <1>2, <2>1, <2>2 DEF TypeInv, MemoryType
<1>9. ~ InSlot(b) /\ b \notin leaked
  BY <1>2, <1>3 DEF HeapInv, Owned
<1>10. Owned'
  BY <1>1, <1>3, <1>5, <1>6, <1>7, <1>8, <1>9 DEF HeapInv, Owned
<1>11. Apart'
  BY <1>1, <1>3, <1>5, <1>6, <1>7, <1>9 DEF HeapInv, Apart, dev
<1>12. Measured'
  <2>1. \A i \in Slots : circular_buffer.entry[i].buffptr \in BlockOrNull
    BY DEF TypeInv, DevType, EntrySet
  <2>2. \A i \in Slots : circular_buffer.entry[i].buffptr # b
    BY <1>9 DEF InSlot
  <2>3. \A x \in Blocks : ~ InCache(x)'
    BY <1>4, SoloOwnersNext DEF Busy
  <2>4. \A u \in Tasks : pc'[u] = "w_copy" => u = t
    BY <1>4 DEF Solo, Busy
  <2>5. Len(heap'[b]) = entry_cache.size
    BY <1>1, <1>8 DEF HeapInv, Measured
  <2> QED BY <1>1, <1>3, <1>4, <1>8, <2>1, <2>2, <2>3, <2>4, <2>5
          DEF HeapInv, Measured, BlockOrNull, dev
<1>13. Writing'
  BY <1>1, <1>3, WritingStep DEF WriteLabels
<1> QED BY <1>1, <1>10, <1>11, <1>12, <1>13 DEF HeapInv, Filled, dev

LEMMA HeapKrealloc ==
  ASSUME LockInv, TypeInv, HeapInv, NEW t \in Tasks, WriteKrealloc(t)
  PROVE  HeapInv'
<1> DEFINE old == entry_cache.buffptr
<1>1. /\ pc[t] = "w_alloc" /\ pc' = [pc EXCEPT ![t] = "w_copy"] /\ old # NULL
      /\ args[t].count > 0
      /\ UNCHANGED <<dev, leaked, loaded, args, free_buffer>>
  BY DEF WriteKrealloc, Goto, files
<1>2. Solo(t) /\ loaded /\ free_buffer[t] = NULL
  BY <1>1, SoloNow DEF Critical, HeapInv, Writing
<1>3. old \in Blocks
  BY <1>1 DEF TypeInv, DevType, EntrySet, BlockOrNull
<1>4. \A x \in Blocks : InUseOutsideSlots(x) <=> x = old
  BY <1>1, <1>2, <1>3, SoloOwners DEF InUseOutsideSlots, Busy
<1>5. heap[old] # NULL /\ Len(heap[old]) = entry_cache.size
  <2>1. InCache(old)
    BY <1>1, <1>2, <1>3, SoloOwners DEF Busy
  <2> QED BY <1>2, <1>3, <1>4, <2>1 DEF HeapInv, Owned, Measured
<1>6. PICK b \in Blocks : /\ heap[b] = NULL \/ b = old
                          /\ heap' = [heap EXCEPT ![old] = NULL, ![b] = heap[old]]
                          /\ ptr' = [ptr EXCEPT ![t] = b] /\ UNCHANGED corrupt
  BY <1>5 DEF WriteKrealloc
<1>7. Solo(t)' /\ pc'[t] = "w_copy" /\ ptr'[t] = b
  BY <1>1, <1>2, <1>6, SoloStep DEF TypeInv, MemoryType
<1>8. \A x \in Blocks : InUseOutsideSlots(x)' <=> x = b
  BY <1>1, <1>2, <1>7, SoloOwnersNext DEF InUseOutsideSlots, Busy
<1>9. \A x \in Blocks : InSlot(x)' <=> InSlot(x)
  BY <1>1 DEF InSlot, dev
<1>10. /\ heap'[b] = heap[old] /\ (old # b => heap'[old] = NULL)
       /\ \A x \in Blocks \ {b, old} : heap'[x] = heap[x]
  BY <1>3, <1>6 DEF TypeInv, MemoryType
<1>11. ~ InSlot(b) /\ b \notin leaked /\ ~ InSlot(old) /\ old \notin leaked
  BY <1>2, <1>3, <1>4, <1>6 DEF HeapInv, Owned, Apart
<1>12. Owned'
  BY <1>1, <1>2, <1>4, <1>5, <1>8, <1>9, <1>10, <1>11 DEF HeapInv, Owned
<1>13. Apart'
  BY <1>1, <1>2, <1>8, <1>9, <1>11 DEF HeapInv, Apart, dev
<1>14. Measured'
  <2>1. \A i \in Slots : circular_buffer.entry[i].buffptr \in BlockOrNull
    BY DEF TypeInv, DevType, EntrySet
  <2>2. \A i \in Slots : circular_buffer.entry[i].buffptr \notin {b, old}
    BY <1>11 DEF InSlot
  <2>3. \A x \in Blocks : ~ InCache(x)'
    BY <1>7, SoloOwnersNext DEF Busy
  <2>4. \A u \in Tasks : pc'[u] = "w_copy" => u = t
    BY <1>7 DEF Solo, Busy
  <2> QED BY <1>1, <1>2, <1>5, <1>7, <1>10, <2>1, <2>2, <2>3, <2>4
          DEF HeapInv, Measured, BlockOrNull, dev
<1>15. Writing'
  BY <1>1, <1>2, WritingStep DEF WriteLabels
<1> QED BY <1>1, <1>6, <1>12, <1>13, <1>14, <1>15 DEF HeapInv, Filled, dev

(* What a writer that is about to copy owns. *)
LEMMA AboutToCopy ==
  ASSUME LockInv, TypeInv, HeapInv, NEW t \in Tasks, pc[t] = "w_copy"
  PROVE  /\ Solo(t) /\ loaded /\ free_buffer[t] = NULL
         /\ ptr[t] \in Blocks /\ heap[ptr[t]] \in Seq(Bytes) /\ heap[ptr[t]] # NULL
         /\ Len(heap[ptr[t]]) = entry_cache.size
         /\ ~ InSlot(ptr[t]) /\ ptr[t] \notin leaked
         /\ \A x \in Blocks : InUseOutsideSlots(x) <=> x = ptr[t]
<1>1. Solo(t) /\ loaded /\ free_buffer[t] = NULL
  BY SoloNow DEF Critical, HeapInv, Writing
<1>2. ptr[t] \in Blocks /\ Len(heap[ptr[t]]) = entry_cache.size
  BY DEF HeapInv, Measured
<1>3. \A x \in Blocks : InUseOutsideSlots(x) <=> x = ptr[t]
  BY <1>1, SoloOwners DEF InUseOutsideSlots, Busy
<1>4. heap[ptr[t]] # NULL /\ ~ InSlot(ptr[t]) /\ ptr[t] \notin leaked
  BY <1>1, <1>2, <1>3 DEF HeapInv, Owned, Apart
<1> QED BY <1>1, <1>2, <1>3, <1>4 DEF TypeInv, MemoryType

LEMMA HeapFault ==
  ASSUME ~ PendingFaults, LockInv, TypeInv, HeapInv, NEW t \in Tasks, WriteFault(t)
  PROVE  HeapInv'
<1>1. /\ pc[t] = "w_copy" /\ pc' = [pc EXCEPT ![t] = "w_unlock"] /\ entry_cache.buffptr = NULL
      /\ heap' = [heap EXCEPT ![ptr[t]] = NULL] /\ ptr' = [ptr EXCEPT ![t] = NULL]
      /\ UNCHANGED <<dev, leaked, loaded, args, free_buffer>>
  BY DEF WriteFault, Goto, files
<1>2. /\ Solo(t) /\ loaded /\ free_buffer[t] = NULL
      /\ ptr[t] \in Blocks /\ heap[ptr[t]] # NULL /\ ~ InSlot(ptr[t]) /\ ptr[t] \notin leaked
      /\ \A x \in Blocks : InUseOutsideSlots(x) <=> x = ptr[t]
  BY <1>1, AboutToCopy
<1>3. ~ corrupt'
  BY <1>2, Zenon DEF WriteFault
<1>4. Solo(t)' /\ pc'[t] = "w_unlock"
  BY <1>1, <1>2, SoloStep
<1>5. \A x \in Blocks : ~ InUseOutsideSlots(x)' /\ ~ InCache(x)'
  BY <1>1, <1>2, <1>4, SoloOwnersNext DEF InUseOutsideSlots, dev
<1>6. \A x \in Blocks : InSlot(x)' <=> InSlot(x)
  BY <1>1 DEF InSlot, dev
<1>7. heap'[ptr[t]] = NULL /\ \A x \in Blocks \ {ptr[t]} : heap'[x] = heap[x]
  BY <1>1, <1>2 DEF TypeInv, MemoryType
<1>8. Owned'
  BY <1>1, <1>2, <1>5, <1>6, <1>7 DEF HeapInv, Owned
<1>9. Apart'
  BY <1>1, <1>2, <1>5, <1>6 DEF HeapInv, Apart, dev
<1>10. Measured'
  <2>1. \A i \in Slots : /\ circular_buffer.entry[i].buffptr \in BlockOrNull
                         /\ circular_buffer.entry[i].buffptr # ptr[t]
    BY <1>2 DEF TypeInv, DevType, EntrySet, InSlot
  <2>2. \A u \in Tasks : pc'[u] # "w_copy"
    BY <1>4 DEF Solo, Busy
  <2> QED BY <1>1, <1>2, <1>5, <1>7, <2>1, <2>2 DEF HeapInv, Measured, BlockOrNull, dev
<1>11. Writing'
  BY <1>1, <1>2, WritingStep DEF WriteLabels
<1> QED BY <1>1, <1>3, <1>8, <1>9, <1>10, <1>11 DEF HeapInv, Filled, dev

(* What the copy does, when the block is the unfinished command. *)
LEMMA CopyEffect ==
  ASSUME LockInv, TypeInv, HeapInv, NEW t \in Tasks, pc[t] = "w_copy", CopyFromUser(t)
  PROVE  /\ ~ corrupt'
         /\ heap' = [heap EXCEPT ![ptr[t]] = heap[ptr[t]] \o args[t].buf]
         /\ heap'[ptr[t]] = heap[ptr[t]] \o args[t].buf
         /\ heap'[ptr[t]] \in Seq(Bytes) /\ heap'[ptr[t]] # NULL
         /\ Len(heap'[ptr[t]]) = entry_cache.size + args[t].count
         /\ \A x \in Blocks \ {ptr[t]} : heap'[x] = heap[x]
         /\ entry_cache' = Copied(t) /\ Copied(t).buffptr = ptr[t]
         /\ Copied(t).size = entry_cache.size + args[t].count
<1>1. /\ ptr[t] \in Blocks /\ heap[ptr[t]] \in Seq(Bytes) /\ heap[ptr[t]] # NULL
      /\ Len(heap[ptr[t]]) = entry_cache.size
  BY AboutToCopy
<1>2. ~ Trampled(t)
  BY <1>1 DEF Trampled
<1>3. ~ corrupt'
  BY <1>2, Zenon DEF CopyFromUser
<1>4. heap' = [heap EXCEPT ![ptr[t]] = heap[ptr[t]] \o args[t].buf]
  BY <1>2 DEF CopyFromUser
<1>5. args[t].buf \in Seq(Bytes) /\ args[t].count = Len(args[t].buf)
  BY DEF TypeInv, CallType, ArgSet, HeapInv, Writing, WriteLabels
<1>6. /\ heap[ptr[t]] \o args[t].buf \in Seq(Bytes)
      /\ Len(heap[ptr[t]] \o args[t].buf) = Len(heap[ptr[t]]) + Len(args[t].buf)
  <2>1. \A p, s \in Seq(Bytes) : p \o s \in Seq(Bytes) /\ Len(p \o s) = Len(p) + Len(s)
    BY ConcatProperties
  <2> QED BY <1>1, <1>5, <2>1
<1>7. /\ heap'[ptr[t]] = heap[ptr[t]] \o args[t].buf
      /\ \A x \in Blocks \ {ptr[t]} : heap'[x] = heap[x]
  BY <1>1, <1>4 DEF TypeInv, MemoryType
<1>8. heap'[ptr[t]] # NULL
  BY <1>6, <1>7, FreeAssumption, Zenon
<1>9. entry_cache' = Copied(t)
  BY DEF CopyFromUser
<1> QED BY <1>1, <1>3, <1>4, <1>5, <1>6, <1>7, <1>8, <1>9 DEF Copied

LEMMA HeapPiece ==
  ASSUME LockInv, TypeInv, HeapInv, NEW t \in Tasks, WritePiece(t)
  PROVE  HeapInv'
<1>1. /\ pc[t] = "w_copy" /\ pc' = [pc EXCEPT ![t] = "w_unlock"] /\ CopyFromUser(t)
      /\ UNCHANGED <<circular_buffer, leaked, loaded, args, free_buffer>>
  BY DEF WritePiece, Goto, files
<1>2. /\ Solo(t) /\ loaded /\ free_buffer[t] = NULL
      /\ ptr[t] \in Blocks /\ heap[ptr[t]] # NULL /\ ~ InSlot(ptr[t]) /\ ptr[t] \notin leaked
      /\ \A x \in Blocks : InUseOutsideSlots(x) <=> x = ptr[t]
  BY <1>1, AboutToCopy
<1>3. /\ ~ corrupt' /\ heap'[ptr[t]] # NULL
      /\ Len(heap'[ptr[t]]) = entry_cache'.size /\ entry_cache'.buffptr = ptr[t]
      /\ \A x \in Blocks \ {ptr[t]} : heap'[x] = heap[x]
  BY <1>1, CopyEffect
<1>4. Solo(t)' /\ pc'[t] = "w_unlock"
  BY <1>1, <1>2, SoloStep
<1>5. \A x \in Blocks : /\ InUseOutsideSlots(x)' <=> x = ptr[t]
                        /\ InCache(x)' <=> x = ptr[t]
  BY <1>1, <1>2, <1>3, <1>4, SoloOwnersNext DEF InUseOutsideSlots, Busy
<1>6. \A x \in Blocks : InSlot(x)' <=> InSlot(x)
  BY <1>1 DEF InSlot
<1>7. Owned'
  BY <1>1, <1>2, <1>3, <1>5, <1>6 DEF HeapInv, Owned
<1>8. Apart'
  BY <1>1, <1>2, <1>5, <1>6 DEF HeapInv, Apart
<1>9. Measured'
  <2>1. \A i \in Slots : /\ circular_buffer.entry[i].buffptr \in BlockOrNull
                         /\ circular_buffer.entry[i].buffptr # ptr[t]
    BY <1>2 DEF TypeInv, DevType, EntrySet, InSlot
  <2>2. \A u \in Tasks : pc'[u] # "w_copy"
    BY <1>4 DEF Solo, Busy
  <2> QED BY <1>1, <1>2, <1>3, <1>5, <2>1, <2>2 DEF HeapInv, Measured, BlockOrNull
<1>10. Writing'
  BY <1>1, <1>2, WritingStep DEF WriteLabels
<1> QED BY <1>1, <1>3, <1>7, <1>8, <1>9, <1>10 DEF HeapInv, Filled

LEMMA HeapCommand ==
  ASSUME LockInv, TypeInv, HeapInv, NEW t \in Tasks, WriteCommand(t)
  PROVE  HeapInv'
<1> DEFINE i == circular_buffer.in_offs
           p == ptr[t]
           evicted == pointer_to_free(circular_buffer)
<1>1. /\ pc[t] = "w_copy" /\ pc' = [pc EXCEPT ![t] = "w_evict"] /\ CopyFromUser(t)
      /\ circular_buffer' = aesd_circular_buffer_add_entry(circular_buffer, Copied(t))
      /\ free_buffer' = [free_buffer EXCEPT ![t] = evicted]
      /\ UNCHANGED <<leaked, loaded, args>>
  BY DEF WriteCommand, Goto, files
<1>2. /\ Solo(t) /\ loaded /\ free_buffer[t] = NULL
      /\ p \in Blocks /\ heap[p] # NULL /\ ~ InSlot(p) /\ p \notin leaked
      /\ \A x \in Blocks : InUseOutsideSlots(x) <=> x = p
  BY <1>1, AboutToCopy
<1>3. /\ ~ corrupt' /\ heap'[p] # NULL
      /\ Len(heap'[p]) = Copied(t).size /\ Copied(t).buffptr = p /\ entry_cache' = Copied(t)
      /\ \A x \in Blocks \ {p} : heap'[x] = heap[x]
  BY <1>1, CopyEffect
<1>4. /\ i \in Slots /\ DOMAIN circular_buffer.entry = Slots
      /\ Ring(circular_buffer) /\ Filled(circular_buffer)
      /\ \A j \in Slots : circular_buffer.entry[j].buffptr \in BlockOrNull
  BY DEF TypeInv, DevType, EntrySet, Ring, HeapInv
<1>5. \A j \in Slots : circular_buffer'.entry[j] = IF j = i THEN Copied(t)
                                                    ELSE circular_buffer.entry[j]
  BY <1>1, <1>4 DEF aesd_circular_buffer_add_entry
<1>6. evicted = circular_buffer.entry[i].buffptr
  <2>1. CASE circular_buffer.full
    BY <2>1 DEF pointer_to_free
  <2>2. CASE ~ circular_buffer.full
    <3>1. circular_buffer.entry[i].buffptr = NULL
      BY <1>4, <2>2 DEF Filled, Slots
    <3> QED BY <2>2, <3>1 DEF pointer_to_free
  <2> QED BY <2>1, <2>2
<1>7. Filled(circular_buffer')
  BY <1>1, <1>2, <1>3, <1>4, AddFilled
<1>8. Solo(t)' /\ pc'[t] = "w_evict" /\ free_buffer'[t] = evicted
  <2>1. free_buffer \in [Tasks -> BlockOrNull]
    BY DEF TypeInv, MemoryType
  <2>2. free_buffer'[t] = evicted /\ \A u \in Tasks \ {t} : free_buffer'[u] = free_buffer[u]
    BY <1>1, <2>1
  <2> QED BY <1>1, <1>2, <2>2, SoloStep
<1>9. \A x \in Blocks : ~ InCache(x)' /\ (InUseOutsideSlots(x)' <=> x = evicted)
  BY <1>8, SoloOwnersNext DEF InUseOutsideSlots, Busy
<1> HIDE DEF i, p, evicted
<1>10. \A j, k \in Slots :
         /\ circular_buffer.entry[j].buffptr # NULL
         /\ circular_buffer.entry[k].buffptr = circular_buffer.entry[j].buffptr
         => j = k
  BY <1>2 DEF HeapInv, Apart
<1>11. \A j \in Slots : circular_buffer.entry[j].buffptr # p
  BY <1>2 DEF InSlot
<1>12. \A x \in Blocks : InSlot(x)' <=> x = p \/ (InSlot(x) /\ x # evicted)
  <2> TAKE x \in Blocks
  <2>1. InSlot(x)' <=> \E j \in Slots : circular_buffer'.entry[j].buffptr = x
    BY DEF InSlot
  <2>2. ASSUME x = p PROVE InSlot(x)'
    BY <1>3, <1>4, <1>5, <2>1, <2>2
  <2>3. ASSUME x # p, InSlot(x)' PROVE InSlot(x) /\ x # evicted
    <3>1. PICK j \in Slots : circular_buffer'.entry[j].buffptr = x
      BY <2>1, <2>3
    <3>2. j # i /\ circular_buffer.entry[j].buffptr = x
      BY <1>3, <1>5, <2>3, <3>1
    <3> QED BY <1>4, <1>6, <1>10, <3>2 DEF InSlot
  <2>4. ASSUME InSlot(x), x # evicted PROVE InSlot(x)'
    <3>1. PICK j \in Slots : circular_buffer.entry[j].buffptr = x
      BY <2>4 DEF InSlot
    <3>2. j # i
      BY <1>6, <2>4, <3>1
    <3> QED BY <1>5, <2>1, <3>1, <3>2
  <2> QED BY <2>2, <2>3, <2>4
<1>13. evicted = NULL \/ (evicted \in Blocks /\ InSlot(evicted) /\ evicted # p)
  BY <1>4, <1>6, <1>11 DEF InSlot, BlockOrNull
<1>14. Owned'
  BY <1>1, <1>2, <1>3, <1>9, <1>12, <1>13 DEF HeapInv, Owned
<1>15. Apart'
  <2>1. \A x \in Blocks : /\ InSlot(x)' => ~ InUseOutsideSlots(x)'
                          /\ x \in leaked' => ~ InSlot(x)' /\ ~ InUseOutsideSlots(x)'
    BY <1>1, <1>2, <1>9, <1>12, <1>13 DEF HeapInv, Apart
  <2>2. \A j, k \in Slots :
         /\ circular_buffer'.entry[j].buffptr # NULL
         /\ circular_buffer'.entry[k].buffptr = circular_buffer'.entry[j].buffptr
         => j = k
    BY <1>3, <1>5, <1>10, <1>11
  <2> QED BY <2>1, <2>2 DEF Apart
<1>16. Measured'
  <2>1. \A u \in Tasks : pc'[u] # "w_copy"
    BY <1>8 DEF Solo, Busy
  <2>2. ASSUME NEW j \in Slots, circular_buffer'.entry[j].buffptr # NULL
        PROVE  Len(heap'[circular_buffer'.entry[j].buffptr]) = circular_buffer'.entry[j].size
    <3>1. CASE j = i
      BY <1>3, <1>5, <3>1
    <3>2. CASE j # i
      <4>1. circular_buffer'.entry[j] = circular_buffer.entry[j]
        BY <1>5, <3>2
      <4>2. circular_buffer.entry[j].buffptr \in Blocks \ {p}
        BY <1>4, <1>11, <2>2, <4>1 DEF BlockOrNull
      <4>3. Len(heap[circular_buffer.entry[j].buffptr]) = circular_buffer.entry[j].size
        BY <1>2, <4>2 DEF HeapInv, Measured
      <4> QED BY <1>3, <4>1, <4>2, <4>3
    <3> QED BY <3>1, <3>2
  <2>3. entry_cache'.buffptr # NULL
    BY <1>2, <1>3
  <2> QED BY <1>9, <2>1, <2>2, <2>3 DEF Measured
<1>17. Writing'
  <2>1. \A u \in Tasks \ {t} : free_buffer'[u] = free_buffer[u]
    BY <1>1 DEF TypeInv, MemoryType
  <2> QED BY <1>1, <2>1, WritingStep DEF WriteLabels
<1> QED BY <1>3, <1>7, <1>14, <1>15, <1>16, <1>17 DEF HeapInv

LEMMA HeapEvict ==
  ASSUME LockInv, TypeInv, HeapInv, NEW t \in Tasks, WriteEvict(t)
  PROVE  HeapInv'
<1> DEFINE b == free_buffer[t]
<1>1. /\ pc[t] = "w_evict" /\ pc' = [pc EXCEPT ![t] = "w_account"]
      /\ free_buffer' = [free_buffer EXCEPT ![t] = NULL]
      /\ UNCHANGED <<circular_buffer, entry_cache, leaked, loaded, args, ptr>>
      /\ heap' = IF b = NULL THEN heap ELSE [heap EXCEPT ![b] = NULL]
  BY DEF WriteEvict, Goto, files
<1>2. Solo(t) /\ loaded
  BY <1>1, SoloNow DEF Critical
<1>3. \A x \in Blocks : ~ InCache(x) /\ (InUseOutsideSlots(x) <=> x = b)
  BY <1>1, <1>2, SoloOwners DEF InUseOutsideSlots, Busy
<1>4. b = NULL \/ (b \in Blocks /\ heap[b] # NULL /\ ~ InSlot(b) /\ b \notin leaked)
  <2>1. b \in BlockOrNull
    BY DEF TypeInv, MemoryType
  <2> QED BY <1>2, <1>3, <2>1 DEF HeapInv, Owned, Apart, BlockOrNull
<1>5. ~ corrupt'
  <2>1. ~ corrupt
    BY DEF HeapInv
  <2> QED BY <1>4, <2>1, Zenon DEF WriteEvict
<1>6. Solo(t)' /\ pc'[t] = "w_account" /\ free_buffer'[t] = NULL
  BY <1>1, <1>2, SoloStep DEF TypeInv, MemoryType
<1>7. \A x \in Blocks : ~ InCache(x)' /\ ~ InUseOutsideSlots(x)'
  BY <1>6, SoloOwnersNext DEF InUseOutsideSlots, Busy
<1>8. \A x \in Blocks : InSlot(x)' <=> InSlot(x)
  BY <1>1 DEF InSlot
<1>9. \A x \in Blocks : heap'[x] = IF x = b THEN NULL ELSE heap[x]
  BY <1>1, <1>4 DEF TypeInv, MemoryType
<1> HIDE DEF b
<1>10. Owned'
  BY <1>1, <1>2, <1>3, <1>4, <1>7, <1>8, <1>9 DEF HeapInv, Owned
<1>11. Apart'
  BY <1>1, <1>2, <1>7, <1>8 DEF HeapInv, Apart
<1>12. Measured'
  <2>1. \A j \in Slots : circular_buffer.entry[j].buffptr \in BlockOrNull
    BY DEF TypeInv, DevType, EntrySet
  <2>2. \A j \in Slots : circular_buffer.entry[j].buffptr \in Blocks
          => circular_buffer.entry[j].buffptr # b
    BY <1>4 DEF InSlot
  <2>3. \A u \in Tasks : pc'[u] # "w_copy"
    BY <1>6 DEF Solo, Busy
  <2> QED BY <1>1, <1>2, <1>7, <1>9, <2>1, <2>2, <2>3 DEF HeapInv, Measured, BlockOrNull
<1>13. Writing'
  <2>1. \A u \in Tasks \ {t} : free_buffer'[u] = free_buffer[u]
    BY <1>1 DEF TypeInv, MemoryType
  <2> QED BY <1>1, <1>6, <2>1, WritingStep DEF WriteLabels
<1> QED BY <1>1, <1>5, <1>10, <1>11, <1>12, <1>13 DEF HeapInv, Filled

LEMMA HeapAccount ==
  ASSUME LockInv, TypeInv, HeapInv, NEW t \in Tasks, WriteAccount(t)
  PROVE  HeapInv'
<1>1. /\ pc[t] = "w_account" /\ pc' = [pc EXCEPT ![t] = "w_unlock"] /\ entry_cache' = EmptyEntry
      /\ UNCHANGED <<circular_buffer, heap, leaked, corrupt, loaded, args, ptr, free_buffer>>
  BY DEF WriteAccount, Goto, memory, files
<1>2. Solo(t) /\ loaded /\ free_buffer[t] = NULL
  BY <1>1, SoloNow DEF Critical, HeapInv, Writing
<1>3. \A x \in Blocks : ~ InUseOutsideSlots(x)
  BY <1>1, <1>2, SoloOwners DEF InUseOutsideSlots, Busy
<1>4. Solo(t)' /\ pc'[t] = "w_unlock"
  BY <1>1, <1>2, SoloStep
<1>5. \A x \in Blocks : ~ InCache(x)' /\ ~ InUseOutsideSlots(x)'
  BY <1>1, <1>2, <1>4, SoloOwnersNext DEF InUseOutsideSlots, EmptyEntry
<1>6. \A x \in Blocks : InSlot(x)' <=> InSlot(x)
  BY <1>1 DEF InSlot
<1>7. Owned'
  BY <1>1, <1>2, <1>3, <1>5, <1>6 DEF HeapInv, Owned
<1>8. Apart'
  BY <1>1, <1>2, <1>5, <1>6 DEF HeapInv, Apart
<1>9. Measured'
  <2>1. \A u \in Tasks : pc'[u] # "w_copy"
    BY <1>4 DEF Solo, Busy
  <2> QED BY <1>1, <1>2, <1>5, <2>1 DEF HeapInv, Measured, EmptyEntry
<1>10. Writing'
  BY <1>1, <1>2, WritingStep DEF WriteLabels
<1> QED BY <1>1, <1>7, <1>8, <1>9, <1>10 DEF HeapInv, Filled

Orderly == ~ Signals /\ ~ PendingFaults

LEMMA HeapNext == Orderly /\ LockInv /\ TypeInv /\ HeapInv /\ [Next]_vars => HeapInv'
<1> SUFFICES ASSUME Orderly, LockInv, TypeInv, HeapInv, [Next]_vars PROVE HeapInv'
  OBVIOUS
<1>1. CASE UNCHANGED vars
  BY <1>1 DEF vars, dev, memory, files, locals, HeapInv, Owned, Apart, Measured, Writing, InSlot,
              InCache, InWork, InEviction, InUseOutsideSlots, At, Filled
<1>2. CASE Next
  <2>1. ASSUME NEW t \in Tasks, Interrupted(t) PROVE FALSE
    BY <2>1 DEF Interrupted, WriteInterrupted, IoctlInterrupted, LockInterrupted, Orderly
  <2>2. ASSUME NEW t \in Tasks, Step(t) PROVE HeapInv'
    BY <2>2, IdleStepIsQuiet, HeapQuiet, HeapKmalloc, HeapKrealloc, HeapFault, HeapPiece, HeapCommand,
       HeapEvict, HeapAccount DEF Step, Orderly
  <2>3. ASSUME NEW t \in Tasks, Acquire(t) PROVE HeapInv'
    BY <2>3, IdleStepIsQuiet, HeapQuiet
  <2>4. ASSUME NEW t \in Tasks, Call(t) PROVE HeapInv'
    BY <2>4, CallIsQuiet, HeapQuiet
  <2> QED BY <1>2, <2>1, <2>2, <2>3, <2>4, HeapModule DEF Next
<1> QED BY <1>1, <1>2

(* Every block has exactly one owner and the length its owner's size field *)
(* says, a writer keeps its arguments, and the slots in use are those the  *)
(* indices say (aesd_write, aesd_cleanup_module).                          *)
THEOREM HeapInvariant == Orderly => (Spec => [](LockInv /\ TypeInv /\ HeapInv))
<1> SUFFICES ASSUME Orderly PROVE Spec => [](LockInv /\ TypeInv /\ HeapInv)
  OBVIOUS
<1>1. Spec => []LockInv
  BY LockInvariant DEF Orderly
<1>2. LockInv /\ TypeInv /\ HeapInv /\ [Next]_vars => HeapInv'
  BY HeapNext
<1> QED BY <1>1, <1>2, TypeInvariant, HeapInit, PTL DEF Spec

(* The owners of HeapExact, block by block. *)
LEMMA OwnersAsSets ==
  ASSUME TypeInv, Writing, Measured
  PROVE  \A b \in Blocks : /\ b \in SlotBlocks <=> InSlot(b)
                           /\ b \in CacheBlocks <=> InCache(b)
                           /\ b \in WorkBlocks <=> InWork(b)
                           /\ b \in EvictedBlocks <=> InEviction(b)
<1> TAKE b \in Blocks
<1>1. b # NULL
  OBVIOUS
<1>2. b \in SlotBlocks <=> InSlot(b)
  BY <1>1 DEF SlotBlocks, InSlot
<1>3. b \in CacheBlocks <=> InCache(b)
  BY <1>1 DEF CacheBlocks, InCache
<1>4. b \in WorkBlocks <=> InWork(b)
  BY DEF WorkBlocks, InWork
<1>5. b \in EvictedBlocks <=> InEviction(b)
  BY <1>1 DEF EvictedBlocks, InEviction
<1> QED BY <1>2, <1>3, <1>4, <1>5

LEMMA OwnersAreBlocks ==
  ASSUME TypeInv, Measured
  PROVE  SlotBlocks \union CacheBlocks \union WorkBlocks \union EvictedBlocks \subseteq Blocks
<1>1. SlotBlocks \subseteq Blocks
  BY DEF SlotBlocks, TypeInv, DevType, EntrySet, BlockOrNull
<1>2. CacheBlocks \subseteq Blocks
  BY DEF CacheBlocks, TypeInv, DevType, EntrySet, BlockOrNull
<1>3. WorkBlocks \subseteq Blocks
  BY DEF WorkBlocks, Measured
<1>4. EvictedBlocks \subseteq Blocks
  BY DEF EvictedBlocks, TypeInv, MemoryType, BlockOrNull
<1> QED BY <1>1, <1>2, <1>3, <1>4

(* No block is lost, freed twice or used after it was freed, by any number *)
(* of writers, as long as no signal ends a wait for the lock and no copy   *)
(* of a further piece fails: the two ways in which aesd_write breaks it.   *)
THEOREM HeapAlwaysExact == Orderly => (Spec => []HeapExact)
<1>1. TypeInv /\ HeapInv => HeapExact
  <2> SUFFICES ASSUME TypeInv, HeapInv PROVE HeapExact
    OBVIOUS
  <2>1. Owned /\ Apart /\ Measured /\ Writing /\ leaked \subseteq Blocks
    BY DEF HeapInv, TypeInv, MemoryType
  <2>2. /\ \A b \in Blocks : /\ b \in SlotBlocks <=> InSlot(b)
                             /\ b \in CacheBlocks <=> InCache(b)
                             /\ b \in WorkBlocks <=> InWork(b)
                             /\ b \in EvictedBlocks <=> InEviction(b)
        /\ SlotBlocks \union CacheBlocks \union WorkBlocks \union EvictedBlocks \subseteq Blocks
    BY <2>1, OwnersAsSets, OwnersAreBlocks
  <2>3. {b \in Blocks : heap[b] # NULL} =
          leaked \union IF loaded THEN SlotBlocks \union CacheBlocks \union WorkBlocks
                                       \union EvictedBlocks
                        ELSE {}
    BY <2>1, <2>2 DEF Owned, InUseOutsideSlots
  <2>4. loaded =>
          /\ SlotBlocks \intersect (CacheBlocks \union WorkBlocks \union EvictedBlocks) = {}
          /\ leaked \intersect (SlotBlocks \union CacheBlocks \union WorkBlocks
                                 \union EvictedBlocks) = {}
          /\ \A b \in CacheBlocks : Len(heap[b]) = entry_cache.size
    BY <2>1, <2>2 DEF Apart, Measured, InUseOutsideSlots
  <2>5. loaded =>
          \A i, j \in Slots :
            LET b == circular_buffer.entry[i].buffptr
            IN  b # NULL => /\ Len(heap[b]) = circular_buffer.entry[i].size
                            /\ circular_buffer.entry[j].buffptr = b => i = j
    BY <2>1 DEF Apart, Measured
  <2> QED BY <2>3, <2>4, <2>5, Zenon DEF HeapExact
<1> QED BY <1>1, HeapInvariant, PTL
=============================================================================
