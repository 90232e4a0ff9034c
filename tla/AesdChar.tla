------------------------------ MODULE AesdChar ------------------------------
(***************************************************************************)
(* The /dev/aesdchar driver: tasks call read, write, llseek and ioctl on   *)
(* open files, concurrently, against one struct aesd_dev.  A step is the   *)
(* longest stretch of code in which no other task can observe or disturb   *)
(* what it touches: aesd_write and aesd_adjust_file_offset run under       *)
(* dev->lock, aesd_read and aesd_llseek run under no lock at all.          *)
(*                                                                         *)
(* Modelled from their use, not from their code: the mutex, the slab       *)
(* allocator, the user-copy functions and the VFS, which keeps a private   *)
(* copy of the file position during read, write and lseek and stores it    *)
(* back when the call succeeds.                                            *)
(***************************************************************************)
EXTENDS CircularBufferOps, FiniteSets, Sequences

CONSTANTS
  Tasks, Files,
  Writers, Readers, Seekers,   \* the tasks that call write, read, llseek and ioctl
  Blocks,         \* the heap's blocks
  Bytes, NL,      \* the bytes, and the byte '\n' among them
  Bufs,           \* byte sequences a task writes
  Counts,         \* byte counts a task asks to read
  SeekOffsets,    \* offsets a task gives lseek
  CmdOffsets,     \* write_cmd_offset a task gives the ioctl
  MaxPos,         \* bound on the position lseek may reach
  KmallocMax,     \* the largest block the allocator gives out
  MaxLeaked,      \* bound on the blocks lost by removing the module
  Signals,        \* may a signal interrupt a wait for the lock?
  PendingFaults   \* may copy_from_user fail while a command is unfinished?

ASSUME NullAssumption == NULL \notin Tasks \union Blocks \union Slots
ASSUME FreeAssumption == NULL \notin Seq(Bytes)
ASSUME RolesAssumption == Writers \union Readers \union Seekers \subseteq Tasks
ASSUME InputsAssumption == /\ Bufs \subseteq Seq(Bytes) /\ Counts \subseteq Nat
                           /\ SeekOffsets \subseteq Int /\ CmdOffsets \subseteq Nat
ASSUME LimitsAssumption == MaxPos \in Nat /\ KmallocMax \in Nat /\ MaxLeaked \in Nat
ASSUME FlagsAssumption == Signals \in BOOLEAN /\ PendingFaults \in BOOLEAN

EINVAL      == -22
ENOMEM      == -12
EFAULT      == -14
ERESTARTSYS == -512

VARIABLES
  loaded,            \* is the module inserted?
  circular_buffer, entry_cache, buffer_size, lock,   \* struct aesd_dev
  heap,              \* what has been stored in each block, NULL when free
  leaked,            \* history: blocks no pointer leads to any more
  corrupt,           \* the heap has been misused; the model stops here
  open, f_pos,       \* the open files and their positions
  pc, args,          \* where each task is, and the arguments of its call
  pos,               \* the VFS's copy of the position, *f_pos in the code
  ptr,               \* buffer_tmp in aesd_write, the source of the copy in aesd_read
  free_buffer,       \* aesd_write: what add_entry returned
  at,                \* aesd_read: entry and entry_offset
  todo,              \* aesd_read: count once clipped
  retval,
  quiet              \* history: no command completed since aesd_read's lookup

dev == <<circular_buffer, entry_cache, buffer_size>>
memory == <<heap, leaked, corrupt>>
files == <<loaded, open, f_pos>>
locals == <<pos, ptr, free_buffer, at, todo, retval, quiet>>
vars == <<dev, lock, memory, files, pc, args, locals>>

NoArgs == [filp |-> NULL, buf |-> <<>>, count |-> 0, cmd |-> 0, offset |-> 0]

Init ==
  /\ loaded = FALSE /\ lock = NULL
  /\ circular_buffer = aesd_circular_buffer_init
  /\ entry_cache = EmptyEntry /\ buffer_size = 0
  /\ heap = [b \in Blocks |-> NULL] /\ leaked = {} /\ corrupt = FALSE
  /\ open = {} /\ f_pos = [f \in Files |-> 0]
  /\ pc = [t \in Tasks |-> "idle"] /\ args = [t \in Tasks |-> NoArgs]
  /\ pos = [t \in Tasks |-> 0] /\ ptr = [t \in Tasks |-> NULL]
  /\ free_buffer = [t \in Tasks |-> NULL] /\ at = [t \in Tasks |-> NotFound]
  /\ todo = [t \in Tasks |-> 0] /\ retval = [t \in Tasks |-> 0]
  /\ quiet = [t \in Tasks |-> FALSE]

---------------------------------------------------------------------------
(* The module and its files. *)

(* insmod; a failure to register leaves the module out and changes nothing. *)
aesd_init_module ==
  /\ ~ loaded /\ loaded' = TRUE
  /\ circular_buffer' = aesd_circular_buffer_init
  /\ entry_cache' = EmptyEntry /\ buffer_size' = 0 /\ lock' = NULL
  /\ UNCHANGED <<memory, open, f_pos, pc, args, locals>>

(* rmmod, which the kernel refuses while a file is open: the blocks in the *)
(* slots are freed, an unfinished command's is not.                        *)
aesd_cleanup_module ==
  /\ loaded /\ open = {} /\ loaded' = FALSE
  /\ heap' = [b \in Blocks |-> IF \E i \in Slots : circular_buffer.entry[i].buffptr = b
                               THEN NULL ELSE heap[b]]
  /\ leaked' = leaked \union ({entry_cache.buffptr} \ {NULL})
  /\ Cardinality(leaked') <= MaxLeaked
  /\ UNCHANGED <<dev, lock, corrupt, open, f_pos, pc, args, locals>>

aesd_open(f) ==
  /\ loaded /\ f \notin open
  /\ open' = open \union {f} /\ f_pos' = [f_pos EXCEPT ![f] = 0]
  /\ UNCHANGED <<dev, lock, memory, loaded, pc, args, locals>>

(* The kernel releases a file once no call is using it. *)
aesd_release(f) ==
  /\ f \in open /\ \A t \in Tasks : pc[t] # "idle" => args[t].filp # f
  /\ open' = open \ {f} /\ f_pos' = [f_pos EXCEPT ![f] = 0]
  /\ UNCHANGED <<dev, lock, memory, loaded, pc, args, locals>>

(* Task t enters the driver at label l with arguments a. *)
Enter(t, l, a) ==
  /\ pc[t] = "idle" /\ a.filp \in open
  /\ pc' = [pc EXCEPT ![t] = l] /\ args' = [args EXCEPT ![t] = a]

Goto(t, from, to) == pc[t] = from /\ pc' = [pc EXCEPT ![t] = to]

Return(t, r) == retval' = [retval EXCEPT ![t] = r]

(* Task t leaves the driver; its locals go with its stack frame. *)
Leave(t) ==
  /\ pc' = [pc EXCEPT ![t] = "idle"] /\ args' = [args EXCEPT ![t] = NoArgs]
  /\ pos' = [pos EXCEPT ![t] = 0] /\ ptr' = [ptr EXCEPT ![t] = NULL]
  /\ free_buffer' = [free_buffer EXCEPT ![t] = NULL]
  /\ at' = [at EXCEPT ![t] = NotFound] /\ todo' = [todo EXCEPT ![t] = 0]
  /\ retval' = [retval EXCEPT ![t] = 0] /\ quiet' = [quiet EXCEPT ![t] = FALSE]

(* A call that succeeded stores its position in the file: aesd_llseek does *)
(* so itself, after a read or a write the VFS does.                        *)
StorePosition(t) ==
  /\ pc[t] = "vfs" /\ Leave(t)
  /\ f_pos' = IF retval[t] >= 0 THEN [f_pos EXCEPT ![args[t].filp] = pos[t]] ELSE f_pos
  /\ UNCHANGED <<dev, lock, memory, loaded, open>>

---------------------------------------------------------------------------
(* mutex_lock_interruptible and mutex_unlock, shared by write and ioctl.   *)

MutexLock(t, from, to) ==
  /\ lock = NULL /\ lock' = t /\ Goto(t, from, to)
  /\ UNCHANGED <<dev, memory, files, args, locals>>

(* A signal ends the wait, and the code jumps to the label that unlocks. *)
LockInterrupted(t, from, to) ==
  /\ Signals /\ lock # NULL /\ Goto(t, from, to) /\ Return(t, ERESTARTSYS)
  /\ UNCHANGED <<dev, lock, memory, files, args, pos, ptr, free_buffer, at, todo, quiet>>

---------------------------------------------------------------------------
(* aesd_write *)

CallWrite(t, f, s) ==
  /\ Enter(t, "w_lock", [NoArgs EXCEPT !.filp = f, !.buf = s, !.count = Len(s)])
  /\ UNCHANGED <<dev, lock, memory, files, locals>>

WriteLock(t) == MutexLock(t, "w_lock", "w_alloc")

WriteInterrupted(t) == LockInterrupted(t, "w_lock", "w_unlock")

(* Mutant: the error returns without unlocking. *)
WriteRejectLocked(t) ==
  /\ Goto(t, "w_alloc", "vfs")
  /\ Return(t, IF args[t].count = 0 THEN EINVAL ELSE ENOMEM)
  /\ UNCHANGED <<dev, lock, memory, files, args, pos, ptr, free_buffer, at, todo, quiet>>

(* An empty write, or an allocation that fails. *)
WriteReject(t) ==
  /\ Goto(t, "w_alloc", "w_unlock")
  /\ Return(t, IF args[t].count = 0 THEN EINVAL ELSE ENOMEM)
  /\ UNCHANGED <<dev, lock, memory, files, args, pos, ptr, free_buffer, at, todo, quiet>>

(* The first piece of a command gets a block of its own. *)
WriteKmalloc(t) ==
  /\ Goto(t, "w_alloc", "w_copy")
  /\ entry_cache.buffptr = NULL /\ args[t].count \in 1 .. KmallocMax
  /\ \E b \in Blocks : /\ heap[b] = NULL
                       /\ heap' = [heap EXCEPT ![b] = <<>>]
                       /\ ptr' = [ptr EXCEPT ![t] = b]
  /\ UNCHANGED <<dev, lock, leaked, corrupt, files, args, pos, free_buffer, at, todo,
                 retval, quiet>>

(* A further piece grows the block, in place or by moving it. *)
WriteKrealloc(t) ==
  LET old == entry_cache.buffptr
  IN  /\ Goto(t, "w_alloc", "w_copy")
      /\ old # NULL /\ args[t].count > 0 /\ entry_cache.size + args[t].count <= KmallocMax
      /\ IF heap[old] = NULL
         THEN corrupt' = TRUE /\ UNCHANGED <<heap, ptr>>
         ELSE \E b \in Blocks :
                /\ heap[b] = NULL \/ b = old
                /\ heap' = [heap EXCEPT ![old] = NULL, ![b] = heap[old]]
                /\ ptr' = [ptr EXCEPT ![t] = b]
                /\ UNCHANGED corrupt
      /\ UNCHANGED <<dev, lock, leaked, files, args, pos, free_buffer, at, todo, retval, quiet>>

(* copy_from_user fails: the block is freed, but entry_cache keeps it. *)
WriteFault(t) ==
  /\ Goto(t, "w_copy", "w_unlock") /\ Return(t, EFAULT)
  /\ PendingFaults \/ entry_cache.buffptr = NULL
  /\ heap' = [heap EXCEPT ![ptr[t]] = NULL]
  /\ corrupt' = (heap[ptr[t]] = NULL)
  /\ ptr' = [ptr EXCEPT ![t] = NULL]
  /\ UNCHANGED <<dev, lock, leaked, files, args, pos, free_buffer, at, todo, quiet>>

(* The copy succeeds and the cache takes the block over. *)
Copied(t) == [buffptr |-> ptr[t], size |-> entry_cache.size + args[t].count]

(* The block is not the unfinished command: two writers were in here. *)
Trampled(t) == heap[ptr[t]] # NULL => Len(heap[ptr[t]]) # entry_cache.size

CopyFromUser(t) ==
  /\ heap' = IF Trampled(t) THEN heap ELSE [heap EXCEPT ![ptr[t]] = @ \o args[t].buf]
  /\ corrupt' = Trampled(t)
  /\ entry_cache' = Copied(t) /\ ptr' = [ptr EXCEPT ![t] = NULL]

EndsCommand(t) == args[t].buf[args[t].count] = NL

(* A piece that does not end the command stays in the cache. *)
WritePiece(t) ==
  /\ Goto(t, "w_copy", "w_unlock") /\ ~ EndsCommand(t) /\ CopyFromUser(t)
  /\ Return(t, args[t].count) /\ pos' = [pos EXCEPT ![t] = args[t].count]
  /\ UNCHANGED <<circular_buffer, buffer_size, lock, leaked, files, args, free_buffer, at,
                 todo, quiet>>

(* A piece that ends the command hands it to the circular buffer. *)
WriteCommand(t) ==
  /\ Goto(t, "w_copy", "w_evict") /\ EndsCommand(t) /\ CopyFromUser(t)
  /\ circular_buffer' = aesd_circular_buffer_add_entry(circular_buffer, Copied(t))
  /\ free_buffer' = [free_buffer EXCEPT ![t] = pointer_to_free(circular_buffer)]
  /\ quiet' = [u \in Tasks |-> FALSE]
  /\ UNCHANGED <<buffer_size, lock, leaked, files, args, pos, at, todo, retval>>

(* Mutant: what add_entry returned is not freed. *)
WriteEvictLeaking(t) ==
  /\ Goto(t, "w_evict", "w_account")
  /\ buffer_size' = IF free_buffer[t] = NULL THEN buffer_size
                    ELSE buffer_size - circular_buffer.entry[circular_buffer.in_offs].size
  /\ free_buffer' = [free_buffer EXCEPT ![t] = NULL]
  /\ UNCHANGED <<circular_buffer, entry_cache, lock, memory, files, args, pos, ptr, at, todo,
                 retval, quiet>>

(* Mutant: the size of the slot before the one in_offs has moved on to, the *)
(* new command's own, is subtracted.                                        *)
WriteEvictStale(t) ==
  LET b == free_buffer[t]
  IN  /\ Goto(t, "w_evict", "w_account")
      /\ IF b = NULL THEN UNCHANGED <<heap, buffer_size, corrupt>>
         ELSE /\ heap' = [heap EXCEPT ![b] = NULL] /\ corrupt' = (heap[b] = NULL)
              /\ buffer_size' = buffer_size - entry_cache.size
      /\ free_buffer' = [free_buffer EXCEPT ![t] = NULL]
      /\ UNCHANGED <<circular_buffer, entry_cache, lock, leaked, files, args, pos, ptr, at,
                     todo, retval, quiet>>

(* The evicted command is freed; the size subtracted is that of the slot   *)
(* in_offs has moved on to.                                                *)
WriteEvict(t) ==
  LET b == free_buffer[t]
  IN  /\ Goto(t, "w_evict", "w_account")
      /\ IF b = NULL THEN UNCHANGED <<heap, buffer_size, corrupt>>
         ELSE /\ heap' = [heap EXCEPT ![b] = NULL] /\ corrupt' = (heap[b] = NULL)
              /\ buffer_size' =
                   buffer_size - circular_buffer.entry[circular_buffer.in_offs].size
      /\ free_buffer' = [free_buffer EXCEPT ![t] = NULL]
      /\ UNCHANGED <<circular_buffer, entry_cache, lock, leaked, files, args, pos, ptr, at,
                     todo, retval, quiet>>

(* Mutant: the finished command stays in the cache. *)
WriteAccountKeeping(t) ==
  /\ Goto(t, "w_account", "w_unlock")
  /\ buffer_size' = buffer_size + entry_cache.size
  /\ Return(t, args[t].count) /\ pos' = [pos EXCEPT ![t] = args[t].count]
  /\ UNCHANGED <<circular_buffer, entry_cache, lock, memory, files, args, ptr, free_buffer, at,
                 todo, quiet>>

WriteAccount(t) ==
  /\ Goto(t, "w_account", "w_unlock")
  /\ buffer_size' = buffer_size + entry_cache.size /\ entry_cache' = EmptyEntry
  /\ Return(t, args[t].count) /\ pos' = [pos EXCEPT ![t] = args[t].count]
  /\ UNCHANGED <<circular_buffer, lock, memory, files, args, ptr, free_buffer, at, todo, quiet>>

WriteUnlock(t) ==
  /\ Goto(t, "w_unlock", "vfs") /\ lock' = NULL
  /\ UNCHANGED <<dev, memory, files, args, locals>>

---------------------------------------------------------------------------
(* aesd_read, which takes no lock *)

CallRead(t, f, c) ==
  /\ Enter(t, "r_find", [NoArgs EXCEPT !.filp = f, !.count = c])
  /\ pos' = [pos EXCEPT ![t] = f_pos[f]]
  /\ UNCHANGED <<dev, lock, memory, files, ptr, free_buffer, at, todo, retval, quiet>>

ReadFind(t) ==
  LET r == aesd_circular_buffer_find_entry_offset_for_fpos(circular_buffer, pos[t])
  IN  /\ Goto(t, "r_find", IF r = NotFound THEN "vfs" ELSE "r_size")
      /\ at' = [at EXCEPT ![t] = r] /\ quiet' = [quiet EXCEPT ![t] = r # NotFound]
      /\ UNCHANGED <<dev, lock, memory, files, args, pos, ptr, free_buffer, todo, retval>>

(* Mutant: the offset inside the entry is forgotten when count is clipped. *)
ReadSizeWhole(t) ==
  LET available == circular_buffer.entry[at[t].slot].size
  IN  /\ Goto(t, "r_size", "r_load")
      /\ todo' = [todo EXCEPT ![t] = Min({available, args[t].count})]
      /\ UNCHANGED <<dev, lock, memory, files, args, pos, ptr, free_buffer, at, retval, quiet>>

(* count is clipped to what the entry has left: a size_t difference, so an *)
(* entry that has shrunk below the offset clips nothing.                   *)
ReadSize(t) ==
  LET available == circular_buffer.entry[at[t].slot].size - at[t].offset
  IN  /\ Goto(t, "r_size", "r_load")
      /\ todo' = [todo EXCEPT ![t] = IF available \in 0 .. args[t].count THEN available
                                     ELSE args[t].count]
      /\ UNCHANGED <<dev, lock, memory, files, args, pos, ptr, free_buffer, at, retval, quiet>>

ReadLoad(t) ==
  /\ Goto(t, "r_load", "r_copy")
  /\ ptr' = [ptr EXCEPT ![t] = circular_buffer.entry[at[t].slot].buffptr]
  /\ UNCHANGED <<dev, lock, memory, files, args, pos, free_buffer, at, todo, retval, quiet>>

ReadCopy(t) ==
  /\ Goto(t, "r_copy", "vfs")
  /\ \/ Return(t, todo[t]) /\ pos' = [pos EXCEPT ![t] = @ + todo[t]]
     \/ Return(t, EFAULT) /\ UNCHANGED pos
  /\ UNCHANGED <<dev, lock, memory, files, args, ptr, free_buffer, at, todo, quiet>>

---------------------------------------------------------------------------
(* aesd_llseek, also without a lock: base is 0, the file's position or     *)
(* buffer_size.                                                            *)
aesd_llseek(t, f, off) ==
  /\ Enter(t, "vfs", [NoArgs EXCEPT !.filp = f])
  /\ \E base \in {0, f_pos[f], buffer_size} :
       LET newpos == base + off
       IN  /\ newpos <= MaxPos
           /\ Return(t, IF newpos < 0 THEN EINVAL ELSE newpos)
           /\ pos' = [pos EXCEPT ![t] = newpos]
  /\ UNCHANGED <<dev, lock, memory, files, ptr, free_buffer, at, todo, quiet>>

---------------------------------------------------------------------------
(* aesd_ioctl and aesd_adjust_file_offset *)

CallIoctl(t, f, c, o) ==
  /\ Enter(t, "i_lock", [NoArgs EXCEPT !.filp = f, !.cmd = c, !.offset = o])
  /\ UNCHANGED <<dev, lock, memory, files, locals>>

IoctlLock(t) == MutexLock(t, "i_lock", "i_seek")

IoctlInterrupted(t) == LockInterrupted(t, "i_lock", "i_unlock")

(* Mutant: the named command's own size is added too. *)
SlotStartInclusive(cmd) ==
  SumFunctionOnSet([i \in Slots |-> circular_buffer.entry[i].size], 0 .. cmd)

(* The position at which slot cmd starts if the slots are laid end to end  *)
(* from 0 on.                                                              *)
SlotStart(cmd) ==
  SumFunctionOnSet([i \in Slots |-> circular_buffer.entry[i].size], 0 .. cmd - 1)

SeekValid(cmd, offset) ==
  cmd \in Slots /\ offset <= circular_buffer.entry[cmd].size

IoctlSeek(t) ==
  LET a == args[t]
  IN  /\ Goto(t, "i_seek", "i_unlock")
      /\ IF SeekValid(a.cmd, a.offset)
         THEN /\ f_pos' = [f_pos EXCEPT ![a.filp] = SlotStart(a.cmd) + a.offset]
              /\ UNCHANGED retval
         ELSE Return(t, EINVAL) /\ UNCHANGED f_pos
      /\ UNCHANGED <<dev, lock, memory, loaded, open, args, pos, ptr, free_buffer, at, todo,
                     quiet>>

IoctlUnlock(t) ==
  /\ pc[t] = "i_unlock" /\ lock' = NULL /\ Leave(t)
  /\ UNCHANGED <<dev, memory, files>>

---------------------------------------------------------------------------
Module == aesd_init_module \/ aesd_cleanup_module
          \/ \E f \in Files : aesd_open(f) \/ aesd_release(f)

Call(t) ==
  \E f \in Files :
    \/ t \in Writers /\ \E s \in Bufs : CallWrite(t, f, s)
    \/ t \in Readers /\ \E c \in Counts : CallRead(t, f, c)
    \/ t \in Seekers /\ \E o \in SeekOffsets : aesd_llseek(t, f, o)
    \/ t \in Seekers /\ \E c \in 0 .. Capacity, o \in CmdOffsets : CallIoctl(t, f, c, o)

Acquire(t) == WriteLock(t) \/ IoctlLock(t)

Interrupted(t) == WriteInterrupted(t) \/ IoctlInterrupted(t)

(* What a task does inside the driver, apart from waiting for the lock. *)
Step(t) ==
  \/ WriteReject(t) \/ WriteKmalloc(t) \/ WriteKrealloc(t)
  \/ WriteFault(t) \/ WritePiece(t) \/ WriteCommand(t)
  \/ WriteEvict(t) \/ WriteAccount(t) \/ WriteUnlock(t)
  \/ ReadFind(t) \/ ReadSize(t) \/ ReadLoad(t) \/ ReadCopy(t)
  \/ IoctlSeek(t) \/ IoctlUnlock(t) \/ StorePosition(t)

Next ==
  /\ ~ corrupt
  /\ Module \/ \E t \in Tasks : Call(t) \/ Acquire(t) \/ Interrupted(t) \/ Step(t)

Spec == Init /\ [][Next]_vars

(* A task inside the driver is not abandoned by the scheduler, and the     *)
(* mutex, which queues its waiters, lets each of them in eventually.       *)
FairSpec == Spec /\ \A t \in Tasks : /\ WF_vars(~ corrupt /\ Step(t))
                                     /\ SF_vars(~ corrupt /\ Acquire(t))

---------------------------------------------------------------------------
(* Properties *)

Labels == {"idle", "vfs", "w_lock", "w_alloc", "w_copy", "w_evict", "w_account", "w_unlock",
           "r_find", "r_size", "r_load", "r_copy", "i_lock", "i_seek", "i_unlock"}

BlockOrNull == Blocks \union {NULL}

(* Every field and local has its C type, every index is in its array. *)
TypeOK ==
  /\ loaded \in BOOLEAN /\ corrupt \in BOOLEAN
  /\ circular_buffer \in [entry : [Slots -> [buffptr : BlockOrNull, size : Nat]],
                           in_offs : Slots, out_offs : Slots, full : BOOLEAN]
  /\ entry_cache \in [buffptr : BlockOrNull, size : Nat] /\ buffer_size \in Int
  /\ lock \in Tasks \union {NULL}
  /\ heap \in [Blocks -> Seq(Bytes) \union {NULL}] /\ leaked \subseteq Blocks
  /\ open \subseteq Files /\ f_pos \in [Files -> Nat]
  /\ pc \in [Tasks -> Labels]
  /\ args \in [Tasks -> [filp : Files \union {NULL}, buf : Seq(Bytes), count : Nat,
                          cmd : Nat, offset : Nat]]
  /\ pos \in [Tasks -> Int] /\ todo \in [Tasks -> Nat] /\ retval \in [Tasks -> Int]
  /\ ptr \in [Tasks -> BlockOrNull] /\ free_buffer \in [Tasks -> BlockOrNull]
  /\ at \in [Tasks -> [slot : Slots \union {NULL}, offset : Nat]]
  /\ quiet \in [Tasks -> BOOLEAN]

Critical == {"w_alloc", "w_copy", "w_evict", "w_account", "i_seek"}

(* dev->lock is a mutex: two tasks are never both in the code between      *)
(* mutex_lock_interruptible and mutex_unlock (aesd_write and               *)
(* aesd_adjust_file_offset).                                               *)
MutualExclusion == \A t, u \in Tasks : pc[t] \in Critical /\ pc[u] \in Critical => t = u

(* The mutex is owned by exactly the task that is about to unlock it, on   *)
(* every error path of aesd_write and aesd_adjust_file_offset.             *)
LockOwned == \A t \in Tasks : lock = t <=> pc[t] \in Critical \union {"w_unlock", "i_unlock"}

At(labels) == \E t \in Tasks : pc[t] \in labels

SlotBlocks == {circular_buffer.entry[i].buffptr : i \in Slots} \ {NULL}
WorkBlocks == {ptr[t] : t \in {u \in Tasks : pc[u] = "w_copy"}}
EvictedBlocks == {free_buffer[t] : t \in Tasks} \ {NULL}

(* While a command is being copied its block is buffer_tmp's; while it is  *)
(* being handed over, the circular buffer already has it.                  *)
CacheBlocks == IF At({"w_copy", "w_evict", "w_account"}) THEN {}
               ELSE {entry_cache.buffptr} \ {NULL}

(* Every allocated block has exactly one owner, every owner's block is     *)
(* allocated and as long as its size field says: nothing is freed twice,   *)
(* used after kfree or krealloc, or lost, except the unfinished command's  *)
(* block when the module is removed (aesd_write, aesd_cleanup_module).     *)
HeapExact ==
  /\ {b \in Blocks : heap[b] # NULL} =
       leaked \union IF loaded THEN SlotBlocks \union CacheBlocks \union WorkBlocks
                                    \union EvictedBlocks
                     ELSE {}
  /\ loaded =>
       /\ \A i, j \in Slots :
            LET b == circular_buffer.entry[i].buffptr
            IN  b # NULL => /\ Len(heap[b]) = circular_buffer.entry[i].size
                            /\ circular_buffer.entry[j].buffptr = b => i = j
       /\ \A b \in CacheBlocks : Len(heap[b]) = entry_cache.size
       /\ SlotBlocks \intersect (CacheBlocks \union WorkBlocks \union EvictedBlocks) = {}
       /\ leaked \intersect (SlotBlocks \union CacheBlocks \union WorkBlocks
                              \union EvictedBlocks) = {}

RetainedBytes(k) ==
  SumFunctionOnSet([j \in 1 .. Capacity |->
                      circular_buffer.entry[SlotAt(circular_buffer, j)].size], 1 .. k)

(* An aesd_read during which no command completes is about to copy the     *)
(* bytes at the file position, from memory that is still allocated: the    *)
(* block of the k-th remembered command, from the offset at which the      *)
(* commands before it end, and not past its end.                           *)
ReadExact ==
  \A t \in Tasks : pc[t] = "r_copy" /\ quiet[t] =>
    \E k \in 1 .. Retained(circular_buffer) :
      LET e == circular_buffer.entry[SlotAt(circular_buffer, k)]
      IN  /\ ptr[t] = e.buffptr /\ heap[ptr[t]] # NULL
          /\ pos[t] = RetainedBytes(k - 1) + at[t].offset /\ at[t].offset < e.size
          /\ todo[t] = Min({args[t].count, e.size - at[t].offset})

(* aesd_read copies only from memory that is allocated ("Any necessary     *)
(* locking must be performed by caller").                                  *)
ReadsLiveMemory == \A t \in Tasks : pc[t] = "r_copy" => heap[ptr[t]] # NULL

(* The size field once the write in progress has finished its arithmetic. *)
SettledSize ==
  LET oldest == circular_buffer.entry[circular_buffer.out_offs].size
  IN  buffer_size + (IF At({"w_evict", "w_account"}) THEN entry_cache.size ELSE 0)
                  - (IF EvictedBlocks # {} THEN oldest ELSE 0)

(* How far it is from the bytes stored in all but the oldest command. *)
Drift ==
  SettledSize + circular_buffer.entry[circular_buffer.out_offs].size
    - aesd_circular_buffer_size(circular_buffer)

(* buffer_size differs from the bytes stored by the size of the first      *)
(* command ever less that of the oldest one, no more: the error aesd_write *)
(* makes in subtracting a size never accumulates, so buffer_size never     *)
(* wraps below zero.                                                       *)
SizeAccounting ==
  /\ [][circular_buffer.entry[0].buffptr # NULL /\ loaded /\ loaded' => Drift' = Drift]_vars
  /\ [](buffer_size >= 0)

(* Until the buffer wraps, an accepted AESDCHAR_IOCSEEKTO to a byte inside *)
(* a command leaves the file at the position where aesd_read finds that    *)
(* byte of that command (aesd_adjust_file_offset against the lookup).      *)
SeekExact ==
  [][\A t \in Tasks :
       LET a == args[t]
       IN  /\ IoctlSeek(t) /\ circular_buffer.out_offs = 0
           /\ SeekValid(a.cmd, a.offset) /\ a.offset < circular_buffer.entry[a.cmd].size
           => aesd_circular_buffer_find_entry_offset_for_fpos(circular_buffer, f_pos'[a.filp])
                = [slot |-> a.cmd, offset |-> a.offset]]_vars

(* An accepted AESDCHAR_IOCSEEKTO leaves the file inside the command it    *)
(* names: write_cmd counts commands from the oldest on, and                *)
(* write_cmd_offset is an offset within that command.                      *)
SeekLandsInCommand ==
  [][\A t \in Tasks :
       LET a == args[t]
       IN  IoctlSeek(t) /\ SeekValid(a.cmd, a.offset)
           => aesd_circular_buffer_find_entry_offset_for_fpos(circular_buffer, f_pos'[a.filp])
                = [slot |-> SlotAt(circular_buffer, a.cmd + 1), offset |-> a.offset]]_vars

CommandsBar ==
  IF loaded THEN [k \in 1 .. Retained(circular_buffer) |->
                    heap[circular_buffer.entry[SlotAt(circular_buffer, k)].buffptr]]
  ELSE <<>>

PendingBar ==
  IF ~ loaded \/ At({"w_evict", "w_account"}) THEN <<>>
  ELSE IF At({"w_copy"}) THEN heap[ptr[CHOOSE t \in Tasks : pc[t] = "w_copy"]]
  ELSE IF entry_cache.buffptr = NULL THEN <<>> ELSE heap[entry_cache.buffptr]

(* The driver refines CommandLog: whatever the interleaving of writers,    *)
(* their pieces are joined in one order, each write enters whole or not at *)
(* all, and the last Capacity commands are kept.                           *)
Commands == INSTANCE CommandLog WITH log <- CommandsBar, pending <- PendingBar
ImplementsCommandLog == Commands!Spec

(* Every call into the driver returns, unless the heap was misused first. *)
CallsReturn == \A t \in Tasks : pc[t] # "idle" ~> pc[t] = "idle" \/ corrupt
=============================================================================
