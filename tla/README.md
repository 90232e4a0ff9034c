# TLA+ verification of the aesdchar driver and the aesdsocket server

The repository holds a Linux character driver that remembers the last ten
newline-terminated writes (`aesd-char-driver/`), a threaded TCP server that
stores what its clients send in that device and sends the device's contents
back (`server/`), and a few exercises (`examples/`, `finder-app/`). This
directory models all of it that keeps state, checks it with TLC on small
instances, and proves with TLAPS every safety invariant and action property of
the passing runs for every instance; liveness is model-checked only.

## Inventory

| Component | State | Operations | What is hard | What makes it correct |
|---|---|---|---|---|
| circular buffer (`aesd-circular-buffer.c`) | array of entries, `in_offs`, `out_offs`, `full` | init, add_entry, lookup of a position, size | empty and full look alike; wrap-around; integer widths | it is the list of the last ten entries; a position is found where concatenation puts it |
| driver (`main.c`) | `struct aesd_dev`: the buffer, the unfinished command `entry_cache`, `buffer_size`, `lock`; the kernel heap; file positions | open, release, read, write, llseek, ioctl, module init and exit | concurrent calls; read and llseek take no lock; interruptible waits; allocation and copy failures; positions stored after the call | writes are joined into commands atomically; every block has one owner; reads and seeks agree with the stored bytes; every call returns |
| server (`aesdsocket.c`) | descriptor table, global `file` and `sockfd`, `file_mutex`, per-thread locals | accept loop, `handle_client`, signal handler | one global descriptor used by all threads, half of the time outside the mutex; descriptor numbers reused; calls that block with the mutex held; failures half-way | a client gets the contents back; descriptors are returned; handlers end |
| per-client thread (`aesd_thread.c`) | per thread a growing receive buffer; one `FILE` and one mutex for all | `threadfunc` (compiled, no longer started) | buffer bounds for every way a packet is cut; end of connection; the shared position in the file | the buffer has room for the next recv; a client gets the whole file, its packet last; threads end |
| system calls (`examples/systemcalls`) | processes, their descriptors and where their output goes | `do_system`, `do_exec`, `do_exec_redirect` | a child's failure paths; what a fork copies; lost waits | true means the command ran and succeeded; one caller comes back; calls return |
| threading (`examples/threading`) | a mutex, threads and their `thread_data` | start a thread that waits, locks, waits, unlocks | competition; failing calls; a fork while the mutex is held | the mutex is released; success means so; threads end |

The components call each other in a chain: a handler's `write`, `read`,
`lseek` and `ioctl` on `/dev/aesdchar` become the driver's operations, which
call the circular buffer. The two exercises meet in a program that uses both:
a fork copies the mutex and not the threads. There are no callbacks.

### Not modelled

- `queue.h`: vendored from FreeBSD; only `SLIST_ENTRY` is used, in a type that
  nothing instantiates.
- `finder-app` and the shell scripts: sequential tools and glue around other
  programs; nothing is shared or kept between their steps.
- `autotest-validate`: returns constants.
- In the server: a start-up that fails (it only exits), syslog's own
  connection, output written while the process exits, and the locks inside the
  C library that the signal handler might find taken.
- In the exercises: stdio buffers. `do_exec` flushes stdout before it forks and
  `do_exec_redirect` does not, which decides whether buffered text is written
  twice; nothing here is about text.

## Modules

| Module | Content |
|---|---|
| `CircularBufferOps` | the functions of `aesd-circular-buffer.c` as operators over the struct; used by everything below |
| `RecentCommands` | abstract: the last `Capacity` entries, oldest first |
| `CircularBuffer` | the struct as a state machine driven by `add_entry`; refines `RecentCommands` |
| `CircularBufferLemmas` | what the operators of `CircularBufferOps` compute: slots, sums, running totals, the lookup |
| `CircularBufferProofs` | types, that refinement, the lookup and the size, for every capacity |
| `CommandLog` | abstract: bytes joined into commands, the last `Capacity` commands kept |
| `AesdChar` | the driver; refines `CommandLog` |
| `AesdCharProofs` | types, lock discipline and heap ownership of the driver, for any number of tasks |
| `AesdCommandProofs` | the refinement of `CommandLog`; what reads, seeks and `buffer_size` amount to |
| `AesdSocket` | the server, over the device seen through its system calls |
| `AesdSocketProofs` | its types, its listener and its descriptors, for any number of clients |
| `AesdEchoProofs` | what a client served by itself is sent |
| `AesdThread` | the per-client thread, with the shared file |
| `AesdThreadProofs` | its types, its buffer bound and its echo, for any number of threads |
| `SystemCalls` | `do_system`, `do_exec`, `do_exec_redirect`, over processes |
| `Threading` | the thread that holds a mutex, one mutex per process |
| `Exercises` | composes the two: one program, its children and their threads |
| `ExercisesProofs` | the safety properties of both, for any number of processes and threads |
| `MC*` | TLC's instances where values have to be defined |

### The circular buffer

`aesd_circular_buffer_find_entry_offset_for_fpos` keeps the loop's meaning:
running totals from `out_offs` on, `Retained` rounds, the first total that
exceeds the position, and the `uint16_t` that carries the result. The
`uint32_t` total is left unbounded (ten blocks of at most `KMALLOC_MAX_SIZE`
are far below 2^32). The pointer walk next to it computes nothing that is
returned and is left out.

### The driver

A task is at `idle` or at a label inside the driver. The steps are:

- `aesd_write`: `CallWrite`, `WriteLock`, then `WriteReject`, `WriteKmalloc` or
  `WriteKrealloc`, then `WriteFault`, `WritePiece` or `WriteCommand`, for a
  completed command `WriteEvict` and `WriteAccount`, and `WriteUnlock`. The
  step from the copy to `add_entry` (lines 134 to 149) is one action: it
  touches only what the lock protects until the buffer itself changes. The
  eviction and the size update are separate because `aesd_read` and
  `aesd_llseek` see them without the lock.
- `aesd_read`: `ReadFind`, `ReadSize`, `ReadLoad`, `ReadCopy`, each a separate
  look at shared memory. The lookup loop is one step, as is `add_entry`: a
  torn lookup is not modelled, and the positive claims about reads are about
  reads during which no command completes (`quiet`).
- `aesd_llseek` and the ioctl (`CallIoctl`, `IoctlLock`, `IoctlSeek`,
  `IoctlUnlock`).
- `StorePosition`: the end of a successful lseek, read or write. `aesd_llseek`
  itself stores the new `f_pos` (line 191), a step after it has looked at the
  old one and at `buffer_size`; read and write work on a copy, which the VFS
  stores after the call, so after `mutex_unlock`. A character device gets no
  position lock, and so others can come in between.

The heap maps each block to the bytes stored in it so far, or to `NULL` when
it is free. `krealloc` may stay or move. `corrupt` is set where the code would
use freed memory as the allocator's or would write a block that is not the
unfinished command; the model stops there, since nothing can be said of what
follows. Reading freed memory does not stop the model. `leaked` and `quiet`
are history. A call that changes nothing (null buffer, unknown ioctl command
or whence, failed registration) is not an action: it would be a stutter.

`Signals` allows a signal to interrupt a *contended* wait for the lock (an
uncontended `mutex_lock_interruptible` does not look at signals); the code
then runs through `mutex_unlock`, which frees the mutex whoever owns it.
`PendingFaults` allows `copy_from_user` to fail while a command is unfinished;
on a first piece it may always fail.

### The server

One action per system call of `handle_client`, over a descriptor table from
which the lowest free number is taken. Every use of the global `file` looks at
what that number means at that moment: the device, somebody's connection, or
nothing. The device's calls are atomic and succeed; a read returns at most
`bufferSize` bytes (1024 in the code) of one command, so that the next one may
start inside it. `disturbed` is history: two handlers have been at work at
once, or a library call has failed; what clients are sent (`got`) and what
their handlers have written to the device (`sent`) is recorded until then.
When the process ends, by a signal, by `accept` failing or by SIGPIPE,
everything in it is gone. Initially `file` already names `sockfd`: the trial
`open` of line 184 is closed and its number given to the socket.

Three calls block. `send`, and any other write to a connection (`WriteTo`),
may fill it, and then nobody can write to it until its client reads or leaves
(`stalled`, `ClientReads`, `ClientLeaves`); `send` does so with `file_mutex`
held. `recv`, and the `read` of line 154 when `file` has become somebody's
connection, wait for data: `BeginRecv` notes whose (`waits_on`), since a call
that has begun stays with the connection it found, whatever happens to the
number. A connection closed by one handler while another is in such a call
lives on until that call returns (`Unused`).

With `Daemon` descriptors 0 to 2 are closed (lines 264 to 266) and are the next
to be given out. `perror` then writes to whatever descriptor 2 has become: the
device, where its line ends a command, or a client's connection. The operator
`Perror` takes the descriptors its caller closes afterwards, so that a handler
that complains and then closes its connection is one step. `getpeername`
and `recv` fail because another handler has closed the descriptor
(`NoPeerName`, `RecvBadFd`) or by themselves (`NoPeerName`, `RecvError`); the
latter, like failing allocations and threads, only for the clients in
`Faulty`. A handler that finds no memory (`NoBuffer`, `NoWriteBuf`) leaves its
connection open, as the code does.

### The per-client thread

One action per step of `threadfunc` that another thread can see. The buffer is
the sequence of bytes in use, beside `totalLen` and `currentMaxSize`, so that
room is counted as the code counts it. A `recv` returns 1 to
`INIT_BUFFER_SIZE` bytes, any of them newlines; the code looks at the last
only, and after an empty first `recv` at the byte before the buffer, which may
be anything. `fread` advances the shared position and sets the end-of-file
flag when it comes short. `send` blocks, with `pMutex` held, while the client
has not read what it was sent before (`stalled`). When `realloc` fails the thread goes on without a
buffer: data makes `recv` fail, the end of the connection makes the thread
read at a null address (`RecvCrashes`).

### The exercises

`SystemCalls` follows processes from fork to wait: what they run, which
descriptors of output files they have and where their standard output leads.
`do_exec` and `do_exec_redirect` differ where the code does:

- a child whose `execv` fails exits in `do_exec` and *returns* in
  `do_exec_redirect` (lines 145 and 149), so that a second copy of the caller
  goes on, its standard output in the file, while the first waits for it to
  end and may return true when it exits with 0;
- the parent of `do_exec_redirect` never closes the file it has opened, though
  line 103 says it is closed at completion; the model lets `open` fail from
  `MaxFds` files on.

Lines 39 to 42 promise that true means an executed command, and lines 104 and
126 extend that to `do_exec_redirect`. `TrueMeansExecuted` states it of both
and is violated, by the second (`redirect`); `DoExecExecuted` states it of
`do_exec`, which keeps it whichever other children are around. `OneCaller` and
`CallsReturn` name `do_exec_redirect` as their exception.

`Threading` has one mutex per process. `Exercises` ties the two together: a
fork copies the mutex, and a mutex that was held becomes `ORPHAN` in the copy,
whose threads wait for ever; `execv` and the end of a process end its threads.
`Callers` bounds the processes whose program goes on to make calls.

## Runs

| Run | Expect | Shows |
|---|---|---|
| `ring` | pass | `TypeOK`, `FindExact`, `SizeExact`, refinement of `RecentCommands` |
| `ring_wide` | violation | a byte at offset 65536 of an entry is reported at offset 0 |
| `driver` | pass | `LockOwned`, `HeapExact`, `ReadExact`, `SizeAccounting`, `SeekExact`, refinement of `CommandLog` |
| `driver_returns` | pass | `CallsReturn`, with signals and faults |
| `driver_signal` | violation | an interrupted wait unlocks another task's mutex |
| `driver_seek` | violation | an accepted seek may land outside the command it names |
| `driver_read` | violation | an unlocked read copies from a freed block |
| `server` | pass | `TypeOK` with the owner of `file_mutex`, `IsolatedEcho`, `FdsRestored`, `ListenerKept`, `HandlersFinish`, for the daemon |
| `server_eof` | violation | a closed connection's handler never ends |
| `thread` | pass | `RoomForRecv`, `EchoExact`, `ClosedClientEnds` |
| `exercises` | pass | `OneCaller`, `Redirected`, `MutexHeld`, `DoExecExecuted`, `CallsReturn`, `ThreadsFinish` |
| `redirect` | violation | `do_exec_redirect` returns true for a command that never ran |

The violations are listed, with the comments they contradict, under
"findings" in `PROJECT.json`.

`SizeAccounting` is a finding that passes: it says how wrong `buffer_size` gets
after an eviction. It is off by the size of the first command ever less the
size of the oldest one, and that error does not grow, so it never wraps below
zero.

What `IsolatedEcho` says of a client: served alone, if its data have a newline,
it has been sent the whole contents, once and in order, when its handler comes
to close the device. If the newline is its last byte, all it has sent, in
however many pieces, is the end of that. It leaves out a device with a command
longer than 2^16 bytes (`ShortCommands`): there the second half of a command
is looked up at the wrong offset (`ring_wide`) and the client is sent its
first bytes again.

### Bounds

- `ring`: 3 slots, sizes 1, 2 and 65536. Three slots separate first, middle
  and last; every position next to an entry boundary is looked up; runs of
  additions are unbounded, since the state space closes.
- `driver`: 2 slots, 4 blocks (two stored commands, one being written, one for
  `krealloc` to move to), 2 tasks on 1 shared file, pieces `""`, `"a"` and
  `"\n"`, blocks of at most 2 bytes. That is enough for evictions, for a
  command in pieces, for one that no longer fits (`ENOMEM` for ever), and for
  commands of different sizes. One task only writes, the other does everything.
  `MaxPos` bounds llseek, `MaxLeaked` how often a block is lost by removing
  the module in the middle of a command. Blocks are symmetric.
- `driver_returns`: 1 slot, 2 blocks, one writer and two seekers. Only one
  task writes: two writers that signals let in together make `buffer_size`
  grow without bound.
- `server`: 2 clients, of which `c1` sends at most 2 chunks and `c2` 1
  (`MaxChunks`), and library calls fail for `c2` (`Faulty`); 4 descriptors
  (listener, two connections, one device), so that the table can fill up and
  descriptor 2 is reached; 2 slots. A chunk is a piece, a line, a newline with
  more behind it, or a seek request; a command has up to 3 bytes and a read
  returns at most 2 (`bufferSize`), so that reads end inside commands and the
  next one starts there. About 390,000 states, the largest run of the project.
  `server_eof` runs without `-d`, so with three more descriptors.
- `thread`: 2 threads, `INIT_BUFFER_SIZE` 2, at most 2 chunks per client. The
  buffer has to grow, the file becomes longer than the buffer, so that it is
  read in several rounds, and one thread waits while the other reads.
- `exercises`: 3 processes, 2 threads, 1 output file per process. The root and
  one child that came back (`Callers`) make calls, so that a process can have
  a child it no longer waits for beside the one it does, and a child can have
  children. With one file per process `do_exec_redirect` is not called with an
  earlier one still open; `RedirectedAlways` covers every `MaxFds`.
  `redirect` needs 2 processes and 1 thread.

### Fairness

`driver_returns`: weak fairness for the steps of a task inside the driver (the
kernel schedules a runnable task) and strong fairness for getting the lock
(the kernel's mutex queues its waiters and hands over to a starving one). None
for making calls, for signals or for the module.

`server`: weak fairness for each handler's own system calls, none for clients,
faults or signals. It suffices for `file_mutex` because a handler takes it
once. What the handlers' progress needs from outside stands in the property.
`HandlersFinish` assumes

- `ClientsRead`: no connection stays full for ever. Without it TLC finds the
  property violated: one client that does not read keeps its handler in `send`
  with the mutex held, and all other handlers with it.
- `MessagesEnd`: failing `recv`s do not go on for ever to write their messages
  into the device when it has become descriptor 2: each of them resets the
  position of whoever is reading through it. With a single faulty client it
  is not needed, with two it is.

and it excepts behaviours in which from some time on a handler is always in
the `read` of a connection (`<>[]ReadBlocked`). Without that exception the
property is violated too: `file` can come to name a connection whose client
sends nothing.

`thread`: weak fairness for every thread; it suffices for the mutex because a
thread takes it once. None for clients: `ClosedClientEnds` assumes
`ClientsRead`, and is violated without it in the same way.

`exercises`: weak fairness for a process inside one of the calls and for
commands, which are taken to end; strong fairness for a thread to get the
mutex and to release it. None for the caller, who may call, join or exit when
it likes, for the failure of a lock or unlock, or for `waitpid` failing.

Deadlock is checked in `ring` and `driver`. In `driver_returns` the model may
stop where the heap is misused; the server and the threads' process may exit,
and the program of the exercises may have ended.

## Proofs

Every theorem holds for every value of the constants that satisfies the
assumptions of its module. These are few: capacities and buffer sizes are
positive (`CapacityAssumption`, `SizeAssumption`, `BufferAssumption`), limits are natural numbers
(`LimitsAssumption`, `TableAssumption`, which also says that the table has more
than three entries; `TrafficAssumption`, `ProcsAssumption`), inputs have the types the system calls
give them (`SizesAssumption`, `InputsAssumption`, `ChunksAssumption`,
`RolesAssumption`, `FlagsAssumption`), and `NULL` and `ORPHAN` are none of the values they are
told apart from (`NullAssumption`, `FreeAssumption`, `ThreadsAssumption`).
The sets of tasks, files, blocks, clients, processes and threads may be
infinite, unless a hypothesis below says otherwise. A hypothesis stands in the
theorem itself, and the passing run of the same property satisfies it.

### The circular buffer

`CircularBufferLemmas` says what the operators compute. A running total and a
sum over slots are defined by recursion, and the library's induction theorems
cannot be used here, since they take an operator as a parameter. `SetInduction`
states induction for a *set* of naturals instead; applied to
`{n \in Nat : ...}` it gives `Totals`, the sums and `FlattenSeq` step by step.
From it:

- `SlotAtValue` and `RetainedValue` replace each `%` by a case distinction;
- `RoundsSum`: the totals along the ring and the sum in array order agree;
- `FindCorrect`: the first total above a position names the entry in which
  concatenation puts it; `FindShort` and `FindAt` are the forms the driver and
  the server use;
- `AddRoomTotals` and `AddFullTotals`: how an addition changes the totals.

`CircularBufferProofs` then proves:

- `RingInvariant`: `TypeOK` and "`full` implies `in_offs = out_offs`". The
  second part makes the refinement inductive.
- `TypeCorrect`; `Refinement`: `Spec => ImplementsRecentCommands`.
  `AddWithRoom` and `AddWhenFull` compare the list before and after slot by
  slot, and `AppendByElement` turns that into `Append` and `Tail`.
- `SizeAlwaysExact`: `Spec => []SizeExact`. It needs that slots outside the
  ring are empty (`Filled`): the code sums the whole array.
- `FindAlwaysExact`: `[]FindExact` for entries of at most 2^16 bytes. For
  longer ones it is false: `ring_wide`.

### The driver

`AesdCharProofs`:

- `TypeCorrect`, without any hypothesis: also with signals and faults no index
  leaves the array and no position becomes negative.
- `LockInvariant`, under `~ Signals` (with signals it is false, see
  `driver_signal`): the mutex is owned by exactly the task between lock and
  unlock. It needs `InUse`, that a task inside the driver has its file open
  and that no file is open while the module is out: otherwise `mutex_init` at
  the next insertion could reset a lock that is held. `LockAlwaysOwned` and
  `Exclusion` are its consequences.
- `HeapInvariant` and `HeapAlwaysExact`, under `Orderly`, that is
  `~ Signals /\ ~ PendingFaults`. `HeapExact` counts owners and is not
  inductive; `HeapInv` says who they are. A block is in a slot, in
  `entry_cache`, in the hands of the writer that has just allocated it or is
  about to free it, or leaked (`Owned`), and in one of these places only
  (`Apart`); size fields are the lengths of the blocks (`Measured`); a writer
  keeps an evicted block only until it frees it (`Writing`). `~ corrupt` is
  part of it: the driver never misuses the heap. Both hypotheses are needed:
  signals let two writers in, and a copy that fails on a further piece leaves
  `entry_cache` with a block that has been freed.

`AesdCommandProofs`, under `Orderly`:

- `Refinement`: `Spec => ImplementsCommandLog`. Each step leaves the mapped
  commands and unfinished bytes alone, or is `WritePiece` or `WriteCommand`,
  which append; the lemmas `Bars...` do this one kind of step at a time.
- `ReadAlwaysExact`: `[]ReadExact`, for `KmallocMax` up to 2^16, since the
  lookup returns its offset in 16 bits. The invariant (`ReadInv`) says that a
  reader no command has overtaken still holds what its lookup found, the slot,
  the offset, then the count, then the block; `SizeInv`, that no entry is
  longer than the largest block.
- `SeekAlwaysExact`: the action property `SeekExact`, under the same bound.
- `SizeAlwaysAccounted`: the action property `SizeAccounting`, for `Capacity`
  above 1. The invariant (`AccountInv`) fixes the error to the size of the
  first command from that command on. With a single slot the subtraction at an
  eviction takes the new command's size before it has been added, and the size
  would be negative for a moment; the code has ten slots.

### The server

`AesdSocketProofs`, for any clients and any table of more than three entries,
with faults and with or without `-d`:

- `ServerInvariant`: descriptors are -1 or in the table (`ServerInv`), counts
  and what blocking calls wait for have their types (`TrafficInv`), and every
  entry the device retains holds at least one byte (`DeviceInv`), so that a
  read that returns nothing means the end. With `MutexInv`, that `file_mutex`
  belongs to the handler between its lock and its unlock, `TypeCorrect`
  follows.
- `ListenerAlwaysKept`: the action property `ListenerKept`. While the listener
  is open no handler has its number as a connection, and `file`, which names
  it from the start, is not used before a handler has opened the device
  (`ListenerInv`).
- `OwnersInvariant` and `FdsAlwaysRestored`: `[]FdsRestored`. As long as
  handlers have been served one at a time (`Calm`) every descriptor has one
  holder: a connection its handler, the device the one handler that has opened
  it (`Owners`). A proof attempt for this found an error in the model, which
  did not close the connection when `getpeername` fails; the code does, and
  now the model does.

`AesdEchoProofs`:

- `EchoAlwaysComplete`: `Room => (Spec => []IsolatedEcho)`. `Room` says that the
  table has an entry for every client and one more: `open`'s result is not
  checked, and a handler that gets no descriptor sends nothing. The second
  condition, commands of at most 2^16 bytes, is in `IsolatedEcho` itself. The
  invariant (`EchoAt`) follows a client's data: what its handler has written is
  the end of the unfinished command, then of the newest one (`EndsWith`), and
  what the client has been sent is what precedes the position of `file`
  (`At`), which is at the end of some command or inside one. That makes a
  read of any size return the bytes that follow.

### The per-client thread

`AesdThreadProofs`, for any clients, any `INIT_BUFFER_SIZE` above zero and
packets cut into any pieces, faults included:

- `TypeCorrect`; the shared position stays within the file.
- `RoomForEveryRecv`: `Spec => []RoomForRecv`. Before `recv` the bound is what
  the theorem says; elsewhere in the loop it is replaced by two weaker ones
  (`Room`): the buffer is never smaller than what it holds, nor than
  `INIT_BUFFER_SIZE`. That is what makes doubling once enough.
- `EchoIsExact`: `Spec => []EchoExact`. The invariant (`EchoInv`) says that the
  thread at work on the file owns the mutex, that before that its buffer is
  all its client has sent, and that from then on what has been sent to the
  client, followed by what is in the buffer, is the file up to the position.
  `EchoOthers` shows once that a step of one thread leaves this of the others.

### The exercises

`ExercisesProofs`, for any processes and threads:

- `ProcInvariant`: `OneCaller` and `Redirected` with what they need: a parent
  runs the caller's program (`Family`), the child a call waits for stays that
  call's until it is collected (`Waits`), and between fork and exec a child has
  what its parent gave it (`Forks`).
  `OneCallerAlways` and `RedirectedAlways` follow.
- `DoExecAlwaysExecuted`: the action property `DoExecExecuted`, from
  `Executed`, that a child of `do_exec` that ended well ended as the command.
- `ThreadInvariant`, `MutexAlwaysHeld`, `TypeCorrect`: threads live in processes
  that run (`HomeRuns`), and the owner of a mutex is a thread at a label at
  which it holds it, in the process whose mutex it is (`OwnerHolds`); a fork
  copies the mutex without its owner and keeps both.

### Only model-checked

- Liveness: `CallsReturn` and `ThreadsFinish` of the exercises, `CallsReturn` of
  the driver, `HandlersFinish`, `ClosedClientEnds`. Fairness and `ENABLED` are
  out of the prover's reach.
- The six violations, which are counterexamples and need no proof.

## Plan

1. Done: every component that keeps state is modelled and checked; every safety
   invariant and action property of the passing runs is proved.
2. Next: weaken hypotheses where the code allows it. `SizeAccounting` and
   `HeapExact` assume no faults on a further piece, although only what follows
   such a fault is lost; `EchoAlwaysComplete` assumes room for all clients,
   although only those connected at once count.
3. Two flaws are so far only described, under "hazards": the block that
   `aesd_write` frees and keeps in `entry_cache` when a copy fails on a further
   piece (`main.c:136`), and the file `do_exec_redirect` never closes
   (`systemcalls.c:163`, against its line 103). The states are in the model
   (`PendingFaults`, `fds`); each deserves a property of its own.
4. `BytesAreTotals` and `FindInRing` of `CircularBufferProofs` say nearly the
   same as `RoundsSum` and `FindShort` and should be merged with them.
