----------------------------- MODULE AesdSocket -----------------------------
(***************************************************************************)
(* aesdsocket: a TCP server that starts one thread per connection.  A      *)
(* handler copies what its client sends to /dev/aesdchar and, after a      *)
(* newline or a seek request, sends the device's contents back.            *)
(*                                                                         *)
(* The handlers share the process: its table of file descriptors, from     *)
(* which the kernel hands out the lowest free number, and the global int   *)
(* "file", which is guarded by file_mutex in the second half of a handler  *)
(* and by nothing in the first.  One step is one system call.              *)
(*                                                                         *)
(* The device is the driver seen through its system calls, each of which   *)
(* is atomic and succeeds: the circular buffer, with the bytes themselves  *)
(* in place of their address, and the unfinished command.                  *)
(***************************************************************************)
EXTENDS CircularBufferOps, SequencesExt

CONSTANTS
  Clients,     \* connections; each is made at most once
  MaxFds,      \* size of the descriptor table
  NL,          \* the byte '\n'
  Chunks,      \* what one recv may return: [bytes, seek], seek = NULL or [cmd, offset]
  MaxChunks,   \* bound on the chunks each client sends
  bufferSize,  \* what one read of the device may return, 1024 in the code
  Daemon,      \* started with -d: descriptors 0, 1 and 2 have been closed
  Faulty       \* the clients for whom getpeername, malloc, pthread_create and recv may fail

ASSUME TableAssumption == MaxFds \in Nat /\ MaxFds > 3
ASSUME TrafficAssumption == MaxChunks \in [Clients -> Nat]
ASSUME BufferAssumption == bufferSize \in Nat \ {0}
ASSUME FlagsAssumption == Daemon \in BOOLEAN /\ Faulty \subseteq Clients

Byte == {NL} \union UNION {Range(k.bytes) : k \in Chunks}

(* recv has returned at least one byte; a seek request's numbers are read  *)
(* with %u.                                                                *)
ASSUME ChunksAssumption ==
  \A k \in Chunks : /\ k.bytes \in Seq(Byte) \ {<<>>}
                    /\ k.seek = NULL \/ k.seek \in [cmd : Nat, offset : Nat]
ASSUME NullAssumption == NULL \notin Slots \union Clients

VARIABLES
  alive,          \* the process is running
  fds,            \* its descriptor table
  sockfd, file,   \* the two global descriptors
  file_mutex,     \* the client whose handler owns it, or NULL
  ring, cache,    \* the device
  peer,           \* what each client's end of its connection does
  stalled,        \* the clients that have not read what was sent: a write to them blocks
  pc, client_sockfd, chunk, needToReopen, recv_failed, writeBuf,   \* a handler's locals
  waits_on,       \* whose data a handler's recv or read, once it has begun, waits for, or NULL
  budget,         \* chunks each client may still send
  disturbed,      \* history: two handlers have been at work at once, or a call has failed
  got, sent       \* history, until then: the bytes each client was sent, its handler wrote

server == <<sockfd, file_mutex>>
device == <<ring, cache>>
locals == <<client_sockfd, chunk, needToReopen, recv_failed, writeBuf, waits_on>>
history == <<disturbed, got, sent>>
vars == <<alive, fds, file, server, device, peer, stalled, pc, locals, budget, history>>

---------------------------------------------------------------------------
(* Descriptors *)

Free == [kind |-> "free", f_pos |-> 0, peer |-> NULL]
Device(p) == [Free EXCEPT !.kind = "device", !.f_pos = p]
Socket(c) == [Free EXCEPT !.kind = "socket", !.peer = c]
Listener  == [Free EXCEPT !.kind = "listener"]
Standard  == [Free EXCEPT !.kind = "standard"]

FreeFds == {i \in DOMAIN fds : fds[i] = Free}

(* The lowest free descriptor, or -1 when the table is full. *)
NewFd == IF FreeFds = {} THEN -1 ELSE Min(FreeFds)

Is(fd, kind) == IF fd \in DOMAIN fds THEN fds[fd].kind = kind ELSE FALSE

Closed(fd) == IF fd \in DOMAIN fds THEN [fds EXCEPT ![fd] = Free] ELSE fds

(* file = open("/dev/aesdchar"), whose result nobody looks at. *)
OpenFile ==
  /\ file' = NewFd
  /\ fds' = IF NewFd = -1 THEN fds ELSE [fds EXCEPT ![NewFd] = Device(0)]

---------------------------------------------------------------------------
(* The device *)

(* write: joined to the unfinished command, which a final newline ends. *)
DeviceWrite(s) ==
  LET all == cache \o s
  IN  IF Last(s) = NL
      THEN /\ ring' = aesd_circular_buffer_add_entry(ring, [buffptr |-> all, size |-> Len(all)])
           /\ cache' = <<>>
      ELSE cache' = all /\ UNCHANGED ring

(* read: at most count bytes of what is left of the command that holds     *)
(* position p.                                                             *)
DeviceRead(p, count) ==
  LET r == aesd_circular_buffer_find_entry_offset_for_fpos(ring, p)
      e == ring.entry[r.slot]
  IN  IF r = NotFound THEN <<>>
      ELSE SubSeq(e.buffptr, r.offset + 1,
                  IF e.size - r.offset < count THEN e.size ELSE r.offset + count)

SeekValid(s) == s.cmd \in Slots /\ s.offset <= ring.entry[s.cmd].size

SeekTarget(s) ==
  SumFunctionOnSet([i \in Slots |-> ring.entry[i].size], 0 .. s.cmd - 1) + s.offset

Contents ==
  FlattenSeq([k \in 1 .. Retained(ring) |-> ring.entry[SlotAt(ring, k)].buffptr])

---------------------------------------------------------------------------
Init ==
  /\ alive = TRUE /\ sockfd = 3 /\ file_mutex = NULL
  /\ file = 3              \* opened as a trial, closed, and its number reused
  /\ fds = [i \in 0 .. MaxFds - 1 |-> IF i = 3 THEN Listener
                                     ELSE IF i < 3 /\ ~ Daemon THEN Standard ELSE Free]
  /\ ring = aesd_circular_buffer_init /\ cache = <<>>
  /\ peer = [c \in Clients |-> "open"] /\ stalled = {}
  /\ pc = [c \in Clients |-> "none"] /\ client_sockfd = [c \in Clients |-> -1]
  /\ chunk = [c \in Clients |-> NULL] /\ needToReopen = [c \in Clients |-> FALSE]
  /\ recv_failed = [c \in Clients |-> FALSE] /\ writeBuf = [c \in Clients |-> <<>>]
  /\ waits_on = [c \in Clients |-> NULL] /\ budget = MaxChunks /\ got = [c \in Clients |-> <<>>]
  /\ sent = [c \in Clients |-> <<>>] /\ disturbed = FALSE

Goto(c, from, to) == pc[c] = from /\ pc' = [pc EXCEPT ![c] = to]

(* got, once s has been written to descriptor fd. *)
Delivered(fd, s) ==
  IF Is(fd, "socket") /\ ~ disturbed THEN [got EXCEPT ![fds[fd].peer] = @ \o s] ELSE got

(* The clients at the other end of descriptor fd: one, or none. *)
Peer(fd) == {d \in Clients : fd \in DOMAIN fds /\ fds[fd] = Socket(d)}

(* A write to fd finds room in the connection, if that is what fd is, and  *)
(* may fill it; the connections of the clients in closed are closed then.  *)
WriteTo(fd, closed) ==
  /\ Peer(fd) \cap stalled = {}
  /\ \E full \in SUBSET {d \in Peer(fd) : peer[d] = "open"} :
       stalled' = (stalled \union full) \ closed

(* perror writes a line to descriptor 2, whatever that has become: the     *)
(* terminal, a connection, the device, or nothing.  Then the descriptors   *)
(* in closed are closed.                                                   *)
Perror(closed) ==
  /\ IF Is(2, "device") THEN DeviceWrite(<<NL>>) ELSE UNCHANGED device
  /\ fds' = [i \in DOMAIN fds |-> IF i \in closed THEN Free
                                 ELSE IF i = 2 /\ Is(2, "device") THEN Device(1) ELSE fds[i]]

(* Handlers hs end: their locals go with their stacks. *)
End(hs) ==
  /\ pc' = [c \in Clients |-> IF c \in hs THEN "done" ELSE pc[c]]
  /\ client_sockfd' = [c \in Clients |-> IF c \in hs THEN -1 ELSE client_sockfd[c]]
  /\ chunk' = [c \in Clients |-> IF c \in hs THEN NULL ELSE chunk[c]]
  /\ needToReopen' = [c \in Clients |-> IF c \in hs THEN FALSE ELSE needToReopen[c]]
  /\ recv_failed' = [c \in Clients |-> IF c \in hs THEN FALSE ELSE recv_failed[c]]
  /\ writeBuf' = [c \in Clients |-> IF c \in hs THEN <<>> ELSE writeBuf[c]]
  /\ waits_on' = [c \in Clients |-> IF c \in hs THEN NULL ELSE waits_on[c]]

(* What clients hs were sent, and their handlers have written, is forgotten. *)
Forget(hs) ==
  /\ got' = [c \in Clients |-> IF c \in hs THEN <<>> ELSE got[c]]
  /\ sent' = [c \in Clients |-> IF c \in hs THEN <<>> ELSE sent[c]]

(* The connections of clients hs are closed: they have no more to say. *)
HangUp(hs) ==
  /\ budget' = [c \in Clients |-> IF c \in hs THEN 0 ELSE budget[c]]
  /\ peer' = [c \in Clients |-> IF c \in hs THEN "gone" ELSE peer[c]]

(* The connection of client c, unless another handler is in a recv or read *)
(* of it, which keeps it.                                                  *)
Unused(c) == {c} \ {waits_on[d] : d \in Clients}

(* The process ends, and takes its threads and descriptors with it.  What  *)
(* it still prints on its way out is left out.                             *)
Exit ==
  /\ alive' = FALSE /\ End(Clients) /\ HangUp(Clients) /\ Forget(Clients) /\ stalled' = {}
  /\ fds' = [i \in DOMAIN fds |-> Free]
  /\ UNCHANGED <<file, server, device, disturbed>>

Fails(c) == c \in Faulty /\ disturbed' = TRUE /\ Forget(Clients)

---------------------------------------------------------------------------
(* createTCPServer's accept loop *)

Accept(c) ==
  /\ Is(sockfd, "listener") /\ NewFd # -1 /\ peer[c] = "open" /\ Goto(c, "none", "start")
  /\ fds' = [fds EXCEPT ![NewFd] = Socket(c)]
  /\ client_sockfd' = [client_sockfd EXCEPT ![c] = NewFd]
  /\ UNCHANGED <<alive, file, server, device, peer, stalled, chunk, needToReopen, recv_failed,
                 writeBuf, waits_on, budget, history>>

(* accept fails, for want of a descriptor or of a listening socket: the    *)
(* server returns from main, and its handlers die with the process.        *)
AcceptFails(c) ==
  /\ ~ Is(sockfd, "listener") \/ NewFd = -1
  /\ pc[c] = "none" /\ peer[c] = "open" /\ Exit

(* No memory, or no thread: the connection is closed and the loop goes on. *)
ThreadFails(c) ==
  /\ Is(sockfd, "listener") /\ NewFd # -1 /\ peer[c] = "open" /\ pc[c] = "none"
  /\ End({c}) /\ HangUp({c}) /\ Perror({}) /\ WriteTo(2, {c}) /\ Fails(c)
  /\ UNCHANGED <<alive, file, server>>

(* SIGTERM or SIGINT: descriptors are closed on the way to exit. *)
signalInterruptHandler == Exit

---------------------------------------------------------------------------
(* handle_client *)

Working == {"open", "recv", "drop", "ioctl", "write", "lseek", "close", "lock", "reopen", "read",
            "send", "close_file", "unlock", "close_client"}

GetPeerName(c) ==
  /\ Goto(c, "start", "open") /\ Is(client_sockfd[c], "socket")
  /\ IF \E d \in Clients : pc[d] \in Working
     THEN disturbed' = TRUE /\ Forget(Clients) ELSE UNCHANGED <<history>>
  /\ UNCHANGED <<alive, fds, file, server, device, peer, stalled, locals, budget>>

(* getpeername fails, on a descriptor somebody has closed or by itself. *)
NoPeerName(c) ==
  /\ pc[c] = "start" /\ End({c}) /\ HangUp(Unused(c))
  /\ Perror({client_sockfd[c]}) /\ WriteTo(2, Unused(c))
  /\ \/ Fails(c)
     \/ ~ Is(client_sockfd[c], "socket") /\ Forget({c}) /\ UNCHANGED disturbed
  /\ UNCHANGED <<alive, file, server>>

(* Mutant: the handler uses the descriptor that is there. *)
HandlerStartReusing(c) ==
  /\ Goto(c, "open", "recv")
  /\ UNCHANGED <<alive, fds, file, server, device, peer, stalled, locals, budget, history>>

HandlerStart(c) ==
  /\ Goto(c, "open", "recv") /\ OpenFile
  /\ UNCHANGED <<alive, server, device, peer, stalled, locals, budget, history>>

(* No memory for the receive buffer: it is the listening socket that is    *)
(* closed.                                                                 *)
NoBuffer(c) ==
  /\ pc[c] = "open" /\ End({c}) /\ Fails(c) /\ fds' = Closed(sockfd)
  /\ UNCHANGED <<alive, file, server, device, peer, stalled, budget>>

(* recv, or the read of file when that number has become a connection,     *)
(* begins: whatever the number comes to mean, the call stays with the      *)
(* connection it has found.                                                *)
BeginRecv(c) ==
  /\ pc[c] \in {"recv", "read"} /\ waits_on[c] = NULL
  /\ \E d \in Peer(IF pc[c] = "recv" THEN client_sockfd[c] ELSE file) :
       waits_on' = [waits_on EXCEPT ![c] = d]
  /\ UNCHANGED <<alive, fds, file, server, device, peer, stalled, pc, client_sockfd, chunk,
                 needToReopen, recv_failed, writeBuf, budget, history>>

(* recv returns data of that connection. *)
RecvData(c, k) ==
  LET d == waits_on[c]
  IN  /\ d # NULL /\ peer[d] = "open" /\ budget[d] > 0
      /\ Goto(c, "recv", IF recv_failed[c] THEN "drop"
                         ELSE IF k.seek # NULL THEN "ioctl" ELSE "write")
      /\ chunk' = [chunk EXCEPT ![c] = k] /\ budget' = [budget EXCEPT ![d] = @ - 1]
      /\ waits_on' = [waits_on EXCEPT ![c] = NULL]
      /\ UNCHANGED <<alive, fds, file, server, device, peer, stalled, client_sockfd, needToReopen,
                     recv_failed, writeBuf, history>>

(* recv returns 0 because the client has closed: the flag is set and the   *)
(* loop calls recv again.                                                  *)
RecvClosed(c) ==
  /\ pc[c] = "recv" /\ waits_on[c] # NULL /\ peer[waits_on[c]] # "open"
  /\ recv_failed' = [recv_failed EXCEPT ![c] = TRUE]
  /\ waits_on' = [waits_on EXCEPT ![c] = NULL]
  /\ UNCHANGED <<alive, fds, file, server, device, peer, stalled, pc, client_sockfd, chunk,
                 needToReopen, writeBuf, budget, history>>

(* recv returns -1; this too the loop only notes. *)
RecvFailed(c) ==
  /\ pc[c] = "recv" /\ recv_failed' = [recv_failed EXCEPT ![c] = TRUE]
  /\ waits_on' = [waits_on EXCEPT ![c] = NULL]
  /\ Perror({}) /\ WriteTo(2, {})
  /\ UNCHANGED <<alive, file, server, peer, pc, client_sockfd, chunk, needToReopen, writeBuf,
                 budget>>

(* It does so because the descriptor is no longer a socket, *)
RecvBadFd(c) ==
  /\ waits_on[c] = NULL /\ ~ Is(client_sockfd[c], "socket")
  /\ RecvFailed(c) /\ UNCHANGED history

(* or in passing, on a good connection. *)
RecvError(c) == waits_on[c] # NULL /\ RecvFailed(c) /\ Fails(c)

(* Data after a failed recv: file is closed and the data dropped. *)
DropData(c) ==
  /\ Goto(c, "drop", "lock") /\ fds' = Closed(file)
  /\ needToReopen' = [needToReopen EXCEPT ![c] = FALSE]
  /\ UNCHANGED <<alive, file, server, device, peer, stalled, client_sockfd, chunk, recv_failed,
                 writeBuf, waits_on, budget, history>>

IoctlFile(c) ==
  LET s == chunk[c].seek
  IN  /\ Goto(c, "ioctl", "lock")
      /\ fds' = IF Is(file, "device") /\ SeekValid(s)
                THEN [fds EXCEPT ![file].f_pos = SeekTarget(s)] ELSE fds
      /\ needToReopen' = [needToReopen EXCEPT ![c] = FALSE]
      /\ UNCHANGED <<alive, file, server, device, peer, stalled, client_sockfd, chunk, recv_failed,
                     writeBuf, waits_on, budget, history>>

(* write(file): to the device, to a client if that is what the number      *)
(* means by now, or nowhere.                                               *)
WriteFile(c) ==
  LET s == chunk[c].bytes
  IN  /\ Goto(c, "write", IF NL \in Range(s) THEN "lseek" ELSE "recv")
      /\ IF Is(file, "device")
         THEN DeviceWrite(s) /\ fds' = [fds EXCEPT ![file].f_pos = Len(s)] /\ UNCHANGED got
         ELSE got' = Delivered(file, s) /\ UNCHANGED <<device, fds>>
      /\ sent' = IF disturbed THEN sent ELSE [sent EXCEPT ![c] = @ \o s]
      /\ WriteTo(file, {})
      /\ UNCHANGED <<alive, file, server, peer, locals, budget, disturbed>>

LseekFile(c) ==
  /\ Goto(c, "lseek", "close")
  /\ fds' = IF Is(file, "device") THEN [fds EXCEPT ![file].f_pos = 0] ELSE fds
  /\ UNCHANGED <<alive, file, server, device, peer, stalled, locals, budget, history>>

CloseAfterWrite(c) ==
  /\ Goto(c, "close", "lock") /\ fds' = Closed(file)
  /\ needToReopen' = [needToReopen EXCEPT ![c] = TRUE]
  /\ UNCHANGED <<alive, file, server, device, peer, stalled, client_sockfd, chunk, recv_failed,
                 writeBuf, waits_on, budget, history>>

LockMutex(c) ==
  /\ file_mutex = NULL /\ file_mutex' = c /\ Goto(c, "lock", "reopen")
  /\ UNCHANGED <<alive, fds, file, sockfd, device, peer, stalled, locals, budget, history>>

(* Mutant: the mutex stays locked. *)
NoWriteBufLocked(c) ==
  /\ pc[c] = "reopen" /\ End({c}) /\ Fails(c)
  /\ UNCHANGED <<alive, fds, file, server, device, peer, stalled, budget>>

(* No memory for writeBuf: the mutex is released, the connection is not    *)
(* closed.                                                                 *)
NoWriteBuf(c) ==
  /\ pc[c] = "reopen" /\ file_mutex' = NULL /\ End({c}) /\ Fails(c)
  /\ UNCHANGED <<alive, fds, file, sockfd, device, peer, stalled, budget>>

(* Mutant: the device is never opened again. *)
ReopenSkipped(c) ==
  /\ Goto(c, "reopen", "read")
  /\ UNCHANGED <<alive, fds, file, server, device, peer, stalled, locals, budget, history>>

Reopen(c) ==
  /\ Goto(c, "reopen", "read")
  /\ IF needToReopen[c] THEN OpenFile ELSE UNCHANGED <<file, fds>>
  /\ UNCHANGED <<alive, server, device, peer, stalled, locals, budget, history>>

(* read(file): from the device, or from something that cannot be read. *)
ReadFile(c) ==
  LET s == IF Is(file, "device") THEN DeviceRead(fds[file].f_pos, bufferSize) ELSE <<>>
  IN  /\ Goto(c, "read", IF s = <<>> THEN "close_file" ELSE "send")
      /\ waits_on[c] = NULL /\ ~ Is(file, "socket")
      /\ writeBuf' = [writeBuf EXCEPT ![c] = s]
      /\ fds' = IF s = <<>> THEN fds ELSE [fds EXCEPT ![file].f_pos = @ + Len(s)]
      /\ UNCHANGED <<alive, file, server, device, peer, stalled, client_sockfd, chunk, needToReopen,
                     recv_failed, waits_on, budget, history>>

(* read of a connection: it takes what that client sends, and until then   *)
(* it blocks,                                                              *)
ReadSocket(c, k) ==
  LET d == waits_on[c]
  IN  /\ d # NULL /\ peer[d] = "open" /\ budget[d] > 0 /\ Goto(c, "read", "send")
      /\ writeBuf' = [writeBuf EXCEPT ![c] = k.bytes]
      /\ budget' = [budget EXCEPT ![d] = @ - 1] /\ waits_on' = [waits_on EXCEPT ![c] = NULL]
      /\ UNCHANGED <<alive, fds, file, server, device, peer, stalled, client_sockfd, chunk,
                     needToReopen, recv_failed, history>>

(* or that client leaves. *)
ReadClosed(c) ==
  /\ Goto(c, "read", "close_file") /\ waits_on[c] # NULL /\ peer[waits_on[c]] # "open"
  /\ waits_on' = [waits_on EXCEPT ![c] = NULL]
  /\ UNCHANGED <<alive, fds, file, server, device, peer, stalled, client_sockfd, chunk,
                 needToReopen, recv_failed, writeBuf, budget, history>>

(* send, with file_mutex held: it blocks while the client does not read. *)
Send(c) ==
  /\ Goto(c, "send", "read") /\ got' = Delivered(client_sockfd[c], writeBuf[c])
  /\ WriteTo(client_sockfd[c], {})
  /\ writeBuf' = [writeBuf EXCEPT ![c] = <<>>]
  /\ UNCHANGED <<alive, fds, file, server, device, peer, client_sockfd, chunk,
                 needToReopen, recv_failed, waits_on, budget, disturbed, sent>>

(* Writing to a client that has gone raises SIGPIPE, which nothing handles. *)
WritesTo(c, fd) ==
  \/ pc[c] = "send" /\ fd = client_sockfd[c]
  \/ pc[c] = "write" /\ fd = file
  \/ /\ pc[c] \in {"start", "recv"} /\ waits_on[c] = NULL
     /\ ~ Is(client_sockfd[c], "socket") /\ fd = 2
  \/ pc[c] \in {"none", "start", "recv"} /\ c \in Faulty /\ fd = 2

SendKills(c) ==
  /\ \E fd \in DOMAIN fds : WritesTo(c, fd) /\ Is(fd, "socket") /\ peer[fds[fd].peer] = "gone"
  /\ Exit

(* Mutant: file is left open. *)
CloseFileSkipped(c) ==
  /\ Goto(c, "close_file", "unlock")
  /\ UNCHANGED <<alive, fds, file, server, device, peer, stalled, locals, budget, history>>

CloseFile(c) ==
  /\ Goto(c, "close_file", "unlock") /\ fds' = Closed(file)
  /\ UNCHANGED <<alive, file, server, device, peer, stalled, locals, budget, history>>

UnlockMutex(c) ==
  /\ Goto(c, "unlock", "close_client") /\ file_mutex' = NULL
  /\ UNCHANGED <<alive, fds, file, sockfd, device, peer, stalled, locals, budget, history>>

CloseClient(c) ==
  /\ pc[c] = "close_client" /\ End({c}) /\ HangUp(Unused(c)) /\ Forget({c})
  /\ stalled' = stalled \ Unused(c)
  /\ fds' = Closed(client_sockfd[c])
  /\ UNCHANGED <<alive, file, server, device, disturbed>>

---------------------------------------------------------------------------
(* A client goes away, which wakes a send that waits for it, *)
ClientLeaves(c) ==
  /\ pc[c] # "none" /\ peer[c] = "open" /\ peer' = [peer EXCEPT ![c] = "gone"]
  /\ stalled' = stalled \ {c}
  /\ UNCHANGED <<alive, fds, file, server, device, pc, locals, budget, history>>

(* or reads what it has been sent. *)
ClientReads(c) ==
  /\ c \in stalled /\ stalled' = stalled \ {c}
  /\ UNCHANGED <<alive, fds, file, server, device, peer, pc, locals, budget, history>>

(* What the handler thread of c does by itself. *)
HandlerStep(c) ==
  \/ GetPeerName(c) \/ HandlerStart(c) \/ BeginRecv(c) \/ RecvClosed(c) \/ RecvBadFd(c)
  \/ DropData(c) \/ IoctlFile(c) \/ WriteFile(c) \/ LseekFile(c) \/ CloseAfterWrite(c)
  \/ LockMutex(c) \/ Reopen(c) \/ ReadFile(c) \/ ReadClosed(c) \/ Send(c) \/ CloseFile(c)
  \/ UnlockMutex(c) \/ CloseClient(c)

Fault(c) ==
  ThreadFails(c) \/ NoPeerName(c) \/ NoBuffer(c) \/ RecvError(c) \/ NoWriteBuf(c)

Next ==
  /\ alive
  /\ \/ signalInterruptHandler
     \/ \E c \in Clients :
          \/ Accept(c) \/ AcceptFails(c) \/ ClientLeaves(c) \/ ClientReads(c) \/ SendKills(c)
          \/ \E k \in Chunks : RecvData(c, k) \/ ReadSocket(c, k)
          \/ Fault(c) \/ HandlerStep(c)

Spec == Init /\ [][Next]_vars

(* Every thread runs; nothing makes a client connect, send, read or leave. *)
FairSpec == Spec /\ \A c \in Clients : WF_vars(alive /\ HandlerStep(c))

---------------------------------------------------------------------------
(* Properties *)

Labels == Working \union {"none", "start", "done"}

Locked == {"reopen", "read", "send", "close_file", "unlock"}

(* Descriptors are -1 or inside the table, handlers at one of their calls, *)
(* and file_mutex belongs to the handler that is between its lock and its  *)
(* unlock, whichever way that one leaves.                                  *)
TypeOK ==
  /\ alive \in BOOLEAN /\ disturbed \in BOOLEAN
  /\ \A i \in DOMAIN fds :
       fds[i] \in [kind : {"free", "device", "socket", "listener", "standard"}, f_pos : Nat,
                  peer : Clients \union {NULL}]
  /\ file \in -1 .. MaxFds - 1 /\ sockfd = 3 /\ file_mutex \in Clients \union {NULL}
  /\ \A c \in Clients : /\ pc[c] \in Labels /\ client_sockfd[c] \in -1 .. MaxFds - 1
                        /\ peer[c] \in {"open", "gone"} /\ budget[c] \in 0 .. MaxChunks[c]
                        /\ needToReopen[c] \in BOOLEAN /\ recv_failed[c] \in BOOLEAN
                        /\ waits_on[c] \in Clients \union {NULL}
                        /\ alive => (file_mutex = c <=> pc[c] \in Locked)
  /\ stalled \subseteq Clients

(* No command is longer than the 16 bits of an offset inside it can tell. *)
ShortCommands == \A i \in Slots : ring.entry[i].size <= 2^16

(* Served one at a time, a client whose data has a newline is sent all     *)
(* that the device holds, once and in order, in reads that may end inside  *)
(* a command; and if the newline is its last byte, everything it has sent, *)
(* in however many pieces, is the last of it (handle_client from recv to   *)
(* the end of the read loop, through the driver's lookup).                 *)
IsolatedEcho ==
  \A c \in Clients :
    pc[c] = "close_file" /\ needToReopen[c] /\ ~ disturbed /\ ShortCommands =>
      /\ got[c] = Contents
      /\ Last(chunk[c].bytes) = NL => IsSuffix(sent[c], got[c])

(* Served one at a time, handlers give back every descriptor they took,    *)
(* whichever way they leave the receive loop: the table does not fill up   *)
(* and accept does not start failing.                                      *)
FdsRestored ==
  alive /\ ~ disturbed /\ (\A c \in Clients : pc[c] \in {"none", "done"})
    => \A i \in DOMAIN fds : fds[i] \in {Free, Standard} \/ i = sockfd

(* Whatever handlers close by a number that has changed its meaning, the   *)
(* listening socket, whose number "file" starts with, stays open while the *)
(* server runs: only a handler without memory for its buffer closes it.    *)
ListenerKept ==
  [][Is(sockfd, "listener") /\ alive' =>
       fds'[sockfd] = Listener \/ \E c \in Clients : NoBuffer(c)]_vars

(* The clients keep reading: no connection stays full for ever. *)
ClientsRead == \A c \in Clients : []<>(c \notin stalled)

(* Failing recvs do not go on for ever to put their messages into the      *)
(* device, which has become descriptor 2, and to move the position of      *)
(* those who read it.                                                      *)
MessagesEnd == <>[][\A c \in Clients : ~ (Is(2, "device") /\ RecvFailed(c))]_vars

(* A handler is in the read of a connection, "file" having named one. *)
ReadBlocked == \E c \in Clients : pc[c] = "read" /\ waits_on[c] # NULL

(* Provided that the clients keep reading and that error messages do not   *)
(* reach the device without end, a handler that has received its data gets *)
(* file_mutex, sends its answer and ends, unless some handler stays for    *)
(* ever in the read of a connection, with the mutex held.                  *)
HandlersFinish ==
  ClientsRead /\ MessagesEnd =>
    \A c \in Clients : (pc[c] = "lock" ~> pc[c] = "done" \/ ~ alive) \/ <>[]ReadBlocked

(* Once a client has closed its connection ("Closed connection from %s"),  *)
(* its handler ends.                                                       *)
ClosedConnectionEnds ==
  \A c \in Clients : pc[c] = "recv" /\ recv_failed[c] /\ peer[c] = "gone"
                      ~> pc[c] = "done" \/ ~ alive
=============================================================================
