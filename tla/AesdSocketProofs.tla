-------------------------- MODULE AesdSocketProofs --------------------------
(***************************************************************************)
(* What the server keeps, for every set of clients, size of the descriptor *)
(* table and choice of the data sent: type correctness, that the listening *)
(* socket is kept, and, as long as clients are served one at a time and no *)
(* call fails, that descriptors are given back.                            *)
(***************************************************************************)
EXTENDS AesdSocket, CircularBufferLemmas

(* What a descriptor can be. *)
Descriptors ==
  {Free, Standard, Listener} \union {Socket(c) : c \in Clients} \union {Device(p) : p \in Nat}

(* What a slot of the ring can hold. *)
Entries == {EmptyEntry} \union {[buffptr |-> s, size |-> Len(s)] : s \in Seq(Byte) \ {<<>>}}

(* The device: every retained entry holds at least one byte. *)
DeviceInv ==
  /\ Ring(ring) /\ ring.entry \in [Slots -> Entries] /\ cache \in Seq(Byte)
  /\ \A k \in 1 .. Retained(ring) : ring.entry[SlotAt(ring, k)] # EmptyEntry

ServerInv ==
  /\ fds \in [0 .. MaxFds - 1 -> Descriptors] /\ sockfd = 3 /\ file \in -1 .. MaxFds - 1
  /\ file_mutex \in Clients \union {NULL}
  /\ pc \in [Clients -> Labels] /\ client_sockfd \in [Clients -> -1 .. MaxFds - 1]
  /\ waits_on \in [Clients -> Clients \union {NULL}]
  /\ DOMAIN chunk = Clients /\ DOMAIN needToReopen = Clients /\ DOMAIN recv_failed = Clients
  /\ DOMAIN writeBuf = Clients
  /\ \A c \in Clients :
       /\ pc[c] \in {"ioctl", "write", "lseek", "close"} => chunk[c] \in Chunks
       /\ pc[c] = "ioctl" => chunk[c].seek # NULL

(* What the clients do, and what is remembered of it. *)
TrafficInv ==
  /\ peer \in [Clients -> {"open", "gone"}] /\ budget \in [Clients -> Nat]
  /\ \A c \in Clients : budget[c] <= MaxChunks[c]
  /\ stalled \subseteq Clients /\ DOMAIN got = Clients /\ DOMAIN sent = Clients

(* file_mutex belongs to the handler that is between lock and unlock. *)
MutexInv == alive => \A c \in Clients : file_mutex = c <=> pc[c] \in Locked

(* The listening socket, while it is open, is at no number that a handler  *)
(* closes: "file" starts with its number, but the first handler to use     *)
(* "file" gives it another.                                                *)
ListenerInv ==
  fds[3].kind = "listener" =>
    /\ \A c \in Clients : client_sockfd[c] # 3
    /\ file = 3 => \A c \in Clients : pc[c] \in {"none", "start", "open", "done"}

---------------------------------------------------------------------------
(* Served one at a time *)

Live(c) == pc[c] \notin {"none", "done"}

(* Is "file" the handler's own? *)
HasFile(c) ==
  \/ pc[c] \in {"recv", "ioctl", "write", "lseek", "close", "read", "send", "close_file"}
  \/ pc[c] \in {"lock", "reopen"} /\ ~ needToReopen[c]

(* A handler waits for its own client only, and notes only its leaving. *)
Sound(c) ==
  /\ recv_failed[c] => peer[c] # "open"
  /\ waits_on[c] # NULL => pc[c] = "recv" /\ waits_on[c] = c

(* Who holds which descriptor. *)
OwnersInv ==
  /\ \A c, d \in Clients : pc[c] \in Working /\ pc[d] \in Working => c = d
  /\ \A c \in Clients : /\ Live(c) => client_sockfd[c] # -1 /\ fds[client_sockfd[c]] = Socket(c)
                        /\ HasFile(c) => file = -1 \/ fds[file].kind = "device"
                        /\ Sound(c)
                        /\ pc[c] # "drop"
  /\ \A i \in DOMAIN fds :
       /\ fds[i].kind = "listener" => i = 3
       /\ fds[i].kind = "standard" => i < 3 /\ ~ Daemon
       /\ fds[i].kind = "socket" => \E c \in Clients : Live(c) /\ i = client_sockfd[c]
       /\ fds[i].kind = "device" => i = file /\ \E c \in Clients : HasFile(c)

Calm == alive /\ ~ disturbed

Owners == Calm => OwnersInv

---------------------------------------------------------------------------
(* The descriptor table *)

USE TableAssumption, CapacityAssumption

LEMMA DescriptorFacts ==
  ASSUME NEW f \in Descriptors
  PROVE  /\ f \in [kind : {"free", "device", "socket", "listener", "standard"},
                   f_pos : Nat, peer : Clients \union {NULL}]
         /\ f.kind = "free" <=> f = Free
         /\ f.kind = "listener" <=> f = Listener
         /\ f.kind = "standard" <=> f = Standard
         /\ f.kind = "socket" => f.peer \in Clients /\ f = Socket(f.peer)
         /\ f.kind = "device" => \A p : [f EXCEPT !.f_pos = p] = Device(p)
<1> USE DEF Free, Standard, Listener, Socket, Device
<1>1. CASE f \in {Free, Standard, Listener}
  <2>1. CASE f = Free
    BY <2>1
  <2>2. CASE f = Standard
    BY <2>2
  <2>3. CASE f = Listener
    BY <2>3
  <2> QED BY <1>1, <2>1, <2>2, <2>3
<1>2. ASSUME NEW c \in Clients, f = Socket(c) PROVE f.kind = "socket" /\ f.peer = c /\ f.f_pos = 0
  BY <1>2
<1>3. ASSUME NEW p \in Nat, f = Device(p)
      PROVE  /\ f.kind = "device" /\ f.peer = NULL /\ f.f_pos = p
             /\ \A q : [f EXCEPT !.f_pos = q] = Device(q)
  BY <1>3
<1>4. ASSUME NEW c \in Clients, f = Socket(c)
      PROVE  f \in [kind : {"free", "device", "socket", "listener", "standard"},
                   f_pos : Nat, peer : Clients \union {NULL}]
  BY <1>4
<1>5. ASSUME NEW p \in Nat, f = Device(p)
      PROVE  f \in [kind : {"free", "device", "socket", "listener", "standard"},
                   f_pos : Nat, peer : Clients \union {NULL}]
  BY <1>5
<1>6. Free.kind = "free" /\ Standard.kind = "standard" /\ Listener.kind = "listener"
  OBVIOUS
<1>7. CASE \E c \in Clients : f = Socket(c)
  <2> PICK c \in Clients : f = Socket(c)
    BY <1>7
  <2> HIDE DEF Free, Standard, Listener, Socket, Device
  <2> QED BY <1>2, <1>4, <1>6
<1>8. CASE \E p \in Nat : f = Device(p)
  <2> PICK p \in Nat : f = Device(p)
    BY <1>8
  <2> HIDE DEF Free, Standard, Listener, Socket, Device
  <2> QED BY <1>3, <1>5, <1>6
<1> QED BY <1>1, <1>7, <1>8 DEF Descriptors

LEMMA DescriptorKinds ==
  /\ {Free, Standard, Listener} \subseteq Descriptors
  /\ \A c \in Clients : Socket(c) \in Descriptors
  /\ \A p \in Nat : Device(p) \in Descriptors /\ Device(p).f_pos = p
  /\ Free.kind = "free" /\ Standard.kind = "standard" /\ Listener.kind = "listener"
  /\ \A c : Socket(c).kind = "socket" /\ Socket(c).peer = c
  /\ \A p : Device(p).kind = "device"
  BY DEF Descriptors, Free, Standard, Listener, Socket, Device

LEMMA IsKind ==
  ASSUME ServerInv, NEW fd, NEW kind
  PROVE  Is(fd, kind) <=> fd \in 0 .. MaxFds - 1 /\ fds[fd].kind = kind
  BY DEF ServerInv, Is

(* The kernel hands out a free descriptor. *)
LEMMA NewFdFree ==
  ASSUME ServerInv
  PROVE  \/ NewFd = -1 /\ \A i \in 0 .. MaxFds - 1 : fds[i] # Free
         \/ NewFd \in 0 .. MaxFds - 1 /\ fds[NewFd] = Free
<1>1. DOMAIN fds = 0 .. MaxFds - 1
  BY DEF ServerInv
<1>2. FreeFds \in SUBSET Nat
  BY <1>1 DEF FreeFds
<1>3. CASE FreeFds = {}
  BY <1>1, <1>3 DEF NewFd, FreeFds
<1>4. CASE FreeFds # {}
  <2>1. Min(FreeFds) \in FreeFds
    BY <1>2, <1>4, MinIn
  <2> QED BY <1>1, <1>4, <2>1 DEF NewFd, FreeFds
<1> QED BY <1>3, <1>4

(* close, open, perror and moving a file position, as what they leave in   *)
(* each entry of the table.                                                *)
LEMMA ClosedTable ==
  ASSUME ServerInv, NEW fd
  PROVE  /\ Closed(fd) \in [0 .. MaxFds - 1 -> Descriptors]
         /\ \A i \in 0 .. MaxFds - 1 : Closed(fd)[i] = IF i = fd THEN Free ELSE fds[i]
<1>1. fds \in [0 .. MaxFds - 1 -> Descriptors] /\ Free \in Descriptors
  BY DescriptorKinds DEF ServerInv
<1> QED BY <1>1 DEF Closed

LEMMA OpenTable ==
  ASSUME ServerInv, OpenFile
  PROVE  /\ fds' \in [0 .. MaxFds - 1 -> Descriptors] /\ file' \in -1 .. MaxFds - 1
         /\ file' # -1 => fds[file'] = Free
         /\ file' = -1 => \A i \in 0 .. MaxFds - 1 : fds[i] # Free
         /\ \A i \in 0 .. MaxFds - 1 : fds'[i] = IF i = file' THEN Device(0) ELSE fds[i]
<1>1. fds \in [0 .. MaxFds - 1 -> Descriptors] /\ Device(0) \in Descriptors
  BY DescriptorKinds DEF ServerInv
<1> QED BY <1>1, NewFdFree DEF OpenFile

LEMMA PerrorTable ==
  ASSUME ServerInv, NEW closed, Perror(closed)
  PROVE  /\ fds' \in [0 .. MaxFds - 1 -> Descriptors]
         /\ \A i \in 0 .. MaxFds - 1 :
              fds'[i] = IF i \in closed THEN Free
                        ELSE IF i = 2 /\ fds[2].kind = "device" THEN Device(1) ELSE fds[i]
<1>1. /\ fds \in [0 .. MaxFds - 1 -> Descriptors] /\ Device(1) \in Descriptors
      /\ Free \in Descriptors
  BY DescriptorKinds DEF ServerInv
<1>2. Is(2, "device") <=> fds[2].kind = "device"
  BY IsKind
<1>3. fds' = [i \in 0 .. MaxFds - 1 |->
               IF i \in closed THEN Free
               ELSE IF i = 2 /\ fds[2].kind = "device" THEN Device(1) ELSE fds[i]]
  BY <1>1, <1>2 DEF Perror
<1> QED BY <1>1, <1>3

LEMMA MovedTable ==
  ASSUME ServerInv, file \in 0 .. MaxFds - 1, fds[file].kind = "device", NEW p \in Nat
  PROVE  [fds EXCEPT ![file].f_pos = p] = [fds EXCEPT ![file] = Device(p)]
<1>1. fds \in [0 .. MaxFds - 1 -> Descriptors]
  BY DEF ServerInv
<1>2. [fds[file] EXCEPT !.f_pos = p] = Device(p)
  BY <1>1, DescriptorFacts
<1> QED BY <1>1, <1>2

---------------------------------------------------------------------------
(* The device *)

LEMMA EntryFacts ==
  ASSUME NEW e \in Entries
  PROVE  /\ e.size \in Nat
         /\ e # EmptyEntry => /\ e.buffptr \in Seq(Byte) \ {<<>>} /\ e.size = Len(e.buffptr)
                              /\ e.size > 0
  BY DEF Entries, EmptyEntry

LEMMA BytesAreEntries ==
  ASSUME NEW s \in Seq(Byte), s # <<>>
  PROVE  /\ [buffptr |-> s, size |-> Len(s)] \in Entries
         /\ [buffptr |-> s, size |-> Len(s)] # EmptyEntry
  BY DEF Entries, EmptyEntry

LEMMA DeviceSized == DeviceInv => Ring(ring) /\ Sized(ring)
  BY EntryFacts DEF DeviceInv, Sized

(* A write adds a command to the ring, or joins the unfinished one. *)
LEMMA WriteKeepsDevice ==
  ASSUME DeviceInv, NEW s \in Seq(Byte), s # <<>>, DeviceWrite(s)
  PROVE  DeviceInv'
<1> DEFINE all == cache \o s
           e == [buffptr |-> all, size |-> Len(all)]
<1>1. all \in Seq(Byte) /\ all # <<>>
  BY DEF DeviceInv
<1>2. CASE Last(s) # NL
  BY <1>1, <1>2 DEF DeviceWrite, DeviceInv, Retained, SlotAt, Ring
<1>3. CASE Last(s) = NL
  <2>1. ring' = aesd_circular_buffer_add_entry(ring, e) /\ cache' = <<>>
    BY <1>3 DEF DeviceWrite
  <2>2. e \in Entries /\ e # EmptyEntry
    BY <1>1, BytesAreEntries
  <2>3. Ring(ring) /\ ring.entry \in [Slots -> Entries] /\ ring.in_offs \in Slots
    BY DEF DeviceInv, Ring
  <2>4. ring'.entry = [ring.entry EXCEPT ![ring.in_offs] = e]
    BY <2>1 DEF aesd_circular_buffer_add_entry
  <2> HIDE DEF e
  <2>5. ring'.entry \in [Slots -> Entries]
    BY <2>2, <2>3, <2>4
  <2>6. CASE ~ ring.full
    <3>1. LET n == Retained(ring)
          IN  /\ Ring(ring') /\ n \in 0 .. Capacity - 1 /\ Retained(ring') = n + 1
              /\ \A k \in 1 .. n + 1 : SlotAt(ring', k) = SlotAt(ring, k)
              /\ SlotAt(ring, n + 1) = ring.in_offs
              /\ \A k \in 1 .. n : SlotAt(ring, k) \in Slots \ {ring.in_offs}
      BY <2>1, <2>3, <2>6, AddRoomSlots
    <3>2. \A k \in 1 .. Retained(ring') : ring'.entry[SlotAt(ring', k)] # EmptyEntry
      <4> SUFFICES ASSUME NEW k \in 1 .. Retained(ring')
                   PROVE  ring'.entry[SlotAt(ring', k)] # EmptyEntry
        OBVIOUS
      <4>1. CASE k = Retained(ring) + 1
        BY <2>2, <2>3, <2>4, <3>1, <4>1
      <4>2. CASE k \in 1 .. Retained(ring)
        BY <2>3, <2>4, <3>1, <4>2 DEF DeviceInv
      <4> QED BY <3>1, <4>1, <4>2
    <3> QED BY <2>1, <2>5, <3>1, <3>2 DEF DeviceInv
  <2>7. CASE ring.full
    <3>1. /\ Ring(ring') /\ Retained(ring) = Capacity /\ Retained(ring') = Capacity
          /\ \A k \in 1 .. Capacity - 1 : /\ SlotAt(ring', k) = SlotAt(ring, k + 1)
                                          /\ SlotAt(ring, k + 1) \in Slots \ {ring.in_offs}
          /\ SlotAt(ring', Capacity) = ring.in_offs
      BY <2>1, <2>3, <2>7, AddFullSlots
    <3>2. \A k \in 1 .. Retained(ring') : ring'.entry[SlotAt(ring', k)] # EmptyEntry
      <4> SUFFICES ASSUME NEW k \in 1 .. Retained(ring')
                   PROVE  ring'.entry[SlotAt(ring', k)] # EmptyEntry
        OBVIOUS
      <4>1. CASE k = Capacity
        BY <2>2, <2>3, <2>4, <3>1, <4>1
      <4>2. CASE k \in 1 .. Capacity - 1
        <5>1. k + 1 \in 1 .. Retained(ring)
          BY <3>1, <4>2, CapacityAssumption
        <5> QED BY <2>3, <2>4, <3>1, <4>2, <5>1 DEF DeviceInv
      <4> QED BY <3>1, <4>1, <4>2, CapacityAssumption
    <3> QED BY <2>1, <2>5, <3>1, <3>2 DEF DeviceInv
  <2> QED BY <2>6, <2>7
<1> QED BY <1>2, <1>3

(* What a read returns is nothing or a piece of a command. *)
LEMMA ReadIsBytes ==
  ASSUME DeviceInv, NEW p \in Nat
  PROVE  DeviceRead(p, bufferSize) \in Seq(Byte)
<1> DEFINE r == aesd_circular_buffer_find_entry_offset_for_fpos(ring, p)
<1>1. CASE r = NotFound
  BY <1>1 DEF DeviceRead
<1>2. CASE r # NotFound
  <2>1. PICK k \in 1 .. Retained(ring) :
           r = [slot |-> SlotAt(ring, k), offset |-> (p - Totals(ring)[k - 1]) % 2^16]
    BY <1>2, DeviceSized, FindCorrect
  <2>2. SlotAt(ring, k) \in Slots
    BY RingSlots DEF DeviceInv
  <2>3. ring.entry[SlotAt(ring, k)] \in Entries \ {EmptyEntry}
    BY <2>2 DEF DeviceInv
  <2>4. r.offset \in Nat
    <3>1. Totals(ring)[k - 1] \in Int
      <4>1. k - 1 \in 0 .. Capacity
        BY RingSlots DEF DeviceInv
      <4>2. Ring(ring) /\ Sized(ring)
        BY DeviceSized
      <4>3. \A j \in 0 .. Capacity : Totals(ring)[j] \in Nat
        BY <4>2, TotalsSum
      <4> QED BY <4>1, <4>3
    <3> DEFINE width == 2^16
    <3>2. width \in Nat /\ width > 0
      OBVIOUS
    <3> HIDE DEF width
    <3>3. \A x \in Int : x % width \in Nat
      BY <3>2
    <3>4. r.offset = (p - Totals(ring)[k - 1]) % width
      BY <2>1 DEF width
    <3> QED BY <3>1, <3>3, <3>4
  <2>5. PICK m : /\ DeviceRead(p, bufferSize) = SubSeq(ring.entry[r.slot].buffptr, r.offset + 1, m)
                 /\ m = IF ring.entry[r.slot].size - r.offset < bufferSize
                        THEN ring.entry[r.slot].size ELSE r.offset + bufferSize
    BY <1>2 DEF DeviceRead
  <2> HIDE DEF r
  <2>7. r.slot = SlotAt(ring, k)
    BY <2>1
  <2>6. /\ ring.entry[SlotAt(ring, k)].buffptr \in Seq(Byte)
        /\ ring.entry[SlotAt(ring, k)].size = Len(ring.entry[SlotAt(ring, k)].buffptr)
    BY <2>3, EntryFacts
  <2>8. m \in Nat /\ m <= Len(ring.entry[SlotAt(ring, k)].buffptr)
    <3> DEFINE size == ring.entry[SlotAt(ring, k)].size
               o == r.offset
    <3>1. size \in Nat /\ size = Len(ring.entry[SlotAt(ring, k)].buffptr) /\ o \in Nat
      BY <2>3, <2>4, <2>6, EntryFacts
    <3>2. m = IF size - o < bufferSize THEN size ELSE o + bufferSize
      BY <2>5, <2>7
    <3> HIDE DEF size, o
    <3>3. m \in Nat /\ m <= size
      BY <3>1, <3>2, BufferAssumption
    <3> QED BY <3>1, <3>3
  <2>9. SubSeq(ring.entry[SlotAt(ring, k)].buffptr, r.offset + 1, m) \in Seq(Byte)
    <3> DEFINE t == ring.entry[SlotAt(ring, k)].buffptr
    <3>1. t \in Seq(Byte) /\ m <= Len(t)
      BY <2>6, <2>8
    <3> HIDE DEF t
    <3>2. SubSeq(t, r.offset + 1, m) \in Seq(Byte)
      BY <2>4, <2>8, <3>1
    <3> QED BY <3>2 DEF t
  <2> QED BY <2>5, <2>7, <2>9
<1> QED BY <1>1, <1>2

(* A seek goes to a natural number. *)
LEMMA SeekIsNat ==
  ASSUME DeviceInv, NEW s \in [cmd : Nat, offset : Nat], SeekValid(s)
  PROVE  SeekTarget(s) \in Nat
<1> DEFINE size == [i \in Slots |-> ring.entry[i].size]
           S == 0 .. s.cmd - 1
<1>1. S \subseteq Slots /\ IsFiniteSet(S)
  <2>1. s.cmd \in Nat /\ s.cmd <= Capacity - 1 /\ Capacity \in Nat
    BY DEF SeekValid, Slots
  <2>2. S \subseteq Slots
    BY <2>1 DEF Slots
  <2>3. 0 \in Int /\ s.cmd - 1 \in Int
    BY <2>1
  <2>4. IsFiniteSet(S)
    BY <2>3, FS_Interval
  <2> QED BY <2>2, <2>4
<1>2. \A i \in S : size[i] \in Nat
  BY <1>1, EntryFacts DEF DeviceInv
<1>3. SumFunctionOnSet(size, S) \in Nat
  BY <1>1, <1>2, SumNat
<1> QED BY <1>3 DEF SeekTarget

---------------------------------------------------------------------------
(* Type correctness *)

LEMMA EndFacts ==
  ASSUME ServerInv, NEW hs, End(hs)
  PROVE  /\ pc' \in [Clients -> Labels] /\ client_sockfd' \in [Clients -> -1 .. MaxFds - 1]
         /\ waits_on' \in [Clients -> Clients \union {NULL}]
         /\ DOMAIN chunk' = Clients /\ DOMAIN needToReopen' = Clients
         /\ DOMAIN recv_failed' = Clients /\ DOMAIN writeBuf' = Clients
         /\ \A c \in Clients :
              IF c \in hs THEN pc'[c] = "done" /\ client_sockfd'[c] = -1 /\ waits_on'[c] = NULL
              ELSE /\ pc'[c] = pc[c] /\ client_sockfd'[c] = client_sockfd[c]
                   /\ chunk'[c] = chunk[c] /\ waits_on'[c] = waits_on[c]
<1> USE DEF ServerInv, End, Labels
<1>1. pc' \in [Clients -> Labels]
  OBVIOUS
<1>2. client_sockfd' \in [Clients -> -1 .. MaxFds - 1]
  OBVIOUS
<1>3. waits_on' \in [Clients -> Clients \union {NULL}]
  OBVIOUS
<1>5. /\ DOMAIN chunk' = Clients /\ DOMAIN needToReopen' = Clients
      /\ DOMAIN recv_failed' = Clients /\ DOMAIN writeBuf' = Clients
  BY Zenon
<1>6. \A c \in Clients :
        IF c \in hs THEN pc'[c] = "done" /\ client_sockfd'[c] = -1 /\ waits_on'[c] = NULL
        ELSE /\ pc'[c] = pc[c] /\ client_sockfd'[c] = client_sockfd[c]
             /\ chunk'[c] = chunk[c] /\ waits_on'[c] = waits_on[c]
  OBVIOUS
<1> QED BY <1>1, <1>2, <1>3, <1>5, <1>6

(* The parts of the invariant that End and a change of the table concern. *)
LEMMA EndKeepsServer ==
  ASSUME ServerInv, NEW hs, End(hs), fds' \in [0 .. MaxFds - 1 -> Descriptors],
         UNCHANGED <<sockfd, file>>, file_mutex' \in {file_mutex, NULL}
  PROVE  ServerInv'
<1>1. /\ pc' \in [Clients -> Labels] /\ client_sockfd' \in [Clients -> -1 .. MaxFds - 1]
      /\ waits_on' \in [Clients -> Clients \union {NULL}]
      /\ DOMAIN chunk' = Clients /\ DOMAIN needToReopen' = Clients
      /\ DOMAIN recv_failed' = Clients /\ DOMAIN writeBuf' = Clients
  BY EndFacts
<1>2. \A c \in Clients : IF c \in hs THEN pc'[c] = "done"
                         ELSE pc'[c] = pc[c] /\ chunk'[c] = chunk[c]
  BY EndFacts
<1> QED BY <1>1, <1>2 DEF ServerInv

LEMMA ExitTable == ServerInv /\ Exit => fds' \in [0 .. MaxFds - 1 -> Descriptors]
<1>1. Free \in Descriptors
  BY DescriptorKinds
<1> QED BY <1>1 DEF ServerInv, Exit

LEMMA ExitKeepsServer == ServerInv /\ Exit => ServerInv'
  BY ExitTable, EndKeepsServer DEF Exit, server

LEMMA AcceptLoopKeepsServer ==
  ASSUME ServerInv, NEW c \in Clients,
         \/ Accept(c) \/ AcceptFails(c) \/ ThreadFails(c) \/ ClientLeaves(c) \/ ClientReads(c)
         \/ SendKills(c)
  PROVE  ServerInv'
<1>1. CASE Accept(c)
  <2>1. NewFd \in 0 .. MaxFds - 1
    BY <1>1, NewFdFree DEF Accept
  <2>2. Socket(c) \in Descriptors
    BY DescriptorKinds
  <2> QED BY <1>1, <2>1, <2>2 DEF ServerInv, Accept, Goto, Labels, server
<1>2. CASE AcceptFails(c)
  BY <1>2, ExitKeepsServer DEF AcceptFails
<1>3. CASE ThreadFails(c)
  BY <1>3, PerrorTable, EndKeepsServer DEF ThreadFails, server
<1>4. CASE ClientLeaves(c) \/ ClientReads(c)
  BY <1>4 DEF ServerInv, ClientLeaves, ClientReads, server, locals
<1>5. CASE SendKills(c)
  BY <1>5, ExitKeepsServer DEF SendKills
<1> QED BY <1>1, <1>2, <1>3, <1>4, <1>5

LEMMA ReceivingKeepsServer ==
  ASSUME ServerInv, NEW c \in Clients,
         \/ GetPeerName(c) \/ NoPeerName(c) \/ HandlerStart(c) \/ NoBuffer(c) \/ RecvClosed(c)
         \/ RecvBadFd(c) \/ RecvError(c) \/ BeginRecv(c) \/ \E k \in Chunks : RecvData(c, k)
  PROVE  ServerInv'
<1> USE DEF server, locals
<1>1. CASE GetPeerName(c)
  BY <1>1 DEF ServerInv, GetPeerName, Goto, Labels, Working
<1>2. CASE NoPeerName(c)
  BY <1>2, PerrorTable, EndKeepsServer DEF NoPeerName
<1>3. CASE HandlerStart(c)
  BY <1>3, OpenTable DEF ServerInv, HandlerStart, Goto, Labels, Working
<1>4. CASE NoBuffer(c)
  <2>1. fds' \in [0 .. MaxFds - 1 -> Descriptors]
    BY <1>4, ClosedTable DEF NoBuffer
  <2> QED BY <1>4, <2>1, EndKeepsServer DEF NoBuffer
<1>5. CASE RecvClosed(c)
  <2>1. DOMAIN recv_failed' = Clients
    BY <1>5, Zenon DEF ServerInv, RecvClosed
  <2> QED BY <1>5, <2>1 DEF ServerInv, RecvClosed
<1>6. CASE RecvFailed(c)
  <2>1. fds' \in [0 .. MaxFds - 1 -> Descriptors]
    BY <1>6, PerrorTable DEF RecvFailed
  <2>2. DOMAIN recv_failed' = Clients
    BY <1>6, Zenon DEF ServerInv, RecvFailed
  <2> QED BY <1>6, <2>1, <2>2 DEF ServerInv, RecvFailed
<1>7. ASSUME NEW k \in Chunks, RecvData(c, k) PROVE ServerInv'
  <2> DEFINE to == IF recv_failed[c] THEN "drop" ELSE IF k.seek # NULL THEN "ioctl" ELSE "write"
  <2>2. /\ to \in {"drop", "ioctl", "write"}
        /\ to = "ioctl" => k.seek # NULL
    BY Zenon
  <2>3. pc[c] = "recv" /\ pc' = [pc EXCEPT ![c] = to]
    BY <1>7 DEF RecvData, Goto
  <2>5. /\ UNCHANGED <<fds, sockfd, file, file_mutex, client_sockfd, needToReopen,
                       recv_failed, writeBuf>>
        /\ chunk' = [chunk EXCEPT ![c] = k] /\ waits_on' = [waits_on EXCEPT ![c] = NULL]
    BY <1>7 DEF RecvData
  <2> HIDE DEF to
  <2>7. pc' \in [Clients -> Labels]
    BY <2>2, <2>3 DEF ServerInv, Labels, Working
  <2>8. \A b \in Clients : IF b = c THEN pc'[b] = to /\ chunk'[b] = k
                           ELSE pc'[b] = pc[b] /\ chunk'[b] = chunk[b]
    BY <2>3, <2>5 DEF ServerInv
  <2> QED BY <2>2, <2>5, <2>7, <2>8 DEF ServerInv
<1>8. CASE BeginRecv(c)
  <2>1. PICK d \in Clients : waits_on' = [waits_on EXCEPT ![c] = d]
    BY <1>8 DEF BeginRecv, Peer
  <2> QED BY <1>8, <2>1 DEF ServerInv, BeginRecv
<1> QED BY <1>1, <1>2, <1>3, <1>4, <1>5, <1>6, <1>7, <1>8 DEF RecvBadFd, RecvError

LEMMA WritingKeepsServer ==
  ASSUME ServerInv, DeviceInv, NEW c \in Clients,
         DropData(c) \/ IoctlFile(c) \/ WriteFile(c) \/ LseekFile(c) \/ CloseAfterWrite(c)
  PROVE  ServerInv'
<1> USE DEF server, locals
<1>1. CASE DropData(c)
  <2>1. fds' \in [0 .. MaxFds - 1 -> Descriptors]
    BY <1>1, ClosedTable DEF DropData
  <2>2. DOMAIN needToReopen' = Clients
    BY <1>1, Zenon DEF ServerInv, DropData
  <2> QED BY <1>1, <2>1, <2>2 DEF ServerInv, DropData, Goto, Labels, Working
<1>2. CASE CloseAfterWrite(c)
  <2>1. fds' \in [0 .. MaxFds - 1 -> Descriptors]
    BY <1>2, ClosedTable DEF CloseAfterWrite
  <2>2. DOMAIN needToReopen' = Clients
    BY <1>2, Zenon DEF ServerInv, CloseAfterWrite
  <2> QED BY <1>2, <2>1, <2>2 DEF ServerInv, CloseAfterWrite, Goto, Labels, Working
<1>3. ASSUME NEW p \in Nat, Is(file, "device"), fds' = [fds EXCEPT ![file].f_pos = p]
      PROVE  fds' \in [0 .. MaxFds - 1 -> Descriptors]
  <2>1. file \in 0 .. MaxFds - 1 /\ fds[file].kind = "device"
    BY <1>3, IsKind
  <2>2. fds' = [fds EXCEPT ![file] = Device(p)] /\ Device(p) \in Descriptors
    BY <1>3, <2>1, MovedTable, DescriptorKinds
  <2> QED BY <2>2 DEF ServerInv
<1>4. CASE IoctlFile(c)
  <2>1. DOMAIN needToReopen' = Clients
    BY <1>4, Zenon DEF ServerInv, IoctlFile
  <2>2. fds' \in [0 .. MaxFds - 1 -> Descriptors]
    <3>1. chunk[c].seek \in [cmd : Nat, offset : Nat]
      BY <1>4, ChunksAssumption DEF ServerInv, IoctlFile, Goto
    <3>2. CASE Is(file, "device") /\ SeekValid(chunk[c].seek)
      BY <1>3, <1>4, <3>1, <3>2, SeekIsNat DEF IoctlFile
    <3>3. CASE ~ (Is(file, "device") /\ SeekValid(chunk[c].seek))
      BY <1>4, <3>3 DEF IoctlFile, ServerInv
    <3> QED BY <3>2, <3>3
  <2> QED BY <1>4, <2>1, <2>2 DEF ServerInv, IoctlFile, Goto, Labels, Working
<1>5. CASE WriteFile(c)
  <2>1. fds' \in [0 .. MaxFds - 1 -> Descriptors]
    <3>1. chunk[c] \in Chunks /\ chunk[c].bytes \in Seq(Byte)
      BY <1>5, ChunksAssumption DEF ServerInv, WriteFile, Goto
    <3>2. CASE Is(file, "device")
      <4>1. fds' = [fds EXCEPT ![file].f_pos = Len(chunk[c].bytes)]
        BY <1>5, <3>2 DEF WriteFile
      <4>2. Len(chunk[c].bytes) \in Nat
        BY <3>1
      <4>3. fds' \in [0 .. MaxFds - 1 -> Descriptors]
        BY <1>3, <3>2, <4>1, <4>2
      <4> QED BY <4>3
    <3>3. CASE ~ Is(file, "device")
      BY <1>5, <3>3 DEF WriteFile, ServerInv
    <3> QED BY <3>2, <3>3
  <2>2. PICK to \in {"lseek", "recv"} : pc' = [pc EXCEPT ![c] = to]
    BY <1>5 DEF WriteFile, Goto
  <2>3. /\ UNCHANGED <<sockfd, file, file_mutex, client_sockfd, waits_on, needToReopen,
                       recv_failed, writeBuf, chunk>>
        /\ pc[c] = "write"
    BY <1>5 DEF WriteFile, Goto
  <2> QED BY <2>1, <2>2, <2>3 DEF ServerInv, Labels, Working
<1>6. CASE LseekFile(c)
  <2>1. fds' \in [0 .. MaxFds - 1 -> Descriptors]
    BY <1>3, <1>6 DEF LseekFile, ServerInv
  <2> QED BY <1>6, <2>1 DEF ServerInv, LseekFile, Goto, Labels, Working
<1> QED BY <1>1, <1>2, <1>4, <1>5, <1>6

LEMMA AnsweringKeepsServer ==
  ASSUME ServerInv, DeviceInv, NEW c \in Clients,
         \/ LockMutex(c) \/ NoWriteBuf(c) \/ Reopen(c) \/ ReadFile(c) \/ Send(c) \/ CloseFile(c)
         \/ ReadClosed(c) \/ UnlockMutex(c) \/ CloseClient(c)
         \/ \E k \in Chunks : ReadSocket(c, k)
  PROVE  ServerInv'
<1> USE DEF server, locals
<1>1. CASE LockMutex(c)
  BY <1>1 DEF ServerInv, LockMutex, Goto, Labels, Working
<1>2. CASE NoWriteBuf(c)
  <2>1. fds' \in [0 .. MaxFds - 1 -> Descriptors]
    BY <1>2 DEF ServerInv, NoWriteBuf
  <2> QED BY <1>2, <2>1, EndKeepsServer DEF NoWriteBuf
<1>3. CASE Reopen(c)
  <2>1. fds' \in [0 .. MaxFds - 1 -> Descriptors] /\ file' \in -1 .. MaxFds - 1
    <3>1. CASE OpenFile
      BY <3>1, OpenTable
    <3>2. CASE UNCHANGED <<file, fds>>
      BY <3>2 DEF ServerInv
    <3> QED BY <1>3, <3>1, <3>2, Zenon DEF Reopen
  <2> QED BY <1>3, <2>1 DEF ServerInv, Reopen, Goto, Labels, Working
<1>4. CASE ReadFile(c)
  <2> DEFINE s == IF Is(file, "device") THEN DeviceRead(fds[file].f_pos, bufferSize) ELSE <<>>
  <2>1. fds' \in [0 .. MaxFds - 1 -> Descriptors]
    <3>1. fds' = IF s = <<>> THEN fds ELSE [fds EXCEPT ![file].f_pos = @ + Len(s)]
      BY <1>4 DEF ReadFile
    <3>2. CASE s = <<>>
      BY <3>1, <3>2 DEF ServerInv
    <3>3. CASE s # <<>>
      <4>1. Is(file, "device")
        BY <3>3
      <4>2. file \in 0 .. MaxFds - 1 /\ fds[file].kind = "device"
        BY <4>1, IsKind
      <4>3. fds[file].f_pos \in Nat
        BY <4>2, DescriptorFacts DEF ServerInv
      <4>4. s \in Seq(Byte)
        BY <4>1, <4>3, ReadIsBytes
      <4> HIDE DEF s
      <4>5. fds[file].f_pos + Len(s) \in Nat
        BY <4>3, <4>4
      <4>6. fds' = [fds EXCEPT ![file] = Device(fds[file].f_pos + Len(s))]
        BY <3>1, <3>3, <4>2, <4>5, MovedTable
      <4>7. Device(fds[file].f_pos + Len(s)) \in Descriptors
        BY <4>5, DescriptorKinds
      <4> QED BY <4>6, <4>7 DEF ServerInv
    <3> QED BY <3>2, <3>3
  <2>2. PICK to \in {"close_file", "send"} : pc' = [pc EXCEPT ![c] = to]
    BY <1>4 DEF ReadFile, Goto
  <2>3. /\ UNCHANGED <<sockfd, file, file_mutex, client_sockfd, waits_on, needToReopen,
                       recv_failed, chunk>>
        /\ pc[c] = "read" /\ writeBuf' = [writeBuf EXCEPT ![c] = s]
    BY <1>4 DEF ReadFile, Goto
  <2> HIDE DEF s
  <2> QED BY <2>1, <2>2, <2>3 DEF ServerInv, Labels, Working
<1>5. CASE Send(c)
  BY <1>5 DEF ServerInv, Send, Goto, Labels, Working
<1>6. CASE CloseFile(c)
  <2>1. fds' \in [0 .. MaxFds - 1 -> Descriptors]
    BY <1>6, ClosedTable DEF CloseFile
  <2> QED BY <1>6, <2>1 DEF ServerInv, CloseFile, Goto, Labels, Working
<1>7. CASE UnlockMutex(c)
  BY <1>7 DEF ServerInv, UnlockMutex, Goto, Labels, Working
<1>8. CASE CloseClient(c)
  <2>1. fds' \in [0 .. MaxFds - 1 -> Descriptors]
    BY <1>8, ClosedTable DEF CloseClient
  <2> QED BY <1>8, <2>1, EndKeepsServer DEF CloseClient
<1>9. ASSUME NEW k \in Chunks, ReadSocket(c, k) PROVE ServerInv'
  BY <1>9 DEF ServerInv, ReadSocket, Goto, Labels, Working
<1>10. CASE ReadClosed(c)
  BY <1>10 DEF ServerInv, ReadClosed, Goto, Labels, Working
<1> QED BY <1>1, <1>2, <1>3, <1>4, <1>5, <1>6, <1>7, <1>8, <1>9, <1>10

LEMMA DeviceKept == DeviceInv /\ UNCHANGED device => DeviceInv'
  BY DEF device, DeviceInv, Ring, Retained, SlotAt

LEMMA PerrorKeepsDevice == ASSUME DeviceInv, NEW closed, Perror(closed) PROVE DeviceInv'
<1>1. <<NL>> \in Seq(Byte) /\ <<NL>> # <<>>
  BY DEF Byte
<1>2. CASE Is(2, "device")
  BY <1>1, <1>2, WriteKeepsDevice DEF Perror
<1>3. CASE ~ Is(2, "device")
  BY <1>3, DeviceKept DEF Perror
<1> QED BY <1>2, <1>3

LEMMA NextKeepsDevice == ASSUME ServerInv, DeviceInv, Next PROVE DeviceInv'
<1>1. CASE UNCHANGED device
  BY <1>1, DeviceKept
<1>2. ASSUME NEW c \in Clients, WriteFile(c) PROVE DeviceInv'
  <2>1. chunk[c].bytes \in Seq(Byte) /\ chunk[c].bytes # <<>>
    BY <1>2, ChunksAssumption DEF WriteFile, Goto, ServerInv
  <2>2. CASE Is(file, "device")
    BY <1>2, <2>1, <2>2, WriteKeepsDevice DEF WriteFile
  <2>3. CASE ~ Is(file, "device")
    BY <1>2, <2>3, DeviceKept DEF WriteFile
  <2> QED BY <2>2, <2>3
<1>3. ASSUME NEW c \in Clients, RecvFailed(c) \/ ThreadFails(c) \/ NoPeerName(c) PROVE DeviceInv'
  BY <1>3, PerrorKeepsDevice DEF RecvFailed, ThreadFails, NoPeerName
<1>4. CASE Exit
  BY <1>4, DeviceKept DEF Exit
<1>5. ASSUME NEW c \in Clients,
             \/ Accept(c) \/ AcceptFails(c) \/ ClientLeaves(c) \/ ClientReads(c) \/ SendKills(c)
             \/ NoBuffer(c) \/ BeginRecv(c) \/ ReadClosed(c)
             \/ NoWriteBuf(c) \/ GetPeerName(c) \/ HandlerStart(c) \/ RecvClosed(c) \/ DropData(c)
             \/ IoctlFile(c) \/ LseekFile(c) \/ CloseAfterWrite(c) \/ LockMutex(c) \/ Reopen(c)
             \/ ReadFile(c) \/ Send(c) \/ CloseFile(c) \/ UnlockMutex(c) \/ CloseClient(c)
             \/ \E k \in Chunks : RecvData(c, k) \/ ReadSocket(c, k)
      PROVE  UNCHANGED device
  BY <1>5, Zenon
     DEF Accept, AcceptFails, ClientLeaves, ClientReads, BeginRecv, ReadClosed, SendKills, Exit,
         NoBuffer, NoWriteBuf, GetPeerName,
         HandlerStart, RecvClosed, DropData, IoctlFile, LseekFile, CloseAfterWrite, LockMutex,
         Reopen, ReadFile, Send, CloseFile, UnlockMutex, CloseClient, RecvData, ReadSocket
<1> QED BY <1>1, <1>2, <1>3, <1>4, <1>5
        DEF Next, signalInterruptHandler, Fault, HandlerStep, RecvBadFd, RecvError

LEMMA NextKeepsServer == ASSUME ServerInv, DeviceInv, Next PROVE ServerInv'
  BY ExitKeepsServer, AcceptLoopKeepsServer, ReceivingKeepsServer, WritingKeepsServer,
     AnsweringKeepsServer
     DEF Next, signalInterruptHandler, Fault, HandlerStep

(* What the clients do *)

LEMMA DeliveredDomain ==
  ASSUME TrafficInv, NEW fd, NEW s
  PROVE  DOMAIN Delivered(fd, s) = Clients
<1>1. CASE Is(fd, "socket") /\ ~ disturbed
  BY <1>1 DEF Delivered, TrafficInv
<1>2. CASE ~ (Is(fd, "socket") /\ ~ disturbed)
  BY <1>2 DEF Delivered, TrafficInv
<1> QED BY <1>1, <1>2

LEMMA TrafficNext == ASSUME ServerInv, TrafficInv, Next PROVE TrafficInv'
<1>1. \/ \E hs : HangUp(hs)
      \/ \E c \in Clients : peer' = [peer EXCEPT ![c] = "gone"] /\ budget' = budget
      \/ peer' = peer /\ \E c \in Clients : /\ waits_on[c] # NULL /\ budget[waits_on[c]] > 0
                                            /\ budget' = [budget EXCEPT ![waits_on[c]] = @ - 1]
      \/ UNCHANGED <<peer, budget>>
  <2>1. CASE Exit
    BY <2>1 DEF Exit
  <2>2. ASSUME NEW c \in Clients,
               \/ ThreadFails(c) \/ NoPeerName(c) \/ CloseClient(c) \/ ClientLeaves(c)
        PROVE  \/ \E hs : HangUp(hs)
               \/ \E b \in Clients : peer' = [peer EXCEPT ![b] = "gone"] /\ budget' = budget
    BY <2>2, Zenon DEF ThreadFails, NoPeerName, CloseClient, ClientLeaves
  <2>3. ASSUME NEW c \in Clients, \E k \in Chunks : RecvData(c, k) \/ ReadSocket(c, k)
        PROVE  /\ peer' = peer /\ waits_on[c] # NULL /\ budget[waits_on[c]] > 0
               /\ budget' = [budget EXCEPT ![waits_on[c]] = @ - 1]
    BY <2>3, Zenon DEF RecvData, ReadSocket
  <2>4. ASSUME NEW c \in Clients,
               \/ Accept(c) \/ ClientReads(c) \/ NoBuffer(c) \/ RecvError(c) \/ NoWriteBuf(c)
               \/ HandlerStep(c) /\ ~ CloseClient(c)
        PROVE  UNCHANGED <<peer, budget>>
    BY <2>4, Zenon
       DEF Accept, ClientReads, NoBuffer, RecvError, RecvFailed, NoWriteBuf, HandlerStep,
           GetPeerName, HandlerStart, BeginRecv, RecvClosed, RecvBadFd, DropData, IoctlFile,
           WriteFile, LseekFile, CloseAfterWrite, LockMutex, Reopen, ReadFile, ReadClosed, Send,
           CloseFile, UnlockMutex
  <2> QED BY <2>1, <2>2, <2>3, <2>4, Zenon
          DEF Next, signalInterruptHandler, AcceptFails, SendKills, Fault
<1>2. /\ peer' \in [Clients -> {"open", "gone"}] /\ budget' \in [Clients -> Nat]
      /\ \A c \in Clients : budget'[c] <= MaxChunks[c]
  <2>1. ASSUME NEW hs, HangUp(hs)
        PROVE  /\ peer' \in [Clients -> {"open", "gone"}] /\ budget' \in [Clients -> Nat]
               /\ \A c \in Clients : budget'[c] <= MaxChunks[c]
    BY <2>1, TrafficAssumption DEF HangUp, TrafficInv
  <2>2. ASSUME NEW c \in Clients, waits_on[c] # NULL, budget[waits_on[c]] > 0,
               budget' = [budget EXCEPT ![waits_on[c]] = @ - 1]
        PROVE  budget' \in [Clients -> Nat] /\ \A b \in Clients : budget'[b] <= MaxChunks[b]
    <3> DEFINE d == waits_on[c]
    <3>1. d \in Clients
      BY <2>2 DEF ServerInv
    <3>2. budget' = [budget EXCEPT ![d] = budget[d] - 1] /\ budget[d] > 0
      BY <2>2
    <3> HIDE DEF d
    <3>3. budget \in [Clients -> Nat] /\ \A b \in Clients : budget[b] <= MaxChunks[b]
      BY DEF TrafficInv
    <3>4. \A b \in Clients : budget'[b] \in Nat /\ budget'[b] <= budget[b]
      BY <3>1, <3>2, <3>3
    <3>5. budget' \in [Clients -> Nat]
      BY <3>2, <3>3, <3>4
    <3>6. \A b \in Clients : MaxChunks[b] \in Nat
      BY TrafficAssumption
    <3> QED BY <3>3, <3>4, <3>5, <3>6
  <2>3. ASSUME NEW c \in Clients, peer' = [peer EXCEPT ![c] = "gone"]
        PROVE  peer' \in [Clients -> {"open", "gone"}]
    BY <2>3 DEF TrafficInv
  <2> QED BY <1>1, <2>1, <2>2, <2>3 DEF TrafficInv
<1>3. \/ \E c, fd, closed : WriteTo(fd, closed)
      \/ stalled' = {} \/ stalled' = stalled \/ \E t : stalled' = stalled \ t
  BY ZenonT(40)
     DEF Next, signalInterruptHandler, Exit, Accept, AcceptFails, ClientLeaves, ClientReads,
         SendKills, RecvData, ReadSocket, Fault, ThreadFails, NoPeerName, NoBuffer, RecvError,
         RecvFailed, NoWriteBuf, HandlerStep, GetPeerName, HandlerStart, BeginRecv, RecvClosed,
         RecvBadFd, DropData, IoctlFile, WriteFile, LseekFile, CloseAfterWrite, LockMutex, Reopen,
         ReadFile, ReadClosed, Send, CloseFile, UnlockMutex, CloseClient
<1>4. stalled' \subseteq Clients
  <2>1. ASSUME NEW fd, NEW closed, WriteTo(fd, closed) PROVE stalled' \subseteq Clients
    BY <2>1 DEF WriteTo, Peer, TrafficInv
  <2> QED BY <1>3, <2>1 DEF TrafficInv
<1>5. \/ \E hs : Forget(hs)
      \/ UNCHANGED <<got, sent>>
      \/ sent' = sent /\ \E fd, t : got' = Delivered(fd, t)
      \/ \E c \in Clients : WriteFile(c)
  BY ZenonT(40)
     DEF history, Next, signalInterruptHandler, Exit, Fails, Accept, AcceptFails, ClientLeaves,
         ClientReads,
         SendKills, RecvData, ReadSocket, Fault, ThreadFails, NoPeerName, NoBuffer, RecvError,
         RecvFailed, NoWriteBuf, HandlerStep, GetPeerName, HandlerStart, BeginRecv, RecvClosed,
         RecvBadFd, DropData, IoctlFile, LseekFile, CloseAfterWrite, LockMutex, Reopen,
         ReadFile, ReadClosed, Send, CloseFile, UnlockMutex, CloseClient
<1>6. DOMAIN got' = Clients /\ DOMAIN sent' = Clients
  <2>1. ASSUME NEW c \in Clients, WriteFile(c) PROVE DOMAIN got' = Clients /\ DOMAIN sent' = Clients
    <3>1. got' = got \/ got' = Delivered(file, chunk[c].bytes)
      BY <2>1 DEF WriteFile
    <3>2. sent' = sent \/ sent' = [sent EXCEPT ![c] = @ \o chunk[c].bytes]
      BY <2>1, Zenon DEF WriteFile
    <3> QED BY <3>1, <3>2, DeliveredDomain DEF TrafficInv
  <2>2. ASSUME NEW hs, Forget(hs) PROVE DOMAIN got' = Clients /\ DOMAIN sent' = Clients
    BY <2>2 DEF Forget
  <2> QED BY <1>5, <2>1, <2>2, DeliveredDomain DEF TrafficInv
<1> QED BY <1>2, <1>4, <1>6 DEF TrafficInv

LEMMA ServerInit == Init => ServerInv /\ TrafficInv /\ DeviceInv
<1> SUFFICES ASSUME Init PROVE ServerInv /\ TrafficInv /\ DeviceInv
  OBVIOUS
<1>1. fds \in [0 .. MaxFds - 1 -> Descriptors]
  <2>1. {Listener, Standard, Free} \subseteq Descriptors
    BY DescriptorKinds
  <2> QED BY <2>1 DEF Init
<1>2. DOMAIN needToReopen = Clients /\ DOMAIN recv_failed = Clients
  BY Zenon DEF Init
<1>3. DOMAIN chunk = Clients /\ DOMAIN writeBuf = Clients
  BY Zenon DEF Init
<1>4. ServerInv
  BY <1>1, <1>2, <1>3 DEF Init, ServerInv, Labels
<1>5. ring = aesd_circular_buffer_init /\ cache = <<>>
  BY DEF Init
<1>6. /\ ring.entry = [i \in Slots |-> EmptyEntry] /\ ring.in_offs = 0 /\ ring.out_offs = 0
      /\ ring.full = FALSE
  BY <1>5 DEF aesd_circular_buffer_init
<1>7. Retained(ring) = 0
  BY <1>6 DEF Retained
<1>8. DeviceInv
  BY <1>5, <1>6, <1>7 DEF DeviceInv, Ring, Slots, Entries
<1>9. TrafficInv
  BY TrafficAssumption DEF Init, TrafficInv
<1> QED BY <1>4, <1>8, <1>9

(* The types of the server's data and the shape of the device's contents,  *)
(* whatever handlers, clients and failures do (createTCPServer,            *)
(* handle_client).                                                         *)
THEOREM ServerInvariant == Spec => [](ServerInv /\ TrafficInv /\ DeviceInv)
<1> DEFINE Inv == ServerInv /\ TrafficInv /\ DeviceInv
<1>1. Inv /\ [Next]_vars => Inv'
  <2>1. ASSUME Inv, Next PROVE Inv'
    BY <2>1, NextKeepsServer, NextKeepsDevice, TrafficNext
  <2>2. ASSUME Inv, UNCHANGED vars PROVE Inv'
    BY <2>2, DeviceKept DEF vars, server, locals, history, ServerInv, TrafficInv
  <2> QED BY <2>1, <2>2
<1>2. Init => Inv
  BY ServerInit
<1> QED BY <1>1, <1>2, PTL DEF Spec

---------------------------------------------------------------------------
(* The flags of the process and of the handlers. *)
FlagsInv ==
  /\ alive \in BOOLEAN /\ disturbed \in BOOLEAN
  /\ needToReopen \in [Clients -> BOOLEAN] /\ recv_failed \in [Clients -> BOOLEAN]

LEMMA FlagsNext == ASSUME FlagsInv, Next PROVE FlagsInv'
<1>1. alive' \in BOOLEAN
  BY ZenonT(40)
     DEF Next, FlagsInv, signalInterruptHandler, Exit, Accept, AcceptFails, ClientLeaves,
         ClientReads,
         SendKills, RecvData, ReadSocket, Fault, ThreadFails, NoPeerName, NoBuffer, RecvError,
         RecvFailed, NoWriteBuf, HandlerStep, GetPeerName, HandlerStart, BeginRecv, RecvClosed,
         RecvBadFd, DropData, IoctlFile, WriteFile, LseekFile, CloseAfterWrite, LockMutex, Reopen,
         ReadFile, ReadClosed, Send, CloseFile, UnlockMutex, CloseClient
<1>2. disturbed' \in BOOLEAN
  BY ZenonT(40)
     DEF Next, FlagsInv, history, signalInterruptHandler, Exit, Fails, Accept, AcceptFails,
         ClientLeaves, ClientReads,
         SendKills, RecvData, ReadSocket, Fault, ThreadFails, NoPeerName, NoBuffer, RecvError,
         RecvFailed, NoWriteBuf, HandlerStep, GetPeerName, HandlerStart, BeginRecv, RecvClosed,
         RecvBadFd, DropData, IoctlFile, WriteFile, LseekFile, CloseAfterWrite, LockMutex, Reopen,
         ReadFile, ReadClosed, Send, CloseFile, UnlockMutex, CloseClient
<1>3. ASSUME NEW f \in [Clients -> BOOLEAN], NEW c \in Clients, NEW b \in BOOLEAN
      PROVE  [f EXCEPT ![c] = b] \in [Clients -> BOOLEAN]
  BY <1>3, Zenon
<1>4. ASSUME NEW f \in [Clients -> BOOLEAN], NEW hs
      PROVE  [c \in Clients |-> IF c \in hs THEN FALSE ELSE f[c]] \in [Clients -> BOOLEAN]
  BY <1>4, Zenon
<1>5. ASSUME NEW hs, End(hs)
      PROVE  needToReopen' \in [Clients -> BOOLEAN] /\ recv_failed' \in [Clients -> BOOLEAN]
  BY <1>4, <1>5, Zenon DEF End, FlagsInv
<1>6. ASSUME NEW c \in Clients,
             \/ DropData(c) \/ IoctlFile(c) \/ CloseAfterWrite(c)
             \/ RecvClosed(c) \/ RecvBadFd(c) \/ RecvError(c)
      PROVE  needToReopen' \in [Clients -> BOOLEAN] /\ recv_failed' \in [Clients -> BOOLEAN]
  BY <1>3, <1>6, Zenon
     DEF DropData, IoctlFile, CloseAfterWrite, RecvClosed, RecvBadFd, RecvError, RecvFailed,
         FlagsInv
<1>7. ASSUME needToReopen' = needToReopen, recv_failed' = recv_failed
      PROVE  needToReopen' \in [Clients -> BOOLEAN] /\ recv_failed' \in [Clients -> BOOLEAN]
  BY <1>7, Zenon DEF FlagsInv
<1>8. ASSUME NEW c \in Clients,
             \/ Accept(c) \/ ClientLeaves(c) \/ ClientReads(c) \/ BeginRecv(c) \/ ReadClosed(c)
             \/ GetPeerName(c) \/ HandlerStart(c) \/ WriteFile(c)
             \/ LseekFile(c) \/ LockMutex(c) \/ Reopen(c) \/ ReadFile(c) \/ Send(c) \/ CloseFile(c)
             \/ UnlockMutex(c) \/ \E k \in Chunks : RecvData(c, k) \/ ReadSocket(c, k)
      PROVE  needToReopen' = needToReopen /\ recv_failed' = recv_failed
  BY <1>8, Zenon
     DEF Accept, ClientLeaves, ClientReads, BeginRecv, ReadClosed, GetPeerName, HandlerStart,
         WriteFile, LseekFile, LockMutex, Reopen,
         ReadFile, Send, CloseFile, UnlockMutex, RecvData, ReadSocket, locals
<1>9. ASSUME NEW c \in Clients,
             \/ AcceptFails(c) \/ SendKills(c) \/ ThreadFails(c) \/ NoPeerName(c) \/ NoBuffer(c)
             \/ NoWriteBuf(c) \/ CloseClient(c)
      PROVE  End({c}) \/ End(Clients)
  BY <1>9, Zenon
     DEF AcceptFails, SendKills, ThreadFails, NoPeerName, NoBuffer, NoWriteBuf, CloseClient, Exit
<1>10. needToReopen' \in [Clients -> BOOLEAN] /\ recv_failed' \in [Clients -> BOOLEAN]
  <2> DEFINE Typed == needToReopen' \in [Clients -> BOOLEAN] /\ recv_failed' \in [Clients -> BOOLEAN]
  <2>1. ASSUME NEW hs, End(hs) PROVE Typed
    BY <1>5, <2>1
  <2>2. Exit => Typed
    BY <2>1 DEF Exit
  <2>3. \A c \in Clients : ~ Typed =>
          ~ \/ Accept(c) \/ ClientLeaves(c) \/ ClientReads(c) \/ BeginRecv(c) \/ ReadClosed(c)
            \/ GetPeerName(c) \/ HandlerStart(c) \/ WriteFile(c)
            \/ LseekFile(c) \/ LockMutex(c) \/ Reopen(c) \/ ReadFile(c) \/ Send(c) \/ CloseFile(c)
            \/ UnlockMutex(c) \/ \E k \in Chunks : RecvData(c, k) \/ ReadSocket(c, k)
    BY <1>7, <1>8
  <2>4. \A c \in Clients : ~ Typed =>
          ~ \/ DropData(c) \/ IoctlFile(c) \/ CloseAfterWrite(c)
            \/ RecvClosed(c) \/ RecvBadFd(c) \/ RecvError(c)
    BY <1>6
  <2>5. \A c \in Clients : ~ Typed =>
          ~ \/ AcceptFails(c) \/ SendKills(c) \/ ThreadFails(c) \/ NoPeerName(c) \/ NoBuffer(c)
            \/ NoWriteBuf(c) \/ CloseClient(c)
    BY <1>9, <2>1
  <2> HIDE DEF Typed
  <2>6. Typed
    BY <2>2, <2>3, <2>4, <2>5 DEF Next, signalInterruptHandler, Fault, HandlerStep
  <2> QED BY <2>6 DEF Typed
<1> QED BY <1>1, <1>2, <1>10, Zenon DEF FlagsInv

(* file_mutex *)

LEMMA MutexSame ==
  ASSUME MutexInv, alive, UNCHANGED file_mutex,
         \A c \in Clients : pc'[c] \in Locked <=> pc[c] \in Locked
  PROVE  MutexInv'
  BY DEF MutexInv

LEMMA MutexGoto ==
  ASSUME ServerInv, MutexInv, alive, UNCHANGED file_mutex, NEW c \in Clients, NEW from, NEW to,
         Goto(c, from, to), from \in Locked <=> to \in Locked
  PROVE  MutexInv'
<1>1. \A b \in Clients : pc'[b] = IF b = c THEN to ELSE pc[b]
  BY DEF ServerInv, Goto
<1>2. \A b \in Clients : pc'[b] \in Locked <=> pc[b] \in Locked
  BY <1>1 DEF Goto
<1> QED BY <1>2, MutexSame

LEMMA MutexNext == ASSUME ServerInv, MutexInv, Next PROVE MutexInv'
<1> USE DEF server
<1>1. alive
  BY DEF Next
<1>2. CASE Exit
  BY <1>2 DEF Exit, MutexInv
<1>3. ASSUME NEW c \in Clients, LockMutex(c) PROVE MutexInv'
  <2>1. /\ file_mutex = NULL /\ file_mutex' = c
        /\ \A b \in Clients : pc'[b] = IF b = c THEN "reopen" ELSE pc[b]
    BY <1>3 DEF LockMutex, Goto, ServerInv
  <2>2. \A b \in Clients : b # NULL
    BY NullAssumption
  <2>3. \A b \in Clients : pc[b] \notin Locked
    BY <1>1, <2>1, <2>2 DEF MutexInv
  <2>4. "reopen" \in Locked
    BY DEF Locked
  <2> QED BY <2>1, <2>3, <2>4 DEF MutexInv
<1>4. ASSUME NEW c \in Clients, UnlockMutex(c) \/ NoWriteBuf(c) PROVE MutexInv'
  <2>1. pc[c] \in Locked /\ file_mutex' = NULL
    BY <1>4 DEF UnlockMutex, NoWriteBuf, Goto, Locked
  <2>2. pc'[c] \notin Locked /\ \A b \in Clients \ {c} : pc'[b] = pc[b]
    <3>1. CASE UnlockMutex(c)
      BY <3>1 DEF UnlockMutex, Goto, ServerInv, Locked
    <3>2. CASE NoWriteBuf(c)
      BY <3>2, EndFacts DEF NoWriteBuf, Locked
    <3> QED BY <1>4, <3>1, <3>2
  <2>3. \A b \in Clients \ {c} : pc[b] \notin Locked
    BY <1>1, <2>1 DEF MutexInv
  <2>4. \A b \in Clients : b # NULL
    BY NullAssumption
  <2> QED BY <2>1, <2>2, <2>3, <2>4 DEF MutexInv
<1>5. ASSUME NEW c \in Clients, ThreadFails(c) \/ NoPeerName(c) \/ NoBuffer(c) \/ CloseClient(c)
      PROVE  MutexInv'
  <2>1. End({c}) /\ pc[c] \notin Locked /\ UNCHANGED file_mutex
    BY <1>5 DEF ThreadFails, NoPeerName, NoBuffer, CloseClient, Locked
  <2>2. \A b \in Clients : pc'[b] = IF b = c THEN "done" ELSE pc[b]
    BY <2>1, EndFacts
  <2>3. \A b \in Clients : pc'[b] \in Locked <=> pc[b] \in Locked
    BY <2>1, <2>2 DEF Locked
  <2> QED BY <1>1, <2>1, <2>3, MutexSame
<1>6. ASSUME UNCHANGED <<pc, file_mutex>> PROVE MutexInv'
  BY <1>1, <1>6, MutexSame
<1>7. ASSUME NEW c \in Clients,
             ClientLeaves(c) \/ ClientReads(c) \/ RecvClosed(c) \/ RecvFailed(c) \/ BeginRecv(c)
      PROVE  MutexInv'
  BY <1>6, <1>7, Zenon DEF ClientLeaves, ClientReads, RecvClosed, RecvFailed, BeginRecv
<1>8. ASSUME NEW c \in Clients,
             \/ Accept(c) \/ GetPeerName(c) \/ HandlerStart(c) \/ DropData(c) \/ IoctlFile(c)
             \/ WriteFile(c) \/ LseekFile(c) \/ CloseAfterWrite(c) \/ Reopen(c) \/ ReadFile(c)
             \/ ReadClosed(c) \/ Send(c) \/ CloseFile(c)
             \/ \E k \in Chunks : RecvData(c, k) \/ ReadSocket(c, k)
      PROVE  MutexInv'
  <2> DEFINE Out == Labels \ Locked
  <2>1. UNCHANGED file_mutex
    BY <1>8, Zenon
       DEF Accept, GetPeerName, HandlerStart, DropData, IoctlFile, WriteFile, LseekFile,
           CloseAfterWrite, Reopen, ReadFile, ReadClosed, Send, CloseFile, RecvData, ReadSocket
  <2>2. \/ \E from, to \in {"none", "start", "open", "recv", "drop", "ioctl", "write", "lseek",
                             "close", "lock"} : Goto(c, from, to)
        \/ \E from, to \in Locked : Goto(c, from, to)
    BY <1>8
       DEF Accept, GetPeerName, HandlerStart, DropData, IoctlFile, WriteFile, LseekFile,
           CloseAfterWrite, Reopen, ReadFile, ReadClosed, Send, CloseFile, RecvData, ReadSocket,
           Locked
  <2>3. ASSUME NEW from, NEW to, Goto(c, from, to), from \in Locked <=> to \in Locked PROVE MutexInv'
    BY <1>1, <2>1, <2>3, MutexGoto
  <2> QED BY <2>2, <2>3 DEF Locked
<1> QED BY <1>2, <1>3, <1>4, <1>5, <1>7, <1>8
        DEF Next, signalInterruptHandler, AcceptFails, SendKills, Fault, HandlerStep, RecvBadFd,
            RecvError

LEMMA TypeFromParts == ServerInv /\ TrafficInv /\ FlagsInv /\ MutexInv => TypeOK
<1> SUFFICES ASSUME ServerInv, TrafficInv, FlagsInv, MutexInv PROVE TypeOK
  OBVIOUS
<1>1. \A i \in DOMAIN fds :
        fds[i] \in [kind : {"free", "device", "socket", "listener", "standard"}, f_pos : Nat,
                   peer : Clients \union {NULL}]
  BY DescriptorFacts DEF ServerInv
<1>2. \A c \in Clients : /\ pc[c] \in Labels /\ client_sockfd[c] \in -1 .. MaxFds - 1
                         /\ waits_on[c] \in Clients \union {NULL}
                         /\ peer[c] \in {"open", "gone"} /\ budget[c] \in 0 .. MaxChunks[c]
  BY DEF ServerInv, TrafficInv
<1>3. \A c \in Clients : needToReopen[c] \in BOOLEAN /\ recv_failed[c] \in BOOLEAN
  BY Zenon DEF FlagsInv
<1>4. /\ file \in -1 .. MaxFds - 1 /\ sockfd = 3 /\ file_mutex \in Clients \union {NULL}
      /\ stalled \subseteq Clients
  BY DEF ServerInv, TrafficInv
<1>5. alive \in BOOLEAN /\ disturbed \in BOOLEAN
  BY Zenon DEF FlagsInv
<1>6. \A c \in Clients : alive => (file_mutex = c <=> pc[c] \in Locked)
  BY DEF MutexInv
<1> QED BY <1>1, <1>2, <1>3, <1>4, <1>5, <1>6, Zenon DEF TypeOK

(* The server is type correct: whatever its handlers open and close, each  *)
(* descriptor they use is -1 or in the table, and file_mutex belongs to    *)
(* the one handler that is between its lock and its unlock, or to nobody   *)
(* (handle_client, createTCPServer).                                       *)
THEOREM TypeCorrect == Spec => []TypeOK
<1>1. Init => FlagsInv /\ MutexInv
  <2>1. Init => FlagsInv
    BY Zenon DEF Init, FlagsInv
  <2>2. Init => MutexInv
    BY NullAssumption DEF Init, MutexInv, Locked
  <2> QED BY <2>1, <2>2
<1>2. FlagsInv /\ [Next]_vars => FlagsInv'
  <2>1. FlagsInv /\ UNCHANGED vars => FlagsInv'
    BY Zenon DEF FlagsInv, vars, locals, history
  <2> QED BY <2>1, FlagsNext
<1>3. ServerInv /\ MutexInv /\ [Next]_vars => MutexInv'
  <2>1. MutexInv /\ UNCHANGED vars => MutexInv'
    BY DEF MutexInv, vars, server
  <2> QED BY <2>1, MutexNext
<1> QED BY <1>1, <1>2, <1>3, ServerInvariant, TypeFromParts, PTL DEF Spec

---------------------------------------------------------------------------
(* The listening socket *)

Early == {"none", "start", "open", "done"}

(* A step that leaves "file" alone and, when nobody has come past the      *)
(* opening of "file", lets nobody come past it.                            *)
LEMMA ListenerApart ==
  ASSUME ServerInv, ListenerInv, file' = file,
         fds'[3].kind = "listener" => fds[3].kind = "listener",
         \A b \in Clients : client_sockfd'[b] \in {client_sockfd[b], -1},
         \/ \E c \in Clients : pc[c] \notin Early
         \/ \A b \in Clients : pc'[b] \in Early
  PROVE  ListenerInv'
  BY DEF ListenerInv, Early

LEMMA ListenerExit == ASSUME ServerInv, ListenerInv, Exit PROVE ListenerInv' /\ ~ alive'
<1>1. fds'[3] = Free /\ Free.kind = "free"
  BY DescriptorKinds DEF Exit, ServerInv
<1>2. ~ alive'
  BY DEF Exit
<1> QED BY <1>1, <1>2 DEF ListenerInv

LEMMA ListenerStep ==
  ASSUME ServerInv, DeviceInv, ListenerInv, Next
  PROVE  /\ ListenerInv'
         /\ Is(sockfd, "listener") /\ alive' => fds'[3] = Listener \/ \E c \in Clients : NoBuffer(c)
<1> DEFINE L == fds[3].kind = "listener"
           Goal == ListenerInv' /\ (L => fds'[3] = Listener \/ ~ alive' \/ \E c \in Clients : NoBuffer(c))
<1> USE DEF server, locals
<1>1. L <=> fds[3] = Listener
  BY DescriptorFacts DEF ServerInv
<1>2. Listener.kind = "listener" /\ Free.kind = "free"
  BY DescriptorKinds
<1>3. /\ DOMAIN pc = Clients /\ DOMAIN client_sockfd = Clients /\ DOMAIN fds = 0 .. MaxFds - 1
      /\ file \in -1 .. MaxFds - 1 /\ sockfd = 3
  BY DEF ServerInv
<1>4. ASSUME Exit PROVE Goal
  BY <1>4, ListenerExit
<1>5. ASSUME NEW c \in Clients, AcceptFails(c) \/ SendKills(c) PROVE Goal
  BY <1>5, ListenerExit DEF AcceptFails, SendKills
<1>6. ASSUME NEW c \in Clients, Accept(c) PROVE Goal
  <2>1. NewFd \in 0 .. MaxFds - 1 /\ fds[NewFd] = Free
    BY <1>6, NewFdFree DEF Accept
  <2>2. L /\ NewFd # 3
    BY <1>1, <1>2, <1>3, <1>6, <2>1, IsKind DEF Accept
  <2>3. fds' = [fds EXCEPT ![NewFd] = Socket(c)]
    BY <1>6 DEF Accept
  <2>4. fds'[3] = Listener
    BY <1>1, <1>3, <2>1, <2>2, <2>3
  <2>5. ListenerInv'
    BY <1>3, <1>6, <2>2 DEF Accept, Goto, ListenerInv
  <2> QED BY <2>4, <2>5
<1>7. ASSUME NEW hs, End(hs)
      PROVE  \A b \in Clients : /\ client_sockfd'[b] \in {client_sockfd[b], -1}
                                /\ pc'[b] \in {pc[b], "done"}
  BY <1>7, EndFacts
<1>9. ASSUME NEW c \in Clients, ThreadFails(c) \/ NoPeerName(c) PROVE Goal
  <2>1. PICK closed \in {{}, {client_sockfd[c]}} : Perror(closed)
    BY <1>9 DEF ThreadFails, NoPeerName
  <2>2. L => 3 \notin closed
    BY <2>1 DEF ListenerInv
  <2>3. fds'[3] = IF 3 \in closed THEN Free ELSE fds[3]
    BY <2>1, PerrorTable
  <2>4. /\ file' = file
        /\ \A b \in Clients : client_sockfd'[b] \in {client_sockfd[b], -1} /\ pc'[b] \in {pc[b], "done"}
    BY <1>7, <1>9 DEF ThreadFails, NoPeerName
  <2>5. (\E b \in Clients : pc[b] \notin Early) \/ \A b \in Clients : pc'[b] \in Early
    BY <2>4 DEF Early
  <2>6. ListenerInv'
    BY <1>2, <2>3, <2>4, <2>5, ListenerApart
  <2> QED BY <1>1, <2>2, <2>3, <2>6
<1>10. ASSUME NEW c \in Clients, NoBuffer(c) PROVE Goal
  <2>1. fds'[3] = Free
    BY <1>3, <1>10, ClosedTable DEF NoBuffer
  <2> QED BY <1>2, <1>10, <2>1 DEF ListenerInv
<1>11. ASSUME NEW c \in Clients, NoWriteBuf(c) \/ CloseClient(c) PROVE Goal
  <2>1. fds'[3] = fds[3] \/ (fds'[3] = Free /\ client_sockfd[c] = 3)
    BY <1>3, <1>11, ClosedTable DEF NoWriteBuf, CloseClient
  <2>2. pc[c] \notin Early
    BY <1>11 DEF NoWriteBuf, CloseClient, Early
  <2>3. file' = file /\ \A b \in Clients : client_sockfd'[b] \in {client_sockfd[b], -1}
    BY <1>7, <1>11 DEF NoWriteBuf, CloseClient
  <2>4. ListenerInv'
    BY <1>2, <2>1, <2>2, <2>3, ListenerApart
  <2> QED BY <1>1, <2>1, <2>4 DEF ListenerInv
<1>12. ASSUME NEW c \in Clients, HandlerStart(c) \/ (Reopen(c) /\ OpenFile) PROVE Goal
  <2>1. OpenFile /\ UNCHANGED client_sockfd
    BY <1>12 DEF HandlerStart, Reopen
  <2>2. L => file' # 3 /\ fds'[3] = fds[3]
    BY <1>1, <1>2, <2>1, OpenTable
  <2>3. ~ L => fds'[3].kind # "listener"
    <3>1. fds'[3] = fds[3] \/ fds'[3] = Device(0)
      BY <2>1, OpenTable
    <3> QED BY <3>1, DescriptorKinds
  <2> QED BY <1>1, <2>1, <2>2, <2>3 DEF ListenerInv
<1>13. ASSUME NEW c \in Clients, RecvFailed(c) PROVE Goal
  <2>1. fds'[3] = fds[3]
    BY <1>13, PerrorTable DEF RecvFailed
  <2>2. pc[c] \notin Early
    BY <1>13 DEF RecvFailed, Early
  <2>3. ListenerInv'
    BY <1>13, <2>1, <2>2, ListenerApart DEF RecvFailed
  <2> QED BY <1>1, <2>1, <2>3
<1>14. ASSUME NEW c \in Clients, DropData(c) \/ CloseAfterWrite(c) \/ CloseFile(c) PROVE Goal
  <2>1. fds' = Closed(file) /\ UNCHANGED <<file, client_sockfd>> /\ pc[c] \notin Early
    BY <1>14 DEF DropData, CloseAfterWrite, CloseFile, Goto, Early
  <2>2. fds'[3] = IF file = 3 THEN Free ELSE fds[3]
    BY <2>1, ClosedTable
  <2>3. L => file # 3
    BY <2>1 DEF ListenerInv, Early
  <2>4. ListenerInv'
    BY <1>2, <2>1, <2>2, ListenerApart
  <2> QED BY <1>1, <2>2, <2>3, <2>4
<1>15. ASSUME NEW c \in Clients, IoctlFile(c) \/ WriteFile(c) \/ LseekFile(c) \/ ReadFile(c)
       PROVE  Goal
  <2>1. UNCHANGED <<file, client_sockfd>> /\ pc[c] \notin Early
    BY <1>15 DEF IoctlFile, WriteFile, LseekFile, ReadFile, Goto, Early
  <2>2. L => file # 3
    BY <2>1 DEF ListenerInv, Early
  <2>3. fds' = fds \/ \E p : fds' = [fds EXCEPT ![file].f_pos = p]
    BY <1>15 DEF IoctlFile, WriteFile, LseekFile, ReadFile
  <2>4. file # 3 => fds'[3] = fds[3]
    BY <1>3, <2>3
  <2>5. fds'[3].kind = fds[3].kind
    <3>1. fds[3] \in Descriptors
      BY DEF ServerInv
    <3>2. \A p : [fds[3] EXCEPT !.f_pos = p].kind = fds[3].kind
      BY <3>1, DescriptorFacts
    <3>3. CASE fds' = fds
      BY <3>3
    <3>4. ASSUME NEW p, fds' = [fds EXCEPT ![file].f_pos = p] PROVE fds'[3].kind = fds[3].kind
      <4>1. CASE file = 3
        BY <1>3, <3>2, <3>4, <4>1
      <4> QED BY <2>4, <4>1
    <3> QED BY <2>3, <3>3, <3>4
  <2>6. ListenerInv'
    BY <2>1, <2>5, ListenerApart
  <2> QED BY <1>1, <2>2, <2>4, <2>6
<1>16. ASSUME NEW c \in Clients, UNCHANGED <<fds, file, client_sockfd>>,
              pc' = pc \/ pc[c] \notin Early \/ \A b \in Clients : pc'[b] \in {pc[b], "open"}
       PROVE  Goal
  <2>1. (\E b \in Clients : pc[b] \notin Early) \/ \A b \in Clients : pc'[b] \in Early
    BY <1>16 DEF Early
  <2>2. ListenerInv'
    BY <1>16, <2>1, ListenerApart
  <2> QED BY <1>1, <1>16, <2>2
<1>17. ASSUME NEW c \in Clients,
              \/ ClientLeaves(c) \/ RecvClosed(c) \/ LockMutex(c) \/ Send(c) \/ UnlockMutex(c)
              \/ GetPeerName(c) \/ (Reopen(c) /\ UNCHANGED <<file, fds>>)
              \/ ClientReads(c) \/ BeginRecv(c) \/ ReadClosed(c)
              \/ \E k \in Chunks : RecvData(c, k) \/ ReadSocket(c, k)
       PROVE  Goal
  <2>1. UNCHANGED <<fds, file, client_sockfd>>
    BY <1>17, Zenon DEF ClientLeaves, RecvClosed, LockMutex, Send, UnlockMutex, GetPeerName, Reopen,
                 RecvData, ReadSocket, ClientReads, BeginRecv, ReadClosed
  <2>2. pc' = pc \/ pc[c] \notin Early \/ \A b \in Clients : pc'[b] \in {pc[b], "open"}
    BY <1>3, <1>17 DEF ClientLeaves, RecvClosed, LockMutex, Send, UnlockMutex, GetPeerName, Reopen,
                 RecvData, ReadSocket, ClientReads, BeginRecv, ReadClosed, Goto, Early
  <2> QED BY <1>16, <2>1, <2>2
<1>18. ASSUME NEW c \in Clients, Reopen(c) PROVE OpenFile \/ UNCHANGED <<file, fds>>
  BY <1>18, Zenon DEF Reopen
<1>19. Is(sockfd, "listener") <=> L
  BY <1>3, IsKind
<1> HIDE DEF Goal
<1>20. Goal
  BY <1>4, <1>5, <1>6, <1>9, <1>10, <1>11, <1>12, <1>13, <1>14, <1>15, <1>17, <1>18
     DEF Next, signalInterruptHandler, Fault, HandlerStep, RecvBadFd, RecvError
<1> QED BY <1>19, <1>20 DEF Goal

(* The listening socket stays open while the server runs, whatever numbers *)
(* handlers close, until a handler finds no memory for its buffer          *)
(* (handle_client's close(file), close(client_sockfd) and close(sockfd)).  *)
THEOREM ListenerAlwaysKept == Spec => ListenerKept
<1>1. Init => ListenerInv
  BY DEF Init, ListenerInv
<1>2. ServerInv /\ DeviceInv /\ ListenerInv /\ [Next]_vars => ListenerInv'
  <2>1. ListenerInv /\ UNCHANGED vars => ListenerInv'
    BY DEF ListenerInv, vars, locals
  <2> QED BY <2>1, ListenerStep
<1>3. ServerInv /\ DeviceInv /\ ListenerInv /\ [Next]_vars =>
        [Is(sockfd, "listener") /\ alive' =>
           fds'[sockfd] = Listener \/ \E c \in Clients : NoBuffer(c)]_vars
  <2>1. ServerInv => sockfd = 3
    BY DEF ServerInv
  <2> QED BY <2>1, ListenerStep
<1> QED BY <1>1, <1>2, <1>3, ServerInvariant, PTL DEF Spec, ListenerKept

---------------------------------------------------------------------------
(* Descriptors are given back *)

(* A step that leaves the server calm is none that ends it and no failure. *)
CalmStep(c) ==
  \/ Accept(c) \/ ClientLeaves(c) \/ ClientReads(c) \/ HandlerStep(c)
  \/ \E k \in Chunks : RecvData(c, k) \/ ReadSocket(c, k)
  \/ NoPeerName(c) /\ ~ Is(client_sockfd[c], "socket")

LEMMA CalmNext == Next /\ Calm' => Calm /\ \E c \in Clients : CalmStep(c)
<1> SUFFICES ASSUME Next, alive', ~ disturbed' PROVE Calm /\ \E c \in Clients : CalmStep(c)
  BY DEF Calm
<1>1. alive
  BY DEF Next
<1>2. ~ Exit
  BY Zenon DEF Exit
<1>3. \A c : ~ Fails(c)
  BY Zenon DEF Fails
<1>4. PICK c \in Clients : CalmStep(c)
  BY <1>2, <1>3, Zenon
     DEF Next, signalInterruptHandler, AcceptFails, SendKills, Fault, ThreadFails, NoBuffer,
         RecvError, NoWriteBuf, NoPeerName, CalmStep
<1>5. ~ disturbed
  <2>1. CASE \/ Accept(c) \/ ClientLeaves(c) \/ ClientReads(c)
             \/ \E k \in Chunks : RecvData(c, k) \/ ReadSocket(c, k)
    BY <2>1, Zenon DEF Accept, ClientLeaves, ClientReads, RecvData, ReadSocket, history
  <2>2. CASE NoPeerName(c)
    BY <1>3, <2>2, Zenon DEF NoPeerName
  <2>3. CASE HandlerStep(c)
    BY <2>3, Zenon
       DEF history, HandlerStep, GetPeerName, HandlerStart, BeginRecv, RecvClosed, RecvBadFd,
           DropData, IoctlFile, ReadClosed, WriteFile, LseekFile, CloseAfterWrite, LockMutex,
           Reopen, ReadFile, Send, CloseFile,
           UnlockMutex, CloseClient
  <2> QED BY <1>4, <2>1, <2>2, <2>3 DEF CalmStep
<1> QED BY <1>1, <1>4, <1>5 DEF Calm

LEMMA PcAfter ==
  ASSUME ServerInv, NEW c \in Clients, NEW from, NEW to, Goto(c, from, to)
  PROVE  pc[c] = from /\ \A b \in Clients : pc'[b] = IF b = c THEN to ELSE pc[b]
  BY DEF ServerInv, Goto

LEMMA FileUsersWork == ASSUME NEW c, HasFile(c) PROVE pc[c] \in Working
  BY DEF HasFile, Working

LEMMA WorkersLive == ASSUME NEW c, pc[c] \in Working PROVE Live(c)
  BY DEF Live, Working

(* A step that opens and closes nothing. *)
LEMMA OwnersSame ==
  ASSUME ServerInv, OwnersInv, UNCHANGED <<file, client_sockfd>>, DOMAIN fds' = DOMAIN fds,
         \A i \in DOMAIN fds :
           fds'[i] = fds[i] \/ (fds[i].kind = "device" /\ fds'[i].kind = "device"),
         \A b \in Clients : /\ (Live(b) <=> Live(b)') /\ (HasFile(b) <=> HasFile(b)')
                            /\ pc'[b] # "drop" /\ Sound(b)',
         \A b, d \in Clients : pc'[b] \in Working /\ pc'[d] \in Working => b = d
  PROVE  OwnersInv'
<1>1. /\ DOMAIN fds = 0 .. MaxFds - 1
      /\ \A b \in Clients : client_sockfd[b] # -1 => client_sockfd[b] \in 0 .. MaxFds - 1
      /\ file # -1 => file \in 0 .. MaxFds - 1
  BY DEF ServerInv
<1>2. \A b \in Clients : Live(b)' => client_sockfd'[b] # -1 /\ fds'[client_sockfd'[b]] = Socket(b)
  <2>1. \A b \in Clients : Socket(b).kind # "device"
    BY DescriptorKinds
  <2> QED BY <1>1, <2>1 DEF OwnersInv
<1>3. \A b \in Clients : HasFile(b)' => file' = -1 \/ fds'[file'].kind = "device"
  BY <1>1 DEF OwnersInv
<1>4. \A i \in DOMAIN fds : fds'[i].kind = fds[i].kind
  OBVIOUS
<1>5. \A i \in DOMAIN fds' :
        /\ fds'[i].kind = "listener" => i = 3
        /\ fds'[i].kind = "standard" => i < 3 /\ ~ Daemon
        /\ fds'[i].kind = "socket" => \E c \in Clients : Live(c)' /\ i = client_sockfd'[c]
        /\ fds'[i].kind = "device" => i = file' /\ \E c \in Clients : HasFile(c)'
  BY <1>4 DEF OwnersInv
<1> QED BY <1>2, <1>3, <1>5 DEF OwnersInv

(* The one handler at work moves on, and the others stay where they are. *)
OnlyWorker(c) ==
  /\ pc[c] \in Working /\ pc'[c] \in Working \ {"drop"}
  /\ \A b \in Clients \ {c} : pc'[b] = pc[b]

LEMMA OthersIdle ==
  ASSUME OwnersInv, NEW c \in Clients, OnlyWorker(c)
  PROVE  /\ \A b \in Clients \ {c} : ~ HasFile(b) /\ ~ HasFile(b)' /\ (Live(b) <=> Live(b)')
         /\ Live(c) /\ Live(c)'
         /\ \A b, d \in Clients : pc'[b] \in Working /\ pc'[d] \in Working => b = d
         /\ \A b \in Clients : pc'[b] # "drop"
<1>1. \A b \in Clients \ {c} : pc[b] \notin Working /\ pc'[b] \notin Working /\ pc'[b] # "drop"
  BY DEF OwnersInv, OnlyWorker
<1>2. \A b \in Clients \ {c} : ~ HasFile(b) /\ ~ HasFile(b)'
  BY <1>1, FileUsersWork DEF HasFile, Working
<1>3. \A b \in Clients \ {c} : Live(b) <=> Live(b)'
  BY DEF Live, OnlyWorker
<1>4. Live(c) /\ Live(c)' /\ pc'[c] # "drop"
  BY DEF Live, OnlyWorker, Working
<1> QED BY <1>1, <1>2, <1>3, <1>4

(* It is no longer in a recv, and has noted nothing. *)
StopsWaiting(c) ==
  /\ UNCHANGED <<recv_failed, peer>>
  /\ \/ pc[c] # "recv" /\ waits_on' = waits_on
     \/ waits_on' = [waits_on EXCEPT ![c] = NULL]

LEMMA SoundKept ==
  ASSUME ServerInv, OwnersInv, NEW c \in Clients, OnlyWorker(c), StopsWaiting(c)
  PROVE  \A b \in Clients : Sound(b)'
<1>1. \A b \in Clients : recv_failed'[b] => peer'[b] # "open"
  BY Zenon DEF OwnersInv, Sound, StopsWaiting
<1>2. \A b \in Clients : waits_on'[b] = IF b = c THEN NULL ELSE waits_on[b]
  BY DEF OwnersInv, Sound, StopsWaiting, ServerInv
<1>3. \A b \in Clients : waits_on'[b] # NULL => pc'[b] = "recv" /\ waits_on'[b] = b
  BY <1>2 DEF OwnersInv, Sound, OnlyWorker
<1> QED BY <1>1, <1>3, Zenon DEF Sound

(* It opens the device, having closed what it had opened before. *)
LEMMA OwnersOpen ==
  ASSUME ServerInv, OwnersInv, NEW c \in Clients, OnlyWorker(c), OpenFile,
         ~ HasFile(c), HasFile(c)',
         UNCHANGED client_sockfd, StopsWaiting(c)
  PROVE  OwnersInv'
<1>1. /\ DOMAIN fds = 0 .. MaxFds - 1 /\ DOMAIN fds' = 0 .. MaxFds - 1
      /\ \A b \in Clients : client_sockfd[b] # -1 => client_sockfd[b] \in 0 .. MaxFds - 1
      /\ file' # -1 => file' \in 0 .. MaxFds - 1
  BY OpenTable DEF ServerInv
<1>2. \A i \in DOMAIN fds : fds[i].kind # "device"
  BY OthersIdle DEF OwnersInv
<1>3. /\ file' # -1 => fds[file'] = Free
      /\ \A i \in 0 .. MaxFds - 1 : fds'[i] = IF i = file' THEN Device(0) ELSE fds[i]
  BY OpenTable
<1>4. Device(0).kind = "device" /\ \A b \in Clients : Socket(b).kind = "socket" /\ Free.kind = "free"
  BY DescriptorKinds
<1>5. \A b \in Clients : Live(b) <=> Live(b)'
  BY OthersIdle
<1>6. \A b \in Clients : Live(b)' => client_sockfd'[b] # -1 /\ fds'[client_sockfd'[b]] = Socket(b)
  BY <1>1, <1>3, <1>4, <1>5 DEF OwnersInv
<1>7. \A b \in Clients : HasFile(b)' => file' = -1 \/ fds'[file'].kind = "device"
  BY <1>1, <1>3, <1>4
<1>8. \A i \in DOMAIN fds' :
        /\ fds'[i].kind = "listener" => i = 3
        /\ fds'[i].kind = "standard" => i < 3 /\ ~ Daemon
        /\ fds'[i].kind = "socket" => \E b \in Clients : Live(b)' /\ i = client_sockfd'[b]
        /\ fds'[i].kind = "device" => i = file' /\ \E b \in Clients : HasFile(b)'
  <2> SUFFICES ASSUME NEW i \in 0 .. MaxFds - 1
               PROVE  /\ fds'[i].kind = "listener" => i = 3
                      /\ fds'[i].kind = "standard" => i < 3 /\ ~ Daemon
                      /\ fds'[i].kind = "socket" => \E b \in Clients : Live(b)' /\ i = client_sockfd'[b]
                      /\ fds'[i].kind = "device" => i = file' /\ \E b \in Clients : HasFile(b)'
    BY <1>1
  <2>1. CASE i = file'
    BY <1>3, <1>4, <2>1
  <2>2. CASE i # file'
    <3>1. fds'[i] = fds[i] /\ fds[i].kind # "device"
      BY <1>1, <1>2, <1>3, <2>2
    <3> QED BY <1>1, <1>5, <3>1 DEF OwnersInv
  <2> QED BY <2>1, <2>2
<1>9. \A b \in Clients : Sound(b)'
  BY SoundKept
<1> QED BY <1>6, <1>7, <1>8, <1>9, OthersIdle DEF OwnersInv

(* It closes the device. *)
LEMMA OwnersCloseFile ==
  ASSUME ServerInv, OwnersInv, NEW c \in Clients, OnlyWorker(c), fds' = Closed(file),
         HasFile(c), ~ HasFile(c)',
         UNCHANGED <<file, client_sockfd>>, StopsWaiting(c)
  PROVE  OwnersInv'
<1>1. /\ DOMAIN fds = 0 .. MaxFds - 1 /\ DOMAIN fds' = 0 .. MaxFds - 1
      /\ \A b \in Clients : client_sockfd[b] # -1 => client_sockfd[b] \in 0 .. MaxFds - 1
      /\ file # -1 => file \in 0 .. MaxFds - 1
  BY ClosedTable DEF ServerInv
<1>2. file # -1 => fds[file].kind = "device"
  BY DEF OwnersInv
<1>3. \A i \in 0 .. MaxFds - 1 : fds'[i] = IF i = file THEN Free ELSE fds[i]
  BY ClosedTable
<1>4. Free.kind = "free" /\ \A b \in Clients : Socket(b).kind = "socket"
  BY DescriptorKinds
<1>5. \A b \in Clients : (Live(b) <=> Live(b)') /\ ~ HasFile(b)'
  BY OthersIdle
<1>6. \A b \in Clients : Live(b)' => client_sockfd'[b] # -1 /\ fds'[client_sockfd'[b]] = Socket(b)
  BY <1>1, <1>2, <1>3, <1>4, <1>5 DEF OwnersInv
<1>7. \A i \in DOMAIN fds' :
        /\ fds'[i].kind = "listener" => i = 3
        /\ fds'[i].kind = "standard" => i < 3 /\ ~ Daemon
        /\ fds'[i].kind = "socket" => \E b \in Clients : Live(b)' /\ i = client_sockfd'[b]
        /\ fds'[i].kind # "device"
  <2> SUFFICES ASSUME NEW i \in 0 .. MaxFds - 1
               PROVE  /\ fds'[i].kind = "listener" => i = 3
                      /\ fds'[i].kind = "standard" => i < 3 /\ ~ Daemon
                      /\ fds'[i].kind = "socket" => \E b \in Clients : Live(b)' /\ i = client_sockfd'[b]
                      /\ fds'[i].kind # "device"
    BY <1>1
  <2>1. CASE i = file
    BY <1>3, <1>4, <2>1
  <2>2. CASE i # file
    <3>1. fds'[i] = fds[i] /\ fds[i].kind # "device"
      BY <1>1, <1>3, <2>2 DEF OwnersInv
    <3> QED BY <1>1, <1>5, <3>1 DEF OwnersInv
  <2> QED BY <2>1, <2>2
<1>8. \A b \in Clients : Sound(b)'
  BY SoundKept
<1> QED BY <1>5, <1>6, <1>7, <1>8, OthersIdle DEF OwnersInv

(* A connection takes a free descriptor; the handler's end gives it back. *)
LEMMA OwnersAccept == ASSUME ServerInv, OwnersInv, NEW c \in Clients, Accept(c) PROVE OwnersInv'
<1> DEFINE n == NewFd
<1>1. n \in 0 .. MaxFds - 1 /\ fds[n] = Free
  BY NewFdFree DEF Accept
<1>2. /\ fds' = [fds EXCEPT ![n] = Socket(c)]
      /\ client_sockfd' = [client_sockfd EXCEPT ![c] = n]
      /\ UNCHANGED <<file, peer, needToReopen, recv_failed, waits_on>>
  BY DEF Accept
<1> HIDE DEF n
<1>3. pc[c] = "none" /\ \A b \in Clients : pc'[b] = IF b = c THEN "start" ELSE pc[b]
  BY PcAfter DEF Accept
<1>4. /\ DOMAIN fds = 0 .. MaxFds - 1 /\ DOMAIN fds' = 0 .. MaxFds - 1
      /\ \A b \in Clients : client_sockfd[b] # -1 => client_sockfd[b] \in 0 .. MaxFds - 1
      /\ \A b \in Clients : client_sockfd'[b] = IF b = c THEN n ELSE client_sockfd[b]
      /\ file # -1 => file \in 0 .. MaxFds - 1
      /\ \A i \in 0 .. MaxFds - 1 : fds'[i] = IF i = n THEN Socket(c) ELSE fds[i]
  BY <1>1, <1>2 DEF ServerInv
<1>5. Free.kind = "free" /\ \A b \in Clients : Socket(b).kind = "socket"
  BY DescriptorKinds
<1>6. \A b \in Clients : HasFile(b) <=> HasFile(b)'
  BY <1>2, <1>3 DEF HasFile
<1>7. /\ Live(c)' /\ ~ Live(c)
      /\ \A b \in Clients \ {c} : Live(b) <=> Live(b)'
  BY <1>3 DEF Live
<1>8. \A b \in Clients : Live(b)' => client_sockfd'[b] # -1 /\ fds'[client_sockfd'[b]] = Socket(b)
  BY <1>1, <1>4, <1>5, <1>7 DEF OwnersInv
<1>9. \A b \in Clients : HasFile(b)' => file' = -1 \/ fds'[file'].kind = "device"
  BY <1>1, <1>2, <1>4, <1>5, <1>6 DEF OwnersInv
<1>10. \A i \in DOMAIN fds' :
         /\ fds'[i].kind = "listener" => i = 3
         /\ fds'[i].kind = "standard" => i < 3 /\ ~ Daemon
         /\ fds'[i].kind = "socket" => \E b \in Clients : Live(b)' /\ i = client_sockfd'[b]
         /\ fds'[i].kind = "device" => i = file' /\ \E b \in Clients : HasFile(b)'
  <2> SUFFICES ASSUME NEW i \in 0 .. MaxFds - 1
               PROVE  /\ fds'[i].kind = "listener" => i = 3
                      /\ fds'[i].kind = "standard" => i < 3 /\ ~ Daemon
                      /\ fds'[i].kind = "socket" => \E b \in Clients : Live(b)' /\ i = client_sockfd'[b]
                      /\ fds'[i].kind = "device" => i = file' /\ \E b \in Clients : HasFile(b)'
    BY <1>4
  <2>1. CASE i = n
    BY <1>4, <1>5, <1>7, <2>1
  <2>2. CASE i # n
    <3>1. fds'[i] = fds[i]
      BY <1>4, <2>2
    <3>2. fds[i].kind = "socket" => \E b \in Clients : Live(b)' /\ i = client_sockfd'[b]
      BY <1>4, <1>7 DEF OwnersInv
    <3> QED BY <1>2, <1>4, <1>6, <3>1, <3>2 DEF OwnersInv
  <2> QED BY <2>1, <2>2
<1>11. \A b \in Clients : Sound(b)'
  <2>1. \A b \in Clients : recv_failed'[b] => peer'[b] # "open"
    BY <1>2, Zenon DEF OwnersInv, Sound
  <2>2. \A b \in Clients : waits_on'[b] # NULL => pc'[b] = "recv" /\ waits_on'[b] = b
    BY <1>2, <1>3 DEF OwnersInv, Sound
  <2> QED BY <2>1, <2>2, Zenon DEF Sound
<1>12. /\ \A b, d \in Clients : pc'[b] \in Working /\ pc'[d] \in Working => b = d
       /\ \A b \in Clients : pc'[b] # "drop"
  BY <1>3 DEF OwnersInv, Working
<1> QED BY <1>8, <1>9, <1>10, <1>11, <1>12 DEF OwnersInv

LEMMA OwnersCloseClient ==
  ASSUME ServerInv, OwnersInv, NEW c \in Clients, CloseClient(c) PROVE OwnersInv'
<1>1. End({c}) /\ fds' = Closed(client_sockfd[c]) /\ file' = file /\ pc[c] = "close_client"
  BY DEF CloseClient
<1>2. \A b \in Clients : IF b = c THEN pc'[b] = "done"
                         ELSE pc'[b] = pc[b] /\ client_sockfd'[b] = client_sockfd[b]
  BY <1>1, EndFacts
<1>3. /\ DOMAIN fds = 0 .. MaxFds - 1 /\ DOMAIN fds' = 0 .. MaxFds - 1
      /\ \A b \in Clients : client_sockfd[b] # -1 => client_sockfd[b] \in 0 .. MaxFds - 1
      /\ file # -1 => file \in 0 .. MaxFds - 1
      /\ \A i \in 0 .. MaxFds - 1 : fds'[i] = IF i = client_sockfd[c] THEN Free ELSE fds[i]
  BY <1>1, ClosedTable DEF ServerInv
<1>4. Free.kind = "free" /\ \A b \in Clients : Socket(b).kind = "socket" /\ Socket(b).peer = b
  BY DescriptorKinds
<1>5. \A b \in Clients : ~ HasFile(b) /\ ~ HasFile(b)'
  <2>1. ~ HasFile(c) /\ pc[c] \in Working /\ ~ HasFile(c)'
    BY <1>1, <1>2 DEF HasFile, Working
  <2>2. \A b \in Clients \ {c} : pc[b] \notin Working /\ pc'[b] \notin Working
    BY <1>2, <2>1 DEF OwnersInv
  <2>3. \A b \in Clients \ {c} : ~ HasFile(b) /\ ~ HasFile(b)'
    BY <2>2 DEF HasFile, Working
  <2> QED BY <2>1, <2>3
<1>6. /\ Live(c) /\ ~ Live(c)'
      /\ \A b \in Clients \ {c} : Live(b) <=> Live(b)'
  BY <1>1, <1>2 DEF Live
<1>7. \A b \in Clients \ {c} : Live(b) => client_sockfd[b] # client_sockfd[c]
  BY <1>4, <1>6 DEF OwnersInv
<1>8. \A b \in Clients : Live(b)' => client_sockfd'[b] # -1 /\ fds'[client_sockfd'[b]] = Socket(b)
  BY <1>2, <1>3, <1>6, <1>7 DEF OwnersInv
<1>9. \A i \in DOMAIN fds' :
        /\ fds'[i].kind = "listener" => i = 3
        /\ fds'[i].kind = "standard" => i < 3 /\ ~ Daemon
        /\ fds'[i].kind = "socket" => \E b \in Clients : Live(b)' /\ i = client_sockfd'[b]
        /\ fds'[i].kind # "device"
  <2> SUFFICES ASSUME NEW i \in 0 .. MaxFds - 1
               PROVE  /\ fds'[i].kind = "listener" => i = 3
                      /\ fds'[i].kind = "standard" => i < 3 /\ ~ Daemon
                      /\ fds'[i].kind = "socket" => \E b \in Clients : Live(b)' /\ i = client_sockfd'[b]
                      /\ fds'[i].kind # "device"
    BY <1>3
  <2>1. CASE i = client_sockfd[c]
    BY <1>3, <1>4, <2>1
  <2>2. CASE i # client_sockfd[c]
    <3>1. fds'[i] = fds[i]
      BY <1>3, <2>2
    <3>2. fds[i].kind = "socket" => \E b \in Clients : Live(b)' /\ i = client_sockfd'[b]
      BY <1>2, <1>3, <1>6, <2>2 DEF OwnersInv
    <3> QED BY <1>3, <1>5, <3>1, <3>2 DEF OwnersInv
  <2> QED BY <2>1, <2>2
<1>10. \A b \in Clients : Sound(b)'
  <2>1. /\ recv_failed' = [b \in Clients |-> IF b \in {c} THEN FALSE ELSE recv_failed[b]]
        /\ peer' = [b \in Clients |-> IF b \in Unused(c) THEN "gone" ELSE peer[b]]
    BY <1>1 DEF End, CloseClient, HangUp
  <2>2. \A b \in Clients : b # c => (recv_failed'[b] <=> recv_failed[b]) /\ peer'[b] = peer[b]
    BY <2>1, Zenon DEF Unused
  <2>3. ~ recv_failed'[c]
    BY <2>1, Zenon
  <2>4. \A b \in Clients : recv_failed'[b] => peer'[b] # "open"
    BY <2>2, <2>3, ZenonT(40) DEF OwnersInv, Sound
  <2>5. \A b \in Clients : waits_on'[b] = IF b = c THEN NULL ELSE waits_on[b]
    BY <1>1, EndFacts
  <2>6. \A b \in Clients : waits_on'[b] # NULL => pc'[b] = "recv" /\ waits_on'[b] = b
    BY <1>2, <2>5 DEF OwnersInv, Sound
  <2> QED BY <2>4, <2>6, Zenon DEF Sound
<1>11. /\ \A b, d \in Clients : pc'[b] \in Working /\ pc'[d] \in Working => b = d
       /\ \A b \in Clients : pc'[b] # "drop"
  BY <1>2 DEF OwnersInv, Working
<1> QED BY <1>5, <1>8, <1>9, <1>10, <1>11 DEF OwnersInv

LEMMA OwnSocket ==
  ASSUME ServerInv, OwnersInv, NEW c \in Clients, Live(c)
  PROVE  Is(client_sockfd[c], "socket") /\ fds[client_sockfd[c]].peer = c
<1>1. client_sockfd[c] \in 0 .. MaxFds - 1 /\ fds[client_sockfd[c]] = Socket(c)
  BY DEF ServerInv, OwnersInv
<1> QED BY <1>1, IsKind, DescriptorKinds

(* At most a file position has changed. *)
Moved == fds' = fds \/ (Is(file, "device") /\ \E p : fds' = [fds EXCEPT ![file].f_pos = p])

LEMMA MovedKinds ==
  ASSUME ServerInv, Moved
  PROVE  /\ DOMAIN fds' = DOMAIN fds
         /\ \A i \in DOMAIN fds :
              fds'[i] = fds[i] \/ (fds[i].kind = "device" /\ fds'[i].kind = "device")
<1>1. CASE fds' = fds
  BY <1>1
<1>2. CASE fds' # fds
  <2>1. PICK p : fds' = [fds EXCEPT ![file].f_pos = p]
    BY <1>2 DEF Moved
  <2>2. file \in 0 .. MaxFds - 1 /\ fds[file].kind = "device"
    BY <1>2, IsKind DEF Moved
  <2>3. fds \in [0 .. MaxFds - 1 -> Descriptors]
    BY DEF ServerInv
  <2>4. [fds[file] EXCEPT !.f_pos = p].kind = "device"
    <3>1. [fds[file] EXCEPT !.f_pos = p] = Device(p)
      BY <2>2, <2>3, DescriptorFacts
    <3> QED BY <3>1, DescriptorKinds
  <2> QED BY <2>1, <2>2, <2>3, <2>4
<1> QED BY <1>1, <1>2

LEMMA OwnersMove ==
  ASSUME ServerInv, OwnersInv, NEW c \in Clients, OnlyWorker(c), Moved,
         HasFile(c) <=> HasFile(c)', UNCHANGED <<file, client_sockfd>>, StopsWaiting(c)
  PROVE  OwnersInv'
<1>1. \A b \in Clients : Sound(b)'
  BY SoundKept
<1>2. \A b \in Clients : (Live(b) <=> Live(b)') /\ (HasFile(b) <=> HasFile(b)') /\ pc'[b] # "drop"
  BY OthersIdle
<1>3. \A b, d \in Clients : pc'[b] \in Working /\ pc'[d] \in Working => b = d
  BY OthersIdle
<1> QED BY <1>1, <1>2, <1>3, MovedKinds, OwnersSame

LEMMA OwnersStep ==
  ASSUME ServerInv, TrafficInv, OwnersInv, NEW c \in Clients, CalmStep(c), ~ disturbed'
  PROVE  OwnersInv'
<1> USE DEF server, locals
<1>1. CASE Accept(c)
  BY <1>1, OwnersAccept
<1>2. CASE CloseClient(c)
  BY <1>2, OwnersCloseClient
<1>21. ASSUME UNCHANGED <<pc, waits_on>>, \A b \in Clients : recv_failed'[b] => peer'[b] # "open"
       PROVE  \A b \in Clients : Sound(b)'
  <2>1. \A b \in Clients : waits_on'[b] # NULL => pc'[b] = "recv" /\ waits_on'[b] = b
    BY <1>21 DEF OwnersInv, Sound
  <2> QED BY <1>21, <2>1, Zenon DEF Sound
<1>3. ASSUME UNCHANGED <<pc, needToReopen>>
      PROVE  /\ \A b \in Clients : (Live(b) <=> Live(b)') /\ (HasFile(b) <=> HasFile(b)')
             /\ \A b \in Clients : pc'[b] # "drop"
             /\ \A b, d \in Clients : pc'[b] \in Working /\ pc'[d] \in Working => b = d
  BY <1>3 DEF Live, HasFile, OwnersInv
<1>4. CASE ClientLeaves(c)
  <2>1. \A b \in Clients : recv_failed'[b] => peer'[b] # "open"
    <3>1. peer' = [peer EXCEPT ![c] = "gone"] /\ recv_failed' = recv_failed /\ DOMAIN peer = Clients
      BY <1>4 DEF ClientLeaves, TrafficInv
    <3>2. \A b \in Clients : peer'[b] \in {peer[b], "gone"}
      BY <3>1
    <3> QED BY <3>1, <3>2 DEF OwnersInv, Sound
  <2>2. \A b \in Clients : Sound(b)'
    BY <1>4, <1>21, <2>1 DEF ClientLeaves
  <2> QED BY <1>3, <1>4, <2>2, OwnersSame DEF ClientLeaves
<1>22. CASE ClientReads(c)
  <2>1. \A b \in Clients : recv_failed'[b] => peer'[b] # "open"
    BY <1>22, Zenon DEF ClientReads, OwnersInv, Sound
  <2>2. \A b \in Clients : Sound(b)'
    BY <1>21, <1>22, <2>1 DEF ClientReads
  <2> QED BY <1>3, <1>22, <2>2, OwnersSame DEF ClientReads
<1>23. CASE BeginRecv(c)
  <2>1. pc[c] \in {"recv", "read"} /\ UNCHANGED <<fds, file, pc, client_sockfd, needToReopen,
                                                  recv_failed, peer>>
    BY <1>23 DEF BeginRecv
  <2>2. PICK d \in Peer(IF pc[c] = "recv" THEN client_sockfd[c] ELSE file) :
          waits_on' = [waits_on EXCEPT ![c] = d]
    BY <1>23 DEF BeginRecv
  <2>3. pc[c] = "recv"
    <3> SUFFICES ASSUME pc[c] = "read" PROVE FALSE
      BY <2>1
    <3>1. file \in DOMAIN fds /\ fds[file] = Socket(d)
      BY <2>2 DEF Peer
    <3>2. fds[file].kind = "device"
      BY <3>1 DEF OwnersInv, HasFile, ServerInv
    <3> QED BY <3>1, <3>2, DescriptorKinds
  <2>4. d = c
    <3>1. Live(c)
      BY <2>3 DEF Live
    <3>2. fds[client_sockfd[c]] = Socket(d) /\ fds[client_sockfd[c]] = Socket(c)
      BY <2>2, <2>3, <3>1 DEF Peer, OwnersInv
    <3>3. Socket(d).peer = d /\ Socket(c).peer = c
      BY Zenon DEF Socket, Free
    <3> QED BY <3>2, <3>3
  <2>5. \A b \in Clients : waits_on'[b] = IF b = c THEN c ELSE waits_on[b]
    BY <2>2, <2>4 DEF ServerInv
  <2>6. \A b \in Clients : waits_on'[b] # NULL => pc'[b] = "recv" /\ waits_on'[b] = b
    BY <2>1, <2>3, <2>5 DEF OwnersInv, Sound
  <2>7. \A b \in Clients : recv_failed'[b] => peer'[b] # "open"
    BY <2>1, Zenon DEF OwnersInv, Sound
  <2>8. \A b \in Clients : Sound(b)'
    BY <2>6, <2>7, Zenon DEF Sound
  <2> QED BY <1>3, <2>1, <2>8, OwnersSame
<1>5. CASE RecvClosed(c)
  <2>1. peer[c] # "open"
    <3>1. waits_on[c] = c
      BY <1>5 DEF RecvClosed, OwnersInv, Sound
    <3> QED BY <1>5, <3>1 DEF RecvClosed
  <2>2. \A b \in Clients : recv_failed'[b] => peer'[b] # "open"
    <3>1. recv_failed' = [recv_failed EXCEPT ![c] = TRUE] /\ peer' = peer
      BY <1>5 DEF RecvClosed
    <3>2. \A b \in Clients \ {c} : recv_failed'[b] <=> recv_failed[b]
      BY <3>1, Zenon DEF ServerInv
    <3> QED BY <2>1, <3>1, <3>2 DEF OwnersInv, Sound
  <2>3. \A b \in Clients : waits_on'[b] # NULL => pc'[b] = "recv" /\ waits_on'[b] = b
    BY <1>5 DEF RecvClosed, ServerInv, OwnersInv, Sound
  <2>4. \A b \in Clients : Sound(b)'
    BY <2>2, <2>3, Zenon DEF Sound
  <2> QED BY <1>3, <1>5, <2>4, OwnersSame DEF RecvClosed
<1>6. CASE GetPeerName(c)
  <2>1. \A b \in Clients : pc[b] \notin Working
    BY <1>6, Zenon DEF GetPeerName
  <2>2. pc[c] = "start" /\ \A b \in Clients : pc'[b] = IF b = c THEN "open" ELSE pc[b]
    BY <1>6, PcAfter DEF GetPeerName
  <2>3. \A b \in Clients : (Live(b) <=> Live(b)') /\ pc'[b] # "drop"
    BY <2>1, <2>2 DEF Live, OwnersInv
  <2>4. \A b \in Clients : HasFile(b) <=> HasFile(b)'
    BY <2>1, <2>2 DEF HasFile, Working
  <2>5. \A b, d \in Clients : pc'[b] \in Working /\ pc'[d] \in Working => b = d
    BY <2>1, <2>2
  <2>6. \A b \in Clients : Sound(b)'
    <3>1. UNCHANGED <<recv_failed, peer, waits_on>>
      BY <1>6 DEF GetPeerName
    <3>2. \A b \in Clients : recv_failed'[b] => peer'[b] # "open"
      BY <3>1, Zenon DEF OwnersInv, Sound
    <3>3. \A b \in Clients : waits_on'[b] # NULL => pc'[b] = "recv" /\ waits_on'[b] = b
      BY <2>2, <3>1 DEF OwnersInv, Sound
    <3> QED BY <3>2, <3>3, Zenon DEF Sound
  <2>7. UNCHANGED <<fds, file, client_sockfd>>
    BY <1>6 DEF GetPeerName
  <2> QED BY <2>3, <2>4, <2>5, <2>6, <2>7, OwnersSame
<1>7. ASSUME (NoPeerName(c) /\ ~ Is(client_sockfd[c], "socket")) \/ RecvBadFd(c) \/ DropData(c)
             \/ ReadClosed(c) \/ \E k \in Chunks : ReadSocket(c, k)
      PROVE  FALSE
  <2>1. CASE (NoPeerName(c) /\ ~ Is(client_sockfd[c], "socket")) \/ RecvBadFd(c)
    <3>1. Live(c)
      BY <2>1 DEF NoPeerName, RecvBadFd, RecvFailed, Live
    <3> QED BY <2>1, <3>1, OwnSocket DEF RecvBadFd
  <2>2. CASE DropData(c)
    BY <2>2 DEF DropData, Goto, OwnersInv
  <2>3. CASE ReadClosed(c) \/ \E k \in Chunks : ReadSocket(c, k)
    <3>1. pc[c] = "read" /\ waits_on[c] # NULL
      BY <2>3 DEF ReadSocket, ReadClosed, Goto
    <3> QED BY <3>1 DEF OwnersInv, Sound
  <2> QED BY <1>7, <2>1, <2>2, <2>3
<1>8. ASSUME NEW from, NEW to, Goto(c, from, to), from \in Working, to \in Working \ {"drop"}
      PROVE  OnlyWorker(c) /\ pc[c] = from /\ pc'[c] = to
  BY <1>8, PcAfter DEF OnlyWorker
<1>9. CASE HandlerStart(c)
  <2>1. OnlyWorker(c) /\ pc[c] = "open" /\ pc'[c] = "recv"
    BY <1>8, <1>9 DEF HandlerStart, Working
  <2>2. ~ HasFile(c) /\ HasFile(c)'
    BY <2>1 DEF HasFile
  <2> QED BY <1>9, <2>1, <2>2, OwnersOpen DEF HandlerStart, StopsWaiting
<1>10. ASSUME NEW k \in Chunks, RecvData(c, k) PROVE OwnersInv'
  <2>1. pc[c] = "recv"
    BY <1>10 DEF RecvData, Goto
  <2>2. peer[c] = "open"
    <3>1. waits_on[c] = c
      BY <1>10 DEF RecvData, OwnersInv, Sound
    <3> QED BY <1>10, <3>1 DEF RecvData
  <2>3. ~ recv_failed[c]
    BY <2>2 DEF OwnersInv, Sound
  <2>4. PICK to \in {"ioctl", "write"} : Goto(c, "recv", to)
    BY <1>10, <2>3, Zenon DEF RecvData
  <2>5. OnlyWorker(c) /\ pc'[c] = to
    BY <1>8, <2>4 DEF Working
  <2>6. HasFile(c) /\ HasFile(c)'
    BY <2>1, <2>5 DEF HasFile
  <2> QED BY <1>10, <2>5, <2>6, OwnersMove DEF RecvData, Moved, StopsWaiting
<1>11. CASE IoctlFile(c)
  <2>1. OnlyWorker(c) /\ pc[c] = "ioctl" /\ pc'[c] = "lock"
    BY <1>8, <1>11 DEF IoctlFile, Working
  <2>2. ~ needToReopen'[c]
    BY <1>11, Zenon DEF IoctlFile, ServerInv
  <2>3. HasFile(c) /\ HasFile(c)'
    BY <2>1, <2>2 DEF HasFile
  <2> QED BY <1>11, <2>1, <2>3, OwnersMove DEF IoctlFile, Moved, StopsWaiting
<1>12. CASE WriteFile(c)
  <2>1. PICK to \in {"lseek", "recv"} : Goto(c, "write", to)
    BY <1>12 DEF WriteFile
  <2>2. OnlyWorker(c) /\ pc[c] = "write" /\ pc'[c] = to
    BY <1>8, <2>1 DEF Working
  <2>3. HasFile(c) /\ HasFile(c)'
    BY <2>2 DEF HasFile
  <2> QED BY <1>12, <2>2, <2>3, OwnersMove DEF WriteFile, Moved, StopsWaiting
<1>13. CASE LseekFile(c)
  <2>1. OnlyWorker(c) /\ pc[c] = "lseek" /\ pc'[c] = "close"
    BY <1>8, <1>13 DEF LseekFile, Working
  <2>2. HasFile(c) /\ HasFile(c)'
    BY <2>1 DEF HasFile
  <2> QED BY <1>13, <2>1, <2>2, OwnersMove DEF LseekFile, Moved, StopsWaiting
<1>14. CASE CloseAfterWrite(c)
  <2>1. OnlyWorker(c) /\ pc[c] = "close" /\ pc'[c] = "lock"
    BY <1>8, <1>14 DEF CloseAfterWrite, Working
  <2>2. needToReopen'[c]
    BY <1>14, Zenon DEF CloseAfterWrite, ServerInv
  <2>3. HasFile(c) /\ ~ HasFile(c)'
    BY <2>1, <2>2 DEF HasFile
  <2> QED BY <1>14, <2>1, <2>3, OwnersCloseFile DEF CloseAfterWrite, StopsWaiting
<1>15. CASE LockMutex(c)
  <2>1. OnlyWorker(c) /\ pc[c] = "lock" /\ pc'[c] = "reopen"
    BY <1>8, <1>15 DEF LockMutex, Working
  <2>2. HasFile(c) <=> HasFile(c)'
    BY <1>15, <2>1 DEF HasFile, LockMutex
  <2> QED BY <1>15, <2>1, <2>2, OwnersMove DEF LockMutex, Moved, StopsWaiting
<1>16. CASE Reopen(c)
  <2>1. OnlyWorker(c) /\ pc[c] = "reopen" /\ pc'[c] = "read"
    BY <1>8, <1>16 DEF Reopen, Working
  <2>2. HasFile(c)'
    BY <2>1 DEF HasFile
  <2>3. CASE needToReopen[c]
    <3>1. ~ HasFile(c)
      BY <2>1, <2>3 DEF HasFile
    <3> QED BY <1>16, <2>1, <2>2, <2>3, <3>1, OwnersOpen DEF Reopen, StopsWaiting
  <2>4. CASE ~ needToReopen[c]
    <3>1. HasFile(c)
      BY <2>1, <2>4 DEF HasFile
    <3> QED BY <1>16, <2>1, <2>2, <2>4, <3>1, OwnersMove DEF Reopen, Moved, StopsWaiting
  <2> QED BY <2>3, <2>4
<1>17. CASE ReadFile(c)
  <2>1. PICK to \in {"close_file", "send"} : Goto(c, "read", to)
    BY <1>17 DEF ReadFile
  <2>2. OnlyWorker(c) /\ pc[c] = "read" /\ pc'[c] = to
    BY <1>8, <2>1 DEF Working
  <2>3. HasFile(c) /\ HasFile(c)'
    BY <2>2 DEF HasFile
  <2>4. Moved
    BY <1>17 DEF ReadFile, Moved
  <2> QED BY <1>17, <2>2, <2>3, <2>4, OwnersMove DEF ReadFile, StopsWaiting
<1>18. CASE Send(c)
  <2>1. OnlyWorker(c) /\ pc[c] = "send" /\ pc'[c] = "read"
    BY <1>8, <1>18 DEF Send, Working
  <2>2. HasFile(c) /\ HasFile(c)'
    BY <2>1 DEF HasFile
  <2> QED BY <1>18, <2>1, <2>2, OwnersMove DEF Send, Moved, StopsWaiting
<1>19. CASE CloseFile(c)
  <2>1. OnlyWorker(c) /\ pc[c] = "close_file" /\ pc'[c] = "unlock"
    BY <1>8, <1>19 DEF CloseFile, Working
  <2>2. HasFile(c) /\ ~ HasFile(c)'
    BY <2>1 DEF HasFile
  <2> QED BY <1>19, <2>1, <2>2, OwnersCloseFile DEF CloseFile, StopsWaiting
<1>20. CASE UnlockMutex(c)
  <2>1. OnlyWorker(c) /\ pc[c] = "unlock" /\ pc'[c] = "close_client"
    BY <1>8, <1>20 DEF UnlockMutex, Working
  <2>2. ~ HasFile(c) /\ ~ HasFile(c)'
    BY <2>1 DEF HasFile
  <2> QED BY <1>20, <2>1, <2>2, OwnersMove DEF UnlockMutex, Moved, StopsWaiting
<1> QED BY <1>1, <1>2, <1>4, <1>5, <1>6, <1>7, <1>9, <1>10, <1>11, <1>12, <1>13, <1>14, <1>15,
           <1>16, <1>17, <1>18, <1>19, <1>20, <1>22, <1>23 DEF CalmStep, HandlerStep

LEMMA OwnersInit == Init => OwnersInv
<1> SUFFICES ASSUME Init PROVE OwnersInv
  OBVIOUS
<1>1. \A c \in Clients : pc[c] = "none" /\ ~ Live(c) /\ ~ HasFile(c) /\ pc[c] \notin Working
  BY DEF Init, Live, HasFile, Working
<1>2. \A c \in Clients : Sound(c)
  BY Zenon DEF Init, Sound
<1>3. Free.kind = "free" /\ Standard.kind = "standard" /\ Listener.kind = "listener"
  BY DescriptorKinds
<1>4. \A i \in DOMAIN fds : /\ fds[i].kind = "listener" => i = 3
                            /\ fds[i].kind = "standard" => i < 3 /\ ~ Daemon
                            /\ fds[i].kind \notin {"socket", "device"}
  <2>1. /\ DOMAIN fds = 0 .. MaxFds - 1
        /\ \A i \in 0 .. MaxFds - 1 : fds[i] = IF i = 3 THEN Listener
                                               ELSE IF i < 3 /\ ~ Daemon THEN Standard ELSE Free
    BY DEF Init
  <2> QED BY <1>3, <2>1
<1> QED BY <1>1, <1>2, <1>4 DEF OwnersInv

LEMMA OwnersNext == ServerInv /\ TrafficInv /\ Owners /\ [Next]_vars => Owners'
<1> SUFFICES ASSUME ServerInv, TrafficInv, Owners, [Next]_vars, Calm' PROVE OwnersInv'
  BY DEF Owners
<1>1. CASE Next
  <2>1. Calm /\ \E c \in Clients : CalmStep(c)
    BY <1>1, CalmNext
  <2>2. ~ disturbed'
    BY DEF Calm
  <2> QED BY <2>1, <2>2, OwnersStep DEF Owners
<1>2. CASE UNCHANGED vars
  <2>1. /\ UNCHANGED <<fds, file, peer, pc, client_sockfd, needToReopen, recv_failed, waits_on>>
        /\ UNCHANGED <<alive, disturbed>>
    BY <1>2 DEF vars, locals, history
  <2>2. OwnersInv
    BY <2>1, Zenon DEF Owners, Calm
  <2>3. \A c \in Clients : (Live(c) <=> Live(c)') /\ (HasFile(c) <=> HasFile(c)')
    BY <2>1 DEF Live, HasFile
  <2>4. \A c \in Clients : Sound(c)'
    BY <2>1, <2>2, Zenon DEF OwnersInv, Sound
  <2>5. /\ \A c \in Clients : pc'[c] # "drop"
        /\ \A c, d \in Clients : pc'[c] \in Working /\ pc'[d] \in Working => c = d
    BY <2>1, <2>2 DEF OwnersInv
  <2> QED BY <2>1, <2>2, <2>3, <2>4, <2>5, OwnersSame
<1> QED BY <1>1, <1>2

(* While clients are served one at a time and nothing fails, each          *)
(* connection's descriptor is its own handler's and the device's is that   *)
(* of the handler at work (handle_client).                                 *)
THEOREM OwnersInvariant == Spec => []Owners
<1>1. Init => Owners
  BY OwnersInit DEF Owners
<1> QED BY <1>1, OwnersNext, ServerInvariant, PTL DEF Spec

LEMMA OwnersRestore == ServerInv /\ Owners => FdsRestored
<1> SUFFICES ASSUME ServerInv, OwnersInv, \A c \in Clients : pc[c] \in {"none", "done"},
                    NEW i \in DOMAIN fds
             PROVE  fds[i] \in {Free, Standard} \/ i = sockfd
  BY DEF Owners, Calm, FdsRestored
<1>1. \A c \in Clients : ~ Live(c) /\ ~ HasFile(c)
  BY DEF Live, HasFile
<1>2. fds[i].kind \notin {"socket", "device"} /\ (fds[i].kind = "listener" => i = 3) /\ sockfd = 3
  BY <1>1 DEF OwnersInv, ServerInv
<1>3. fds[i] \in Descriptors
  BY DEF ServerInv
<1> QED BY <1>2, <1>3, DescriptorFacts

(* Handlers that served their clients one at a time have given back every  *)
(* descriptor, whichever way they left the receive loop (handle_client,    *)
(* open and close of "file" and of client_sockfd).                         *)
THEOREM FdsAlwaysRestored == Spec => []FdsRestored
  BY OwnersInvariant, ServerInvariant, OwnersRestore, PTL
=============================================================================
