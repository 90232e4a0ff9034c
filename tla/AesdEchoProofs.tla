--------------------------- MODULE AesdEchoProofs ---------------------------
(***************************************************************************)
(* What the server answers: served one at a time, as long as the           *)
(* descriptor table has room and no command is longer than the 16 bits of  *)
(* an offset can tell, a client is sent everything the device holds,       *)
(* ending with all that it has sent itself.                                *)
(***************************************************************************)
EXTENDS AesdSocketProofs

(* There is a descriptor for every connection and one more. *)
Room ==
  IsFiniteSet(Clients) /\ (IF Daemon THEN 1 ELSE 4) + Cardinality(Clients) < MaxFds

(* The bytes of the first n commands in ring b, and the last of them. *)
Flat(b, n) == FlattenSeq([k \in 1 .. n |-> b.entry[SlotAt(b, k)].buffptr])

Newest(b) == b.entry[SlotAt(b, Retained(b))].buffptr

(* c has written its data, up to a newline. *)
Wrote(c) ==
  \/ pc[c] \in {"lseek", "close"}
  \/ pc[c] \in {"lock", "reopen", "read", "send", "close_file"} /\ needToReopen[c]

Answering == {"read", "send", "close_file", "unlock", "close_client", "done"}

EndsWith(t, s) == \E u \in Seq(Byte) : t = u \o s

(* p is the position that follows the bytes g of ring b: the end of        *)
(* command k, or a place inside the command after it.                      *)
At(b, p, g) ==
  \E k \in 0 .. Retained(b) :
    \/ p = Totals(b)[k] /\ g = Flat(b, k)
    \/ /\ k < Retained(b)
       /\ \E j \in 1 .. b.entry[SlotAt(b, k + 1)].size - 1 :
            /\ p = Totals(b)[k] + j
            /\ g = Flat(b, k) \o SubSeq(b.entry[SlotAt(b, k + 1)].buffptr, 1, j)

(* What the handler of c has written is the end of the unfinished command, *)
(* and then of the newest one; what c has been sent, or is about to be, is *)
(* what precedes the position of "file".                                   *)
EchoAt(c) ==
  /\ HasFile(c) => file # -1
  /\ pc[c] \notin Answering => got[c] = <<>>
  /\ sent[c] \in Seq(Byte) /\ (pc[c] \in {"none", "start", "open"} => sent[c] = <<>>)
  /\ pc[c] \in {"recv", "write"} => EndsWith(cache, sent[c])
  /\ Wrote(c) =>
       /\ chunk[c] \in Chunks
       /\ Last(chunk[c].bytes) = NL => Retained(ring) > 0 /\ EndsWith(Newest(ring), sent[c])
  /\ needToReopen[c] /\ Short(ring) =>
       /\ pc[c] = "read" => At(ring, fds[file].f_pos, got[c])
       /\ pc[c] = "send" => At(ring, fds[file].f_pos, got[c] \o writeBuf[c])
       /\ pc[c] = "close_file" => got[c] = Flat(ring, Retained(ring))

EchoInv == Calm => \A c \in Clients : EchoAt(c)

USE TableAssumption, CapacityAssumption

---------------------------------------------------------------------------
(* Sequences of sequences *)

(* FlattenSeq appends one sequence after the other. *)
LEMMA Flatten ==
  ASSUME NEW S, NEW f, NEW n \in Nat, \A k \in 1 .. n + 1 : f[k] \in Seq(S)
  PROVE  FlattenSeq([k \in 1 .. n + 1 |-> f[k]]) = FlattenSeq([k \in 1 .. n |-> f[k]]) \o f[n + 1]
<1> DEFINE Round(g, i) == IF i = 1 THEN f[i] ELSE g[i - 1] \o f[i]
           Rounds(g, m) == g = [i \in 1 .. m |-> Round(g, i)]
           some(m) == CHOOSE g : Rounds(g, m)
           N == {m \in Nat : \E g : Rounds(g, m)}
<1>0. ASSUME NEW g, NEW m, Rounds(g, m) PROVE \A i \in 1 .. m : g[i] = Round(g, i)
  <2> DEFINE r == [i \in 1 .. m |-> Round(g, i)]
  <2>1. \A i \in 1 .. m : r[i] = Round(g, i)
    OBVIOUS
  <2>2. g = r
    BY <1>0
  <2> HIDE DEF r, Round
  <2> QED BY <2>1, <2>2
<1>1. Nat \subseteq N
  <2>1. 0 \in N
    <3>1. Rounds([i \in 1 .. 0 |-> 0], 0)
      OBVIOUS
    <3> QED BY <3>1
  <2>2. ASSUME NEW m \in Nat, m \in N PROVE m + 1 \in N
    <3>1. PICK g : Rounds(g, m)
      BY <2>2
    <3> DEFINE h == [i \in 1 .. m + 1 |-> Round(g, i)]
    <3>2. \A i \in 1 .. m : g[i] = Round(g, i)
      BY <1>0, <3>1
    <3>3. \A i \in 1 .. m + 1 : h[i] = Round(g, i)
      OBVIOUS
    <3>4. \A i \in 1 .. m : h[i] = g[i]
      <4> HIDE DEF h, Round
      <4> QED BY <3>2, <3>3
    <3>5. ASSUME NEW i \in 1 .. m + 1 PROVE Round(h, i) = Round(g, i)
      <4>1. CASE i = 1
        BY <4>1
      <4>2. CASE i # 1
        <5>1. i - 1 \in 1 .. m
          BY <4>2
        <5>2. h[i - 1] = g[i - 1]
          BY <3>4, <5>1
        <5> HIDE DEF h
        <5> QED BY <4>2, <5>2
      <4> QED BY <4>1, <4>2
    <3>6. h = [i \in 1 .. m + 1 |-> Round(h, i)]
      <4> DEFINE q == [i \in 1 .. m + 1 |-> Round(h, i)]
      <4>1. h = q
        <5> HIDE DEF Round
        <5> QED BY <3>5
      <4> QED BY <4>1
    <3> HIDE DEF h
    <3>7. Rounds(h, m + 1)
      BY <3>6
    <3> HIDE DEF Rounds
    <3> QED BY <3>7
  <2> HIDE DEF N
  <2> QED BY <2>1, <2>2, SetInduction
<1>2. \A m \in Nat : Rounds(some(m), m)
  <2> SUFFICES ASSUME NEW m \in Nat PROVE Rounds(some(m), m)
    OBVIOUS
  <2>1. \E g : Rounds(g, m)
    BY <1>1
  <2> HIDE DEF Rounds
  <2> QED BY <2>1
<1>3. ASSUME NEW m \in Nat \ {0}
      PROVE  FlattenSeq([k \in 1 .. m |-> f[k]]) = some(m)[m]
  <2> DEFINE seqs == [k \in 1 .. m |-> f[k]]
  <2>1. Len(seqs) = m
    OBVIOUS
  <2>2. \A g : (g = [i \in 1 .. Len(seqs) |-> IF i = 1 THEN seqs[i] ELSE g[i - 1] \o seqs[i]])
                <=> Rounds(g, m)
    BY <2>1
  <2>3. FlattenSeq(seqs) =
          (CHOOSE g : g = [i \in 1 .. Len(seqs) |->
                             IF i = 1 THEN seqs[i] ELSE g[i - 1] \o seqs[i]])[Len(seqs)]
    BY <2>1 DEF FlattenSeq
  <2>4. (CHOOSE g : g = [i \in 1 .. Len(seqs) |-> IF i = 1 THEN seqs[i] ELSE g[i - 1] \o seqs[i]])
          = some(m)
    BY <2>2, Zenon
  <2> QED BY <2>1, <2>3, <2>4
<1>4. \A m \in Nat : \A i \in 1 .. m : some(m)[i] = Round(some(m), i)
  <2> HIDE DEF some, Rounds, Round
  <2> QED BY <1>0, <1>2
<1>7. n + 1 \in Nat \ {0} /\ n + 1 \in 1 .. n + 1
  OBVIOUS
<1>5. CASE n = 0
  <2>1. FlattenSeq([k \in 1 .. 0 |-> f[k]]) = <<>>
    <3>1. [k \in 1 .. 0 |-> f[k]] = <<>>
      OBVIOUS
    <3> QED BY <3>1 DEF FlattenSeq
  <2>2. FlattenSeq([k \in 1 .. 1 |-> f[k]]) = f[1]
    <3> HIDE DEF some
    <3>0. 1 \in Nat \ {0}
      OBVIOUS
    <3>1. FlattenSeq([k \in 1 .. 1 |-> f[k]]) = some(1)[1]
      BY <1>3, <3>0, Zenon
    <3>2. some(1)[1] = Round(some(1), 1)
      BY <1>4
    <3> QED BY <3>1, <3>2
  <2> QED BY <1>5, <2>1, <2>2
<1>6. CASE n # 0
  <2> DEFINE g == some(n)
             h == some(n + 1)
             M == {m \in Nat : m \in 1 .. n => g[m] = h[m]}
  <2>1. /\ \A i \in 1 .. n : g[i] = Round(g, i)
        /\ \A i \in 1 .. n + 1 : h[i] = Round(h, i)
    <3> HIDE DEF some, Round
    <3> QED BY <1>4, <1>7
  <2> HIDE DEF g, h
  <2>2. Nat \subseteq M
    <3>1. 0 \in M
      OBVIOUS
    <3>2. ASSUME NEW m \in Nat, m \in M PROVE m + 1 \in M
      <4> SUFFICES ASSUME m + 1 \in 1 .. n PROVE g[m + 1] = h[m + 1]
        OBVIOUS
      <4>1. Round(g, m + 1) = Round(h, m + 1)
        <5>1. CASE m = 0
          BY <5>1
        <5>2. CASE m # 0
          <6>1. g[m] = h[m] /\ (m + 1) - 1 = m
            BY <3>2, <5>2
          <6> QED BY <5>2, <6>1
        <5> QED BY <5>1, <5>2
      <4>2. g[m + 1] = Round(g, m + 1) /\ h[m + 1] = Round(h, m + 1)
        BY <2>1
      <4> QED BY <4>1, <4>2
    <3> HIDE DEF M
    <3> QED BY <3>1, <3>2, SetInduction
  <2>3. g[n] = h[n]
    BY <1>6, <2>2
  <2>4. h[n + 1] = h[n] \o f[n + 1]
    <3>1. h[n + 1] = Round(h, n + 1)
      BY <1>7, <2>1
    <3>2. (n + 1) - 1 = n /\ n + 1 # 1
      BY <1>6
    <3>3. h[n + 1] = h[(n + 1) - 1] \o f[n + 1]
      BY <3>1, <3>2, Zenon
    <3> QED BY <3>2, <3>3
  <2>5. FlattenSeq([k \in 1 .. n |-> f[k]]) = g[n]
    <3> HIDE DEF some
    <3> QED BY <1>3, <1>6 DEF g
  <2>6. FlattenSeq([k \in 1 .. n + 1 |-> f[k]]) = h[n + 1]
    <3> HIDE DEF some
    <3> QED BY <1>3, <1>7 DEF h
  <2> QED BY <2>3, <2>4, <2>5, <2>6
<1> QED BY <1>5, <1>6

LEMMA SuffixOfConcat ==
  ASSUME NEW S, NEW u \in Seq(S), NEW t \in Seq(S)
  PROVE  IsSuffix(t, u \o t)
<1> DEFINE n == Len(t)
           w == u \o t
<1>1. w \in Seq(S) /\ Len(w) = Len(u) + n /\ n \in Nat /\ Len(u) \in Nat
  OBVIOUS
<1>2. \A i \in 1 .. n : w[Len(u) + i] = t[i]
  OBVIOUS
<1>3. /\ Reverse(t) \in Seq(S) /\ Len(Reverse(t)) = n
      /\ \A i \in 1 .. n : Reverse(t)[i] = t[(n - i) + 1]
  BY <1>1 DEF Reverse
<1> HIDE DEF w
<1>4. /\ Reverse(w) \in Seq(S) /\ Len(Reverse(w)) = Len(u) + n
      /\ \A i \in 1 .. Len(u) + n : Reverse(w)[i] = w[(Len(u) + n - i) + 1]
  BY <1>1 DEF Reverse
<1>5. \A i \in 1 .. n : Reverse(w)[i] = Reverse(t)[i]
  <2> SUFFICES ASSUME NEW i \in 1 .. n PROVE Reverse(w)[i] = Reverse(t)[i]
    OBVIOUS
  <2>1. (n - i) + 1 \in 1 .. n /\ (Len(u) + n - i) + 1 = Len(u) + ((n - i) + 1)
    BY <1>1
  <2>2. i \in 1 .. Len(u) + n
    BY <1>1
  <2>3. Reverse(w)[i] = w[Len(u) + ((n - i) + 1)]
    BY <1>4, <2>1, <2>2
  <2>4. w[Len(u) + ((n - i) + 1)] = t[(n - i) + 1]
    BY <1>2, <2>1
  <2> QED BY <1>3, <2>3, <2>4
<1> DEFINE r == Reverse(t)
           q == Reverse(w)
<1> HIDE DEF r, q
<1>6. SubSeq(r, 1, n) = SubSeq(q, 1, n)
  BY <1>1, <1>3, <1>4, <1>5, SubSeqProperties DEF r, q
<1> QED BY <1>1, <1>3, <1>4, <1>6 DEF IsSuffix, IsPrefix, r, q, w

---------------------------------------------------------------------------
(* There is a free descriptor for the device when nobody has it open. *)
LEMMA RoomForFile ==
  ASSUME ServerInv, OwnersInv, Room, \A c \in Clients : ~ HasFile(c)
  PROVE  \E i \in 0 .. MaxFds - 1 : fds[i] = Free
<1> SUFFICES ASSUME \A i \in 0 .. MaxFds - 1 : fds[i] # Free PROVE FALSE
  OBVIOUS
<1> DEFINE fixed == IF Daemon THEN {3} ELSE 0 .. 3
           Sockfd(c) == client_sockfd[c]
           socks == {Sockfd(c) : c \in Clients}
<1>1. 0 .. MaxFds - 1 \subseteq fixed \union socks
  <2> SUFFICES ASSUME NEW i \in 0 .. MaxFds - 1 PROVE i \in fixed \union socks
    OBVIOUS
  <2>1. fds[i] \in Descriptors /\ i \in DOMAIN fds
    BY DEF ServerInv
  <2>2. fds[i].kind \in {"free", "device", "socket", "listener", "standard"} /\ fds[i].kind # "free"
    BY <2>1, DescriptorFacts
  <2>3. fds[i].kind # "device"
    BY <2>1 DEF OwnersInv
  <2>4. CASE fds[i].kind = "socket"
    BY <2>1, <2>4 DEF OwnersInv
  <2>5. CASE fds[i].kind = "listener"
    <3>1. i = 3
      BY <2>1, <2>5 DEF OwnersInv
    <3> QED BY <3>1
  <2>6. CASE fds[i].kind = "standard"
    <3>1. i < 3 /\ ~ Daemon
      BY <2>1, <2>6 DEF OwnersInv
    <3> QED BY <3>1
  <2> QED BY <2>2, <2>3, <2>4, <2>5, <2>6
<1>2. /\ IsFiniteSet(socks) /\ Cardinality(socks) <= Cardinality(Clients)
      /\ Cardinality(socks) \in Nat /\ Cardinality(Clients) \in Nat
  <2>1. IsFiniteSet(Clients)
    BY DEF Room
  <2>2. IsFiniteSet(socks) /\ Cardinality(socks) <= Cardinality(Clients)
    <3> DEFINE f == [c \in Clients |-> client_sockfd[c]]
    <3>1. f \in Surjection(Clients, socks)
      BY DEF Surjection
    <3> HIDE DEF f, socks
    <3> QED BY <2>1, <3>1, FS_Surjection
  <2> HIDE DEF socks
  <2> QED BY <2>1, <2>2, FS_CardinalityType
<1>3. IsFiniteSet(fixed) /\ Cardinality(fixed) = IF Daemon THEN 1 ELSE 4
  <2>1. CASE Daemon
    BY <2>1, FS_Singleton
  <2>2. CASE ~ Daemon
    <3>1. 0 \in Int /\ 3 \in Int
      OBVIOUS
    <3>2. /\ IsFiniteSet(0 .. 3)
          /\ Cardinality(0 .. 3) = IF 0 > 3 THEN 0 ELSE 3 - 0 + 1
      BY <3>1, FS_Interval, Zenon
    <3> QED BY <2>2, <3>2
  <2> QED BY <2>1, <2>2
<1> HIDE DEF fixed, socks
<1>4. /\ IsFiniteSet(fixed \union socks)
      /\ Cardinality(fixed \union socks) =
           Cardinality(fixed) + Cardinality(socks) - Cardinality(fixed \cap socks)
      /\ Cardinality(fixed \cap socks) \in Nat
  <2>1. IsFiniteSet(fixed \cap socks)
    BY <1>3, FS_Subset
  <2> QED BY <1>2, <1>3, <2>1, FS_Union, FS_CardinalityType
<1>5. Cardinality(0 .. MaxFds - 1) = MaxFds
  <2>1. 0 \in Int /\ MaxFds - 1 \in Int
    OBVIOUS
  <2> QED BY <2>1, FS_Interval
<1>6. Cardinality(0 .. MaxFds - 1) <= Cardinality(fixed \union socks)
  BY <1>1, <1>4, FS_Subset
<1>7. (IF Daemon THEN 1 ELSE 4) + Cardinality(Clients) < MaxFds
  BY DEF Room
<1>8. Cardinality(fixed) \in Nat /\ Cardinality(fixed) + Cardinality(Clients) < MaxFds
  BY <1>3, <1>7
<1> QED BY <1>2, <1>4, <1>5, <1>6, <1>8

LEMMA FileOpened ==
  ASSUME ServerInv, OwnersInv, Room, \A c \in Clients : ~ HasFile(c), OpenFile
  PROVE  file' # -1 /\ fds'[file'].f_pos = 0
<1>1. file' # -1
  BY RoomForFile, OpenTable
<1>2. file' \in 0 .. MaxFds - 1 /\ fds'[file'] = Device(0)
  BY <1>1, OpenTable
<1> QED BY <1>1, <1>2, DescriptorKinds

---------------------------------------------------------------------------
(* Reading command by command *)

LEMMA RetainedBytes ==
  ASSUME DeviceInv
  PROVE  /\ Retained(ring) \in 0 .. Capacity
         /\ \A k \in 1 .. Retained(ring) :
              /\ ring.entry[SlotAt(ring, k)].buffptr \in Seq(Byte) \ {<<>>}
              /\ ring.entry[SlotAt(ring, k)].size = Len(ring.entry[SlotAt(ring, k)].buffptr)
              /\ ring.entry[SlotAt(ring, k)].size \in Nat \ {0}
              /\ SlotAt(ring, k) \in Slots
<1>1. Ring(ring)
  BY DEF DeviceInv
<1>2. Retained(ring) \in 0 .. Capacity /\ \A k \in 1 .. Capacity : SlotAt(ring, k) \in Slots
  BY <1>1, RingSlots
<1>3. ASSUME NEW k \in 1 .. Retained(ring)
      PROVE  ring.entry[SlotAt(ring, k)] \in Entries \ {EmptyEntry} /\ SlotAt(ring, k) \in Slots
  BY <1>2 DEF DeviceInv
<1> QED BY <1>2, <1>3, EntryFacts

LEMMA FlatNext ==
  ASSUME DeviceInv
  PROVE  /\ Flat(ring, 0) = <<>>
         /\ \A k \in 0 .. Retained(ring) - 1 :
              Flat(ring, k + 1) = Flat(ring, k) \o ring.entry[SlotAt(ring, k + 1)].buffptr
<1>1. Flat(ring, 0) = <<>>
  <2>1. [k \in 1 .. 0 |-> ring.entry[SlotAt(ring, k)].buffptr] = <<>>
    OBVIOUS
  <2> QED BY <2>1 DEF Flat, FlattenSeq
<1>2. ASSUME NEW k \in 0 .. Retained(ring) - 1
      PROVE  Flat(ring, k + 1) = Flat(ring, k) \o ring.entry[SlotAt(ring, k + 1)].buffptr
  <2> DEFINE f == [i \in 1 .. k + 1 |-> ring.entry[SlotAt(ring, i)].buffptr]
  <2>1. k \in Nat /\ k + 1 \in 1 .. k + 1 /\ \A i \in 1 .. k + 1 : i \in 1 .. Retained(ring)
    BY RetainedBytes
  <2>2. \A i \in 1 .. k + 1 : f[i] \in Seq(Byte)
    BY <2>1, RetainedBytes
  <2>3. [i \in 1 .. k + 1 |-> f[i]] = [i \in 1 .. k + 1 |-> ring.entry[SlotAt(ring, i)].buffptr]
    OBVIOUS
  <2>4. [i \in 1 .. k |-> f[i]] = [i \in 1 .. k |-> ring.entry[SlotAt(ring, i)].buffptr]
    BY <2>1
  <2>5. f[k + 1] = ring.entry[SlotAt(ring, k + 1)].buffptr
    BY <2>1
  <2> HIDE DEF f
  <2>6. FlattenSeq([i \in 1 .. k + 1 |-> f[i]]) = FlattenSeq([i \in 1 .. k |-> f[i]]) \o f[k + 1]
    BY <2>1, <2>2, Flatten
  <2> QED BY <2>3, <2>4, <2>5, <2>6, Zenon DEF Flat
<1> QED BY <1>1, <1>2

LEMMA FlatBytes ==
  ASSUME DeviceInv
  PROVE  \A k \in 0 .. Retained(ring) : Flat(ring, k) \in Seq(Byte)
<1> DEFINE n == Retained(ring)
           N == {m \in Nat : m \in 0 .. n => Flat(ring, m) \in Seq(Byte)}
<1>1. 0 \in N
  <2>1. Flat(ring, 0) = <<>>
    BY FlatNext
  <2>2. Flat(ring, 0) \in Seq(Byte)
    BY <2>1, EmptySeq
  <2> QED BY <2>2
<1>2. ASSUME NEW m \in Nat, m \in N PROVE m + 1 \in N
  <2> SUFFICES ASSUME m + 1 \in 0 .. n PROVE Flat(ring, m + 1) \in Seq(Byte)
    OBVIOUS
  <2>1. m \in 0 .. n - 1 /\ m + 1 \in 1 .. n /\ Flat(ring, m) \in Seq(Byte)
    BY <1>2, RetainedBytes
  <2>2. ring.entry[SlotAt(ring, m + 1)].buffptr \in Seq(Byte)
    BY <2>1, RetainedBytes
  <2>3. Flat(ring, m + 1) = Flat(ring, m) \o ring.entry[SlotAt(ring, m + 1)].buffptr
    BY <2>1, FlatNext
  <2>4. Flat(ring, m) \o ring.entry[SlotAt(ring, m + 1)].buffptr \in Seq(Byte)
    BY <2>1, <2>2, ConcatProperties
  <2> QED BY <2>3, <2>4
<1>3. Nat \subseteq N
  <2> HIDE DEF N
  <2> QED BY <1>1, <1>2, SetInduction
<1> QED BY <1>3, RetainedBytes

(* Two adjacent pieces of a sequence, after another sequence. *)
LEMMA Pieces ==
  ASSUME NEW S, NEW u \in Seq(S), NEW t \in Seq(S), NEW m \in 0 .. Len(t), NEW j \in 0 .. m
  PROVE  (u \o SubSeq(t, 1, j)) \o SubSeq(t, j + 1, m) = u \o SubSeq(t, 1, m)
<1> DEFINE x == SubSeq(t, 1, j)
           y == SubSeq(t, j + 1, m)
           z == SubSeq(t, 1, m)
<1>1. Len(t) \in Nat /\ m \in Nat /\ j \in Nat /\ j <= m /\ m <= Len(t)
  OBVIOUS
<1>2. /\ x \in Seq(S) /\ Len(x) = j /\ \A i \in 1 .. j : x[i] = t[i]
      /\ z \in Seq(S) /\ Len(z) = m /\ \A i \in 1 .. m : z[i] = t[i]
  BY <1>1
<1>3. y \in Seq(S) /\ Len(y) = m - j /\ \A i \in 1 .. m - j : y[i] = t[j + i]
  BY <1>1
<1> HIDE DEF x, y, z
<1>4. x \o y = z
  <2>1. /\ x \o y \in Seq(S) /\ Len(x \o y) = Len(x) + Len(y)
        /\ \A i \in 1 .. Len(x) + Len(y) : (x \o y)[i] = IF i <= Len(x) THEN x[i] ELSE y[i - Len(x)]
    <3>1. x \in Seq(S) /\ y \in Seq(S)
      BY <1>2, <1>3
    <3> QED BY <3>1, ConcatProperties, Zenon
  <2>2. Len(x) + Len(y) = m
    BY <1>1, <1>2, <1>3
  <2>3. ASSUME NEW i \in 1 .. m PROVE (x \o y)[i] = z[i]
    <3>1. (x \o y)[i] = IF i <= j THEN x[i] ELSE y[i - j]
      BY <1>2, <2>1, <2>2
    <3>2. CASE i <= j
      BY <1>1, <1>2, <3>1, <3>2
    <3>3. CASE ~ (i <= j)
      <4>1. i - j \in 1 .. m - j /\ j + (i - j) = i
        BY <1>1, <3>3
      <4>2. y[i - j] = t[i]
        BY <1>3, <4>1
      <4> QED BY <1>2, <3>1, <3>3, <4>2
    <3> QED BY <3>2, <3>3
  <2>4. Len(x \o y) = Len(z)
    BY <1>2, <2>1, <2>2
  <2> QED BY <1>2, <2>1, <2>2, <2>3, <2>4, SeqEqual
<1>5. (u \o x) \o y = u \o (x \o y)
  <2>1. x \in Seq(S) /\ y \in Seq(S)
    BY <1>2, <1>3
  <2> QED BY <2>1, ConcatAssociative
<1> QED BY <1>4, <1>5 DEF x, y, z

(* A read after the bytes g returns the bytes that follow them, as many as *)
(* the buffer takes of the command that they begin or end in; at the end   *)
(* it returns nothing.                                                     *)
LEMMA ReadAt ==
  ASSUME DeviceInv, Short(ring), NEW p, NEW g, At(ring, p, g),
         NEW s, s = DeviceRead(p, bufferSize)
  PROVE  IF s = <<>> THEN g = Flat(ring, Retained(ring)) ELSE At(ring, p + Len(s), g \o s)
<1> DEFINE total == Totals(ring)
           n == Retained(ring)
<1>1. Ring(ring) /\ Sized(ring)
  BY DeviceSized
<1>2. n \in 0 .. Capacity /\ \A i \in 0 .. Capacity : total[i] \in Nat
  BY <1>1, RetainedBytes, TotalsSum
<1>3. \A i \in 1 .. Capacity : total[i] = total[i - 1] + ring.entry[SlotAt(ring, i)].size
  BY TotalsDef
<1>4. PICK k \in 0 .. n :
        \/ p = total[k] /\ g = Flat(ring, k)
        \/ /\ k < n
           /\ \E j \in 1 .. ring.entry[SlotAt(ring, k + 1)].size - 1 :
                /\ p = total[k] + j
                /\ g = Flat(ring, k) \o SubSeq(ring.entry[SlotAt(ring, k + 1)].buffptr, 1, j)
  BY DEF At
<1> HIDE DEF total
<1>5. CASE k = n
  <2>1. p = total[n] /\ g = Flat(ring, n) /\ p \in Nat
    BY <1>2, <1>4, <1>5
  <2>2. aesd_circular_buffer_find_entry_offset_for_fpos(ring, p) = NotFound
    BY <1>1, <2>1, FindCorrect DEF total
  <2> QED BY <2>1, <2>2 DEF DeviceRead
<1>6. CASE k # n
  <2> DEFINE e == ring.entry[SlotAt(ring, k + 1)]
             t == e.buffptr
             size == e.size
             f == Flat(ring, k)
  <2>1. /\ k + 1 \in 1 .. n /\ k + 1 \in 1 .. Capacity /\ k \in 0 .. Capacity /\ (k + 1) - 1 = k
        /\ k \in 0 .. n - 1 /\ k + 1 \in 0 .. n
    BY <1>2, <1>6
  <2>2. t \in Seq(Byte) /\ size = Len(t) /\ size \in Nat \ {0} /\ SlotAt(ring, k + 1) \in Slots
    BY <2>1, RetainedBytes
  <2>3. total[k + 1] = total[k] + size /\ total[k] \in Nat
    BY <1>2, <1>3, <2>1
  <2>4. f \in Seq(Byte) /\ Flat(ring, k + 1) = f \o t
    BY <2>1, FlatBytes, FlatNext
  <2>5. PICK j \in 0 .. size - 1 : p = total[k] + j /\ g = f \o SubSeq(t, 1, j)
    <3>1. CASE p = total[k] /\ g = f
      <4>1. SubSeq(t, 1, 0) = <<>> /\ f \o <<>> = f
        BY <2>2, <2>4
      <4>2. 0 \in 0 .. size - 1 /\ p = total[k] + 0 /\ g = f \o SubSeq(t, 1, 0)
        <5> HIDE DEF size, t, f
        <5>1. 0 \in 0 .. size - 1
          BY <2>2
        <5>2. p = total[k] + 0
          BY <2>3, <3>1
        <5>3. g = f \o SubSeq(t, 1, 0)
          BY <3>1, <4>1, Zenon
        <5> QED BY <5>1, <5>2, <5>3
      <4> QED BY <4>2
    <3>2. CASE \E j \in 1 .. size - 1 : p = total[k] + j /\ g = f \o SubSeq(t, 1, j)
      <4>1. \A j \in 1 .. size - 1 : j \in 0 .. size - 1
        <5> HIDE DEF size
        <5> QED BY <2>2
      <4> QED BY <3>2, <4>1
    <3> QED BY <1>4, <3>1, <3>2
  <2>6. aesd_circular_buffer_find_entry_offset_for_fpos(ring, p)
          = [slot |-> SlotAt(ring, k + 1), offset |-> j]
    <3>1. j \in Nat /\ j < ring.entry[SlotAt(ring, k + 1)].size
      BY <2>2, <2>5
    <3>2. aesd_circular_buffer_find_entry_offset_for_fpos(ring, Totals(ring)[(k + 1) - 1] + j)
            = [slot |-> SlotAt(ring, k + 1), offset |-> j]
      BY <1>1, <2>1, <3>1, FindAt
    <3> QED BY <2>1, <2>5, <3>2 DEF total
  <2>7. [slot |-> SlotAt(ring, k + 1), offset |-> j] # NotFound
    BY <2>2, NullAssumption DEF NotFound
  <2> DEFINE m == IF size - j < bufferSize THEN size ELSE j + bufferSize
  <2>8. s = SubSeq(t, j + 1, m)
    <3> DEFINE r == [slot |-> SlotAt(ring, k + 1), offset |-> j]
    <3>1. r.slot = SlotAt(ring, k + 1) /\ r.offset = j
      OBVIOUS
    <3>2. r # NotFound /\ aesd_circular_buffer_find_entry_offset_for_fpos(ring, p) = r
      BY <2>6, <2>7
    <3> HIDE DEF r
    <3>3. s = SubSeq(ring.entry[r.slot].buffptr, r.offset + 1,
                     IF ring.entry[r.slot].size - r.offset < bufferSize
                     THEN ring.entry[r.slot].size ELSE r.offset + bufferSize)
      BY <3>2, Zenon DEF DeviceRead
    <3> QED BY <3>1, <3>3
  <2> HIDE DEF t, size, f, e
  <2>9. m \in 0 .. Len(t) /\ j \in 0 .. m /\ j < m /\ m <= size
    BY <2>2, <2>5, BufferAssumption
  <2> HIDE DEF m
  <2>10. Len(s) = m - j /\ s # <<>>
    BY <2>2, <2>8, <2>9
  <2>11. g \o s = f \o SubSeq(t, 1, m)
    BY <2>2, <2>4, <2>5, <2>8, <2>9, Pieces
  <2>12. p + Len(s) = total[k] + m
    BY <2>3, <2>5, <2>9, <2>10
  <2>13. At(ring, p + Len(s), g \o s)
    <3>1. CASE m = size
      <4>1. SubSeq(t, 1, m) = t
        BY <2>2, <3>1
      <4>2. p + Len(s) = Totals(ring)[k + 1] /\ g \o s = Flat(ring, k + 1)
        BY <2>3, <2>4, <2>11, <2>12, <3>1, <4>1 DEF total
      <4> QED BY <2>1, <4>2 DEF At
    <3>2. CASE m # size
      <4>1. m \in 1 .. size - 1
        BY <2>2, <2>9, <3>2
      <4> HIDE DEF n
      <4>2. \E i \in 1 .. ring.entry[SlotAt(ring, k + 1)].size - 1 :
              /\ p + Len(s) = Totals(ring)[k] + i
              /\ g \o s = Flat(ring, k) \o SubSeq(ring.entry[SlotAt(ring, k + 1)].buffptr, 1, i)
        BY <2>11, <2>12, <4>1 DEF total, size, t, f, e
      <4>3. k \in 0 .. Retained(ring) /\ k < Retained(ring)
        BY <1>2, <2>1 DEF n
      <4> QED BY <4>2, <4>3 DEF At
    <3> QED BY <3>1, <3>2
  <2> QED BY <2>10, <2>13
<1> QED BY <1>5, <1>6

---------------------------------------------------------------------------
(* The steps of a calm server *)

LEMMA WritersWork == ASSUME NEW c, Wrote(c) PROVE pc[c] \in Working
  BY DEF Wrote, Working

(* Nothing the invariant says of b is changed. *)
LEMMA EchoSame ==
  ASSUME NEW b \in Clients, EchoAt(b), UNCHANGED <<ring, cache, file>>,
         pc'[b] = pc[b], got'[b] = got[b], sent'[b] = sent[b], chunk'[b] = chunk[b],
         needToReopen'[b] = needToReopen[b], writeBuf'[b] = writeBuf[b],
         HasFile(b) => fds'[file].f_pos = fds[file].f_pos
  PROVE  EchoAt(b)'
<1>1. (HasFile(b) <=> HasFile(b)') /\ (Wrote(b) <=> Wrote(b)')
  BY DEF HasFile, Wrote
<1>2. CASE pc[b] \in {"read", "send"}
  <2>1. fds'[file].f_pos = fds[file].f_pos
    BY <1>2 DEF HasFile
  <2> QED BY <1>1, <2>1 DEF EchoAt
<1>3. CASE pc[b] \notin {"read", "send"}
  BY <1>1, <1>3 DEF EchoAt
<1> QED BY <1>2, <1>3

(* A handler that is not at work has sent and written nothing, or is done. *)
LEMMA EchoIdle ==
  ASSUME NEW b \in Clients, pc'[b] \notin Working, sent'[b] \in Seq(Byte),
         pc'[b] # "done" => got'[b] = <<>> /\ sent'[b] = <<>>
  PROVE  EchoAt(b)'
<1>1. ~ HasFile(b)' /\ ~ Wrote(b)'
  BY DEF HasFile, Wrote, Working
<1>2. pc'[b] \notin {"recv", "write", "read", "send", "close_file", "done"} \/ pc'[b] = "done"
  BY DEF Working
<1>3. pc'[b] \notin {"none", "start", "open"} \/ sent'[b] = <<>>
  BY DEF Working
<1> QED BY <1>1, <1>2, <1>3 DEF EchoAt, Answering

(* The others are not at work. *)
LEMMA EchoOthers ==
  ASSUME ServerInv, OwnersInv, NEW c \in Clients, OnlyWorker(c), \A b \in Clients : EchoAt(b),
         \A b \in Clients \ {c} : got'[b] = got[b] /\ sent'[b] = sent[b], EchoAt(c)'
  PROVE  \A b \in Clients : EchoAt(b)'
<1> SUFFICES ASSUME NEW b \in Clients, b # c PROVE EchoAt(b)'
  OBVIOUS
<1>1. pc[b] \notin Working /\ pc'[b] = pc[b]
  BY DEF OwnersInv, OnlyWorker
<1>2. pc[b] \in {"none", "start", "done"}
  BY <1>1 DEF ServerInv, Labels
<1>3. sent[b] \in Seq(Byte) /\ (pc[b] # "done" => got[b] = <<>> /\ sent[b] = <<>>)
  BY <1>2 DEF EchoAt, Answering
<1> QED BY <1>1, <1>3, EchoIdle

(* The step before the answer: c has been sent nothing yet. *)
LEMMA EchoBefore ==
  ASSUME NEW c \in Clients, EchoAt(c), pc[c] \notin Answering, got' = got,
         HasFile(c)' => file' # -1, ~ Wrote(c)', ~ needToReopen'[c] \/ pc'[c] \notin Answering,
         sent'[c] \in Seq(Byte), pc'[c] \in {"none", "start", "open"} => sent'[c] = <<>>,
         pc'[c] \in {"recv", "write"} => EndsWith(cache', sent'[c])
  PROVE  EchoAt(c)'
<1>1. got'[c] = <<>>
  BY DEF EchoAt
<1>2. CASE pc'[c] \notin Answering
  BY <1>1, <1>2 DEF EchoAt, Answering
<1>3. CASE ~ needToReopen'[c]
  BY <1>1, <1>3 DEF EchoAt
<1> QED BY <1>2, <1>3

(* c's data stay the last of the ring. *)
LEMMA EchoKept ==
  ASSUME NEW c \in Clients, EchoAt(c), Wrote(c), pc[c] \notin Answering,
         pc'[c] \in {"close", "lock", "reopen"},
         UNCHANGED <<ring, got, sent, chunk>>, HasFile(c)' => file' # -1
  PROVE  EchoAt(c)'
<1>1. got'[c] = <<>>
  BY DEF EchoAt
<1>2. /\ chunk[c] \in Chunks /\ sent[c] \in Seq(Byte)
      /\ Last(chunk[c].bytes) = NL => Retained(ring) > 0 /\ EndsWith(Newest(ring), sent[c])
  BY DEF EchoAt
<1> QED BY <1>1, <1>2 DEF EchoAt, Answering

(* The newest command of the ring after a write that ends in a newline. *)
LEMMA NewestIsAdded ==
  ASSUME DeviceInv, NEW e, NEW b, b = aesd_circular_buffer_add_entry(ring, e)
  PROVE  Retained(b) > 0 /\ Newest(b) = e.buffptr
<1>1. Ring(ring) /\ ring.in_offs \in Slots /\ ring.entry \in [Slots -> Entries]
  BY DEF DeviceInv, Ring
<1>2. b.entry = [ring.entry EXCEPT ![ring.in_offs] = e]
  BY DEF aesd_circular_buffer_add_entry
<1>3. Retained(b) > 0 /\ SlotAt(b, Retained(b)) = ring.in_offs
  <2>1. CASE ring.full
    BY <1>1, <2>1, AddFullSlots
  <2>2. CASE ~ ring.full
    <3> DEFINE n == Retained(ring)
    <3>1. /\ n \in 0 .. Capacity - 1 /\ Retained(b) = n + 1
          /\ \A k \in 1 .. n + 1 : SlotAt(b, k) = SlotAt(ring, k)
          /\ SlotAt(ring, n + 1) = ring.in_offs
      BY <1>1, <2>2, AddRoomSlots
    <3> QED BY <3>1
  <2> QED BY <2>1, <2>2
<1> QED BY <1>1, <1>2, <1>3 DEF Newest

(* Longer by s at both ends. *)
LEMMA EndsWithMore ==
  ASSUME NEW t \in Seq(Byte), NEW w \in Seq(Byte), EndsWith(t, w), NEW s \in Seq(Byte)
  PROVE  EndsWith(t \o s, w \o s)
<1>1. PICK u \in Seq(Byte) : t = u \o w
  BY DEF EndsWith
<1>2. (u \o w) \o s = u \o (w \o s)
  BY ConcatAssociative
<1> QED BY <1>1, <1>2 DEF EndsWith

LEMMA EchoWrite ==
  ASSUME ServerInv, TrafficInv, DeviceInv, OwnersInv, ~ disturbed, NEW c \in Clients, EchoAt(c),
         WriteFile(c)
  PROVE  EchoAt(c)' /\ got' = got /\ \A b \in Clients \ {c} : sent'[b] = sent[b]
<1> DEFINE s == chunk[c].bytes
           to == IF NL \in Range(s) THEN "lseek" ELSE "recv"
<1>1. pc[c] = "write" /\ pc'[c] = to
  BY PcAfter DEF WriteFile
<1>2. HasFile(c) /\ file # -1
  BY <1>1 DEF HasFile, EchoAt
<1>3. Is(file, "device")
  <2>1. file \in 0 .. MaxFds - 1 /\ fds[file].kind = "device"
    BY <1>2 DEF OwnersInv, ServerInv
  <2> QED BY <2>1, IsKind
<1>4. DeviceWrite(s) /\ got' = got /\ file' = file /\ chunk' = chunk
  BY <1>3 DEF WriteFile, locals
<1>5. pc[c] \notin Answering /\ pc'[c] \notin Answering
  BY <1>1 DEF Answering
<1>6. chunk[c] \in Chunks /\ s \in Seq(Byte) /\ s # <<>>
  BY <1>1, ChunksAssumption DEF ServerInv
<1>7. sent'[c] = sent[c] \o s /\ \A b \in Clients \ {c} : sent'[b] = sent[b]
  BY DEF WriteFile, TrafficInv
<1> HIDE DEF s
<1>8. sent[c] \in Seq(Byte) /\ cache \in Seq(Byte) /\ EndsWith(cache, sent[c])
  BY <1>1 DEF EchoAt, DeviceInv
<1>9. sent'[c] \in Seq(Byte) /\ EndsWith(cache \o s, sent'[c])
  BY <1>6, <1>7, <1>8, EndsWithMore
<1>10. CASE to = "recv"
  <2>1. ~ Wrote(c)'
    BY <1>1, <1>10 DEF Wrote
  <2>2. Last(s) # NL
    <3>1. Len(s) \in DOMAIN s
      BY <1>6
    <3>2. Last(s) \in Range(s)
      BY <3>1, Zenon DEF Last, Range
    <3> QED BY <1>10, <3>2
  <2>3. cache' = cache \o s
    BY <1>4, <2>2 DEF DeviceWrite
  <2> HIDE DEF to
  <2> QED BY <1>1, <1>2, <1>4, <1>5, <1>7, <1>9, <1>10, <2>1, <2>3, EchoBefore
<1>11. CASE to = "lseek"
  <2>1. got'[c] = <<>>
    BY <1>4, <1>5 DEF EchoAt
  <2>2. ASSUME Last(s) = NL
        PROVE  Retained(ring') > 0 /\ Newest(ring') = cache \o s
    <3> DEFINE e == [buffptr |-> cache \o s, size |-> Len(cache \o s)]
    <3>1. ring' = aesd_circular_buffer_add_entry(ring, e)
      BY <1>4, <2>2 DEF DeviceWrite
    <3>2. e.buffptr = cache \o s
      OBVIOUS
    <3> HIDE DEF e
    <3> QED BY <3>1, <3>2, NewestIsAdded
  <2>3. /\ chunk'[c] \in Chunks
        /\ Last(chunk'[c].bytes) = NL => Retained(ring') > 0 /\ EndsWith(Newest(ring'), sent'[c])
    BY <1>4, <1>6, <1>9, <2>2 DEF s
  <2> HIDE DEF to
  <2> QED BY <1>1, <1>2, <1>4, <1>7, <1>9, <1>11, <2>1, <2>3 DEF EchoAt, Answering
<1>12. to \in {"recv", "lseek"}
  OBVIOUS
<1> QED BY <1>4, <1>7, <1>10, <1>11, <1>12

LEMMA EchoReopen ==
  ASSUME ServerInv, DeviceInv, OwnersInv, Room, NEW c \in Clients, EchoAt(c), Reopen(c)
  PROVE  EchoAt(c)'
<1>1. pc[c] = "reopen" /\ pc'[c] = "read"
  BY PcAfter DEF Reopen
<1>2. UNCHANGED <<ring, got, sent, chunk, needToReopen>>
  BY DEF Reopen, device, locals, history
<1>3. CASE ~ needToReopen[c]
  <2>1. HasFile(c) /\ file # -1 /\ ~ Wrote(c)' /\ ~ needToReopen'[c] /\ sent'[c] \in Seq(Byte)
    BY <1>1, <1>2, <1>3 DEF HasFile, Wrote, EchoAt
  <2>2. file' = file
    BY <1>3 DEF Reopen
  <2>3. pc[c] \notin Answering
    BY <1>1 DEF Answering
  <2> QED BY <1>1, <1>2, <2>1, <2>2, <2>3, EchoBefore
<1>4. CASE needToReopen[c]
  <2>1. OpenFile
    BY <1>4 DEF Reopen
  <2>2. \A b \in Clients : ~ HasFile(b)
    <3>1. ~ HasFile(c) /\ pc[c] \in Working
      BY <1>1, <1>4 DEF HasFile, Working
    <3> QED BY <3>1, FileUsersWork DEF OwnersInv
  <2>3. file' # -1 /\ fds'[file'].f_pos = 0
    BY <2>1, <2>2, FileOpened
  <2>4. got'[c] = <<>> /\ Wrote(c)
    BY <1>1, <1>2, <1>4 DEF EchoAt, Answering, Wrote
  <2>5. 0 \in 0 .. Retained(ring) /\ Totals(ring)[0] = 0 /\ Flat(ring, 0) = <<>>
    BY RetainedBytes, TotalsDef, FlatNext
  <2>6. At(ring', fds'[file'].f_pos, got'[c])
    BY <1>2, <2>3, <2>4, <2>5 DEF At
  <2>7. /\ chunk[c] \in Chunks /\ sent[c] \in Seq(Byte)
        /\ Last(chunk[c].bytes) = NL => Retained(ring) > 0 /\ EndsWith(Newest(ring), sent[c])
    BY <2>4 DEF EchoAt
  <2> QED BY <1>1, <1>2, <2>3, <2>6, <2>7 DEF EchoAt, Answering
<1> QED BY <1>3, <1>4

LEMMA EchoRead ==
  ASSUME ServerInv, DeviceInv, OwnersInv, NEW c \in Clients, EchoAt(c), ReadFile(c)
  PROVE  EchoAt(c)'
<1> DEFINE s == IF Is(file, "device") THEN DeviceRead(fds[file].f_pos, bufferSize) ELSE <<>>
           to == IF s = <<>> THEN "close_file" ELSE "send"
<1>1. pc[c] = "read" /\ pc'[c] = to
  BY PcAfter DEF ReadFile
<1>2. /\ UNCHANGED <<ring, got, sent, chunk, needToReopen, file>>
      /\ writeBuf' = [writeBuf EXCEPT ![c] = s]
      /\ fds' = IF s = <<>> THEN fds ELSE [fds EXCEPT ![file].f_pos = @ + Len(s)]
  BY DEF ReadFile, device, history
<1>3. HasFile(c) /\ file # -1
  BY <1>1 DEF HasFile, EchoAt
<1>4. file \in 0 .. MaxFds - 1 /\ fds[file].kind = "device"
  BY <1>3 DEF OwnersInv, ServerInv
<1>5. s = DeviceRead(fds[file].f_pos, bufferSize)
  BY <1>4, IsKind
<1> HIDE DEF s
<1>6. to \in {"close_file", "send"}
  OBVIOUS
<1>9. sent'[c] \in Seq(Byte)
  BY <1>2 DEF EchoAt
<1>7. CASE ~ needToReopen[c]
  <2>1. ~ Wrote(c)' /\ ~ needToReopen'[c]
    BY <1>1, <1>2, <1>6, <1>7 DEF Wrote
  <2> HIDE DEF to
  <2> QED BY <1>1, <1>2, <1>3, <1>6, <1>9, <2>1 DEF EchoAt, Answering
<1>8. CASE needToReopen[c]
  <2>1. /\ chunk[c] \in Chunks
        /\ Last(chunk[c].bytes) = NL => Retained(ring) > 0 /\ EndsWith(Newest(ring), sent[c])
    <3>1. Wrote(c)
      BY <1>1, <1>8 DEF Wrote
    <3> QED BY <3>1 DEF EchoAt
  <2>2. ASSUME Short(ring)
        PROVE  IF s = <<>> THEN got[c] = Flat(ring, Retained(ring))
               ELSE At(ring, fds[file].f_pos + Len(s), got[c] \o s)
    <3>1. At(ring, fds[file].f_pos, got[c])
      BY <1>1, <1>8, <2>2 DEF EchoAt
    <3> QED BY <1>5, <2>2, <3>1, ReadAt
  <2>3. CASE s = <<>>
    <3>1. to = "close_file"
      BY <2>3
    <3> HIDE DEF to
    <3> QED BY <1>1, <1>2, <1>3, <1>9, <2>1, <2>2, <2>3, <3>1 DEF EchoAt, Answering
  <2>4. CASE s # <<>>
    <3>1. to = "send"
      BY <2>4
    <3>2. writeBuf'[c] = s
      BY <1>2 DEF ServerInv
    <3>3. fds'[file'].f_pos = fds[file].f_pos + Len(s)
      <4>1. fds[file] \in Descriptors
        BY <1>4 DEF ServerInv
      <4>2. fds' = [fds EXCEPT ![file].f_pos = @ + Len(s)] /\ DOMAIN fds = 0 .. MaxFds - 1
        BY <1>2, <2>4 DEF ServerInv
      <4>3. fds'[file] = [fds[file] EXCEPT !.f_pos = fds[file].f_pos + Len(s)]
        BY <1>4, <4>2
      <4>4. fds'[file].f_pos = fds[file].f_pos + Len(s)
        BY <4>1, <4>3, DescriptorFacts
      <4> QED BY <1>2, <4>4
    <3>4. Short(ring') => At(ring', fds'[file'].f_pos, got'[c] \o writeBuf'[c])
      BY <1>2, <2>2, <2>4, <3>2, <3>3
    <3> HIDE DEF to
    <3> QED BY <1>1, <1>2, <1>3, <1>9, <2>1, <3>1, <3>4 DEF EchoAt, Answering
  <2> QED BY <2>3, <2>4
<1> QED BY <1>7, <1>8

LEMMA EchoSend ==
  ASSUME ServerInv, TrafficInv, OwnersInv, ~ disturbed, NEW c \in Clients, EchoAt(c), Send(c)
  PROVE  EchoAt(c)' /\ \A b \in Clients \ {c} : got'[b] = got[b] /\ sent'[b] = sent[b]
<1>1. pc[c] = "send" /\ pc'[c] = "read"
  BY PcAfter DEF Send
<1>2. UNCHANGED <<ring, chunk, needToReopen, fds, file, sent>>
  BY DEF Send, device
<1>3. got' = [got EXCEPT ![c] = got[c] \o writeBuf[c]]
  <2>1. Live(c)
    BY <1>1 DEF Live
  <2>2. Is(client_sockfd[c], "socket") /\ fds[client_sockfd[c]].peer = c
    BY <2>1, OwnSocket
  <2>3. got' = Delivered(client_sockfd[c], writeBuf[c])
    BY DEF Send
  <2> QED BY <2>2, <2>3 DEF Delivered
<1>4. /\ got'[c] = got[c] \o writeBuf[c]
      /\ \A b \in Clients \ {c} : got'[b] = got[b]
  BY <1>3 DEF TrafficInv
<1>5. HasFile(c)
  BY <1>1 DEF HasFile
<1>6. Wrote(c) <=> Wrote(c)'
  BY <1>1, <1>2 DEF Wrote
<1>7. needToReopen'[c] => needToReopen[c]
  BY <1>2
<1>8. EchoAt(c)'
  BY <1>1, <1>2, <1>4, <1>5, <1>6, <1>7 DEF EchoAt, Answering
<1> QED BY <1>2, <1>4, <1>8

LEMMA EchoStep ==
  ASSUME ServerInv, TrafficInv, DeviceInv, OwnersInv, Room, \A b \in Clients : EchoAt(b),
         ~ disturbed, ~ disturbed', NEW c \in Clients, CalmStep(c)
  PROVE  \A b \in Clients : EchoAt(b)'
<1> USE DEF server, locals, device, history
<1>1. ASSUME NEW from, NEW to, Goto(c, from, to), from \in Working, to \in Working \ {"drop"}
      PROVE  OnlyWorker(c) /\ pc[c] = from /\ pc'[c] = to
  BY <1>1, PcAfter DEF OnlyWorker
<1>2. CASE Accept(c) \/ GetPeerName(c)
  <2>1. PICK to \in {"start", "open"} : \A b \in Clients : pc'[b] = IF b = c THEN to ELSE pc[b]
    BY <1>2, PcAfter DEF Accept, GetPeerName
  <2>2. pc[c] \in {"none", "start"} /\ got' = got /\ sent' = sent
    <3>1. CASE Accept(c)
      BY <3>1 DEF Accept, Goto
    <3>2. CASE GetPeerName(c)
      BY <3>2, Zenon DEF GetPeerName, Goto
    <3> QED BY <1>2, <3>1, <3>2
  <2>3. EchoAt(c)'
    <3>1. ~ HasFile(c)' /\ ~ Wrote(c)' /\ pc'[c] \notin Answering
      BY <2>1 DEF HasFile, Wrote, Answering
    <3>2. sent'[c] \in Seq(Byte) /\ sent'[c] = <<>>
      BY <2>2 DEF EchoAt
    <3>3. pc[c] \notin Answering /\ pc'[c] \notin {"recv", "write"}
      BY <2>1, <2>2 DEF Answering
    <3> QED BY <2>2, <3>1, <3>2, <3>3, EchoBefore
  <2>4. ASSUME NEW b \in Clients, b # c PROVE EchoAt(b)'
    <3>1. CASE GetPeerName(c)
      <4>1. pc[b] \notin Working
        BY <3>1, Zenon DEF GetPeerName
      <4>2. pc[b] \in {"none", "start", "done"}
        BY <4>1 DEF ServerInv, Labels
      <4>3. sent[b] \in Seq(Byte) /\ (pc[b] # "done" => got[b] = <<>> /\ sent[b] = <<>>)
        BY <4>2 DEF EchoAt, Answering
      <4> QED BY <2>1, <2>2, <2>4, <4>1, <4>3, EchoIdle
    <3>2. CASE Accept(c)
      <4>1. UNCHANGED <<ring, cache, file, chunk, needToReopen, writeBuf>> /\ pc'[b] = pc[b]
        BY <2>1, <2>4, <3>2 DEF Accept
      <4>2. HasFile(b) => fds'[file].f_pos = fds[file].f_pos
        <5> SUFFICES ASSUME HasFile(b) PROVE fds'[file].f_pos = fds[file].f_pos
          OBVIOUS
        <5>1. file \in 0 .. MaxFds - 1 /\ fds[file].kind = "device"
          BY DEF EchoAt, OwnersInv, ServerInv
        <5>2. NewFd \in 0 .. MaxFds - 1 /\ fds[NewFd] = Free /\ fds' = [fds EXCEPT ![NewFd] = Socket(c)]
          BY <3>2, NewFdFree DEF Accept
        <5>3. NewFd # file
          BY <5>1, <5>2, DescriptorKinds
        <5> QED BY <5>1, <5>2, <5>3 DEF ServerInv
      <4> QED BY <2>2, <4>1, <4>2, EchoSame
    <3> QED BY <1>2, <3>1, <3>2
  <2> QED BY <2>3, <2>4
<1>3. CASE ClientLeaves(c) \/ ClientReads(c) \/ BeginRecv(c) \/ RecvClosed(c)
  <2>1. UNCHANGED <<ring, cache, file, fds, pc, got, sent, chunk, needToReopen, writeBuf>>
    BY <1>3 DEF ClientLeaves, ClientReads, BeginRecv, RecvClosed
  <2> QED BY <2>1, EchoSame
<1>4. CASE CloseClient(c)
  <2>1. pc[c] = "close_client" /\ End({c}) /\ Forget({c})
    BY <1>4 DEF CloseClient
  <2>2. \A b \in Clients : IF b = c THEN pc'[b] = "done" ELSE pc'[b] = pc[b]
    BY <2>1, EndFacts
  <2>3. sent'[c] = <<>> /\ \A b \in Clients \ {c} : got'[b] = got[b] /\ sent'[b] = sent[b]
    BY <2>1 DEF Forget
  <2>4. \A b \in Clients \ {c} : pc[b] \notin Working /\ pc[b] \in {"none", "start", "done"}
    BY <2>1 DEF OwnersInv, Working, ServerInv, Labels
  <2>5. \A b \in Clients \ {c} : /\ sent[b] \in Seq(Byte)
                                 /\ pc[b] # "done" => got[b] = <<>> /\ sent[b] = <<>>
    BY <2>4 DEF EchoAt, Answering
  <2>6. "done" \notin Working /\ <<>> \in Seq(Byte)
    BY EmptySeq DEF Working
  <2> QED BY <2>2, <2>3, <2>4, <2>5, <2>6, EchoIdle
<1>5. ASSUME (NoPeerName(c) /\ ~ Is(client_sockfd[c], "socket")) \/ RecvBadFd(c) \/ DropData(c)
             \/ ReadClosed(c) \/ \E k \in Chunks : ReadSocket(c, k)
      PROVE  FALSE
  <2>1. CASE (NoPeerName(c) /\ ~ Is(client_sockfd[c], "socket")) \/ RecvBadFd(c)
    <3>1. Live(c)
      BY <2>1 DEF NoPeerName, RecvBadFd, RecvFailed, Live
    <3> QED BY <2>1, <3>1, OwnSocket DEF RecvBadFd
  <2>2. CASE DropData(c)
    BY <2>2 DEF DropData, Goto, OwnersInv
  <2>3. CASE ReadClosed(c) \/ \E k \in Chunks : ReadSocket(c, k)
    <3>1. pc[c] = "read" /\ waits_on[c] # NULL
      BY <2>3 DEF ReadSocket, ReadClosed, Goto
    <3> QED BY <3>1 DEF OwnersInv, Sound
  <2> QED BY <1>5, <2>1, <2>2, <2>3
<1>6. CASE HandlerStart(c)
  <2>1. /\ OnlyWorker(c) /\ pc[c] = "open" /\ pc'[c] = "recv"
        /\ got' = got /\ sent' = sent /\ cache' = cache
    BY <1>1, <1>6 DEF HandlerStart, Working
  <2>2. \A b \in Clients : ~ HasFile(b)
    <3>1. ~ HasFile(c)
      BY <2>1 DEF HasFile
    <3> QED BY <2>1, <3>1, OthersIdle
  <2>3. file' # -1
    BY <1>6, <2>2, FileOpened DEF HandlerStart
  <2>4. ~ Wrote(c)' /\ pc[c] \notin Answering /\ pc'[c] \notin Answering
    BY <2>1 DEF Wrote, Answering
  <2>5. sent[c] = <<>> /\ sent[c] \in Seq(Byte)
    BY <2>1 DEF EchoAt
  <2>6. EndsWith(cache, <<>>)
    <3>1. cache \in Seq(Byte) /\ cache \o <<>> = cache
      BY DEF DeviceInv
    <3> QED BY <3>1 DEF EndsWith
  <2>7. EchoAt(c)'
    BY <2>1, <2>3, <2>4, <2>5, <2>6, EchoBefore
  <2> QED BY <2>1, <2>7, EchoOthers
<1>7. ASSUME NEW k \in Chunks, RecvData(c, k) PROVE \A b \in Clients : EchoAt(b)'
  <2>1. pc[c] = "recv" /\ UNCHANGED <<got, sent, cache, file>>
    BY <1>7 DEF RecvData, Goto
  <2>2. PICK to \in {"ioctl", "write", "drop"} : Goto(c, "recv", to)
    BY <1>7 DEF RecvData
  <2>3. to # "drop"
    <3>1. OwnersInv'
      BY OwnersStep
    <3> QED BY <2>2, <3>1, PcAfter DEF OwnersInv
  <2>4. OnlyWorker(c) /\ pc'[c] = to
    BY <1>1, <2>2, <2>3 DEF Working
  <2>5. HasFile(c) /\ ~ Wrote(c)' /\ pc[c] \notin Answering /\ pc'[c] \notin Answering
    BY <2>1, <2>2, <2>4 DEF Wrote, Answering, HasFile
  <2>6. sent[c] \in Seq(Byte) /\ EndsWith(cache, sent[c]) /\ file # -1
    BY <2>1, <2>5 DEF EchoAt
  <2>7. EchoAt(c)'
    BY <2>1, <2>2, <2>4, <2>5, <2>6, EchoBefore
  <2> QED BY <2>1, <2>4, <2>7, EchoOthers
<1>8. CASE IoctlFile(c)
  <2>1. /\ OnlyWorker(c) /\ pc[c] = "ioctl" /\ pc'[c] = "lock"
        /\ UNCHANGED <<got, sent, file>>
    BY <1>1, <1>8 DEF IoctlFile, Working
  <2>2. ~ needToReopen'[c]
    BY <1>8, Zenon DEF IoctlFile, ServerInv
  <2>3. HasFile(c) /\ ~ Wrote(c)' /\ pc[c] \notin Answering /\ pc'[c] \notin Answering
    BY <2>1, <2>2 DEF Wrote, Answering, HasFile
  <2>4. sent[c] \in Seq(Byte) /\ file # -1
    BY <2>3 DEF EchoAt
  <2>5. EchoAt(c)'
    BY <2>1, <2>3, <2>4, EchoBefore
  <2> QED BY <2>1, <2>5, EchoOthers
<1>9. CASE WriteFile(c)
  <2>1. PICK to \in {"lseek", "recv"} : Goto(c, "write", to)
    BY <1>9 DEF WriteFile
  <2>2. OnlyWorker(c)
    BY <1>1, <2>1 DEF Working
  <2>3. EchoAt(c)' /\ got' = got /\ \A b \in Clients \ {c} : sent'[b] = sent[b]
    BY <1>9, EchoWrite
  <2> QED BY <2>2, <2>3, EchoOthers
<1>10. CASE LseekFile(c)
  <2>1. OnlyWorker(c) /\ pc[c] = "lseek" /\ pc'[c] = "close"
    BY <1>1, <1>10 DEF LseekFile, Working
  <2>2. Wrote(c) /\ HasFile(c) /\ pc[c] \notin Answering
    BY <2>1 DEF Wrote, HasFile, Answering
  <2>3. UNCHANGED <<ring, got, sent, chunk, file>>
    BY <1>10 DEF LseekFile
  <2>4. EchoAt(c)'
    BY <2>1, <2>2, <2>3, EchoKept DEF EchoAt
  <2> QED BY <2>1, <2>3, <2>4, EchoOthers
<1>11. CASE CloseAfterWrite(c)
  <2>1. OnlyWorker(c) /\ pc[c] = "close" /\ pc'[c] = "lock"
    BY <1>1, <1>11 DEF CloseAfterWrite, Working
  <2>2. Wrote(c) /\ HasFile(c) /\ pc[c] \notin Answering
    BY <2>1 DEF Wrote, HasFile, Answering
  <2>3. UNCHANGED <<ring, got, sent, chunk, file>>
    BY <1>11 DEF CloseAfterWrite
  <2>4. EchoAt(c)'
    BY <2>1, <2>2, <2>3, EchoKept DEF EchoAt
  <2> QED BY <2>1, <2>3, <2>4, EchoOthers
<1>12. CASE LockMutex(c)
  <2>1. OnlyWorker(c) /\ pc[c] = "lock" /\ pc'[c] = "reopen"
    BY <1>1, <1>12 DEF LockMutex, Working
  <2>2. pc[c] \notin Answering /\ pc'[c] \notin Answering
    BY <2>1 DEF Answering
  <2>3. UNCHANGED <<ring, got, sent, chunk, file, needToReopen>>
    BY <1>12 DEF LockMutex
  <2>4. (HasFile(c) <=> HasFile(c)') /\ (Wrote(c) <=> Wrote(c)')
    BY <2>1, <2>3 DEF HasFile, Wrote
  <2>5. sent[c] \in Seq(Byte) /\ (HasFile(c) => file # -1)
    BY DEF EchoAt
  <2>6. EchoAt(c)'
    <3>1. CASE Wrote(c)
      BY <2>1, <2>2, <2>3, <2>4, <2>5, <3>1, EchoKept
    <3>2. CASE ~ Wrote(c)
      BY <2>1, <2>2, <2>3, <2>4, <2>5, <3>2, EchoBefore
    <3> QED BY <3>1, <3>2
  <2> QED BY <2>1, <2>3, <2>6, EchoOthers
<1>13. CASE Reopen(c)
  <2>1. OnlyWorker(c) /\ got' = got /\ sent' = sent
    BY <1>1, <1>13 DEF Reopen, Working
  <2> QED BY <1>13, <2>1, EchoReopen, EchoOthers
<1>14. CASE ReadFile(c)
  <2>1. PICK to \in {"close_file", "send"} : Goto(c, "read", to)
    BY <1>14 DEF ReadFile
  <2>2. OnlyWorker(c) /\ got' = got /\ sent' = sent
    BY <1>1, <1>14, <2>1 DEF ReadFile, Working
  <2> QED BY <1>14, <2>2, EchoRead, EchoOthers
<1>15. CASE Send(c)
  <2>1. OnlyWorker(c)
    BY <1>1, <1>15 DEF Send, Working
  <2> QED BY <1>15, <2>1, EchoSend, EchoOthers
<1>16. CASE CloseFile(c) \/ UnlockMutex(c)
  <2>1. OnlyWorker(c) /\ pc'[c] \in {"unlock", "close_client"} /\ got' = got /\ sent' = sent
    BY <1>1, <1>16 DEF CloseFile, UnlockMutex, Working
  <2>2. EchoAt(c)'
    BY <2>1 DEF EchoAt, HasFile, Wrote, Answering
  <2> QED BY <2>1, <2>2, EchoOthers
<1> QED BY <1>2, <1>3, <1>4, <1>5, <1>6, <1>7, <1>8, <1>9, <1>10, <1>11, <1>12, <1>13, <1>14,
           <1>15, <1>16 DEF CalmStep, HandlerStep

(* A process that has ended has no handlers. *)
Dead == ~ alive => \A c \in Clients : pc[c] = "done"

LEMMA DeadNext == ServerInv /\ Dead /\ [Next]_vars => Dead'
<1> SUFFICES ASSUME ServerInv, Dead, [Next]_vars, ~ alive' PROVE \A c \in Clients : pc'[c] = "done"
  BY DEF Dead
<1>1. CASE Exit
  BY <1>1 DEF Exit, End
<1>2. CASE UNCHANGED vars
  BY <1>2, Zenon DEF vars, Dead
<1>3. CASE Next /\ ~ Exit
  BY <1>3, ZenonT(40)
     DEF Next, signalInterruptHandler, Accept, AcceptFails, ClientLeaves, ClientReads, SendKills,
         RecvData, ReadSocket, Fault, ThreadFails, NoPeerName, NoBuffer, RecvError,
         RecvFailed, NoWriteBuf, HandlerStep, GetPeerName, HandlerStart, BeginRecv, RecvClosed,
         RecvBadFd, DropData, IoctlFile, WriteFile, LseekFile, CloseAfterWrite, LockMutex, Reopen,
         ReadFile, ReadClosed, Send, CloseFile, UnlockMutex, CloseClient
<1> QED BY <1>1, <1>2, <1>3

LEMMA EchoInit == Init => EchoInv /\ Dead
<1> SUFFICES ASSUME Init PROVE (\A c \in Clients : EchoAt(c)) /\ alive
  BY DEF EchoInv, Dead
<1>1. alive
  BY Zenon DEF Init
<1>2. ASSUME NEW c \in Clients PROVE EchoAt(c)
  <2>1. pc[c] = "none" /\ got[c] = <<>> /\ sent[c] = <<>>
    BY DEF Init
  <2> QED BY <2>1, EmptySeq DEF EchoAt, HasFile, Wrote
<1> QED BY <1>1, <1>2

LEMMA EchoNext ==
  ASSUME Room, ServerInv, TrafficInv, DeviceInv, Owners, EchoInv, [Next]_vars
  PROVE  EchoInv'
<1> SUFFICES ASSUME Calm' PROVE \A c \in Clients : EchoAt(c)'
  BY DEF EchoInv
<1>1. CASE Next
  <2>1. Calm /\ \E c \in Clients : CalmStep(c)
    BY <1>1, CalmNext
  <2>2. OwnersInv /\ \A b \in Clients : EchoAt(b)
    BY <2>1 DEF Owners, EchoInv
  <2>3. ~ disturbed /\ ~ disturbed'
    BY <2>1 DEF Calm
  <2> QED BY <2>1, <2>2, <2>3, EchoStep
<1>2. CASE UNCHANGED vars
  <2>1. /\ UNCHANGED <<alive, disturbed>>
        /\ UNCHANGED <<ring, cache, file, fds, pc, got, sent, chunk, needToReopen, writeBuf>>
    BY <1>2 DEF vars, device, locals, history
  <2>2. \A b \in Clients : EchoAt(b)
    BY <2>1, Zenon DEF EchoInv, Calm
  <2> QED BY <2>1, <2>2, EchoSame
<1> QED BY <1>1, <1>2

LEMMA EchoIsIsolated ==
  ASSUME DeviceInv, EchoInv, Dead
  PROVE  IsolatedEcho
<1> SUFFICES ASSUME NEW c \in Clients, pc[c] = "close_file", needToReopen[c], ~ disturbed,
                    ShortCommands
             PROVE  /\ got[c] = Contents
                    /\ Last(chunk[c].bytes) = NL => IsSuffix(sent[c], got[c])
  BY DEF IsolatedEcho
<1>1. EchoAt(c)
  BY DEF Dead, EchoInv, Calm
<1>2. got[c] = Flat(ring, Retained(ring)) /\ Wrote(c)
  <2>1. Short(ring)
    BY DEF ShortCommands, Short
  <2> QED BY <1>1, <2>1 DEF EchoAt, Wrote
<1>3. got[c] = Contents
  BY <1>2 DEF Flat, Contents
<1>4. ASSUME Last(chunk[c].bytes) = NL PROVE IsSuffix(sent[c], got[c])
  <2> DEFINE t == sent[c]
             n == Retained(ring)
  <2>1. n > 0 /\ t \in Seq(Byte)
    BY <1>1, <1>2, <1>4 DEF EchoAt
  <2>2. PICK s \in Seq(Byte) : Newest(ring) = s \o t
    BY <1>1, <1>2, <1>4 DEF EchoAt, EndsWith
  <2>3. n - 1 \in 0 .. n - 1 /\ (n - 1) + 1 = n /\ n \in Nat
    BY <2>1, RetainedBytes
  <2>4. Flat(ring, n) = Flat(ring, n - 1) \o Newest(ring)
    BY <2>3, FlatNext DEF Newest
  <2>5. Flat(ring, n - 1) \in Seq(Byte)
    BY <2>3, FlatBytes
  <2>6. got[c] = (Flat(ring, n - 1) \o s) \o t
    <3> HIDE DEF n, t
    <3> QED BY <1>2, <2>1, <2>2, <2>4, <2>5, ConcatAssociative, SMTT(30) DEF n
  <2>7. Flat(ring, n - 1) \o s \in Seq(Byte)
    BY <2>5
  <2> HIDE DEF n, t
  <2>8. IsSuffix(t, (Flat(ring, n - 1) \o s) \o t)
    BY <2>1, <2>7, SuffixOfConcat
  <2> QED BY <2>6, <2>8 DEF t
<1> QED BY <1>3, <1>4

(* Served one at a time, a client whose data has a newline is sent all     *)
(* that the device holds, once and in order, in reads of bufferSize bytes; *)
(* if its data end with the newline, everything it has sent is the last of *)
(* it.  Two things are needed: room in the descriptor table for every      *)
(* connection and the device, since nobody looks at what open returned,    *)
(* and commands of at most 2^16 bytes, since the lookup keeps 16 bits of   *)
(* an offset (handle_client from recv to the end of the read loop).        *)
THEOREM EchoAlwaysComplete == Room => (Spec => []IsolatedEcho)
<1> SUFFICES ASSUME Room PROVE Spec => []IsolatedEcho
  OBVIOUS
<1>1. ServerInv /\ TrafficInv /\ DeviceInv /\ Owners /\ EchoInv /\ [Next]_vars => EchoInv'
  BY EchoNext
<1>2. DeviceInv /\ EchoInv /\ Dead => IsolatedEcho
  BY EchoIsIsolated
<1> QED BY <1>1, <1>2, EchoInit, DeadNext, ServerInvariant, OwnersInvariant, PTL DEF Spec
=============================================================================
