-------------------------- MODULE AesdThreadProofs --------------------------
(***************************************************************************)
(* threadfunc, for any number of clients, any packet size and any initial  *)
(* size of the buffer.                                                     *)
(***************************************************************************)
EXTENDS AesdThread, SequenceTheorems, TLAPS

USE SizeAssumption, NullAssumption

Labels == {"none", "recv", "lock", "append", "read", "send", "unlock", "grow", "done"}

SizeType ==
  /\ pc \in [Clients -> Labels]
  /\ totalLen \in [Clients -> Nat] /\ currentMaxSize \in [Clients -> Nat]

(* Room for a whole recv is needed only before recv, but it follows from   *)
(* what the rest of the loop keeps: doubling a buffer that is no smaller   *)
(* than what it holds, nor than INIT_BUFFER_SIZE, makes that room.         *)
Room ==
  \A c \in Clients :
    /\ pc[c] # "none" => INIT_BUFFER_SIZE <= currentMaxSize[c]
    /\ pc[c] \in {"lock", "append", "grow"} => totalLen[c] <= currentMaxSize[c]
    /\ pc[c] \in {"none", "read", "send", "unlock"} => totalLen[c] = 0

RoomInv == SizeType /\ Room /\ RoomForRecv

LEMMA RoomInit == Init => RoomInv
  BY DEF Init, RoomInv, SizeType, Room, RoomForRecv, Labels

LEMMA RoomRecv ==
  ASSUME RoomInv, NEW c \in Clients, NEW n \in 1 .. INIT_BUFFER_SIZE,
         NEW s \in [1 .. n -> {c, NL}], Recv(c, s)
  PROVE  RoomInv'
<1>1. s \in Seq({c, NL}) /\ Len(s) = n
  OBVIOUS
<1>2. PICK to \in {"lock", "grow"} : pc' = [pc EXCEPT ![c] = to]
  BY DEF Recv, Goto
<1>3. /\ pc[c] = "recv" /\ UNCHANGED currentMaxSize
      /\ totalLen' = [totalLen EXCEPT ![c] = totalLen[c] + n]
  BY <1>1 DEF Recv, Goto
<1> QED BY <1>2, <1>3 DEF RoomInv, SizeType, Room, RoomForRecv, Labels

LEMMA RoomEndRound == ASSUME RoomInv, NEW c \in Clients, EndRound(c) PROVE RoomInv'
<1>1. PICK to \in {"done", "recv"} : pc' = [pc EXCEPT ![c] = to]
  BY DEF EndRound, Goto
<1>2. /\ pc[c] = "grow" /\ UNCHANGED totalLen
      /\ currentMaxSize' = IF NeedsRoom(c)
                           THEN [currentMaxSize EXCEPT ![c] = 2 * currentMaxSize[c]]
                           ELSE currentMaxSize
  BY DEF EndRound, Goto
<1>3. CASE NeedsRoom(c)
  BY <1>1, <1>2, <1>3 DEF NeedsRoom, RoomInv, SizeType, Room, RoomForRecv, Labels
<1>4. CASE ~ NeedsRoom(c)
  BY <1>1, <1>2, <1>4 DEF NeedsRoom, RoomInv, SizeType, Room, RoomForRecv, Labels
<1> QED BY <1>3, <1>4

LEMMA RoomNext == RoomInv /\ [Next]_vars => RoomInv'
<1> SUFFICES ASSUME RoomInv, [Next]_vars PROVE RoomInv'
  OBVIOUS
<1> USE DEF RoomInv, SizeType, Room, RoomForRecv, Labels, Goto, sizes
<1>1. CASE UNCHANGED vars
  BY <1>1 DEF vars
<1>2. ASSUME NEW c \in Clients, threadfunc(c) PROVE RoomInv'
  <2>1. CASE Start(c)
    BY <2>1 DEF Start
  <2>2. CASE RecvClosed(c)
    BY <2>2 DEF RecvClosed
  <2>3. CASE Lock(c)
    BY <2>3 DEF Lock
  <2>4. CASE AppendPacket(c)
    BY <2>4 DEF AppendPacket
  <2>5. CASE ReadFile(c)
    BY <2>5 DEF ReadFile
  <2>6. CASE Send(c)
    BY <2>6 DEF Send
  <2>7. CASE Unlock(c)
    BY <2>7 DEF Unlock
  <2>8. CASE EndRound(c)
    BY <2>8, RoomEndRound
  <2> QED BY <1>2, <2>1, <2>2, <2>3, <2>4, <2>5, <2>6, <2>7, <2>8 DEF threadfunc
<1>3. ASSUME NEW c \in Clients,
             CloseConnection(c) \/ ClientReads(c) \/ StartCrashes(c) \/ RecvCrashes(c)
               \/ SendKills(c)
      PROVE  RoomInv'
  BY <1>3 DEF CloseConnection, ClientReads, StartCrashes, RecvCrashes, SendKills
<1> QED BY <1>1, <1>2, <1>3, RoomRecv DEF Next

(* recv never writes past the end of the buffer, however the packet is cut *)
(* into pieces: threadfunc's growth rule leaves room for the next one.     *)
THEOREM RoomForEveryRecv == Spec => []RoomForRecv
<1>1. RoomInv => RoomForRecv
  BY DEF RoomInv
<1> QED BY <1>1, RoomInit, RoomNext, PTL DEF Spec

---------------------------------------------------------------------------
(* The echo *)

Byte == Clients \union {NL}

StreamType ==
  /\ file \in Seq(Byte) /\ fpos \in 0 .. Len(file)
  /\ pMutex \in Clients \union {NULL}
  /\ buffer \in [Clients -> Seq(Byte) \union {NULL}]
  /\ DOMAIN isCompleted = Clients
  /\ sent \in [Clients -> Seq(Byte)] /\ got \in [Clients -> Seq(Byte)]

InFile == {"append", "read", "send", "unlock"}

(* The mutex belongs to the thread that is at work on the file. *)
MutexOwned == \A c \in Clients : pc[c] \in InFile => pMutex = c

(* Until its packet is complete a client has been sent nothing, and its    *)
(* buffer holds all it has sent; then what it has been sent, and what is   *)
(* in the buffer for it, is the file up to the position in it.             *)
Echoing(c) ==
  /\ pc[c] \in {"none", "recv", "lock", "append"} => got[c] = <<>>
  /\ pc[c] = "none" => sent[c] = <<>>
  /\ pc[c] = "recv" => buffer[c] \in {sent[c], NULL}
  /\ pc[c] \in {"lock", "append"} => buffer[c] = sent[c]
  /\ pc[c] = "grow" /\ ~ isCompleted[c] => got[c] = <<>> /\ buffer[c] = sent[c]
  /\ pc[c] = "read" => got[c] = SubSeq(file, 1, fpos)
  /\ pc[c] = "send" => /\ buffer[c] \in Seq(Byte)
                       /\ got[c] \o buffer[c] = SubSeq(file, 1, fpos)
                       /\ eof => fpos = Len(file)
  /\ pc[c] = "unlock" => got[c] = file
  /\ pc[c] \in {"read", "send", "unlock"} => IsSuffix(sent[c], file)

EchoInv == RoomInv /\ StreamType /\ MutexOwned /\ \A c \in Clients : Echoing(c)

LEMMA ReverseProperties ==
  ASSUME NEW S, NEW w \in Seq(S)
  PROVE  /\ Reverse(w) \in Seq(S) /\ Len(Reverse(w)) = Len(w)
         /\ \A i \in 1 .. Len(w) : Reverse(w)[i] = w[(Len(w) - i) + 1]
  BY DEF Reverse

LEMMA PrefixProperties ==
  ASSUME NEW S, NEW w \in Seq(S), NEW n \in 0 .. Len(w)
  PROVE  /\ SubSeq(w, 1, n) \in Seq(S) /\ Len(SubSeq(w, 1, n)) = n
         /\ \A i \in 1 .. n : SubSeq(w, 1, n)[i] = w[i]
<1>1. n \in Int /\ 1 \in Int /\ \A i \in 1 .. n : w[i] \in S
  OBVIOUS
<1>2. /\ SubSeq(w, 1, n) \in Seq(S)
      /\ Len(SubSeq(w, 1, n)) = IF 1 <= n THEN n - 1 + 1 ELSE 0
      /\ \A i \in 1 .. n - 1 + 1 : SubSeq(w, 1, n)[i] = w[1 + i - 1]
  BY ONLY <1>1, SubSeqProperties
<1> QED BY <1>2

LEMMA SuffixOfConcat ==
  ASSUME NEW S, NEW s \in Seq(S), NEW t \in Seq(S) PROVE IsSuffix(t, s \o t)
<1>1. PICK u \in Seq(S) : u = s \o t
  BY ConcatProperties
<1>2. Len(u) = Len(s) + Len(t) /\ \A i \in 1 .. Len(t) : u[Len(s) + i] = t[i]
  BY <1>1, ConcatProperties
<1>3. PICK rt \in Seq(S) : rt = Reverse(t)
  BY ReverseProperties
<1>4. PICK ru \in Seq(S) : ru = Reverse(u)
  BY ReverseProperties
<1>5. Len(rt) = Len(t) /\ \A i \in 1 .. Len(t) : rt[i] = t[(Len(t) - i) + 1]
  BY <1>3, ReverseProperties
<1>6. Len(ru) = Len(u) /\ \A i \in 1 .. Len(u) : ru[i] = u[(Len(u) - i) + 1]
  BY <1>4, ReverseProperties
<1>7. \A i \in 1 .. Len(rt) : rt[i] = ru[i]
  <2> TAKE i \in 1 .. Len(rt)
  <2>1. (Len(t) - i) + 1 \in 1 .. Len(t) /\ (Len(u) - i) + 1 = Len(s) + ((Len(t) - i) + 1)
    BY <1>2, <1>5
  <2>2. i \in 1 .. Len(u) /\ i \in 1 .. Len(t)
    BY <1>2, <1>5
  <2> QED BY <1>2, <1>5, <1>6, <2>1, <2>2
<1>8. Len(rt) <= Len(ru) /\ SubSeq(rt, 1, Len(rt)) = SubSeq(ru, 1, Len(rt))
  <2>1. Len(rt) \in Nat /\ Len(ru) \in Nat /\ Len(rt) <= Len(ru)
    BY <1>2, <1>5, <1>6
  <2>2. /\ SubSeq(rt, 1, Len(rt)) \in Seq(S) /\ Len(SubSeq(rt, 1, Len(rt))) = Len(rt)
        /\ \A i \in 1 .. Len(rt) : SubSeq(rt, 1, Len(rt))[i] = rt[i]
    BY <2>1, PrefixProperties
  <2>3. /\ SubSeq(ru, 1, Len(rt)) \in Seq(S) /\ Len(SubSeq(ru, 1, Len(rt))) = Len(rt)
        /\ \A i \in 1 .. Len(rt) : SubSeq(ru, 1, Len(rt))[i] = ru[i]
    BY <2>1, PrefixProperties
  <2> QED BY <1>7, <2>1, <2>2, <2>3, SeqEqual
<1> QED BY <1>1, <1>3, <1>4, <1>8 DEF IsSuffix, IsPrefix

LEMMA EchoInit == Init => EchoInv
<1> SUFFICES ASSUME Init PROVE EchoInv
  OBVIOUS
<1>1. MutexOwned /\ \A c \in Clients : Echoing(c)
  BY DEF Init, MutexOwned, Echoing, InFile
<1>2. <<>> \in Seq(Byte) /\ Len(<<>>) = 0
  OBVIOUS
<1>3. StreamType
  BY <1>2 DEF Init, StreamType
<1> QED BY <1>1, <1>3, RoomInit DEF EchoInv

(* What the thread of c does changes nothing of the other clients', and    *)
(* the file only while c owns the mutex.                                   *)
Others(c) ==
  /\ \A d \in Clients \ {c} :
       /\ pc'[d] = pc[d] /\ buffer'[d] = buffer[d] /\ isCompleted'[d] = isCompleted[d]
       /\ sent'[d] = sent[d] /\ got'[d] = got[d]
  /\ UNCHANGED stream \/ pMutex = c

LEMMA EchoOthers ==
  ASSUME EchoInv, NEW c \in Clients, Others(c), NEW d \in Clients \ {c} PROVE Echoing(d)'
<1>1. Echoing(d)
  BY DEF EchoInv
<1>2. /\ pc'[d] = pc[d] /\ buffer'[d] = buffer[d] /\ isCompleted'[d] = isCompleted[d]
      /\ sent'[d] = sent[d] /\ got'[d] = got[d]
  BY DEF Others
<1>3. CASE UNCHANGED stream
  BY <1>1, <1>2, <1>3, Zenon DEF Echoing, stream
<1>4. CASE pMutex = c
  <2>1. pc[d] \notin InFile
    BY <1>4 DEF EchoInv, MutexOwned
  <2> QED BY <1>1, <1>2, <2>1, Zenon DEF Echoing, InFile
<1> QED BY <1>3, <1>4 DEF Others

LEMMA EchoLocal ==
  ASSUME EchoInv, NEW c \in Clients, Others(c), RoomInv', StreamType', MutexOwned', Echoing(c)'
  PROVE  EchoInv'
<1>1. \A d \in Clients : Echoing(d)'
  BY EchoOthers
<1> QED BY <1>1 DEF EchoInv

LEMMA EchoRecv ==
  ASSUME EchoInv, RoomInv', NEW c \in Clients, NEW n \in 1 .. INIT_BUFFER_SIZE,
         NEW s \in [1 .. n -> {c, NL}], Recv(c, s)
  PROVE  EchoInv'
<1>1. s \in Seq(Byte)
  BY DEF Byte
<1>2. PICK to \in {"lock", "grow"} : pc' = [pc EXCEPT ![c] = to]
  BY DEF Recv, Goto
<1>3. pc[c] = "recv" /\ UNCHANGED <<stream, pMutex, isCompleted, got>>
  BY DEF Recv, Goto
<1>4. pc \in [Clients -> Labels] /\ StreamType /\ MutexOwned /\ Echoing(c)
  BY DEF EchoInv, RoomInv, SizeType
<1>5. buffer[c] = sent[c] /\ sent[c] \in Seq(Byte) /\ sent[c] \o s \in Seq(Byte) /\ got[c] = <<>>
  BY <1>1, <1>3, <1>4, ConcatProperties DEF Recv, Echoing, StreamType
<1>6. /\ buffer' = [buffer EXCEPT ![c] = sent[c] \o s]
      /\ sent' = [sent EXCEPT ![c] = sent[c] \o s]
  BY <1>5 DEF Recv
<1>7. StreamType'
  BY <1>3, <1>4, <1>5, <1>6 DEF StreamType, stream
<1>8. MutexOwned'
  BY <1>2, <1>3, <1>4 DEF MutexOwned, InFile
<1>9. Echoing(c)'
  BY <1>2, <1>3, <1>4, <1>5, <1>6 DEF Echoing, StreamType
<1>10. Others(c)
  BY <1>2, <1>3, <1>4, <1>6 DEF Others, StreamType
<1> QED BY <1>7, <1>8, <1>9, <1>10, EchoLocal

LEMMA EchoAppend ==
  ASSUME EchoInv, RoomInv', NEW c \in Clients, AppendPacket(c) PROVE EchoInv'
<1>1. pc \in [Clients -> Labels] /\ StreamType /\ MutexOwned /\ Echoing(c)
  BY DEF EchoInv, RoomInv, SizeType
<1>2. /\ pc[c] = "append" /\ pc' = [pc EXCEPT ![c] = "read"]
      /\ UNCHANGED <<pMutex, isCompleted, sent, got>> /\ fpos' = 0
      /\ buffer' = [buffer EXCEPT ![c] = <<>>]
  BY DEF AppendPacket, Goto
<1>3. file' = file \o sent[c] /\ got[c] = <<>> /\ sent[c] \in Seq(Byte) /\ pMutex = c
  BY <1>1, <1>2 DEF AppendPacket, Echoing, StreamType, MutexOwned, InFile
<1>4. file' \in Seq(Byte) /\ IsSuffix(sent[c], file')
  BY <1>1, <1>3, ConcatProperties, SuffixOfConcat DEF StreamType
<1>5. StreamType'
  <2>1. <<>> \in Seq(Byte) /\ 0 \in 0 .. Len(file')
    BY <1>4
  <2> QED BY <1>1, <1>2, <1>4, <2>1 DEF StreamType
<1>6. MutexOwned'
  BY <1>1, <1>2, <1>3 DEF MutexOwned, InFile
<1>7. Echoing(c)'
  <2>1. SubSeq(file', 1, 0) = <<>>
    BY SubSeqEmpty
  <2> QED BY <1>1, <1>2, <1>3, <1>4, <2>1 DEF Echoing
<1>8. Others(c)
  BY <1>1, <1>2, <1>3 DEF Others, StreamType
<1> QED BY <1>5, <1>6, <1>7, <1>8, EchoLocal

LEMMA EchoReadFile ==
  ASSUME EchoInv, RoomInv', NEW c \in Clients, ReadFile(c) PROVE EchoInv'
<1>1. /\ pc \in [Clients -> Labels] /\ StreamType /\ MutexOwned /\ Echoing(c)
      /\ currentMaxSize[c] \in Nat
  BY DEF EchoInv, RoomInv, SizeType
<1> DEFINE last == IF fpos + currentMaxSize[c] <= Len(file) THEN fpos + currentMaxSize[c]
                   ELSE Len(file)
<1>2. /\ pc[c] = "read" /\ pc' = [pc EXCEPT ![c] = "send"]
      /\ UNCHANGED <<file, pMutex, isCompleted, sent, got>> /\ fpos' = last
      /\ buffer' = [buffer EXCEPT ![c] = SubSeq(file, fpos + 1, last)]
      /\ eof' = (last - fpos < currentMaxSize[c])
  BY DEF ReadFile, Goto
<1>3. /\ file \in Seq(Byte) /\ fpos \in 0 .. Len(file) /\ last \in fpos .. Len(file)
      /\ last - fpos < currentMaxSize[c] => last = Len(file)
      /\ got[c] = SubSeq(file, 1, fpos) /\ IsSuffix(sent[c], file) /\ pMutex = c
  BY <1>1, <1>2 DEF StreamType, Echoing, MutexOwned, InFile
<1> HIDE DEF last
<1>4. /\ SubSeq(file, fpos + 1, last) \in Seq(Byte)
      /\ SubSeq(file, 1, fpos) \o SubSeq(file, fpos + 1, last) = SubSeq(file, 1, last)
  <2>1. SubSeq(file, fpos + 1, last) \in Seq(Byte)
    BY <1>3
  <2>2. 1 \in 1 .. Len(file) + 1 /\ fpos \in 1 - 1 .. Len(file)
    BY <1>3
  <2> QED BY <1>3, <2>1, <2>2, ConcatAdjacentSubSeq
<1>5. StreamType'
  BY <1>1, <1>2, <1>3, <1>4 DEF StreamType
<1>6. MutexOwned'
  BY <1>1, <1>2, <1>3 DEF MutexOwned, InFile
<1>7. Echoing(c)'
  <2>1. pc'[c] = "send" /\ buffer'[c] = SubSeq(file, fpos + 1, last)
    BY <1>1, <1>2 DEF StreamType
  <2>2. eof' => fpos' = Len(file')
    BY <1>2, <1>3
  <2> QED BY <1>2, <1>3, <1>4, <2>1, <2>2 DEF Echoing
<1>8. Others(c)
  BY <1>1, <1>2, <1>3 DEF Others, StreamType
<1> QED BY <1>5, <1>6, <1>7, <1>8, EchoLocal

LEMMA EchoSend ==
  ASSUME EchoInv, RoomInv', NEW c \in Clients, Send(c) PROVE EchoInv'
<1>1. pc \in [Clients -> Labels] /\ StreamType /\ MutexOwned /\ Echoing(c)
  BY DEF EchoInv, RoomInv, SizeType
<1>2. PICK to \in {"read", "unlock"} : pc' = [pc EXCEPT ![c] = to] /\ (to = "unlock" => eof)
  BY DEF Send, Goto
<1>3. /\ pc[c] = "send" /\ UNCHANGED <<stream, pMutex, isCompleted, buffer, sent>>
      /\ got' = [got EXCEPT ![c] = got[c] \o buffer[c]]
  BY DEF Send, Goto
<1>4. /\ got[c] \in Seq(Byte) /\ buffer[c] \in Seq(Byte) /\ got[c] \o buffer[c] \in Seq(Byte)
      /\ got[c] \o buffer[c] = SubSeq(file, 1, fpos) /\ (eof => fpos = Len(file))
      /\ IsSuffix(sent[c], file) /\ pMutex = c
  BY <1>1, <1>3, ConcatProperties DEF StreamType, Echoing, MutexOwned, InFile
<1>5. StreamType'
  BY <1>1, <1>3, <1>4 DEF StreamType, stream
<1>6. MutexOwned'
  BY <1>1, <1>2, <1>3, <1>4 DEF MutexOwned, InFile
<1>7. Echoing(c)'
  <2>1. got'[c] = SubSeq(file, 1, fpos) /\ pc'[c] = to
    BY <1>1, <1>2, <1>3, <1>4 DEF StreamType
  <2>2. to = "unlock" => SubSeq(file, 1, fpos) = file
    BY <1>1, <1>2, <1>4, SubSeqFull DEF StreamType
  <2> QED BY <1>2, <1>3, <1>4, <2>1, <2>2 DEF Echoing, stream
<1>8. Others(c)
  BY <1>1, <1>2, <1>3 DEF Others, StreamType
<1> QED BY <1>5, <1>6, <1>7, <1>8, EchoLocal

(* The steps that leave the file and what clients have sent and got alone. *)
LEMMA EchoQuiet ==
  ASSUME EchoInv, RoomInv', NEW c \in Clients,
         Start(c) \/ RecvClosed(c) \/ Lock(c) \/ Unlock(c) \/ EndRound(c)
  PROVE  EchoInv'
<1>1. pc \in [Clients -> Labels] /\ StreamType /\ MutexOwned /\ Echoing(c)
  BY DEF EchoInv, RoomInv, SizeType
<1>2. UNCHANGED <<stream, sent, got>>
  BY DEF Start, RecvClosed, Lock, Unlock, EndRound
<1>3. CASE Start(c)
  <2>1. /\ pc[c] = "none" /\ pc' = [pc EXCEPT ![c] = "recv"] /\ UNCHANGED <<pMutex, isCompleted>>
        /\ buffer' = [buffer EXCEPT ![c] = <<>>]
    BY <1>3 DEF Start, Goto
  <2>2. <<>> \in Seq(Byte)
    OBVIOUS
  <2>3. StreamType'
    BY <1>1, <1>2, <2>1, <2>2 DEF StreamType, stream
  <2>4. MutexOwned' /\ Echoing(c)' /\ Others(c)
    BY <1>1, <1>2, <2>1 DEF MutexOwned, InFile, Echoing, Others, StreamType
  <2> QED BY <2>3, <2>4, EchoLocal
<1>4. CASE RecvClosed(c)
  <2>1. PICK to \in {"grow", "lock"} : pc' = [pc EXCEPT ![c] = to]
    BY <1>4 DEF RecvClosed, Goto
  <2>2. pc[c] = "recv" /\ buffer[c] # NULL /\ UNCHANGED <<pMutex, isCompleted, buffer>>
    BY <1>4 DEF RecvClosed, Goto
  <2>3. StreamType'
    BY <1>1, <1>2, <2>2 DEF StreamType, stream
  <2>4. MutexOwned' /\ Echoing(c)' /\ Others(c)
    BY <1>1, <1>2, <2>1, <2>2 DEF MutexOwned, InFile, Echoing, Others, StreamType
  <2> QED BY <2>3, <2>4, EchoLocal
<1>5. CASE Lock(c)
  <2>1. /\ pc[c] = "lock" /\ pc' = [pc EXCEPT ![c] = "append"] /\ UNCHANGED <<isCompleted, buffer>>
        /\ pMutex = NULL /\ pMutex' = c
    BY <1>5 DEF Lock, Goto
  <2>2. StreamType'
    BY <1>1, <1>2, <2>1 DEF StreamType, stream
  <2>3. MutexOwned' /\ Echoing(c)' /\ Others(c)
    BY <1>1, <1>2, <2>1 DEF MutexOwned, InFile, Echoing, Others, StreamType
  <2> QED BY <2>2, <2>3, EchoLocal
<1>6. CASE Unlock(c)
  <2>1. /\ pc[c] = "unlock" /\ pc' = [pc EXCEPT ![c] = "grow"] /\ pMutex' = NULL
        /\ isCompleted' = [isCompleted EXCEPT ![c] = TRUE] /\ UNCHANGED buffer
    BY <1>6 DEF Unlock, Goto
  <2>2. StreamType'
    BY <1>1, <1>2, <2>1 DEF StreamType, stream
  <2>3. MutexOwned' /\ Echoing(c)' /\ Others(c)
    BY <1>1, <1>2, <2>1 DEF MutexOwned, InFile, Echoing, Others, StreamType
  <2> QED BY <2>2, <2>3, EchoLocal
<1>7. CASE EndRound(c)
  <2>1. PICK to \in {"done", "recv"} :
          pc' = [pc EXCEPT ![c] = to] /\ (to = "recv" => ~ isCompleted[c])
    BY <1>7 DEF EndRound, Goto
  <2>2. /\ pc[c] = "grow" /\ UNCHANGED pMutex
        /\ \E done : isCompleted' = [isCompleted EXCEPT ![c] = done]
        /\ buffer' = buffer \/ buffer' = [buffer EXCEPT ![c] = NULL]
    BY <1>7 DEF EndRound, Goto
  <2>3. StreamType'
    BY <1>1, <1>2, <2>2 DEF StreamType, stream
  <2>4. MutexOwned' /\ Echoing(c)' /\ Others(c)
    BY <1>1, <1>2, <2>1, <2>2 DEF MutexOwned, InFile, Echoing, Others, StreamType
  <2> QED BY <2>3, <2>4, EchoLocal
<1> QED BY <1>3, <1>4, <1>5, <1>6, <1>7

LEMMA EchoNext == EchoInv /\ [Next]_vars => EchoInv'
<1> SUFFICES ASSUME EchoInv, [Next]_vars PROVE EchoInv'
  OBVIOUS
<1>1. RoomInv'
  BY RoomNext DEF EchoInv
<1>2. ASSUME UNCHANGED <<stream, pMutex, pc, isCompleted, buffer, sizes, sent, got>>
      PROVE  EchoInv'
  <2>1. StreamType' /\ MutexOwned'
    BY <1>2 DEF EchoInv, StreamType, MutexOwned, stream
  <2>2. \A c \in Clients : Echoing(c)'
    BY <1>2, Zenon DEF EchoInv, Echoing, stream
  <2> QED BY <1>1, <2>1, <2>2 DEF EchoInv
<1>3. CASE UNCHANGED vars
  BY <1>2, <1>3 DEF vars
<1>4. ASSUME NEW c \in Clients,
             CloseConnection(c) \/ ClientReads(c) \/ StartCrashes(c) \/ RecvCrashes(c)
               \/ SendKills(c)
      PROVE  EchoInv'
  BY <1>2, <1>4 DEF CloseConnection, ClientReads, StartCrashes, RecvCrashes, SendKills
<1>5. ASSUME NEW c \in Clients, threadfunc(c) PROVE EchoInv'
  BY <1>1, <1>5, EchoAppend, EchoReadFile, EchoSend, EchoQuiet DEF threadfunc
<1> QED BY <1>1, <1>3, <1>4, <1>5, EchoRecv DEF Next

(* Under the shared mutex every client is sent the whole file once, with   *)
(* its own packet as the last of it, for any number of threads: the        *)
(* section of threadfunc between lock and unlock is atomic for the file.   *)
THEOREM EchoIsExact == Spec => []EchoExact
<1>1. EchoInv => EchoExact
  BY DEF EchoInv, Echoing, EchoExact
<1> QED BY <1>1, EchoInit, EchoNext, PTL DEF Spec

---------------------------------------------------------------------------
(* Types *)

FlagsInv == alive \in BOOLEAN /\ eof \in BOOLEAN /\ isCompleted \in [Clients -> BOOLEAN]

LEMMA FlagsNext == FlagsInv /\ [Next]_vars => FlagsInv'
<1> SUFFICES ASSUME FlagsInv, [Next]_vars PROVE FlagsInv'
  OBVIOUS
<1> USE DEF FlagsInv, stream
<1>1. CASE UNCHANGED vars
  BY <1>1, Zenon DEF vars
<1>2. ASSUME NEW c \in Clients, threadfunc(c) PROVE FlagsInv'
  <2>1. CASE Start(c) \/ RecvClosed(c) \/ Lock(c) \/ Send(c)
    BY <2>1, Zenon DEF Start, RecvClosed, Lock, Send
  <2>2. CASE AppendPacket(c)
    BY <2>2, Zenon DEF AppendPacket
  <2>3. CASE ReadFile(c)
    <3> DEFINE last == IF fpos + currentMaxSize[c] <= Len(file)
                       THEN fpos + currentMaxSize[c] ELSE Len(file)
               short == last - fpos < currentMaxSize[c]
    <3>1. eof' = short /\ UNCHANGED <<alive, isCompleted>>
      BY <2>3, Zenon DEF ReadFile
    <3>2. short \in BOOLEAN
      OBVIOUS
    <3> QED BY <3>1, <3>2, Zenon
  <2>4. CASE Unlock(c)
    BY <2>4, Zenon DEF Unlock
  <2>5. CASE EndRound(c)
    <3> DEFINE completed == isCompleted[c] \/ readBytes[c] = 0
    <3>1. isCompleted' = [isCompleted EXCEPT ![c] = completed] /\ UNCHANGED <<alive, stream>>
      BY <2>5, Zenon DEF EndRound
    <3>2. completed \in BOOLEAN
      BY Zenon
    <3> QED BY <3>1, <3>2, Zenon
  <2> QED BY <1>2, <2>1, <2>2, <2>3, <2>4, <2>5 DEF threadfunc
<1>3. ASSUME NEW c \in Clients,
             CloseConnection(c) \/ ClientReads(c) \/ StartCrashes(c) \/ RecvCrashes(c)
               \/ SendKills(c)
      PROVE  FlagsInv'
  BY <1>3, Zenon DEF CloseConnection, ClientReads, StartCrashes, RecvCrashes, SendKills
<1>4. ASSUME NEW c \in Clients, NEW s, Recv(c, s) PROVE FlagsInv'
  BY <1>4, Zenon DEF Recv
<1> QED BY <1>1, <1>2, <1>3, <1>4 DEF Next

(* Only an open connection is full: its closing wakes the send. *)
StalledInv == DOMAIN conn = Clients /\ stalled \subseteq {c \in Clients : conn[c] = "open"}

LEMMA StalledNext == StalledInv /\ [Next]_vars => StalledInv'
<1> SUFFICES ASSUME StalledInv, [Next]_vars PROVE StalledInv'
  OBVIOUS
<1> USE DEF StalledInv
<1>1. CASE UNCHANGED <<conn, stalled>>
  BY <1>1
<1>2. ASSUME NEW c \in Clients, CloseConnection(c) \/ ClientReads(c) \/ Send(c)
      PROVE  StalledInv'
  BY <1>2 DEF CloseConnection, ClientReads, Send
<1> QED
  BY <1>1, <1>2
     DEF Next, threadfunc, vars, client, Start, StartCrashes, Recv, RecvClosed, RecvCrashes, Lock,
         AppendPacket, ReadFile, SendKills, Unlock, EndRound

(* Every variable of threadfunc keeps its type; the position in the file   *)
(* never passes its end, whatever the size of the buffer fread fills.      *)
THEOREM TypeCorrect == Spec => []TypeOK
<1>1. Init => FlagsInv /\ StalledInv
  BY Zenon DEF Init, FlagsInv, StalledInv
<1>2. EchoInv /\ FlagsInv /\ StalledInv => TypeOK
  <2> SUFFICES ASSUME EchoInv, FlagsInv, StalledInv PROVE TypeOK
    OBVIOUS
  <2>1. /\ pc \in [Clients -> Labels] /\ fpos \in 0 .. Len(file)
        /\ totalLen \in [Clients -> Nat] /\ currentMaxSize \in [Clients -> Nat]
        /\ pMutex \in Clients \union {NULL}
    BY Zenon DEF EchoInv, RoomInv, SizeType, StreamType
  <2> QED BY <2>1, Zenon DEF FlagsInv, StalledInv, TypeOK, Labels
<1> QED BY <1>1, <1>2, EchoInit, EchoNext, FlagsNext, StalledNext, PTL DEF Spec
=============================================================================
