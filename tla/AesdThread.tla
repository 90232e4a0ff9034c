----------------------------- MODULE AesdThread -----------------------------
(***************************************************************************)
(* threadfunc of server/aesd_thread.c: one thread per connection collects  *)
(* a packet that ends in a newline in a growing buffer, appends it to a    *)
(* file all threads share, and sends the whole file back, the file part    *)
(* under a mutex all threads share.                                        *)
(*                                                                         *)
(* Modelled from their use: sockets, the mutex and stdio, whose calls on   *)
(* the file succeed.  A recv that fails changes nothing and is called      *)
(* again at once, so it is not an action.                                  *)
(***************************************************************************)
EXTENDS Integers, Sequences, SequencesExt

CONSTANTS
  Clients,            \* connections, each with its thread
  NL, NULL,           \* the byte '\n'; the null pointer, also "no owner"
  INIT_BUFFER_SIZE,
  MaxChunks,          \* bound on the chunks a client sends
  Faults              \* may malloc and realloc fail?

ASSUME SizeAssumption == INIT_BUFFER_SIZE \in Nat \ {0} /\ MaxChunks \in Nat
ASSUME NullAssumption == NULL \notin Clients

VARIABLES
  alive,                    \* the process is running
  file, fpos, eof,          \* pFile: its bytes, its position, its feof flag
  pMutex,
  pc, isCompleted,
  buffer,                   \* the bytes in use in the buffer, or NULL
  totalLen, currentMaxSize, readBytes,
  conn, budget,             \* the client's end: open or closed, chunks left to send
  stalled,                  \* the clients that have not read what was sent: a send would block
  sent, got                 \* history: what each client has sent, and been sent

stream == <<file, fpos, eof>>
sizes == <<totalLen, currentMaxSize>>
client == <<conn, budget, stalled>>
vars == <<alive, stream, pMutex, pc, isCompleted, buffer, sizes, readBytes, client, sent, got>>

Init ==
  /\ alive = TRUE /\ file = <<>> /\ fpos = 0 /\ eof = FALSE /\ pMutex = NULL
  /\ pc = [c \in Clients |-> "none"] /\ isCompleted = [c \in Clients |-> FALSE]
  /\ buffer = [c \in Clients |-> NULL] /\ totalLen = [c \in Clients |-> 0]
  /\ currentMaxSize = [c \in Clients |-> 0] /\ readBytes = [c \in Clients |-> 0]
  /\ conn = [c \in Clients |-> "open"] /\ budget = [c \in Clients |-> MaxChunks]
  /\ stalled = {}
  /\ sent = [c \in Clients |-> <<>>] /\ got = [c \in Clients |-> <<>>]

Goto(c, from, to) == pc[c] = from /\ pc' = [pc EXCEPT ![c] = to]

---------------------------------------------------------------------------
(* The thread starts with an empty buffer. *)
Start(c) ==
  /\ Goto(c, "none", "recv")
  /\ buffer' = [buffer EXCEPT ![c] = <<>>]
  /\ currentMaxSize' = [currentMaxSize EXCEPT ![c] = INIT_BUFFER_SIZE]
  /\ UNCHANGED <<alive, stream, pMutex, isCompleted, totalLen, readBytes, client, sent, got>>

(* No memory for the buffer: memset writes to a null pointer. *)
StartCrashes(c) ==
  /\ Faults /\ pc[c] = "none" /\ alive' = FALSE
  /\ UNCHANGED <<stream, pMutex, pc, isCompleted, buffer, sizes, readBytes, client, sent, got>>

(* recv returns s, at most INIT_BUFFER_SIZE bytes of which any may be a    *)
(* newline; the thread looks at the last one only.                         *)
Recv(c, s) ==
  /\ buffer[c] # NULL /\ conn[c] = "open" /\ budget[c] > 0
  /\ Goto(c, "recv", IF Last(s) = NL THEN "lock" ELSE "grow")
  /\ buffer' = [buffer EXCEPT ![c] = @ \o s]
  /\ totalLen' = [totalLen EXCEPT ![c] = @ + Len(s)]
  /\ readBytes' = [readBytes EXCEPT ![c] = Len(s)]
  /\ budget' = [budget EXCEPT ![c] = @ - 1] /\ sent' = [sent EXCEPT ![c] = @ \o s]
  /\ UNCHANGED <<alive, stream, pMutex, isCompleted, currentMaxSize, conn, stalled, got>>

(* Mutant: the end of the connection goes unnoticed. *)
RecvClosedIgnored(c) ==
  /\ buffer[c] # NULL /\ conn[c] = "closed" /\ pc[c] = "recv"
  /\ Goto(c, "recv", "recv")
  /\ UNCHANGED <<alive, stream, pMutex, isCompleted, buffer, sizes, readBytes, client, sent, got>>

(* recv returns 0, and the thread looks at the last byte all the same: of  *)
(* an empty buffer, that is the byte before it, which may be anything.     *)
RecvClosed(c) ==
  /\ buffer[c] # NULL /\ conn[c] = "closed"
  /\ \/ Goto(c, "recv", "grow")
     \/ totalLen[c] = 0 /\ Goto(c, "recv", "lock")
  /\ readBytes' = [readBytes EXCEPT ![c] = 0]
  /\ UNCHANGED <<alive, stream, pMutex, isCompleted, buffer, sizes, client, sent, got>>

(* With a null buffer, data makes recv fail for ever, but the end of the   *)
(* connection does not, and the thread looks at the last byte.             *)
RecvCrashes(c) ==
  /\ pc[c] = "recv" /\ buffer[c] = NULL /\ conn[c] = "closed" /\ alive' = FALSE
  /\ UNCHANGED <<stream, pMutex, pc, isCompleted, buffer, sizes, readBytes, client, sent, got>>

(* Mutant: the thread goes on without the mutex. *)
LockSkipped(c) ==
  /\ Goto(c, "lock", "append") /\ pMutex' = c
  /\ UNCHANGED <<alive, stream, isCompleted, buffer, sizes, readBytes, client, sent, got>>

Lock(c) ==
  /\ pMutex = NULL /\ pMutex' = c /\ Goto(c, "lock", "append")
  /\ UNCHANGED <<alive, stream, isCompleted, buffer, sizes, readBytes, client, sent, got>>

(* The packet goes to the end of the file, and the file is rewound. *)
AppendPacket(c) ==
  /\ Goto(c, "append", "read")
  /\ file' = file \o buffer[c] /\ fpos' = 0 /\ eof' = FALSE
  /\ buffer' = [buffer EXCEPT ![c] = <<>>] /\ totalLen' = [totalLen EXCEPT ![c] = 0]
  /\ UNCHANGED <<alive, pMutex, isCompleted, currentMaxSize, readBytes, client, sent, got>>

(* Mutant: the position moves on by the room there was, not by what was read. *)
ReadFileByRoom(c) ==
  LET last == IF fpos + currentMaxSize[c] <= Len(file) THEN fpos + currentMaxSize[c]
              ELSE Len(file)
  IN  /\ Goto(c, "read", "send")
      /\ buffer' = [buffer EXCEPT ![c] = SubSeq(file, fpos + 1, last)]
      /\ readBytes' = [readBytes EXCEPT ![c] = last - fpos]
      /\ fpos' = fpos + currentMaxSize[c] /\ eof' = (last - fpos < currentMaxSize[c])
      /\ UNCHANGED <<alive, file, pMutex, isCompleted, sizes, client, sent, got>>

(* fread fills the buffer, or meets the end of the file. *)
ReadFile(c) ==
  LET last == IF fpos + currentMaxSize[c] <= Len(file) THEN fpos + currentMaxSize[c]
              ELSE Len(file)
  IN  /\ Goto(c, "read", "send")
      /\ buffer' = [buffer EXCEPT ![c] = SubSeq(file, fpos + 1, last)]
      /\ readBytes' = [readBytes EXCEPT ![c] = last - fpos]
      /\ fpos' = last /\ eof' = (last - fpos < currentMaxSize[c])
      /\ UNCHANGED <<alive, file, pMutex, isCompleted, sizes, client, sent, got>>

(* send blocks, with pMutex held, until the client has read enough of what *)
(* it was sent before; what it sends now may fill the connection again.    *)
Send(c) ==
  /\ c \notin stalled /\ Goto(c, "send", IF eof THEN "unlock" ELSE "read")
  /\ got' = [got EXCEPT ![c] = @ \o buffer[c]]
  /\ \/ UNCHANGED stalled
     \/ conn[c] = "open" /\ stalled' = stalled \union {c}
  /\ UNCHANGED <<alive, stream, pMutex, isCompleted, buffer, sizes, readBytes, conn, budget,
                 sent>>

(* Sending to a client that has gone raises SIGPIPE. *)
SendKills(c) ==
  /\ pc[c] = "send" /\ conn[c] = "closed" /\ alive' = FALSE
  /\ UNCHANGED <<stream, pMutex, pc, isCompleted, buffer, sizes, readBytes, client, sent, got>>

Unlock(c) ==
  /\ Goto(c, "unlock", "grow") /\ pMutex' = NULL
  /\ isCompleted' = [isCompleted EXCEPT ![c] = TRUE]
  /\ UNCHANGED <<alive, stream, buffer, sizes, readBytes, client, sent, got>>

(* Mutant: the buffer grows only once it has overflowed. *)
NeedsRoomLate(c) == totalLen[c] > currentMaxSize[c]

NeedsRoom(c) == totalLen[c] + INIT_BUFFER_SIZE > currentMaxSize[c]

(* The end of a round: an empty recv ends the loop, and the buffer doubles *)
(* when it has no room for another recv.  When realloc fails the thread    *)
(* goes on with a null buffer.                                             *)
EndRound(c) ==
  LET completed == isCompleted[c] \/ readBytes[c] = 0
  IN  /\ Goto(c, "grow", IF completed THEN "done" ELSE "recv")
      /\ isCompleted' = [isCompleted EXCEPT ![c] = completed]
      /\ currentMaxSize' = IF NeedsRoom(c) THEN [currentMaxSize EXCEPT ![c] = 2 * @]
                           ELSE currentMaxSize
      /\ \/ buffer' = IF completed THEN [buffer EXCEPT ![c] = NULL] ELSE buffer
         \/ Faults /\ NeedsRoom(c) /\ buffer' = [buffer EXCEPT ![c] = NULL]
      /\ UNCHANGED <<alive, stream, pMutex, totalLen, readBytes, client, sent, got>>

(* A client closes its connection, which wakes a send that waits for it, *)
CloseConnection(c) ==
  /\ conn[c] = "open" /\ conn' = [conn EXCEPT ![c] = "closed"] /\ stalled' = stalled \ {c}
  /\ UNCHANGED <<alive, stream, pMutex, pc, isCompleted, buffer, sizes, readBytes, budget,
                 sent, got>>

(* or reads what it has been sent. *)
ClientReads(c) ==
  /\ c \in stalled /\ stalled' = stalled \ {c}
  /\ UNCHANGED <<alive, stream, pMutex, pc, isCompleted, buffer, sizes, readBytes, conn, budget,
                 sent, got>>

---------------------------------------------------------------------------
threadfunc(c) ==
  \/ Start(c) \/ RecvClosed(c) \/ Lock(c) \/ AppendPacket(c) \/ ReadFile(c) \/ Send(c)
  \/ Unlock(c) \/ EndRound(c)

Next ==
  /\ alive
  /\ \E c \in Clients :
       \/ threadfunc(c) \/ CloseConnection(c) \/ ClientReads(c)
       \/ StartCrashes(c) \/ RecvCrashes(c) \/ SendKills(c)
       \/ \E n \in 1 .. INIT_BUFFER_SIZE : \E s \in [1 .. n -> {c, NL}] : Recv(c, s)

Spec == Init /\ [][Next]_vars

(* Every thread runs; nothing makes a client send, read or close. *)
FairSpec == Spec /\ \A c \in Clients : WF_vars(alive /\ threadfunc(c))

---------------------------------------------------------------------------
(* Properties *)

TypeOK ==
  /\ alive \in BOOLEAN /\ eof \in BOOLEAN /\ fpos \in 0 .. Len(file)
  /\ pMutex \in Clients \union {NULL} /\ isCompleted \in [Clients -> BOOLEAN]
  /\ pc \in [Clients -> {"none", "recv", "lock", "append", "read", "send", "unlock", "grow",
                         "done"}]
  /\ totalLen \in [Clients -> Nat] /\ currentMaxSize \in [Clients -> Nat]
  /\ stalled \subseteq {c \in Clients : conn[c] = "open"}

(* Whatever the sizes of the pieces a packet arrives in, the buffer has    *)
(* room for all INIT_BUFFER_SIZE bytes that the next recv may store behind *)
(* the ones received (the growth at the end of threadfunc's loop).         *)
RoomForRecv ==
  \A c \in Clients :
    pc[c] = "recv" => totalLen[c] + INIT_BUFFER_SIZE <= currentMaxSize[c]

(* When a thread gives the mutex up it has sent its client the file once,  *)
(* from its first byte to its last, and the file ends with that client's   *)
(* packet, whatever the other threads did meanwhile.                       *)
EchoExact ==
  \A c \in Clients : pc[c] = "unlock" => got[c] = file /\ IsSuffix(sent[c], file)

(* The clients keep reading: no connection stays full for ever. *)
ClientsRead == \A c \in Clients : []<>(c \notin stalled)

(* Provided that the clients keep reading, the thread of a client that has *)
(* closed its connection ends, wherever it was and whoever held the mutex, *)
(* unless it lost its buffer to realloc.  (One client that stays and does  *)
(* not read holds pMutex in send, and all other threads with it.)          *)
ClosedClientEnds ==
  ClientsRead =>
    \A c \in Clients :
      conn[c] = "closed" ~> pc[c] = "done" \/ ~ alive \/ (pc[c] = "recv" /\ buffer[c] = NULL)
=============================================================================
