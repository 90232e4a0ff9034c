---------------------------- MODULE MCAesdSocket ----------------------------
(***************************************************************************)
(* TLC instances of AesdSocket.                                            *)
(***************************************************************************)
EXTENDS AesdSocket

CONSTANTS LetterA, Talkative   \* the clients that send two chunks, the others send one

Data(s) == [bytes |-> s, seek |-> NULL]
Seek(c, o) == [bytes |-> <<LetterA>>, seek |-> [cmd |-> c, offset |-> o]]

(* A piece, a line, a newline with more behind it, a seek request. *)
MCChunks == {Data(<<LetterA>>), Data(<<LetterA, NL>>), Data(<<NL, LetterA>>), Seek(0, 1)}

MCMaxChunks == [c \in Clients |-> IF c \in Talkative THEN 2 ELSE 1]
=============================================================================
