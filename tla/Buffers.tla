------------------------------ MODULE Buffers ------------------------------
(***************************************************************************)
(* The bytes of a buffer: buf.c and lib/buf.c, over open_memstream.        *)
(*                                                                         *)
(* The bytes of data from pos to wp, where the next one goes, are to be    *)
(* written to a file; len is the length that open_memstream has stored at  *)
(* the last flush.  Bytes are numbered as they come in; in and out is how  *)
(* far reading and writing have come.  room has the positions that a read  *)
(* made room for and put nothing in: what was there in memory before, is   *)
(* still there, bytes that were written long ago among it.                 *)
(***************************************************************************)
EXTENDS Integers, Sequences, FiniteSets

Gap == 0    \* what is in memory where no byte ever was

BufObj ==
  [k |-> "buf", fd |-> -1, ptr |-> TRUE, data |-> <<>>, wp |-> 0, pos |-> 0, len |-> 0,
   in |-> 0, out |-> 0, room |-> {}]

(* Memory with n more places from the position on, and the next k bytes in *)
(* the first of them; what is in the others stays.                         *)
Memory(b, k, n) ==
  [i \in 1 .. (IF b.wp + n > Len(b.data) THEN b.wp + n ELSE Len(b.data)) |->
     IF i \in b.wp + 1 .. b.wp + k THEN b.in + (i - b.wp)
     ELSE IF i <= Len(b.data) THEN b.data[i] ELSE Gap]

(* What stdio does: fflush, and fseek to the start. *)
Flushed(b) == [b EXCEPT !.len = b.wp]
Cleared(b) == [b EXCEPT !.wp = 0, !.pos = 0, !.room = {}]

(* Where the bytes are that came in, from one position to another. *)
Held(room, from, to) == (from + 1 .. to) \ room

(* print of one byte to the buffer. *)
Printed(b) == [b EXCEPT !.data = Memory(b, 1, 1), !.wp = @ + 1, !.in = @ + 1]

(* clear throws away what is there. *)
Emptied(b) == [Cleared(b) EXCEPT !.out = b.in]

(* read-bytes: room for n bytes is made first, and k of them are read.     *)
(* Only the end of the file takes the room back, and not from the length.  *)
Filled(b, n, k, end) ==
  [b EXCEPT !.data = Memory(b, k, n), !.in = @ + k, !.len = b.wp + n,
            !.wp = IF end THEN @ ELSE @ + n,
            !.room = IF end THEN @ ELSE @ \cup (b.wp + k + 1 .. b.wp + n)]

(* Mutant: the buffer is cleared after every write. *)
SentAndCleared(b, k) == Cleared([b EXCEPT !.pos = @ + k])

(* The buffer is cleared when everything has been written. *)
Sent(b, k) == IF b.pos + k = b.len THEN Cleared(b) ELSE [b EXCEPT !.pos = @ + k]

(* write-bytes, of which k are written: the bytes that came in, and what   *)
(* is in the room between them, whatever it is.                            *)
Drained(b, k) == [Sent(b, k) EXCEPT !.out = @ + Cardinality(Held(b.room, b.pos, b.pos + k))]

(* The bytes that came in and were not written yet are those between pos   *)
(* and the position of the buffer, each once and in their order, however   *)
(* reads and writes divide them; and the room between them has none of     *)
(* these, only what was written before, or thrown away.                    *)
Kept(b) ==
  LET held == Held(b.room, b.pos, b.wp) IN
  /\ {b.data[i] : i \in held} = b.out + 1 .. b.in
  /\ \A i, j \in held : i < j => b.data[i] < b.data[j]
  /\ \A i \in b.pos + 1 .. b.wp : i \in b.room => b.data[i] <= b.out
=============================================================================
