------------------------------ MODULE ByteStream ------------------------------
(***************************************************************************)
(* What an svm fifo promises its two users: a bounded stream of bytes.     *)
(* The byte at stream position p has the value p; positions wrap modulo    *)
(* Modulus, as the 32-bit indices of the fifo do.                          *)
(***************************************************************************)
EXTENDS Naturals, Sequences

CONSTANTS Size, Modulus

VARIABLES
  begin,    \* position of the next byte to be consumed
  end,      \* position of the next byte to be written
  stream    \* the bytes in between

streamVars == <<begin, end, stream>>

StreamInit == begin = 0 /\ end = 0 /\ stream = <<>>

\* Bytes become readable all at once, in order, and never more than fit.
Write(n) ==
  /\ begin' = begin
  /\ end' = (end + n) % Modulus
  /\ Len(stream) + n <= Size
  /\ stream' = stream \o [i \in 1..n |-> (end + i - 1) % Modulus]

Consume(n) ==
  /\ end' = end
  /\ begin' = (begin + n) % Modulus
  /\ n <= Len(stream)
  /\ stream' = SubSeq(stream, n + 1, Len(stream))

StreamNext == \E n \in 1..Size : Write(n) \/ Consume(n)

StreamSpec == StreamInit /\ [][StreamNext]_streamVars
=============================================================================
