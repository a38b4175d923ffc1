-------------------------------- MODULE Framing --------------------------------
(***************************************************************************)
(* A message on a connection is preceded by its length in two bytes, the   *)
(* high one first (NetPackLenV of cnet.c).  A byte is a digit to the base  *)
(* Base, 256 in the code.  A read buffer is the sequence of its bytes.     *)
(***************************************************************************)
EXTENDS Integers, SequencesExt

CONSTANT Base   \* the number of values of a byte

ASSUME BaseAssumption == Base \in Nat \ {0, 1}

Byte == 0..(Base - 1)

\* ntohs() of the first two bytes.
U16(bs) == bs[1] * Base + bs[2]

\* htons().
NetBytes(n) == <<(n \div Base) % Base, n % Base>>

\* What NetPackLenV makes of a body.
Packed(body) == NetBytes(Len(body)) \o body

\* Reference: the bodies of the messages that a stream of bytes holds in whole, up
\* to the first of length 0.
Bodies(stream) ==
    LET from[p \in 0..Len(stream)] ==
            IF p + 2 > Len(stream) THEN <<>>
            ELSE LET n == U16(SubSeq(stream, p + 1, p + 2))
                 IN IF n = 0 \/ p + 2 + n > Len(stream) THEN <<>>
                    ELSE <<SubSeq(stream, p + 3, p + 2 + n)>> \o from[p + 2 + n]
    IN from[0]

----------------------------------------------------------------------------
(* The while (1) of the parser, the same in tracker and client, on a read   *)
(* buffer and the length of the message it waits for (0: not read yet).     *)

BufferShift(buf, n) == SubSeq(buf, n + 1, Len(buf))

LengthIsThere(msglen, buf) == msglen = 0 /\ Len(buf) >= 2

\* The stream cannot go on: its reader takes it for ended.
LengthIsZero(msglen, buf) == LengthIsThere(msglen, buf) /\ U16(buf) = 0

\* Mutant: waits for a byte of the next message.
BodyIsThereLate(msglen, buf) == msglen # 0 /\ Len(buf) > msglen

BodyIsThere(msglen, buf) == msglen # 0 /\ Len(buf) >= msglen

WaitsForMore(msglen, buf) == ~LengthIsThere(msglen, buf) /\ ~BodyIsThere(msglen, buf)
=============================================================================
