--------------------------------- MODULE Codec ---------------------------------
(***************************************************************************)
(* NetPackV, NetPackLenV, NetUnpack and the HostAddr conversions of cnet.c.*)
(* A format is a sequence of specs: "b", "w", "l", "L" for numbers of 1,   *)
(* 2, 4 and 8 bytes, "s" for a string, "lit" for a character of the format *)
(* itself.  A string is the sequence of its characters, none of them 0.    *)
(* One message is packed, sent and unpacked.                               *)
(***************************************************************************)
EXTENDS Framing

CONSTANTS Samples,     \* messages: a format and its arguments
          AddrSamples  \* sockaddrs: a port number and the bytes of an ip

\* What can be kept in two bytes, as the length of a string or a message is.
B2 == Base * Base

Digits(s) == CASE s = "b" -> 1 [] s = "w" -> 2 [] s = "l" -> 4 [] s = "L" -> 8 [] s = "lit" -> 1

\* The shifts of NetPackV.
BigEndian(n, width) == [i \in 1..width |-> (n \div Base^(width - i)) % Base]

----------------------------------------------------------------------------
(* Packing *)

\* The length of a string is cut to two bytes, and the string to that length.
SentOf(str) == SubSeq(str, 1, Len(str) % B2)

Field(spec, arg) ==
    IF spec = "s" THEN NetBytes(Len(SentOf(arg))) \o SentOf(arg)
    ELSE BigEndian(arg, Digits(spec))

\* NetPackV.
Body(fmt, args) == FlattenSeq([k \in 1..Len(fmt) |-> Field(fmt[k], args[k])])

\* Mutant: the length is filled in at the start of the buffer.
FillAtStart(buf, msglen) == 1

\* Where NetPackLenV looks for the length it has left 0: counted from the end of
\* the buffer by the length of the body, which is in two bytes by then.
FillAt(buf, msglen) == Len(buf) - msglen - 1

\* NetPackLenV, behind what the buffer holds already.
PackLen(buf, fmt, args) ==
    LET whole == buf \o <<0, 0>> \o Body(fmt, args)
        msglen == Len(Body(fmt, args)) % B2
        at == FillAt(whole, msglen)
    IN [k \in 1..Len(whole) |->
          IF k \in {at, at + 1} THEN NetBytes(msglen)[k - at + 1] ELSE whole[k]]

----------------------------------------------------------------------------
(* Unpacking.  acc: the position in the message, and the variables so far.  *)

\* What the caller's variables hold before: numbers are not set, strings empty.
Unset(spec) == IF spec = "s" THEN <<>> ELSE 0

\* The bytes of a number that are there, each at its place.
NumberAt(bs, pos, width) ==
    LET digit[i \in 0..width] ==
            IF i = 0 THEN 0
            ELSE digit[i - 1] + (IF pos + i - 1 <= Len(bs)
                                 THEN bs[pos + i - 1] * Base^(width - i) ELSE 0)
    IN digit[width]

\* Mutant: the position stays on the string.
AfterStringStays(pos, slen) == pos + 2

\* pbs after a string.
AfterString(pos, slen) == pos + 2 + slen

\* One spec.  A message that is at its end returns; so does one that ends within a
\* number, or before the first character of a string.
UnpackSpec(bs, acc, spec) ==
    IF acc.pos > Len(bs)
    THEN [pos |-> acc.pos, out |-> Append(acc.out, Unset(spec))]
    ELSE IF spec # "s"
    THEN [pos |-> acc.pos + Digits(spec),
          out |-> Append(acc.out, NumberAt(bs, acc.pos, Digits(spec)))]
    ELSE IF acc.pos + 2 > Len(bs)
    THEN [pos |-> Len(bs) + 1, out |-> Append(acc.out, Unset(spec))]
    ELSE LET slen == U16(SubSeq(bs, acc.pos, acc.pos + 1))
         IN [pos |-> AfterString(acc.pos, slen),
             out |-> Append(acc.out, SubSeq(bs, acc.pos + 2, acc.pos + 1 + slen))]

\* NetUnpack, of a message whose strings are as long as they say.
Unpack(bs, fmt) ==
    FoldLeft(LAMBDA acc, spec : UnpackSpec(bs, acc, spec), [pos |-> 1, out |-> <<>>], fmt).out

----------------------------------------------------------------------------
(* HostAddr: a sockaddr's port and ip, both in network byte order, read as  *)
(* numbers by the host.                                                     *)

\* How a host reads bytes in its memory as a number, and back.
Number(bs, endian) ==
    LET width == Len(bs)
        digit[i \in 0..width] ==
            IF i = 0 THEN 0
            ELSE digit[i - 1] + bs[i] * Base^(IF endian = "big" THEN width - i ELSE i - 1)
    IN digit[width]

Memory(n, width, endian) ==
    IF endian = "big" THEN BigEndian(n, width) ELSE Reverse(BigEndian(n, width))

\* Mutant: the port takes the place of the ip.
HostAddrSwapped(sa, endian) ==
    Number(sa.ip, endian) * Base^2 + Number(NetBytes(sa.port), endian)

HostAddr(sa, endian) == Number(NetBytes(sa.port), endian) * Base^4 + Number(sa.ip, endian)

SockAddr(hostaddr, endian) ==
    [port |-> U16(Memory((hostaddr \div Base^4) % B2, 2, endian)),
     ip |-> Memory(hostaddr % Base^4, 4, endian)]

----------------------------------------------------------------------------
VARIABLES stage,   \* "pack", "send", "unpack", "done"
          before,  \* what the buffer holds already: nothing, or a message
          msg,     \* the message: fmt and args
          buf,     \* the buffer it is packed into
          bodies,  \* what the receiver's parser hands on
          out,     \* what NetUnpack makes of the last of them
          addr,    \* a sockaddr of the tracker
          endians, \* the byte orders of the tracker's host and of a client's
          there    \* the sockaddr that the client makes of the %L it gets

vars == <<stage, before, msg, buf, bodies, out, addr, endians, there>>

Init ==
    /\ stage = "pack" /\ msg \in Samples
    /\ before \in {<<>>, Packed(<<1>>)} /\ buf = <<>> /\ bodies = <<>> /\ out = <<>>
    /\ addr \in AddrSamples /\ endians \in {"big", "little"} \X {"big", "little"}
    /\ there = [port |-> 0, ip |-> <<0, 0, 0, 0>>]

Pack ==
    /\ stage = "pack" /\ stage' = "send"
    /\ buf' = PackLen(before, msg.fmt, msg.args)
    /\ UNCHANGED <<before, msg, bodies, out, addr, endians, there>>

\* The stream arrives whole; cut into reads it gives the same (Listener).
Receive ==
    /\ stage = "send" /\ stage' = "unpack"
    /\ bodies' = Bodies(buf)
    /\ UNCHANGED <<before, msg, buf, out, addr, endians, there>>

NetUnpack ==
    /\ stage = "unpack" /\ stage' = "done"
    /\ out' = IF bodies = <<>> THEN <<>> ELSE Unpack(bodies[Len(bodies)], msg.fmt)
    /\ there' = LET sent == BigEndian(HostAddr(addr, endians[1]), 8)
                IN SockAddr(NumberAt(sent, 1, 8), endians[2])
    /\ UNCHANGED <<before, msg, buf, bodies, addr, endians>>

Next == Pack \/ Receive \/ NetUnpack

Spec == Init /\ [][Next]_vars

----------------------------------------------------------------------------
(* Properties *)

Fits == Len(Body(msg.fmt, msg.args)) < B2

Cut == [k \in 1..Len(msg.args) |->
          IF msg.fmt[k] = "s" THEN SentOf(msg.args[k]) ELSE msg.args[k] % Base^Digits(msg.fmt[k])]

\* A message arrives as it was packed, with its numbers cut to their bytes, and a
\* string of more than two bytes of length to what is left of that length; a message
\* that does not fit is lost, and never taken for another one.
ArrivesOrIsLost ==
    stage = "done" =>
        IF Fits
        THEN out = Cut /\ Len(bodies) = (IF before = <<>> THEN 1 ELSE 2)
        ELSE Len(bodies) = (IF before = <<>> THEN 0 ELSE 1)

\* The message that was in the buffer before is not touched.
NeighbourIntact == stage # "pack" => IsPrefix(before, buf)

\* An address that the tracker sends is the one that a client connects to, if both
\* hosts have the same byte order; between different ones it is turned around.
AddressArrives ==
    stage = "done" =>
        there = IF endians[1] = endians[2] THEN addr
                ELSE [port |-> U16(Reverse(NetBytes(addr.port))), ip |-> Reverse(addr.ip)]

\* NetPackLenV, NetUnpack and the HostAddr conversions bring to the other side what
\* was given to them: messages, whatever they are packed behind, and addresses.
ArrivesAsSent == ArrivesOrIsLost /\ NeighbourIntact /\ AddressArrives
=============================================================================
