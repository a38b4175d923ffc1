------------------------------- MODULE StaleCtx -------------------------------
(***************************************************************************)
(* The tracker reads a connection through a pointer into socketctxs        *)
(* (tmtracker.c).  handle_msg may append to socketctxs, and the append that *)
(* finds it full moves it: the pointer is left on the old copy of the ctx, *)
(* which goes on being used until the pass is over.  Arenas free nothing,  *)
(* so that the old copy stays what it was; both share the bytes of the     *)
(* read buffer.  One connection is followed, down to these bytes.          *)
(***************************************************************************)
EXTENDS Framing

CONSTANTS Streams,   \* the bytes that may come on the connection
          MemSize    \* the capacity of its read buffer

\* What the constants are, assumed where they get values.
StaleCtxAssumption == Streams \subseteq Seq(Byte) /\ MemSize \in Nat

VARIABLES
    pc,         \* "select", "parse", "closed"
    stream,     \* what the client sends
    arrived, received, end,
    mem,        \* the bytes that readbuf.bs points to
    copies,     \* the ctx in each block that socketctxs had, the present one last
    socketctx,  \* the block the pointer points into
    eof,        \* read_eof
    handled     \* history: what handle_msg got

vars == <<pc, stream, arrived, received, end, mem, copies, socketctx, eof, handled>>

Zeros == [k \in 1..MemSize |-> 0]

Init ==
    /\ pc = "select" /\ stream \in Streams
    /\ arrived = 0 /\ received = 0 /\ end = FALSE
    /\ mem = Zeros /\ copies = <<[len |-> 0, msglen |-> 0]>>
    /\ socketctx = 1 /\ eof = FALSE /\ handled = <<>>

\* What readbuf holds, seen through the pointer.
ctx == copies[socketctx]
readbuf == SubSeq(mem, 1, ctx.len)

\* handle_msg does nothing with the number 0.
IsZero(body) == body = [k \in 1..Len(body) |-> 0]

\* Mutant: what was shifted out stays behind the end of the buffer.
ShiftedKeeps(bs, len, n) ==
    [k \in 1..MemSize |-> IF k + n <= len THEN bs[k + n] ELSE bs[k]]

\* BufferShift: the bytes move down, and the rest of the memory is cleared.
Shifted(bs, len, n) ==
    [k \in 1..MemSize |-> IF k + n <= len THEN bs[k + n] ELSE 0]

\* BufferAppend, at the len of the ctx.
Filled(bs, len, new) ==
    [k \in 1..MemSize |-> IF k \in (len + 1)..(len + Len(new)) THEN new[k - len] ELSE bs[k]]

----------------------------------------------------------------------------
Arrive ==
    /\ pc # "closed" /\ ~end
    /\ \E k \in (arrived + 1)..Len(stream) : arrived' = k
    /\ UNCHANGED <<pc, stream, received, end, mem, copies, socketctx, eof, handled>>

\* The client closes the connection after its bytes, or dies before.
End ==
    /\ pc # "closed" /\ ~end /\ end' = TRUE
    /\ UNCHANGED <<pc, stream, arrived, received, mem, copies, socketctx, eof, handled>>

\* SocketCtx_find_by_fd, in the present block; NetRecv.
Recv ==
    /\ pc = "select" /\ (received < arrived \/ end)
    /\ pc' = "parse" /\ eof' = end /\ socketctx' = Len(copies)
    /\ LET new == SubSeq(stream, received + 1, arrived)
           c == copies[Len(copies)]
       IN /\ c.len + Len(new) <= MemSize
          /\ mem' = Filled(mem, c.len, new)
          /\ copies' = [copies EXCEPT ![Len(copies)].len = @ + Len(new)]
    /\ received' = arrived
    /\ UNCHANGED <<stream, arrived, end, handled>>

ReadLength ==
    /\ pc = "parse" /\ LengthIsThere(ctx.msglen, readbuf) /\ ~LengthIsZero(ctx.msglen, readbuf)
    /\ copies' = [copies EXCEPT ![socketctx] = [len |-> @.len - 2, msglen |-> U16(readbuf)]]
    /\ mem' = Shifted(mem, ctx.len, 2)
    /\ UNCHANGED <<pc, stream, arrived, received, end, socketctx, eof, handled>>

\* handle_msg, in which SocketCtx_new may move socketctxs; the shift and the reset
\* of msglen are done on the copy that the pointer points to.
ReadBody ==
    /\ pc = "parse" /\ BodyIsThere(ctx.msglen, readbuf)
    /\ mem' = Shifted(mem, ctx.len, ctx.msglen)
    /\ LET body == SubSeq(readbuf, 1, ctx.msglen)
       IN /\ handled' = Append(handled, body)
          /\ \E moved \in IF IsZero(body) THEN {FALSE} ELSE BOOLEAN :
                copies' = [IF moved THEN Append(copies, copies[Len(copies)]) ELSE copies
                             EXCEPT ![socketctx] = [len |-> @.len - @.msglen, msglen |-> 0]]
    /\ UNCHANGED <<pc, stream, arrived, received, end, socketctx, eof>>

\* An inbound connection has nothing to write: it is closed, by its descriptor.
Close ==
    /\ pc = "parse"
    /\ \/ LengthIsZero(ctx.msglen, readbuf)
       \/ eof /\ WaitsForMore(ctx.msglen, readbuf)
    /\ pc' = "closed"
    /\ UNCHANGED <<stream, arrived, received, end, mem, copies, socketctx, eof, handled>>

ReadMore ==
    /\ pc = "parse" /\ WaitsForMore(ctx.msglen, readbuf) /\ ~eof
    /\ pc' = "select"
    /\ UNCHANGED <<stream, arrived, received, end, mem, copies, socketctx, eof, handled>>

Loop == Recv \/ ReadLength \/ ReadBody \/ Close \/ ReadMore

Next == Arrive \/ End \/ Loop

Spec == Init /\ [][Next]_vars

----------------------------------------------------------------------------
(* Properties *)

Messages == SelectSeq(handled, LAMBDA body : ~IsZero(body))

\* Clients send one message per connection.  It is handled once, whether or not
\* socketctxs moves: the stale length makes handle_msg see its bytes a second time,
\* but BufferShift has cleared them, and a message number of 0 is ignored.
HandledOnce ==
    /\ IsPrefix(Messages, Bodies(stream))
    /\ pc = "closed" => Messages = Bodies(SubSeq(stream, 1, received))
    /\ Len(copies) = 1 => Messages = handled
=============================================================================
