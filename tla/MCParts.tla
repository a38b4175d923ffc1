------------------------------- MODULE MCParts -------------------------------
(***************************************************************************)
(* Six parts that one thread runs on data of its own, as one instance for  *)
(* TLC: a behaviour is one of one part, while the others rest where they   *)
(* begin.                                                                  *)
(***************************************************************************)
EXTENDS Framing

CONSTANTS
    AddrSamples,                                                     \* Codec
    Items, Bytes, Vals, Keys, Junk, ArenaCap, InitCap, CapLimit,     \* Containers
    Names, Cap, FieldSize, MaxBlocks,                                \* Strings
    Values, Numbers, MaxArgs,                                        \* Args
    Alnum, Punct, Lines, LineSize, QuitWords, AskWords, SendWord, PeerAliases,  \* Shell
    MemSize                                                          \* StaleCtx

VARIABLES
    part,  \* the one that runs
    stage, before, msg, packed, bodies, out, addr, endians, there,              \* Codec
    arena, pos, arr, buf, map, aborted,                                   \* Containers
    heap, str, text, cut,                                                       \* Strings
    known, argv, next, state, settings,                                         \* Args
    typed, input, running, sent,                                                \* Shell
    pc, stream, arrived, received, end, mem, copies, socketctx, eof, handled    \* StaleCtx

codecVars == <<stage, before, msg, packed, bodies, out, addr, endians, there>>
containersVars == <<arena, pos, arr, buf, map, aborted>>
stringsVars == <<heap, str, text, cut>>
argsVars == <<known, argv, next, state, settings>>
shellVars == <<typed, input, running, sent>>
staleVars == <<pc, stream, arrived, received, end, mem, copies, socketctx, eof, handled>>

----------------------------------------------------------------------------
(* Codec: strings of up to 2 characters, those at the limit of two bytes   *)
(* of length, and the formats of the two programs and of t2.c.             *)

Short == UNION {[1..k -> {1, Base - 1}] : k \in 0..2}
Long == {[i \in 1..k |-> 1] : k \in {Base^2 - 6, Base^2 - 4, Base^2 - 3, Base^2 - 1, Base^2, Base^2 + 1}}
Longs == {0, Base + 1, Base^4 + 2, Base^8 - 1}

Msg(fmt, args) == [fmt |-> fmt, args |-> args]

MCSamples ==
    {Msg(<<"b">>, <<1>>)}
      \cup {Msg(<<"b", "s">>, <<1, s>>) : s \in Short \cup Long}
      \cup {Msg(<<"b", "s", "s", "w">>, <<1, s, t, n>>) : s \in Short, t \in Short, n \in {0, Base^2 - 1}}
      \cup {Msg(<<"b", "s", "s", "L", "L">>, <<1, s, <<1>>, m, n>>) :
              s \in Short, m \in Longs, n \in Longs}
      \cup {Msg(<<"b", "L">>, <<1, n>>) : n \in Longs}
      \cup {Msg(<<"lit", "l", "s">>, <<2, n, s>>) : n \in Longs, s \in Short}

MCAddrs == {[port |-> p, ip |-> i] : p \in {1, Base + 2}, i \in {<<1, 0, 0, 2>>, <<3, 2, 1, 0>>}}

C == INSTANCE Codec WITH Samples <- MCSamples, buf <- packed

CodecRests ==
    /\ stage = "pack" /\ msg = Msg(<<"b">>, <<1>>) /\ before = <<>> /\ packed = <<>>
    /\ bodies = <<>> /\ out = <<>> /\ endians = <<"big", "big">>
    /\ addr = [port |-> 0, ip |-> <<0, 0, 0, 0>>] /\ there = addr

----------------------------------------------------------------------------
K == INSTANCE Containers WITH mem <- arena

----------------------------------------------------------------------------
(* Strings: 32 is a space, 59 a semicolon, 97 a letter and -61 the first    *)
(* byte of an accented letter, as a signed char.                           *)

MCTexts == {<<>>, <<97>>, <<59, 32>>, <<32, 97, 32>>, <<97, 59, 32, 97>>, <<-61>>}
MCSeps == {<<>>, <<59>>, <<59, 32>>, <<97, 97>>}

S == INSTANCE Strings WITH Texts <- MCTexts, Seps <- MCSeps

----------------------------------------------------------------------------
(* Args: the last of the numbers is no port. *)

MCNumbers == [n \in {"9001", "70000"} |-> IF n = "9001" THEN 9001 ELSE 70000]

A == INSTANCE Args

ArgsRest ==
    known = {} /\ argv = <<>> /\ next = 1 /\ state = "SW_NONE" /\ settings = <<>>

----------------------------------------------------------------------------
(* Shell: commands and aliases are words of one letter. *)

MCAlnum == {"q", "s", "a"}
MCPunct == {"'"}
MCLines == BoundedSeq(MCAlnum \cup MCPunct \cup {" "}, 6)
MCQuit == {<<"q">>}
MCAsk == {<<"a", "a">>}
MCSend == <<"s">>
MCAliases == <<<<"q">>, <<"s">>, <<"q">>>>

H == INSTANCE Shell

ShellRests == typed = <<>> /\ input = <<>> /\ running = TRUE /\ sent = <<>>

----------------------------------------------------------------------------
(* StaleCtx: one message, none of whose numbers is 0, in every length up to 3. *)

MCStreams == {Packed(<<1>> \o rest) : rest \in UNION {[1..k -> {0, 1}] : k \in 0..2}}

T == INSTANCE StaleCtx WITH Streams <- MCStreams

StaleCtxRests ==
    /\ pc = "select" /\ stream = Packed(<<1>>) /\ arrived = 0 /\ received = 0 /\ end = FALSE
    /\ mem = T!Zeros /\ copies = <<[len |-> 0, msglen |-> 0]>>
    /\ socketctx = 1 /\ eof = FALSE /\ handled = <<>>

----------------------------------------------------------------------------
\* What the parts assume of their constants.
ASSUME PartsAssumption ==
    /\ K!ContainersAssumption /\ S!StringsAssumption /\ A!ArgsAssumption
    /\ H!ShellAssumption /\ T!StaleCtxAssumption

vars == <<part, codecVars, containersVars, stringsVars, argsVars, shellVars, staleVars>>

Init ==
    /\ part \in {"codec", "containers", "strings", "args", "shell", "stale_ctx"}
    /\ IF part = "codec" THEN C!Init ELSE CodecRests
    /\ K!Init
    /\ S!Init
    /\ IF part = "args" THEN A!Init ELSE ArgsRest
    /\ IF part = "shell" THEN H!Init ELSE ShellRests
    /\ IF part = "stale_ctx" THEN T!Init ELSE StaleCtxRests

Next ==
    /\ UNCHANGED part
    /\ \/ part = "codec" /\ C!Next /\ UNCHANGED <<containersVars, stringsVars, argsVars, shellVars, staleVars>>
       \/ part = "containers" /\ K!Next /\ UNCHANGED <<codecVars, stringsVars, argsVars, shellVars, staleVars>>
       \/ part = "strings" /\ S!Next /\ UNCHANGED <<codecVars, containersVars, argsVars, shellVars, staleVars>>
       \/ part = "args" /\ A!Next /\ UNCHANGED <<codecVars, containersVars, stringsVars, shellVars, staleVars>>
       \/ part = "shell" /\ H!Next /\ UNCHANGED <<codecVars, containersVars, stringsVars, argsVars, staleVars>>
       \/ part = "stale_ctx" /\ T!Next /\ UNCHANGED <<codecVars, containersVars, stringsVars, argsVars, shellVars>>

Spec == Init /\ [][Next]_vars

----------------------------------------------------------------------------
(* Properties: those of the parts, where they are explained *)

\* Codec: a message arrives as it was packed, or is lost as a whole, and leaves the one
\* before it as it is (NetPackLenV, NetUnpack); addresses arrive.
ArrivesAsSent == C!ArrivesAsSent

\* Containers: Array, Buffer and Map in one arena are a sequence, bytes and a function.
ImplementsCollections == K!ImplementsCollections

\* Strings: a String says what was put into it, StringSplit loses nothing, hash16 is a
\* polynomial, and staticstr_copy stays within its field.
TextsAreRight == S!TextsAreRight

\* Args: the last value of a switch counts (parse_args).
LastValueCounts == A!LastValueCounts

\* Shell: a line that fits into inputbuf does what its first command says (run_shell).
LineDoesAsTyped == H!LineDoesAsTyped

\* StaleCtx: a message is handled once, also when socketctxs moves under the pointer to
\* its ctx.
HandledOnce == T!HandledOnce
=============================================================================
