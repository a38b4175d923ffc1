-------------------------------- MODULE Shell --------------------------------
(***************************************************************************)
(* The command shell of the client (tm.c: run_shell, execute_command and   *)
(* what they call), as it reads the keyboard line by line.  A character is *)
(* a string of length 1; words are short here.                             *)
(***************************************************************************)
EXTENDS Integers, SequencesExt

CONSTANTS Alnum, Punct,  \* characters; " " and the end of line are the others
          Lines,         \* what may be typed before the end of line
          LineSize,      \* the size of inputbuf
          QuitWords, AskWords, SendWord,  \* commands: leave; look; send
          PeerAliases    \* the aliases in GPeers, in the order of their slots

\* What the constants are, assumed where they get values.
ShellAssumption == LineSize \in Nat /\ LineSize > 2

VARIABLES typed,    \* history: all that was typed
          input,    \* what fgets did not take yet
          running,
          sent      \* the CHATTEXTs: [slot of the peer, words of the text]

vars == <<typed, input, running, sent>>

EndOfLine == "\n"
NUL == "\\0"

Init ==
    /\ typed \in {line \o <<EndOfLine>> : line \in Lines}
    /\ input = typed /\ running = TRUE /\ sent = <<>>

----------------------------------------------------------------------------
(* tokenize_command *)

TokenEnded(s) == [state |-> "SPACE", token |-> <<>>, tokens |-> Append(s.tokens, s.token)]

\* Mutant: a character that is neither letter, digit nor space ends the token.
TokenizeEnding(s, ch) ==
    IF ch \in Alnum THEN [s EXCEPT !.token = Append(@, ch), !.state = "CHAR"]
    ELSE IF s.state = "CHAR" THEN TokenEnded(s) ELSE s

\* A space and the end of the command end a token; other characters are dropped.
Tokenize(s, ch) ==
    IF ch \in Alnum THEN [s EXCEPT !.token = Append(@, ch), !.state = "CHAR"]
    ELSE IF s.state = "CHAR" /\ ch \in {" ", NUL} THEN TokenEnded(s) ELSE s

tokenize_command(cmd) ==
    FoldLeft(Tokenize, [state |-> "SPACE", token |-> <<>>, tokens |-> <<>>], cmd \o <<NUL>>).tokens

----------------------------------------------------------------------------
(* execute_command *)

\* The slot that find_peer_alias finds, 0 for none: active or not.
FindAlias(word) == SelectInSeq(PeerAliases, LAMBDA a : a = word)

\* array_join_strings(tokens, i, last): kept as words.
Joined(toks, i) == SubSeq(toks, i, Len(toks))

\* The CHATTEXT to a peer, if there is one.
Message(to, text) == IF to = 0 THEN <<>> ELSE <<[to |-> to, text |-> text]>>

\* What execute_command knows after one token more.  A word that is no command is
\* skipped.
Execute(s, toks, i) ==
    CASE s.state = "START" ->
            IF toks[i] \in QuitWords THEN [s EXCEPT !.state = "QUIT"]
            ELSE IF toks[i] \in AskWords THEN [s EXCEPT !.state = "DONE"]
            ELSE IF toks[i] = SendWord THEN [s EXCEPT !.state = "SEND"] ELSE s
      [] s.state = "SEND" -> [s EXCEPT !.state = "SENDALIAS", !.to = FindAlias(toks[i])]
      [] s.state = "SENDALIAS" ->
            [s EXCEPT !.state = "DONE", !.out = Message(s.to, Joined(toks, i))]
      [] OTHER -> s

execute_command(cmd) ==
    LET toks == tokenize_command(cmd)
    IN FoldLeft(LAMBDA s, i : Execute(s, toks, i), [state |-> "START", to |-> 0, out |-> <<>>],
                [i \in DOMAIN toks |-> i])

\* fgets takes a line with its end, or as much of it as fits with a 0.
Taken == Min({SelectInSeq(input, LAMBDA c : c = EndOfLine), LineSize - 1})

\* A turn of run_shell.  The last character taken is removed, as if it always were the
\* end of the line.  Sending may fail.
RunShell ==
    /\ running /\ input # <<>>
    /\ LET done == execute_command(SubSeq(input, 1, Taken - 1))
       IN /\ running' = (done.state # "QUIT")
          /\ sent' \in {sent, sent \o done.out}
    /\ input' = SubSeq(input, Taken + 1, Len(input))
    /\ UNCHANGED typed

Next == RunShell

Spec == Init /\ [][Next]_vars

----------------------------------------------------------------------------
(* Properties *)

\* The words of a line: without punctuation, the longest runs of what is no space.
Words(line) ==
    LET clean == SelectSeq(line, LAMBDA c : c \in Alnum \cup {" "})
        runs == {r \in (DOMAIN clean) \X (DOMAIN clean) :
                    /\ r[1] <= r[2] /\ \A k \in r[1]..r[2] : clean[k] # " "
                    /\ r[1] = 1 \/ clean[r[1] - 1] = " "
                    /\ r[2] = Len(clean) \/ clean[r[2] + 1] = " "}
        sorted == SetToSortSeq(runs, LAMBDA r, s : r[1] < s[1])
    IN [k \in DOMAIN sorted |-> SubSeq(clean, sorted[k][1], sorted[k][2])]

\* The place of the first command among words, one behind them if there is none.
CommandAt(ws) ==
    Min({k \in DOMAIN ws : ws[k] \in QuitWords \cup AskWords \cup {SendWord}} \cup {Len(ws) + 1})

\* What a line that fits into inputbuf does is what its first command says: leave, or
\* send all words behind the alias to the first peer of that alias.
LineDoesAsTyped ==
    [][LET end == SelectInSeq(input, LAMBDA c : c = EndOfLine)
           ws == Words(SubSeq(input, 1, end - 1))
           at == CommandAt(ws)
           does(W) == at <= Len(ws) /\ ws[at] \in W
       IN end < LineSize =>
            /\ ~running' <=> does(QuitWords)
            /\ sent' # sent =>
                  /\ does({SendWord}) /\ Len(ws) >= at + 2
                  /\ sent' = Append(sent, [to |-> FindAlias(ws[at + 1]), text |-> SubSeq(ws, at + 2, Len(ws))])
      ]_vars
=============================================================================
