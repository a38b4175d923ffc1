------------------------------ MODULE Directory ------------------------------
(***************************************************************************)
(* What the tracker promises: a directory of who can be reached where.     *)
(* Clients post KNOCK and BYE messages; the directory takes them in any    *)
(* order, one at a time, and lists exactly the clients whose last taken    *)
(* message was a KNOCK, at the address that KNOCK gave.  A newcomer is     *)
(* listed when the directory is done with the KNOCK, a leaver is off the   *)
(* list when it starts on the BYE.  Nothing else ever changes an entry.    *)
(***************************************************************************)
EXTENDS Naturals, Messages

VARIABLES mail,    \* how many copies of each message wait to be taken
          taking,  \* the message the directory is busy with, or NoMsg
          online,  \* partial function: a client's address |-> where to reach it
          resets   \* how often everything was forgotten

vars == <<mail, taking, online, resets>>

NoMail == [m \in ClientMsg |-> 0]
Nobody == [a \in {} |-> a]

Init == mail = NoMail /\ taking = NoMsg /\ online = Nobody /\ resets = 0

Post(m) == mail' = [mail EXCEPT ![m] = @ + 1] /\ UNCHANGED <<taking, online, resets>>

Remove(m) == mail[m] > 0 /\ mail' = [mail EXCEPT ![m] = @ - 1]

\* A message is lost with the connection that carried it.
Drop(m) == Remove(m) /\ UNCHANGED <<taking, online, resets>>

Take(m) == taking = NoMsg /\ Remove(m) /\ taking' = m

TakeKnock(m) == Take(m) /\ UNCHANGED <<online, resets>>

TakeBye(m) ==
    /\ Take(m)
    /\ online' = [a \in DOMAIN online \ {m.from} |-> online[a]]
    /\ UNCHANGED resets

FinishKnock ==
    /\ taking \in Knock
    /\ taking' = NoMsg
    /\ online' = [a \in DOMAIN online \cup {taking.from} |->
                     IF a = taking.from THEN ListenAddr(taking) ELSE online[a]]
    /\ UNCHANGED <<mail, resets>>

FinishBye == taking \in Bye /\ taking' = NoMsg /\ UNCHANGED <<mail, online, resets>>

\* The tracker keeps the directory in memory only.
Forget ==
    mail' = NoMail /\ taking' = NoMsg /\ online' = Nobody /\ resets' = resets + 1

Next == \/ \E m \in ClientMsg : Post(m) \/ Drop(m)
        \/ \E m \in Knock : TakeKnock(m)
        \/ \E m \in Bye : TakeBye(m)
        \/ FinishKnock \/ FinishBye
        \/ Forget

Spec == Init /\ [][Next]_vars
=============================================================================
