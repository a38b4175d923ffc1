--------------------------------- MODULE Args ---------------------------------
(***************************************************************************)
(* parse_args of the client (tm.c) and of the tracker (tmtracker.c): the   *)
(* same machine, with more switches in the client.  A step is a turn of    *)
(* its loop.                                                               *)
(***************************************************************************)
EXTENDS Integers, SequencesExt

CONSTANTS Values,   \* arguments that are no switch
          Numbers,  \* what atoi makes of the values that are a number
          MaxArgs   \* bound: the length of the command line

\* What the constants are, assumed where they get values.
ArgsAssumption == MaxArgs \in Nat /\ \A v \in DOMAIN Numbers : Numbers[v] \in Int

VARIABLES known, argv, next, state, settings

vars == <<known, argv, next, state, settings>>

PortSwitches == {"-listenport", "-sendport", "-trackerport"}
ClientSwitches == PortSwitches \cup {"-trackerhost", "-alias", "-hostname"}
TrackerSwitches == {"-trackerport"}

Args == ClientSwitches \cup Values

Default == "default"

\* 0 for what is no number.
atoi(arg) == IF arg \in DOMAIN Numbers THEN Numbers[arg] ELSE 0

\* A port is a u16.
Port(arg) == atoi(arg) % 65536

Value(switch, arg) == IF switch \in PortSwitches THEN <<"port", Port(arg)>> ELSE <<"text", arg>>

Init ==
    /\ known \in {ClientSwitches, TrackerSwitches}
    /\ argv \in UNION {[1..n -> Args] : n \in 1..MaxArgs}
    /\ next = 1 /\ state = "SW_NONE"
    /\ settings = [s \in known |-> Default]

----------------------------------------------------------------------------
\* A switch waits for its value; anything else is skipped.
Switch ==
    /\ state = "SW_NONE"
    /\ state' = IF argv[next] \in known THEN argv[next] ELSE "SW_NONE"
    /\ UNCHANGED settings

\* Mutant: a switch that stands for a value waits for one too.
AfterSwitch == IF argv[next] \in known THEN argv[next] ELSE "SW_NONE"

\* After a value no switch waits.
AfterValue == "SW_NONE"

\* Whatever comes next is the value, a switch too.
TakeValue ==
    /\ state # "SW_NONE"
    /\ settings' = [settings EXCEPT ![state] = Value(state, argv[next])]
    /\ state' = AfterValue

ParseArg ==
    /\ next <= Len(argv) /\ next' = next + 1 /\ UNCHANGED <<known, argv>>
    /\ Switch \/ TakeValue

Next == ParseArg

Spec == Init /\ [][Next]_vars

----------------------------------------------------------------------------
(* Properties *)

\* The arguments that are the value of the one before.
IsValue[k \in 1..MaxArgs] == k > 1 /\ argv[k - 1] \in known /\ ~IsValue[k - 1]

ValuesOf(s) == {k \in 2..Len(argv) : IsValue[k] /\ argv[k - 1] = s}

\* In the end each setting is the last value of its switch, and its default if there is
\* none; a number that is a port arrives as it was typed.
LastValueCounts ==
    next > Len(argv) =>
        \A s \in known :
            IF ValuesOf(s) = {} THEN settings[s] = Default
            ELSE LET arg == argv[Max(ValuesOf(s))]
                 IN IF s \in PortSwitches
                    THEN atoi(arg) \in 0..65535 => settings[s] = <<"port", atoi(arg)>>
                    ELSE settings[s] = <<"text", arg>>
=============================================================================
