\* Two machines, three starts of a node, so that one of them starts again, also while its
\* port is not free yet, and a run of sender.c.
CONSTANTS
    Machines = {m1, m2}
    NameOf <- MCNameOf
    MaxStarts = 3
    MaxSenders = 1
SPECIFICATION Spec
SYMMETRY MachineSymmetry
INVARIANTS NodesStayStrangers
PROPERTY ListenerNeverAnswers
CHECK_DEADLOCK FALSE
