------------------------------ MODULE Collections ------------------------------
(***************************************************************************)
(* Abstract: what an Array, a Buffer and a Map of clib.c promise: they are *)
(* a sequence, a sequence of bytes and a function from keys to values,     *)
(* independent of each other.  The process may be aborted for want of      *)
(* memory, and the three may be made anew together.                        *)
(***************************************************************************)
EXTENDS Integers, SequencesExt

CONSTANTS Items, Bytes, Vals, Keys

VARIABLES seq, bytes, assoc, aborted

vars == <<seq, bytes, assoc, aborted>>

Empty == [k \in {} |-> 0]

Init == seq = <<>> /\ bytes = <<>> /\ assoc = Empty /\ aborted = FALSE

AppendItem(v) ==
    ~aborted /\ seq' = Append(seq, v) /\ UNCHANGED <<bytes, assoc, aborted>>

\* Indices count from 0.
RemoveItem(i) ==
    ~aborted /\ i < Len(seq) /\ seq' = RemoveAt(seq, i + 1) /\ UNCHANGED <<bytes, assoc, aborted>>

ReplaceItem(i, v) ==
    /\ ~aborted /\ i < Len(seq) /\ seq' = [seq EXCEPT ![i + 1] = v]
    /\ UNCHANGED <<bytes, assoc, aborted>>

AppendBytes(bs) ==
    ~aborted /\ bytes' = bytes \o bs /\ UNCHANGED <<seq, assoc, aborted>>

ShiftBytes(n) ==
    ~aborted /\ bytes' = SubSeq(bytes, n + 1, Len(bytes)) /\ UNCHANGED <<seq, assoc, aborted>>

SetKey(k, v) ==
    /\ ~aborted
    /\ assoc' = [j \in DOMAIN assoc \cup {k} |-> IF j = k THEN v ELSE assoc[j]]
    /\ UNCHANGED <<seq, bytes, aborted>>

RemoveKey(k) ==
    /\ ~aborted /\ assoc' = [j \in DOMAIN assoc \ {k} |-> assoc[j]]
    /\ UNCHANGED <<seq, bytes, aborted>>

ClearItems == ~aborted /\ seq' = <<>> /\ UNCHANGED <<bytes, assoc, aborted>>
ClearBytes == ~aborted /\ bytes' = <<>> /\ UNCHANGED <<seq, assoc, aborted>>
ClearKeys == ~aborted /\ assoc' = Empty /\ UNCHANGED <<seq, bytes, aborted>>

Abort == ~aborted /\ aborted' = TRUE /\ UNCHANGED <<seq, bytes, assoc>>

Renew == ~aborted /\ seq' = <<>> /\ bytes' = <<>> /\ assoc' = Empty /\ UNCHANGED aborted

Next ==
    \/ \E v \in Items : AppendItem(v)
    \/ \E i \in 0..(Len(seq) - 1) : RemoveItem(i) \/ \E v \in Items : ReplaceItem(i, v)
    \/ \E b \in Bytes, n \in 1..3 : AppendBytes([k \in 1..n |-> b])
    \/ \E n \in 1..4 : ShiftBytes(n)
    \/ \E k \in Keys : RemoveKey(k) \/ \E v \in Vals : SetKey(k, v)
    \/ ClearItems \/ ClearBytes \/ ClearKeys \/ Abort \/ Renew

Spec == Init /\ [][Next]_vars
=============================================================================
