------------------------------- MODULE Containers -------------------------------
(***************************************************************************)
(* An Array, a Buffer and a Map in one Arena (clib.c), as the ctxs of the  *)
(* tracker and their buffers are.  The arena hands out its memory once, in *)
(* order; a container that is full moves to a block of twice its size, and *)
(* leaves its old one behind.  A word of the model is an item, a byte, a   *)
(* pointer or a key with its final 0.  Addresses count from 0.             *)
(***************************************************************************)
EXTENDS Integers, SequencesExt

CONSTANTS Items,      \* of the Array
          Bytes,      \* of the Buffer
          Vals,       \* of the Map
          Keys,       \* keys, none of them an item, a byte or a value
          Junk,       \* what memory holds that was not written, or cleared
          ArenaCap,   \* words of the arena
          InitCap,    \* the capacity containers begin with
          CapLimit    \* the number of values of a u16: capacities of Array and Map

\* What the constants are, assumed where they get values.
ContainersAssumption ==
    /\ ArenaCap \in Nat /\ InitCap \in Nat \ {0} /\ CapLimit \in Nat
    /\ 2 * InitCap < CapLimit /\ 4 * InitCap <= ArenaCap

VARIABLES mem,       \* the words of the arena
          pos,       \* how much of it was handed out
          arr, buf, map,  \* the three: [base, len, cap]
          aborted

vars == <<mem, pos, arr, buf, map, aborted>>

Block(base, cap) == [base |-> base, len |-> 0, cap |-> cap]

NewArena == [a \in 0..(ArenaCap - 1) |-> Junk]

\* A Map counts a pair as two.
NewArray == Block(0, InitCap)
NewBuffer == Block(InitCap, InitCap)
NewMap == Block(2 * InitCap, 2 * InitCap)

Init ==
    /\ mem = NewArena /\ pos = 4 * InitCap
    /\ arr = NewArray /\ buf = NewBuffer /\ map = NewMap
    /\ aborted = FALSE

----------------------------------------------------------------------------
(* Arena *)

\* ArenaAlloc aborts otherwise.
Fits(size) == pos + size <= ArenaCap

Abort == aborted' = TRUE /\ UNCHANGED <<mem, pos, arr, buf, map>>

\* Memory after n words from a function of their offset were written at a.
Write(m, a, n, word(_)) == [x \in DOMAIN m |-> IF x \in a..(a + n - 1) THEN word(x - a) ELSE m[x]]

\* A container that moves to a new block of cap words ...
Grown(c, cap) == [c EXCEPT !.base = pos, !.cap = cap]

\* ... and memory after ArenaRealloc has copied its words.
Copied(c) == Write(mem, pos, c.cap, LAMBDA k : mem[c.base + k])

----------------------------------------------------------------------------
(* Array *)

Put(c, m, i, v) == [m EXCEPT ![c.base + i] = v]

\* The capacity after doubling is a u16.
Doubled(c) == (2 * c.cap) % CapLimit

ArrayAppend(v) ==
    IF arr.len < arr.cap
    THEN /\ mem' = Put(arr, mem, arr.len, v) /\ arr' = [arr EXCEPT !.len = @ + 1]
         /\ UNCHANGED <<pos, buf, map, aborted>>
    ELSE IF ~Fits(2 * arr.cap) \/ Doubled(arr) <= arr.len THEN Abort
    ELSE /\ LET moved == Grown(arr, Doubled(arr))
            IN /\ mem' = Put(moved, Copied(arr), arr.len, v)
               /\ arr' = [moved EXCEPT !.len = @ + 1]
         /\ pos' = pos + 2 * arr.cap
         /\ UNCHANGED <<buf, map, aborted>>

\* Where the word k comes from when the word i is removed.
From(i, k) == IF k >= i THEN k + 1 ELSE k

\* The items behind it move down, with one from behind the last, and the last is
\* cleared; removing from a sequence of one only clears.
ArrayRemove(i) ==
    /\ i < arr.len
    /\ mem' = [x \in DOMAIN mem |->
                 LET k == x - arr.base
                 IN IF k \in 0..(arr.len - 2) THEN mem[arr.base + From(i, k)]
                    ELSE IF k = arr.len - 1 THEN Junk
                    ELSE mem[x]]
    /\ arr' = [arr EXCEPT !.len = @ - 1]
    /\ UNCHANGED <<pos, buf, map, aborted>>

ArrayReplace(i, v) ==
    /\ i < arr.len
    /\ mem' = Put(arr, mem, i, v)
    /\ UNCHANGED <<pos, arr, buf, map, aborted>>

ArrayClear ==
    /\ mem' = Write(mem, arr.base, arr.len, LAMBDA k : Junk)
    /\ arr' = [arr EXCEPT !.len = 0]
    /\ UNCHANGED <<pos, buf, map, aborted>>

----------------------------------------------------------------------------
(* Buffer *)

\* The least doubling of the capacity that takes n more bytes.
Room(n) == Min({c \in {buf.cap * 2^k : k \in 0..3} : n <= c - buf.len})

BufferAppend(b, n) ==
    LET cap == Room(n)
        word(k) == b
    IN IF cap = buf.cap
       THEN /\ mem' = Write(mem, buf.base + buf.len, n, word)
            /\ buf' = [buf EXCEPT !.len = @ + n]
            /\ UNCHANGED <<pos, arr, map, aborted>>
       ELSE IF ~Fits(cap) THEN Abort
       ELSE /\ mem' = Write(Copied(buf), pos + buf.len, n, word)
            /\ buf' = [Grown(buf, cap) EXCEPT !.len = @ + n]
            /\ pos' = pos + cap
            /\ UNCHANGED <<arr, map, aborted>>

\* Of n bytes to remove, those that are there.
Shifted(n) == Min({n, buf.len})

\* The bytes that stay move down, and the rest of the block is cleared.
BufferShift(n) ==
    /\ LET gone == Shifted(n)
       IN /\ mem' = Write(mem, buf.base, buf.cap,
                          LAMBDA k : IF k < buf.len - gone THEN mem[buf.base + k + gone] ELSE Junk)
          /\ buf' = [buf EXCEPT !.len = @ - gone]
    /\ UNCHANGED <<pos, arr, map, aborted>>

BufferClear ==
    /\ mem' = Write(mem, buf.base, buf.len, LAMBDA k : Junk)
    /\ buf' = [buf EXCEPT !.len = 0]
    /\ UNCHANGED <<pos, arr, map, aborted>>

----------------------------------------------------------------------------
(* Map: pointer to a key, value, pointer to a key, ... *)

KeyAt(i) == mem[mem[map.base + i]]
Pairs == {i \in 0..(map.len - 1) : i % 2 = 0}
PairsOf(k) == {i \in Pairs : KeyAt(i) = k}

\* MapGet.
MapGet(k) == mem[map.base + Min(PairsOf(k)) + 1]

\* A new key is pushed behind the block.  Growth counts a u16 as in Array.
MapSet(k, v) ==
    LET full == map.len = map.cap
        size == IF full THEN 2 * map.cap ELSE 0
        at == pos + size
        moved == IF full THEN Grown(map, Doubled(map)) ELSE map
        m == IF full THEN Copied(map) ELSE mem
    IN IF PairsOf(k) # {}
       THEN /\ mem' = Put(map, mem, Min(PairsOf(k)) + 1, v)
            /\ UNCHANGED <<pos, arr, buf, map, aborted>>
       ELSE IF ~Fits(size + 1) \/ moved.cap <= map.len THEN Abort
       ELSE /\ mem' = Put(moved, Put(moved, [m EXCEPT ![at] = k], map.len, at), map.len + 1, v)
            /\ map' = [moved EXCEPT !.len = @ + 2]
            /\ pos' = at + 1
            /\ UNCHANGED <<arr, buf, aborted>>

\* Mutant: the key of the last pair is moved without its value.
MoveLastKey(m, i) == Put(map, m, i, m[map.base + map.len - 2])

\* The last pair takes the place of the one at i.
MoveLast(m, i) ==
    Put(map, Put(map, m, i, m[map.base + map.len - 2]), i + 1, m[map.base + map.len - 1])

MapRemove(k) ==
    /\ PairsOf(k) # {}
    /\ mem' = Write(MoveLast(mem, Min(PairsOf(k))), map.base + map.len - 2, 2, LAMBDA j : Junk)
    /\ map' = [map EXCEPT !.len = @ - 2]
    /\ UNCHANGED <<pos, arr, buf, aborted>>

MapClear ==
    /\ mem' = Write(mem, map.base, map.len, LAMBDA j : Junk)
    /\ map' = [map EXCEPT !.len = 0]
    /\ UNCHANGED <<pos, arr, buf, aborted>>

----------------------------------------------------------------------------
\* ArenaReset, then the containers are made anew.  What memory held counts as Junk, as
\* nothing written before is meant to be read again.
Reset ==
    /\ mem' = NewArena /\ pos' = 4 * InitCap
    /\ arr' = NewArray /\ buf' = NewBuffer /\ map' = NewMap
    /\ UNCHANGED aborted

Next ==
    /\ ~aborted
    /\ \/ \E v \in Items : ArrayAppend(v)
       \/ \E i \in 0..(ArenaCap - 1) : ArrayRemove(i) \/ \E v \in Items : ArrayReplace(i, v)
       \/ \E b \in Bytes, n \in 1..3 : BufferAppend(b, n)
       \/ \E n \in 1..4 : BufferShift(n)
       \/ \E k \in Keys : MapRemove(k) \/ \E v \in Vals : MapSet(k, v)
       \/ ArrayClear \/ BufferClear \/ MapClear \/ Reset

Spec == Init /\ [][Next]_vars

----------------------------------------------------------------------------
(* Properties *)

Contents(c) == [k \in 1..c.len |-> mem[c.base + k - 1]]

Abstract == INSTANCE Collections WITH
    seq <- Contents(arr), bytes <- Contents(buf),
    assoc <- [k \in {KeyAt(i) : i \in Pairs} |-> MapGet(k)], aborted <- aborted

\* The three containers in one arena are a sequence, bytes and a function, and what is
\* done to one changes none of the others.
ImplementsCollections == Abstract!Spec
=============================================================================
