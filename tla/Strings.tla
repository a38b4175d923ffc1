------------------------------- MODULE Strings -------------------------------
(***************************************************************************)
(* String, hash16 and staticstr_copy of clib.c.  A String is a length and  *)
(* a pointer into an arena, passed and copied by value: two of them may    *)
(* point to the same bytes.  The arena is the sequence of the blocks that  *)
(* were allocated; a block ends with a 0.  Characters are their codes.     *)
(***************************************************************************)
EXTENDS Integers, SequencesExt

CONSTANTS Names,      \* the variables of type String
          Texts,      \* C strings
          Seps,       \* separators to search for and to split at
          Cap,        \* USHRT_MAX, the largest length of a String
          FieldSize,  \* the size of a field of a Peer
          MaxBlocks   \* bound: allocations

\* What the constants are, assumed where they get values.
StringsAssumption ==
    /\ Cap \in Nat /\ FieldSize \in Nat \ {0} /\ MaxBlocks \in Nat
    /\ \A t \in Texts : Len(t) <= Cap /\ \A i \in DOMAIN t : t[i] # 0

VARIABLES heap,   \* the blocks
          str,    \* name -> [at: index of a block, 0 for NULL; len]
          text,   \* name -> history: what the string was made to say
          cut     \* history: the names whose bytes were trimmed to fewer

vars == <<heap, str, text, cut>>

NUL == 0
Space == {32}

StringNew0 == [at |-> 0, len |-> 0]

BytesOf(s) == IF s.at = 0 THEN <<>> ELSE SubSeq(heap[s.at], 1, s.len)

\* CSTR: up to the first 0.
CSTR(s) ==
    IF s.at = 0 THEN <<>>
    ELSE SubSeq(heap[s.at], 1, SelectInSeq(heap[s.at], LAMBDA c : c = NUL) - 1)

Init ==
    /\ heap = <<>> /\ cut = {}
    /\ str = [x \in Names |-> StringNew0] /\ text = [x \in Names |-> <<>>]

----------------------------------------------------------------------------
(* What changes strings *)

\* x gets a block of its own.
Alloc(x, bytes) ==
    /\ Len(heap) < MaxBlocks
    /\ heap' = Append(heap, bytes \o <<NUL>>)
    /\ str' = [str EXCEPT ![x] = [at |-> Len(heap) + 1, len |-> Len(bytes)]]

\* StringNew, StringAssign.
StringAssign(x, t) ==
    /\ Alloc(x, t)
    /\ text' = [text EXCEPT ![x] = t] /\ cut' = cut \ {x}

\* Copies the bytes, however many of them are 0.
StringDup(x, y) ==
    /\ Alloc(x, BytesOf(str[y]))
    /\ text' = [text EXCEPT ![x] = text[y]]
    /\ cut' = IF y \in cut THEN cut \cup {x} ELSE cut \ {x}

\* x = y: both point to the same bytes.
Copy(x, y) ==
    /\ str' = [str EXCEPT ![x] = str[y]] /\ text' = [text EXCEPT ![x] = text[y]]
    /\ cut' = IF y \in cut THEN cut \cup {x} ELSE cut \ {x}
    /\ UNCHANGED heap

\* The check for overflow.
TooLong(s, t) == s.len + Len(t) + 1 > Cap

\* Mutant: the terminating 0 is copied, and the new bytes follow it.
JoinedWithNUL(s, t) == Append(BytesOf(s), NUL) \o t

\* The bytes of a string with t behind them.
Joined(s, t) == BytesOf(s) \o t

\* A string that would get too long stays.
StringAppend(x, t) ==
    IF TooLong(str[x], t) THEN UNCHANGED vars
    ELSE /\ Alloc(x, Joined(str[x], t))
         /\ text' = [text EXCEPT ![x] = @ \o t] /\ UNCHANGED cut

\* From the first character that is no space to the last.
Inner(b) ==
    LET inner == {i \in DOMAIN b : b[i] \notin Space}
    IN IF inner = {} THEN <<>> ELSE SubSeq(b, Min(inner), Max(inner))

Trimmed(b) == Inner(b) \o [i \in 1..(Len(b) - Len(Inner(b))) |-> NUL]

\* The String comes by value: its bytes are trimmed in place, also for the others that
\* point to them, and its length, set in the copy, is lost.
StringTrim(x) ==
    LET b == BytesOf(str[x])
        sharing == {y \in Names : str[y].at = str[x].at}
    IN IF b = <<>> THEN UNCHANGED vars
       ELSE /\ heap' = [heap EXCEPT ![str[x].at] = Trimmed(b) \o <<NUL>>]
            /\ text' = [y \in Names |-> IF y \in sharing THEN Inner(text[y]) ELSE text[y]]
            /\ cut' = IF Inner(b) = b THEN cut ELSE cut \cup sharing
            /\ UNCHANGED str

Next ==
    \E x \in Names :
        \/ \E t \in Texts : StringAssign(x, t) \/ StringAppend(x, t)
        \/ \E y \in Names \ {x} : StringDup(x, y) \/ Copy(x, y)
        \/ StringTrim(x)

Spec == Init /\ [][Next]_vars

----------------------------------------------------------------------------
(* What reads strings *)

\* The first place from start on, counted from 0, where sep stands, or -1; an empty
\* one stands nowhere.
StringSearch(b, start, sep) ==
    LET hits == {i \in start..(Len(b) - Len(sep)) : SubSeq(b, i + 1, i + Len(sep)) = sep}
    IN IF sep = <<>> \/ hits = {} THEN -1 ELSE Min(hits)

\* Mutant: the search goes on one character after the separator's first.
BehindFirst(i, sep) == i + 1

\* Where the next token begins.
Behind(i, sep) == i + Len(sep)

StringSplit(b, sep) ==
    LET From[i \in 0..Len(b)] ==
            LET hit == StringSearch(b, i, sep)
            IN IF hit = -1 THEN <<SubSeq(b, i + 1, Len(b))>>
               ELSE <<SubSeq(b, i + 1, hit)>> \o From[Behind(hit, sep)]
    IN From[0]

\* The remainder of C, which takes the sign of x.
Remainder(x, n) == IF x >= 0 THEN x % n ELSE -((-x) % n)

\* Mutant: one less.
SizeLess(size) == IF size = 0 THEN 65535 ELSE size

\* 0 stands for all values of a u16.
Size(size) == IF size = 0 THEN 65536 ELSE size

hash16(b, size) == FoldLeft(LAMBDA h, c : Remainder(h * 31 + c, Size(size)) % 65536, 0, b)

\* Mutant: no room is left for the 0.
FittingAll(b, size) == IF Len(b) > size THEN size ELSE Len(b)

\* Of so many bytes, those that fit into size bytes with a 0.
Fitting(b, size) == IF Len(b) > size - 1 THEN size - 1 ELSE Len(b)

\* Memory after a copy into its first size bytes.
staticstr_copy(mem, size, b) ==
    LET n == Fitting(b, size)
    IN [i \in DOMAIN mem |-> IF i <= n THEN b[i] ELSE IF i = n + 1 THEN NUL ELSE mem[i]]

----------------------------------------------------------------------------
(* Properties *)

\* A string that was not shortened says, by its length and up to its 0, what was put
\* into it, whatever was done to the strings it was copied from or shares bytes with.
ReadsAsText ==
    \A x \in Names \ cut : BytesOf(str[x]) = text[x] /\ CSTR(str[x]) = text[x]

JoinedBy(toks, sep) == FoldLeft(LAMBDA s, t : s \o sep \o t, Head(toks), Tail(toks))

\* The tokens joined by the separator are the string again, and none contains it.
SplitLosesNothing ==
    \A x \in Names, sep \in Seps :
        LET toks == StringSplit(BytesOf(str[x]), sep)
        IN /\ JoinedBy(toks, sep) = BytesOf(str[x])
           /\ \A i \in DOMAIN toks : StringSearch(toks[i], 0, sep) = -1

Polynomial(b) ==
    LET n == Len(b) IN FoldLeft(LAMBDA s, i : s + b[i] * 31^(n - i), 0, [i \in 1..n |-> i])

\* On ASCII the hash is the polynomial with factor 31, modulo the size: cutting every
\* step to a u16 loses nothing, and the hash is an index below the size.
HashIsPolynomial ==
    \A x \in Names, size \in {0, 7, 1000} :
        LET b == CSTR(str[x])
        IN (Len(b) <= 4 /\ \A i \in DOMAIN b : b[i] > 0)
              => hash16(b, size) = Polynomial(b) % (IF size = 0 THEN 2^16 ELSE size)

\* A text copied into a field of a Peer, whatever its length, ends within the field,
\* and the field behind it stays.
FieldHoldsPrefix ==
    \A x \in Names :
        LET b == CSTR(str[x])
            mem == staticstr_copy([i \in 1..(2 * FieldSize) |-> 99], FieldSize, b)
            n == SelectInSeq(mem, LAMBDA c : c = NUL) - 1
        IN /\ n < FieldSize /\ SubSeq(mem, 1, n) = SubSeq(b, 1, n)
           /\ (n < FieldSize - 1 => n = Len(b))
           /\ \A i \in (FieldSize + 1)..(2 * FieldSize) : mem[i] = 99

\* What clib.c makes of a text, joining, splitting, hashing or copying it, is what a
\* reader of its functions' names takes it to be.
TextsAreRight == ReadsAsText /\ SplitLosesNothing /\ HashIsPolynomial /\ FieldHoldsPrefix
=============================================================================
