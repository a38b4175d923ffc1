--------------------------- MODULE ListenerProofs ---------------------------
(***************************************************************************)
(* Proofs about the listener of a client, for any base, any streams on any *)
(* number of connections and any number of descriptors: whatever is cut    *)
(* into whatever reads, handle_msg gets the messages that were sent.       *)
(***************************************************************************)
EXTENDS Listener, SequenceTheorems, FiniteSetTheorems, WellFoundedInduction, TLAPS

----------------------------------------------------------------------------
(* Sequences *)

\* A set of numbers that is not empty has a least one.
LEMMA LeastOf ==
    ASSUME NEW S \in SUBSET Nat, S # {} PROVE Min(S) \in S /\ \A k \in S : Min(S) <= k
<1> DEFINE R == {ss \in Nat \X Nat : ss[1] < ss[2]}
<1>1. IsWellFoundedOn(R, Nat)
  BY NatLessThanWellFounded DEF OpToRel
<1>2. PICK x \in S : \A y \in S : ~ (<<y, x>> \in R)
  <2> HIDE DEF R
  <2> QED BY <1>1, WFMin, Zenon
<1>3. \A y \in S : x <= y
  <2> TAKE y \in S
  <2>1. x \in Nat /\ y \in Nat /\ ~ (<<y, x>> \in R)
    BY <1>2
  <2> QED BY <2>1
<1> QED BY <1>3 DEF Min

\* A property of the numbers up to n that fails somewhere fails first somewhere.
LEMMA FirstFailure ==
    ASSUME NEW n \in Nat, NEW S \in SUBSET (0..n), S # {}
    PROVE  \E m \in S : \A k \in 0..(m - 1) : k \notin S
<1>1. S \in SUBSET Nat
  OBVIOUS
<1>2. Min(S) \in S /\ \A k \in S : Min(S) <= k
  BY <1>1, LeastOf
<1> DEFINE m == Min(S)
<1>3. m \in S /\ m \in Nat /\ \A k \in S : m <= k
  BY <1>1, <1>2
<1> HIDE DEF m
<1>4. \A k \in 0..(m - 1) : k \notin S
  BY <1>3
<1> QED BY <1>3, <1>4

LEMMA SliceShape ==
    ASSUME NEW S, NEW s \in Seq(S), NEW a \in 1..(Len(s) + 1), NEW b \in (a - 1)..Len(s)
    PROVE  /\ SubSeq(s, a, b) \in Seq(S) /\ Len(SubSeq(s, a, b)) = b - a + 1
           /\ \A i \in 1..(b - a + 1) : SubSeq(s, a, b)[i] = s[a + i - 1]
<1>1. a \in Int /\ b \in Int /\ \A i \in a..b : s[i] \in S
  OBVIOUS
<1>2. /\ SubSeq(s, a, b) \in Seq(S)
      /\ Len(SubSeq(s, a, b)) = IF a <= b THEN b - a + 1 ELSE 0
      /\ \A i \in 1..b - a + 1 : SubSeq(s, a, b)[i] = s[a + i - 1]
  BY <1>1, SubSeqProperties
<1> QED BY <1>1, <1>2

LEMMA SliceOfSlice ==
    ASSUME NEW S, NEW s \in Seq(S), NEW a \in 1..(Len(s) + 1), NEW b \in (a - 1)..Len(s),
           NEW m \in 1..(b - a + 2), NEW n \in (m - 1)..(b - a + 1)
    PROVE  SubSeq(SubSeq(s, a, b), m, n) = SubSeq(s, a + m - 1, a + n - 1)
<1> DEFINE t == SubSeq(s, a, b)
<1>1. t \in Seq(S) /\ Len(t) = b - a + 1 /\ \A i \in 1..(b - a + 1) : t[i] = s[a + i - 1]
  BY SliceShape
<1> HIDE DEF t
<1>2. /\ a + m - 1 \in 1..(Len(s) + 1) /\ a + n - 1 \in (a + m - 1 - 1)..Len(s)
      /\ m \in 1..(Len(t) + 1) /\ n \in (m - 1)..Len(t)
  BY <1>1
<1>3. /\ SubSeq(t, m, n) \in Seq(S) /\ Len(SubSeq(t, m, n)) = n - m + 1
      /\ \A i \in 1..(n - m + 1) : SubSeq(t, m, n)[i] = t[m + i - 1]
  BY <1>1, <1>2, SliceShape
<1> DEFINE u == a + m - 1
           v == a + n - 1
<1>4. u \in 1..(Len(s) + 1) /\ v \in (u - 1)..Len(s) /\ v - u + 1 = n - m + 1
  BY <1>2
<1>5. \A i \in 1..(n - m + 1) : m + i - 1 \in 1..(b - a + 1) /\ a + (m + i - 1) - 1 = u + i - 1
  OBVIOUS
<1> HIDE DEF u, v
<1>6. /\ SubSeq(s, u, v) \in Seq(S) /\ Len(SubSeq(s, u, v)) = n - m + 1
      /\ \A i \in 1..(n - m + 1) : SubSeq(s, u, v)[i] = s[u + i - 1]
  <2>1. /\ SubSeq(s, u, v) \in Seq(S) /\ Len(SubSeq(s, u, v)) = v - u + 1
        /\ \A i \in 1..(v - u + 1) : SubSeq(s, u, v)[i] = s[u + i - 1]
    BY <1>4, SliceShape
  <2> QED BY <1>4, <2>1
<1>7. \A i \in 1..(n - m + 1) : SubSeq(t, m, n)[i] = SubSeq(s, u, v)[i]
  <2> TAKE i \in 1..(n - m + 1)
  <2>1. SubSeq(t, m, n)[i] = t[m + i - 1]
    BY <1>3
  <2>2. t[m + i - 1] = s[a + (m + i - 1) - 1]
    BY <1>1, <1>5
  <2>3. SubSeq(s, u, v)[i] = s[u + i - 1]
    BY <1>6
  <2> QED BY <1>5, <2>1, <2>2, <2>3
<1>8. SubSeq(t, m, n) = SubSeq(s, u, v)
  BY <1>3, <1>6, <1>7, SeqEqual
<1> QED BY <1>8 DEF t, u, v

----------------------------------------------------------------------------
(* The messages of a stream *)

\* The length that a message at p would have.
HeadAt(t, p) == U16(SubSeq(t, p + 1, p + 2))

LEMMA HeadShape ==
    ASSUME NEW t \in Seq(Byte), NEW p \in Nat, p + 2 <= Len(t)
    PROVE  HeadAt(t, p) \in Nat /\ HeadAt(t, p) = t[p + 1] * Base + t[p + 2]
<1>1. p + 1 \in 1..(Len(t) + 1) /\ p + 2 \in ((p + 1) - 1)..Len(t)
  OBVIOUS
<1>2. \A i \in 1..((p + 2) - (p + 1) + 1) : SubSeq(t, p + 1, p + 2)[i] = t[(p + 1) + i - 1]
  BY <1>1, SliceShape
<1>3. SubSeq(t, p + 1, p + 2)[1] = t[p + 1] /\ SubSeq(t, p + 1, p + 2)[2] = t[p + 2]
  <2>1. 1 \in 1..((p + 2) - (p + 1) + 1) /\ 2 \in 1..((p + 2) - (p + 1) + 1)
    OBVIOUS
  <2>2. (p + 1) + 1 - 1 = p + 1 /\ (p + 1) + 2 - 1 = p + 2
    OBVIOUS
  <2> QED BY <1>2, <2>1, <2>2
<1>4. t[p + 1] \in Byte /\ t[p + 2] \in Byte
  BY <1>1
<1>5. t[p + 1] \in Nat /\ t[p + 2] \in Nat /\ Base \in Nat
  BY <1>4, BaseAssumption DEF Byte
<1>6. t[p + 1] * Base \in Nat
  BY <1>5
<1> QED BY <1>3, <1>5, <1>6 DEF HeadAt, U16

\* The length is the same in what has arrived so far.
LEMMA HeadOfPrefix ==
    ASSUME NEW s \in Seq(Byte), NEW r \in 0..Len(s), NEW p \in Nat, p + 2 <= r
    PROVE  HeadAt(SubSeq(s, 1, r), p) = HeadAt(s, p)
<1>1. 1 \in 1..(Len(s) + 1) /\ r \in (1 - 1)..Len(s)
  OBVIOUS
<1>2. p + 1 \in 1..(r - 1 + 2) /\ p + 2 \in ((p + 1) - 1)..(r - 1 + 1)
  OBVIOUS
<1>3. SubSeq(SubSeq(s, 1, r), p + 1, p + 2) = SubSeq(s, 1 + (p + 1) - 1, 1 + (p + 2) - 1)
  BY <1>1, <1>2, SliceOfSlice
<1>4. 1 + (p + 1) - 1 = p + 1 /\ 1 + (p + 2) - 1 = p + 2
  OBVIOUS
<1> QED BY <1>3, <1>4 DEF HeadAt

\* What Bodies finds from p on, if f has what it finds further on.
Found(f, t, p) ==
    IF p + 2 > Len(t) THEN <<>>
    ELSE IF HeadAt(t, p) = 0 \/ p + 2 + HeadAt(t, p) > Len(t) THEN <<>>
    ELSE <<SubSeq(t, p + 3, p + 2 + HeadAt(t, p))>> \o f[p + 2 + HeadAt(t, p)]

\* The recursion of Bodies is well founded: it goes on further behind.
LEMMA FoundExists ==
    ASSUME NEW t \in Seq(Byte)
    PROVE  \E f : f = [p \in 0..Len(t) |-> Found(f, t, p)]
<1> DEFINE From(f, d) == /\ f = [p \in 0..Len(t) |-> f[p]]
                         /\ \A p \in 0..Len(t) : p >= Len(t) - d => f[p] = Found(f, t, p)
           Bad == {d \in 0..Len(t) : ~ \E f : From(f, d)}
<1>0. Len(t) \in Nat
  OBVIOUS
<1>1. Bad = {}
  <2> SUFFICES ASSUME Bad # {} PROVE FALSE
    OBVIOUS
  <2>1. PICK d \in Bad : \A k \in 0..(d - 1) : k \notin Bad
    <3>1. Bad \in SUBSET (0..Len(t))
      OBVIOUS
    <3> HIDE DEF Bad
    <3> QED BY <1>0, <3>1, FirstFailure
  <2>2. d \in 0..Len(t) /\ d \in Nat /\ ~ \E f : From(f, d)
    BY <1>0, <2>1
  <2>3. \E f : /\ f = [p \in 0..Len(t) |-> f[p]]
               /\ \A p \in 0..Len(t) : p > Len(t) - d => f[p] = Found(f, t, p)
    <3>1. CASE d = 0
      <4>1. \A p \in 0..Len(t) : ~(p > Len(t) - d)
        BY <1>0, <3>1
      <4>2. [p \in 0..Len(t) |-> 0] = [p \in 0..Len(t) |-> [q \in 0..Len(t) |-> 0][p]]
        OBVIOUS
      <4> QED BY <4>1, <4>2
    <3>2. CASE d # 0
      <4>1. d - 1 \in 0..(d - 1) /\ d - 1 \in 0..Len(t)
        BY <1>0, <2>2, <3>2
      <4>2. PICK f : From(f, d - 1)
        BY <2>1, <4>1
      <4>3. \A p \in 0..Len(t) : p > Len(t) - d => p >= Len(t) - (d - 1)
        BY <1>0, <2>2
      <4> QED BY <4>2, <4>3
    <3> QED BY <3>1, <3>2
  <2>4. PICK f : /\ f = [p \in 0..Len(t) |-> f[p]]
                 /\ \A p \in 0..Len(t) : p > Len(t) - d => f[p] = Found(f, t, p)
    BY <2>3
  <2> DEFINE at == Len(t) - d
             g == [p \in 0..Len(t) |-> IF p = at THEN Found(f, t, at) ELSE f[p]]
  <2>5. at \in 0..Len(t)
    BY <1>0, <2>2
  <2>6. \A p \in 0..Len(t) : p >= at => Found(g, t, p) = Found(f, t, p)
    <3> SUFFICES ASSUME NEW p \in 0..Len(t), p >= at
                 PROVE  Found(g, t, p) = Found(f, t, p)
      OBVIOUS
    <3>1. CASE p + 2 > Len(t)
      BY <3>1 DEF Found
    <3>2. CASE p + 2 <= Len(t)
      <4>1. HeadAt(t, p) \in Nat
        BY <1>0, <3>2, HeadShape
      <4>2. CASE p + 2 + HeadAt(t, p) > Len(t)
        BY <3>2, <4>2 DEF Found
      <4>3. CASE p + 2 + HeadAt(t, p) <= Len(t)
        <5>1. p + 2 + HeadAt(t, p) \in 0..Len(t) /\ p + 2 + HeadAt(t, p) # at
          BY <1>0, <2>5, <4>1, <4>3
        <5>2. g[p + 2 + HeadAt(t, p)] = f[p + 2 + HeadAt(t, p)]
          BY <5>1
        <5> HIDE DEF g
        <5> QED BY <1>0, <3>2, <4>1, <4>3, <5>2 DEF Found
      <4> QED BY <1>0, <4>1, <4>2, <4>3
    <3> QED BY <1>0, <3>1, <3>2
  <2>7. g = [p \in 0..Len(t) |-> g[p]]
    OBVIOUS
  <2>8. \A p \in 0..Len(t) : p >= at => g[p] = Found(g, t, p)
    <3> TAKE p \in 0..Len(t)
    <3> HAVE p >= at
    <3>1. g[p] = Found(f, t, p)
      <4>1. CASE p = at
        BY <4>1
      <4>2. CASE p # at
        <5>1. p > Len(t) - d
          BY <1>0, <2>2, <4>2
        <5>2. f[p] = Found(f, t, p)
          BY <2>4, <5>1
        <5> QED BY <4>2, <5>2
      <4> QED BY <4>1, <4>2
    <3> QED BY <2>6, <3>1
  <2>9. From(g, d)
    <3> HIDE DEF g
    <3> QED BY <2>7, <2>8
  <2> QED BY <2>2, <2>9
<1>2. PICK f : From(f, Len(t))
  BY <1>0, <1>1
<1>3. \A p \in 0..Len(t) : f[p] = Found(f, t, p)
  BY <1>0, <1>2
<1>4. [p \in 0..Len(t) |-> f[p]] = [p \in 0..Len(t) |-> Found(f, t, p)]
  BY <1>3
<1> QED BY <1>2, <1>4

\* h are the messages in the first p bytes of the stream s, which end there.
Parsed(s, h, p) ==
    \E o \in [0..Len(h) -> 0..p] :
       /\ o[0] = 0 /\ o[Len(h)] = p
       /\ \A k \in 1..Len(h) :
             /\ o[k - 1] + 2 <= o[k] /\ HeadAt(s, o[k - 1]) # 0
             /\ o[k] = o[k - 1] + 2 + HeadAt(s, o[k - 1])
             /\ h[k] = SubSeq(s, o[k - 1] + 3, o[k])

\* What Bodies yields from each p on.
LEMMA BodiesFound ==
    ASSUME NEW t \in Seq(Byte)
    PROVE  \E f \in [0..Len(t) -> Seq(Seq(Byte))] :
              /\ Bodies(t) = f[0]
              /\ \A p \in 0..Len(t) : f[p] = Found(f, t, p)
<1> DEFINE f == CHOOSE g : g = [p \in 0..Len(t) |-> Found(g, t, p)]
           Bad == {d \in 0..Len(t) : f[Len(t) - d] \notin Seq(Seq(Byte))}
<1>0. Len(t) \in Nat
  OBVIOUS
<1>1. f = [p \in 0..Len(t) |-> Found(f, t, p)]
  BY FoundExists
<1>2. Bodies(t) = f[0]
  BY DEF Bodies, Found, HeadAt
<1> HIDE DEF f
<1>3. \A p \in 0..Len(t) : f[p] = Found(f, t, p)
  BY <1>1
<1>4. Bad = {}
  <2> SUFFICES ASSUME Bad # {} PROVE FALSE
    OBVIOUS
  <2>1. PICK d \in Bad : \A k \in 0..(d - 1) : k \notin Bad
    <3>1. Bad \in SUBSET (0..Len(t))
      OBVIOUS
    <3> HIDE DEF Bad
    <3> QED BY <1>0, <3>1, FirstFailure
  <2> DEFINE p == Len(t) - d
             n == HeadAt(t, p)
  <2>2. d \in 0..Len(t) /\ f[p] \notin Seq(Seq(Byte)) /\ p \in 0..Len(t)
    BY <1>0, <2>1
  <2> HIDE DEF p
  <2>3. f[p] = Found(f, t, p)
    BY <1>3, <2>2
  <2>4. p + 2 <= Len(t) /\ n # 0 /\ p + 2 + n <= Len(t) /\ n \in Nat
    <3>1. f[p] # <<>>
      <4>1. <<>> \in Seq(Seq(Byte))
        OBVIOUS
      <4> QED BY <2>2, <4>1
    <3>2. ~(p + 2 > Len(t)) /\ ~(n = 0 \/ p + 2 + n > Len(t))
      BY <2>3, <3>1 DEF Found
    <3>3. p + 2 <= Len(t)
      BY <1>0, <2>2, <3>2
    <3>4. n \in Nat
      BY <2>2, <3>3, HeadShape
    <3> QED BY <1>0, <2>2, <3>2, <3>3, <3>4
  <2>5. f[p] = <<SubSeq(t, p + 3, p + 2 + n)>> \o f[p + 2 + n]
    <3>1. p \in Nat /\ Len(t) \in Nat
      BY <1>0, <2>2
    <3>2. ~(p + 2 > Len(t)) /\ ~(n = 0 \/ p + 2 + n > Len(t))
      BY <2>4, <3>1
    <3> QED BY <2>3, <3>2 DEF Found
  <2> HIDE DEF n
  <2>6. SubSeq(t, p + 3, p + 2 + n) \in Seq(Byte)
    <3>1. p + 3 \in 1..(Len(t) + 1) /\ p + 2 + n \in ((p + 3) - 1)..Len(t)
      BY <1>0, <2>2, <2>4
    <3> QED BY <3>1, SliceShape
  <2>7. f[p + 2 + n] \in Seq(Seq(Byte))
    <3>1. d - 2 - n \in 0..(d - 1) /\ d - 2 - n \in 0..Len(t) /\ Len(t) - (d - 2 - n) = p + 2 + n
      BY <1>0, <2>2, <2>4 DEF p
    <3> QED BY <2>1, <3>1
  <2>8. <<SubSeq(t, p + 3, p + 2 + n)>> \in Seq(Seq(Byte))
    BY <2>6
  <2> QED BY <2>2, <2>5, <2>7, <2>8, ConcatProperties
<1>5. \A p \in 0..Len(t) : f[p] \in Seq(Seq(Byte))
  <2> TAKE p \in 0..Len(t)
  <2>1. Len(t) - p \in 0..Len(t) /\ Len(t) - (Len(t) - p) = p
    BY <1>0
  <2> QED BY <1>4, <2>1
<1>6. f \in [0..Len(t) -> Seq(Seq(Byte))]
  BY <1>1, <1>5
<1> QED BY <1>2, <1>3, <1>6

LEMMA ParsedNothing == ASSUME NEW s PROVE Parsed(s, <<>>, 0)
<1> DEFINE o == [k \in 0..0 |-> 0]
<1>1. o \in [0..Len(<<>>) -> 0..0] /\ o[0] = 0 /\ o[Len(<<>>)] = 0
  OBVIOUS
<1> HIDE DEF o
<1> QED BY <1>1 DEF Parsed

\* One more message.
LEMMA ParsedNext ==
    ASSUME NEW s \in Seq(Byte), NEW h \in Seq(Seq(Byte)), NEW p \in Nat, Parsed(s, h, p),
           p + 2 <= Len(s), HeadAt(s, p) # 0, p + 2 + HeadAt(s, p) <= Len(s),
           NEW q, q = p + 2 + HeadAt(s, p)
    PROVE  Parsed(s, Append(h, SubSeq(s, p + 3, q)), q)
<1>1. PICK o \in [0..Len(h) -> 0..p] :
         /\ o[0] = 0 /\ o[Len(h)] = p
         /\ \A k \in 1..Len(h) :
               /\ o[k - 1] + 2 <= o[k] /\ HeadAt(s, o[k - 1]) # 0
               /\ o[k] = o[k - 1] + 2 + HeadAt(s, o[k - 1])
               /\ h[k] = SubSeq(s, o[k - 1] + 3, o[k])
  BY DEF Parsed
<1> DEFINE n == Len(h) + 1
           new == [k \in 0..n |-> IF k = n THEN q ELSE o[k]]
           b == SubSeq(s, p + 3, q)
<1>2. n \in Nat /\ n > 0 /\ q \in Nat /\ p + 2 <= q
  BY HeadShape
<1>3. p + 3 \in 1..(Len(s) + 1) /\ q \in ((p + 3) - 1)..Len(s)
  BY <1>2
<1>4. b \in Seq(Byte)
  BY <1>3, SliceShape
<1> HIDE DEF b
<1>5. /\ Len(Append(h, b)) = n /\ Append(h, b)[n] = b
      /\ \A k \in 1..Len(h) : Append(h, b)[k] = h[k]
  BY <1>4
<1>6. new \in [0..n -> 0..q] /\ new[n] = q /\ \A k \in 0..Len(h) : new[k] = o[k]
  BY <1>2
<1>7. new[0] = 0 /\ new[n - 1] = p
  BY <1>1, <1>2, <1>6
<1> HIDE DEF new
<1>8. ASSUME NEW k \in 1..n
      PROVE  /\ new[k - 1] + 2 <= new[k] /\ HeadAt(s, new[k - 1]) # 0
             /\ new[k] = new[k - 1] + 2 + HeadAt(s, new[k - 1])
             /\ Append(h, b)[k] = SubSeq(s, new[k - 1] + 3, new[k])
  <2>1. CASE k = n
    BY <1>2, <1>5, <1>6, <1>7, <2>1 DEF b
  <2>2. CASE k # n
    <3>1. k \in 1..Len(h) /\ k \in 0..Len(h) /\ k - 1 \in 0..Len(h)
      BY <2>2
    <3>2. new[k] = o[k] /\ new[k - 1] = o[k - 1] /\ Append(h, b)[k] = h[k]
      BY <1>5, <1>6, <3>1
    <3> QED BY <1>1, <3>1, <3>2
  <2> QED BY <2>1, <2>2
<1>9. Parsed(s, Append(h, b), q)
  BY <1>5, <1>6, <1>7, <1>8 DEF Parsed
<1> QED BY <1>9 DEF b

LEMMA Joined ==
    \A x, y, z \in Seq(Seq(Byte)) : (x \o y) \o z = x \o (y \o z)
<1> TAKE x, y, z \in Seq(Seq(Byte))
<1> QED BY ConcatAssociative

\* Of what has arrived, Bodies yields the messages that were parsed and what follows
\* them; nothing follows unless a whole message does.
LEMMA BodiesOfParsed ==
    ASSUME NEW s \in Seq(Byte), NEW h \in Seq(Seq(Byte)), NEW r \in 0..Len(s),
           NEW p \in 0..r, Parsed(s, h, p)
    PROVE  \E rest \in Seq(Seq(Byte)) :
              /\ Bodies(SubSeq(s, 1, r)) = h \o rest
              /\ p + 2 > r => rest = <<>>
              /\ p + 2 <= r /\ (HeadAt(s, p) = 0 \/ p + 2 + HeadAt(s, p) > r) => rest = <<>>
<1> DEFINE t == SubSeq(s, 1, r)
<1>1. t \in Seq(Byte) /\ Len(t) = r
  <2>1. 1 \in 1..(Len(s) + 1) /\ r \in (1 - 1)..Len(s)
    OBVIOUS
  <2>2. t \in Seq(Byte) /\ Len(t) = r - 1 + 1
    BY <2>1, SliceShape
  <2> QED BY <2>2
<1>2. \A q \in Nat : q + 2 <= r => HeadAt(t, q) = HeadAt(s, q)
  BY HeadOfPrefix
<1>3. \A q, e \in Nat : q <= e /\ e <= r => SubSeq(t, q + 1, e) = SubSeq(s, q + 1, e)
  <2> SUFFICES ASSUME NEW q \in Nat, NEW e \in Nat, q <= e, e <= r
               PROVE  SubSeq(t, q + 1, e) = SubSeq(s, q + 1, e)
    OBVIOUS
  <2>1. 1 \in 1..(Len(s) + 1) /\ r \in (1 - 1)..Len(s)
    OBVIOUS
  <2>2. q + 1 \in 1..(r - 1 + 2) /\ e \in ((q + 1) - 1)..(r - 1 + 1)
    OBVIOUS
  <2>3. SubSeq(t, q + 1, e) = SubSeq(s, 1 + (q + 1) - 1, 1 + e - 1)
    BY <2>1, <2>2, SliceOfSlice
  <2>4. 1 + (q + 1) - 1 = q + 1 /\ 1 + e - 1 = e
    OBVIOUS
  <2> QED BY <2>3, <2>4
<1> HIDE DEF t
<1>4. PICK f \in [0..r -> Seq(Seq(Byte))] :
         Bodies(t) = f[0] /\ \A q \in 0..r : f[q] = Found(f, t, q)
  BY <1>1, BodiesFound
<1>5. PICK o \in [0..Len(h) -> 0..p] :
         /\ o[0] = 0 /\ o[Len(h)] = p
         /\ \A k \in 1..Len(h) :
               /\ o[k - 1] + 2 <= o[k] /\ HeadAt(s, o[k - 1]) # 0
               /\ o[k] = o[k - 1] + 2 + HeadAt(s, o[k - 1])
               /\ h[k] = SubSeq(s, o[k - 1] + 3, o[k])
  BY DEF Parsed
<1>6. Len(h) \in Nat /\ r \in Nat /\ p \in Nat
  OBVIOUS
<1> DEFINE Bad == {k \in 0..Len(h) : f[0] # SubSeq(h, 1, k) \o f[o[k]]}
<1>7. Bad = {}
  <2> SUFFICES ASSUME Bad # {} PROVE FALSE
    OBVIOUS
  <2>1. PICK k \in Bad : \A j \in 0..(k - 1) : j \notin Bad
    <3>1. Bad \in SUBSET (0..Len(h))
      OBVIOUS
    <3> HIDE DEF Bad
    <3> QED BY <1>6, <3>1, FirstFailure
  <2>2. k \in 0..Len(h) /\ f[0] # SubSeq(h, 1, k) \o f[o[k]]
    BY <2>1
  <2>3. k # 0
    <3> SUFFICES ASSUME k = 0 PROVE FALSE
      OBVIOUS
    <3>1. SubSeq(h, 1, k) = <<>>
      BY SubSeqEmpty
    <3>2. f[0] \in Seq(Seq(Byte))
      BY <1>6
    <3>3. <<>> \o f[0] = f[0]
      BY <3>2, ConcatEmptySeq
    <3> QED BY <1>5, <2>2, <3>1, <3>3
  <2>4. /\ k \in 1..Len(h) /\ k - 1 \in 0..(k - 1) /\ k - 1 \in 0..Len(h)
    BY <1>6, <2>2, <2>3
  <2>5. f[0] = SubSeq(h, 1, k - 1) \o f[o[k - 1]]
    BY <2>1, <2>4
  <2> DEFINE a == o[k - 1]
             e == o[k]
  <2>6. /\ a \in 0..p /\ e \in 0..p /\ a + 2 <= e /\ HeadAt(s, a) # 0
        /\ e = a + 2 + HeadAt(s, a) /\ h[k] = SubSeq(s, a + 3, e)
    BY <1>5, <2>4
  <2> HIDE DEF a, e
  <2>7. a \in Nat /\ e \in Nat /\ e <= r /\ a + 2 <= r
    BY <1>6, <2>6
  <2>8. HeadAt(t, a) = HeadAt(s, a) /\ SubSeq(t, a + 3, e) = SubSeq(s, a + 3, e)
    <3>1. SubSeq(t, (a + 2) + 1, e) = SubSeq(s, (a + 2) + 1, e)
      <4>1. a + 2 \in Nat /\ a + 2 <= e
        BY <2>6, <2>7
      <4> QED BY <1>3, <2>7, <4>1
    <3>2. (a + 2) + 1 = a + 3
      BY <2>7
    <3> QED BY <1>2, <2>7, <3>1, <3>2
  <2>9. f[a] = <<h[k]>> \o f[e]
    <3>1. f[a] = Found(f, t, a)
      BY <1>4, <1>6, <2>6, <2>7
    <3>2. a + 2 + HeadAt(t, a) = e
      BY <2>6, <2>8
    <3>3. ~(a + 2 > Len(t)) /\ ~(HeadAt(t, a) = 0) /\ ~(e > Len(t))
      BY <1>1, <1>6, <2>6, <2>7, <2>8
    <3>4. f[a] = <<SubSeq(t, a + 3, e)>> \o f[e]
      BY <3>1, <3>2, <3>3 DEF Found
    <3> QED BY <2>6, <2>8, <3>4
  <2>10. SubSeq(h, 1, k) = SubSeq(h, 1, k - 1) \o <<h[k]>>
    <3>1. 1 \in 1..Len(h) /\ k \in 1..Len(h)
      BY <1>6, <2>4
    <3> QED BY <3>1, SubSeqRecursiveSecond
  <2>11. /\ SubSeq(h, 1, k - 1) \in Seq(Seq(Byte)) /\ <<h[k]>> \in Seq(Seq(Byte))
         /\ f[e] \in Seq(Seq(Byte))
    <3>1. 1 \in 1..(Len(h) + 1) /\ k - 1 \in (1 - 1)..Len(h)
      BY <1>6, <2>4
    <3>2. SubSeq(h, 1, k - 1) \in Seq(Seq(Byte))
      BY <3>1, SliceShape
    <3>3. h[k] \in Seq(Byte)
      BY <2>4
    <3>4. \A S : \A x \in S : <<x>> \in Seq(S)
      OBVIOUS
    <3>5. <<h[k]>> \in Seq(Seq(Byte))
      BY <3>3, <3>4, Zenon
    <3>6. f[e] \in Seq(Seq(Byte))
      BY <2>7
    <3> QED BY <3>2, <3>5, <3>6
  <2>12. (SubSeq(h, 1, k - 1) \o <<h[k]>>) \o f[e] = SubSeq(h, 1, k - 1) \o (<<h[k]>> \o f[e])
    <3> DEFINE x == SubSeq(h, 1, k - 1)
               y == <<h[k]>>
               z == f[e]
    <3>1. x \in Seq(Seq(Byte)) /\ y \in Seq(Seq(Byte)) /\ z \in Seq(Seq(Byte))
      BY <2>11
    <3> HIDE DEF x, y, z
    <3>2. (x \o y) \o z = x \o (y \o z)
      BY <3>1, Joined, Zenon
    <3> QED BY <3>2 DEF x, y, z
  <2>13. f[0] = SubSeq(h, 1, k) \o f[e]
    BY <2>5, <2>9, <2>10, <2>12 DEF a
  <2> QED BY <2>2, <2>13 DEF e
<1>8. f[0] = h \o f[p]
  <2>1. f[0] = SubSeq(h, 1, Len(h)) \o f[o[Len(h)]]
    <3>1. Len(h) \in 0..Len(h) /\ Len(h) \notin Bad
      <4>1. Len(h) \in 0..Len(h)
        BY <1>6
      <4> HIDE DEF Bad
      <4> QED BY <1>7, <4>1
    <3> QED BY <3>1
  <2>2. SubSeq(h, 1, Len(h)) = h
    BY SubSeqFull
  <2> QED BY <1>5, <2>1, <2>2
<1>9. f[p] \in Seq(Seq(Byte)) /\ f[p] = Found(f, t, p)
  BY <1>4, <1>6
<1>10. p + 2 > r => f[p] = <<>>
  BY <1>1, <1>9 DEF Found
<1>11. p + 2 <= r /\ (HeadAt(s, p) = 0 \/ p + 2 + HeadAt(s, p) > r) => f[p] = <<>>
  BY <1>1, <1>2, <1>6, <1>9 DEF Found
<1>12. Bodies(SubSeq(s, 1, r)) = h \o f[p]
  BY <1>4, <1>8 DEF t
<1> QED BY <1>9, <1>10, <1>11, <1>12

----------------------------------------------------------------------------
(* The inductive invariant *)

Conns == [id : 1..MaxConns, stream : Seq(Byte), arrived : Nat, received : Nat,
          end : {"no", "eof", "reset"}]
Ctxs == [fd : ConnFds, id : 1..MaxConns, readbuf : Seq(Byte), msglen : Nat]
OpenFds == {fd \in ConnFds : sock[fd] # NoConn}

SocksOK ==
    /\ sock \in [ConnFds -> Conns \cup {NoConn}]
    /\ \A fd \in OpenFds : /\ sock[fd].received <= sock[fd].arrived
                           /\ sock[fd].arrived <= Len(sock[fd].stream)
                           /\ sock[fd].id <= conns
    /\ \A fd, d \in OpenFds : sock[fd].id = sock[d].id => fd = d

\* What waits to be accepted is new.
BacklogOK ==
    /\ conns \in 0..MaxConns
    /\ backlog \in Seq(Conns)
    /\ \A k \in 1..Len(backlog) :
          /\ backlog[k].arrived = 0 /\ backlog[k].received = 0
          /\ backlog[k].id <= conns /\ handled[backlog[k].id] = <<>>
          /\ \A fd \in OpenFds : sock[fd].id # backlog[k].id
    /\ \A j, k \in 1..Len(backlog) : backlog[j].id = backlog[k].id => j = k
    /\ handled \in [1..MaxConns -> Seq(Seq(Byte))]
    /\ \A id \in 1..MaxConns : id > conns => handled[id] = <<>>

CtxsOK ==
    /\ ctxs \in Seq(Ctxs)
    /\ \A c, d \in 1..Len(ctxs) : ctxs[c].fd = ctxs[d].fd => c = d
    /\ \A c \in 1..Len(ctxs) : ctxs[c].fd \in OpenFds /\ sock[ctxs[c].fd].id = ctxs[c].id
    /\ \A fd \in OpenFds : \E c \in 1..Len(ctxs) : ctxs[c].fd = fd

WatchedOK ==
    /\ lpc = "start" => OpenFds = {} /\ readfds = {} /\ backlog = <<>> /\ pipe = "none"
    /\ lpc # "start" => readfds = {ListenFd, PipeFd} \cup OpenFds
    /\ maxfd \in 0..MaxFd
    /\ \A fd \in readfds : fd <= maxfd

\* The pass is at a connection while its bytes are parsed.
PassOK ==
    /\ lpc \in {"start", "select", "parse", "ended"}
    /\ pipe \in {"none", "empty", "written"} /\ eof \in BOOLEAN
    /\ tmpr \subseteq readfds
    /\ ListenFd \in tmpr => backlog # <<>>
    /\ lpc = "parse" => tmpr # {} /\ Scan \in OpenFds
    /\ lpc \in {"start", "ended"} => tmpr = {}

\* The ctx x of a connection s of which the messages h were handled: what is in its
\* buffer follows them in the stream, or follows the length of the next one.
CtxParsed(x, s, h) ==
    \E p \in 0..s.received :
       /\ Parsed(s.stream, h, p)
       /\ \/ x.msglen = 0 /\ x.readbuf = SubSeq(s.stream, p + 1, s.received)
          \/ /\ p + 2 <= s.received /\ x.msglen = HeadAt(s.stream, p) /\ x.msglen # 0
             /\ x.readbuf = SubSeq(s.stream, p + 3, s.received)

\* Only the connection whose bytes are parsed can have a message that is whole.
ParseOK ==
    \A c \in 1..Len(ctxs) :
       /\ CtxParsed(ctxs[c], sock[ctxs[c].fd], handled[ctxs[c].id])
       /\ (Parsing /\ ctxs[c].fd = Scan) \/ WaitsForMore(ctxs[c].msglen, ctxs[c].readbuf)

ListenerInv == SocksOK /\ BacklogOK /\ CtxsOK /\ WatchedOK /\ PassOK /\ ParseOK

----------------------------------------------------------------------------
(* What the parser does to a ctx *)

\* The bytes of s from the one after p to r.
LEMMA BufferShape ==
    ASSUME NEW s \in Seq(Byte), NEW r \in 0..Len(s), NEW p \in 0..r
    PROVE  /\ SubSeq(s, p + 1, r) \in Seq(Byte) /\ Len(SubSeq(s, p + 1, r)) = r - p
           /\ p + 2 <= r => U16(SubSeq(s, p + 1, r)) = HeadAt(s, p)
           /\ \A n \in 0..(r - p) : /\ SubSeq(SubSeq(s, p + 1, r), 1, n) = SubSeq(s, p + 1, p + n)
                                    /\ BufferShift(SubSeq(s, p + 1, r), n) = SubSeq(s, p + n + 1, r)
<1> DEFINE a == p + 1
           b == SubSeq(s, a, r)
<1>1. a \in 1..(Len(s) + 1) /\ r \in (a - 1)..Len(s) /\ r - a + 1 = r - p
  OBVIOUS
<1>2. b \in Seq(Byte) /\ Len(b) = r - p /\ \A i \in 1..(r - p) : b[i] = s[a + i - 1]
  <2> HIDE DEF a
  <2>1. b \in Seq(Byte) /\ Len(b) = r - a + 1 /\ \A i \in 1..(r - a + 1) : b[i] = s[a + i - 1]
    BY <1>1, SliceShape
  <2> QED BY <1>1, <2>1
<1>3. p + 2 <= r => U16(b) = HeadAt(s, p)
  <2> HAVE p + 2 <= r
  <2>1. 1 \in 1..(r - p) /\ 2 \in 1..(r - p) /\ a + 1 - 1 = p + 1 /\ a + 2 - 1 = p + 2
    OBVIOUS
  <2>2. p \in Nat /\ p + 2 <= Len(s)
    OBVIOUS
  <2>3. HeadAt(s, p) = s[p + 1] * Base + s[p + 2]
    BY <2>2, HeadShape
  <2> HIDE DEF a, b
  <2>4. b[1] = s[p + 1] /\ b[2] = s[p + 2]
    BY <1>2, <2>1
  <2> QED BY <2>3, <2>4 DEF U16
<1>4. ASSUME NEW n \in 0..(r - p)
      PROVE  /\ SubSeq(b, 1, n) = SubSeq(s, p + 1, p + n)
             /\ BufferShift(b, n) = SubSeq(s, p + n + 1, r)
  <2>1. /\ 1 \in 1..(r - a + 2) /\ n \in (1 - 1)..(r - a + 1)
        /\ a + 1 - 1 = p + 1 /\ a + n - 1 = p + n
    OBVIOUS
  <2>2. /\ n + 1 \in 1..(r - a + 2) /\ r - p \in ((n + 1) - 1)..(r - a + 1)
        /\ a + (n + 1) - 1 = p + n + 1 /\ a + (r - p) - 1 = r
    OBVIOUS
  <2> HIDE DEF a
  <2>3. SubSeq(b, 1, n) = SubSeq(s, a + 1 - 1, a + n - 1)
    BY <1>1, <2>1, SliceOfSlice
  <2>4. SubSeq(b, n + 1, r - p) = SubSeq(s, a + (n + 1) - 1, a + (r - p) - 1)
    BY <1>1, <2>2, SliceOfSlice
  <2> QED BY <1>2, <2>1, <2>2, <2>3, <2>4 DEF BufferShift
<1> HIDE DEF b
<1>5. /\ b \in Seq(Byte) /\ Len(b) = r - p
      /\ p + 2 <= r => U16(b) = HeadAt(s, p)
      /\ \A n \in 0..(r - p) : /\ SubSeq(b, 1, n) = SubSeq(s, p + 1, p + n)
                               /\ BufferShift(b, n) = SubSeq(s, p + n + 1, r)
  BY <1>2, <1>3, <1>4
<1> QED BY <1>5 DEF b

\* Where the ctx stands, spelled out.
LEMMA CtxMeans ==
    ASSUME NEW x \in Ctxs, NEW s \in Conns, s.received <= Len(s.stream), NEW h, CtxParsed(x, s, h)
    PROVE  \E p \in 0..s.received :
              /\ Parsed(s.stream, h, p)
              /\ \/ /\ x.msglen = 0 /\ x.readbuf = SubSeq(s.stream, p + 1, s.received)
                    /\ Len(x.readbuf) = s.received - p
                    /\ p + 2 <= s.received => U16(x.readbuf) = HeadAt(s.stream, p)
                 \/ /\ p + 2 <= s.received /\ x.msglen = HeadAt(s.stream, p) /\ x.msglen # 0
                    /\ x.readbuf = SubSeq(s.stream, (p + 2) + 1, s.received)
                    /\ Len(x.readbuf) = s.received - (p + 2)
<1>1. PICK p \in 0..s.received :
         /\ Parsed(s.stream, h, p)
         /\ \/ x.msglen = 0 /\ x.readbuf = SubSeq(s.stream, p + 1, s.received)
            \/ /\ p + 2 <= s.received /\ x.msglen = HeadAt(s.stream, p) /\ x.msglen # 0
               /\ x.readbuf = SubSeq(s.stream, p + 3, s.received)
  BY DEF CtxParsed
<1>2. /\ s.stream \in Seq(Byte) /\ s.received \in 0..Len(s.stream) /\ s.received \in Nat
      /\ p \in Nat
  BY DEF Conns
<1>3. CASE x.msglen = 0 /\ x.readbuf = SubSeq(s.stream, p + 1, s.received)
  <2>1. /\ Len(x.readbuf) = s.received - p
        /\ p + 2 <= s.received => U16(x.readbuf) = HeadAt(s.stream, p)
    BY <1>2, <1>3, BufferShape
  <2> QED BY <1>1, <1>3, <2>1
<1>4. CASE /\ p + 2 <= s.received /\ x.msglen = HeadAt(s.stream, p) /\ x.msglen # 0
           /\ x.readbuf = SubSeq(s.stream, p + 3, s.received)
  <2>1. p + 2 \in 0..s.received /\ (p + 2) + 1 = p + 3
    BY <1>2, <1>4
  <2>2. Len(SubSeq(s.stream, (p + 2) + 1, s.received)) = s.received - (p + 2)
    BY <1>2, <2>1, BufferShape
  <2> QED BY <1>1, <1>4, <2>1, <2>2
<1> QED BY <1>1, <1>3, <1>4

\* NetRecv appends what has arrived.
LEMMA CtxReceives ==
    ASSUME NEW x \in Ctxs, NEW s \in Conns, s.received <= s.arrived, s.arrived <= Len(s.stream),
           NEW h, CtxParsed(x, s, h), NEW y, NEW z,
           y.msglen = x.msglen,
           y.readbuf = x.readbuf \o SubSeq(s.stream, s.received + 1, s.arrived),
           z.stream = s.stream, z.received = s.arrived
    PROVE  CtxParsed(y, z, h)
<1> DEFINE st == s.stream
           r == s.received
           a == s.arrived
<1>1. st \in Seq(Byte) /\ r \in Nat /\ a \in Nat /\ r <= a /\ a <= Len(st)
  BY DEF Conns
<1>2. PICK p \in 0..r :
         /\ Parsed(st, h, p)
         /\ \/ x.msglen = 0 /\ x.readbuf = SubSeq(st, p + 1, r)
            \/ /\ p + 2 <= r /\ x.msglen = HeadAt(st, p) /\ x.msglen # 0
               /\ x.readbuf = SubSeq(st, p + 3, r)
  BY DEF CtxParsed
<1> HIDE DEF st, r, a
<1>3. z.stream = st /\ z.received = a /\ y.readbuf = x.readbuf \o SubSeq(st, r + 1, a)
  BY DEF st, r, a
<1>4. p \in 0..a /\ p \in Nat
  BY <1>1
<1>5. CASE x.msglen = 0 /\ x.readbuf = SubSeq(st, p + 1, r)
  <2>1. p + 1 \in 1..(Len(st) + 1) /\ r \in ((p + 1) - 1)..Len(st) /\ a \in r..Len(st)
    BY <1>1
  <2>2. SubSeq(st, p + 1, r) \o SubSeq(st, r + 1, a) = SubSeq(st, p + 1, a)
    BY <1>1, <2>1, ConcatAdjacentSubSeq
  <2> QED BY <1>2, <1>3, <1>4, <1>5, <2>2 DEF CtxParsed
<1>6. CASE /\ p + 2 <= r /\ x.msglen = HeadAt(st, p) /\ x.msglen # 0
           /\ x.readbuf = SubSeq(st, p + 3, r)
  <2>1. p + 3 \in 1..(Len(st) + 1) /\ r \in ((p + 3) - 1)..Len(st) /\ a \in r..Len(st)
    BY <1>1, <1>6
  <2>2. SubSeq(st, p + 3, r) \o SubSeq(st, r + 1, a) = SubSeq(st, p + 3, a)
    BY <1>1, <2>1, ConcatAdjacentSubSeq
  <2>3. p + 2 <= a
    BY <1>1, <1>6
  <2> QED BY <1>2, <1>3, <1>4, <1>6, <2>2, <2>3 DEF CtxParsed
<1> QED BY <1>2, <1>5, <1>6

\* The length leaves the buffer, and is the one of the next message.
LEMMA CtxTakesLength ==
    ASSUME NEW x \in Ctxs, NEW s \in Conns, s.received <= Len(s.stream),
           NEW h, CtxParsed(x, s, h), LengthIsThere(x.msglen, x.readbuf),
           ~LengthIsZero(x.msglen, x.readbuf), NEW y,
           y.msglen = U16(x.readbuf), y.readbuf = BufferShift(x.readbuf, 2)
    PROVE  CtxParsed(y, s, h) /\ y.msglen \in Nat /\ y.readbuf \in Seq(Byte)
<1>1. PICK p \in 0..s.received :
         /\ Parsed(s.stream, h, p)
         /\ \/ /\ x.msglen = 0 /\ x.readbuf = SubSeq(s.stream, p + 1, s.received)
               /\ Len(x.readbuf) = s.received - p
               /\ p + 2 <= s.received => U16(x.readbuf) = HeadAt(s.stream, p)
            \/ /\ p + 2 <= s.received /\ x.msglen = HeadAt(s.stream, p) /\ x.msglen # 0
               /\ x.readbuf = SubSeq(s.stream, (p + 2) + 1, s.received)
               /\ Len(x.readbuf) = s.received - (p + 2)
  BY CtxMeans
<1>2. /\ s.stream \in Seq(Byte) /\ s.received \in 0..Len(s.stream) /\ s.received \in Nat
      /\ p \in Nat
  BY DEF Conns
<1>3. /\ x.msglen = 0 /\ x.readbuf = SubSeq(s.stream, p + 1, s.received)
      /\ p + 2 <= s.received /\ U16(x.readbuf) = HeadAt(s.stream, p)
  <2>1. x.msglen = 0 /\ Len(x.readbuf) >= 2
    BY DEF LengthIsThere
  <2> QED BY <1>1, <1>2, <2>1
<1>4. HeadAt(s.stream, p) # 0
  BY <1>3 DEF LengthIsZero
<1>5. y.readbuf = SubSeq(s.stream, p + 3, s.received)
  <2>1. 2 \in 0..(s.received - p) /\ p + 2 + 1 = p + 3
    BY <1>2, <1>3
  <2>2. BufferShift(SubSeq(s.stream, p + 1, s.received), 2)
           = SubSeq(s.stream, p + 2 + 1, s.received)
    BY <1>2, <2>1, BufferShape
  <2> QED BY <1>3, <2>1, <2>2
<1>6. y.msglen \in Nat
  <2>1. p + 2 <= Len(s.stream)
    BY <1>2, <1>3
  <2> QED BY <1>2, <1>3, <2>1, HeadShape
<1>7. y.readbuf \in Seq(Byte)
  <2>1. p + 2 \in 0..s.received /\ (p + 2) + 1 = p + 3
    BY <1>2, <1>3
  <2>2. SubSeq(s.stream, (p + 2) + 1, s.received) \in Seq(Byte)
    BY <1>2, <2>1, BufferShape
  <2> QED BY <1>5, <2>1, <2>2
<1> QED BY <1>1, <1>3, <1>4, <1>5, <1>6, <1>7 DEF CtxParsed

\* The message leaves the buffer, and is the next one of the stream.
LEMMA CtxTakesBody ==
    ASSUME NEW x \in Ctxs, NEW s \in Conns, s.received <= Len(s.stream),
           NEW h \in Seq(Seq(Byte)), CtxParsed(x, s, h), BodyIsThere(x.msglen, x.readbuf), NEW y,
           y.msglen = 0, y.readbuf = BufferShift(x.readbuf, x.msglen)
    PROVE  /\ CtxParsed(y, s, Append(h, SubSeq(x.readbuf, 1, x.msglen)))
           /\ y.readbuf \in Seq(Byte) /\ SubSeq(x.readbuf, 1, x.msglen) \in Seq(Byte)
<1>1. PICK p \in 0..s.received :
         /\ Parsed(s.stream, h, p)
         /\ \/ /\ x.msglen = 0 /\ x.readbuf = SubSeq(s.stream, p + 1, s.received)
               /\ Len(x.readbuf) = s.received - p
               /\ p + 2 <= s.received => U16(x.readbuf) = HeadAt(s.stream, p)
            \/ /\ p + 2 <= s.received /\ x.msglen = HeadAt(s.stream, p) /\ x.msglen # 0
               /\ x.readbuf = SubSeq(s.stream, (p + 2) + 1, s.received)
               /\ Len(x.readbuf) = s.received - (p + 2)
  BY CtxMeans
<1> DEFINE st == s.stream
           r == s.received
           n == x.msglen
           u == p + 2
           q == u + n
<1>2. st \in Seq(Byte) /\ r \in 0..Len(st) /\ r \in Nat /\ p \in Nat /\ n \in Nat
  BY DEF Conns, Ctxs
<1>3. /\ n # 0 /\ u <= r /\ n = HeadAt(st, p) /\ x.readbuf = SubSeq(st, u + 1, r)
      /\ n <= r - u
  <2>1. n # 0 /\ Len(x.readbuf) >= n
    BY DEF BodyIsThere
  <2> QED BY <1>1, <1>2, <2>1
<1>4. u \in 0..r /\ n \in 0..(r - u) /\ q \in 0..r /\ u + 1 = p + 3 /\ q = p + 2 + HeadAt(st, p)
  BY <1>2, <1>3
<1> HIDE DEF st, r, n, u, q
<1>5. /\ SubSeq(SubSeq(st, u + 1, r), 1, n) = SubSeq(st, u + 1, u + n)
      /\ BufferShift(SubSeq(st, u + 1, r), n) = SubSeq(st, u + n + 1, r)
  BY <1>2, <1>4, BufferShape
<1>6. /\ SubSeq(x.readbuf, 1, x.msglen) = SubSeq(st, p + 3, q)
      /\ y.readbuf = SubSeq(st, q + 1, r)
  BY <1>3, <1>4, <1>5 DEF n, q
<1>7. Parsed(st, Append(h, SubSeq(st, p + 3, q)), q)
  <2>1. p + 2 <= Len(st) /\ HeadAt(st, p) # 0 /\ p + 2 + HeadAt(st, p) <= Len(st)
    BY <1>2, <1>3, <1>4 DEF u, q
  <2>2. Parsed(st, h, p)
    BY <1>1 DEF st
  <2> QED BY <1>2, <1>4, <2>1, <2>2, ParsedNext
<1>8. CtxParsed(y, s, Append(h, SubSeq(x.readbuf, 1, x.msglen)))
  BY <1>4, <1>6, <1>7 DEF CtxParsed, st, r
<1>9. y.readbuf \in Seq(Byte)
  <2>1. SubSeq(st, q + 1, r) \in Seq(Byte)
    BY <1>2, <1>4, BufferShape
  <2> QED BY <1>6, <2>1
<1>10. SubSeq(st, p + 3, q) \in Seq(Byte)
  <2>1. q \in 0..Len(st) /\ u \in 0..q
    BY <1>2, <1>3, <1>4 DEF q
  <2>2. SubSeq(st, u + 1, q) \in Seq(Byte)
    BY <1>2, <2>1, BufferShape
  <2> QED BY <1>4, <2>2
<1> QED BY <1>6, <1>8, <1>9, <1>10

\* What was handled are the first messages of what was received, and all of them when
\* the parser has to wait, or finds the length 0.
LEMMA CtxHandled ==
    ASSUME NEW x \in Ctxs, NEW s \in Conns, s.received <= Len(s.stream),
           NEW h \in Seq(Seq(Byte)), CtxParsed(x, s, h)
    PROVE  \E rest \in Seq(Seq(Byte)) :
              /\ Bodies(SubSeq(s.stream, 1, s.received)) = h \o rest
              /\ \/ WaitsForMore(x.msglen, x.readbuf)
                 \/ LengthIsZero(x.msglen, x.readbuf)
                 => rest = <<>>
<1>1. PICK p \in 0..s.received :
         /\ Parsed(s.stream, h, p)
         /\ \/ /\ x.msglen = 0 /\ x.readbuf = SubSeq(s.stream, p + 1, s.received)
               /\ Len(x.readbuf) = s.received - p
               /\ p + 2 <= s.received => U16(x.readbuf) = HeadAt(s.stream, p)
            \/ /\ p + 2 <= s.received /\ x.msglen = HeadAt(s.stream, p) /\ x.msglen # 0
               /\ x.readbuf = SubSeq(s.stream, (p + 2) + 1, s.received)
               /\ Len(x.readbuf) = s.received - (p + 2)
  BY CtxMeans
<1>2. /\ s.stream \in Seq(Byte) /\ s.received \in 0..Len(s.stream) /\ s.received \in Nat
      /\ p \in Nat /\ x.msglen \in Nat
  BY DEF Conns, Ctxs
<1>3. PICK rest \in Seq(Seq(Byte)) :
         /\ Bodies(SubSeq(s.stream, 1, s.received)) = h \o rest
         /\ p + 2 > s.received => rest = <<>>
         /\ p + 2 <= s.received
               /\ (HeadAt(s.stream, p) = 0 \/ p + 2 + HeadAt(s.stream, p) > s.received)
            => rest = <<>>
  BY <1>1, <1>2, BodiesOfParsed
<1>4. ASSUME WaitsForMore(x.msglen, x.readbuf) \/ LengthIsZero(x.msglen, x.readbuf)
      PROVE  rest = <<>>
  <2>1. CASE x.msglen = 0
    <3>1. /\ Len(x.readbuf) = s.received - p
          /\ p + 2 <= s.received => U16(x.readbuf) = HeadAt(s.stream, p)
      BY <1>1, <2>1
    <3>2. p + 2 <= s.received => U16(x.readbuf) = 0
      BY <1>2, <1>4, <2>1, <3>1 DEF WaitsForMore, LengthIsZero, LengthIsThere
    <3> QED BY <1>2, <1>3, <3>1, <3>2
  <2>2. CASE x.msglen # 0
    <3>1. /\ p + 2 <= s.received /\ x.msglen = HeadAt(s.stream, p)
          /\ Len(x.readbuf) = s.received - (p + 2)
      BY <1>1, <2>2
    <3>2. ~(Len(x.readbuf) >= x.msglen)
      BY <1>4, <2>2 DEF WaitsForMore, LengthIsZero, LengthIsThere, BodyIsThere
    <3> QED BY <1>2, <1>3, <3>1, <3>2
  <2> QED BY <2>1, <2>2
<1> QED BY <1>3, <1>4


----------------------------------------------------------------------------
(* The books: sockets, ctxs and the descriptors that are watched *)

LEMMA FdsAre ==
    /\ ConnFds \subseteq Nat /\ ListenFd \in Nat /\ PipeFd \in Nat /\ ListenFd # PipeFd
    /\ ListenFd \notin ConnFds /\ PipeFd \notin ConnFds
    /\ ListenFd <= PipeFd /\ PipeFd \in 0..MaxFd /\ ConnFds \subseteq 0..MaxFd
    /\ MaxConns \in Nat
BY ListenerAssumption DEF ConnFds, ListenFd, PipeFd, PipeWriteFd, MaxConns

LEMMA NoConnIsNone == NoConn \notin Conns /\ NoConn.id = 0
BY DEF NoConn, Conn, Conns

LEMMA OpenAre ==
    ASSUME ListenerInv, NEW fd \in OpenFds PROVE fd \in ConnFds /\ sock[fd] \in Conns
BY DEF ListenerInv, SocksOK, OpenFds

\* The for loop is at a descriptor of the pass, and that one is watched.
LEMMA ScanShape ==
    ASSUME ListenerInv, tmpr # {}
    PROVE  /\ Scan \in tmpr /\ Scan \in Nat
           /\ Scan \in {ListenFd, PipeFd} \cup OpenFds
           /\ Scan \in ConnFds => Scan \in OpenFds
<1>1. lpc # "start" /\ tmpr \subseteq {ListenFd, PipeFd} \cup OpenFds
  BY DEF ListenerInv, PassOK, WatchedOK
<1>2. tmpr \in SUBSET Nat
  BY <1>1, FdsAre DEF OpenFds
<1>3. Scan \in tmpr
  BY <1>2, LeastOf DEF Scan
<1> QED BY <1>1, <1>2, <1>3, FdsAre

LEMMA MinOfOne ==
    ASSUME NEW k \in Nat PROVE Min({k}) = k
<1>1. Min({k}) \in {k}
  BY LeastOf
<1> QED BY <1>1

\* SocketCtx_find_by_fd finds the one ctx of a connection.
LEMMA CtxOfFd ==
    ASSUME ListenerInv, NEW fd \in OpenFds, NEW c, c = Min(ByFd(ctxs, fd))
    PROVE  /\ c \in 1..Len(ctxs) /\ ctxs[c].fd = fd /\ ByFd(ctxs, fd) = {c}
           /\ ctxs[c] \in Ctxs /\ ctxs[c].id = sock[fd].id
           /\ \A d \in 1..Len(ctxs) : ctxs[d].fd = fd => d = c
<1>0. ctxs \in Seq(Ctxs) /\ DOMAIN ctxs = 1..Len(ctxs)
  BY DEF ListenerInv, CtxsOK
<1>1. PICK d \in 1..Len(ctxs) : ctxs[d].fd = fd
  BY DEF ListenerInv, CtxsOK
<1>2. \A e \in 1..Len(ctxs) : ctxs[e].fd = fd => e = d
  BY <1>1 DEF ListenerInv, CtxsOK
<1>3. ByFd(ctxs, fd) = {d} /\ d \in Nat
  BY <1>0, <1>1, <1>2 DEF ByFd
<1>4. c = d
  BY <1>3, MinOfOne
<1>5. ctxs[d] \in Ctxs /\ ctxs[d].id = sock[fd].id
  BY <1>0, <1>1 DEF ListenerInv, CtxsOK
<1> QED BY <1>1, <1>2, <1>3, <1>4, <1>5

\* A connection stays what it is, and so does its ctx, whatever arrives, is received
\* or is parsed; only its own messages are handled.
LEMMA BooksKept ==
    ASSUME ListenerInv, lpc # "start", lpc' # "start",
           sock' \in [ConnFds -> Conns \cup {NoConn}],
           \A fd \in ConnFds \ OpenFds : sock'[fd] = NoConn,
           \A fd \in OpenFds : /\ sock'[fd] \in Conns /\ sock'[fd].id = sock[fd].id
                               /\ sock'[fd].received <= sock'[fd].arrived
                               /\ sock'[fd].arrived <= Len(sock'[fd].stream),
           ctxs' \in Seq(Ctxs), Len(ctxs') = Len(ctxs),
           \A c \in 1..Len(ctxs) : ctxs'[c].fd = ctxs[c].fd /\ ctxs'[c].id = ctxs[c].id,
           handled' \in [1..MaxConns -> Seq(Seq(Byte))],
           \A id \in 1..MaxConns :
              (\A fd \in OpenFds : sock[fd].id # id) => handled'[id] = handled[id],
           UNCHANGED <<backlog, readfds, maxfd, conns>>
    PROVE  OpenFds' = OpenFds /\ SocksOK' /\ BacklogOK' /\ CtxsOK' /\ WatchedOK'
<1>1. OpenFds' = OpenFds
  BY NoConnIsNone DEF OpenFds
<1>2. SocksOK'
  BY <1>1 DEF ListenerInv, SocksOK
<1>3. BacklogOK'
  <2>1. \A fd \in OpenFds : sock[fd].id <= conns /\ sock[fd].id \in Nat
    BY OpenAre DEF ListenerInv, SocksOK, Conns
  <2>2. \A id \in 1..MaxConns : id > conns => handled'[id] = <<>>
    <3> TAKE id \in 1..MaxConns
    <3> HAVE id > conns
    <3>1. \A fd \in OpenFds : sock[fd].id # id
      BY <2>1 DEF ListenerInv, BacklogOK
    <3> QED BY <3>1 DEF ListenerInv, BacklogOK
  <2>3. \A k \in 1..Len(backlog) : handled'[backlog[k].id] = <<>>
    <3> TAKE k \in 1..Len(backlog)
    <3>1. backlog[k] \in Conns /\ \A fd \in OpenFds : sock[fd].id # backlog[k].id
      BY DEF ListenerInv, BacklogOK
    <3>2. backlog[k].id \in 1..MaxConns
      BY <3>1 DEF Conns
    <3> QED BY <3>1, <3>2 DEF ListenerInv, BacklogOK
  <2>4. \A k \in 1..Len(backlog) : \A fd \in OpenFds' : sock'[fd].id # backlog[k].id
    BY <1>1 DEF ListenerInv, BacklogOK
  <2> QED BY <2>2, <2>3, <2>4 DEF ListenerInv, BacklogOK
<1>4. CtxsOK'
  <2>1. \A c, d \in 1..Len(ctxs') : ctxs'[c].fd = ctxs'[d].fd => c = d
    BY DEF ListenerInv, CtxsOK
  <2>2. \A c \in 1..Len(ctxs') : /\ ctxs'[c].fd \in OpenFds'
                                 /\ sock'[ctxs'[c].fd].id = ctxs'[c].id
    BY <1>1 DEF ListenerInv, CtxsOK
  <2>3. \A fd \in OpenFds' : \E c \in 1..Len(ctxs') : ctxs'[c].fd = fd
    BY <1>1 DEF ListenerInv, CtxsOK
  <2> QED BY <2>1, <2>2, <2>3 DEF CtxsOK
<1>5. WatchedOK'
  BY <1>1 DEF ListenerInv, WatchedOK
<1> QED BY <1>1, <1>2, <1>3, <1>4, <1>5

\* accept() gives the connection the lowest free number, and each book an entry.
LEMMA BooksOfAccepted ==
    ASSUME ListenerInv, lpc # "start", lpc' # "start", backlog # <<>>,
           NEW fd \in ConnFds \ OpenFds, NEW x, x = Head(backlog),
           sock' = [sock EXCEPT ![fd] = x], backlog' = Tail(backlog),
           ctxs' = Append(ctxs, [fd |-> fd, id |-> x.id, readbuf |-> <<>>, msglen |-> 0]),
           readfds' = readfds \cup {fd}, maxfd' = IF fd > maxfd THEN fd ELSE maxfd,
           UNCHANGED <<conns, handled>>
    PROVE  /\ OpenFds' = OpenFds \cup {fd}
           /\ SocksOK' /\ BacklogOK' /\ CtxsOK' /\ WatchedOK'
           /\ x \in Conns /\ x.received = 0 /\ handled[x.id] = <<>>
<1> USE DEF ListenerInv
<1>1. /\ backlog \in Seq(Conns) /\ Len(backlog) \in Nat /\ Len(backlog) > 0
      /\ x = backlog[1] /\ x \in Conns
      /\ Len(backlog') = Len(backlog) - 1 /\ backlog' \in Seq(Conns)
      /\ \A k \in 1..Len(backlog') : k + 1 \in 1..Len(backlog) /\ backlog'[k] = backlog[k + 1]
  BY DEF BacklogOK
<1>2. /\ x.arrived = 0 /\ x.received = 0 /\ x.id <= conns /\ handled[x.id] = <<>>
      /\ \A d \in OpenFds : sock[d].id # x.id
      /\ \A k \in 1..Len(backlog') : backlog'[k].id # x.id
  <2>1. 1 \in 1..Len(backlog)
    BY <1>1
  <2>2. \A k \in 1..Len(backlog') : backlog'[k].id # x.id
    <3> TAKE k \in 1..Len(backlog')
    <3>1. k + 1 \in 1..Len(backlog) /\ backlog'[k] = backlog[k + 1] /\ k + 1 # 1
      BY <1>1
    <3> QED BY <1>1, <2>1, <3>1 DEF BacklogOK
  <2> QED BY <1>1, <2>1, <2>2 DEF BacklogOK
<1>3. x # NoConn /\ x.id \in 1..MaxConns /\ x.stream \in Seq(Byte)
  BY <1>1, NoConnIsNone DEF Conns
<1>4. /\ sock' \in [ConnFds -> Conns \cup {NoConn}] /\ sock'[fd] = x
      /\ \A d \in ConnFds \ {fd} : sock'[d] = sock[d]
  BY <1>1 DEF SocksOK
<1>5. OpenFds' = OpenFds \cup {fd}
  BY <1>3, <1>4 DEF OpenFds
<1>6. SocksOK'
  <2>1. \A d \in OpenFds : sock'[d] = sock[d]
    BY <1>4 DEF OpenFds
  <2>2. \A d \in OpenFds' : /\ sock'[d].received <= sock'[d].arrived
                            /\ sock'[d].arrived <= Len(sock'[d].stream)
                            /\ sock'[d].id <= conns'
    <3> TAKE d \in OpenFds'
    <3>1. CASE d = fd
      <4>1. 0 <= Len(x.stream)
        BY <1>3
      <4> QED BY <1>2, <1>4, <3>1, <4>1
    <3>2. CASE d \in OpenFds
      BY <2>1, <3>2 DEF SocksOK
    <3> QED BY <1>5, <3>1, <3>2
  <2>3. \A d, e \in OpenFds' : sock'[d].id = sock'[e].id => d = e
    BY <1>2, <1>4, <1>5, <2>1 DEF SocksOK
  <2> QED BY <1>4, <2>2, <2>3 DEF SocksOK
<1>7. BacklogOK'
  <2>1. \A k \in 1..Len(backlog') :
           /\ backlog'[k].arrived = 0 /\ backlog'[k].received = 0
           /\ backlog'[k].id <= conns' /\ handled'[backlog'[k].id] = <<>>
           /\ \A d \in OpenFds' : sock'[d].id # backlog'[k].id
    <3> TAKE k \in 1..Len(backlog')
    <3>1. k + 1 \in 1..Len(backlog) /\ backlog'[k] = backlog[k + 1]
      BY <1>1
    <3>2. /\ backlog'[k].arrived = 0 /\ backlog'[k].received = 0
          /\ backlog'[k].id <= conns' /\ handled'[backlog'[k].id] = <<>>
      BY <3>1 DEF BacklogOK
    <3>3. \A d \in OpenFds : sock'[d].id # backlog'[k].id
      BY <1>4, <3>1 DEF BacklogOK, OpenFds
    <3> QED BY <1>2, <1>4, <1>5, <3>2, <3>3
  <2>2. \A j, k \in 1..Len(backlog') : backlog'[j].id = backlog'[k].id => j = k
    <3> TAKE j, k \in 1..Len(backlog')
    <3>1. /\ k + 1 \in 1..Len(backlog) /\ backlog'[k] = backlog[k + 1]
          /\ j + 1 \in 1..Len(backlog) /\ backlog'[j] = backlog[j + 1]
      BY <1>1
    <3>2. backlog[j + 1].id = backlog[k + 1].id => j + 1 = k + 1
      BY <3>1 DEF BacklogOK
    <3> QED BY <3>1, <3>2
  <2> QED BY <1>1, <2>1, <2>2 DEF BacklogOK
<1> DEFINE y == [fd |-> fd, id |-> x.id, readbuf |-> <<>>, msglen |-> 0]
<1>8. y \in Ctxs /\ y.fd = fd /\ y.id = x.id
  BY <1>3 DEF Ctxs
<1>9. ctxs' = Append(ctxs, y)
  OBVIOUS
<1> HIDE DEF y
<1>10. /\ ctxs \in Seq(Ctxs) /\ ctxs' \in Seq(Ctxs)
       /\ Len(ctxs) \in Nat /\ Len(ctxs') = Len(ctxs) + 1
       /\ \A c \in 1..Len(ctxs) : ctxs'[c] = ctxs[c]
       /\ ctxs'[Len(ctxs) + 1] = y
  BY <1>8, <1>9 DEF CtxsOK
<1>11. CtxsOK'
  <2>1. \A c \in 1..Len(ctxs) : ctxs[c].fd \in OpenFds /\ ctxs[c].fd # fd
    BY DEF CtxsOK
  <2>2. \A c, d \in 1..Len(ctxs') : ctxs'[c].fd = ctxs'[d].fd => c = d
    BY <1>8, <1>10, <2>1 DEF CtxsOK
  <2>3. \A c \in 1..Len(ctxs') : /\ ctxs'[c].fd \in OpenFds'
                                 /\ sock'[ctxs'[c].fd].id = ctxs'[c].id
    <3> TAKE c \in 1..Len(ctxs')
    <3>1. CASE c \in 1..Len(ctxs)
      BY <1>4, <1>5, <1>10, <2>1, <3>1 DEF CtxsOK, OpenFds
    <3>2. CASE c = Len(ctxs) + 1
      BY <1>4, <1>5, <1>8, <1>10, <3>2
    <3> QED BY <1>10, <3>1, <3>2
  <2>4. \A d \in OpenFds' : \E c \in 1..Len(ctxs') : ctxs'[c].fd = d
    <3> TAKE d \in OpenFds'
    <3>1. CASE d = fd
      <4>1. Len(ctxs) + 1 \in 1..Len(ctxs')
        BY <1>10
      <4> QED BY <1>8, <1>10, <3>1, <4>1
    <3>2. CASE d \in OpenFds
      <4>1. PICK c \in 1..Len(ctxs) : ctxs[c].fd = d
        BY <3>2 DEF CtxsOK
      <4> QED BY <1>10, <4>1
    <3> QED BY <1>5, <3>1, <3>2
  <2> QED BY <1>10, <2>2, <2>3, <2>4 DEF CtxsOK
<1>12. WatchedOK'
  <2>1. readfds' = {ListenFd, PipeFd} \cup OpenFds'
    BY <1>5 DEF WatchedOK
  <2>2. fd \in 0..MaxFd /\ maxfd \in 0..MaxFd /\ readfds \subseteq Nat /\ MaxFd \in Nat
    BY FdsAre, ListenerAssumption DEF WatchedOK, OpenFds
  <2>3. maxfd' \in 0..MaxFd /\ fd <= maxfd' /\ maxfd <= maxfd'
    BY <2>2
  <2>4. \A d \in readfds' : d <= maxfd'
    BY <2>2, <2>3 DEF WatchedOK
  <2> QED BY <2>1, <2>3, <2>4 DEF WatchedOK
<1> QED BY <1>1, <1>2, <1>5, <1>6, <1>7, <1>11, <1>12

LEMMA RemoveAtShape ==
    ASSUME NEW S, NEW seq \in Seq(S), NEW c \in 1..Len(seq)
    PROVE  /\ RemoveAt(seq, c) \in Seq(S)
           /\ Len(RemoveAt(seq, c)) = Len(seq) - 1
           /\ \A k \in 1..(Len(seq) - 1) :
                 RemoveAt(seq, c)[k] = IF k < c THEN seq[k] ELSE seq[k + 1]
<1> DEFINE p == SubSeq(seq, 1, c - 1)
           q == SubSeq(seq, c + 1, Len(seq))
<1>1. /\ p \in Seq(S) /\ q \in Seq(S)
      /\ Len(p) = c - 1 /\ Len(q) = Len(seq) - c
      /\ \A k \in 1..(c - 1) : p[k] = seq[k]
      /\ \A k \in 1..(Len(seq) - c) : q[k] = seq[c + k]
  OBVIOUS
<1>2. RemoveAt(seq, c) = p \o q
  BY DEF RemoveAt
<1> HIDE DEF p, q
<1>3. /\ p \o q \in Seq(S) /\ Len(p \o q) = Len(seq) - 1 /\ Len(seq) \in Nat
      /\ \A k \in 1..(Len(seq) - 1) : (p \o q)[k] = IF k < c THEN p[k] ELSE q[k - (c - 1)]
  <2>1. Len(seq) \in Nat /\ c \in Nat /\ Len(p) \in Nat /\ Len(q) \in Nat
    BY <1>1
  <2>2. /\ p \o q \in Seq(S) /\ Len(p \o q) = Len(p) + Len(q)
        /\ \A k \in 1..(Len(p) + Len(q)) :
              (p \o q)[k] = IF k <= Len(p) THEN p[k] ELSE q[k - Len(p)]
    BY <1>1, ConcatProperties
  <2> QED BY <1>1, <2>1, <2>2
<1>4. \A k \in 1..(Len(seq) - 1) : (p \o q)[k] = IF k < c THEN seq[k] ELSE seq[k + 1]
  <2> TAKE k \in 1..(Len(seq) - 1)
  <2>1. CASE k < c
    BY <1>1, <1>3, <2>1
  <2>2. CASE ~(k < c)
    <3>1. k - (c - 1) \in 1..(Len(seq) - c) /\ c + (k - (c - 1)) = k + 1
      BY <1>3, <2>2
    <3>2. q[k - (c - 1)] = seq[c + (k - (c - 1))]
      BY <1>1, <3>1
    <3> QED BY <1>3, <2>2, <3>1, <3>2
  <2> QED BY <2>1, <2>2
<1> QED BY <1>2, <1>3, <1>4

\* FD_CLR, ShutdownSocket, ArrayRemove
Closes(fd, c) ==
    /\ c = Min(ByFd(ctxs, fd))
    /\ sock' = [sock EXCEPT ![fd] = NoConn] /\ ctxs' = RemoveAt(ctxs, c)
    /\ readfds' = readfds \ {fd} /\ UNCHANGED <<backlog, maxfd, conns, handled>>

\* The connection leaves every book.
LEMMA BooksOfClosed ==
    ASSUME ListenerInv, lpc # "start", lpc' # "start", NEW fd \in OpenFds, NEW c, Closes(fd, c)
    PROVE  /\ OpenFds' = OpenFds \ {fd}
           /\ SocksOK' /\ BacklogOK' /\ CtxsOK' /\ WatchedOK'
           /\ \A k \in 1..Len(ctxs') : \E d \in 1..Len(ctxs) : d # c /\ ctxs'[k] = ctxs[d]
<1> USE DEF ListenerInv, Closes
<1>1. /\ c \in 1..Len(ctxs) /\ ctxs[c].fd = fd /\ ctxs \in Seq(Ctxs)
      /\ Len(ctxs) \in Nat /\ fd \in ConnFds
  BY CtxOfFd DEF CtxsOK, OpenFds
<1> DEFINE from(k) == IF k < c THEN k ELSE k + 1
<1>2. /\ ctxs' \in Seq(Ctxs) /\ Len(ctxs') = Len(ctxs) - 1
      /\ \A k \in 1..Len(ctxs') : /\ from(k) \in 1..Len(ctxs) /\ from(k) # c
                                  /\ ctxs'[k] = ctxs[from(k)]
  <2>1. /\ RemoveAt(ctxs, c) \in Seq(Ctxs)
        /\ Len(RemoveAt(ctxs, c)) = Len(ctxs) - 1
        /\ \A k \in 1..(Len(ctxs) - 1) : RemoveAt(ctxs, c)[k] = ctxs[from(k)]
    BY <1>1, RemoveAtShape
  <2>2. \A k \in 1..(Len(ctxs) - 1) : from(k) \in 1..Len(ctxs) /\ from(k) # c
    BY <1>1
  <2> QED BY <2>1, <2>2
<1>3. \A d \in 1..Len(ctxs) : d # c => \E k \in 1..Len(ctxs') : from(k) = d
  <2> TAKE d \in 1..Len(ctxs)
  <2>1. CASE d < c
    BY <1>1, <1>2, <2>1
  <2>2. CASE d > c
    <3>1. d - 1 \in 1..Len(ctxs') /\ from(d - 1) = d
      BY <1>1, <1>2, <2>2
    <3> QED BY <3>1
  <2> QED BY <1>1, <2>1, <2>2
<1>4. \A k, j \in 1..Len(ctxs') : from(k) = from(j) => k = j
  BY <1>1, <1>2
<1> HIDE DEF from
<1>5. /\ sock' \in [ConnFds -> Conns \cup {NoConn}] /\ sock'[fd] = NoConn
      /\ \A d \in ConnFds \ {fd} : sock'[d] = sock[d]
  BY <1>1 DEF SocksOK
<1>6. OpenFds' = OpenFds \ {fd} /\ \A d \in OpenFds' : sock'[d] = sock[d]
  BY <1>5 DEF OpenFds
<1>7. SocksOK'
  BY <1>5, <1>6 DEF SocksOK
<1>8. BacklogOK'
  BY <1>6 DEF BacklogOK
<1>9. \A d \in 1..Len(ctxs) : d # c => /\ ctxs[d].fd \in OpenFds'
                                      /\ sock'[ctxs[d].fd].id = ctxs[d].id
  BY <1>1, <1>6 DEF CtxsOK
<1>10. CtxsOK'
  <2>1. \A k, j \in 1..Len(ctxs') : ctxs'[k].fd = ctxs'[j].fd => k = j
    BY <1>2, <1>4 DEF CtxsOK
  <2>2. \A k \in 1..Len(ctxs') : /\ ctxs'[k].fd \in OpenFds'
                                 /\ sock'[ctxs'[k].fd].id = ctxs'[k].id
    BY <1>2, <1>9
  <2>3. \A d \in OpenFds' : \E k \in 1..Len(ctxs') : ctxs'[k].fd = d
    <3> TAKE d \in OpenFds'
    <3>1. d \in OpenFds /\ d # fd
      BY <1>6
    <3>2. PICK e \in 1..Len(ctxs) : ctxs[e].fd = d
      BY <3>1 DEF CtxsOK
    <3> QED BY <1>1, <1>2, <1>3, <3>1, <3>2
  <2> QED BY <1>2, <2>1, <2>2, <2>3 DEF CtxsOK
<1>11. WatchedOK'
  <2>1. readfds' = {ListenFd, PipeFd} \cup OpenFds'
    BY <1>1, <1>6, FdsAre DEF WatchedOK
  <2> QED BY <2>1 DEF WatchedOK
<1> QED BY <1>2, <1>6, <1>7, <1>8, <1>10, <1>11

----------------------------------------------------------------------------
(* Each action preserves the invariant. *)

\* The bytes received and the messages handled are what they were; the ctx that is no
\* longer parsed waits for more.
LEMMA ParseKept ==
    ASSUME ListenerInv, UNCHANGED <<ctxs, handled>>,
           \A fd \in OpenFds : /\ sock'[fd].stream = sock[fd].stream
                               /\ sock'[fd].received = sock[fd].received,
           \A c \in 1..Len(ctxs) :
              Parsing /\ ctxs[c].fd = Scan =>
                 \/ Parsing' /\ ctxs[c].fd = Scan'
                 \/ WaitsForMore(ctxs[c].msglen, ctxs[c].readbuf)
    PROVE  ParseOK'
<1> SUFFICES ASSUME NEW c \in 1..Len(ctxs)
             PROVE  /\ CtxParsed(ctxs[c], sock'[ctxs[c].fd], handled[ctxs[c].id])
                    /\ \/ Parsing' /\ ctxs[c].fd = Scan'
                       \/ WaitsForMore(ctxs[c].msglen, ctxs[c].readbuf)
  BY DEF ParseOK
<1>1. ctxs[c].fd \in OpenFds
  BY DEF ListenerInv, CtxsOK
<1>2. CtxParsed(ctxs[c], sock[ctxs[c].fd], handled[ctxs[c].id])
  BY DEF ListenerInv, ParseOK
<1>3. CtxParsed(ctxs[c], sock'[ctxs[c].fd], handled[ctxs[c].id])
  BY <1>1, <1>2 DEF CtxParsed
<1>4. (Parsing /\ ctxs[c].fd = Scan) \/ WaitsForMore(ctxs[c].msglen, ctxs[c].readbuf)
  BY DEF ListenerInv, ParseOK
<1> QED BY <1>3, <1>4

\* Nothing in the books changes.
LEMMA AllKept ==
    ASSUME ListenerInv, lpc # "start", lpc' # "start",
           UNCHANGED <<sock, backlog, ctxs, readfds, maxfd, conns, handled>>
    PROVE  OpenFds' = OpenFds /\ SocksOK' /\ BacklogOK' /\ CtxsOK' /\ WatchedOK'
<1>1. \A fd \in ConnFds \ OpenFds : sock[fd] = NoConn
  BY DEF OpenFds
<1>2. /\ sock \in [ConnFds -> Conns \cup {NoConn}]
      /\ \A fd \in OpenFds : /\ sock[fd].received <= sock[fd].arrived
                             /\ sock[fd].arrived <= Len(sock[fd].stream)
      /\ ctxs \in Seq(Ctxs) /\ handled \in [1..MaxConns -> Seq(Seq(Byte))]
  BY DEF ListenerInv, SocksOK, CtxsOK, BacklogOK
<1>3. \A fd \in OpenFds : sock[fd] \in Conns
  BY OpenAre
<1> QED BY <1>1, <1>2, <1>3, BooksKept

LEMMA ListenerInvInit == Init => ListenerInv
<1> SUFFICES ASSUME Init PROVE ListenerInv
  OBVIOUS
<1>1. sock \in [ConnFds -> Conns \cup {NoConn}] /\ OpenFds = {}
  BY DEF Init, OpenFds
<1>2. SocksOK
  BY <1>1 DEF SocksOK
<1>3. BacklogOK
  <2>1. conns \in 0..MaxConns /\ backlog \in Seq(Conns) /\ Len(backlog) = 0
    BY FdsAre DEF Init
  <2>2. <<>> \in Seq(Seq(Byte))
    OBVIOUS
  <2>3. /\ handled \in [1..MaxConns -> Seq(Seq(Byte))]
        /\ \A id \in 1..MaxConns : handled[id] = <<>>
    BY <2>2 DEF Init
  <2> QED BY <1>1, <2>1, <2>3 DEF BacklogOK
<1>4. CtxsOK
  <2>1. ctxs \in Seq(Ctxs) /\ Len(ctxs) = 0
    BY DEF Init
  <2> QED BY <1>1, <2>1 DEF CtxsOK
<1>5. WatchedOK
  BY <1>1, ListenerAssumption DEF Init, WatchedOK
<1>6. PassOK
  BY DEF Init, PassOK
<1>7. ParseOK
  BY DEF Init, ParseOK
<1> QED BY <1>2, <1>3, <1>4, <1>5, <1>6, <1>7 DEF ListenerInv

LEMMA ListenOK == ASSUME ListenerInv, Listen PROVE ListenerInv'
<1> USE DEF ListenerInv, Listen
<1>1. OpenFds' = OpenFds /\ OpenFds = {} /\ backlog = <<>>
  BY DEF OpenFds, WatchedOK
<1>2. SocksOK' /\ BacklogOK' /\ CtxsOK'
  BY <1>1 DEF SocksOK, BacklogOK, CtxsOK
<1>3. WatchedOK'
  BY <1>1, FdsAre DEF WatchedOK
<1>4. PassOK'
  BY DEF PassOK
<1>5. ParseOK'
  <2>1. \A fd \in OpenFds : FALSE
    BY <1>1
  <2>2. ~Parsing
    BY DEF Parsing
  <2> QED BY <2>2, ParseKept
<1> QED BY <1>2, <1>3, <1>4, <1>5

LEMMA SelectOK == ASSUME ListenerInv, Select PROVE ListenerInv'
<1> USE DEF ListenerInv, Select
<1>1. OpenFds' = OpenFds /\ SocksOK' /\ BacklogOK' /\ CtxsOK' /\ WatchedOK'
  BY AllKept
<1>2. PassOK'
  <2>1. tmpr' \subseteq readfds
    BY DEF Watched
  <2>2. ListenFd \in tmpr' => backlog # <<>>
    <3>1. ListenFd \in tmpr' => Readable(ListenFd)
      OBVIOUS
    <3>2. Readable(ListenFd) => backlog # <<>>
      BY FdsAre DEF Readable
    <3> QED BY <3>1, <3>2
  <2> QED BY <2>1, <2>2 DEF PassOK
<1>3. ParseOK'
  <2>1. ~Parsing
    BY DEF Parsing
  <2> QED BY <2>1, ParseKept
<1> QED BY <1>1, <1>2, <1>3

LEMMA UnblockedOK == ASSUME ListenerInv, Unblocked PROVE ListenerInv'
<1> USE DEF ListenerInv, Unblocked, AtFd
<1>1. OpenFds' = OpenFds /\ SocksOK' /\ BacklogOK' /\ CtxsOK' /\ WatchedOK'
  BY AllKept
<1>2. PassOK'
  BY DEF PassOK
<1>3. ParseOK'
  <2>1. ~Parsing
    BY DEF Parsing
  <2> QED BY <2>1, ParseKept
<1> QED BY <1>1, <1>2, <1>3

LEMMA NothingWaits == WaitsForMore(0, <<>>)
BY DEF WaitsForMore, LengthIsThere, BodyIsThere

LEMMA AcceptOK == ASSUME ListenerInv, Accept PROVE ListenerInv'
<1> USE DEF ListenerInv, Accept, AtFd
<1> DEFINE free == {fd \in ConnFds : sock[fd] = NoConn}
<1>1. /\ Scan \in tmpr /\ tmpr' = tmpr \ {ListenFd} /\ backlog # <<>>
      /\ lpc = "select" /\ lpc' = "select" /\ UNCHANGED <<pipe, eof, conns, handled>>
  BY ScanShape DEF PassOK
<1>2. CASE free = {}
  <2>1. OpenFds' = OpenFds /\ SocksOK' /\ BacklogOK' /\ CtxsOK' /\ WatchedOK'
    BY <1>1, <1>2, AllKept
  <2>2. PassOK'
    BY <1>1, <1>2 DEF PassOK
  <2>3. ParseOK'
    <3>1. ~Parsing
      BY DEF Parsing
    <3> QED BY <1>2, <3>1, ParseKept
  <2> QED BY <2>1, <2>2, <2>3
<1>3. CASE free # {}
  <2> DEFINE fd == Min(free)
             x == Head(backlog)
             y == [fd |-> fd, id |-> x.id, readbuf |-> <<>>, msglen |-> 0]
  <2>1. /\ sock' = [sock EXCEPT ![fd] = x] /\ backlog' = Tail(backlog)
        /\ ctxs' = Append(ctxs, y) /\ readfds' = readfds \cup {fd}
        /\ maxfd' = IF fd > maxfd THEN fd ELSE maxfd
    BY <1>3
  <2>2. fd \in ConnFds \ OpenFds
    <3>1. free \in SUBSET Nat
      BY FdsAre
    <3>2. Min(free) \in free
      <4> HIDE DEF free
      <4> QED BY <1>3, <3>1, LeastOf
    <3> QED BY <3>2 DEF OpenFds
  <2> HIDE DEF free, fd, x
  <2>3. /\ OpenFds' = OpenFds \cup {fd}
        /\ SocksOK' /\ BacklogOK' /\ CtxsOK' /\ WatchedOK'
        /\ x \in Conns /\ x.received = 0 /\ handled[x.id] = <<>>
    BY <1>1, <2>1, <2>2, BooksOfAccepted DEF x
  <2>4. PassOK'
    BY <1>1, <2>1 DEF PassOK
  <2>5. y.fd = fd /\ y.id = x.id /\ y.msglen = 0 /\ y.readbuf = <<>> /\ y \in Ctxs
    <3>1. x.id \in 1..MaxConns
      BY <2>3 DEF Conns
    <3>2. <<>> \in Seq(Byte)
      OBVIOUS
    <3> QED BY <2>2, <3>1, <3>2 DEF Ctxs
  <2> HIDE DEF y
  <2>6. CtxParsed(y, x, <<>>) /\ WaitsForMore(y.msglen, y.readbuf)
    <3>1. x.stream \in Seq(Byte)
      BY <2>3 DEF Conns
    <3>2. 1 \in 1..(Len(x.stream) + 1) /\ 0 \in (1 - 1)..Len(x.stream)
      BY <3>1
    <3>3. SubSeq(x.stream, 1, 0) = <<>>
      BY <3>1
    <3>4. 0 \in 0..x.received /\ 0 + 1 = 1
      BY <2>3
    <3> QED BY <2>3, <2>5, <3>3, <3>4, ParsedNothing, NothingWaits DEF CtxParsed
  <2>7. ParseOK'
    <3> SUFFICES ASSUME NEW c \in 1..Len(ctxs')
                 PROVE  /\ CtxParsed(ctxs'[c], sock'[ctxs'[c].fd], handled'[ctxs'[c].id])
                        /\ WaitsForMore(ctxs'[c].msglen, ctxs'[c].readbuf)
      BY DEF ParseOK
    <3>1. /\ ctxs \in Seq(Ctxs) /\ Len(ctxs) \in Nat /\ Len(ctxs') = Len(ctxs) + 1
          /\ ctxs'[Len(ctxs) + 1] = y
          /\ \A d \in 1..Len(ctxs) : ctxs'[d] = ctxs[d]
      BY <2>1, <2>5 DEF CtxsOK
    <3>2. sock'[fd] = x /\ \A d \in OpenFds : sock'[d] = sock[d]
      BY <2>1, <2>2 DEF SocksOK, OpenFds
    <3>3. CASE c = Len(ctxs) + 1
      BY <1>1, <2>3, <2>5, <2>6, <3>1, <3>2, <3>3
    <3>4. CASE c \in 1..Len(ctxs)
      <4>1. ctxs'[c] = ctxs[c] /\ ctxs[c].fd \in OpenFds /\ sock'[ctxs[c].fd] = sock[ctxs[c].fd]
        BY <3>1, <3>2, <3>4 DEF CtxsOK
      <4>2. ~Parsing
        BY <1>1 DEF Parsing
      <4> QED BY <1>1, <3>4, <4>1, <4>2 DEF ParseOK
    <3> QED BY <3>1, <3>3, <3>4
  <2> QED BY <2>3, <2>4, <2>7
<1> QED BY <1>2, <1>3

\* The connection that the pass is at, its ctx, and where that stands.
LEMMA ScanCtx ==
    ASSUME ListenerInv, tmpr # {}, Scan \in OpenFds
    PROVE  /\ Ctx \in 1..Len(ctxs) /\ ctxs[Ctx].fd = Scan /\ ctxs[Ctx] \in Ctxs
           /\ ctxs[Ctx].id = sock[Scan].id
           /\ \A d \in 1..Len(ctxs) : d # Ctx => /\ ctxs[d].fd \in OpenFds \ {Scan}
                                                 /\ ctxs[d].id # ctxs[Ctx].id
           /\ Scan \in ConnFds /\ sock[Scan] \in Conns /\ ctxs[Ctx].id \in 1..MaxConns
           /\ sock[Scan].received <= sock[Scan].arrived
           /\ sock[Scan].arrived <= Len(sock[Scan].stream)
           /\ sock[Scan].received <= Len(sock[Scan].stream)
           /\ CtxParsed(ctxs[Ctx], sock[Scan], handled[ctxs[Ctx].id])
           /\ handled[ctxs[Ctx].id] \in Seq(Seq(Byte))
<1>1. /\ Ctx \in 1..Len(ctxs) /\ ctxs[Ctx].fd = Scan /\ ctxs[Ctx] \in Ctxs
      /\ ctxs[Ctx].id = sock[Scan].id
      /\ \A d \in 1..Len(ctxs) : ctxs[d].fd = Scan => d = Ctx
  BY CtxOfFd DEF Ctx
<1>2. \A d \in 1..Len(ctxs) : d # Ctx => /\ ctxs[d].fd \in OpenFds \ {Scan}
                                         /\ ctxs[d].id # ctxs[Ctx].id
  <2> TAKE d \in 1..Len(ctxs)
  <2> HAVE d # Ctx
  <2>1. /\ ctxs[d].fd \in OpenFds /\ ctxs[d].fd # Scan
        /\ sock[ctxs[d].fd].id = ctxs[d].id
    BY <1>1 DEF ListenerInv, CtxsOK
  <2> QED BY <1>1, <2>1 DEF ListenerInv, SocksOK
<1>3. /\ Scan \in ConnFds /\ sock[Scan] \in Conns
      /\ sock[Scan].received <= sock[Scan].arrived
      /\ sock[Scan].arrived <= Len(sock[Scan].stream)
  BY OpenAre DEF ListenerInv, SocksOK
<1>4. sock[Scan].received <= Len(sock[Scan].stream)
  <2>1. /\ sock[Scan].received \in Nat /\ sock[Scan].arrived \in Nat
        /\ Len(sock[Scan].stream) \in Nat
    BY <1>3 DEF Conns
  <2> QED BY <1>3, <2>1
<1>5. ctxs[Ctx].id \in 1..MaxConns
  BY <1>1 DEF Ctxs
<1>6. CtxParsed(ctxs[Ctx], sock[Scan], handled[ctxs[Ctx].id])
  BY <1>1 DEF ListenerInv, ParseOK
<1>7. handled[ctxs[Ctx].id] \in Seq(Seq(Byte))
  BY <1>5 DEF ListenerInv, BacklogOK
<1> QED BY <1>1, <1>2, <1>3, <1>4, <1>5, <1>6, <1>7

LEMMA CtxReplaced ==
    ASSUME ListenerInv, NEW c \in 1..Len(ctxs), NEW y \in Ctxs,
           y.fd = ctxs[c].fd, y.id = ctxs[c].id, ctxs' = [ctxs EXCEPT ![c] = y]
    PROVE  /\ ctxs' \in Seq(Ctxs) /\ Len(ctxs') = Len(ctxs) /\ ctxs'[c] = y
           /\ \A d \in 1..Len(ctxs) : d # c => ctxs'[d] = ctxs[d]
           /\ \A d \in 1..Len(ctxs) : ctxs'[d].fd = ctxs[d].fd /\ ctxs'[d].id = ctxs[d].id
<1>1. ctxs \in Seq(Ctxs)
  BY DEF ListenerInv, CtxsOK
<1>2. /\ ctxs' \in Seq(Ctxs) /\ Len(ctxs') = Len(ctxs) /\ ctxs'[c] = y
      /\ \A d \in 1..Len(ctxs) : d # c => ctxs'[d] = ctxs[d]
  <2>1. /\ [ctxs EXCEPT ![c] = y] \in Seq(Ctxs)
        /\ Len([ctxs EXCEPT ![c] = y]) = Len(ctxs)
        /\ [ctxs EXCEPT ![c] = y][c] = y
        /\ \A d \in 1..Len(ctxs) : d # c => [ctxs EXCEPT ![c] = y][d] = ctxs[d]
    BY <1>1, ExceptSeq
  <2> QED BY <2>1
<1> QED BY <1>2

\* All other ctxs wait for more, and stay as they are.
LEMMA ParseOfOne ==
    ASSUME ListenerInv, Parsing \/ lpc' = "parse", tmpr # {}, Scan \in OpenFds,
           Parsing', UNCHANGED tmpr, Len(ctxs') = Len(ctxs),
           \A d \in 1..Len(ctxs) : d # Ctx => ctxs'[d] = ctxs[d],
           \A fd \in OpenFds \ {Scan} : sock'[fd] = sock[fd],
           \A id \in 1..MaxConns : id # ctxs[Ctx].id => handled'[id] = handled[id],
           ctxs'[Ctx].fd = Scan, ctxs'[Ctx].id = ctxs[Ctx].id,
           CtxParsed(ctxs'[Ctx], sock'[Scan], handled'[ctxs[Ctx].id])
    PROVE  ParseOK'
<1> SUFFICES ASSUME NEW c \in 1..Len(ctxs)
             PROVE  /\ CtxParsed(ctxs'[c], sock'[ctxs'[c].fd], handled'[ctxs'[c].id])
                    /\ \/ Parsing' /\ ctxs'[c].fd = Scan'
                       \/ WaitsForMore(ctxs'[c].msglen, ctxs'[c].readbuf)
  BY DEF ParseOK
<1>1. Scan' = Scan
  BY DEF Scan
<1>2. CASE c = Ctx
  BY <1>1, <1>2
<1>3. CASE c # Ctx
  <2>1. /\ ctxs[c].fd \in OpenFds \ {Scan} /\ ctxs[c].id # ctxs[Ctx].id
        /\ ctxs[c].id \in 1..MaxConns
    <3>1. ctxs[c] \in Ctxs
      BY DEF ListenerInv, CtxsOK
    <3> QED BY <1>3, <3>1, ScanCtx DEF Ctxs
  <2>2. ctxs'[c] = ctxs[c] /\ sock'[ctxs[c].fd] = sock[ctxs[c].fd]
        /\ handled'[ctxs[c].id] = handled[ctxs[c].id]
    BY <1>3, <2>1
  <2>3. /\ CtxParsed(ctxs[c], sock[ctxs[c].fd], handled[ctxs[c].id])
        /\ WaitsForMore(ctxs[c].msglen, ctxs[c].readbuf)
    BY <2>1 DEF ListenerInv, ParseOK
  <2> QED BY <2>2, <2>3
<1> QED BY <1>2, <1>3

LEMMA RecvOK == ASSUME ListenerInv, Recv PROVE ListenerInv'
<1> DEFINE s == sock[Scan]
           x == ctxs[Ctx]
           z == [s EXCEPT !.received = s.arrived, !.end = IF s.end = "reset" THEN "eof" ELSE s.end]
           y == [x EXCEPT !.readbuf = x.readbuf \o SubSeq(s.stream, s.received + 1, s.arrived)]
<1>1. /\ tmpr # {} /\ lpc = "select" /\ lpc' = "parse" /\ Scan \in ConnFds
      /\ sock' = [sock EXCEPT ![Scan] = z] /\ ctxs' = [ctxs EXCEPT ![Ctx] = y]
      /\ eof' = (s.end = "eof")
      /\ UNCHANGED <<backlog, pipe, readfds, maxfd, tmpr, conns, handled>>
  BY DEF Recv, AtFd
<1>2. Scan \in OpenFds
  BY <1>1, ScanShape
<1>3. /\ Ctx \in 1..Len(ctxs) /\ x.fd = Scan /\ x \in Ctxs /\ x.id = s.id
      /\ s \in Conns /\ s.received <= s.arrived /\ s.arrived <= Len(s.stream)
      /\ CtxParsed(x, s, handled[x.id])
  BY <1>1, <1>2, ScanCtx
<1>4. /\ z \in Conns /\ z.id = s.id /\ z.stream = s.stream
      /\ z.received = s.arrived /\ z.arrived = s.arrived
  BY <1>3 DEF Conns
<1>5. /\ y \in Ctxs /\ y.fd = x.fd /\ y.id = x.id /\ y.msglen = x.msglen
      /\ y.readbuf = x.readbuf \o SubSeq(s.stream, s.received + 1, s.arrived)
  <2>1. s.stream \in Seq(Byte) /\ s.received \in 0..s.arrived /\ s.arrived \in 0..Len(s.stream)
    BY <1>3 DEF Conns
  <2>2. SubSeq(s.stream, s.received + 1, s.arrived) \in Seq(Byte)
    BY <2>1, BufferShape
  <2>3. x.readbuf \o SubSeq(s.stream, s.received + 1, s.arrived) \in Seq(Byte)
    BY <1>3, <2>2 DEF Ctxs
  <2> QED BY <1>3, <2>3 DEF Ctxs
<1>6. CtxParsed(y, z, handled[x.id])
  <2> HIDE DEF s, x, y, z
  <2> QED BY <1>3, <1>4, <1>5, CtxReceives
<1> HIDE DEF s, x, y, z
<1>7. /\ sock' \in [ConnFds -> Conns \cup {NoConn}] /\ sock'[Scan] = z
      /\ \A fd \in ConnFds \ {Scan} : sock'[fd] = sock[fd]
  BY <1>1, <1>4 DEF ListenerInv, SocksOK
<1>8. /\ ctxs' \in Seq(Ctxs) /\ Len(ctxs') = Len(ctxs) /\ ctxs'[Ctx] = y
      /\ \A d \in 1..Len(ctxs) : d # Ctx => ctxs'[d] = ctxs[d]
      /\ \A d \in 1..Len(ctxs) : ctxs'[d].fd = ctxs[d].fd /\ ctxs'[d].id = ctxs[d].id
  BY <1>1, <1>3, <1>5, CtxReplaced DEF x
<1>9. OpenFds' = OpenFds /\ SocksOK' /\ BacklogOK' /\ CtxsOK' /\ WatchedOK'
  <2>1. \A fd \in ConnFds \ OpenFds : sock'[fd] = NoConn
    BY <1>2, <1>7 DEF OpenFds
  <2>2. \A fd \in OpenFds : /\ sock'[fd] \in Conns /\ sock'[fd].id = sock[fd].id
                            /\ sock'[fd].received <= sock'[fd].arrived
                            /\ sock'[fd].arrived <= Len(sock'[fd].stream)
    <3> TAKE fd \in OpenFds
    <3>1. CASE fd = Scan
      <4>1. s.arrived \in Nat
        BY <1>3 DEF Conns
      <4> QED BY <1>3, <1>4, <1>7, <3>1, <4>1 DEF s
    <3>2. CASE fd # Scan
      BY <1>7, <3>2, OpenAre DEF ListenerInv, SocksOK
    <3> QED BY <3>1, <3>2
  <2>3. handled \in [1..MaxConns -> Seq(Seq(Byte))]
    BY DEF ListenerInv, BacklogOK
  <2> QED BY <1>1, <1>7, <1>8, <2>1, <2>2, <2>3, BooksKept
<1>10. PassOK'
  BY <1>1, <1>2, <1>9 DEF ListenerInv, PassOK, Scan
<1>11. ParseOK'
  <2>1. Parsing'
    BY <1>1 DEF Parsing
  <2>2. \A fd \in OpenFds \ {Scan} : sock'[fd] = sock[fd]
    BY <1>7 DEF OpenFds
  <2> QED BY <1>1, <1>2, <1>3, <1>5, <1>6, <1>7, <1>8, <2>1, <2>2, ParseOfOne DEF x
<1> QED BY <1>9, <1>10, <1>11 DEF ListenerInv

LEMMA ReadLengthOK == ASSUME ListenerInv, ReadLength PROVE ListenerInv'
<1> DEFINE s == sock[Scan]
           x == ctxs[Ctx]
           y == [x EXCEPT !.msglen = U16(x.readbuf), !.readbuf = BufferShift(x.readbuf, 2)]
<1>1. /\ lpc = "parse" /\ Parsing
      /\ LengthIsThere(x.msglen, x.readbuf) /\ ~LengthIsZero(x.msglen, x.readbuf)
      /\ ctxs' = [ctxs EXCEPT ![Ctx] = y]
      /\ UNCHANGED <<lpc, sock, backlog, pipe, readfds, maxfd, tmpr, eof, conns, handled>>
  BY DEF ReadLength, Parsing
<1>2. tmpr # {} /\ Scan \in OpenFds
  BY <1>1 DEF ListenerInv, PassOK
<1>3. /\ Ctx \in 1..Len(ctxs) /\ x.fd = Scan /\ x \in Ctxs
      /\ s \in Conns /\ s.received <= Len(s.stream)
      /\ CtxParsed(x, s, handled[x.id])
  BY <1>2, ScanCtx
<1>4. /\ y.msglen = U16(x.readbuf) /\ y.readbuf = BufferShift(x.readbuf, 2)
      /\ y.fd = x.fd /\ y.id = x.id
  BY <1>3 DEF Ctxs
<1>5. CtxParsed(y, s, handled[x.id]) /\ y.msglen \in Nat /\ y.readbuf \in Seq(Byte)
  <2> HIDE DEF s, x, y
  <2> QED BY <1>1, <1>3, <1>4, CtxTakesLength
<1>6. y \in Ctxs
  BY <1>3, <1>4, <1>5 DEF Ctxs
<1> HIDE DEF s, x, y
<1>7. /\ ctxs' \in Seq(Ctxs) /\ Len(ctxs') = Len(ctxs) /\ ctxs'[Ctx] = y
      /\ \A d \in 1..Len(ctxs) : d # Ctx => ctxs'[d] = ctxs[d]
      /\ \A d \in 1..Len(ctxs) : ctxs'[d].fd = ctxs[d].fd /\ ctxs'[d].id = ctxs[d].id
  BY <1>1, <1>3, <1>4, <1>6, CtxReplaced DEF x
<1>8. OpenFds' = OpenFds /\ SocksOK' /\ BacklogOK' /\ CtxsOK' /\ WatchedOK'
  <2>1. \A fd \in ConnFds \ OpenFds : sock[fd] = NoConn
    BY DEF OpenFds
  <2>2. /\ sock \in [ConnFds -> Conns \cup {NoConn}]
        /\ \A fd \in OpenFds : /\ sock[fd].received <= sock[fd].arrived
                               /\ sock[fd].arrived <= Len(sock[fd].stream)
        /\ handled \in [1..MaxConns -> Seq(Seq(Byte))]
    BY DEF ListenerInv, SocksOK, BacklogOK
  <2>3. \A fd \in OpenFds : sock[fd] \in Conns
    BY OpenAre
  <2> QED BY <1>1, <1>7, <2>1, <2>2, <2>3, BooksKept
<1>9. PassOK'
  BY <1>1, <1>8 DEF ListenerInv, PassOK, Scan
<1>10. ParseOK'
  <2>1. Parsing'
    BY <1>1 DEF Parsing
  <2> QED BY <1>1, <1>2, <1>3, <1>4, <1>5, <1>7, <2>1, ParseOfOne DEF x, s
<1> QED BY <1>8, <1>9, <1>10 DEF ListenerInv

LEMMA ReadBodyOK == ASSUME ListenerInv, ReadBody PROVE ListenerInv'
<1> DEFINE s == sock[Scan]
           x == ctxs[Ctx]
           b == SubSeq(x.readbuf, 1, x.msglen)
           y == [x EXCEPT !.readbuf = BufferShift(x.readbuf, x.msglen), !.msglen = 0]
<1>1. /\ lpc = "parse" /\ Parsing /\ BodyIsThere(x.msglen, x.readbuf)
      /\ handled' = [handled EXCEPT ![x.id] = Append(@, b)]
      /\ ctxs' = [ctxs EXCEPT ![Ctx] = y]
      /\ UNCHANGED <<lpc, sock, backlog, pipe, readfds, maxfd, tmpr, eof, conns>>
  BY DEF ReadBody, Parsing
<1>2. tmpr # {} /\ Scan \in OpenFds
  BY <1>1 DEF ListenerInv, PassOK
<1>3. /\ Ctx \in 1..Len(ctxs) /\ x.fd = Scan /\ x \in Ctxs /\ x.id = s.id
      /\ s \in Conns /\ s.received <= Len(s.stream) /\ x.id \in 1..MaxConns
      /\ CtxParsed(x, s, handled[x.id]) /\ handled[x.id] \in Seq(Seq(Byte))
  BY <1>2, ScanCtx
<1>4. /\ y.msglen = 0 /\ y.readbuf = BufferShift(x.readbuf, x.msglen)
      /\ y.fd = x.fd /\ y.id = x.id
  BY <1>3 DEF Ctxs
<1>5. /\ CtxParsed(y, s, Append(handled[x.id], b))
      /\ y.readbuf \in Seq(Byte) /\ b \in Seq(Byte)
  <2> HIDE DEF s, x, y
  <2> QED BY <1>1, <1>3, <1>4, CtxTakesBody
<1>6. y \in Ctxs
  BY <1>3, <1>4, <1>5 DEF Ctxs
<1> HIDE DEF s, x, b, y
<1>7. /\ ctxs' \in Seq(Ctxs) /\ Len(ctxs') = Len(ctxs) /\ ctxs'[Ctx] = y
      /\ \A d \in 1..Len(ctxs) : d # Ctx => ctxs'[d] = ctxs[d]
      /\ \A d \in 1..Len(ctxs) : ctxs'[d].fd = ctxs[d].fd /\ ctxs'[d].id = ctxs[d].id
  BY <1>1, <1>3, <1>4, <1>6, CtxReplaced DEF x
<1>8. /\ handled' \in [1..MaxConns -> Seq(Seq(Byte))]
      /\ handled'[x.id] = Append(handled[x.id], b)
      /\ \A id \in 1..MaxConns : id # x.id => handled'[id] = handled[id]
  BY <1>1, <1>3, <1>5 DEF ListenerInv, BacklogOK
<1>9. OpenFds' = OpenFds /\ SocksOK' /\ BacklogOK' /\ CtxsOK' /\ WatchedOK'
  <2>1. \A fd \in ConnFds \ OpenFds : sock[fd] = NoConn
    BY DEF OpenFds
  <2>2. /\ sock \in [ConnFds -> Conns \cup {NoConn}]
        /\ \A fd \in OpenFds : /\ sock[fd].received <= sock[fd].arrived
                               /\ sock[fd].arrived <= Len(sock[fd].stream)
    BY DEF ListenerInv, SocksOK
  <2>3. \A fd \in OpenFds : sock[fd] \in Conns
    BY OpenAre
  <2>4. \A id \in 1..MaxConns :
           (\A fd \in OpenFds : sock[fd].id # id) => handled'[id] = handled[id]
    BY <1>2, <1>3, <1>8 DEF s
  <2> QED BY <1>1, <1>7, <1>8, <2>1, <2>2, <2>3, <2>4, BooksKept
<1>10. PassOK'
  BY <1>1, <1>9 DEF ListenerInv, PassOK, Scan
<1>11. ParseOK'
  <2>1. Parsing'
    BY <1>1 DEF Parsing
  <2> QED BY <1>1, <1>2, <1>3, <1>4, <1>5, <1>7, <1>8, <2>1, ParseOfOne DEF x, s
<1> QED BY <1>9, <1>10, <1>11 DEF ListenerInv

LEMMA ReadMoreOK == ASSUME ListenerInv, ReadMore PROVE ListenerInv'
<1>1. /\ lpc = "parse" /\ lpc' = "select" /\ tmpr' = tmpr \ {Scan} /\ eof' = FALSE
      /\ WaitsForMore(ctxs[Ctx].msglen, ctxs[Ctx].readbuf)
      /\ UNCHANGED <<sock, backlog, pipe, ctxs, readfds, maxfd, conns, handled>>
  BY DEF ReadMore, NextFd, Parsing
<1>2. tmpr # {} /\ Scan \in OpenFds
  BY <1>1 DEF ListenerInv, PassOK
<1>3. OpenFds' = OpenFds /\ SocksOK' /\ BacklogOK' /\ CtxsOK' /\ WatchedOK'
  BY <1>1, AllKept
<1>4. PassOK'
  BY <1>1 DEF ListenerInv, PassOK
<1>5. ParseOK'
  <2>1. \A c \in 1..Len(ctxs) :
           ctxs[c].fd = Scan => WaitsForMore(ctxs[c].msglen, ctxs[c].readbuf)
    <3> TAKE c \in 1..Len(ctxs)
    <3> HAVE ctxs[c].fd = Scan
    <3>1. c = Ctx
      BY <1>2, CtxOfFd DEF Ctx
    <3> QED BY <1>1, <3>1
  <2> QED BY <1>1, <2>1, ParseKept
<1> QED BY <1>3, <1>4, <1>5 DEF ListenerInv

LEMMA ReadEofOK == ASSUME ListenerInv, ReadEof PROVE ListenerInv'
<1>1. /\ lpc = "parse" /\ lpc' = "select" /\ tmpr' = tmpr \ {Scan} /\ eof' = FALSE
      /\ readfds' = readfds \ {Scan} /\ sock' = [sock EXCEPT ![Scan] = NoConn]
      /\ ctxs' = RemoveAt(ctxs, Ctx)
      /\ UNCHANGED <<backlog, pipe, maxfd, conns, handled>>
  BY DEF ReadEof, NextFd, Unwatch, Parsing
<1>2. tmpr # {} /\ Scan \in OpenFds
  BY <1>1 DEF ListenerInv, PassOK
<1>3. /\ OpenFds' = OpenFds \ {Scan}
      /\ SocksOK' /\ BacklogOK' /\ CtxsOK' /\ WatchedOK'
      /\ \A k \in 1..Len(ctxs') : \E d \in 1..Len(ctxs) : d # Ctx /\ ctxs'[k] = ctxs[d]
  <2>1. Closes(Scan, Ctx)
    BY <1>1 DEF Closes, Ctx
  <2>2. lpc # "start" /\ lpc' # "start"
    BY <1>1
  <2> QED BY <1>2, <2>1, <2>2, BooksOfClosed
<1>4. PassOK'
  BY <1>1 DEF ListenerInv, PassOK
<1>5. ParseOK'
  <2> SUFFICES ASSUME NEW k \in 1..Len(ctxs')
               PROVE  /\ CtxParsed(ctxs'[k], sock'[ctxs'[k].fd], handled'[ctxs'[k].id])
                      /\ WaitsForMore(ctxs'[k].msglen, ctxs'[k].readbuf)
    BY DEF ParseOK
  <2>1. PICK d \in 1..Len(ctxs) : d # Ctx /\ ctxs'[k] = ctxs[d]
    BY <1>3
  <2>2. ctxs[d].fd \in OpenFds \ {Scan}
    BY <1>2, <2>1, ScanCtx
  <2>3. sock'[ctxs[d].fd] = sock[ctxs[d].fd]
    BY <1>1, <2>2 DEF ListenerInv, SocksOK, OpenFds
  <2>4. /\ CtxParsed(ctxs[d], sock[ctxs[d].fd], handled[ctxs[d].id])
        /\ WaitsForMore(ctxs[d].msglen, ctxs[d].readbuf)
    BY <2>2 DEF ListenerInv, ParseOK
  <2> QED BY <1>1, <2>1, <2>3, <2>4
<1> QED BY <1>3, <1>4, <1>5 DEF ListenerInv

LEMMA ConnectToOK ==
    ASSUME ListenerInv, conns < MaxConns, NEW s \in Streams[conns + 1], ConnectTo(s)
    PROVE  ListenerInv'
<1> DEFINE x == Conn(conns + 1, s)
<1>1. /\ lpc \in {"select", "parse"} /\ conns' = conns + 1 /\ backlog' = Append(backlog, x)
      /\ UNCHANGED <<lpc, sock, pipe, ctxs, readfds, maxfd, tmpr, eof, handled>>
  BY DEF ConnectTo, loopVars
<1>2. /\ conns \in Nat /\ MaxConns \in Nat /\ conns + 1 \in 1..MaxConns
      /\ conns + 1 \in 0..MaxConns
  BY FdsAre DEF ListenerInv, BacklogOK
<1>3. s \in Seq(Byte)
  <2>1. Streams \in Seq(SUBSET Seq(Byte)) /\ conns + 1 \in 1..Len(Streams)
    BY <1>2, ListenerAssumption DEF MaxConns
  <2>2. Streams[conns + 1] \in SUBSET Seq(Byte)
    BY <2>1
  <2> QED BY <2>2
<1>4. /\ x \in Conns /\ x.id = conns + 1 /\ x.arrived = 0 /\ x.received = 0
  BY <1>2, <1>3 DEF Conns, Conn
<1> HIDE DEF x
<1>5. /\ backlog \in Seq(Conns) /\ Len(backlog) \in Nat /\ Len(backlog') = Len(backlog) + 1
      /\ backlog' \in Seq(Conns) /\ backlog'[Len(backlog) + 1] = x
      /\ \A k \in 1..Len(backlog) : backlog'[k] = backlog[k] /\ backlog[k].id # x.id
  <2>1. backlog \in Seq(Conns)
    BY DEF ListenerInv, BacklogOK
  <2>2. \A k \in 1..Len(backlog) : backlog[k].id # x.id
    <3> TAKE k \in 1..Len(backlog)
    <3>1. backlog[k] \in Conns /\ backlog[k].id <= conns
      BY <2>1 DEF ListenerInv, BacklogOK
    <3>2. backlog[k].id \in Nat
      BY <3>1 DEF Conns
    <3> QED BY <1>2, <1>4, <3>1, <3>2
  <2> QED BY <1>1, <1>4, <2>1, <2>2
<1>6. OpenFds' = OpenFds
  BY <1>1 DEF OpenFds
<1>7. \A fd \in OpenFds : sock[fd].id <= conns /\ sock[fd].id \in Nat
  BY OpenAre DEF ListenerInv, SocksOK, Conns
<1>8. SocksOK'
  <2>1. \A fd \in OpenFds : sock[fd].id <= conns + 1
    BY <1>2, <1>7
  <2> QED BY <1>1, <1>6, <2>1 DEF ListenerInv, SocksOK
<1>9. BacklogOK'
  <2>1. \A k \in 1..Len(backlog') :
           /\ backlog'[k].arrived = 0 /\ backlog'[k].received = 0
           /\ backlog'[k].id <= conns' /\ handled'[backlog'[k].id] = <<>>
           /\ \A fd \in OpenFds' : sock'[fd].id # backlog'[k].id
    <3> TAKE k \in 1..Len(backlog')
    <3>1. CASE k = Len(backlog) + 1
      <4>1. handled[x.id] = <<>>
        <5>1. x.id \in 1..MaxConns /\ x.id > conns
          BY <1>2, <1>4
        <5> QED BY <5>1 DEF ListenerInv, BacklogOK
      <4>2. \A fd \in OpenFds : sock[fd].id # x.id
        BY <1>2, <1>4, <1>7
      <4> QED BY <1>1, <1>2, <1>4, <1>5, <1>6, <3>1, <4>1, <4>2
    <3>2. CASE k \in 1..Len(backlog)
      <4>1. /\ backlog[k].arrived = 0 /\ backlog[k].received = 0
            /\ backlog[k].id <= conns /\ handled[backlog[k].id] = <<>>
            /\ \A fd \in OpenFds : sock[fd].id # backlog[k].id
        BY <3>2 DEF ListenerInv, BacklogOK
      <4>2. backlog[k].id \in Nat
        <5>1. backlog[k] \in Conns
          BY <3>2 DEF ListenerInv, BacklogOK
        <5> QED BY <5>1 DEF Conns
      <4>3. backlog[k].id <= conns + 1
        BY <1>2, <4>1, <4>2
      <4> QED BY <1>1, <1>5, <1>6, <3>2, <4>1, <4>3
    <3> QED BY <1>5, <3>1, <3>2
  <2>2. \A j, k \in 1..Len(backlog') : backlog'[j].id = backlog'[k].id => j = k
    BY <1>5 DEF ListenerInv, BacklogOK
  <2>3. \A id \in 1..MaxConns : id > conns' => handled'[id] = <<>>
    <3> TAKE id \in 1..MaxConns
    <3> HAVE id > conns'
    <3>1. id > conns
      BY <1>1, <1>2
    <3> QED BY <1>1, <3>1 DEF ListenerInv, BacklogOK
  <2>4. conns' \in 0..MaxConns /\ handled' \in [1..MaxConns -> Seq(Seq(Byte))]
    BY <1>1, <1>2 DEF ListenerInv, BacklogOK
  <2> QED BY <1>5, <2>1, <2>2, <2>3, <2>4 DEF BacklogOK
<1>10. CtxsOK'
  BY <1>1, <1>6 DEF ListenerInv, CtxsOK
<1>11. WatchedOK'
  BY <1>1, <1>6 DEF ListenerInv, WatchedOK
<1>12. PassOK'
  <2>1. backlog' # <<>>
    BY <1>5
  <2> QED BY <1>1, <1>6, <2>1 DEF ListenerInv, PassOK, Scan
<1>13. ParseOK'
  BY <1>1, ParseKept DEF Parsing, Scan
<1> QED BY <1>8, <1>9, <1>10, <1>11, <1>12, <1>13 DEF ListenerInv

\* Bytes arrive on a connection, or it ends.
LEMMA OtherSideOK ==
    ASSUME ListenerInv, NEW fd \in ConnFds, sock[fd] # NoConn, NEW x \in Conns,
           x.id = sock[fd].id, x.stream = sock[fd].stream, x.received = sock[fd].received,
           sock[fd].arrived <= x.arrived, x.arrived <= Len(x.stream),
           sock' = [sock EXCEPT ![fd] = x],
           UNCHANGED <<lpc, backlog, pipe, loopVars, conns, handled>>
    PROVE  ListenerInv'
<1>1. fd \in OpenFds /\ sock[fd] \in Conns
  BY DEF OpenFds, ListenerInv, SocksOK
<1>2. lpc # "start"
  BY <1>1 DEF ListenerInv, WatchedOK
<1>3. /\ sock' \in [ConnFds -> Conns \cup {NoConn}] /\ sock'[fd] = x
      /\ \A d \in ConnFds \ {fd} : sock'[d] = sock[d]
  BY DEF ListenerInv, SocksOK
<1>4. OpenFds' = OpenFds /\ SocksOK' /\ BacklogOK' /\ CtxsOK' /\ WatchedOK'
  <2>1. \A d \in ConnFds \ OpenFds : sock'[d] = NoConn
    BY <1>1, <1>3 DEF OpenFds
  <2>2. \A d \in OpenFds : /\ sock'[d] \in Conns /\ sock'[d].id = sock[d].id
                           /\ sock'[d].received <= sock'[d].arrived
                           /\ sock'[d].arrived <= Len(sock'[d].stream)
    <3> TAKE d \in OpenFds
    <3>1. CASE d = fd
      <4>1. sock[fd].received <= sock[fd].arrived
        BY <1>1 DEF ListenerInv, SocksOK
      <4>2. sock[fd].received \in Nat /\ sock[fd].arrived \in Nat /\ x.arrived \in Nat
        BY <1>1 DEF Conns
      <4>3. x.received <= x.arrived
        BY <4>1, <4>2
      <4> QED BY <1>3, <3>1, <4>3
    <3>2. CASE d # fd
      BY <1>3, <3>2, OpenAre DEF ListenerInv, SocksOK
    <3> QED BY <3>1, <3>2
  <2>3. ctxs \in Seq(Ctxs) /\ handled \in [1..MaxConns -> Seq(Seq(Byte))]
    BY DEF ListenerInv, CtxsOK, BacklogOK
  <2> QED BY <1>2, <1>3, <2>1, <2>2, <2>3, BooksKept DEF loopVars
<1>5. PassOK'
  BY <1>4 DEF ListenerInv, PassOK, loopVars, Scan
<1>6. ParseOK'
  <2>1. \A d \in OpenFds : /\ sock'[d].stream = sock[d].stream
                           /\ sock'[d].received = sock[d].received
    <3> TAKE d \in OpenFds
    <3>1. CASE d = fd
      BY <1>3, <3>1
    <3>2. CASE d # fd
      BY <1>3, <3>2 DEF OpenFds
    <3> QED BY <3>1, <3>2
  <2> QED BY <2>1, ParseKept DEF loopVars, Parsing, Scan
<1> QED BY <1>4, <1>5, <1>6 DEF ListenerInv

LEMMA ArriveOK == ASSUME ListenerInv, NEW fd \in ConnFds, Arrive(fd) PROVE ListenerInv'
<1>1. PICK k \in (sock[fd].arrived + 1)..Len(sock[fd].stream) :
         sock' = [sock EXCEPT ![fd].arrived = k]
  BY DEF Arrive
<1>2. sock[fd] # NoConn /\ UNCHANGED <<lpc, backlog, pipe, loopVars, conns, handled>>
  BY DEF Arrive
<1> DEFINE s == sock[fd]
           x == [s EXCEPT !.arrived = k]
<1>3. s \in Conns
  BY <1>2 DEF ListenerInv, SocksOK
<1>4. s.arrived \in Nat /\ Len(s.stream) \in Nat
  BY <1>3 DEF Conns
<1>5. k \in Nat /\ s.arrived <= k /\ k <= Len(s.stream)
  BY <1>4
<1>6. /\ x \in Conns /\ x.id = s.id /\ x.stream = s.stream /\ x.received = s.received
      /\ x.arrived = k
  BY <1>3, <1>5 DEF Conns
<1>7. sock' = [sock EXCEPT ![fd] = x]
  BY <1>1
<1> HIDE DEF x
<1> QED BY <1>2, <1>5, <1>6, <1>7, OtherSideOK

LEMMA EndOK ==
    ASSUME ListenerInv, NEW fd \in ConnFds, NEW how \in {"eof", "reset"}, End(fd, how)
    PROVE  ListenerInv'
<1>1. /\ sock[fd] # NoConn /\ UNCHANGED <<lpc, backlog, pipe, loopVars, conns, handled>>
      /\ sock' = [sock EXCEPT ![fd].end = how]
  BY DEF End
<1> DEFINE s == sock[fd]
           x == [s EXCEPT !.end = how]
<1>2. s \in Conns /\ s.arrived <= Len(s.stream)
  BY <1>1 DEF ListenerInv, SocksOK, OpenFds
<1>3. s.arrived \in Nat
  BY <1>2 DEF Conns
<1>4. /\ x \in Conns /\ x.id = s.id /\ x.stream = s.stream /\ x.received = s.received
      /\ x.arrived = s.arrived
  BY <1>2 DEF Conns
<1>5. sock' = [sock EXCEPT ![fd] = x]
  BY <1>1
<1> HIDE DEF x
<1>6. s.arrived <= x.arrived /\ x.arrived <= Len(x.stream)
  BY <1>2, <1>3, <1>4
<1> QED BY <1>1, <1>4, <1>5, <1>6, OtherSideOK

LEMMA UnblockOK == ASSUME ListenerInv, Unblock PROVE ListenerInv'
<1>1. /\ pipe = "empty" /\ pipe' = "written"
      /\ UNCHANGED <<lpc, sock, backlog, ctxs, readfds, maxfd, tmpr, eof, conns, handled>>
  BY DEF Unblock, loopVars
<1>2. lpc # "start"
  BY <1>1 DEF ListenerInv, WatchedOK
<1>3. OpenFds' = OpenFds /\ SocksOK' /\ BacklogOK' /\ CtxsOK' /\ WatchedOK'
  BY <1>1, <1>2, AllKept
<1>4. PassOK'
  BY <1>1, <1>3 DEF ListenerInv, PassOK, Scan
<1>5. ParseOK'
  BY <1>1, ParseKept DEF Parsing, Scan
<1> QED BY <1>3, <1>4, <1>5 DEF ListenerInv

LEMMA StutterOK == ASSUME ListenerInv, UNCHANGED vars PROVE ListenerInv'
BY DEF ListenerInv, SocksOK, BacklogOK, CtxsOK, WatchedOK, PassOK, ParseOK, OpenFds, Parsing,
       Scan, vars, loopVars

LEMMA ListenerInvNext == ListenerInv /\ [Next]_vars => ListenerInv'
<1> SUFFICES ASSUME ListenerInv, [Next]_vars PROVE ListenerInv'
  OBVIOUS
<1>1. CASE Thread
  BY <1>1, ListenOK, SelectOK, UnblockedOK, AcceptOK, RecvOK, ReadLengthOK, ReadBodyOK,
     ReadMoreOK, ReadEofOK DEF Thread
<1>2. CASE conns < MaxConns /\ \E s \in Streams[conns + 1] : ConnectTo(s)
  BY <1>2, ConnectToOK
<1>3. CASE \E fd \in ConnFds : Arrive(fd) \/ End(fd, "eof") \/ End(fd, "reset")
  BY <1>3, ArriveOK, EndOK
<1>4. CASE Unblock
  BY <1>4, UnblockOK
<1>5. CASE UNCHANGED vars
  BY <1>5, StutterOK
<1> QED BY <1>1, <1>2, <1>3, <1>4, <1>5 DEF Next, Outside

LEMMA ListenerInvariant == Spec => []ListenerInv
BY ListenerInvInit, ListenerInvNext, PTL DEF Spec

----------------------------------------------------------------------------
(* The theorems *)

\* A sequence is a prefix of itself and what follows it.
LEMMA PrefixOfConcat ==
    ASSUME NEW S, NEW h \in Seq(S), NEW rest \in Seq(S) PROVE IsPrefix(h, h \o rest)
<1>1. /\ h \o rest \in Seq(S) /\ Len(h) \in Nat /\ Len(rest) \in Nat
      /\ Len(h \o rest) = Len(h) + Len(rest)
      /\ \A i \in 1..Len(h) : (h \o rest)[i] = h[i]
  BY ConcatProperties
<1> DEFINE w == h \o rest
<1>2. /\ w \in Seq(S) /\ Len(h) \in Nat /\ Len(h) <= Len(w)
      /\ \A i \in 1..Len(h) : w[i] = h[i]
  BY <1>1
<1> HIDE DEF w
<1>3. 1 \in 1..(Len(h) + 1) /\ 1 \in 1..(Len(w) + 1)
      /\ Len(h) \in (1 - 1)..Len(h) /\ Len(h) \in (1 - 1)..Len(w) /\ Len(h) - 1 + 1 = Len(h)
  BY <1>2
<1>4. /\ SubSeq(w, 1, Len(h)) \in Seq(S) /\ Len(SubSeq(w, 1, Len(h))) = Len(h) - 1 + 1
      /\ \A i \in 1..(Len(h) - 1 + 1) : SubSeq(w, 1, Len(h))[i] = w[1 + i - 1]
  BY <1>2, <1>3, SliceShape
<1>5. \A i \in 1..Len(h) : SubSeq(w, 1, Len(h))[i] = h[i]
  <2> TAKE i \in 1..Len(h)
  <2>1. SubSeq(w, 1, Len(h))[i] = w[1 + i - 1] /\ 1 + i - 1 = i
    BY <1>3, <1>4
  <2> QED BY <1>2, <2>1
<1>6. SubSeq(w, 1, Len(h)) = h
  BY <1>3, <1>4, <1>5, SeqEqual
<1>7. SubSeq(h, 1, Len(h)) = h
  BY SubSeqFull
<1> QED BY <1>2, <1>6, <1>7 DEF IsPrefix, w

LEMMA InvHandledAsSent == ListenerInv => HandledAsSent
<1> SUFFICES ASSUME ListenerInv, NEW c \in DOMAIN ctxs
             PROVE  LET s == sock[ctxs[c].fd]
                        whole == Bodies(SubSeq(s.stream, 1, s.received))
                    IN /\ IsPrefix(handled[s.id], whole)
                       /\ ~(Parsing /\ c = Ctx) \/ ReachedEnd => handled[s.id] = whole
  BY DEF HandledAsSent
<1> DEFINE x == ctxs[c]
           s == sock[x.fd]
           h == handled[s.id]
           whole == Bodies(SubSeq(s.stream, 1, s.received))
<1>1. c \in 1..Len(ctxs) /\ x \in Ctxs /\ x.fd \in OpenFds /\ s.id = x.id
  BY DEF ListenerInv, CtxsOK
<1>2. s \in Conns /\ s.received <= s.arrived /\ s.arrived <= Len(s.stream)
  BY <1>1, OpenAre DEF ListenerInv, SocksOK
<1>3. s.received <= Len(s.stream)
  <2>1. s.received \in Nat /\ s.arrived \in Nat /\ Len(s.stream) \in Nat
    BY <1>2 DEF Conns
  <2> QED BY <1>2, <2>1
<1>4. h \in Seq(Seq(Byte))
  BY <1>2 DEF ListenerInv, BacklogOK, Conns
<1>5. /\ CtxParsed(x, s, h)
      /\ (Parsing /\ x.fd = Scan) \/ WaitsForMore(x.msglen, x.readbuf)
  BY <1>1 DEF ListenerInv, ParseOK
<1>6. Parsing /\ x.fd = Scan => c = Ctx
  BY <1>1, CtxOfFd DEF Ctx
<1>7. ReachedEnd /\ c = Ctx =>
         LengthIsZero(x.msglen, x.readbuf) \/ WaitsForMore(x.msglen, x.readbuf)
  BY DEF ReachedEnd
<1> HIDE DEF x, s, h
<1>8. PICK rest \in Seq(Seq(Byte)) :
         /\ whole = h \o rest
         /\ WaitsForMore(x.msglen, x.readbuf) \/ LengthIsZero(x.msglen, x.readbuf) => rest = <<>>
  BY <1>1, <1>2, <1>3, <1>4, <1>5, CtxHandled
<1> HIDE DEF whole
<1>9. IsPrefix(h, whole)
  BY <1>4, <1>8, PrefixOfConcat
<1>10. ~(Parsing /\ c = Ctx) \/ ReachedEnd => h = whole
  <2> HAVE ~(Parsing /\ c = Ctx) \/ ReachedEnd
  <2>1. rest = <<>>
    BY <1>5, <1>6, <1>7, <1>8
  <2> QED BY <1>4, <1>8, <2>1
<1> QED BY <1>9, <1>10 DEF whole, h, s, x

LEMMA InvConnsTracked == ListenerInv => ConnsTracked
<1> SUFFICES ASSUME ListenerInv PROVE ConnsTracked
  OBVIOUS
<1>1. {fd \in ConnFds : sock[fd] # NoConn} = OpenFds
  BY DEF OpenFds
<1>2. TypeOK
  <2>1. ctxs \in Seq([fd : ConnFds, id : 1..MaxConns, readbuf : Seq(Byte), msglen : Nat])
    BY DEF ListenerInv, CtxsOK, Ctxs
  <2>2. readfds \subseteq {ListenFd, PipeFd} \cup ConnFds
    BY DEF ListenerInv, WatchedOK, OpenFds
  <2> QED BY <2>1, <2>2 DEF ListenerInv, PassOK, WatchedOK, BacklogOK, TypeOK
<1>3. ASSUME NEW fd \in ConnFds
      PROVE  Cardinality(ByFd(ctxs, fd)) = (IF fd \in OpenFds THEN 1 ELSE 0)
  <2>1. CASE fd \in OpenFds
    <3>1. ByFd(ctxs, fd) = {Min(ByFd(ctxs, fd))}
      BY <2>1, CtxOfFd
    <3>2. Cardinality(ByFd(ctxs, fd)) = 1
      BY <3>1, FS_Singleton
    <3> QED BY <2>1, <3>2
  <2>2. CASE fd \notin OpenFds
    <3>1. ByFd(ctxs, fd) = {}
      BY <2>2 DEF ByFd, ListenerInv, CtxsOK
    <3> QED BY <2>2, <3>1, FS_EmptySet
  <2> QED BY <2>1, <2>2
<1>4. \A c \in DOMAIN ctxs : sock[ctxs[c].fd].id = ctxs[c].id
  BY DEF ListenerInv, CtxsOK
<1>5. /\ lpc # "start" => readfds = {ListenFd, PipeFd} \cup OpenFds
      /\ \A fd \in readfds : fd <= maxfd
  BY DEF ListenerInv, WatchedOK
<1> QED BY <1>1, <1>2, <1>3, <1>4, <1>5 DEF ConnsTracked

\* However the streams of its connections are cut into reads, the listener thread
\* (THREAD_wait_for_tcp_messages) gives handle_msg the messages they hold, each once and
\* in order: at every moment those handled are the first ones in the bytes received, and
\* all of them once the parser is done with the read or closes the connection.
THEOREM ListenerHandledAsSent == Spec => []HandledAsSent
BY ListenerInvariant, InvHandledAsSent, PTL

\* THREAD_wait_for_tcp_messages keeps one ctx for each connection it accepted, under its
\* descriptor, and watches exactly those, its socket and the pipe, none above maxfd.
THEOREM ListenerConnsTracked == Spec => []ConnsTracked
BY ListenerInvariant, InvConnsTracked, PTL
=============================================================================
