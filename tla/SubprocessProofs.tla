--------------------------- MODULE SubprocessProofs ---------------------------
(***************************************************************************)
(* buffer, the chunked reads and writes of nstream, and subp_open, for any *)
(* chunk, any size of the pipes and any number of bytes.                   *)
(***************************************************************************)
EXTENDS Subprocess, SequenceTheorems, WellFoundedInduction, TLAPS

\* A set of numbers has a smallest one.
LEMMA Smallest ==
    ASSUME NEW T \in SUBSET Nat, T # {}
    PROVE  \E x \in T : \A y \in T : x <= y
<1> DEFINE R == OpToRel(<, Nat)
<1>1. IsWellFoundedOn(R, Nat)
  BY NatLessThanWellFounded
<1>2. \A x, y \in Nat : y < x => <<y, x>> \in R
  BY DEF OpToRel
<1> HIDE DEF R
<1>3. PICK x \in T : \A y \in T : ~(<<y, x>> \in R)
  BY <1>1, WFMin
<1>4. \A y \in T : ~(y < x)
  BY <1>2, <1>3
<1> QED BY <1>3, <1>4

\* So what holds of 0, and of a number when it holds of the one before, holds of
\* all of them.
LEMMA SetInduction ==
    ASSUME NEW P \in SUBSET Nat, 0 \in P, \A n \in Nat : n \in P => n + 1 \in P
    PROVE  P = Nat
<1> SUFFICES ASSUME Nat \ P # {} PROVE FALSE
  OBVIOUS
<1>1. PICK x \in Nat \ P : \A y \in Nat \ P : x <= y
  BY Smallest
<1>2. x # 0 /\ x - 1 \in Nat /\ ~(x <= x - 1)
  BY <1>1
<1>3. x - 1 \in P
  BY <1>1, <1>2
<1>4. (x - 1) + 1 \in P
  BY <1>2, <1>3
<1> QED BY <1>1, <1>2, <1>4

\* The first n + 1 powers of two.
Powers(h, n) == h \in [0..n -> Nat] /\ h[0] = 1 /\ \A i \in 0..n - 1 : h[i + 1] = 2 * h[i]

\* They exist, and in one way.
LEMMA PowersExist == \A n \in Nat : \E h : Powers(h, n)
<1> DEFINE P == {n \in Nat : \E h : Powers(h, n)}
<1>1. 0 \in P
  <2>1. Powers([i \in 0..0 |-> 1], 0)
    BY DEF Powers
  <2> QED BY <2>1
<1>2. ASSUME NEW n \in Nat, n \in P PROVE n + 1 \in P
  <2>1. PICK h : Powers(h, n)
    BY <1>2
  <2> DEFINE g == [i \in 0..n + 1 |-> IF i = n + 1 THEN 2 * h[n] ELSE h[i]]
  <2>2. g \in [0..n + 1 -> Nat] /\ g[0] = 1
    BY <2>1 DEF Powers
  <2>3. \A i \in 0..(n + 1) - 1 : g[i + 1] = 2 * g[i]
    BY <2>1 DEF Powers
  <2>4. Powers(g, n + 1)
    BY <2>2, <2>3 DEF Powers
  <2> QED BY <2>4
<1>3. P = Nat
  <2> HIDE DEF P
  <2>1. P \in SUBSET Nat
    BY DEF P
  <2> QED BY <1>1, <1>2, <2>1, SetInduction
<1> QED BY <1>3

\* The powers do not depend on how many of them are listed.
LEMMA PowersUnique ==
    ASSUME NEW h, NEW g, NEW n \in Nat, Powers(h, n), Powers(g, n + 1)
    PROVE  g[n] = h[n]
<1> DEFINE P == {i \in Nat : i <= n => g[i] = h[i]}
<1>1. 0 \in P
  BY DEF Powers
<1>2. ASSUME NEW i \in Nat, i \in P PROVE i + 1 \in P
  BY <1>2 DEF Powers
<1>3. P = Nat
  <2> HIDE DEF P
  <2>1. P \in SUBSET Nat
    BY DEF P
  <2> QED BY <1>1, <1>2, <2>1, SetInduction
<1> QED BY <1>3

\* What the recursive definition of Pow2 means.
LEMMA Pow2Def == Pow2[0] = 1 /\ \A n \in Nat : Pow2[n + 1] = 2 * Pow2[n]
<1> DEFINE pick(n) == CHOOSE h : Powers(h, n)
           F == [n \in Nat |-> pick(n)[n]]
<1>1. \A n \in Nat : Powers(pick(n), n)
  BY PowersExist
<1>2. \A n \in Nat : F[n + 1] = 2 * F[n]
  <2> SUFFICES ASSUME NEW n \in Nat PROVE F[n + 1] = 2 * F[n]
    OBVIOUS
  <2>1. Powers(pick(n), n) /\ Powers(pick(n + 1), n + 1)
    BY <1>1
  <2> HIDE DEF pick
  <2>2. pick(n + 1)[n] = pick(n)[n]
    BY <2>1, PowersUnique
  <2>3. pick(n + 1)[n + 1] = 2 * pick(n + 1)[n]
    BY <2>1 DEF Powers
  <2> QED BY <2>2, <2>3
<1>3. F[0] = 1
  <2>1. Powers(pick(0), 0)
    BY <1>1
  <2> HIDE DEF pick
  <2> QED BY <2>1 DEF Powers
<1>4. \A n \in Nat : F[n] = IF n = 0 THEN 1 ELSE 2 * F[n - 1]
  <2> HIDE DEF F
  <2> SUFFICES ASSUME NEW n \in Nat, n # 0 PROVE F[n] = 2 * F[n - 1]
    BY <1>3
  <2>1. n - 1 \in Nat /\ n = (n - 1) + 1
    OBVIOUS
  <2> QED BY <1>2, <2>1
<1>5. \E f : f = [n \in Nat |-> IF n = 0 THEN 1 ELSE 2 * f[n - 1]]
  <2>1. F = [n \in Nat |-> IF n = 0 THEN 1 ELSE 2 * F[n - 1]]
    <3>1. F = [n \in Nat |-> F[n]]
      OBVIOUS
    <3> HIDE DEF F
    <3> QED BY <1>4, <3>1
  <2> QED BY <2>1
<1>6. Pow2 = [n \in Nat |-> IF n = 0 THEN 1 ELSE 2 * Pow2[n - 1]]
  BY <1>5 DEF Pow2
<1>7. \A n \in Nat : Pow2[n] = IF n = 0 THEN 1 ELSE 2 * Pow2[n - 1]
  BY <1>6
<1> QED BY <1>7

\* A power of two is a number, and larger than its exponent.
LEMMA Pow2Grows == \A n \in Nat : Pow2[n] \in Nat /\ Pow2[n] > n
<1> DEFINE P == {n \in Nat : Pow2[n] \in Nat /\ Pow2[n] > n}
<1>1. 0 \in P
  BY Pow2Def
<1>2. ASSUME NEW n \in Nat, n \in P PROVE n + 1 \in P
  <2>1. Pow2[n] \in Nat /\ Pow2[n] > n /\ Pow2[n + 1] = 2 * Pow2[n]
    BY <1>2, Pow2Def
  <2> QED BY <2>1
<1>3. P = Nat
  <2> HIDE DEF P
  <2>1. P \in SUBSET Nat
    BY DEF P
  <2> QED BY <1>1, <1>2, <2>1, SetInduction
<1> QED BY <1>3

\* The loop of resize ends, and with a capacity that is large enough.
LEMMA DoubledEnough ==
    ASSUME NEW cap \in Nat, NEW n \in Nat
    PROVE  Doubled(cap, n) \in Nat /\ Doubled(cap, n) >= n
<1> DEFINE from == IF cap = 0 THEN 1 ELSE cap
           K == {k \in 0..n : from * Pow2[k] >= n}
           m == Min(K)
<1>1. from \in Nat /\ from >= 1
  OBVIOUS
<1>2. Pow2[n] \in Nat /\ Pow2[n] > n
  BY Pow2Grows
<1> HIDE DEF from
<1>3. from * Pow2[n] >= Pow2[n] /\ from * Pow2[n] \in Nat
  <2>1. \A a, b \in Nat : a >= 1 => a * b >= b /\ a * b \in Nat
    OBVIOUS
  <2> QED BY <1>1, <1>2, <2>1
<1>4. n \in K
  BY <1>2, <1>3
<1>5. K \in SUBSET Nat /\ K # {}
  BY <1>4
<1>6. \E x \in K : \A y \in K : x <= y
  <2> HIDE DEF K
  <2> QED BY <1>5, Smallest
<1>7. m \in K
  <2> HIDE DEF K
  <2> QED BY <1>6 DEF Min
<1> HIDE DEF m
<1>8. m \in Nat /\ from * Pow2[m] >= n
  BY <1>7
<1>9. from * Pow2[m] \in Nat
  BY <1>1, <1>8, Pow2Grows
<1>10. Doubled(cap, n) = from * Pow2[m]
  BY DEF Doubled, from, m
<1> QED BY <1>8, <1>9, <1>10

\* A sequence of bytes is its first n and the rest.
LEMMA SplitSeq ==
    ASSUME NEW u \in Seq(Nat), NEW n \in Nat, n <= Len(u)
    PROVE  /\ SubSeq(u, 1, n) \in Seq(Nat) /\ Len(SubSeq(u, 1, n)) = n
           /\ SubSeq(u, n + 1, Len(u)) \in Seq(Nat)
           /\ Len(SubSeq(u, n + 1, Len(u))) = Len(u) - n
           /\ \A i \in 1..Len(u) - n : SubSeq(u, n + 1, Len(u))[i] = u[n + i]
           /\ u = SubSeq(u, 1, n) \o SubSeq(u, n + 1, Len(u))
<1>1. Len(u) \in Nat /\ \A i \in 1..Len(u) : u[i] \in Nat
  BY LenProperties, ElementOfSeq
<1>2. SubSeq(u, 1, n) \in Seq(Nat) /\ Len(SubSeq(u, 1, n)) = n
  <2>1. \A i \in 1..n : u[i] \in Nat
    BY <1>1
  <2>2. SubSeq(u, 1, n) \in Seq(Nat) /\ Len(SubSeq(u, 1, n)) = IF 1 <= n THEN n - 1 + 1 ELSE 0
    BY <2>1, SubSeqProperties
  <2> QED BY <2>2
<1> DEFINE v == SubSeq(u, n + 1, Len(u))
<1>3. v \in Seq(Nat) /\ Len(v) = Len(u) - n /\ \A i \in 1..Len(u) - n : v[i] = u[n + i]
  <2>1. \A i \in n + 1..Len(u) : u[i] \in Nat
    BY <1>1
  <2>2. n + 1 \in Int /\ Len(u) \in Int
    BY <1>1
  <2>3. /\ v \in Seq(Nat)
        /\ Len(v) = IF n + 1 <= Len(u) THEN Len(u) - (n + 1) + 1 ELSE 0
        /\ \A i \in 1..Len(u) - (n + 1) + 1 : v[i] = u[(n + 1) + i - 1]
    BY <2>1, <2>2, SubSeqProperties
  <2> HIDE DEF v
  <2>4. Len(v) = Len(u) - n
    BY <1>1, <2>3
  <2>5. \A i \in 1..Len(u) - n : i \in 1..Len(u) - (n + 1) + 1 /\ (n + 1) + i - 1 = n + i
    BY <1>1
  <2> QED BY <2>3, <2>4, <2>5
<1>4. SubSeq(u, 1, n) \o SubSeq(u, n + 1, Len(u)) = SubSeq(u, 1, Len(u))
  <2>1. 1 \in 1..Len(u) + 1 /\ n \in 1 - 1..Len(u) /\ Len(u) \in n..Len(u)
    BY <1>1
  <2> QED BY <2>1, ConcatAdjacentSubSeq
<1>5. SubSeq(u, 1, Len(u)) = u
  BY SubSeqFull
<1> QED BY <1>2, <1>3, <1>4, <1>5

-----------------------------------------------------------------------------
(* class buffer. *)

Arrays == UNION {[0..c - 1 -> Nat] : c \in Nat}
Buffers == [cap : Nat, start : Nat, offset : Nat, mem : Arrays]

\* A buffer as its operations leave it: the offsets in order and in the array,
\* and nothing but zeros behind the filled bytes.
Good(b) ==
    /\ b \in Buffers
    /\ b.start <= b.offset /\ b.offset <= b.cap
    /\ b.mem \in [0..b.cap - 1 -> Nat]
    /\ \A i \in b.offset..b.cap - 1 : b.mem[i] = Nul

\* The offsets and the bytes of a buffer.
LEMMA GoodFields ==
    ASSUME NEW b, Good(b)
    PROVE  /\ b.cap \in Nat /\ b.start \in Nat /\ b.offset \in Nat
           /\ b.start <= b.offset /\ b.offset <= b.cap
           /\ Size(b) \in Nat /\ b.start + Size(b) = b.offset
           /\ \A i \in Nat : i < b.cap => b.mem[i] \in Nat
           /\ \A i \in Nat : b.offset <= i /\ i < b.cap => b.mem[i] = Nul
<1>1. /\ b.cap \in Nat /\ b.start \in Nat /\ b.offset \in Nat
      /\ b.start <= b.offset /\ b.offset <= b.cap
  BY DEF Good, Buffers
<1>2. Size(b) \in Nat /\ b.start + Size(b) = b.offset
  BY <1>1 DEF Size
<1>3. \A i \in Nat : i < b.cap => i \in 0..b.cap - 1
  BY <1>1
<1>4. \A i \in Nat : b.offset <= i /\ i < b.cap => i \in b.offset..b.cap - 1
  BY <1>1
<1> QED BY <1>1, <1>2, <1>3, <1>4 DEF Good

\* How to recognise one.
LEMMA MakeGood ==
    ASSUME NEW cap \in Nat, NEW start \in Nat, NEW offset \in Nat,
           NEW mem \in [0..cap - 1 -> Nat], start <= offset, offset <= cap,
           \A i \in Nat : offset <= i /\ i < cap => mem[i] = Nul
    PROVE  Good([cap |-> cap, start |-> start, offset |-> offset, mem |-> mem])
<1> DEFINE b == [cap |-> cap, start |-> start, offset |-> offset, mem |-> mem]
<1>1. mem \in Arrays
  BY DEF Arrays
<1>2. b \in Buffers
  BY <1>1 DEF Buffers
<1>3. b.cap = cap /\ b.start = start /\ b.offset = offset /\ b.mem = mem
  OBVIOUS
<1> HIDE DEF b
<1>4. \A i \in offset..cap - 1 : i \in Nat /\ offset <= i /\ i < cap
  OBVIOUS
<1> QED BY <1>2, <1>3, <1>4 DEF Good, b

\* The contents are a sequence of the length that size() gives.
LEMMA ContentIsSeq ==
    ASSUME NEW b, Good(b)
    PROVE  /\ Content(b) \in Seq(Nat) /\ Len(Content(b)) = Size(b)
           /\ \A i \in 1..Size(b) : Content(b)[i] = b.mem[b.start + i - 1]
<1>1. /\ b.cap \in Nat /\ b.start \in Nat /\ Size(b) \in Nat /\ b.start + Size(b) <= b.cap
      /\ \A i \in Nat : i < b.cap => b.mem[i] \in Nat
  BY GoodFields
<1>2. \A i \in 1..Size(b) : b.start + i - 1 \in Nat /\ b.start + i - 1 < b.cap
  BY <1>1
<1>3. \A i \in 1..Size(b) : b.mem[b.start + i - 1] \in Nat
  BY <1>1, <1>2
<1>4. Content(b) \in [1..Size(b) -> Nat]
  BY <1>3 DEF Content
<1>5. Content(b) \in Seq(Nat)
  BY <1>1, <1>4, SeqDef
<1>6. Len(Content(b)) = Size(b)
  BY <1>1, <1>4, <1>5, LenProperties
<1> QED BY <1>5, <1>6 DEF Content

\* And they are the sequence that has this length and these bytes.
LEMMA ContentIs ==
    ASSUME NEW b, Good(b), NEW s \in Seq(Nat), Len(s) = Size(b),
           \A i \in 1..Size(b) : b.mem[b.start + i - 1] = s[i]
    PROVE  Content(b) = s
<1>1. /\ Content(b) \in Seq(Nat) /\ Len(Content(b)) = Len(s)
      /\ \A i \in 1..Len(Content(b)) : Content(b)[i] = s[i]
  BY ContentIsSeq
<1> QED BY <1>1, SeqEqual

\* A new or a cleared buffer is empty.
LEMMA NewGood ==
    ASSUME NEW cap \in Nat
    PROVE  /\ Good(New(cap)) /\ Content(New(cap)) = <<>>
           /\ New(cap).cap = cap /\ New(cap).start = 0 /\ New(cap).offset = 0
<1> DEFINE mem == [i \in 0..cap - 1 |-> Nul]
<1>1. mem \in [0..cap - 1 -> Nat] /\ \A i \in Nat : 0 <= i /\ i < cap => mem[i] = Nul
  BY DEF Nul
<1>2. New(cap) = [cap |-> cap, start |-> 0, offset |-> 0, mem |-> mem]
  BY DEF New
<1>3. New(cap).cap = cap /\ New(cap).start = 0 /\ New(cap).offset = 0
  BY <1>2
<1> HIDE DEF mem
<1>4. Good(New(cap))
  BY <1>1, <1>2, MakeGood
<1>5. Size(New(cap)) = 0
  BY <1>3 DEF Size
<1>6. Content(New(cap)) = <<>>
  BY <1>4, <1>5, ContentIsSeq, EmptySeq
<1> QED BY <1>3, <1>4, <1>6

\* resize makes room and keeps the filled bytes where they are.
LEMMA ResizeGood ==
    ASSUME NEW b, Good(b), NEW n \in Nat
    PROVE  /\ Good(Resize(b, n)) /\ Content(Resize(b, n)) = Content(b)
           /\ Resize(b, n).cap >= n
           /\ Resize(b, n).start = b.start /\ Resize(b, n).offset = b.offset
<1> DEFINE r == Resize(b, n)
<1>1. /\ b.cap \in Nat /\ b.start \in Nat /\ b.offset \in Nat
      /\ b.start <= b.offset /\ b.offset <= b.cap
      /\ \A i \in Nat : i < b.cap => b.mem[i] \in Nat
  BY GoodFields
<1>2. CASE b.cap >= n
  <2>1. r = b
    BY <1>2 DEF Resize
  <2> QED BY <1>2, <2>1
<1>3. CASE ~(b.cap >= n)
  <2> DEFINE c == Doubled(b.cap, n)
             mem == [i \in 0..c - 1 |-> IF i \in b.start..b.offset - 1 THEN b.mem[i] ELSE Nul]
  <2>1. r = [b EXCEPT !.cap = c, !.mem = mem]
    BY <1>3 DEF Resize
  <2>2. c \in Nat /\ c >= n
    BY <1>1, DoubledEnough
  <2> HIDE DEF c
  <2>3. c > b.cap
    BY <1>1, <1>3, <2>2
  <2>4. \A i \in b.start..b.offset - 1 : i \in Nat /\ i < b.cap
    BY <1>1
  <2>5. mem \in [0..c - 1 -> Nat]
    BY <1>1, <2>4 DEF Nul
  <2>6. \A i \in Nat : b.offset <= i /\ i < c => mem[i] = Nul
    BY <1>1, <2>2
  <2>7. \A i \in Nat : b.start <= i /\ i < b.offset => mem[i] = b.mem[i]
    BY <1>1, <2>3, <2>2
  <2> HIDE DEF mem
  <2>8. r = [cap |-> c, start |-> b.start, offset |-> b.offset, mem |-> mem]
    BY <2>1 DEF Good, Buffers
  <2>9. r.cap = c /\ r.start = b.start /\ r.offset = b.offset /\ r.mem = mem
    BY <2>8
  <2> HIDE DEF r
  <2>10. Good(r)
    <3>1. b.offset <= c
      BY <1>1, <2>2, <2>3
    <3>2. Good([cap |-> c, start |-> b.start, offset |-> b.offset, mem |-> mem])
      BY <1>1, <2>2, <2>5, <2>6, <3>1, MakeGood
    <3> QED BY <2>8, <3>2
  <2>11. Size(r) = Size(b)
    BY <2>9 DEF Size
  <2>12. ASSUME NEW i \in 1..Size(r) PROVE r.mem[r.start + i - 1] = Content(b)[i]
    <3>1. /\ b.start + i - 1 \in Nat /\ b.start <= b.start + i - 1 /\ b.start + i - 1 < b.offset
          /\ i \in 1..Size(b)
      BY <1>1, <2>11 DEF Size
    <3> QED BY <2>7, <2>9, <3>1, ContentIsSeq
  <2>13. Content(r) = Content(b)
    BY <2>10, <2>11, <2>12, ContentIs, ContentIsSeq
  <2> QED BY <2>2, <2>9, <2>10, <2>13 DEF r
<1> QED BY <1>2, <1>3

\* tiny keeps the filled bytes and wipes what they leave behind.
LEMMA TinyGood ==
    ASSUME NEW b, Good(b)
    PROVE  Good(Tiny(b)) /\ Content(Tiny(b)) = Content(b)
<1> DEFINE r == Tiny(b)
           mem == [i \in 0..b.cap - 1 |->
                     IF i < Size(b) THEN b.mem[i + b.start]
                     ELSE IF i < b.offset THEN Nul ELSE b.mem[i]]
<1>1. /\ b.cap \in Nat /\ b.start \in Nat /\ b.offset \in Nat
      /\ b.start <= b.offset /\ b.offset <= b.cap
      /\ Size(b) \in Nat /\ b.start + Size(b) = b.offset
      /\ \A i \in Nat : i < b.cap => b.mem[i] \in Nat
      /\ \A i \in Nat : b.offset <= i /\ i < b.cap => b.mem[i] = Nul
  BY GoodFields
<1>2. \A i \in Nat : i < Size(b) => i < b.cap /\ i + b.start \in Nat /\ i + b.start < b.cap
  BY <1>1
<1>3. \A i \in 0..b.cap - 1 :
        /\ i \in Nat /\ i < b.cap
        /\ i < Size(b) => b.mem[i + b.start] \in Nat
        /\ b.mem[i] \in Nat
  BY <1>1, <1>2
<1>4. mem \in [0..b.cap - 1 -> Nat]
  BY <1>3 DEF Nul
<1>5. \A i \in Nat : Size(b) <= i /\ i < b.cap => mem[i] = Nul
  BY <1>1
<1>6. \A i \in Nat : i < Size(b) => mem[i] = b.mem[i + b.start]
  BY <1>1, <1>2
<1>7. r = [b EXCEPT !.mem = mem, !.start = 0, !.offset = Size(b)]
  BY DEF Tiny
<1> HIDE DEF mem
<1>8. r = [cap |-> b.cap, start |-> 0, offset |-> Size(b), mem |-> mem]
  BY <1>7 DEF Good, Buffers
<1>9. r.cap = b.cap /\ r.start = 0 /\ r.offset = Size(b) /\ r.mem = mem
  BY <1>8
<1> HIDE DEF r
<1>10. Size(b) <= b.cap
  BY <1>1
<1>11. Good(r)
  <2>1. 0 \in Nat /\ 0 <= Size(b)
    BY <1>1
  <2>2. Good([cap |-> b.cap, start |-> 0, offset |-> Size(b), mem |-> mem])
    BY <1>1, <1>4, <1>5, <1>10, <2>1, MakeGood
  <2> QED BY <1>8, <2>2
<1>12. Size(r) = Size(b)
  BY <1>1, <1>9 DEF Size
<1>13. ASSUME NEW i \in 1..Size(r) PROVE r.mem[r.start + i - 1] = Content(b)[i]
  <2>1. i - 1 \in Nat /\ i - 1 < Size(b) /\ 0 + i - 1 = i - 1 /\ (i - 1) + b.start = b.start + i - 1
        /\ i \in 1..Size(b)
    BY <1>1, <1>12
  <2> QED BY <1>6, <1>9, <2>1, ContentIsSeq
<1>14. Content(r) = Content(b)
  BY <1>11, <1>12, <1>13, ContentIs, ContentIsSeq
<1> QED BY <1>11, <1>14 DEF r

\* Bytes written where there is room for them come after the filled ones.
LEMMA FillGood ==
    ASSUME NEW b, Good(b), NEW s \in Seq(Nat), b.offset + Len(s) <= b.cap
    PROVE  /\ Good(Fill(b, s)) /\ Content(Fill(b, s)) = Content(b) \o s
           /\ Fill(b, s).cap = b.cap /\ Fill(b, s).offset = b.offset + Len(s)
<1> DEFINE r == Fill(b, s)
           o == b.offset
           mem == [i \in 0..b.cap - 1 |->
                     IF i \in o..o + Len(s) - 1 THEN s[i - o + 1] ELSE b.mem[i]]
<1>1. /\ b.cap \in Nat /\ b.start \in Nat /\ o \in Nat
      /\ b.start <= o /\ o <= b.cap
      /\ Size(b) \in Nat /\ b.start + Size(b) = o
      /\ \A i \in Nat : i < b.cap => b.mem[i] \in Nat
      /\ \A i \in Nat : o <= i /\ i < b.cap => b.mem[i] = Nul
  BY GoodFields
<1>2. Len(s) \in Nat /\ \A i \in 1..Len(s) : s[i] \in Nat
  BY LenProperties, ElementOfSeq
<1>3. r = [b EXCEPT !.mem = mem, !.offset = o + Len(s)]
  BY DEF Fill
<1>4. o + Len(s) \in Nat /\ o + Len(s) <= b.cap /\ b.start <= o + Len(s)
  BY <1>1, <1>2
<1> HIDE DEF o
<1>5. mem \in [0..b.cap - 1 -> Nat]
  <2>1. \A i \in o..o + Len(s) - 1 : i - o + 1 \in 1..Len(s)
    BY <1>1, <1>2
  <2>2. \A i \in 0..b.cap - 1 : i \in Nat /\ i < b.cap
    BY <1>1
  <2> QED BY <1>1, <1>2, <2>1, <2>2
<1>6. \A i \in Nat : o + Len(s) <= i /\ i < b.cap => mem[i] = Nul
  BY <1>1, <1>2
<1>7. \A i \in Nat : i < o => mem[i] = b.mem[i]
  BY <1>1, <1>2
<1>8. \A i \in Nat : o <= i /\ i < o + Len(s) => mem[i] = s[i - o + 1]
  BY <1>1, <1>2, <1>4
<1> HIDE DEF mem
<1>9. r = [cap |-> b.cap, start |-> b.start, offset |-> o + Len(s), mem |-> mem]
  BY <1>3 DEF Good, Buffers
<1>10. r.cap = b.cap /\ r.start = b.start /\ r.offset = o + Len(s) /\ r.mem = mem
  BY <1>9
<1> HIDE DEF r
<1>11. Good(r)
  <2>1. Good([cap |-> b.cap, start |-> b.start, offset |-> o + Len(s), mem |-> mem])
    BY <1>1, <1>4, <1>5, <1>6, MakeGood
  <2> QED BY <1>9, <2>1
<1> DEFINE u == Content(b) \o s
<1>12. Size(r) = Size(b) + Len(s)
  BY <1>1, <1>2, <1>10 DEF Size
<1>13. /\ u \in Seq(Nat) /\ Len(u) = Size(b) + Len(s)
       /\ \A i \in 1..Size(b) + Len(s) :
            u[i] = IF i <= Size(b) THEN Content(b)[i] ELSE s[i - Size(b)]
  <2> DEFINE C == Content(b)
  <2>1. C \in Seq(Nat) /\ Len(C) = Size(b)
    BY ContentIsSeq
  <2> HIDE DEF C
  <2>2. /\ C \o s \in Seq(Nat) /\ Len(C \o s) = Len(C) + Len(s)
        /\ \A i \in 1..Len(C) + Len(s) : (C \o s)[i] = IF i <= Len(C) THEN C[i] ELSE s[i - Len(C)]
    BY <2>1, ConcatProperties
  <2> QED BY <2>1, <2>2 DEF C
<1> HIDE DEF u
<1>14. ASSUME NEW i \in 1..Size(r) PROVE r.mem[r.start + i - 1] = u[i]
  <2>1. CASE i <= Size(b)
    <3>1. b.start + i - 1 \in Nat /\ b.start + i - 1 < o /\ i \in 1..Size(b) /\ i \in 1..Size(b) + Len(s)
      BY <1>1, <1>2, <2>1
    <3> QED BY <1>7, <1>10, <1>13, <2>1, <3>1, ContentIsSeq
  <2>2. CASE ~(i <= Size(b))
    <3> DEFINE j == b.start + i - 1
    <3>1. /\ j \in Nat /\ o <= j /\ j < o + Len(s)
          /\ j - o + 1 = i - Size(b) /\ i \in 1..Size(b) + Len(s)
      <4>1. b.start + Size(b) = o /\ Size(b) \in Nat /\ b.start \in Nat /\ Len(s) \in Nat
        BY <1>1, <1>2
      <4>2. i \in 1..Size(b) + Len(s) /\ i > Size(b)
        BY <1>12, <2>2, <4>1
      <4> DEFINE p == b.start  z == Size(b)  m == Len(s)
      <4>3. p \in Nat /\ z \in Nat /\ m \in Nat /\ i \in 1..z + m /\ i > z /\ o = p + z
        BY <4>1, <4>2
      <4> HIDE DEF p, z, m
      <4>4. j = p + i - 1
        BY DEF p
      <4> HIDE DEF j
      <4>5. j \in Nat /\ o <= j /\ j < o + m /\ j - o + 1 = i - z
        BY <4>3, <4>4
      <4> QED BY <4>2, <4>5 DEF z, m
    <3>2. r.mem[r.start + i - 1] = mem[j]
      BY <1>10
    <3> HIDE DEF j
    <3>3. mem[j] = s[j - o + 1]
      BY <1>8, <3>1
    <3>4. u[i] = s[i - Size(b)]
      BY <1>13, <2>2, <3>1
    <3> QED BY <3>1, <3>2, <3>3, <3>4
  <2> QED BY <2>1, <2>2
<1>15. Content(r) = u
  BY <1>11, <1>12, <1>13, <1>14, ContentIs
<1> QED BY <1>10, <1>11, <1>15 DEF r, u, o

\* produce and put_string make room themselves.
LEMMA ProduceGood ==
    ASSUME NEW b, Good(b), NEW s \in Seq(Nat)
    PROVE  Good(Produce(b, s)) /\ Content(Produce(b, s)) = Content(b) \o s
<1> DEFINE n == b.offset + Len(s)  r == Resize(b, n)
<1>1. n \in Nat
  BY GoodFields, LenProperties
<1>2. Good(r) /\ Content(r) = Content(b) /\ r.cap >= n /\ r.offset = b.offset
  <2> HIDE DEF n
  <2> QED BY <1>1, ResizeGood
<1>3. r.offset + Len(s) <= r.cap
  BY <1>1, <1>2, GoodFields
<1>4. Produce(b, s) = Fill(r, s)
  BY DEF Produce
<1> HIDE DEF r
<1> QED BY <1>2, <1>3, <1>4, FillGood

\* The offset moves past bytes that have been taken from the front.
LEMMA AdvanceGood ==
    ASSUME NEW b, Good(b), NEW n \in Nat, n <= Size(b)
    PROVE  LET r == [b EXCEPT !.start = @ + n] IN
           /\ Good(r) /\ r.cap = b.cap /\ r.offset = b.offset /\ Size(r) = Size(b) - n
           /\ GetString(b, n) \in Seq(Nat) /\ Len(GetString(b, n)) = n
           /\ Content(r) \in Seq(Nat)
           /\ Content(b) = GetString(b, n) \o Content(r)
<1> DEFINE r == [b EXCEPT !.start = @ + n]  u == Content(b)
<1>1. /\ b.cap \in Nat /\ b.start \in Nat /\ b.offset \in Nat
      /\ b.start <= b.offset /\ b.offset <= b.cap
      /\ Size(b) \in Nat /\ b.start + Size(b) = b.offset
      /\ \A i \in Nat : b.offset <= i /\ i < b.cap => b.mem[i] = Nul
  BY GoodFields
<1>2. r = [cap |-> b.cap, start |-> b.start + n, offset |-> b.offset, mem |-> b.mem]
  BY DEF Good, Buffers
<1>3. r.cap = b.cap /\ r.start = b.start + n /\ r.offset = b.offset /\ r.mem = b.mem
  BY <1>2
<1> HIDE DEF r
<1>4. b.start + n \in Nat /\ b.start + n <= b.offset /\ b.mem \in [0..b.cap - 1 -> Nat]
  BY <1>1 DEF Good
<1>5. Good(r)
  <2>1. Good([cap |-> b.cap, start |-> b.start + n, offset |-> b.offset, mem |-> b.mem])
    BY <1>1, <1>4, MakeGood
  <2> QED BY <1>2, <2>1
<1>6. Size(r) = Size(b) - n
  BY <1>1, <1>3 DEF Size
<1>7. u \in Seq(Nat) /\ Len(u) = Size(b) /\ \A i \in 1..Size(b) : u[i] = b.mem[b.start + i - 1]
  BY ContentIsSeq
<1> HIDE DEF u
<1> DEFINE v == SubSeq(u, n + 1, Len(u))
<1>8. /\ SubSeq(u, 1, n) \in Seq(Nat) /\ Len(SubSeq(u, 1, n)) = n
      /\ v \in Seq(Nat) /\ Len(v) = Size(b) - n
      /\ \A i \in 1..Size(b) - n : v[i] = u[n + i]
      /\ u = SubSeq(u, 1, n) \o v
  <2>1. n <= Len(u)
    BY <1>7
  <2>2. /\ SubSeq(u, 1, n) \in Seq(Nat) /\ Len(SubSeq(u, 1, n)) = n
        /\ v \in Seq(Nat) /\ Len(v) = Len(u) - n
        /\ \A i \in 1..Len(u) - n : v[i] = u[n + i]
        /\ u = SubSeq(u, 1, n) \o v
    BY <1>7, <2>1, SplitSeq
  <2> HIDE DEF v
  <2> QED BY <1>7, <2>2
<1> HIDE DEF v
<1>9. ASSUME NEW i \in 1..Size(r) PROVE r.mem[r.start + i - 1] = v[i]
  <2>1. /\ i \in 1..Size(b) - n /\ n + i \in 1..Size(b)
        /\ (b.start + n) + i - 1 = b.start + (n + i) - 1
    BY <1>1, <1>6
  <2> QED BY <1>3, <1>7, <1>8, <2>1
<1>10. Content(r) = v
  BY <1>5, <1>6, <1>8, <1>9, ContentIs
<1> QED BY <1>3, <1>5, <1>6, <1>8, <1>10 DEF r, u, GetString

\* An empty buffer may be cleared.
LEMMA EmptiedGood ==
    ASSUME NEW b, Good(b)
    PROVE  /\ Good(Emptied(b)) /\ Content(Emptied(b)) = Content(b)
           /\ Size(b) = 0 => Content(b) = <<>>
<1>1. b.cap \in Nat
  BY GoodFields
<1>2. Size(b) = 0 => Content(b) = <<>>
  BY ContentIsSeq, EmptySeq
<1>3. Good(New(b.cap)) /\ Content(New(b.cap)) = <<>>
  BY <1>1, NewGood
<1> QED BY <1>2, <1>3 DEF Emptied, Clear

\* consume takes from the front, and clears a buffer it has emptied.
LEMMA ConsumeGood ==
    ASSUME NEW b, Good(b), NEW n \in Nat, n <= Size(b)
    PROVE  /\ Good(Consume(b, n))
           /\ GetString(b, n) \in Seq(Nat)
           /\ Content(Consume(b, n)) \in Seq(Nat)
           /\ Content(b) = GetString(b, n) \o Content(Consume(b, n))
<1> DEFINE r == [b EXCEPT !.start = @ + n]
<1>1. /\ Good(r) /\ Size(r) = Size(b) - n
      /\ GetString(b, n) \in Seq(Nat) /\ Content(r) \in Seq(Nat)
      /\ Content(b) = GetString(b, n) \o Content(r)
  BY AdvanceGood
<1> HIDE DEF r
<1>2. /\ b.cap \in Nat /\ b.start \in Nat /\ Size(b) \in Nat /\ b.start + Size(b) = b.offset
  BY GoodFields
<1>3. CASE b.start + n = b.offset
  <2>1. Size(r) = 0
    BY <1>1, <1>2, <1>3
  <2>2. Content(r) = <<>>
    BY <1>1, <2>1, EmptiedGood
  <2>3. Good(New(b.cap)) /\ Content(New(b.cap)) = <<>>
    BY <1>2, NewGood
  <2>4. Consume(b, n) = New(b.cap)
    BY <1>3 DEF Consume, Clear
  <2> QED BY <1>1, <2>2, <2>3, <2>4
<1>4. CASE b.start + n # b.offset
  <2>1. Consume(b, n) = r
    BY <1>4 DEF Consume, r
  <2> QED BY <1>1, <2>1
<1> QED BY <1>3, <1>4

-----------------------------------------------------------------------------
(* read_all and write_all. *)

StreamOK ==
    /\ buf \in [Ends -> Buffers] /\ \A e \in Ends : Good(buf[e])
    /\ left \in [Ends -> 1..Step]
    /\ chan \in [Chans -> Seq(Nat)] /\ \A k \in Chans : Len(chan[k]) <= PipeSize

\* The stream of end e and the pipe k change, and nothing else.
Only(e, k) ==
    /\ \A f \in Ends : f # e => buf'[f] = buf[f]
    /\ \A j \in Chans : j # k => chan'[j] = chan[j]

\* A call leaves the streams in order when it leaves the buffer, the rest of the
\* chunk and the pipe in order.
LEMMA StreamStep ==
    ASSUME StreamOK, NEW e \in Ends, NEW k \in Chans,
           NEW b, Good(b), buf' = [buf EXCEPT ![e] = b],
           NEW n \in 1..Step, left' = [left EXCEPT ![e] = n],
           NEW q \in Seq(Nat), Len(q) <= PipeSize, chan' = [chan EXCEPT ![k] = q]
    PROVE  StreamOK' /\ Only(e, k) /\ buf'[e] = b /\ chan'[k] = q
<1>1. b \in Buffers
  BY DEF Good
<1>2. /\ buf' \in [Ends -> Buffers] /\ buf'[e] = b
      /\ \A f \in Ends : f # e => buf'[f] = buf[f]
  BY <1>1 DEF StreamOK
<1>3. left' \in [Ends -> 1..Step]
  BY DEF StreamOK
<1>4. /\ chan' \in [Chans -> Seq(Nat)] /\ chan'[k] = q
      /\ \A j \in Chans : j # k => chan'[j] = chan[j]
  BY DEF StreamOK
<1>5. \A f \in Ends : Good(buf'[f])
  BY <1>2 DEF StreamOK
<1>6. \A j \in Chans : Len(chan'[j]) <= PipeSize
  BY <1>4 DEF StreamOK
<1> QED BY <1>2, <1>3, <1>4, <1>5, <1>6 DEF StreamOK, Only

\* What is left of a chunk after n bytes.
LEMMA LeftStep ==
    ASSUME StreamOK, NEW e \in Ends, NEW n \in Nat, n > 0, n <= left[e]
    PROVE  (IF left[e] = n THEN Step ELSE left[e] - n) \in 1..Step
<1>1. left[e] \in 1..Step /\ Step \in Nat /\ Step > 0
  BY StepAssumption DEF StreamOK
<1> QED BY <1>1

\* A read() brings the bytes at the front of the pipe, for which there is room.
LEMMA ReadSomeMoves ==
    ASSUME StreamOK, NEW e \in Ends, NEW k \in Chans, ReadSome(e, k)
    PROVE  /\ StreamOK' /\ Only(e, k)
           /\ \E m \in Seq(Nat) :
                /\ m # <<>>
                /\ chan[k] = m \o chan'[k]
                /\ Content(buf'[e]) = Content(buf[e]) \o m
<1> DEFINE n == Readable(e, k)  b == buf[e]  q == chan[k]
           m == SubSeq(q, 1, n)  t == SubSeq(q, n + 1, Len(q))
<1>1. /\ n > 0
      /\ buf' = [buf EXCEPT ![e] = Fill(Ready(e), m)]
      /\ chan' = [chan EXCEPT ![k] = t]
      /\ left' = [left EXCEPT ![e] = IF left[e] = n THEN Step ELSE left[e] - n]
  BY DEF ReadSome
<1>2. Good(b) /\ left[e] \in 1..Step /\ q \in Seq(Nat) /\ Len(q) <= PipeSize /\ PipeSize \in Nat
  BY PipeAssumption DEF StreamOK
<1>3. Len(q) \in Nat /\ Step \in Nat /\ left[e] \in Nat
  BY <1>2, StepAssumption, LenProperties
<1>4. n \in Nat /\ n <= left[e] /\ n <= Len(q)
  BY <1>3 DEF Readable, Smaller
<1> HIDE DEF n
<1>5. /\ m \in Seq(Nat) /\ Len(m) = n /\ t \in Seq(Nat) /\ Len(t) = Len(q) - n
      /\ q = m \o t
  BY <1>2, <1>4, SplitSeq
<1> HIDE DEF m, t
<1> DEFINE r == Ready(e)
<1>6. b.offset \in Nat /\ b.offset + left[e] \in Nat
  BY <1>2, <1>3, GoodFields
<1>7. /\ Good(r) /\ Content(r) = Content(b)
      /\ r.cap >= b.offset + left[e] /\ r.offset = b.offset
  BY <1>2, <1>6, ResizeGood DEF Ready
<1> HIDE DEF r
<1>8. r.cap \in Nat
  BY <1>7, GoodFields
<1>9. r.offset + Len(m) <= r.cap
  BY <1>3, <1>4, <1>5, <1>6, <1>7, <1>8
<1> DEFINE f == Fill(r, m)
<1>10. Good(f) /\ Content(f) = Content(b) \o m
  BY <1>5, <1>7, <1>9, FillGood
<1>11. buf' = [buf EXCEPT ![e] = f]
  BY <1>1 DEF r
<1> HIDE DEF f
<1>12. (IF left[e] = n THEN Step ELSE left[e] - n) \in 1..Step
  BY <1>1, <1>4, LeftStep
<1>13. Len(t) <= PipeSize
  BY <1>2, <1>3, <1>4, <1>5
<1>14. StreamOK' /\ Only(e, k) /\ buf'[e] = f /\ chan'[k] = t
  BY <1>1, <1>5, <1>10, <1>11, <1>12, <1>13, StreamStep
<1>15. m # <<>>
  BY <1>1, <1>4, <1>5, EmptySeq
<1> QED BY <1>5, <1>10, <1>14, <1>15

\* The read() that ends read_all has found the pipe empty, and has made room.
LEMMA ReadEndsMoves ==
    ASSUME StreamOK, NEW e \in Ends, NEW k \in Chans, ReadEnds(e, k)
    PROVE  /\ StreamOK' /\ Only(e, k) /\ UNCHANGED chan
           /\ chan[k] = <<>>
           /\ Content(buf'[e]) = Content(buf[e])
           /\ buf'[e].offset < buf'[e].cap
<1> DEFINE b == buf[e]  q == chan[k]  r == Ready(e)
<1>1. /\ Readable(e, k) = 0 /\ UNCHANGED chan
      /\ buf' = [buf EXCEPT ![e] = r] /\ left' = [left EXCEPT ![e] = Step]
  BY DEF ReadEnds
<1>2. Good(b) /\ left[e] \in 1..Step /\ q \in Seq(Nat) /\ Len(q) <= PipeSize
  BY DEF StreamOK
<1>3. Len(q) \in Nat /\ Step \in 1..Step /\ left[e] \in Nat /\ left[e] > 0
  BY <1>2, StepAssumption, LenProperties
<1>4. Len(q) = 0
  BY <1>1, <1>3 DEF Readable, Smaller
<1>5. chan[k] = <<>>
  BY <1>2, <1>4, EmptySeq
<1>6. b.offset \in Nat /\ b.offset + left[e] \in Nat
  BY <1>2, <1>3, GoodFields
<1>7. /\ Good(r) /\ Content(r) = Content(b)
      /\ r.cap >= b.offset + left[e] /\ r.offset = b.offset
  BY <1>2, <1>6, ResizeGood DEF Ready
<1> HIDE DEF r
<1>8. r.cap \in Nat
  BY <1>7, GoodFields
<1>9. r.offset < r.cap
  BY <1>3, <1>6, <1>7, <1>8
<1>10. chan' = [chan EXCEPT ![k] = q]
  BY <1>1 DEF StreamOK
<1>11. StreamOK' /\ Only(e, k) /\ buf'[e] = r
  <2> HIDE DEF q
  <2>1. Good(r) /\ buf' = [buf EXCEPT ![e] = r] /\ left' = [left EXCEPT ![e] = Step]
    BY <1>1, <1>7
  <2> QED BY <1>2, <1>3, <1>10, <2>1, StreamStep
<1> QED BY <1>1, <1>5, <1>7, <1>9, <1>11

\* A write() takes the bytes at the front of the buffer to the end of the pipe.
LEMMA WriteSomeMoves ==
    ASSUME StreamOK, NEW e \in Ends, NEW k \in Chans, WriteSome(e, k)
    PROVE  /\ StreamOK' /\ Only(e, k)
           /\ \E m \in Seq(Nat) :
                /\ Content(buf[e]) = m \o Content(buf'[e])
                /\ chan'[k] = chan[k] \o m
<1> DEFINE b == buf[e]  q == chan[k]
<1>1. Good(b) /\ left[e] \in 1..Step /\ q \in Seq(Nat) /\ Len(q) <= PipeSize /\ PipeSize \in Nat
  BY PipeAssumption DEF StreamOK
<1>2. Len(q) \in Nat /\ Step \in Nat /\ left[e] \in Nat /\ Size(b) \in Nat
  BY <1>1, StepAssumption, LenProperties, GoodFields
<1>3. PICK n \in 1..Smaller(Writable(e), Room(k)) :
        /\ chan' = [chan EXCEPT ![k] = @ \o GetString(b, n)]
        /\ buf' = [buf EXCEPT ![e] = IF n = left[e] THEN Emptied(Sent(e, n)) ELSE Sent(e, n)]
        /\ left' = [left EXCEPT ![e] = IF @ = n THEN Step ELSE @ - n]
  BY DEF WriteSome
<1>4. n \in Nat /\ n > 0 /\ n <= left[e] /\ n <= Size(b) /\ n <= PipeSize - Len(q)
  BY <1>1, <1>2 DEF Smaller, Writable, Room
<1> DEFINE r == Sent(e, n)  m == GetString(b, n)
           c == IF n = left[e] THEN Emptied(r) ELSE r
<1>5. /\ Good(r) /\ m \in Seq(Nat) /\ Len(m) = n
      /\ Content(b) = m \o Content(r)
  BY <1>1, <1>4, AdvanceGood DEF Sent
<1> HIDE DEF r, m
<1>6. Good(c) /\ Content(c) = Content(r)
  BY <1>5, EmptiedGood
<1>7. buf' = [buf EXCEPT ![e] = c] /\ chan' = [chan EXCEPT ![k] = q \o m]
  BY <1>3 DEF r, m
<1>8. q \o m \in Seq(Nat) /\ Len(q \o m) = Len(q) + Len(m)
  BY <1>1, <1>5, ConcatProperties
<1>9. Len(q \o m) <= PipeSize
  BY <1>1, <1>2, <1>4, <1>5, <1>8
<1> DEFINE l == IF left[e] = n THEN Step ELSE left[e] - n
           p == q \o m
<1>10. l \in 1..Step /\ left' = [left EXCEPT ![e] = l]
  BY <1>3, <1>4, LeftStep
<1> HIDE DEF c, q, l, p
<1>11. StreamOK' /\ Only(e, k) /\ buf'[e] = c /\ chan'[k] = p
  <2>1. p \in Seq(Nat) /\ Len(p) <= PipeSize /\ chan' = [chan EXCEPT ![k] = p]
    BY <1>7, <1>8, <1>9 DEF p
  <2> QED BY <1>6, <1>7, <1>10, <2>1, StreamStep
<1> QED BY <1>5, <1>6, <1>11 DEF q, p

\* So does the last one, unless the pipe refused it and nothing moves.
LEMMA WriteEndsMoves ==
    ASSUME StreamOK, NEW e \in Ends, NEW k \in Chans, WriteEnds(e, k)
    PROVE  /\ StreamOK' /\ Only(e, k)
           /\ \E m \in Seq(Nat) :
                /\ Content(buf[e]) = m \o Content(buf'[e])
                /\ chan'[k] = chan[k] \o m
<1> DEFINE b == buf[e]  q == chan[k]
<1>1. Good(b) /\ left[e] \in 1..Step /\ q \in Seq(Nat) /\ Len(q) <= PipeSize /\ PipeSize \in Nat
  BY PipeAssumption DEF StreamOK
<1>2. Len(q) \in Nat /\ Step \in Nat /\ left[e] \in Nat /\ Size(b) \in Nat /\ b.cap \in Nat
  BY <1>1, StepAssumption, LenProperties, GoodFields
<1>3. Step \in 1..Step /\ left' = [left EXCEPT ![e] = Step]
  BY StepAssumption DEF WriteEnds
<1>4. Content(b) \in Seq(Nat) /\ Len(Content(b)) = Size(b)
  BY <1>1, ContentIsSeq
<1>5. CASE buf' = [buf EXCEPT ![e] = Emptied(@)] /\ UNCHANGED chan
  <2> DEFINE c == Emptied(b)
  <2>1. Good(c) /\ Content(c) = Content(b)
    BY <1>1, EmptiedGood
  <2>2. buf' = [buf EXCEPT ![e] = c] /\ chan' = [chan EXCEPT ![k] = q]
    BY <1>5 DEF StreamOK
  <2> HIDE DEF c, q
  <2>3. StreamOK' /\ Only(e, k) /\ buf'[e] = c /\ chan'[k] = q
    BY <1>1, <1>3, <2>1, <2>2, StreamStep
  <2>4. <<>> \in Seq(Nat) /\ Content(b) = <<>> \o Content(b) /\ q = q \o <<>>
    BY <1>1, <1>4, EmptySeq, ConcatEmptySeq
  <2> QED BY <2>1, <2>3, <2>4 DEF q
<1>6. CASE /\ Writable(e) \in 1..Smaller(left[e] - 1, Room(k))
           /\ chan' = [chan EXCEPT ![k] = @ \o Content(b)]
           /\ buf' = [buf EXCEPT ![e] = Clear(@)]
  <2> DEFINE c == New(b.cap)  m == Content(b)
  <2>1. Good(c) /\ Content(c) = <<>>
    BY <1>2, NewGood
  <2>2. buf' = [buf EXCEPT ![e] = c] /\ chan' = [chan EXCEPT ![k] = q \o m]
    BY <1>6 DEF Clear
  <2>3. Size(b) <= PipeSize - Len(q)
    BY <1>1, <1>2, <1>6 DEF Smaller, Writable, Room
  <2>4. q \o m \in Seq(Nat) /\ Len(q \o m) = Len(q) + Len(m)
    BY <1>1, <1>4, ConcatProperties
  <2> HIDE DEF m
  <2>5. Len(q \o m) <= PipeSize
    BY <1>1, <1>2, <1>4, <2>3, <2>4 DEF m
  <2> HIDE DEF c, q
  <2>6. StreamOK' /\ Only(e, k) /\ buf'[e] = c /\ chan'[k] = q \o m
    BY <1>3, <2>1, <2>2, <2>4, <2>5, StreamStep
  <2>7. m \in Seq(Nat) /\ m = m \o <<>>
    BY <1>4, ConcatEmptySeq DEF m
  <2> QED BY <2>1, <2>6, <2>7 DEF q, m
<1> QED BY <1>5, <1>6 DEF WriteEnds

-----------------------------------------------------------------------------
(* subp_open. *)

PSites == {"user", "stdout", "stderr", "stdin", "write", "poll", "done"}
CSites == {"idle", "read", "write", "leaving", "dead"}
Modes  == {"none", "call", "loop", "final"}

TypeOK ==
    /\ StreamOK
    /\ ppc \in PSites /\ cpc \in CSites /\ mode \in Modes
    /\ input \in Seq(Nat) /\ bytes \in 0..MaxBytes

\* Why communicate() runs, and what is known when it does: its argument is empty
\* unless the user called it, and the last one finds the child dead.
ModeInv ==
    /\ ppc \in {"stdout", "stderr", "stdin", "write"} => mode # "none"
    /\ mode \in {"loop", "final"} => input = <<>>
    /\ mode = "final" => cpc = "dead" /\ ppc \in {"stdout", "stderr", "stdin", "done"}
    /\ ppc = "done" => mode = "final"

\* The last communicate() leaves one pipe after the other empty.
EmptyInv ==
    mode = "final" =>
        /\ ppc \in {"stderr", "stdin", "done"} => chan["out"] = <<>>
        /\ ppc \in {"stdin", "done"} => chan["err"] = <<>>

\* Outside its read_all an output has room for a terminator.
RoomInv == \A e \in {"stdout", "stderr"} : ppc # e => buf[e].offset < buf[e].cap

\* The argument of communicate() that has not joined wbuffer yet.
Pending == IF ppc \in {"stdout", "stderr", "stdin"} THEN input ELSE <<>>

Numbered(n) == [i \in 1..n |-> i]

\* The bytes on their way to the parent's standard output, from each place on.
FromStdin    == Content(buf["stdin"]) \o Pending
FromIn       == chan["in"] \o FromStdin
FromChildin  == Content(buf["childin"]) \o FromIn
FromChildout == Content(buf["childout"]) \o FromChildin
FromOut      == chan["out"] \o FromChildout

\* Every byte sent is somewhere, once, and in order.
OrderInv == Numbered(bytes) = Content(buf["stdout"]) \o FromOut

Inv == TypeOK /\ ModeInv /\ EmptyInv /\ RoomInv /\ OrderInv

\* The streams and the pipes of subp_open.
LEMMA Names ==
    /\ "stdin" \in Ends /\ "stdout" \in Ends /\ "stderr" \in Ends
    /\ "childin" \in Ends /\ "childout" \in Ends
    /\ "in" \in Chans /\ "out" \in Chans /\ "err" \in Chans
BY EndsAssumption DEF SubpEnds, SubpChans

\* What is moving are sequences of bytes.
LEMMA Flows ==
    ASSUME TypeOK
    PROVE  /\ \A e \in Ends : Content(buf[e]) \in Seq(Nat)
           /\ \A k \in Chans : chan[k] \in Seq(Nat)
           /\ Pending \in Seq(Nat)
           /\ FromStdin \in Seq(Nat) /\ FromIn \in Seq(Nat) /\ FromChildin \in Seq(Nat)
           /\ FromChildout \in Seq(Nat) /\ FromOut \in Seq(Nat)
<1>1. \A e \in Ends : Content(buf[e]) \in Seq(Nat)
  BY ContentIsSeq DEF TypeOK, StreamOK
<1>2. \A k \in Chans : chan[k] \in Seq(Nat)
  BY DEF TypeOK, StreamOK
<1>3. Pending \in Seq(Nat)
  BY EmptySeq DEF TypeOK, Pending
<1>4. FromStdin \in Seq(Nat)
  BY <1>1, <1>3, Names, ConcatProperties DEF FromStdin
<1>5. FromIn \in Seq(Nat)
  BY <1>2, <1>4, Names, ConcatProperties DEF FromIn
<1>6. FromChildin \in Seq(Nat)
  BY <1>1, <1>5, Names, ConcatProperties DEF FromChildin
<1>7. FromChildout \in Seq(Nat)
  BY <1>1, <1>6, Names, ConcatProperties DEF FromChildout
<1>8. FromOut \in Seq(Nat)
  BY <1>2, <1>7, Names, ConcatProperties DEF FromOut
<1> QED BY <1>1, <1>2, <1>3, <1>4, <1>5, <1>6, <1>7, <1>8

\* The order in which sequences of bytes are put together does not matter.
Joins(x, y, z) == (x \o y) \o z = x \o (y \o z)

JoinsIn(S) == \A x, y, z \in Seq(S) : Joins(x, y, z)

\* Appending is associative, for the bytes as for anything else.
LEMMA Assoc ==
    \A x, y, z \in Seq(Nat) : Joins(x, y, z)
<1>1. \A S : JoinsIn(S)
  BY ConcatAssociative, Zenon DEF Joins, JoinsIn
<1>2. JoinsIn(Nat)
  BY <1>1, Zenon
<1> QED BY <1>2, Zenon DEF JoinsIn

\* The bytes m go from the front of one place, before y, to the end of the next,
\* behind x.
Shifts(x, y, z, m) == x \o ((m \o y) \o z) = (x \o m) \o (y \o z)

\* The order of the bytes, with whatever comes behind them, is kept.
LEMMA Shift ==
    \A x, y, z, m \in Seq(Nat) : Shifts(x, y, z, m)
<1> TAKE x \in Seq(Nat), y \in Seq(Nat), z \in Seq(Nat), m \in Seq(Nat)
<1> DEFINE w == y \o z
<1>1. w \in Seq(Nat)
  BY ConcatProperties
<1>2. Joins(m, y, z)
  BY Assoc
<1>3. Joins(x, m, w)
  <2> HIDE DEF w
  <2> QED BY <1>1, Assoc
<1>4. (m \o y) \o z = m \o w /\ (x \o m) \o w = x \o (m \o w)
  BY <1>2, <1>3, Zenon DEF Joins
<1> QED BY <1>4 DEF Shifts

\* A step that moves no byte of the flow.
LEMMA NothingMoves ==
    ASSUME OrderInv, bytes' = bytes, Pending' = Pending,
           chan'["in"] = chan["in"], chan'["out"] = chan["out"],
           \A e \in Ends : Content(buf'[e]) = Content(buf[e])
    PROVE  OrderInv'
<1>1. FromStdin' = FromStdin
  BY Names DEF FromStdin
<1>2. FromIn' = FromIn
  BY <1>1 DEF FromIn
<1>3. FromChildin' = FromChildin
  BY <1>2, Names DEF FromChildin
<1>4. FromChildout' = FromChildout
  BY <1>3, Names DEF FromChildout
<1>5. FromOut' = FromOut
  BY <1>4 DEF FromOut
<1>6. Numbered(bytes)' = Numbered(bytes)
  OBVIOUS
<1> QED BY <1>5, <1>6, Names DEF OrderInv

\* A step the abstract stream does not see.
Quiet == bytes' = bytes /\ Content(buf'["stdout"]) = Content(buf["stdout"])

\* The bytes of a call to communicate come behind those of the calls before it.
LEMMA NumberedGrows ==
    ASSUME NEW b \in Nat, NEW n \in Nat
    PROVE  /\ Numbered(b) \in Seq(Nat) /\ Len(Numbered(b)) = b
           /\ [i \in 1..n |-> b + i] \in Seq(Nat)
           /\ Numbered(b + n) = Numbered(b) \o [i \in 1..n |-> b + i]
<1> DEFINE u == Numbered(b)  v == [i \in 1..n |-> b + i]  w == Numbered(b + n)
<1>1. u \in [1..b -> Nat] /\ v \in [1..n -> Nat] /\ w \in [1..b + n -> Nat]
  BY DEF Numbered
<1>2. u \in Seq(Nat) /\ v \in Seq(Nat) /\ w \in Seq(Nat)
  BY <1>1, SeqDef
<1>3. Len(u) = b /\ Len(v) = n /\ Len(w) = b + n
  BY <1>1, <1>2, LenProperties
<1>4. /\ u \o v \in Seq(Nat) /\ Len(u \o v) = Len(u) + Len(v)
      /\ \A i \in 1..Len(u) + Len(v) : (u \o v)[i] = IF i <= Len(u) THEN u[i] ELSE v[i - Len(u)]
  BY <1>2, ConcatProperties
<1>5. ASSUME NEW i \in 1..b + n PROVE w[i] = (u \o v)[i]
  <2>1. w[i] = i
    BY DEF Numbered
  <2>2. CASE i <= b
    <3>1. i \in 1..b
      BY <2>2
    <3>2. u[i] = i
      BY <3>1 DEF Numbered
    <3> HIDE DEF u, v, w
    <3> QED BY <1>3, <1>4, <2>1, <2>2, <3>2
  <2>3. CASE ~(i <= b)
    <3>1. i - b \in 1..n /\ b + (i - b) = i
      BY <2>3
    <3>2. v[i - b] = i
      BY <3>1
    <3> HIDE DEF u, v, w
    <3> QED BY <1>3, <1>4, <2>1, <2>3, <3>2
  <2> QED BY <2>2, <2>3
<1>6. w = u \o v
  <2> HIDE DEF u, v, w
  <2> QED BY <1>2, <1>3, <1>4, <1>5, SeqEqual
<1> QED BY <1>2, <1>3, <1>6

\* Nothing is pending while the user runs; his next argument is, behind the rest.
LEMMA CommunicateStep ==
    ASSUME Inv, Communicate
    PROVE  /\ Inv' /\ Content(buf'["stdout"]) = Content(buf["stdout"])
           /\ \E n \in Nat : n > 0 /\ bytes' = bytes + n
<1>1. PICK n \in 1..MaxBytes - bytes :
        /\ ppc' = "stdout" /\ mode' = "call" /\ input' = [i \in 1..n |-> bytes + i]
        /\ bytes' = bytes + n
  BY DEF Communicate, Begin
<1>2. /\ ppc = "user" /\ buf' = buf /\ left' = left /\ chan' = chan /\ cpc' = cpc
      /\ bytes \in 0..MaxBytes /\ MaxBytes \in Nat
  BY MaxBytesAssumption DEF Communicate, streamVars, childVars, Inv, TypeOK
<1>3. bytes \in Nat /\ n \in Nat /\ n > 0 /\ bytes + n \in 0..MaxBytes
  BY <1>2
<1> DEFINE s == [i \in 1..n |-> bytes + i]
<1>4. /\ s \in Seq(Nat) /\ Numbered(bytes) \in Seq(Nat)
      /\ Numbered(bytes + n) = Numbered(bytes) \o s
  BY <1>3, NumberedGrows
<1>5. input' = s
  BY <1>1
<1> HIDE DEF s
<1>6. StreamOK'
  BY <1>2 DEF Inv, TypeOK, StreamOK
<1>7. TypeOK'
  BY <1>1, <1>2, <1>3, <1>4, <1>5, <1>6 DEF Inv, TypeOK, PSites, Modes
<1>8. ModeInv' /\ EmptyInv'
  BY <1>1, <1>2 DEF ModeInv, EmptyInv
<1>9. RoomInv'
  BY <1>1, <1>2 DEF Inv, RoomInv
<1>10. OrderInv'
  <2> DEFINE a == Content(buf["stdin"])  b == chan["in"]  c == Content(buf["childin"])
             d == Content(buf["childout"])  f == chan["out"]  g == Content(buf["stdout"])
  <2>1. a \in Seq(Nat) /\ b \in Seq(Nat) /\ c \in Seq(Nat)
    BY Flows, Names DEF Inv
  <2>2. d \in Seq(Nat) /\ f \in Seq(Nat) /\ g \in Seq(Nat)
    BY Flows, Names DEF Inv
  <2>3. Pending = <<>> /\ Pending' = s
    BY <1>1, <1>2, <1>5 DEF Pending
  <2>4. FromStdin = a /\ FromStdin' = a \o s
    BY <1>2, <2>1, <2>3, ConcatEmptySeq DEF FromStdin
  <2>5. /\ FromIn \in Seq(Nat) /\ FromChildin \in Seq(Nat)
        /\ FromChildout \in Seq(Nat) /\ FromOut \in Seq(Nat)
    BY Flows DEF Inv
  <2>6. FromIn = b \o a /\ FromIn' = FromIn \o s
    <3>1. FromIn = b \o a /\ FromIn' = b \o (a \o s)
      BY <1>2, <2>4 DEF FromIn
    <3>2. (b \o a) \o s = b \o (a \o s)
      <4> HIDE DEF a, b
      <4>1. a \in Seq(Nat) /\ b \in Seq(Nat) /\ s \in Seq(Nat)
        BY <1>4, <2>1
      <4>2. Joins(b, a, s)
        BY <4>1, Assoc
      <4> QED BY <4>2, Zenon DEF Joins
    <3> QED BY <3>1, <3>2
  <2>7. FromChildin' = FromChildin \o s
    <3>1. FromChildin = c \o FromIn /\ FromChildin' = c \o (FromIn \o s)
      BY <1>2, <2>6 DEF FromChildin
    <3>2. (c \o FromIn) \o s = c \o (FromIn \o s)
      <4> HIDE DEF c
      <4>1. c \in Seq(Nat) /\ FromIn \in Seq(Nat) /\ s \in Seq(Nat)
        BY <1>4, <2>1, <2>5
      <4>2. Joins(c, FromIn, s)
        BY <4>1, Assoc
      <4> QED BY <4>2, Zenon DEF Joins
    <3> QED BY <3>1, <3>2
  <2>8. FromChildout' = FromChildout \o s
    <3>1. FromChildout = d \o FromChildin /\ FromChildout' = d \o (FromChildin \o s)
      BY <1>2, <2>7 DEF FromChildout
    <3>2. (d \o FromChildin) \o s = d \o (FromChildin \o s)
      <4> HIDE DEF d
      <4>1. d \in Seq(Nat) /\ FromChildin \in Seq(Nat) /\ s \in Seq(Nat)
        BY <1>4, <2>2, <2>5
      <4>2. Joins(d, FromChildin, s)
        BY <4>1, Assoc
      <4> QED BY <4>2, Zenon DEF Joins
    <3> QED BY <3>1, <3>2
  <2>9. FromOut' = FromOut \o s
    <3>1. FromOut = f \o FromChildout /\ FromOut' = f \o (FromChildout \o s)
      BY <1>2, <2>8 DEF FromOut
    <3>2. (f \o FromChildout) \o s = f \o (FromChildout \o s)
      <4> HIDE DEF f
      <4>1. f \in Seq(Nat) /\ FromChildout \in Seq(Nat) /\ s \in Seq(Nat)
        BY <1>4, <2>2, <2>5
      <4>2. Joins(f, FromChildout, s)
        BY <4>1, Assoc
      <4> QED BY <4>2, Zenon DEF Joins
    <3> QED BY <3>1, <3>2
  <2>10. Numbered(bytes)' = (g \o FromOut) \o s
    BY <1>1, <1>4 DEF Inv, OrderInv
  <2>11. Numbered(bytes)' = g \o FromOut'
    <3>1. (g \o FromOut) \o s = g \o (FromOut \o s)
      <4> HIDE DEF g
      <4>1. g \in Seq(Nat) /\ FromOut \in Seq(Nat) /\ s \in Seq(Nat)
        BY <1>4, <2>2, <2>5
      <4>2. Joins(g, FromOut, s)
        BY <4>1, Assoc
      <4> QED BY <4>2, Zenon DEF Joins
    <3> QED BY <2>9, <2>10, <3>1
  <2> QED BY <1>2, <2>11 DEF OrderInv
<1> QED BY <1>1, <1>2, <1>3, <1>7, <1>8, <1>9, <1>10 DEF Inv

\* wait(), poll() and the steps of the child that touch no stream.
LEMMA ControlStep ==
    ASSUME Inv, Wait \/ Poll \/ ChildLeave \/ ChildExit \/ Killed
    PROVE  Inv' /\ Quiet
<1>1. buf' = buf /\ left' = left /\ chan' = chan /\ bytes' = bytes
  BY DEF Wait, Poll, ChildLeave, ChildExit, Killed, streamVars, parentVars
<1>2. StreamOK'
  BY <1>1 DEF Inv, TypeOK, StreamOK
<1>3. <<>> \in Seq(Nat)
  BY EmptySeq
<1>4. /\ ppc' \in PSites /\ cpc' \in CSites /\ mode' \in Modes /\ input' \in Seq(Nat)
      /\ ModeInv' /\ Pending' = Pending
  <2>1. CASE Wait
    BY <2>1 DEF Wait, Inv, TypeOK, ModeInv, Pending, PSites, CSites, Modes, childVars
  <2>2. CASE Poll
    BY <1>3, <2>2 DEF Poll, Begin, Inv, TypeOK, ModeInv, Pending, PSites, CSites, Modes, childVars
  <2>3. CASE ChildLeave
    BY <2>3 DEF ChildLeave, Inv, TypeOK, ModeInv, Pending, PSites, CSites, Modes, parentVars
  <2>4. CASE ChildExit
    BY <2>4 DEF ChildExit, Inv, TypeOK, ModeInv, Pending, PSites, CSites, Modes, parentVars
  <2>5. CASE Killed
    BY <2>5 DEF Killed, Inv, TypeOK, ModeInv, Pending, PSites, CSites, Modes, parentVars
  <2> QED BY <2>1, <2>2, <2>3, <2>4, <2>5
<1>5. TypeOK'
  BY <1>1, <1>2, <1>4 DEF Inv, TypeOK
<1>6. EmptyInv' /\ RoomInv'
  BY <1>1 DEF Inv, EmptyInv, RoomInv, ModeInv, Wait, Poll, Begin, ChildLeave, ChildExit, Killed,
             parentVars
<1>7. OrderInv'
  BY <1>1, <1>4, NothingMoves DEF Inv
<1> QED BY <1>1, <1>4, <1>5, <1>6, <1>7 DEF Inv, Quiet

\* read_all of the child's standard output: what leaves the pipe is delivered, and
\* when the dead child's pipe is empty it stays so.
LEMMA CollectOutStep ==
    ASSUME Inv, Collect("stdout", "out", "stderr")
    PROVE  /\ Inv' /\ bytes' = bytes
           /\ \/ Quiet
              \/ \E m \in Seq(Nat) : m # <<>> /\ Content(buf'["stdout"]) = Content(buf["stdout"]) \o m
<1>1. /\ ppc = "stdout" /\ mode' = mode /\ input' = input /\ bytes' = bytes /\ cpc' = cpc
      /\ ppc' \in {"stdout", "stderr"}
  BY DEF Collect, childVars
<1>2. StreamOK /\ mode # "none" /\ Pending' = Pending
  BY <1>1 DEF Inv, TypeOK, ModeInv, Pending
<1>3. CASE ReadSome("stdout", "out") /\ UNCHANGED ppc
  <2>1. StreamOK' /\ Only("stdout", "out")
    BY <1>2, <1>3, Names, ReadSomeMoves
  <2>2. PICK m \in Seq(Nat) :
          /\ m # <<>> /\ chan["out"] = m \o chan'["out"]
          /\ Content(buf'["stdout"]) = Content(buf["stdout"]) \o m
    BY <1>2, <1>3, Names, ReadSomeMoves
  <2>3. TypeOK'
    BY <1>1, <2>1 DEF Inv, TypeOK, PSites
  <2>4. ModeInv' /\ EmptyInv'
    BY <1>1, <1>3 DEF Inv, ModeInv, EmptyInv
  <2>5. RoomInv'
    BY <1>1, <1>3, <2>1, Names DEF Inv, RoomInv, Only
  <2>6. /\ buf'["stdin"] = buf["stdin"] /\ buf'["childin"] = buf["childin"]
        /\ buf'["childout"] = buf["childout"] /\ chan'["in"] = chan["in"]
    BY <2>1, Names DEF Only
  <2>7. FromChildout' = FromChildout
    BY <1>2, <2>6 DEF FromChildout, FromChildin, FromIn, FromStdin
  <2> DEFINE x == Content(buf["stdout"])  y == chan'["out"]  z == FromChildout
  <2>8. x \in Seq(Nat) /\ y \in Seq(Nat) /\ z \in Seq(Nat)
    BY <2>1, Flows, Names DEF Inv, StreamOK
  <2>9. Numbered(bytes)' = x \o ((m \o y) \o z)
    BY <1>1, <2>2 DEF Inv, OrderInv, FromOut
  <2>10. x \o ((m \o y) \o z) = (x \o m) \o (y \o z)
    <3> HIDE DEF x, y, z
    <3>1. m \in Seq(Nat)
      OBVIOUS
    <3>2. Shifts(x, y, z, m)
      BY <2>8, <3>1, Shift
    <3> QED BY <3>2 DEF Shifts
  <2>11. OrderInv'
    BY <2>2, <2>7, <2>9, <2>10 DEF OrderInv, FromOut
  <2> QED BY <1>1, <2>2, <2>3, <2>4, <2>5, <2>11 DEF Inv
<1>4. CASE ReadEnds("stdout", "out") /\ ppc' = "stderr"
  <2>1. /\ StreamOK' /\ Only("stdout", "out") /\ chan' = chan /\ chan["out"] = <<>>
        /\ Content(buf'["stdout"]) = Content(buf["stdout"])
        /\ buf'["stdout"].offset < buf'["stdout"].cap
    BY <1>2, <1>4, Names, ReadEndsMoves
  <2>2. TypeOK'
    BY <1>1, <2>1 DEF Inv, TypeOK, PSites
  <2>3. ModeInv' /\ EmptyInv'
    BY <1>1, <1>4, <2>1 DEF Inv, ModeInv, EmptyInv
  <2>4. RoomInv'
    BY <1>1, <1>4, <2>1, Names DEF Inv, RoomInv, Only
  <2>5. \A e \in Ends : Content(buf'[e]) = Content(buf[e])
    BY <2>1 DEF Only
  <2>6. OrderInv'
    BY <1>1, <1>2, <2>1, <2>5, NothingMoves DEF Inv
  <2> QED BY <1>1, <2>1, <2>2, <2>3, <2>4, <2>6 DEF Inv, Quiet
<1> QED BY <1>3, <1>4 DEF Collect

\* read_all of the child's standard error.
LEMMA CollectErrStep ==
    ASSUME Inv, Collect("stderr", "err", "stdin")
    PROVE  Inv' /\ Quiet
<1>1. /\ ppc = "stderr" /\ mode' = mode /\ input' = input /\ bytes' = bytes /\ cpc' = cpc
      /\ ppc' \in {"stderr", "stdin"}
  BY DEF Collect, childVars
<1>2. StreamOK /\ mode # "none" /\ Pending' = Pending
  BY <1>1 DEF Inv, TypeOK, ModeInv, Pending
<1>3. StreamOK' /\ Only("stderr", "err")
  BY <1>2, Names, ReadSomeMoves, ReadEndsMoves DEF Collect
<1>4. /\ buf'["stdin"] = buf["stdin"] /\ buf'["childin"] = buf["childin"]
      /\ buf'["childout"] = buf["childout"] /\ buf'["stdout"] = buf["stdout"]
      /\ chan'["in"] = chan["in"] /\ chan'["out"] = chan["out"]
  BY <1>3, Names DEF Only
<1>5. TypeOK'
  BY <1>1, <1>3 DEF Inv, TypeOK, PSites
<1>6. OrderInv'
  BY <1>1, <1>2, <1>4 DEF Inv, OrderInv, FromOut, FromChildout, FromChildin, FromIn, FromStdin
<1>7. CASE ReadSome("stderr", "err") /\ UNCHANGED ppc
  <2>1. ModeInv' /\ EmptyInv'
    BY <1>1, <1>4, <1>7 DEF Inv, ModeInv, EmptyInv
  <2>2. RoomInv'
    BY <1>1, <1>4, <1>7 DEF Inv, RoomInv
  <2> QED BY <1>1, <1>4, <1>5, <1>6, <2>1, <2>2 DEF Inv, Quiet
<1>8. CASE ReadEnds("stderr", "err") /\ ppc' = "stdin"
  <2>1. chan' = chan /\ chan["err"] = <<>> /\ buf'["stderr"].offset < buf'["stderr"].cap
    BY <1>2, <1>8, Names, ReadEndsMoves
  <2>2. ModeInv' /\ EmptyInv'
    BY <1>1, <1>8, <2>1 DEF Inv, ModeInv, EmptyInv
  <2>3. RoomInv'
    BY <1>1, <1>4, <1>8, <2>1 DEF Inv, RoomInv
  <2> QED BY <1>1, <1>4, <1>5, <1>6, <2>2, <2>3 DEF Inv, Quiet
<1> QED BY <1>7, <1>8 DEF Collect

\* Where communicate() returns to: to the end, only when the child is dead.
LEMMA CallerIs ==
    ASSUME mode \in Modes, mode # "none"
    PROVE  /\ Caller \in {"user", "poll", "done"}
           /\ Caller = "done" <=> mode = "final"
BY DEF Caller, Modes

\* The argument of communicate() joins wbuffer, behind what is left there.
LEMMA FeedStep ==
    ASSUME Inv, Feed
    PROVE  Inv' /\ Quiet
<1>1. /\ ppc = "stdin" /\ mode' = mode /\ input' = input /\ bytes' = bytes /\ cpc' = cpc
      /\ left' = left /\ chan' = chan
  BY DEF Feed, childVars
<1>2. /\ StreamOK /\ mode \in Modes /\ mode # "none" /\ input \in Seq(Nat)
      /\ Pending = input
  BY <1>1 DEF Inv, TypeOK, ModeInv, Pending
<1>3. CASE /\ input # <<>>
           /\ buf' = [buf EXCEPT !["stdin"] = Produce(@, input)]
           /\ ppc' = "write"
  <2> DEFINE b == buf["stdin"]  c == Produce(b, input)
  <2>1. Good(c) /\ Content(c) = Content(b) \o input
    BY <1>2, Names, ProduceGood DEF StreamOK
  <2>2. buf' = [buf EXCEPT !["stdin"] = c] /\ c \in Buffers
    BY <1>3, <2>1 DEF Good
  <2> HIDE DEF c
  <2>3. /\ buf' \in [Ends -> Buffers] /\ buf'["stdin"] = c
        /\ \A e \in Ends : e # "stdin" => buf'[e] = buf[e]
    BY <1>2, <2>2, Names DEF StreamOK
  <2>4. StreamOK'
    BY <1>1, <1>2, <2>1, <2>3 DEF StreamOK
  <2>5. TypeOK'
    BY <1>1, <1>3, <2>4 DEF Inv, TypeOK, PSites
  <2>6. ModeInv' /\ EmptyInv'
    BY <1>1, <1>3 DEF Inv, ModeInv, EmptyInv
  <2>7. RoomInv'
    BY <1>1, <1>3, <2>3, Names DEF Inv, RoomInv
  <2>8. /\ buf'["stdout"] = buf["stdout"] /\ buf'["childin"] = buf["childin"]
        /\ buf'["childout"] = buf["childout"]
    BY <2>3, Names
  <2>9. Content(b) \o input \in Seq(Nat)
    BY <1>2, Flows, Names, ConcatProperties DEF Inv
  <2>10. Pending' = <<>>
    BY <1>3 DEF Pending
  <2>11. FromStdin' = FromStdin
    <3>1. FromStdin' = (Content(b) \o input) \o <<>>
      BY <2>1, <2>3, <2>10 DEF FromStdin
    <3>2. FromStdin = Content(b) \o input
      BY <1>2 DEF FromStdin
    <3> QED BY <2>9, <3>1, <3>2, ConcatEmptySeq
  <2>12. OrderInv'
    BY <1>1, <2>8, <2>11 DEF Inv, OrderInv, FromOut, FromChildout, FromChildin, FromIn
  <2> QED BY <1>1, <2>5, <2>6, <2>7, <2>8, <2>12 DEF Inv, Quiet
<1>4. CASE input = <<>> /\ ppc' = Caller /\ UNCHANGED buf
  <2>1. ppc' \in {"user", "poll", "done"} /\ (ppc' = "done" <=> mode = "final")
    BY <1>2, <1>4, CallerIs
  <2>2. StreamOK'
    BY <1>1, <1>2, <1>4 DEF StreamOK
  <2>3. TypeOK'
    BY <1>1, <2>1, <2>2 DEF Inv, TypeOK, PSites
  <2>4. ModeInv' /\ EmptyInv'
    BY <1>1, <2>1 DEF Inv, ModeInv, EmptyInv
  <2>5. RoomInv'
    BY <1>1, <1>4 DEF Inv, RoomInv
  <2>6. Pending' = Pending
    BY <1>2, <1>4, <2>1 DEF Pending
  <2>7. OrderInv'
    BY <1>1, <1>4, <2>6, NothingMoves DEF Inv
  <2> QED BY <1>1, <1>4, <2>3, <2>4, <2>5, <2>7 DEF Inv, Quiet
<1> QED BY <1>3, <1>4 DEF Feed

\* write_all of the parent's input: it never runs in the last communicate().
LEMMA WriteInputStep ==
    ASSUME Inv, WriteInput
    PROVE  Inv' /\ Quiet
<1>1. /\ ppc = "write" /\ mode' = mode /\ input' = input /\ bytes' = bytes /\ cpc' = cpc
      /\ ppc' \in {"write", Caller}
  BY DEF WriteInput, childVars
<1>2. StreamOK /\ mode \in Modes /\ mode # "none" /\ mode # "final"
  BY <1>1 DEF Inv, TypeOK, ModeInv
<1>3. ppc' \in {"user", "poll", "write"}
  BY <1>1, <1>2, CallerIs
<1>4. StreamOK' /\ Only("stdin", "in")
  BY <1>2, Names, WriteSomeMoves, WriteEndsMoves DEF WriteInput
<1>5. PICK m \in Seq(Nat) :
        /\ Content(buf["stdin"]) = m \o Content(buf'["stdin"])
        /\ chan'["in"] = chan["in"] \o m
  BY <1>2, Names, WriteSomeMoves, WriteEndsMoves DEF WriteInput
<1>6. TypeOK'
  BY <1>1, <1>3, <1>4 DEF Inv, TypeOK, PSites
<1>7. ModeInv' /\ EmptyInv'
  BY <1>1, <1>2, <1>3 DEF Inv, ModeInv, EmptyInv
<1>8. /\ buf'["stdout"] = buf["stdout"] /\ buf'["stderr"] = buf["stderr"]
      /\ buf'["childin"] = buf["childin"] /\ buf'["childout"] = buf["childout"]
      /\ chan'["out"] = chan["out"]
  BY <1>4, Names DEF Only
<1>9. RoomInv'
  BY <1>1, <1>8 DEF Inv, RoomInv
<1>10. OrderInv'
  <2> DEFINE x == chan["in"]  y == Content(buf'["stdin"])  z == Pending
  <2>1. x \in Seq(Nat) /\ y \in Seq(Nat) /\ z \in Seq(Nat) /\ m \in Seq(Nat)
    BY <1>4, Flows, Names, ContentIsSeq DEF Inv, StreamOK
  <2>2. Pending' = z
    BY <1>1, <1>3 DEF Pending
  <2>3. FromIn = x \o ((m \o y) \o z) /\ FromIn' = (x \o m) \o (y \o z)
    BY <1>5, <2>2 DEF FromIn, FromStdin
  <2>4. x \o ((m \o y) \o z) = (x \o m) \o (y \o z)
    <3> HIDE DEF x, y, z
    <3>2. Shifts(x, y, z, m)
      BY <2>1, Shift
    <3> QED BY <3>2 DEF Shifts
  <2>5. FromIn' = FromIn
    BY <2>3, <2>4
  <2> QED BY <1>1, <1>8, <2>5 DEF Inv, OrderInv, FromOut, FromChildout, FromChildin
<1> QED BY <1>1, <1>6, <1>7, <1>8, <1>9, <1>10 DEF Inv, Quiet

\* The steps of the child change nothing of the parent, and the child is alive.
LEMMA ChildFrame ==
    ASSUME Inv, ppc' = ppc, mode' = mode, input' = input, bytes' = bytes,
           cpc # "dead", cpc' \in CSites, StreamOK',
           buf'["stdout"] = buf["stdout"], buf'["stderr"] = buf["stderr"]
    PROVE  TypeOK' /\ ModeInv' /\ EmptyInv' /\ RoomInv' /\ Pending' = Pending /\ Quiet
<1>1. mode # "final"
  BY DEF Inv, ModeInv
<1>2. TypeOK'
  BY DEF Inv, TypeOK
<1>3. ModeInv' /\ EmptyInv'
  BY <1>1 DEF Inv, ModeInv, EmptyInv
<1>4. RoomInv'
  BY DEF Inv, RoomInv
<1> QED BY <1>2, <1>3, <1>4 DEF Pending, Quiet

\* read_all of the child.
LEMMA ChildReadStep ==
    ASSUME Inv, ChildRead
    PROVE  Inv' /\ Quiet
<1>1. /\ ppc' = ppc /\ mode' = mode /\ input' = input /\ bytes' = bytes
      /\ cpc # "dead" /\ cpc' \in CSites /\ StreamOK
  BY DEF ChildRead, parentVars, CSites, Inv, TypeOK
<1>2. StreamOK' /\ Only("childin", "in")
  BY <1>1, Names, ReadSomeMoves, ReadEndsMoves DEF ChildRead
<1>3. /\ buf'["stdout"] = buf["stdout"] /\ buf'["stderr"] = buf["stderr"]
      /\ buf'["stdin"] = buf["stdin"] /\ buf'["childout"] = buf["childout"]
      /\ chan'["out"] = chan["out"]
  BY <1>2, Names DEF Only
<1>4. TypeOK' /\ ModeInv' /\ EmptyInv' /\ RoomInv' /\ Pending' = Pending /\ Quiet
  BY <1>1, <1>2, <1>3, ChildFrame
<1>5. CASE ReadSome("childin", "in")
  <2>1. PICK m \in Seq(Nat) :
          /\ chan["in"] = m \o chan'["in"]
          /\ Content(buf'["childin"]) = Content(buf["childin"]) \o m
    BY <1>1, <1>5, Names, ReadSomeMoves
  <2> DEFINE x == Content(buf["childin"])  y == chan'["in"]  z == FromStdin
  <2>2. x \in Seq(Nat) /\ y \in Seq(Nat) /\ z \in Seq(Nat) /\ m \in Seq(Nat)
    BY <1>2, Flows, Names DEF Inv, StreamOK
  <2>3. FromStdin' = z
    BY <1>3, <1>4 DEF FromStdin
  <2>4. FromChildin = x \o ((m \o y) \o z) /\ FromChildin' = (x \o m) \o (y \o z)
    BY <2>1, <2>3 DEF FromChildin, FromIn
  <2>5. x \o ((m \o y) \o z) = (x \o m) \o (y \o z)
    <3> HIDE DEF x, y, z
    <3>2. Shifts(x, y, z, m)
      BY <2>2, Shift
    <3> QED BY <3>2 DEF Shifts
  <2>6. FromChildin' = FromChildin
    BY <2>4, <2>5
  <2>7. OrderInv'
    BY <1>1, <1>3, <2>6 DEF Inv, OrderInv, FromOut, FromChildout
  <2> QED BY <1>4, <2>7 DEF Inv
<1>6. CASE ReadEnds("childin", "in")
  <2>1. chan' = chan /\ Content(buf'["childin"]) = Content(buf["childin"])
    BY <1>1, <1>6, Names, ReadEndsMoves
  <2>2. \A e \in Ends : Content(buf'[e]) = Content(buf[e])
    BY <1>2, <2>1 DEF Only
  <2>3. OrderInv'
    BY <1>1, <1>4, <2>1, <2>2, NothingMoves DEF Inv
  <2> QED BY <1>4, <2>3 DEF Inv
<1> QED BY <1>5, <1>6 DEF ChildRead

\* write_all of the child.
LEMMA ChildWriteStep ==
    ASSUME Inv, ChildWrite
    PROVE  Inv' /\ Quiet
<1>1. /\ ppc' = ppc /\ mode' = mode /\ input' = input /\ bytes' = bytes
      /\ cpc # "dead" /\ cpc' \in CSites /\ StreamOK
  BY DEF ChildWrite, parentVars, CSites, Inv, TypeOK
<1>2. StreamOK' /\ Only("childout", "out")
  BY <1>1, Names, WriteSomeMoves, WriteEndsMoves DEF ChildWrite
<1>3. /\ buf'["stdout"] = buf["stdout"] /\ buf'["stderr"] = buf["stderr"]
      /\ buf'["stdin"] = buf["stdin"] /\ buf'["childin"] = buf["childin"]
      /\ chan'["in"] = chan["in"]
  BY <1>2, Names DEF Only
<1>4. TypeOK' /\ ModeInv' /\ EmptyInv' /\ RoomInv' /\ Pending' = Pending /\ Quiet
  BY <1>1, <1>2, <1>3, ChildFrame
<1>5. PICK m \in Seq(Nat) :
        /\ Content(buf["childout"]) = m \o Content(buf'["childout"])
        /\ chan'["out"] = chan["out"] \o m
  BY <1>1, Names, WriteSomeMoves, WriteEndsMoves DEF ChildWrite
<1> DEFINE x == chan["out"]  y == Content(buf'["childout"])  z == FromChildin
<1>6. x \in Seq(Nat) /\ y \in Seq(Nat) /\ z \in Seq(Nat) /\ m \in Seq(Nat)
  BY <1>2, Flows, Names, ContentIsSeq DEF Inv, StreamOK
<1>7. FromChildin' = z
  BY <1>3, <1>4 DEF FromChildin, FromIn, FromStdin
<1>8. FromOut = x \o ((m \o y) \o z) /\ FromOut' = (x \o m) \o (y \o z)
  BY <1>5, <1>7 DEF FromOut, FromChildout
<1>9. x \o ((m \o y) \o z) = (x \o m) \o (y \o z)
  <2> HIDE DEF x, y, z
  <2>2. Shifts(x, y, z, m)
    BY <1>6, Shift
  <2> QED BY <2>2 DEF Shifts
<1>10. FromOut' = FromOut
  BY <1>8, <1>9
<1>11. OrderInv'
  BY <1>1, <1>3, <1>10 DEF Inv, OrderInv
<1> QED BY <1>4, <1>11 DEF Inv

\* get_string and put_string in the child.
LEMMA ChildCopyStep ==
    ASSUME Inv, ChildCopy
    PROVE  Inv' /\ Quiet
<1> DEFINE b == buf["childin"]  c == buf["childout"]
<1>1. PICK n \in 1..Size(b) :
        buf' = [buf EXCEPT !["childin"] = Consume(@, n), !["childout"] = Produce(@, GetString(b, n))]
  BY DEF ChildCopy
<1>2. /\ ppc' = ppc /\ mode' = mode /\ input' = input /\ bytes' = bytes /\ cpc' = cpc
      /\ cpc # "dead" /\ cpc \in CSites /\ left' = left /\ chan' = chan
  BY DEF ChildCopy, parentVars, childVars, CSites
<1>3. StreamOK /\ Good(b) /\ Good(c)
  BY Names DEF Inv, TypeOK, StreamOK
<1>4. Size(b) \in Nat
  BY <1>3, GoodFields
<1>5. n \in Nat /\ n <= Size(b)
  BY <1>4
<1> DEFINE m == GetString(b, n)  d == Consume(b, n)  f == Produce(c, m)
<1>6. /\ Good(d) /\ m \in Seq(Nat) /\ Content(d) \in Seq(Nat)
      /\ Content(b) = m \o Content(d)
  BY <1>3, <1>5, ConsumeGood
<1> HIDE DEF m, d
<1>7. Good(f) /\ Content(f) = Content(c) \o m
  BY <1>3, <1>6, ProduceGood
<1>8. buf' = [buf EXCEPT !["childin"] = d, !["childout"] = f]
  BY <1>1 DEF d, m
<1> HIDE DEF f
<1>9. d \in Buffers /\ f \in Buffers
  BY <1>6, <1>7 DEF Good
<1>10. /\ buf' \in [Ends -> Buffers] /\ buf'["childin"] = d /\ buf'["childout"] = f
       /\ \A e \in Ends : e # "childin" /\ e # "childout" => buf'[e] = buf[e]
  BY <1>3, <1>8, <1>9, Names DEF StreamOK
<1>11. \A e \in Ends : Good(buf'[e])
  BY <1>3, <1>6, <1>7, <1>10 DEF StreamOK
<1>12. StreamOK'
  BY <1>2, <1>3, <1>10, <1>11 DEF StreamOK
<1>13. /\ buf'["stdout"] = buf["stdout"] /\ buf'["stderr"] = buf["stderr"]
       /\ buf'["stdin"] = buf["stdin"]
  BY <1>10, Names
<1>14. TypeOK' /\ ModeInv' /\ EmptyInv' /\ RoomInv' /\ Pending' = Pending /\ Quiet
  BY <1>2, <1>12, <1>13, ChildFrame
<1> DEFINE x == Content(c)  y == Content(d)  z == FromIn
<1>15. x \in Seq(Nat) /\ z \in Seq(Nat)
  BY Flows, Names DEF Inv
<1>16. FromIn' = z
  BY <1>2, <1>13, <1>14 DEF FromIn, FromStdin
<1>17. FromChildout = x \o ((m \o y) \o z) /\ FromChildout' = (x \o m) \o (y \o z)
  BY <1>6, <1>7, <1>10, <1>16 DEF FromChildout, FromChildin
<1>18. x \o ((m \o y) \o z) = (x \o m) \o (y \o z)
  <2> HIDE DEF x, z
  <2>1. y \in Seq(Nat) /\ m \in Seq(Nat)
    BY <1>6
  <2> HIDE DEF y
  <2>2. Shifts(x, y, z, m)
    BY <1>15, <2>1, Shift
  <2> QED BY <2>2 DEF Shifts
<1>19. OrderInv'
  BY <1>2, <1>13, <1>17, <1>18 DEF Inv, OrderInv, FromOut
<1> QED BY <1>14, <1>19 DEF Inv

\* tiny() in the child.
LEMMA ChildTinyStep ==
    ASSUME Inv, ChildTiny
    PROVE  Inv' /\ Quiet
<1>1. PICK e \in {"childin", "childout"} : buf' = [buf EXCEPT ![e] = Tiny(@)]
  BY DEF ChildTiny
<1>2. /\ ppc' = ppc /\ mode' = mode /\ input' = input /\ bytes' = bytes /\ cpc' = cpc
      /\ cpc # "dead" /\ cpc \in CSites /\ left' = left /\ chan' = chan
  BY DEF ChildTiny, parentVars, childVars, CSites
<1>3. StreamOK /\ e \in Ends
  BY Names DEF Inv, TypeOK
<1> DEFINE d == Tiny(buf[e])
<1>4. Good(d) /\ Content(d) = Content(buf[e])
  BY <1>3, TinyGood DEF StreamOK
<1>5. d \in Buffers
  BY <1>4 DEF Good
<1>6. buf' = [buf EXCEPT ![e] = d]
  BY <1>1
<1> HIDE DEF d
<1>7. /\ buf' \in [Ends -> Buffers] /\ buf'[e] = d /\ \A f \in Ends : f # e => buf'[f] = buf[f]
  BY <1>3, <1>5, <1>6 DEF StreamOK
<1>8. \A f \in Ends : Good(buf'[f]) /\ Content(buf'[f]) = Content(buf[f])
  BY <1>3, <1>4, <1>7 DEF StreamOK
<1>9. StreamOK'
  BY <1>2, <1>3, <1>7, <1>8 DEF StreamOK
<1>10. buf'["stdout"] = buf["stdout"] /\ buf'["stderr"] = buf["stderr"]
  BY <1>7, Names
<1>11. TypeOK' /\ ModeInv' /\ EmptyInv' /\ RoomInv' /\ Pending' = Pending /\ Quiet
  BY <1>2, <1>9, <1>10, ChildFrame
<1>12. OrderInv'
  BY <1>2, <1>8, <1>11, NothingMoves DEF Inv
<1> QED BY <1>11, <1>12 DEF Inv

\* A byte on the child's standard error.
LEMMA ChildErrorStep ==
    ASSUME Inv, ChildError
    PROVE  Inv' /\ Quiet
<1>1. /\ ppc' = ppc /\ mode' = mode /\ input' = input /\ bytes' = bytes /\ cpc' = cpc
      /\ cpc # "dead" /\ cpc \in CSites /\ left' = left /\ buf' = buf
      /\ chan' = [chan EXCEPT !["err"] = Append(@, 1)] /\ Room("err") > 0
  BY DEF ChildError, parentVars, CSites
<1>2. StreamOK /\ chan["err"] \in Seq(Nat) /\ Len(chan["err"]) <= PipeSize
  BY Names DEF Inv, TypeOK, StreamOK
<1> DEFINE q == Append(chan["err"], 1)
<1>3. q \in Seq(Nat) /\ Len(q) = Len(chan["err"]) + 1 /\ Len(chan["err"]) \in Nat
  BY <1>2, AppendProperties, LenProperties
<1>4. Len(q) <= PipeSize
  BY <1>1, <1>3, PipeAssumption DEF Room
<1>5. chan' = [chan EXCEPT !["err"] = q]
  BY <1>1
<1> HIDE DEF q
<1>6. /\ chan' \in [Chans -> Seq(Nat)] /\ chan'["err"] = q
      /\ \A k \in Chans : k # "err" => chan'[k] = chan[k]
  BY <1>2, <1>3, <1>5, Names DEF StreamOK
<1>7. \A k \in Chans : Len(chan'[k]) <= PipeSize
  BY <1>2, <1>4, <1>6 DEF StreamOK
<1>8. StreamOK'
  BY <1>1, <1>2, <1>6, <1>7 DEF StreamOK
<1>9. TypeOK' /\ ModeInv' /\ EmptyInv' /\ RoomInv' /\ Pending' = Pending /\ Quiet
  BY <1>1, <1>8, ChildFrame
<1>10. chan'["in"] = chan["in"] /\ chan'["out"] = chan["out"]
  BY <1>6, Names
<1>11. OrderInv'
  BY <1>1, <1>9, <1>10, NothingMoves DEF Inv
<1> QED BY <1>9, <1>11 DEF Inv

\* Everything starts empty.
LEMMA InitInv == Init => Inv
<1> SUFFICES ASSUME Init PROVE Inv
  OBVIOUS
<1>1. /\ buf = [e \in Ends |-> New(1)] /\ left = [e \in Ends |-> Step]
      /\ chan = [k \in Chans |-> <<>>]
      /\ ppc = "user" /\ mode = "none" /\ input = <<>> /\ cpc = "idle" /\ bytes = 0
  BY DEF Init, StreamInit
<1>2. /\ Good(New(1)) /\ Content(New(1)) = <<>> /\ New(1).offset = 0 /\ New(1).cap = 1
  BY NewGood
<1>3. New(1) \in Buffers /\ Step \in 1..Step /\ <<>> \in Seq(Nat) /\ Len(<<>>) = 0
  BY <1>2, StepAssumption, EmptySeq DEF Good
<1>4. StreamOK
  BY <1>1, <1>2, <1>3, PipeAssumption DEF StreamOK
<1>5. TypeOK
  BY <1>1, <1>3, <1>4, MaxBytesAssumption DEF TypeOK, PSites, CSites, Modes
<1>6. ModeInv /\ EmptyInv
  BY <1>1 DEF ModeInv, EmptyInv
<1>7. RoomInv
  BY <1>1, <1>2, Names DEF RoomInv
<1>8. OrderInv
  <2>1. \A e \in Ends : Content(buf[e]) = <<>>
    BY <1>1, <1>2
  <2>2. \A k \in Chans : chan[k] = <<>>
    BY <1>1
  <2>3. Pending = <<>>
    BY <1>1 DEF Pending
  <2>4. <<>> \o <<>> = <<>>
    BY <1>3, ConcatEmptySeq
  <2>5. FromStdin = <<>>
    BY <2>1, <2>3, <2>4, Names DEF FromStdin
  <2>6. FromIn = <<>>
    BY <2>2, <2>4, <2>5, Names DEF FromIn
  <2>7. FromChildin = <<>>
    BY <2>1, <2>4, <2>6, Names DEF FromChildin
  <2>8. FromChildout = <<>>
    BY <2>1, <2>4, <2>7, Names DEF FromChildout
  <2>9. FromOut = <<>>
    BY <2>2, <2>4, <2>8, Names DEF FromOut
  <2>10. Numbered(bytes) = <<>>
    <3>1. Numbered(0) \in Seq(Nat) /\ Len(Numbered(0)) = 0
      BY NumberedGrows
    <3> QED BY <1>1, <3>1, EmptySeq
  <2> QED BY <2>1, <2>4, <2>9, <2>10, Names DEF OrderInv
<1> QED BY <1>5, <1>6, <1>7, <1>8 DEF Inv

\* A step that changes nothing.
LEMMA StutterStep ==
    ASSUME Inv, UNCHANGED vars
    PROVE  Inv' /\ Quiet
<1>1. /\ buf' = buf /\ left' = left /\ chan' = chan /\ bytes' = bytes
      /\ ppc' = ppc /\ mode' = mode /\ input' = input /\ cpc' = cpc
  BY DEF vars, streamVars, parentVars, childVars
<1>2. StreamOK' /\ TypeOK'
  BY <1>1 DEF Inv, TypeOK, StreamOK
<1>3. ModeInv' /\ EmptyInv' /\ RoomInv'
  BY <1>1 DEF Inv, ModeInv, EmptyInv, RoomInv
<1>4. Pending' = Pending
  BY <1>1 DEF Pending
<1>5. OrderInv'
  BY <1>1, <1>4, NothingMoves DEF Inv
<1> QED BY <1>1, <1>2, <1>3, <1>5 DEF Inv, Quiet

\* Every step of the parent and of the child keeps the invariant.
LEMMA InvInductive == Inv /\ [Next]_vars => Inv'
<1> SUFFICES ASSUME Inv, [Next]_vars PROVE Inv'
  OBVIOUS
<1>1. CASE Communicate
  BY <1>1, CommunicateStep
<1>2. CASE Wait \/ Poll \/ ChildLeave \/ ChildExit \/ Killed
  BY <1>2, ControlStep
<1>3. CASE Feed \/ WriteInput
  BY <1>3, FeedStep, WriteInputStep
<1>4. CASE Collect("stdout", "out", "stderr")
  BY <1>4, CollectOutStep
<1>5. CASE Collect("stderr", "err", "stdin")
  BY <1>5, CollectErrStep
<1>6. CASE ChildRead \/ ChildCopy \/ ChildTiny
  BY <1>6, ChildReadStep, ChildCopyStep, ChildTinyStep
<1>7. CASE ChildWrite \/ ChildError
  BY <1>7, ChildWriteStep, ChildErrorStep
<1>8. CASE UNCHANGED vars
  BY <1>8, StutterStep
<1> QED BY <1>1, <1>2, <1>3, <1>4, <1>5, <1>6, <1>7, <1>8 DEF Next, Parent, Child

\* The parts of the invariant hold together, always.
THEOREM Invariance == Spec => []Inv
<1>1. Init => Inv
  BY InitInv
<1>2. Inv /\ [Next]_vars => Inv'
  BY InvInductive
<1> QED BY <1>1, <1>2, PTL DEF Spec

\* subp_open and its streams keep their types: buffers with their offsets in the
\* array, pipes that hold no more than their size.
THEOREM TypeCorrect == Spec => []TypeOK
<1>1. Inv => TypeOK
  BY DEF Inv
<1> QED BY <1>1, Invariance, PTL

\* read_all and write_all stay inside the arrays (nio.cc:57-169), for every chunk
\* and every pipe: what was model-checked for pipes of two bytes.
THEOREM OffsetsInBounds == Spec => []InBounds
<1>1. Inv => InBounds
  <2> SUFFICES ASSUME Inv, NEW e \in Ends
               PROVE  /\ buf[e].start \in 0..buf[e].offset /\ buf[e].offset \in 0..buf[e].cap
                      /\ left[e] \in 1..Step
    BY DEF InBounds
  <2>1. Good(buf[e]) /\ left[e] \in 1..Step
    BY DEF Inv, TypeOK, StreamOK
  <2>2. /\ buf[e].cap \in Nat /\ buf[e].start \in Nat /\ buf[e].offset \in Nat
        /\ buf[e].start <= buf[e].offset /\ buf[e].offset <= buf[e].cap
    BY <2>1, GoodFields
  <2> QED BY <2>1, <2>2
<1> QED BY <1>1, Invariance, PTL

\* stdout() and stderr() return C strings (subprocess.h:69-71).
THEOREM StringsAreTerminated == Spec => []StringsEnd
<1>1. Inv => StringsEnd
  <2> SUFFICES ASSUME Inv PROVE StringsEnd
    OBVIOUS
  <2>1. \A e \in Ends : \A i \in buf[e].offset..buf[e].cap - 1 : buf[e].mem[i] = Nul
    BY DEF Inv, TypeOK, StreamOK, Good
  <2>2. ppc \in {"user", "poll", "done"} =>
          \A e \in {"stdout", "stderr"} : buf[e].offset < buf[e].cap
    BY DEF Inv, RoomInv
  <2> QED BY <2>1, <2>2 DEF StringsEnd
<1> QED BY <1>1, Invariance, PTL

\* wait() leaves nothing the child wrote in a pipe (subprocess.h:37-51).
THEOREM WaitCollectsAll == Spec => []AllCollected
<1>1. Inv => AllCollected
  BY DEF Inv, ModeInv, EmptyInv, AllCollected
<1> QED BY <1>1, Invariance, PTL

\* What was delivered and what is still to come are sequences of bytes.
FlowOK == Content(buf["stdout"]) \in Seq(Nat) /\ FromOut \in Seq(Nat)

\* What the parent reads back is what it sent, in order: through both pipes and
\* all the buffers the implementation is a queue of bytes.
THEOREM CopyIsFifo == Spec => IsFifo
<1> DEFINE sent == Numbered(bytes)  got == Content(buf["stdout"])
<1>1. Init => Copy!FifoInit
  <2> SUFFICES ASSUME Init PROVE Numbered(0) = <<>> /\ Content(New(1)) = <<>>
    BY Names DEF Copy!FifoInit, Numbered, Init, StreamInit
  <2>1. Numbered(0) \in Seq(Nat) /\ Len(Numbered(0)) = 0
    BY NumberedGrows
  <2> QED BY <2>1, EmptySeq, NewGood
<1>2. ASSUME Inv, Quiet PROVE UNCHANGED <<sent, got>>
  BY <1>2 DEF Quiet
<1>3. ASSUME Inv, Communicate PROVE Copy!Send
  <2>1. /\ Inv' /\ got' = got
    BY <1>3, CommunicateStep
  <2>2. PICK n \in Nat : n > 0 /\ bytes' = bytes + n
    BY <1>3, CommunicateStep
  <2>3. bytes \in Nat /\ bytes + n \in 0..MaxBytes /\ MaxBytes \in Nat
    BY <1>3, <2>1, <2>2, MaxBytesAssumption DEF Inv, TypeOK
  <2> DEFINE u == Numbered(bytes)  w == Numbered(bytes + n)
  <2>4. u \in Seq(Nat) /\ Len(u) = bytes /\ Len(w) = bytes + n
    <3>1. bytes + n \in Nat
      BY <2>3
    <3> QED BY <2>3, <3>1, NumberedGrows
  <2>5. w \in [1..bytes + n -> 1..MaxBytes]
    BY <2>3 DEF Numbered
  <2>6. w \in Seq(1..MaxBytes)
    BY <2>3, <2>5, SeqDef
  <2>7. SubSeq(w, 1, Len(u)) = u
    <3>1. \A i \in 1..bytes : w[i] = i /\ u[i] = i
      BY <2>3 DEF Numbered
    <3>2. w \in Seq(Nat)
      BY <2>3, NumberedGrows
    <3> HIDE DEF u, w
    <3>3. bytes <= Len(w)
      BY <2>3, <2>4
    <3>4. \A i \in 1..bytes : w[i] \in Nat
      BY <3>1
    <3>5. /\ SubSeq(w, 1, bytes) \in Seq(Nat) /\ Len(SubSeq(w, 1, bytes)) = bytes
          /\ \A i \in 1..bytes : SubSeq(w, 1, bytes)[i] = w[i]
      <4>1. /\ SubSeq(w, 1, bytes) \in Seq(Nat)
            /\ Len(SubSeq(w, 1, bytes)) = IF 1 <= bytes THEN bytes - 1 + 1 ELSE 0
            /\ \A i \in 1..bytes - 1 + 1 : SubSeq(w, 1, bytes)[i] = w[1 + i - 1]
        BY <2>3, <3>2, <3>4, SubSeqProperties
      <4> QED BY <2>3, <4>1
    <3> QED BY <2>4, <3>1, <3>5, SeqEqual
  <2>8. /\ sent' = w /\ sent = u
    BY <2>2
  <2>9. w \in Seq(1..MaxBytes) /\ Len(w) > Len(u) /\ SubSeq(w, 1, Len(u)) = u
    BY <2>2, <2>3, <2>4, <2>6, <2>7
  <2> HIDE DEF u, w
  <2>10. /\ sent' \in Seq(1..MaxBytes) /\ Len(sent') > Len(sent)
         /\ SubSeq(sent', 1, Len(sent)) = sent
    BY <2>8, <2>9
  <2> QED BY <2>1, <2>10 DEF Copy!Send, Numbered
<1>4. TypeOK => FlowOK
  BY Flows, Names DEF FlowOK
<1>5. TypeOK' => FlowOK'
  BY <1>4, PTL
<1>6. ASSUME Inv, Collect("stdout", "out", "stderr"), ~Quiet PROVE Copy!Deliver
  <2>1. Inv' /\ bytes' = bytes
    BY <1>6, CollectOutStep
  <2>2. PICK m \in Seq(Nat) : m # <<>> /\ got' = got \o m
    BY <1>6, CollectOutStep
  <2> DEFINE w == FromOut'  v == got'  u == got  s == sent
  <2>3. s = v \o w /\ v \in Seq(Nat) /\ w \in Seq(Nat) /\ u \in Seq(Nat)
    <3>1. s = v \o w
      BY <2>1 DEF Inv, OrderInv
    <3>2. u \in Seq(Nat)
      BY <1>6, Flows, Names DEF Inv
    <3>3. TypeOK'
      BY <2>1 DEF Inv
    <3> QED BY <1>5, <3>1, <3>2, <3>3 DEF FlowOK
  <2> HIDE DEF u, v, w, s
  <2>4. v = u \o m
    BY <2>2 DEF u, v
  <2>5. Len(v) = Len(u) + Len(m) /\ Len(m) > 0 /\ Len(u) \in Nat /\ Len(m) \in Nat
    BY <2>2, <2>3, <2>4, ConcatProperties, LenProperties, EmptySeq
  <2>6. Len(s) = Len(v) + Len(w) /\ s \in Seq(Nat) /\ Len(w) \in Nat
    BY <2>3, ConcatProperties, LenProperties
  <2>7. Len(v) \in Len(u) + 1..Len(s)
    BY <2>5, <2>6
  <2>8. v = SubSeq(s, 1, Len(v))
    BY <2>3, SubSeqProperties
  <2>9. \E n \in Len(u) + 1..Len(s) : v = SubSeq(s, 1, n)
    BY <2>7, <2>8
  <2> QED BY <2>1, <2>9 DEF Copy!Deliver, u, v, s, Numbered
<1>7. Inv /\ [Next]_vars => [Copy!Send \/ Copy!Deliver]_<<sent, got>>
  <2> SUFFICES ASSUME Inv, [Next]_vars
               PROVE  Copy!Send \/ Copy!Deliver \/ UNCHANGED <<sent, got>>
    OBVIOUS
  <2>1. Communicate \/ Collect("stdout", "out", "stderr") \/ Quiet
    BY ControlStep, FeedStep, WriteInputStep, CollectErrStep, ChildReadStep, ChildCopyStep,
       ChildTinyStep, ChildWriteStep, ChildErrorStep, StutterStep DEF Next, Parent, Child
  <2> QED BY <1>2, <1>3, <1>6, <2>1
<1> QED BY <1>1, <1>7, Invariance, PTL DEF Spec, IsFifo, Copy!FifoSpec, Numbered

=============================================================================
