---------------------------- MODULE SchedulerProofs ----------------------------
(***************************************************************************)
(* timed_scheduler calls its handlers on time: for any tasks, intervals    *)
(* and priorities, any resolution of the clock, and however late the       *)
(* thread is.                                                              *)
(***************************************************************************)
EXTENDS Scheduler, SequenceTheorems, FiniteSetTheorems, WellFoundedInduction, TLAPS

(* Numbers. *)

\* A set of numbers has a smallest one.
LEMMA Smallest ==
    ASSUME NEW T \in SUBSET Nat, T # {}
    PROVE  \E x \in T : \A y \in T : x <= y
<1> DEFINE R == OpToRel(<, Nat)
<1>1. IsWellFoundedOn(R, Nat)
  BY NatLessThanWellFounded
<1>2. \A x, y \in Nat : y < x => <<y, x>> \in R
  BY DEF OpToRel
<1> HIDE DEF R
<1>3. PICK x \in T : \A y \in T : ~(<<y, x>> \in R)
  BY <1>1, WFMin
<1>4. \A y \in T : ~(y < x)
  BY <1>2, <1>3
<1> QED BY <1>3, <1>4

\* So what holds of 0, and of a number when it holds of the one before, holds of
\* all of them.
LEMMA SetInduction ==
    ASSUME NEW P \in SUBSET Nat, 0 \in P, \A n \in Nat : n \in P => n + 1 \in P
    PROVE  P = Nat
<1> SUFFICES ASSUME Nat \ P # {} PROVE FALSE
  OBVIOUS
<1>1. PICK x \in Nat \ P : \A y \in Nat \ P : x <= y
  BY Smallest
<1>2. x # 0 /\ x - 1 \in Nat /\ ~(x <= x - 1)
  BY <1>1
<1>3. x - 1 \in P
  BY <1>1, <1>2
<1>4. (x - 1) + 1 \in P
  BY <1>2, <1>3
<1> QED BY <1>1, <1>2, <1>4

Divides(d, n) == \E q \in Nat : n = d * q

\* Quotient and remainder.
LEMMA DivMod ==
    ASSUME NEW d \in Nat \ {0}, NEW n \in Nat
    PROVE  /\ n \div d \in Nat /\ n % d \in Nat /\ n % d < d
           /\ n = d * (n \div d) + (n % d)
OBVIOUS

\* A product with a remainder that is less than the factor has none.
LEMMA NoRemainder ==
    ASSUME NEW d \in Nat \ {0}, NEW k \in Nat, NEW m \in Nat, m < d, NEW q \in Nat,
           d * q = d * k + m
    PROVE  m = 0 /\ q = k
<1>1. m = d * (q - k) /\ q - k \in Int
  OBVIOUS
<1>2. q - k <= 0
  BY <1>1
<1>3. q - k >= 0
  BY <1>1
<1>4. q - k = 0
  BY <1>1, <1>2, <1>3
<1> QED BY <1>1, <1>4

\* The remainder tells whether a number divides another.
LEMMA DividesMod ==
    ASSUME NEW d \in Nat \ {0}, NEW n \in Nat
    PROVE  n % d = 0 <=> Divides(d, n)
<1> DEFINE m == n % d  k == n \div d
<1>1. m \in Nat /\ m < d /\ n = d * k + m /\ k \in Nat
  BY DivMod
<1> HIDE DEF m, k
<1>2. ASSUME m = 0 PROVE Divides(d, n)
  <2>1. n = d * k
    BY <1>1, <1>2
  <2> QED BY <1>1, <2>1 DEF Divides
<1>3. ASSUME Divides(d, n) PROVE m = 0
  <2>1. PICK q \in Nat : n = d * q
    BY <1>3 DEF Divides
  <2> QED BY <1>1, <2>1, NoRemainder
<1> QED BY <1>2, <1>3 DEF m

\* An exact quotient.
LEMMA DivExact ==
    ASSUME NEW d \in Nat \ {0}, NEW q \in Nat
    PROVE  (d * q) \div d = q
<1> DEFINE n == d * q  m == n % d  k == n \div d
<1>1. n \in Nat
  OBVIOUS
<1>2. m \in Nat /\ m < d /\ n = d * k + m /\ k \in Nat
  <2> HIDE DEF n
  <2> QED BY <1>1, DivMod
<1>3. d * q = d * k + m
  BY <1>2
<1> HIDE DEF m, k
<1>4. q = k
  BY <1>2, <1>3, NoRemainder
<1> QED BY <1>4 DEF k

\* Multiples add up, ...
LEMMA DividesSum ==
    ASSUME NEW d \in Nat, NEW a \in Nat, NEW b \in Nat, Divides(d, a), Divides(d, b)
    PROVE  Divides(d, a + b)
<1>1. PICK q \in Nat : a = d * q
  BY DEF Divides
<1>2. PICK k \in Nat : b = d * k
  BY DEF Divides
<1>3. a + b = d * (q + k) /\ q + k \in Nat
  BY <1>1, <1>2
<1> QED BY <1>3 DEF Divides

\* ... what is left of a multiple without a multiple is one, ...
LEMMA DividesRest ==
    ASSUME NEW d \in Nat, NEW a \in Nat, NEW b \in Nat, Divides(d, a), Divides(d, a + b)
    PROVE  Divides(d, b)
<1>1. PICK q \in Nat : a = d * q
  BY DEF Divides
<1>2. PICK k \in Nat : a + b = d * k
  BY DEF Divides
<1>3. CASE d = 0
  <2>1. b = d * 0
    BY <1>1, <1>2, <1>3
  <2> QED BY <2>1 DEF Divides
<1>4. CASE d # 0
  <2>1. b = d * (k - q) /\ k - q \in Int
    BY <1>1, <1>2
  <2>2. k - q >= 0
    BY <1>4, <2>1
  <2>3. k - q \in Nat
    BY <2>1, <2>2
  <2> QED BY <2>1, <2>3 DEF Divides
<1> QED BY <1>3, <1>4

\* ... and so is a multiple of a multiple.
LEMMA DividesProduct ==
    ASSUME NEW d \in Nat, NEW a \in Nat, NEW b \in Nat, Divides(d, a)
    PROVE  Divides(d, a * b)
<1>1. PICK q \in Nat : a = d * q
  BY DEF Divides
<1>2. a * b = d * (q * b) /\ q * b \in Nat
  BY <1>1
<1> QED BY <1>2 DEF Divides

\* A divisor of a divisor.
LEMMA DividesChain ==
    ASSUME NEW d \in Nat, NEW a \in Nat, NEW b \in Nat, Divides(d, a), Divides(a, b)
    PROVE  Divides(d, b)
<1>1. PICK q \in Nat : b = a * q
  BY DEF Divides
<1> QED BY <1>1, DividesProduct

\* A divisor of a number other than 0 is not 0 and not larger than the number.
LEMMA DividesAtMost ==
    ASSUME NEW d \in Nat, NEW n \in Nat \ {0}, Divides(d, n)
    PROVE  d # 0 /\ d <= n
<1>1. PICK q \in Nat : n = d * q
  BY DEF Divides
<1>2. d # 0 /\ q # 0
  BY <1>1
<1>3. q - 1 \in Nat /\ n = d + d * (q - 1)
  BY <1>1, <1>2
<1>4. d * (q - 1) \in Nat
  BY <1>3
<1> QED BY <1>2, <1>3, <1>4

\* Two numbers that divide each other are the same.
LEMMA DividesBoth ==
    ASSUME NEW d \in Nat, NEW n \in Nat, Divides(d, n), Divides(n, d)
    PROVE  d = n
<1>1. CASE d = 0
  <2>1. n = 0
    BY <1>1 DEF Divides
  <2> QED BY <1>1, <2>1
<1>2. CASE n = 0
  <2>1. d = 0
    BY <1>2 DEF Divides
  <2> QED BY <1>2, <2>1
<1>3. CASE d # 0 /\ n # 0
  <2>1. d <= n /\ n <= d
    BY <1>3, DividesAtMost
  <2> QED BY <2>1
<1> QED BY <1>1, <1>2, <1>3

-----------------------------------------------------------------------------
(* greatest_common_divisor and least_common_multiple. *)

Common(p, r) == {d \in Nat : Divides(d, p) /\ Divides(d, r)}
Greatest(S) == CHOOSE d : d \in S /\ \A e \in S : Divides(e, d)

\* One turn of Euclid's loop keeps the common divisors.
LEMMA SameCommon ==
    ASSUME NEW p \in Nat, NEW r \in Nat \ {0}
    PROVE  Common(p, r) = Common(r, p % r)
<1> DEFINE m == p % r  k == p \div r
<1>1. m \in Nat /\ k \in Nat /\ p = r * k + m /\ r * k \in Nat
  BY DivMod
<1> HIDE DEF m, k
<1>2. ASSUME NEW d \in Nat, Divides(d, r) PROVE Divides(d, p) <=> Divides(d, m)
  <2>1. Divides(d, r * k)
    BY <1>1, <1>2, DividesProduct
  <2>2. ASSUME Divides(d, p) PROVE Divides(d, m)
    BY <1>1, <2>1, <2>2, DividesRest
  <2>3. ASSUME Divides(d, m) PROVE Divides(d, p)
    BY <1>1, <2>1, <2>3, DividesSum
  <2> QED BY <2>2, <2>3
<1>3. Common(p, r) = Common(r, m)
  BY <1>2 DEF Common
<1> QED BY <1>3 DEF m

\* When the remainder is 0 the other number is the greatest of them.
LEMMA GreatestLast ==
    ASSUME NEW p \in Nat
    PROVE  Greatest(Common(p, 0)) = p
<1>1. Divides(p, p) /\ \A d \in Nat : Divides(d, 0)
  <2>1. p = p * 1 /\ \A d \in Nat : 0 = d * 0
    OBVIOUS
  <2> QED BY <2>1 DEF Divides
<1>2. p \in Common(p, 0) /\ \A e \in Common(p, 0) : Divides(e, p)
  BY <1>1 DEF Common
<1> DEFINE g == Greatest(Common(p, 0))
<1>3. g \in Common(p, 0) /\ \A e \in Common(p, 0) : Divides(e, g)
  BY <1>2 DEF Greatest
<1> HIDE DEF g
<1>4. g \in Nat /\ Divides(g, p) /\ Divides(p, g)
  BY <1>2, <1>3 DEF Common
<1>5. g = p
  BY <1>4, DividesBoth
<1> QED BY <1>5 DEF g

\* What the recursive definition of gcd means: there is such a function, the one
\* that gives the greatest of the common divisors.
LEMMA GcdDef ==
    \A p, r \in Nat : gcd[<<p, r>>] = IF r = 0 THEN p ELSE gcd[<<r, p % r>>]
<1> DEFINE Euclid(f) == f = [a \in Nat \X Nat |-> IF a[2] = 0 THEN a[1] ELSE f[<<a[2], a[1] % a[2]>>]]
           F == [a \in Nat \X Nat |-> Greatest(Common(a[1], a[2]))]
<1>1. ASSUME NEW p \in Nat, NEW r \in Nat
      PROVE  F[<<p, r>>] = IF r = 0 THEN p ELSE F[<<r, p % r>>]
  <2>1. F[<<p, r>>] = Greatest(Common(p, r))
    OBVIOUS
  <2>2. CASE r = 0
    BY <2>1, <2>2, GreatestLast
  <2>3. CASE r # 0
    <3>1. p % r \in Nat
      BY <2>3, DivMod
    <3>2. F[<<r, p % r>>] = Greatest(Common(r, p % r))
      BY <3>1
    <3>3. Common(p, r) = Common(r, p % r)
      BY <2>3, SameCommon
    <3> HIDE DEF F
    <3> QED BY <2>1, <2>3, <3>2, <3>3
  <2> QED BY <2>2, <2>3
<1>2. Euclid(F)
  <2>1. F = [a \in Nat \X Nat |-> F[a]]
    OBVIOUS
  <2> HIDE DEF F
  <2>2. \A a \in Nat \X Nat : F[a] = IF a[2] = 0 THEN a[1] ELSE F[<<a[2], a[1] % a[2]>>]
    BY <1>1
  <2> QED BY <2>1, <2>2
<1> HIDE DEF F
<1>3. Euclid(gcd)
  BY <1>2 DEF gcd
<1> QED BY <1>3

IsGreatest(p, r) ==
    \E g \in Nat : gcd[<<p, r>>] = g /\ g \in Common(p, r) /\ \A e \in Common(p, r) : Divides(e, g)

\* greatest_common_divisor (utils.cc:67-82) ends with a common divisor of the two
\* numbers that every other one divides: otherwise there would be a smallest
\* second number for which it does not, and the next turn of the loop has a
\* smaller one.
THEOREM GcdIsGreatest == \A p, r \in Nat : IsGreatest(p, r)
<1> DEFINE Bad == {r \in Nat : \E p \in Nat : ~IsGreatest(p, r)}
<1> SUFFICES ASSUME Bad # {} PROVE FALSE
  OBVIOUS
<1>1. PICK r \in Bad : \A y \in Bad : r <= y
  <2>1. Bad \in SUBSET Nat
    OBVIOUS
  <2> HIDE DEF Bad
  <2> QED BY <2>1, Smallest
<1>2. PICK p \in Nat : ~IsGreatest(p, r)
  BY <1>1
<1>3. CASE r = 0
  <2>1. gcd[<<p, r>>] = p
    BY <1>3, GcdDef
  <2>2. p = p * 1 /\ 0 = p * 0
    OBVIOUS
  <2>3. Divides(p, p) /\ Divides(p, r)
    BY <1>3, <2>2 DEF Divides
  <2> QED BY <1>2, <2>1, <2>3 DEF IsGreatest, Common
<1>4. CASE r # 0
  <2> DEFINE m == p % r
  <2>1. r \in Nat \ {0} /\ m \in Nat /\ m < r
    BY <1>4, DivMod
  <2>2. gcd[<<p, r>>] = gcd[<<r, m>>] /\ Common(p, r) = Common(r, m)
    BY <2>1, GcdDef, SameCommon
  <2> HIDE DEF m
  <2>3. m \notin Bad
    BY <1>1, <2>1
  <2>4. IsGreatest(r, m)
    BY <2>1, <2>3
  <2>5. PICK g \in Nat : /\ gcd[<<r, m>>] = g /\ g \in Common(r, m)
                        /\ \A e \in Common(r, m) : Divides(e, g)
    BY <2>4 DEF IsGreatest
  <2> QED BY <1>2, <2>2, <2>5 DEF IsGreatest
<1> QED BY <1>3, <1>4

\* greatest_common_divisor of two numbers.
LEMMA GcdIs ==
    ASSUME NEW p \in Nat, NEW r \in Nat
    PROVE  Gcd(p, r) \in Nat /\ Divides(Gcd(p, r), p) /\ Divides(Gcd(p, r), r)
<1>1. IsGreatest(p, r)
  BY GcdIsGreatest
<1> QED BY <1>1 DEF IsGreatest, Common, Gcd

\* least_common_multiple of two numbers is a multiple of both, and not 0.
LEMMA LcmIs ==
    ASSUME NEW p \in Nat \ {0}, NEW r \in Nat \ {0}
    PROVE  Lcm(p, r) \in Nat \ {0} /\ Divides(p, Lcm(p, r)) /\ Divides(r, Lcm(p, r))
<1>1. PICK g \in Nat : gcd[<<p, r>>] = g /\ Divides(g, p) /\ Divides(g, r)
  BY GcdIsGreatest DEF IsGreatest, Common
<1>2. g # 0
  BY <1>1, DividesAtMost
<1>3. PICK u \in Nat : p = g * u
  BY <1>1 DEF Divides
<1>4. PICK v \in Nat : r = g * v
  BY <1>1 DEF Divides
<1>5. p \div g = u
  BY <1>2, <1>3, DivExact
<1>6. Lcm(p, r) = u * r
  BY <1>1, <1>5 DEF Lcm
<1>7. u # 0
  BY <1>3
<1>8. u * r \in Nat \ {0} /\ u * r = r * u /\ u * r = p * v
  <2>1. u * r \in Nat \ {0} /\ u * r = r * u
    BY <1>7
  <2>2. u * r = u * (g * v) /\ p * v = (g * u) * v
    BY <1>3, <1>4
  <2>3. u * (g * v) = (g * u) * v
    OBVIOUS
  <2> QED BY <2>1, <2>2, <2>3
<1> QED BY <1>6, <1>8 DEF Divides

Multiples(p, r) == {m \in Nat \ {0} : Divides(p, m) /\ Divides(r, m)}

\* The smallest common multiple divides the others: what is left of one of them is
\* a smaller common multiple, or nothing.
LEMMA SmallestDivides ==
    ASSUME NEW p \in Nat, NEW r \in Nat, NEW x \in Multiples(p, r),
           \A y \in Multiples(p, r) : x <= y, NEW m \in Multiples(p, r)
    PROVE  Divides(x, m)
<1> DEFINE a == x * (m \div x)  s == m % x
<1>1. x \in Nat \ {0} /\ m \in Nat
  BY DEF Multiples
<1>2. a \in Nat /\ s \in Nat /\ s < x /\ m = a + s
  BY <1>1, DivMod
<1>3. m \div x \in Nat
  BY <1>1, DivMod
<1>4. Divides(p, a) /\ Divides(r, a)
  BY <1>1, <1>3, DividesProduct DEF Multiples
<1> HIDE DEF a, s
<1>5. Divides(p, s) /\ Divides(r, s)
  BY <1>2, <1>4, DividesRest DEF Multiples
<1>6. s = 0
  BY <1>1, <1>2, <1>5 DEF Multiples
<1> QED BY <1>1, <1>6, DividesMod DEF s

\* A factor that two products have in common can be left out.
LEMMA Cancel ==
    ASSUME NEW d \in Nat \ {0}, NEW a \in Nat, NEW b \in Nat, d * a = d * b
    PROVE  a = b
BY NoRemainder

\* least_common_multiple (utils.cc:50-54) is the least common multiple, and every
\* common multiple is one of it: the product of the numbers, divided by the
\* smallest common multiple, is a common divisor, so that the quotient by the
\* greatest one is not larger.
THEOREM LcmIsLeast ==
    ASSUME NEW p \in Nat \ {0}, NEW r \in Nat \ {0}
    PROVE  /\ Lcm(p, r) \in Multiples(p, r)
           /\ \A m \in Multiples(p, r) : Lcm(p, r) <= m /\ Divides(Lcm(p, r), m)
<1> DEFINE l == Lcm(p, r)
<1>1. l \in Multiples(p, r)
  BY LcmIs DEF Multiples
<1>2. PICK g \in Nat : /\ gcd[<<p, r>>] = g /\ g \in Common(p, r)
                      /\ \A e \in Common(p, r) : Divides(e, g)
  BY GcdIsGreatest DEF IsGreatest
<1>3. g # 0 /\ Divides(g, p)
  BY <1>2, DividesAtMost DEF Common
<1>4. g * l = p * r
  <2>1. PICK u \in Nat : p = g * u
    BY <1>3 DEF Divides
  <2>2. p \div g = u
    BY <1>3, <2>1, DivExact
  <2>3. l = u * r
    BY <1>2, <2>2 DEF Lcm
  <2>4. g * (u * r) = (g * u) * r
    OBVIOUS
  <2> QED BY <2>1, <2>3, <2>4
<1>5. l \in Nat \ {0}
  BY <1>1 DEF Multiples
<1> HIDE DEF l
<1>6. PICK x \in Multiples(p, r) : \A y \in Multiples(p, r) : x <= y
  <2>1. Multiples(p, r) \in SUBSET Nat
    BY DEF Multiples
  <2> QED BY <1>1, <2>1, Smallest
<1>7. x \in Nat \ {0} /\ Divides(p, x) /\ Divides(r, x)
  BY <1>6 DEF Multiples
<1>8. p * r \in Multiples(p, r)
  <2>1. p * r = r * p /\ p * r \in Nat \ {0}
    OBVIOUS
  <2> QED BY <2>1 DEF Multiples, Divides
<1>9. PICK d \in Nat : p * r = x * d
  BY <1>6, <1>8, SmallestDivides DEF Divides
<1>10. Divides(d, p)
  <2>1. PICK k \in Nat : x = r * k
    BY <1>7 DEF Divides
  <2>2. r * p = p * r /\ (r * k) * d = r * (d * k) /\ d * k \in Nat
    OBVIOUS
  <2>3. r * p = r * (d * k)
    BY <1>9, <2>1, <2>2
  <2>4. p = d * k
    BY <2>2, <2>3, Cancel
  <2> QED BY <2>4 DEF Divides
<1>11. Divides(d, r)
  <2>1. PICK k \in Nat : x = p * k
    BY <1>7 DEF Divides
  <2>2. (p * k) * d = p * (d * k) /\ d * k \in Nat
    OBVIOUS
  <2>3. p * r = p * (d * k)
    BY <1>9, <2>1, <2>2
  <2>4. r = d * k
    BY <2>2, <2>3, Cancel
  <2> QED BY <2>4 DEF Divides
<1>12. PICK j \in Nat : g = d * j
  BY <1>2, <1>10, <1>11 DEF Common, Divides
<1>13. x = j * l
  <2>1. d # 0
    BY <1>3, <1>12
  <2>2. d * x = p * r
    BY <1>7, <1>9
  <2>3. (d * j) * l = d * (j * l) /\ j * l \in Nat
    BY <1>5
  <2>4. d * x = d * (j * l)
    BY <1>4, <1>12, <2>2, <2>3
  <2> QED BY <1>7, <2>1, <2>3, <2>4, Cancel
<1>14. x = l
  <2>1. Divides(l, x)
    BY <1>5, <1>13 DEF Divides
  <2>2. Divides(x, l)
    BY <1>1, <1>6, SmallestDivides
  <2> QED BY <1>5, <1>7, <2>1, <2>2, DividesBoth
<1>15. \A m \in Multiples(p, r) : l <= m /\ Divides(l, m)
  BY <1>6, <1>14, SmallestDivides
<1> QED BY <1>1, <1>15 DEF l

-----------------------------------------------------------------------------
(* The loops of utils.cc over a vector of numbers: folds. *)

Pick(T) == CHOOSE x \in T : TRUE
Upto(S, n) == {T \in SUBSET S : Cardinality(T) <= n}
Recurs(g, o, b, f, T) == g[T] = IF T = {} THEN b ELSE o[<<f[Pick(T)], g[T \ {Pick(T)}]>>]

\* The fold of operation o, a function, over the parts of S with at most n elements.
Partial(g, V, o, b, f, S, n) ==
    /\ g \in [Upto(S, n) -> V]
    /\ \A T \in Upto(S, n) : Recurs(g, o, b, f, T)

Foldable(V, o, b, f, S) ==
    /\ IsFiniteSet(S) /\ b \in V /\ o \in [V \X V -> V]
    /\ \A k \in S : f[k] \in V

\* A part of a finite set, without one of its elements.
LEMMA Smaller ==
    ASSUME NEW S, IsFiniteSet(S), NEW T \in SUBSET S, T # {}
    PROVE  /\ Pick(T) \in T /\ T \ {Pick(T)} \in SUBSET S
           /\ Cardinality(T) \in Nat /\ Cardinality(T \ {Pick(T)}) \in Nat
           /\ Cardinality(T \ {Pick(T)}) = Cardinality(T) - 1
<1>1. IsFiniteSet(T)
  BY FS_Subset
<1>2. Pick(T) \in T
  BY DEF Pick
<1>3. IsFiniteSet(T \ {Pick(T)}) /\ Cardinality(T \ {Pick(T)}) = Cardinality(T) - 1
  BY <1>1, <1>2, FS_RemoveElement
<1> QED BY <1>1, <1>2, <1>3, FS_CardinalityType

\* What holds of the empty set, and of a set when it holds of the set without the
\* element that is picked, holds of every finite set.
LEMMA PickInduction ==
    ASSUME NEW S, IsFiniteSet(S), NEW Q \in SUBSET SUBSET S, {} \in Q,
           \A T \in SUBSET S : T # {} /\ T \ {Pick(T)} \in Q => T \in Q
    PROVE  S \in Q
<1> DEFINE P == {n \in Nat : Upto(S, n) \subseteq Q}
<1>1. \A T \in SUBSET S : IsFiniteSet(T) /\ Cardinality(T) \in Nat
  BY FS_Subset, FS_CardinalityType
<1>2. 0 \in P
  <2>1. \A T \in Upto(S, 0) : T = {}
    BY <1>1, FS_EmptySet DEF Upto
  <2> QED BY <2>1
<1>3. ASSUME NEW n \in Nat, n \in P PROVE n + 1 \in P
  <2> SUFFICES ASSUME NEW T \in Upto(S, n + 1), T # {} PROVE T \in Q
    OBVIOUS
  <2>1. T \in SUBSET S /\ Cardinality(T) <= n + 1
    BY DEF Upto
  <2>2. /\ T \ {Pick(T)} \in SUBSET S /\ Cardinality(T) \in Nat
        /\ Cardinality(T \ {Pick(T)}) = Cardinality(T) - 1
    BY <2>1, Smaller
  <2>3. T \ {Pick(T)} \in Upto(S, n)
    BY <2>1, <2>2 DEF Upto
  <2>4. T \ {Pick(T)} \in Q
    BY <1>3, <2>3
  <2> QED BY <2>1, <2>4
<1>4. P = Nat
  <2> HIDE DEF P
  <2>1. P \in SUBSET Nat
    BY DEF P
  <2> QED BY <1>2, <1>3, <2>1, SetInduction
<1>5. Cardinality(S) \in P
  BY <1>1, <1>4
<1> QED BY <1>1, <1>5 DEF Upto

\* The folds exist.
LEMMA PartialExist ==
    ASSUME NEW V, NEW o, NEW b, NEW f, NEW S, Foldable(V, o, b, f, S)
    PROVE  \A n \in Nat : \E g : Partial(g, V, o, b, f, S, n)
<1> DEFINE P == {n \in Nat : \E g : Partial(g, V, o, b, f, S, n)}
<1>1. IsFiniteSet(S) /\ \A T \in SUBSET S : IsFiniteSet(T) /\ Cardinality(T) \in Nat
  BY FS_Subset, FS_CardinalityType DEF Foldable
<1>2. 0 \in P
  <2> DEFINE g == [T \in Upto(S, 0) |-> b]
  <2>1. \A T \in Upto(S, 0) : T = {}
    BY <1>1, FS_EmptySet DEF Upto
  <2>2. Partial(g, V, o, b, f, S, 0)
    BY <2>1 DEF Partial, Recurs, Foldable
  <2> QED BY <2>2
<1>3. ASSUME NEW n \in Nat, n \in P PROVE n + 1 \in P
  <2>1. PICK h : Partial(h, V, o, b, f, S, n)
    BY <1>3
  <2> DEFINE val(T) == o[<<f[Pick(T)], h[T \ {Pick(T)}]>>]
             g == [T \in Upto(S, n + 1) |-> IF T = {} THEN b ELSE val(T)]
  <2>2. ASSUME NEW T \in Upto(S, n + 1), T # {}
        PROVE  /\ Pick(T) \in S /\ T \ {Pick(T)} \in Upto(S, n)
    <3>1. T \in SUBSET S /\ Cardinality(T) <= n + 1
      BY DEF Upto
    <3>2. /\ Pick(T) \in T /\ T \ {Pick(T)} \in SUBSET S /\ Cardinality(T) \in Nat
          /\ Cardinality(T \ {Pick(T)}) = Cardinality(T) - 1
      BY <1>1, <2>2, <3>1, Smaller
    <3>3. Cardinality(T) - 1 <= n
      BY <3>1, <3>2
    <3> QED BY <3>1, <3>2, <3>3 DEF Upto
  <2>3. g \in [Upto(S, n + 1) -> V]
    <3>1. ASSUME NEW T \in Upto(S, n + 1), T # {} PROVE val(T) \in V
      <4>1. f[Pick(T)] \in V /\ h[T \ {Pick(T)}] \in V
        BY <2>1, <2>2, <3>1 DEF Partial, Foldable
      <4> QED BY <4>1 DEF Foldable
    <3> HIDE DEF val
    <3> QED BY <3>1 DEF Foldable
  <2>4. \A T \in Upto(S, n) : T \in Upto(S, n + 1)
    BY <1>1 DEF Upto
  <2>5. \A T \in Upto(S, n) : g[T] = h[T]
    BY <2>1, <2>4 DEF Partial, Recurs
  <2>6. ASSUME NEW T \in Upto(S, n + 1) PROVE Recurs(g, o, b, f, T)
    <3>1. CASE T = {}
      BY <3>1 DEF Recurs
    <3>2. CASE T # {}
      <4>1. g[T] = val(T)
        BY <3>2
      <4>2. g[T \ {Pick(T)}] = h[T \ {Pick(T)}]
        BY <2>2, <2>5, <3>2
      <4> HIDE DEF g
      <4> QED BY <3>2, <4>1, <4>2 DEF Recurs
    <3> QED BY <3>1, <3>2
  <2>7. Partial(g, V, o, b, f, S, n + 1)
    BY <2>3, <2>6 DEF Partial
  <2> QED BY <2>7
<1>4. P = Nat
  <2> HIDE DEF P
  <2>1. P \in SUBSET Nat
    BY DEF P
  <2> QED BY <1>2, <1>3, <2>1, SetInduction
<1> QED BY <1>4

IsFold(g, V, o, b, f, S) ==
    g \in [SUBSET S -> V] /\ \A T \in SUBSET S : Recurs(g, o, b, f, T)

\* Over all parts of S.
LEMMA FoldExists ==
    ASSUME NEW V, NEW o, NEW b, NEW f, NEW S, Foldable(V, o, b, f, S)
    PROVE  \E g : IsFold(g, V, o, b, f, S)
<1> DEFINE n == Cardinality(S)
<1>1. n \in Nat /\ Upto(S, n) = SUBSET S
  BY FS_Subset, FS_CardinalityType DEF Foldable, Upto
<1> HIDE DEF n
<1>2. PICK h : Partial(h, V, o, b, f, S, n)
  BY <1>1, PartialExist
<1> QED BY <1>1, <1>2 DEF Partial, IsFold

Positive == Nat \ {0}

\* interval_, the period of the table, is a multiple of every interval.
LEMMA PeriodIs ==
    ASSUME NEW f \in [Tasks -> Positive], f = Intervals
    PROVE  Period \in Positive /\ \A i \in Tasks : Divides(f[i], Period)
<1> DEFINE o == [a \in Positive \X Positive |-> Lcm(a[1], a[2])]
           IsIter(g) == g = [T \in SUBSET Tasks |-> IF T = {} THEN 1 ELSE Lcm(f[Pick(T)], g[T \ {Pick(T)}])]
           G == CHOOSE g : IsIter(g)
<1>1. IsFiniteSet(Tasks) /\ DOMAIN f = Tasks
  BY TasksAssumption
<1>2. o \in [Positive \X Positive -> Positive]
  <2>1. \A p, r \in Positive : Lcm(p, r) \in Positive
    BY LcmIs DEF Positive
  <2> QED BY <2>1
<1>3. Foldable(Positive, o, 1, f, Tasks)
  BY <1>1, <1>2 DEF Foldable, Positive
<1>4. \A p, r \in Positive : o[<<p, r>>] = Lcm(p, r)
  OBVIOUS
<1> HIDE DEF o
<1>5. PICK h : IsFold(h, Positive, o, 1, f, Tasks)
  BY <1>3, FoldExists
<1>6. h \in [SUBSET Tasks -> Positive] /\ \A T \in SUBSET Tasks : Recurs(h, o, 1, f, T)
  BY <1>5 DEF IsFold
<1>7. IsIter(h)
  <2>1. ASSUME NEW T \in SUBSET Tasks, T # {}
        PROVE  h[T] = Lcm(f[Pick(T)], h[T \ {Pick(T)}])
    <3>1. Pick(T) \in T /\ T \ {Pick(T)} \in SUBSET Tasks
      BY <1>1, <2>1, Smaller
    <3>2. f[Pick(T)] \in Positive /\ h[T \ {Pick(T)}] \in Positive
      BY <1>6, <3>1
    <3>3. h[T] = o[<<f[Pick(T)], h[T \ {Pick(T)}]>>]
      BY <1>6, <2>1 DEF Recurs
    <3> QED BY <1>4, <3>2, <3>3
  <2>2. h[{}] = 1
    BY <1>6 DEF Recurs
  <2>3. h = [T \in SUBSET Tasks |-> h[T]]
    BY <1>6
  <2> QED BY <2>1, <2>2, <2>3
<1>8. IsIter(G)
  BY <1>7
<1>9. Period = G[Tasks]
  BY <1>1 DEF Period, FoldFunction, FoldFunctionOnSet, MapThenFoldSet, Pick
<1> HIDE DEF G
<1>10. /\ G[{}] = 1
      /\ \A T \in SUBSET Tasks : T # {} => G[T] = Lcm(f[Pick(T)], G[T \ {Pick(T)}])
  BY <1>8
<1> DEFINE Q == {T \in SUBSET Tasks : G[T] \in Positive /\ \A i \in T : Divides(f[i], G[T])}
<1>11. {} \in Q
  BY <1>10 DEF Positive
<1>12. ASSUME NEW T \in SUBSET Tasks, T # {}, T \ {Pick(T)} \in Q PROVE T \in Q
  <2> DEFINE x == Pick(T)  w == G[T \ {x}]
  <2>1. x \in T /\ f[x] \in Positive
    <3>1. x \in T
      BY <1>1, <1>12, Smaller
    <3> QED BY <3>1
  <2>2. w \in Positive /\ \A i \in T \ {x} : Divides(f[i], w)
    BY <1>12
  <2>3. G[T] = Lcm(f[x], w)
    BY <1>10, <1>12
  <2> HIDE DEF x, w
  <2>4. G[T] \in Positive /\ Divides(f[x], G[T]) /\ Divides(w, G[T])
    BY <2>1, <2>2, <2>3, LcmIs DEF Positive
  <2>5. ASSUME NEW i \in T PROVE Divides(f[i], G[T])
    <3>1. CASE i = x
      BY <2>4, <3>1
    <3>2. CASE i # x
      <4>1. f[i] \in Nat /\ w \in Nat /\ G[T] \in Nat
        BY <2>2, <2>4 DEF Positive
      <4> QED BY <2>2, <2>4, <3>2, <4>1, DividesChain
    <3> QED BY <3>1, <3>2
  <2> QED BY <2>4, <2>5
<1>13. Tasks \in Q
  <2>1. Q \in SUBSET SUBSET Tasks
    OBVIOUS
  <2> HIDE DEF Q
  <2> QED BY <1>1, <1>11, <1>12, <2>1, PickInduction
<1> QED BY <1>9, <1>13

\* The step in which the table is laid out divides every interval.
LEMMA GrainIs ==
    ASSUME NEW f \in [Tasks -> Positive], f = Intervals
    PROVE  Grain \in Nat /\ \A i \in Tasks : Divides(Grain, f[i])
<1> DEFINE o == [a \in Nat \X Nat |-> Gcd(a[1], a[2])]
           IsIter(g) == g = [T \in SUBSET Tasks |-> IF T = {} THEN 0 ELSE Gcd(f[Pick(T)], g[T \ {Pick(T)}])]
           G == CHOOSE g : IsIter(g)
<1>1. IsFiniteSet(Tasks) /\ DOMAIN f = Tasks /\ \A i \in Tasks : f[i] \in Nat
  BY TasksAssumption DEF Positive
<1>2. o \in [Nat \X Nat -> Nat]
  <2>1. \A p, r \in Nat : Gcd(p, r) \in Nat
    BY GcdIs
  <2> QED BY <2>1
<1>3. Foldable(Nat, o, 0, f, Tasks)
  BY <1>1, <1>2 DEF Foldable
<1>4. \A p, r \in Nat : o[<<p, r>>] = Gcd(p, r)
  OBVIOUS
<1> HIDE DEF o
<1>5. PICK h : IsFold(h, Nat, o, 0, f, Tasks)
  BY <1>3, FoldExists
<1>6. h \in [SUBSET Tasks -> Nat] /\ \A T \in SUBSET Tasks : Recurs(h, o, 0, f, T)
  BY <1>5 DEF IsFold
<1>7. IsIter(h)
  <2>1. ASSUME NEW T \in SUBSET Tasks, T # {}
        PROVE  h[T] = Gcd(f[Pick(T)], h[T \ {Pick(T)}])
    <3>1. Pick(T) \in T /\ T \ {Pick(T)} \in SUBSET Tasks
      BY <1>1, <2>1, Smaller
    <3>2. f[Pick(T)] \in Nat /\ h[T \ {Pick(T)}] \in Nat
      BY <1>1, <1>6, <3>1
    <3>3. h[T] = o[<<f[Pick(T)], h[T \ {Pick(T)}]>>]
      BY <1>6, <2>1 DEF Recurs
    <3> QED BY <1>4, <3>2, <3>3
  <2>2. h[{}] = 0
    BY <1>6 DEF Recurs
  <2>3. h = [T \in SUBSET Tasks |-> h[T]]
    BY <1>6
  <2> QED BY <2>1, <2>2, <2>3
<1>8. IsIter(G)
  BY <1>7
<1>9. Grain = G[Tasks]
  BY <1>1 DEF Grain, FoldFunction, FoldFunctionOnSet, MapThenFoldSet, Pick
<1> HIDE DEF G
<1>10. /\ G[{}] = 0
      /\ \A T \in SUBSET Tasks : T # {} => G[T] = Gcd(f[Pick(T)], G[T \ {Pick(T)}])
  BY <1>8
<1> DEFINE Q == {T \in SUBSET Tasks : G[T] \in Nat /\ \A i \in T : Divides(G[T], f[i])}
<1>11. {} \in Q
  BY <1>10
<1>12. ASSUME NEW T \in SUBSET Tasks, T # {}, T \ {Pick(T)} \in Q PROVE T \in Q
  <2> DEFINE x == Pick(T)  w == G[T \ {x}]
  <2>1. x \in T /\ f[x] \in Nat
    <3>1. x \in T
      BY <1>1, <1>12, Smaller
    <3> QED BY <1>1, <3>1
  <2>2. w \in Nat /\ \A i \in T \ {x} : Divides(w, f[i])
    BY <1>12
  <2>3. G[T] = Gcd(f[x], w)
    BY <1>10, <1>12
  <2> HIDE DEF x, w
  <2>4. G[T] \in Nat /\ Divides(G[T], f[x]) /\ Divides(G[T], w)
    BY <2>1, <2>2, <2>3, GcdIs
  <2>5. ASSUME NEW i \in T PROVE Divides(G[T], f[i])
    <3>1. CASE i = x
      BY <2>4, <3>1
    <3>2. CASE i # x
      <4>1. f[i] \in Nat
        BY <1>1
      <4> QED BY <2>2, <2>4, <3>2, <4>1, DividesChain
    <3> QED BY <3>1, <3>2
  <2> QED BY <2>4, <2>5
<1>13. Tasks \in Q
  <2>1. Q \in SUBSET SUBSET Tasks
    OBVIOUS
  <2> HIDE DEF Q
  <2> QED BY <1>1, <1>11, <1>12, <2>1, PickInduction
<1> QED BY <1>9, <1>13

-----------------------------------------------------------------------------
(* The handlers of a stamp. *)

Served(i, s) == s % Interval(i) = 0

Push(u, i, s) == IF Served(i, s) THEN Append(u, i) ELSE u

\* The constructor's loop has come to the n-th task of the heap.
Pushes(h, s, n) ==
    /\ h = [k \in 0..n |-> h[k]] /\ h[0] = <<>>
    /\ \A k \in 1..n : h[k] = Push(h[k - 1], order[k], s)

\* What the recursion in Handlers means: it has a solution, of any length.
LEMMA PushesExist ==
    ASSUME NEW s
    PROVE  \A n \in Nat : \E h : Pushes(h, s, n)
<1> DEFINE P == {n \in Nat : \E h : Pushes(h, s, n)}
<1>1. 0 \in P
  <2> DEFINE g == [k \in 0..0 |-> <<>>]
  <2>1. Pushes(g, s, 0)
    BY DEF Pushes
  <2> QED BY <2>1
<1>2. ASSUME NEW n \in Nat, n \in P PROVE n + 1 \in P
  <2>1. PICK h : Pushes(h, s, n)
    BY <1>2
  <2> DEFINE g == [k \in 0..n + 1 |-> IF k <= n THEN h[k] ELSE Push(h[n], order[n + 1], s)]
  <2>2. /\ g = [k \in 0..n + 1 |-> g[k]]
        /\ \A k \in 0..n : g[k] = h[k]
        /\ g[n + 1] = Push(h[n], order[n + 1], s)
    OBVIOUS
  <2> HIDE DEF g
  <2>3. g[0] = <<>>
    <3>1. 0 \in 0..n /\ h[0] = <<>>
      BY <2>1 DEF Pushes
    <3> QED BY <2>2, <3>1
  <2>4. ASSUME NEW k \in 1..n + 1 PROVE g[k] = Push(g[k - 1], order[k], s)
    <3>1. CASE k = n + 1
      <4>1. k - 1 = n /\ n \in 0..n
        BY <3>1
      <4>2. g[k - 1] = h[n]
        BY <2>2, <4>1
      <4> QED BY <2>2, <3>1, <4>2
    <3>2. CASE k # n + 1
      <4>1. k \in 1..n /\ k \in 0..n /\ k - 1 \in 0..n
        BY <3>2
      <4>2. g[k] = h[k] /\ g[k - 1] = h[k - 1]
        BY <2>2, <4>1
      <4>3. h[k] = Push(h[k - 1], order[k], s)
        BY <2>1, <4>1 DEF Pushes
      <4> QED BY <4>2, <4>3
    <3> QED BY <3>1, <3>2
  <2>5. Pushes(g, s, n + 1)
    BY <2>2, <2>3, <2>4 DEF Pushes
  <2> QED BY <2>5
<1>3. P = Nat
  <2> HIDE DEF P
  <2>1. P \in SUBSET Nat
    BY DEF P
  <2> QED BY <1>1, <1>2, <2>1, SetInduction
<1> QED BY <1>3

\* The handlers of a stamp are what the loop has pushed in the end.
LEMMA HandlersDef ==
    ASSUME NEW s, Len(order) \in Nat
    PROVE  \E h : Pushes(h, s, Len(order)) /\ Handlers(s) = h[Len(order)]
<1> DEFINE IsPushed(h) == h = [n \in 0..Len(order) |->
                IF n = 0 THEN <<>>
                ELSE IF s % Interval(order[n]) = 0 THEN Append(h[n - 1], order[n])
                ELSE h[n - 1]]
           G == CHOOSE h : IsPushed(h)
<1>1. PICK h : Pushes(h, s, Len(order))
  BY PushesExist
<1>2. \A n \in 0..Len(order) :
          h[n] = IF n = 0 THEN <<>>
                 ELSE IF s % Interval(order[n]) = 0 THEN Append(h[n - 1], order[n])
                 ELSE h[n - 1]
  <2> SUFFICES ASSUME NEW n \in 0..Len(order), n # 0
               PROVE  h[n] = IF s % Interval(order[n]) = 0 THEN Append(h[n - 1], order[n])
                             ELSE h[n - 1]
    BY <1>1 DEF Pushes
  <2>1. n \in 1..Len(order)
    OBVIOUS
  <2>2. h[n] = Push(h[n - 1], order[n], s)
    BY <1>1, <2>1 DEF Pushes
  <2> QED BY <2>2 DEF Push, Served
<1>3. IsPushed(h)
  <2>1. h = [n \in 0..Len(order) |-> h[n]]
    BY <1>1 DEF Pushes
  <2> QED BY <1>2, <2>1
<1>4. IsPushed(G)
  BY <1>3
<1>5. Handlers(s) = G[Len(order)]
  BY DEF Handlers
<1> HIDE DEF G
<1>6. G = [n \in 0..Len(order) |-> G[n]]
  BY <1>4
<1>7. G[0] = <<>>
  BY <1>4
<1>8. ASSUME NEW k \in 1..Len(order) PROVE G[k] = Push(G[k - 1], order[k], s)
  <2>1. k \in 0..Len(order) /\ k # 0
    OBVIOUS
  <2>2. G[k] = IF s % Interval(order[k]) = 0 THEN Append(G[k - 1], order[k]) ELSE G[k - 1]
    BY <1>4, <2>1
  <2> QED BY <2>2 DEF Push, Served
<1> QED BY <1>5, <1>6, <1>7, <1>8 DEF Pushes

\* u is what has been pushed for stamp s of the first m tasks of the heap: those
\* that are served, in their order.
Part(u, s, m) ==
    /\ u \in Seq(Tasks)
    /\ \A k \in 1..Len(u) : \E q \in 1..m : u[k] = order[q] /\ Served(order[q], s)
    /\ \A q \in 1..m : Served(order[q], s) => \E k \in 1..Len(u) : u[k] = order[q]
    /\ \A j, k \in 1..Len(u) : j < k =>
           \E q, r \in 1..m : q < r /\ u[j] = order[q] /\ u[k] = order[r]

\* One turn of the constructor's loop.
LEMMA PartPushed ==
    ASSUME NEW s, NEW m \in Nat, NEW u, Part(u, s, m), order[m + 1] \in Tasks
    PROVE  Part(Push(u, order[m + 1], s), s, m + 1)
<1>1. u \in Seq(Tasks) /\ Len(u) \in Nat
  BY LenProperties DEF Part
<1>2. \A q \in 1..m : q \in 1..m + 1 /\ q < m + 1
  OBVIOUS
<1>3. m + 1 \in 1..m + 1 /\ \A q \in 1..m + 1 : q \in 1..m \/ q = m + 1
  OBVIOUS
<1>4. CASE ~Served(order[m + 1], s)
  <2>1. Push(u, order[m + 1], s) = u
    BY <1>4 DEF Push
  <2>2. \A k \in 1..Len(u) : \E q \in 1..m + 1 : u[k] = order[q] /\ Served(order[q], s)
    BY <1>2 DEF Part
  <2>3. \A q \in 1..m + 1 : Served(order[q], s) => \E k \in 1..Len(u) : u[k] = order[q]
    BY <1>3, <1>4 DEF Part
  <2>4. \A j, k \in 1..Len(u) : j < k =>
            \E q, r \in 1..m + 1 : q < r /\ u[j] = order[q] /\ u[k] = order[r]
    BY <1>2 DEF Part
  <2> QED BY <1>1, <2>1, <2>2, <2>3, <2>4 DEF Part
<1>5. CASE Served(order[m + 1], s)
  <2> DEFINE v == Append(u, order[m + 1])
  <2>1. /\ v \in Seq(Tasks) /\ Len(v) = Len(u) + 1
        /\ \A k \in 1..Len(u) : v[k] = u[k]
        /\ v[Len(u) + 1] = order[m + 1]
    BY <1>1, AppendProperties
  <2>2. Push(u, order[m + 1], s) = v
    BY <1>5 DEF Push
  <2> HIDE DEF v
  <2>3. /\ \A k \in 1..Len(u) : k \in 1..Len(v)
        /\ Len(u) + 1 \in 1..Len(v)
        /\ \A k \in 1..Len(v) : k \in 1..Len(u) \/ k = Len(u) + 1
    BY <1>1, <2>1
  <2>4. ASSUME NEW k \in 1..Len(v)
        PROVE  \E q \in 1..m + 1 : v[k] = order[q] /\ Served(order[q], s)
    <3>1. CASE k \in 1..Len(u)
      <4>1. PICK q \in 1..m : u[k] = order[q] /\ Served(order[q], s)
        BY <3>1 DEF Part
      <4> QED BY <1>2, <2>1, <3>1, <4>1
    <3>2. CASE k = Len(u) + 1
      BY <1>3, <1>5, <2>1, <3>2
    <3> QED BY <2>3, <3>1, <3>2
  <2>5. ASSUME NEW q \in 1..m + 1, Served(order[q], s)
        PROVE  \E k \in 1..Len(v) : v[k] = order[q]
    <3>1. CASE q \in 1..m
      <4>1. PICK k \in 1..Len(u) : u[k] = order[q]
        BY <2>5, <3>1 DEF Part
      <4> QED BY <2>1, <2>3, <4>1
    <3>2. CASE q = m + 1
      BY <2>1, <2>3, <3>2
    <3> QED BY <1>3, <3>1, <3>2
  <2>6. ASSUME NEW j \in 1..Len(v), NEW k \in 1..Len(v), j < k
        PROVE  \E q, r \in 1..m + 1 : q < r /\ v[j] = order[q] /\ v[k] = order[r]
    <3>1. CASE k \in 1..Len(u)
      <4>1. j \in 1..Len(u)
        BY <1>1, <2>6, <3>1
      <4>2. PICK q \in 1..m, r \in 1..m : q < r /\ u[j] = order[q] /\ u[k] = order[r]
        BY <2>6, <3>1, <4>1 DEF Part
      <4>3. q \in 1..m + 1 /\ r \in 1..m + 1 /\ v[j] = order[q] /\ v[k] = order[r]
        BY <1>2, <2>1, <3>1, <4>1, <4>2
      <4> QED BY <4>2, <4>3
    <3>2. CASE k = Len(u) + 1
      <4>1. j \in 1..Len(u)
        BY <1>1, <2>6, <3>2
      <4>2. PICK q \in 1..m : u[j] = order[q]
        BY <4>1 DEF Part
      <4>3. q \in 1..m + 1 /\ q < m + 1 /\ v[j] = order[q] /\ v[k] = order[m + 1]
        BY <1>2, <2>1, <3>2, <4>1, <4>2
      <4> QED BY <1>3, <4>3
    <3> QED BY <2>3, <3>1, <3>2
  <2>7. \A k \in 1..Len(v) : \E q \in 1..m + 1 : v[k] = order[q] /\ Served(order[q], s)
    BY <2>4
  <2>8. \A q \in 1..m + 1 : Served(order[q], s) => \E k \in 1..Len(v) : v[k] = order[q]
    BY <2>5
  <2>9. \A j, k \in 1..Len(v) : j < k =>
            \E q, r \in 1..m + 1 : q < r /\ v[j] = order[q] /\ v[k] = order[r]
    BY <2>6
  <2>10. v \in Seq(Tasks)
    BY <2>1
  <2>11. Part(v, s, m + 1)
    BY ONLY <2>7, <2>8, <2>9, <2>10 DEF Part
  <2> QED BY <2>2, <2>11
<1> QED BY <1>4, <1>5

\* timer_handlers_: every task once, the urgent ones first.
OrderOK ==
    /\ order \in Seq(Tasks) /\ Sorted(order)
    /\ \A j, k \in 1..Len(order) : order[j] = order[k] => j = k
    /\ \A i \in Tasks : \E k \in 1..Len(order) : order[k] = i

\* A list of handlers without repetition, the urgent ones first.
Listed(u) ==
    /\ u \in Seq(Tasks)
    /\ \A j, k \in 1..Len(u) : j < k => u[j] # u[k] /\ prio[u[j]] >= prio[u[k]]

\* The table holds, for every stamp, each of its handlers once, in that order.
LEMMA HandlersAre ==
    ASSUME OrderOK, NEW s
    PROVE  /\ Listed(Handlers(s))
           /\ \A i \in Tasks : (\E k \in 1..Len(Handlers(s)) : Handlers(s)[k] = i) <=> Served(i, s)
<1> DEFINE N == Len(order)
<1>1. N \in Nat /\ \A k \in 1..N : order[k] \in Tasks
  BY LenProperties, ElementOfSeq DEF OrderOK
<1>2. PICK h : Pushes(h, s, N) /\ Handlers(s) = h[N]
  BY <1>1, HandlersDef
<1> HIDE DEF N
<1> DEFINE P == {m \in Nat : m <= N => Part(h[m], s, m)}
<1>3. 0 \in P
  <2>1. h[0] = <<>>
    BY <1>2 DEF Pushes
  <2>2. <<>> \in Seq(Tasks) /\ Len(<<>>) = 0
    BY EmptySeq
  <2>3. Part(h[0], s, 0)
    BY <2>1, <2>2 DEF Part
  <2> QED BY <2>3
<1>4. ASSUME NEW m \in Nat, m \in P PROVE m + 1 \in P
  <2> SUFFICES ASSUME m + 1 <= N PROVE Part(h[m + 1], s, m + 1)
    OBVIOUS
  <2>1. m + 1 \in 1..N /\ (m + 1) - 1 = m /\ m <= N
    BY <1>1
  <2>2. Part(h[m], s, m) /\ order[m + 1] \in Tasks
    BY <1>1, <1>4, <2>1
  <2>3. h[m + 1] = Push(h[m], order[m + 1], s)
    BY <1>2, <2>1 DEF Pushes
  <2> QED BY <2>2, <2>3, PartPushed
<1>5. P = Nat
  <2> HIDE DEF P
  <2>1. P \in SUBSET Nat
    BY DEF P
  <2> QED BY <1>3, <1>4, <2>1, SetInduction
<1> DEFINE u == Handlers(s)
<1>6. Part(u, s, N)
  <2>1. N \in P
    BY <1>1, <1>5
  <2> QED BY <1>1, <1>2, <2>1
<1> HIDE DEF u, P
<1>7. ASSUME NEW j \in 1..Len(u), NEW k \in 1..Len(u), j < k
      PROVE  u[j] # u[k] /\ prio[u[j]] >= prio[u[k]]
  <2>1. PICK q \in 1..N, r \in 1..N : q < r /\ u[j] = order[q] /\ u[k] = order[r]
    BY <1>6, <1>7 DEF Part
  <2>2. q # r
    BY <2>1
  <2> QED BY <2>1, <2>2 DEF OrderOK, Sorted, N
<1>8. ASSUME NEW i \in Tasks, Served(i, s) PROVE \E k \in 1..Len(u) : u[k] = i
  <2>1. PICK q \in 1..N : order[q] = i
    BY DEF OrderOK, N
  <2> QED BY <1>6, <1>8, <2>1 DEF Part
<1>9. ASSUME NEW i \in Tasks, NEW k \in 1..Len(u), u[k] = i PROVE Served(i, s)
  BY <1>6, <1>9 DEF Part
<1>10. Listed(u)
  BY <1>6, <1>7 DEF Listed, Part
<1> QED BY <1>8, <1>9, <1>10 DEF u

-----------------------------------------------------------------------------
(* The inductive invariant. *)

\* What the constructor has laid out.
ArgsInv ==
    /\ prio \in [Tasks -> Nat]
    /\ \A i \in Tasks : Interval(i) \in Positive
    /\ OrderOK /\ unit \in Positive

TypeOK ==
    /\ now \in Nat /\ start \in Nat /\ tp \in Nat /\ next \in Nat /\ stamp \in Nat
    /\ place \in Nat /\ points \in Nat /\ until \in Nat
    /\ stop \in BOOLEAN
    /\ pc \in {"new", "sleep", "call", "exit", "ended"}
    /\ todo \in Seq(Tasks)
    /\ calls \in [Tasks -> [0..MaxTime -> Nat]]

\* The stamp is the place, modulo the period.
PlaceInv ==
    /\ stamp < Period
    /\ pc = "new" => stamp = 0 /\ place = 0 /\ points = 0
    /\ \E k \in Nat : place = k * Period + stamp

\* Handler i is still to be called at the present place.
Waiting(i) == \E k \in 1..Len(todo) : todo[k] = i

\* Handler i has been called at place e.
Made(i, e) == Due(i, e) /\ (e < place \/ (pc = "call" /\ e = place /\ ~Waiting(i)))

\* The calls are those of all places before the present one and, while the handlers
\* of the present one are called, those of it that no longer wait.
CallsInv ==
    \A i \in Tasks, e \in 0..MaxTime : calls[i][e] = IF Made(i, e) THEN 1 ELSE 0

\* The handlers that wait are due, and not more urgent than those that do not.
TodoInv ==
    pc = "call" =>
        /\ place < MaxTime
        /\ Listed(todo)
        /\ \A i \in Tasks : Waiting(i) => Due(i, place)
        /\ \A i, j \in Tasks : Waiting(i) /\ Due(j, place) /\ ~Waiting(j) => prio[j] >= prio[i]

\* No call is made at a place that the thread had not begun when stop_ was set.
StopInv ==
    /\ \A i \in Tasks, e \in 0..MaxTime : calls[i][e] = 1 => ~(stop /\ e >= until)
    /\ stop /\ pc = "call" => until = place + 1

Inv == ArgsInv /\ TypeOK /\ PlaceInv /\ CallsInv /\ TodoInv /\ StopInv

-----------------------------------------------------------------------------
(* The table. *)

\* The heap holds every task once: as many places as tasks, and no task twice.
LEMMA OrderIs ==
    ASSUME order \in SetToSeqs(Tasks), Sorted(order)
    PROVE  OrderOK
<1> DEFINE n == Cardinality(Tasks)
<1>1. n \in Nat
  BY TasksAssumption, FS_CardinalityType
<1>2. IsFiniteSet(1..n) /\ Cardinality(1..n) = n
  BY <1>1, FS_Interval
<1>3. order \in [1..n -> Tasks] /\ \A j, k \in 1..n : j # k => order[j] # order[k]
  BY DEF SetToSeqs
<1> HIDE DEF n
<1>4. order \in Injection(1..n, Tasks)
  BY <1>3 DEF Injection, IsInjective
<1>5. order \in Surjection(1..n, Tasks)
  BY <1>2, <1>4, TasksAssumption, FS_Injection DEF n
<1>6. order \in Seq(Tasks) /\ Len(order) = n
  BY <1>1, <1>3
<1>7. \A i \in Tasks : \E k \in 1..n : order[k] = i
  BY <1>5 DEF Surjection
<1> QED BY <1>3, <1>6, <1>7 DEF OrderOK

\* No interval is zero.
LEMMA ArgsInit ==
    ASSUME Init
    PROVE  ArgsInv
<1>1. PICK a \in Args : freq = [i \in Tasks |-> a[i].freq] /\ prio = [i \in Tasks |-> a[i].prio]
  BY DEF Init
<1>2. ASSUME NEW i \in Tasks PROVE Interval(i) \in Positive /\ prio[i] \in Nat
  <2> DEFINE n == freq[i][1]  m == freq[i][2]
  <2>1. n \in Nat \ {0} /\ m \in Nat \ {0} /\ n <= Second * m /\ prio[i] \in Nat
    BY <1>1, ArgsAssumption
  <2>2. Interval(i) = (Second * m) \div n
    BY DEF Interval
  <2> HIDE DEF n, m
  <2> DEFINE x == Second * m  q == x \div n
  <2>3. x \in Nat /\ n <= x
    BY <2>1, SecondAssumption
  <2>4. q \in Nat /\ x % n \in Nat /\ x % n < n /\ x = n * q + (x % n)
    <3> HIDE DEF x
    <3> QED BY <2>1, <2>3, DivMod
  <2>5. q # 0
    <3> SUFFICES ASSUME q = 0 PROVE FALSE
      OBVIOUS
    <3>1. n * q = 0
      BY <2>1
    <3> HIDE DEF q, x
    <3> QED BY <2>1, <2>3, <2>4, <3>1
  <2> QED BY <2>1, <2>2, <2>4, <2>5 DEF Positive
<1>3. prio \in [Tasks -> Nat]
  BY <1>1, <1>2
<1>4. OrderOK /\ unit \in Positive
  BY OrderIs, SecondAssumption DEF Init, Positive
<1> QED BY <1>2, <1>3, <1>4 DEF ArgsInv

\* The intervals, as a function that does not change.
LEMMA IntervalsAre ==
    ASSUME ArgsInv
    PROVE  \E f \in [Tasks -> Positive] : f = Intervals /\ \A i \in Tasks : f[i] = Interval(i)
<1>1. Intervals \in [Tasks -> Positive] /\ \A i \in Tasks : Intervals[i] = Interval(i)
  BY DEF ArgsInv, Intervals
<1> QED BY <1>1

\* The period, the step and the intervals.
LEMMA TableIs ==
    ASSUME ArgsInv
    PROVE  /\ Period \in Positive /\ Grain \in Nat
           /\ \A i \in Tasks : Divides(Interval(i), Period) /\ Divides(Grain, Interval(i))
<1>1. PICK f \in [Tasks -> Positive] : f = Intervals /\ \A i \in Tasks : f[i] = Interval(i)
  BY IntervalsAre
<1>2. Period \in Positive /\ \A i \in Tasks : Divides(f[i], Period)
  BY <1>1, PeriodIs
<1>3. Grain \in Nat /\ \A i \in Tasks : Divides(Grain, f[i])
  BY <1>1, GrainIs
<1> QED BY <1>1, <1>2, <1>3

\* The table joins up with itself: whole periods make no difference to who is
\* called.
LEMMA Periodic ==
    ASSUME ArgsInv, NEW i \in Tasks, NEW k \in Nat, NEW s \in Nat
    PROVE  (k * Period + s) % Interval(i) = 0 <=> Served(i, s)
<1> DEFINE d == Interval(i)  a == k * Period
<1>1. d \in Nat \ {0} /\ Period \in Nat /\ Divides(d, Period)
  BY TableIs DEF ArgsInv, Positive
<1>2. a \in Nat /\ a = Period * k /\ a + s \in Nat
  BY <1>1
<1>3. Divides(d, a)
  BY <1>1, <1>2, DividesProduct
<1> HIDE DEF d, a
<1>4. (a + s) % d = 0 <=> Divides(d, a + s)
  BY <1>1, <1>2, DividesMod
<1>5. s % d = 0 <=> Divides(d, s)
  BY <1>1, DividesMod
<1>6. Divides(d, a + s) <=> Divides(d, s)
  BY <1>1, <1>2, <1>3, DividesSum, DividesRest
<1> QED BY <1>4, <1>5, <1>6 DEF d, a, Served

\* What is due at a place is what its stamp serves.
LEMMA DueServed ==
    ASSUME ArgsInv, NEW i \in Tasks, NEW k \in Nat, NEW s \in Nat
    PROVE  Due(i, k * Period + s) <=> Served(i, s)
BY Periodic DEF Due

\* The steps of the greatest common divisor leave no stamp out.
LEMMA StampsAre ==
    ASSUME ArgsInv
    PROVE  Stamps = {s \in 0..Period - 1 : \E i \in Tasks : Served(i, s)}
<1>1. Period \in Nat \ {0} /\ Grain \in Nat
  BY TableIs DEF Positive
<1>2. ASSUME NEW s \in 0..Period - 1, NEW i \in Tasks, Served(i, s) PROVE s % Grain = 0
  <2> DEFINE d == Interval(i)  g == Grain
  <2>1. d \in Nat \ {0} /\ g \in Nat /\ Divides(g, d) /\ s % d = 0
    BY <1>2, TableIs DEF ArgsInv, Positive, Served
  <2>2. s \in Nat
    BY <1>1
  <2> HIDE DEF d, g
  <2>3. Divides(d, s)
    BY <2>1, <2>2, DividesMod
  <2>4. Divides(g, s)
    BY <2>1, <2>2, <2>3, DividesChain
  <2>5. g # 0
    BY <2>1, DividesAtMost
  <2>6. s % g = 0
    BY <2>1, <2>2, <2>4, <2>5, DividesMod
  <2> QED BY <2>6 DEF g
<1> QED BY <1>2 DEF Stamps, Served

\* The next stamp: not beyond the end of the period, and nothing is due before it.
LEMMA SpanIs ==
    ASSUME ArgsInv, stamp \in Nat, stamp < Period
    PROVE  /\ Period \in Nat /\ Span \in Nat \ {0} /\ stamp + Span <= Period
           /\ \A s \in Nat, i \in Tasks : stamp < s /\ s < stamp + Span => ~Served(i, s)
           /\ stamp + Span = Period \/ \E i \in Tasks : Served(i, stamp + Span)
<1> DEFINE S == {s \in Stamps \cup {Period} : s > stamp}  m == Min(S)
<1>1. Period \in Nat
  BY TableIs DEF Positive
<1>2. S \in SUBSET Nat /\ Period \in S
  BY <1>1 DEF Stamps
<1> HIDE DEF S
<1>3. \E x \in S : \A y \in S : x <= y
  BY <1>2, Smallest
<1>4. m \in S /\ \A y \in S : m <= y
  BY <1>3 DEF Min
<1>5. Span = m - stamp
  BY DEF Span, S
<1> HIDE DEF m
<1>6. m \in Nat /\ m > stamp /\ m <= Period
  BY <1>2, <1>4 DEF S
<1>7. Span \in Nat \ {0} /\ stamp + Span = m
  BY <1>5, <1>6
<1>8. ASSUME NEW s \in Nat, NEW i \in Tasks, stamp < s, s < m, Served(i, s) PROVE FALSE
  <2>1. s \in 0..Period - 1
    BY <1>1, <1>6, <1>8
  <2>2. s \in Stamps
    BY <1>8, <2>1, StampsAre
  <2>3. s \in S
    BY <1>8, <2>2 DEF S
  <2> QED BY <1>4, <1>6, <1>8, <2>3
<1>9. m = Period \/ \E i \in Tasks : Served(i, m)
  <2>1. m \in Stamps \/ m = Period
    BY <1>4 DEF S
  <2> QED BY <2>1, StampsAre
<1> QED BY <1>1, <1>6, <1>7, <1>8, <1>9

\* The constructor's tables stay what they are.
LEMMA SameArgs ==
    ASSUME ArgsInv, freq' = freq, prio' = prio, order' = order, unit' = unit
    PROVE  /\ ArgsInv' /\ Period' = Period
           /\ \A i \in Tasks : Interval(i)' = Interval(i)
<1>1. \A i \in Tasks : Interval(i)' = Interval(i)
  BY DEF Interval
<1>2. ArgsInv'
  BY <1>1 DEF ArgsInv, OrderOK, Sorted
<1>3. PICK f \in [Tasks -> Positive] : f = Intervals /\ \A i \in Tasks : f[i] = Interval(i)
  BY IntervalsAre
<1>4. f = Intervals'
  BY <1>1, <1>3 DEF Intervals
<1>5. DOMAIN f = Tasks
  OBVIOUS
<1> DEFINE IsIter(g) == g = [T \in SUBSET Tasks |-> IF T = {} THEN 1 ELSE Lcm(f[Pick(T)], g[T \ {Pick(T)}])]
           G == CHOOSE g : IsIter(g)
<1>6. Period = G[Tasks]
  BY <1>3, <1>5 DEF Period, FoldFunction, FoldFunctionOnSet, MapThenFoldSet, Pick
<1>7. Period' = G[Tasks]
  BY <1>4, <1>5 DEF Period, FoldFunction, FoldFunctionOnSet, MapThenFoldSet, Pick
<1> QED BY <1>1, <1>2, <1>6, <1>7

-----------------------------------------------------------------------------
(* Every step keeps the invariant. *)

\* What is due does not change.
LEMMA SameDue ==
    ASSUME ArgsInv, UNCHANGED <<freq, prio, order, unit>>
    PROVE  /\ ArgsInv' /\ Period' = Period /\ prio' = prio
           /\ \A i \in Tasks : Interval(i)' = Interval(i)
           /\ \A i \in Tasks, e \in Nat : Due(i, e)' <=> Due(i, e)
<1>1. ArgsInv' /\ Period' = Period /\ \A i \in Tasks : Interval(i)' = Interval(i)
  BY SameArgs
<1> QED BY <1>1 DEF Due

\* A cast loses less than a tick, and nothing of whole ticks.
LEMMA CastIs ==
    ASSUME ArgsInv, NEW t \in Nat
    PROVE  /\ Cast(t) \in Nat /\ Cast(t) <= t /\ t <= Cast(t) + (unit - 1)
           /\ Divides(unit, Cast(t))
           /\ Divides(unit, t) => Cast(t) = t
<1>1. unit \in Nat \ {0}
  BY DEF ArgsInv, Positive
<1>2. PICK q \in Nat, m \in Nat : q = t \div unit /\ m = t % unit /\ m < unit /\ t = unit * q + m
  BY <1>1, DivMod
<1>3. unit * q \in Nat /\ Cast(t) = unit * q
  BY <1>1, <1>2 DEF Cast
<1>4. Divides(unit, Cast(t))
  BY <1>3 DEF Divides
<1>5. Divides(unit, t) => Cast(t) = t
  BY <1>1, DividesMod DEF Cast
<1>6. Cast(t) \in Nat /\ Cast(t) <= t /\ t <= Cast(t) + (unit - 1)
  BY <1>1, <1>2, <1>3
<1> QED BY <1>4, <1>5, <1>6

\* Nothing has been called when the thread begins.
LEMMA InitKeeps == Init => Inv
<1> SUFFICES ASSUME Init PROVE Inv
  OBVIOUS
<1>1. ArgsInv
  BY ArgsInit
<1>2. Period \in Nat \ {0}
  BY <1>1, TableIs DEF Positive
<1>3. TypeOK
  BY EmptySeq DEF Init, TypeOK
<1>4. PlaceInv
  <2>1. place = 0 * Period + stamp
    BY <1>2 DEF Init
  <2> QED BY <1>2, <2>1 DEF Init, PlaceInv
<1>5. CallsInv
  BY BoundsAssumption DEF Init, CallsInv, Made
<1>6. TodoInv /\ StopInv
  BY DEF Init, TodoInv, StopInv
<1> QED BY <1>1, <1>3, <1>4, <1>5, <1>6 DEF Inv

\* The thread takes the time.
LEMMA StartKeeps == Inv /\ Start => Inv'
<1> SUFFICES ASSUME Inv, Start PROVE Inv'
  OBVIOUS
<1>1. /\ ArgsInv' /\ Period' = Period /\ prio' = prio
      /\ \A i \in Tasks : Interval(i)' = Interval(i)
      /\ \A i \in Tasks, e \in Nat : Due(i, e)' <=> Due(i, e)
  BY SameDue DEF Inv, Start
<1>2. /\ UNCHANGED <<now, stamp, todo, stop, place, points, until, calls>>
      /\ pc = "new" /\ pc' = "sleep" /\ tp' = next' /\ start' = next'
  BY DEF Start, histVars
<1>3. next' \in Nat
  <2>1. ArgsInv /\ now \in Nat /\ Cast(now) \in Nat
    BY CastIs DEF Inv, TypeOK
  <2>2. Cast(now) \div Second \in Nat
    BY <2>1, SecondAssumption, DivMod
  <2>3. (Cast(now) \div Second + 1) * Second \in Nat
    BY <2>2, SecondAssumption
  <2>4. Cast((Cast(now) \div Second + 1) * Second) \in Nat
    BY <2>1, <2>3, CastIs
  <2> QED BY <2>1, <2>4 DEF Start
<1>4. TypeOK'
  BY <1>2, <1>3 DEF Inv, TypeOK
<1>5. PlaceInv'
  BY <1>1, <1>2 DEF Inv, PlaceInv
<1>6. \A e \in 0..MaxTime : e \in Nat
  BY BoundsAssumption
<1>7. CallsInv'
  BY <1>1, <1>2, <1>6 DEF Inv, CallsInv, Made
<1>8. TodoInv' /\ StopInv'
  BY <1>2 DEF Inv, TodoInv, StopInv
<1> QED BY <1>1, <1>4, <1>5, <1>7, <1>8 DEF Inv

\* The handlers of the stamp are those that are due, and none is called yet.
LEMMA WakeKeeps == Inv /\ Wake => Inv'
<1> SUFFICES ASSUME Inv, Wake PROVE Inv'
  OBVIOUS
<1>1. /\ ArgsInv' /\ Period' = Period /\ prio' = prio
      /\ \A i \in Tasks : Interval(i)' = Interval(i)
      /\ \A i \in Tasks, e \in Nat : Due(i, e)' <=> Due(i, e)
  BY SameDue DEF Inv, Wake, argVars
<1>2. /\ UNCHANGED <<now, start, stamp, next, stop, place, points, until, calls>>
      /\ pc = "sleep" /\ pc' \in {"exit", "call"} /\ tp' = Cast(next)
  BY DEF Wake, argVars, histVars
<1>3. PlaceInv' /\ tp' \in Nat
  BY <1>1, <1>2, CastIs DEF Inv, TypeOK, PlaceInv
<1>4. \A e \in 0..MaxTime : e \in Nat
  BY BoundsAssumption
<1>5. CASE pc' = "exit"
  <2>1. todo' = todo
    BY <1>5 DEF Wake
  <2>2. TypeOK'
    BY <1>2, <1>3, <1>5, <2>1 DEF Inv, TypeOK
  <2>3. CallsInv'
    BY <1>1, <1>2, <1>4, <1>5 DEF Inv, CallsInv, Made
  <2>4. TodoInv' /\ StopInv'
    BY <1>2, <1>5 DEF Inv, TodoInv, StopInv
  <2> QED BY <1>1, <1>3, <2>2, <2>3, <2>4 DEF Inv
<1>6. CASE pc' = "call"
  <2>1. ~stop /\ place < MaxTime /\ todo' = Handlers(stamp)
    BY <1>6 DEF Wake, StopSeen
  <2>2. /\ Listed(todo')
        /\ \A i \in Tasks : (\E k \in 1..Len(todo') : todo'[k] = i) <=> Served(i, stamp)
    BY <2>1, HandlersAre DEF Inv, ArgsInv
  <2>3. \A i \in Tasks : Due(i, place) <=> Served(i, stamp)
    <3>1. PICK k \in Nat : place = k * Period + stamp
      BY DEF Inv, PlaceInv
    <3> QED BY <3>1, DueServed DEF Inv, TypeOK
  <2>4. place \in Nat
    BY DEF Inv, TypeOK
  <2>5. \A i \in Tasks : Waiting(i)' <=> Due(i, place)
    BY <2>2, <2>3 DEF Waiting
  <2>6. TypeOK'
    BY <1>2, <1>3, <1>6, <2>2 DEF Inv, TypeOK, Listed
  <2>7. CallsInv'
    <3> SUFFICES ASSUME NEW i \in Tasks, NEW e \in 0..MaxTime
                 PROVE  (calls[i][e] = IF Made(i, e) THEN 1 ELSE 0)'
      BY DEF CallsInv
    <3>1. calls'[i][e] = IF Made(i, e) THEN 1 ELSE 0
      BY <1>2 DEF Inv, CallsInv
    <3>2. Made(i, e) <=> Due(i, e) /\ e < place
      BY <1>2 DEF Made
    <3>3. Made(i, e)' <=> Due(i, e) /\ e < place
      BY <1>1, <1>2, <1>4, <1>6, <2>5 DEF Made
    <3> QED BY <3>1, <3>2, <3>3
  <2>8. Listed(todo)'
    BY <1>1, <2>2 DEF Listed
  <2>9. TodoInv'
    BY <1>1, <1>2, <2>1, <2>4, <2>5, <2>8 DEF TodoInv
  <2>10. StopInv'
    BY <1>2, <2>1 DEF Inv, StopInv
  <2> QED BY <1>1, <1>3, <2>6, <2>7, <2>9, <2>10 DEF Inv
<1> QED BY <1>2, <1>5, <1>6

\* A count of a function of counts goes up.
LEMMA CountUp ==
    ASSUME NEW S, NEW u \in [S -> Nat], NEW x \in S
    PROVE  LET r == [u EXCEPT ![x] = @ + 1]
           IN  /\ r \in [S -> Nat] /\ r[x] = u[x] + 1
               /\ \A e \in S : e # x => r[e] = u[e]
<1>1. u[x] \in Nat /\ u[x] + 1 \in Nat
  OBVIOUS
<1> QED BY <1>1

\* The first handler that waits is called, and waits no longer.
LEMMA CallKeeps == Inv /\ Call => Inv'
<1> SUFFICES ASSUME Inv, Call PROVE Inv'
  OBVIOUS
<1>1. /\ ArgsInv' /\ Period' = Period /\ prio' = prio
      /\ \A i \in Tasks : Interval(i)' = Interval(i)
      /\ \A i \in Tasks, e \in Nat : Due(i, e)' <=> Due(i, e)
  BY SameDue DEF Inv, Call, argVars
<1>2. /\ UNCHANGED <<now, start, pc, stamp, tp, next, stop, place, points, until>>
      /\ pc = "call" /\ todo # <<>> /\ todo' = Tail(todo)
      /\ calls' = [calls EXCEPT ![Head(todo)][place] = @ + 1]
  BY DEF Call, argVars
<1>3. /\ todo \in Seq(Tasks) /\ place \in Nat /\ place < MaxTime /\ Listed(todo)
      /\ calls \in [Tasks -> [0..MaxTime -> Nat]]
  BY <1>2 DEF Inv, TypeOK, TodoInv
<1>4. PICK h \in Tasks :
          /\ h = Head(todo) /\ todo' \in Seq(Tasks) /\ Len(todo) \in Nat \ {0}
          /\ Len(todo') = Len(todo) - 1 /\ h = todo[1]
          /\ \A k \in 1..Len(todo') : todo'[k] = todo[k + 1]
  BY <1>2, <1>3, HeadTailProperties, EmptySeq
<1>5. place \in 0..MaxTime /\ \A e \in 0..MaxTime : e \in Nat
  BY <1>3, BoundsAssumption
<1>6. /\ calls' \in [Tasks -> [0..MaxTime -> Nat]]
      /\ calls'[h][place] = calls[h][place] + 1
      /\ \A i \in Tasks, e \in 0..MaxTime : i # h \/ e # place => calls'[i][e] = calls[i][e]
  <2>1. calls' = [calls EXCEPT ![h][place] = @ + 1]
    BY <1>2, <1>4
  <2> DEFINE r == [calls[h] EXCEPT ![place] = @ + 1]
  <2>2. calls[h] \in [0..MaxTime -> Nat]
    BY <1>3
  <2>3. /\ r \in [0..MaxTime -> Nat] /\ r[place] = calls[h][place] + 1
        /\ \A e \in 0..MaxTime : e # place => r[e] = calls[h][e]
    BY <1>5, <2>2, CountUp
  <2>4. calls' = [calls EXCEPT ![h] = r]
    BY <2>1
  <2> HIDE DEF r
  <2>5. calls'[h] = r /\ \A i \in Tasks : i # h => calls'[i] = calls[i]
    BY <1>3, <2>4
  <2> QED BY <1>3, <2>3, <2>4, <2>5
<1>7. /\ 1 \in 1..Len(todo)
      /\ \A k \in 1..Len(todo') : k + 1 \in 1..Len(todo) /\ 1 < k + 1
      /\ \A k \in 1..Len(todo) : k = 1 \/ (k - 1 \in 1..Len(todo') /\ (k - 1) + 1 = k)
  BY <1>4
<1>8. Waiting(h) /\ ~Waiting(h)'
  <2>1. Waiting(h)
    BY <1>4, <1>7 DEF Waiting
  <2>2. ASSUME NEW k \in 1..Len(todo') PROVE todo'[k] # h
    <3>1. todo[1] # todo[k + 1]
      BY <1>3, <1>7 DEF Listed
    <3> QED BY <1>4, <3>1
  <2> QED BY <2>1, <2>2 DEF Waiting
<1>9. ASSUME NEW i \in Tasks, i # h PROVE Waiting(i)' <=> Waiting(i)
  <2>1. ASSUME Waiting(i) PROVE Waiting(i)'
    <3>1. PICK k \in 1..Len(todo) : todo[k] = i
      BY <2>1 DEF Waiting
    <3>2. k - 1 \in 1..Len(todo') /\ (k - 1) + 1 = k
      BY <1>4, <1>7, <1>9, <3>1
    <3>3. todo'[k - 1] = i
      BY <1>4, <3>1, <3>2
    <3> QED BY <3>2, <3>3 DEF Waiting
  <2>2. ASSUME Waiting(i)' PROVE Waiting(i)
    <3>1. PICK k \in 1..Len(todo') : todo'[k] = i
      BY <2>2 DEF Waiting
    <3> QED BY <1>4, <1>7, <3>1 DEF Waiting
  <2> QED BY <2>1, <2>2
<1>10. \A i \in Tasks : Waiting(i) => Due(i, place) /\ prio[h] >= prio[i]
  <2> SUFFICES ASSUME NEW i \in Tasks, Waiting(i) PROVE prio[h] >= prio[i]
    BY <1>2 DEF Inv, TodoInv
  <2>1. PICK k \in 1..Len(todo) : todo[k] = i
    BY DEF Waiting
  <2>2. CASE k = 1
    <3>1. prio[h] \in Nat
      BY <1>4 DEF Inv, ArgsInv
    <3> QED BY <1>4, <2>1, <2>2, <3>1
  <2>3. CASE k # 1
    <3>1. 1 < k
      BY <2>3
    <3> QED BY <1>3, <1>4, <1>7, <2>1, <3>1 DEF Listed
  <2> QED BY <2>2, <2>3
<1>11. TypeOK' /\ PlaceInv'
  BY <1>1, <1>2, <1>4, <1>6 DEF Inv, TypeOK, PlaceInv
<1>12. CallsInv'
  <2> SUFFICES ASSUME NEW i \in Tasks, NEW e \in 0..MaxTime
               PROVE  (calls[i][e] = IF Made(i, e) THEN 1 ELSE 0)'
    BY DEF CallsInv
  <2>1. calls[i][e] = IF Made(i, e) THEN 1 ELSE 0
    BY DEF Inv, CallsInv
  <2>2. Made(i, e) <=> Due(i, e) /\ (e < place \/ (e = place /\ ~Waiting(i)))
    BY <1>2 DEF Made
  <2>3. Made(i, e)' <=> Due(i, e) /\ (e < place \/ (e = place /\ ~Waiting(i)'))
    BY <1>1, <1>2, <1>5 DEF Made
  <2>4. CASE i = h /\ e = place
    <3>1. ~Made(i, e)
      BY <1>3, <1>8, <2>2, <2>4
    <3>2. Made(i, e)'
      BY <1>8, <1>10, <2>3, <2>4
    <3>3. calls'[i][e] = 1
      BY <1>6, <2>1, <2>4, <3>1
    <3> QED BY <3>2, <3>3
  <2>5. CASE e # place
    BY <1>6, <2>1, <2>2, <2>3, <2>5
  <2>6. CASE i # h
    BY <1>6, <1>9, <2>1, <2>2, <2>3, <2>6
  <2> QED BY <2>4, <2>5, <2>6
<1>13. TodoInv'
  <2>1. Listed(todo)'
    <3>1. ASSUME NEW j \in 1..Len(todo'), NEW k \in 1..Len(todo'), j < k
          PROVE  todo'[j] # todo'[k] /\ prio[todo'[j]] >= prio[todo'[k]]
      <4>1. j + 1 \in 1..Len(todo) /\ k + 1 \in 1..Len(todo) /\ j + 1 < k + 1
        BY <1>7, <3>1
      <4>2. todo[j + 1] # todo[k + 1] /\ prio[todo[j + 1]] >= prio[todo[k + 1]]
        BY <1>3, <4>1 DEF Listed
      <4> QED BY <1>4, <4>2
    <3> QED BY <1>1, <1>4, <3>1 DEF Listed
  <2>2. \A i \in Tasks : Waiting(i)' => Due(i, place)
    BY <1>8, <1>9, <1>10
  <2>3. ASSUME NEW i \in Tasks, NEW j \in Tasks, Waiting(i)', Due(j, place), ~Waiting(j)'
        PROVE  prio[j] >= prio[i]
    <3>1. Waiting(i)
      BY <1>8, <1>9, <2>3
    <3>2. CASE j = h
      BY <1>10, <3>1, <3>2
    <3>3. CASE j # h
      BY <1>2, <1>9, <2>3, <3>1, <3>3 DEF Inv, TodoInv
    <3> QED BY <3>2, <3>3
  <2> QED BY <1>1, <1>2, <1>3, <2>1, <2>2, <2>3 DEF TodoInv
<1>14. StopInv'
  <2>1. ASSUME NEW i \in Tasks, NEW e \in 0..MaxTime, calls'[i][e] = 1
        PROVE  ~(stop /\ e >= until)
    <3>1. CASE i = h /\ e = place
      <4>1. stop => until = place + 1
        BY <1>2 DEF Inv, StopInv
      <4> QED BY <1>3, <3>1, <4>1
    <3>2. CASE i # h \/ e # place
      BY <1>6, <2>1, <3>2 DEF Inv, StopInv
    <3> QED BY <3>1, <3>2
  <2> QED BY <1>2, <2>1 DEF Inv, StopInv
<1> QED BY <1>1, <1>11, <1>12, <1>13, <1>14 DEF Inv

\* All handlers of the time point are called, and none is due before the next one.
LEMMA SleepKeeps == Inv /\ Sleep => Inv'
<1> SUFFICES ASSUME Inv, Sleep PROVE Inv'
  OBVIOUS
<1>1. /\ ArgsInv' /\ Period' = Period /\ prio' = prio
      /\ \A i \in Tasks : Interval(i)' = Interval(i)
      /\ \A i \in Tasks, e \in Nat : Due(i, e)' <=> Due(i, e)
  BY SameDue DEF Inv, Sleep, argVars
<1>2. /\ UNCHANGED <<now, start, tp, todo, stop, until, calls>>
      /\ pc = "call" /\ todo = <<>> /\ pc' = "sleep"
      /\ stamp' = (stamp + Span) % Period /\ place' = place + Span
      /\ next' = tp + Span /\ points' = points + 1
  BY DEF Sleep, argVars
<1>3. stamp \in Nat /\ stamp < Period /\ place \in Nat /\ tp \in Nat /\ points \in Nat
  BY DEF Inv, TypeOK, PlaceInv
<1>4. /\ Period \in Nat \ {0} /\ Span \in Nat \ {0} /\ stamp + Span <= Period
      /\ \A s \in Nat, i \in Tasks : stamp < s /\ s < stamp + Span => ~Served(i, s)
  BY <1>3, SpanIs DEF Inv
<1>5. PICK k \in Nat : place = k * Period + stamp
  BY DEF Inv, PlaceInv
<1> DEFINE p == Period  q == stamp + Span
<1>6. \E m \in Nat : place' = m * p + stamp' /\ stamp' \in Nat /\ stamp' < p
  <2>1. place' = k * p + q /\ q \in Nat /\ q <= p /\ stamp' = q % p /\ p \in Nat \ {0}
    BY <1>2, <1>3, <1>4, <1>5
  <2> HIDE DEF p, q
  <2>2. CASE q < p
    <3>1. stamp' = q
      BY <2>1, <2>2
    <3> QED BY <2>1, <2>2, <3>1
  <2>3. CASE q = p
    <3>1. stamp' = 0
      BY <2>1, <2>3
    <3>2. k * p + q = (k + 1) * p + 0 /\ k + 1 \in Nat /\ 0 < p
      BY <2>1, <2>3
    <3>3. place' = (k + 1) * p + stamp'
      BY <2>1, <3>1, <3>2
    <3> QED BY <3>1, <3>2, <3>3
  <2> QED BY <2>1, <2>2, <2>3
<1>7. stamp' \in Nat
  BY <1>6
<1>8. PlaceInv'
  BY <1>1, <1>2, <1>6 DEF PlaceInv
<1>9. TypeOK'
  <2>1. place' \in Nat /\ next' \in Nat /\ points' \in Nat
    BY <1>2, <1>3, <1>4
  <2> QED BY <1>2, <1>7, <2>1 DEF Inv, TypeOK
<1>10. ASSUME NEW i \in Tasks, NEW e \in Nat, place < e, e < place + Span PROVE ~Due(i, e)
  <2> DEFINE s == stamp + (e - place)
  <2>1. s \in Nat /\ stamp < s /\ s < stamp + Span /\ e = k * Period + s
    BY <1>3, <1>4, <1>5, <1>10
  <2> HIDE DEF s
  <2>2. Due(i, e) <=> Served(i, s)
    BY <1>3, <2>1, DueServed DEF Inv
  <2> QED BY <1>4, <2>1, <2>2
<1>11. CallsInv'
  <2> SUFFICES ASSUME NEW i \in Tasks, NEW e \in 0..MaxTime
               PROVE  (calls[i][e] = IF Made(i, e) THEN 1 ELSE 0)'
    BY DEF CallsInv
  <2>1. calls'[i][e] = IF Made(i, e) THEN 1 ELSE 0
    BY <1>2 DEF Inv, CallsInv
  <2>2. e \in Nat
    BY BoundsAssumption
  <2>3. ~Waiting(i)
    BY <1>2, EmptySeq DEF Waiting
  <2>4. Made(i, e) <=> Due(i, e) /\ e <= place
    BY <1>2, <1>3, <2>2, <2>3 DEF Made
  <2>5. Made(i, e)' <=> Due(i, e) /\ e < place + Span
    BY <1>1, <1>2, <2>2 DEF Made
  <2>6. Due(i, e) => (e <= place <=> e < place + Span)
    BY <1>3, <1>4, <1>10, <2>2
  <2> QED BY <2>1, <2>4, <2>5, <2>6
<1>12. TodoInv' /\ StopInv'
  BY <1>2 DEF Inv, TodoInv, StopInv
<1> QED BY <1>1, <1>8, <1>9, <1>11, <1>12 DEF Inv

\* The exit tasks.
LEMMA ExitKeeps == Inv /\ Exit => Inv'
<1> SUFFICES ASSUME Inv, Exit PROVE Inv'
  OBVIOUS
<1>1. /\ ArgsInv' /\ Period' = Period /\ prio' = prio
      /\ \A i \in Tasks : Interval(i)' = Interval(i)
      /\ \A i \in Tasks, e \in Nat : Due(i, e)' <=> Due(i, e)
  BY SameDue DEF Inv, Exit, argVars
<1>2. /\ UNCHANGED <<now, start, stamp, tp, next, todo, stop, place, points, until, calls>>
      /\ pc = "exit" /\ pc' = "ended"
  BY DEF Exit, argVars, histVars
<1>3. \A e \in 0..MaxTime : e \in Nat
  BY BoundsAssumption
<1>4. TypeOK' /\ PlaceInv'
  BY <1>1, <1>2 DEF Inv, TypeOK, PlaceInv
<1>5. CallsInv'
  BY <1>1, <1>2, <1>3 DEF Inv, CallsInv, Made
<1>6. TodoInv' /\ StopInv'
  BY <1>2 DEF Inv, TodoInv, StopInv
<1> QED BY <1>1, <1>4, <1>5, <1>6 DEF Inv

\* No call has been made after the present place when stop_ is set, and none at it
\* unless it is being served.
LEMMA DestroyKeeps == Inv /\ Destroy => Inv'
<1> SUFFICES ASSUME Inv, Destroy PROVE Inv'
  OBVIOUS
<1>1. /\ ArgsInv' /\ Period' = Period /\ prio' = prio
      /\ \A i \in Tasks : Interval(i)' = Interval(i)
      /\ \A i \in Tasks, e \in Nat : Due(i, e)' <=> Due(i, e)
  BY SameDue DEF Inv, Destroy, argVars
<1>2. /\ UNCHANGED <<now, start, pc, stamp, tp, next, todo, place, points, calls>>
      /\ stop' = TRUE /\ until' = IF pc = "call" THEN place + 1 ELSE place
  BY DEF Destroy, argVars
<1>3. place \in Nat /\ \A e \in 0..MaxTime : e \in Nat
  BY BoundsAssumption DEF Inv, TypeOK
<1>4. TypeOK' /\ PlaceInv'
  BY <1>1, <1>2 DEF Inv, TypeOK, PlaceInv
<1>5. \A i \in Tasks : Waiting(i)' <=> Waiting(i)
  BY <1>2 DEF Waiting
<1>6. CallsInv'
  BY <1>1, <1>2, <1>3, <1>5 DEF Inv, CallsInv, Made
<1>7. TodoInv'
  BY <1>1, <1>2, <1>3, <1>5 DEF Inv, TodoInv, Listed
<1>8. ASSUME NEW i \in Tasks, NEW e \in 0..MaxTime, calls[i][e] = 1 PROVE ~(e >= until')
  <2>1. Made(i, e)
    BY <1>8 DEF Inv, CallsInv
  <2> QED BY <1>2, <1>3, <2>1 DEF Made
<1>9. StopInv'
  BY <1>2, <1>8 DEF Inv, StopInv
<1> QED BY <1>1, <1>4, <1>6, <1>7, <1>9 DEF Inv

\* Time passes.
LEMMA TickKeeps == Inv /\ Tick => Inv'
<1> SUFFICES ASSUME Inv, Tick PROVE Inv'
  OBVIOUS
<1>1. /\ ArgsInv' /\ Period' = Period /\ prio' = prio
      /\ \A i \in Tasks : Interval(i)' = Interval(i)
      /\ \A i \in Tasks, e \in Nat : Due(i, e)' <=> Due(i, e)
  BY SameDue DEF Inv, Tick, argVars
<1>2. /\ UNCHANGED <<start, pc, stamp, tp, next, todo, stop, place, points, until, calls>>
      /\ now' = now + 1
  BY DEF Tick, argVars, histVars
<1>3. now \in Nat /\ place \in Nat /\ \A e \in 0..MaxTime : e \in Nat
  BY BoundsAssumption DEF Inv, TypeOK
<1>4. TypeOK' /\ PlaceInv'
  BY <1>1, <1>2 DEF Inv, TypeOK, PlaceInv
<1>5. \A i \in Tasks : Waiting(i)' <=> Waiting(i)
  BY <1>2 DEF Waiting
<1>6. CallsInv'
  BY <1>1, <1>2, <1>3, <1>5 DEF Inv, CallsInv, Made
<1>7. TodoInv'
  BY <1>1, <1>2, <1>3, <1>5 DEF Inv, TodoInv, Listed
<1>8. StopInv'
  BY <1>2, <1>3 DEF Inv, StopInv
<1> QED BY <1>1, <1>4, <1>6, <1>7, <1>8 DEF Inv

\* A step that changes nothing.
LEMMA StutterKeeps == Inv /\ UNCHANGED vars => Inv'
<1> SUFFICES ASSUME Inv, UNCHANGED vars PROVE Inv'
  OBVIOUS
<1>1. /\ ArgsInv' /\ Period' = Period /\ prio' = prio
      /\ \A i \in Tasks : Interval(i)' = Interval(i)
      /\ \A i \in Tasks, e \in Nat : Due(i, e)' <=> Due(i, e)
  BY SameDue DEF Inv, vars, argVars
<1>2. UNCHANGED <<now, start, pc, stamp, tp, next, todo, stop, place, points, until, calls>>
  BY DEF vars, argVars, histVars
<1>3. place \in Nat /\ \A e \in 0..MaxTime : e \in Nat
  BY BoundsAssumption DEF Inv, TypeOK
<1>4. TypeOK' /\ PlaceInv'
  BY <1>1, <1>2 DEF Inv, TypeOK, PlaceInv
<1>5. \A i \in Tasks : Waiting(i)' <=> Waiting(i)
  BY <1>2 DEF Waiting
<1>6. CallsInv'
  BY <1>1, <1>2, <1>3, <1>5 DEF Inv, CallsInv, Made
<1>7. TodoInv'
  BY <1>1, <1>2, <1>3, <1>5 DEF Inv, TodoInv, Listed
<1>8. StopInv'
  BY <1>2 DEF Inv, StopInv
<1> QED BY <1>1, <1>4, <1>6, <1>7, <1>8 DEF Inv

\* The inductive invariant: the stamp agrees with the place, and exactly the calls
\* that are due before it have been made (scheduler.h:74-123).
THEOREM InvHolds == Spec => []Inv
<1>1. Inv /\ [Next]_vars => Inv'
  BY StartKeeps, WakeKeeps, CallKeeps, SleepKeeps, ExitKeeps, DestroyKeeps, TickKeeps,
     StutterKeeps DEF Next, Thread
<1> QED BY InitKeeps, <1>1, PTL DEF Spec

\* The members of timed_scheduler (scheduler.h:154-168) and the counts of its calls
\* keep their types.
THEOREM TypeCorrect == Spec => []TypeOK
<1>1. Inv => TypeOK
  BY DEF Inv
<1> QED BY <1>1, InvHolds, PTL

\* The invariant says all that OnTime does.
LEMMA InvOnTime == Inv => OnTime
<1> SUFFICES ASSUME Inv, NEW i \in Tasks, NEW e \in 0..MaxTime
             PROVE  /\ calls[i][e] <= 1
                    /\ e < place => (calls[i][e] = 1 <=> Due(i, e))
                    /\ calls[i][e] = 1 => Due(i, e) /\ e <= place
                    /\ pc = "call" /\ e = place /\ Due(i, e) /\ calls[i][e] = 0 =>
                           \A j \in Tasks : calls[j][e] = 1 => prio[j] >= prio[i]
                    /\ stop /\ e >= until => calls[i][e] = 0
  BY DEF OnTime
<1>1. e \in Nat /\ place \in Nat
  BY BoundsAssumption DEF Inv, TypeOK
<1>2. \A j \in Tasks : calls[j][e] = IF Made(j, e) THEN 1 ELSE 0
  BY DEF Inv, CallsInv
<1>3. calls[i][e] = 1 => ~(stop /\ e >= until)
  BY DEF Inv, StopInv
<1>4. e < place => (Made(i, e) <=> Due(i, e))
  BY DEF Made
<1>5. Made(i, e) => Due(i, e) /\ e <= place
  BY <1>1 DEF Made
<1>6. ASSUME pc = "call", e = place, Due(i, e), calls[i][e] = 0,
             NEW j \in Tasks, calls[j][e] = 1
      PROVE  prio[j] >= prio[i]
  <2>1. ~Made(i, e) /\ Made(j, e)
    BY <1>2, <1>6
  <2>2. Waiting(i) /\ Due(j, place) /\ ~Waiting(j)
    BY <1>1, <1>6, <2>1 DEF Made
  <2> QED BY <1>6, <2>2 DEF Inv, TodoInv
<1>7. calls[i][e] <= 1
  BY <1>2
<1>8. e < place => (calls[i][e] = 1 <=> Due(i, e))
  BY <1>2, <1>4
<1>9. calls[i][e] = 1 => Due(i, e) /\ e <= place
  BY <1>2, <1>5
<1>10. stop /\ e >= until => calls[i][e] = 0
  BY <1>2, <1>3
<1> QED BY <1>6, <1>7, <1>8, <1>9, <1>10

\* Every handler is called once at every multiple of its interval and at no other
\* place, the more urgent of two first, and at no place that had not begun when the
\* destructor set stop_ (scheduler.h:74-123): for any tasks, frequencies and
\* priorities, any clock, and however late the thread is.
THEOREM OnTimeHolds == Spec => []OnTime
BY InvHolds, InvOnTime, PTL

-----------------------------------------------------------------------------
(* The clock. *)

\* What n casts may lose.
Loss(n) == n * (unit - 1)

\* Time t stands for the present place after n casts.
Near(t, n) == t <= start + place /\ start + place <= t + Loss(n)

Resolved == \A i \in Tasks : Interval(i) % unit = 0

\* Time t stands for it exactly, in whole ticks.
Exact(t) == t = start + place /\ Divides(unit, t) /\ Divides(unit, stamp)

\* The first time point is in whole ticks; each of the others has been cast once it
\* is reached, and not before.
ClockInv ==
    /\ pc = "sleep" =>
           /\ \/ points = 0 /\ Near(next, 0) /\ Divides(unit, next)
              \/ points > 0 /\ Near(next, points - 1)
           /\ Resolved => Exact(next)
    /\ pc = "call" =>
           /\ tp <= now /\ Near(tp, points)
           /\ Resolved => Exact(tp)

\* One cast more.
LEMMA LossIs ==
    ASSUME ArgsInv, NEW n \in Nat
    PROVE  Loss(n) \in Nat /\ Loss(0) = 0 /\ Loss(n + 1) = Loss(n) + (unit - 1)
<1>1. unit - 1 \in Nat
  BY DEF ArgsInv, Positive
<1> DEFINE u == unit - 1
<1>2. Loss(n) = n * u /\ Loss(0) = 0 * u /\ Loss(n + 1) = (n + 1) * u
  BY DEF Loss
<1> HIDE DEF u
<1>3. u \in Nat
  BY <1>1 DEF u
<1>4. n * u \in Nat /\ 0 * u = 0 /\ (n + 1) * u = n * u + u
  BY <1>3
<1> QED BY <1>2, <1>4 DEF u

\* The clock resolves the whole table when it resolves the intervals.
LEMMA SpanResolved ==
    ASSUME ArgsInv, Resolved, stamp \in Nat, stamp < Period, Divides(unit, stamp)
    PROVE  Divides(unit, Span) /\ Divides(unit, (stamp + Span) % Period)
<1>1. /\ Period \in Nat \ {0} /\ Span \in Nat \ {0} /\ stamp + Span <= Period
      /\ stamp + Span = Period \/ \E i \in Tasks : Served(i, stamp + Span)
  BY SpanIs
<1>2. unit \in Nat \ {0} /\ \A i \in Tasks : Interval(i) \in Nat \ {0}
  BY DEF ArgsInv, Positive
<1>3. \A i \in Tasks : Divides(unit, Interval(i))
  BY <1>2, DividesMod DEF Resolved
<1>4. Divides(unit, Period)
  <2>1. PICK i \in Tasks : TRUE
    BY TasksAssumption
  <2>2. Divides(Interval(i), Period)
    BY TableIs
  <2> QED BY <1>1, <1>2, <1>3, <2>2, DividesChain
<1>5. ASSUME NEW i \in Tasks, Served(i, stamp + Span) PROVE Divides(unit, stamp + Span)
  <2> DEFINE q == stamp + Span
  <2>1. q \in Nat /\ q % Interval(i) = 0
    BY <1>1, <1>5 DEF Served
  <2> HIDE DEF q
  <2>2. Divides(Interval(i), q)
    BY <1>2, <2>1, DividesMod
  <2>3. Divides(unit, q)
    BY <1>2, <1>3, <2>1, <2>2, DividesChain
  <2> QED BY <2>3 DEF q
<1>6. Divides(unit, stamp + Span)
  BY <1>1, <1>4, <1>5
<1>7. Divides(unit, Span)
  BY <1>1, <1>2, <1>6, DividesRest
<1>8. Divides(unit, (stamp + Span) % Period)
  <2> DEFINE q == stamp + Span
  <2>1. q \in Nat /\ q <= Period
    BY <1>1
  <2> HIDE DEF q
  <2>2. CASE q < Period
    <3>1. q % Period = q
      BY <1>1, <2>1, <2>2
    <3> QED BY <1>6, <3>1 DEF q
  <2>3. CASE q = Period
    <3>1. q % Period = unit * 0
      BY <1>1, <1>2, <2>1, <2>3
    <3> QED BY <3>1 DEF q, Divides
  <2> QED BY <1>1, <2>1, <2>2, <2>3
<1> QED BY <1>7, <1>8

\* Every step keeps the time points near the places they stand for.
LEMMA ClockKeeps == Inv /\ ClockInv /\ [Next]_vars => ClockInv'
<1> SUFFICES ASSUME Inv, ClockInv, [Next]_vars PROVE ClockInv'
  OBVIOUS
<1>1. /\ ArgsInv /\ unit \in Nat \ {0} /\ now \in Nat /\ start \in Nat /\ tp \in Nat
      /\ next \in Nat /\ stamp \in Nat /\ place \in Nat /\ points \in Nat /\ stamp < Period
  BY DEF Inv, ArgsInv, TypeOK, PlaceInv, Positive
<1>2. UNCHANGED <<freq, unit>>
  BY DEF Next, Thread, Start, Wake, Call, Sleep, Exit, Destroy, Tick, vars, argVars
<1>3. (Resolved' <=> Resolved) /\ unit' = unit
  BY <1>2 DEF Resolved, Interval
<1>4. CASE Start
  <2>1. /\ pc' = "sleep" /\ start' = next' /\ UNCHANGED <<stamp, place, points>>
        /\ stamp = 0 /\ place = 0 /\ points = 0
    BY <1>4 DEF Start, histVars, Inv, PlaceInv
  <2>2. PICK t \in Nat : next' = Cast(t)
    <3>1. Cast(now) \in Nat
      BY <1>1, CastIs
    <3>2. Cast(now) \div Second \in Nat
      BY <3>1, SecondAssumption, DivMod
    <3>3. (Cast(now) \div Second + 1) * Second \in Nat
      BY <3>2, SecondAssumption
    <3> QED BY <1>1, <1>4, <3>3 DEF Start
  <2>3. next' \in Nat /\ Divides(unit, next')
    BY <1>1, <2>2, CastIs
  <2>4. Loss(0)' = 0
    BY <1>1, <1>3, LossIs DEF Loss
  <2>5. Near(next, 0)'
    <3>1. place' = 0 /\ start' = next' /\ next' \in Nat
      BY <2>1, <2>3
    <3>2. PICK n \in Nat : n = next' /\ n + 0 = n /\ n <= n
      BY <3>1
    <3> QED BY <2>4, <3>1, <3>2 DEF Near
  <2>6. stamp = unit * 0
    BY <1>1, <2>1
  <2>7. Exact(next)'
    BY <1>3, <2>1, <2>3, <2>6 DEF Exact, Divides
  <2> QED BY <1>3, <2>1, <2>3, <2>5, <2>7 DEF ClockInv
<1>5. CASE Wake
  <2>1. /\ pc = "sleep" /\ pc' \in {"exit", "call"} /\ tp' = Cast(next) /\ Cast(now) >= next
        /\ UNCHANGED <<now, start, stamp, place, points>>
    BY <1>5 DEF Wake, argVars, histVars
  <2>2. /\ Cast(next) \in Nat /\ Cast(next) <= next /\ next <= Cast(next) + (unit - 1)
        /\ Divides(unit, next) => Cast(next) = next
    BY <1>1, CastIs
  <2>3. tp' <= now
    <3>1. Cast(now) \in Nat /\ Cast(now) <= now
      BY <1>1, CastIs
    <3> QED BY <1>1, <2>1, <2>2, <3>1
  <2>4. Near(tp, points)'
    <3>1. Loss(points)' = Loss(points)
      BY <1>3, <2>1 DEF Loss
    <3>2. CASE points = 0
      <4>1. tp' = next /\ Near(next, 0)
        BY <2>1, <2>2, <3>2 DEF ClockInv
      <4> QED BY <2>1, <3>1, <3>2, <4>1 DEF Near
    <3>3. CASE points > 0
      <4>1. next <= start + place /\ start + place <= next + Loss(points - 1)
        BY <2>1, <3>3 DEF ClockInv, Near
      <4>2. points - 1 \in Nat /\ (points - 1) + 1 = points
        BY <1>1, <3>3
      <4>3. Loss(points - 1) \in Nat /\ Loss(points) = Loss(points - 1) + (unit - 1)
        BY <1>1, <4>2, LossIs
      <4>4. tp' <= start + place /\ start + place <= tp' + Loss(points)
        BY <1>1, <2>1, <2>2, <4>1, <4>3
      <4> QED BY <2>1, <3>1, <4>4 DEF Near
    <3> QED BY <1>1, <3>2, <3>3
  <2>5. Resolved => Exact(tp)'
    <3>1. Resolved => Exact(next) /\ tp' = next
      BY <2>1, <2>2 DEF ClockInv, Exact
    <3> QED BY <1>3, <2>1, <3>1 DEF Exact
  <2> QED BY <1>3, <2>1, <2>3, <2>4, <2>5 DEF ClockInv
<1>6. CASE Sleep
  <2>1. /\ pc = "call" /\ pc' = "sleep" /\ next' = tp + Span /\ place' = place + Span
        /\ points' = points + 1 /\ start' = start /\ stamp' = (stamp + Span) % Period
    BY <1>6 DEF Sleep, argVars
  <2>2. Span \in Nat
    BY <1>1, SpanIs
  <2>3. Near(next, points - 1)' /\ points' > 0
    <3>1. tp <= start + place /\ start + place <= tp + Loss(points)
      BY <2>1 DEF ClockInv, Near
    <3>2. points' - 1 = points /\ points' > 0
      BY <1>1, <2>1
    <3>3. Loss(points - 1)' = Loss(points) /\ Loss(points) \in Nat
      BY <1>1, <1>3, <3>2, LossIs DEF Loss
    <3>4. tp + Span <= start + (place + Span) /\ start + (place + Span) <= (tp + Span) + Loss(points)
      BY <1>1, <2>2, <3>1, <3>3
    <3> QED BY <2>1, <3>2, <3>3, <3>4 DEF Near
  <2>4. ASSUME Resolved PROVE Exact(next)'
    <3>1. tp = start + place /\ Divides(unit, tp) /\ Divides(unit, stamp)
      BY <2>1, <2>4 DEF ClockInv, Exact
    <3>2. Divides(unit, Span) /\ Divides(unit, (stamp + Span) % Period)
      BY <1>1, <2>4, <3>1, SpanResolved
    <3>3. Divides(unit, tp + Span)
      BY <1>1, <2>2, <3>1, <3>2, DividesSum
    <3>4. next' = start' + place' /\ Divides(unit, next') /\ Divides(unit, stamp')
      BY <1>1, <2>1, <2>2, <3>1, <3>2, <3>3
    <3> QED BY <1>3, <3>4 DEF Exact, Divides
  <2> QED BY <1>3, <2>1, <2>3, <2>4 DEF ClockInv
<1>7. ASSUME UNCHANGED <<unit, start, stamp, tp, next, place, points, pc>>, now' \in {now, now + 1}
      PROVE  ClockInv'
  <2>1. pc = "call" => tp <= now'
    BY <1>1, <1>7 DEF ClockInv
  <2>2. /\ Near(tp, points)' <=> Near(tp, points)
        /\ Near(next, points - 1)' <=> Near(next, points - 1)
        /\ Near(next, 0)' <=> Near(next, 0)
    BY <1>7 DEF Near, Loss
  <2>3. /\ Exact(next)' <=> Exact(next)
        /\ Exact(tp)' <=> Exact(tp)
        /\ Divides(unit, next)' <=> Divides(unit, next)
    BY <1>7 DEF Exact, Divides
  <2> QED BY <1>3, <1>7, <2>1, <2>2, <2>3 DEF ClockInv
<1>8. CASE Call \/ Destroy \/ Tick \/ UNCHANGED vars
  <2>1. UNCHANGED <<unit, start, stamp, tp, next, place, points, pc>> /\ now' \in {now, now + 1}
    BY <1>8 DEF Call, Destroy, Tick, vars, argVars, histVars
  <2> QED BY <1>7, <2>1
<1>9. CASE Exit
  BY <1>9 DEF Exit, ClockInv
<1> QED BY <1>4, <1>5, <1>6, <1>8, <1>9 DEF Next, Thread

\* No handler is called early, and the time it is called with is that of its place in
\* the table: exactly when the clock resolves the intervals, and otherwise but for
\* less than a tick for each time point gone through (scheduler.h:118-123). However
\* long handlers take, lateness does not add up.
THEOREM PunctualHolds == Spec => []Punctual
<1>1. Init => ClockInv
  BY DEF Init, ClockInv
<1>2. ClockInv => Punctual
  BY DEF ClockInv, Punctual, Near, Loss, Resolved, Exact
<1> QED BY <1>1, <1>2, InvHolds, ClockKeeps, PTL DEF Spec
=============================================================================
