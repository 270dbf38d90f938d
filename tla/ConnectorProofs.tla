---------------------------- MODULE ConnectorProofs ----------------------------
(***************************************************************************)
(* No connection asked for is lost or tried twice and no wake-up of a      *)
(* connector is lost, for any number of connectors and hosts, any counts   *)
(* and any size of the pipe.                                               *)
(***************************************************************************)
EXTENDS Connector, SequenceTheorems, FiniteSetTheorems, WellFoundedInduction, TLAPS

Coming(k) == pipe[k] > 0 \/ cpc[k] \in {"drain", "swap"}

\* While the caller is in write_all its byte is still in the buffer, or it has
\* gone into the pipe and the task has a byte or a draining connector: this is
\* what remains true when write_all returns.
FlushInv ==
    \A k \in Conts : adder = "flush" /\ Head(plan).cont = k /\ wbuf[k] = 0 =>
        hosts[k] = NoHosts \/ Coming(k)

Inv == TypeOK /\ NoTaskForgotten /\ FlushInv

\* What tcp_client::add plans is a sequence of calls of connector::add.
LEMMA SplitType ==
    ASSUME NEW h \in Hosts, NEW t \in Nat
    PROVE  Split(h, t) \in Seq(Requests)
<1> DEFINE S == [k \in Conts |-> [cont |-> k, host |-> h, num |-> t \div N]]
           r == [cont |-> 1, host |-> h, num |-> t % N]
<1> USE NAssumption
<1>1. t \div N \in Nat /\ t % N \in Nat
    OBVIOUS
<1>2. 1 \in Conts
    BY DEF Conts
<1>3. S \in [1..N -> Requests]
    BY <1>1 DEF Conts, Requests
<1>4. S \in Seq(Requests)
    BY <1>3
<1>5. r \in Requests
    BY <1>1, <1>2 DEF Requests
<1>6. Append(S, r) \in Seq(Requests)
    BY <1>4, <1>5
<1>7. <<[cont |-> 1, host |-> h, num |-> t]>> \in Seq(Requests)
    BY <1>2 DEF Requests
<1> QED BY <1>6, <1>7 DEF Split

\* The call of connector::add that is being made.
LEMMA PlanType ==
    ASSUME TypeOK, plan # <<>>
    PROVE  /\ Tail(plan) \in Seq(Requests)
           /\ Head(plan).cont \in Conts
           /\ Head(plan).host \in Hosts
           /\ Head(plan).num \in Nat
<1>1. Head(plan) \in Requests /\ Tail(plan) \in Seq(Requests)
    BY HeadTailProperties DEF TypeOK
<1> QED BY <1>1 DEF Requests

\* At first there are no tasks.
LEMMA InitInv == Init => Inv
BY PipeAssumption DEF Init, Inv, TypeOK, NoTaskForgotten, FlushInv, NoHosts

\* Every step keeps the types.
LEMMA TypeInductive == TypeOK /\ [Next]_vars => TypeOK'
<1> SUFFICES ASSUME TypeOK, [Next]_vars PROVE TypeOK'
    OBVIOUS
<1>1. ASSUME NEW h \in Hosts, NEW t \in Amounts, ClientAdd(h, t) PROVE TypeOK'
  <2>1. t \in Nat
      BY AmountsAssumption
  <2>2. plan' \in Seq(Requests)
      BY <1>1, <2>1, SplitType DEF ClientAdd
  <2> QED BY <1>1, <2>1, <2>2 DEF ClientAdd, TypeOK
<1>2. CASE AddNothing
    BY <1>2, PlanType DEF AddNothing, TypeOK
<1>3. CASE AddTask
  <2>1. plan # <<>>
      BY <1>3 DEF AddTask
  <2>2. hosts' \in [Conts -> [Hosts -> Nat]]
    <3> DEFINE c == Head(plan).cont
               h == Head(plan).host
               n == hosts[c][h] + Head(plan).num
    <3>0. c \in Conts /\ h \in Hosts /\ Head(plan).num \in Nat
        BY <2>1, PlanType
    <3>1. n \in Nat
      <4>1. hosts[c][h] \in Nat
          BY <3>0 DEF TypeOK
      <4> QED BY <3>0, <4>1
    <3>2. hosts' = [hosts EXCEPT ![c][h] = n]
        BY <1>3 DEF AddTask
    <3> HIDE DEF c, h, n
    <3> QED BY <3>0, <3>1, <3>2 DEF TypeOK
  <2> QED BY <1>3, <2>1, <2>2 DEF AddTask, TypeOK
<1>4. CASE AddByte
  <2>1. plan # <<>>
      BY <1>4 DEF AddByte, TypeOK
  <2>2. wbuf' \in [Conts -> Nat]
    <3> DEFINE c == Head(plan).cont
    <3>1. c \in Conts
        BY <2>1, PlanType
    <3>2. wbuf' = [wbuf EXCEPT ![c] = wbuf[c] + 1]
        BY <1>4 DEF AddByte
    <3> HIDE DEF c
    <3> QED BY <3>1, <3>2 DEF TypeOK
  <2> QED BY <1>4, <2>1, <2>2 DEF AddByte, TypeOK
<1>5. CASE Flush
  <2>1. plan # <<>>
      BY <1>5 DEF Flush, TypeOK
  <2>2. wbuf' \in [Conts -> Nat] /\ pipe' \in [Conts -> 0..PipeSize]
    <3> DEFINE c == Head(plan).cont
    <3>1. c \in Conts
        BY <2>1, PlanType
    <3>2. wbuf[c] \in Nat /\ pipe[c] \in 0..PipeSize
        BY <3>1 DEF TypeOK
    <3>3. \/ /\ wbuf[c] > 0 /\ pipe[c] < PipeSize
             /\ wbuf' = [wbuf EXCEPT ![c] = @ - 1]
             /\ pipe' = [pipe EXCEPT ![c] = @ + 1]
          \/ wbuf' = wbuf /\ pipe' = pipe
        BY <1>5 DEF Flush
    <3> HIDE DEF c
    <3>4. /\ wbuf[c] > 0 => wbuf[c] - 1 \in Nat
          /\ pipe[c] < PipeSize => pipe[c] + 1 \in 0..PipeSize
        BY <3>2, PipeAssumption
    <3> QED BY <3>1, <3>3, <3>4 DEF TypeOK
  <2>3. plan' \in Seq(Requests) /\ (adder' # "idle" => plan' # <<>>)
      BY <1>5, <2>1, PlanType DEF Flush, TypeOK
  <2> QED BY <1>5, <2>2, <2>3 DEF Flush, TypeOK
<1>6. ASSUME NEW k \in Conts, Cont(k) PROVE TypeOK'
  <2>1. CASE Poll(k)
      BY <2>1 DEF Poll, TypeOK
  <2>2. CASE Drain(k)
    <3>1. pipe[k] \in 0..PipeSize /\ (pipe[k] > 0 => pipe[k] - 1 \in 0..PipeSize)
        BY PipeAssumption DEF TypeOK
    <3>2. pipe' \in [Conts -> 0..PipeSize]
        BY <2>2, <3>1 DEF Drain, TypeOK
    <3> QED BY <2>2, <3>2 DEF Drain, TypeOK
  <2>3. CASE Swap(k)
      BY <2>3 DEF Swap, NoHosts, TypeOK
  <2>4. CASE Connect(k)
    <3>1. taken' \in [Conts -> [Hosts -> Nat]]
      <4>1. PICK h \in Hosts : taken[k][h] > 0 /\ taken' = [taken EXCEPT ![k][h] = @ - 1]
          BY <2>4 DEF Connect
      <4>2. taken[k][h] - 1 \in Nat
          BY <4>1 DEF TypeOK
      <4> QED BY <4>1, <4>2 DEF TypeOK
    <3>2. /\ handed' \in [Hosts -> Nat]
          /\ failures' \in [Conts -> [Hosts -> Nat]]
      <4>1. PICK h \in Hosts :
                \/ handed' = [handed EXCEPT ![h] = @ + 1] /\ UNCHANGED failures
                \/ failures' = [failures EXCEPT ![k][h] = @ + 1] /\ UNCHANGED handed
          BY <2>4 DEF Connect
      <4>2. handed[h] + 1 \in Nat /\ failures[k][h] + 1 \in Nat
          BY DEF TypeOK
      <4>3. handed' \in [Hosts -> Nat]
          BY <4>1, <4>2 DEF TypeOK
      <4>4. CASE failures' = [failures EXCEPT ![k][h] = @ + 1]
        <5> DEFINE n == failures[k][h] + 1
        <5>1. n \in Nat /\ failures' = [failures EXCEPT ![k][h] = n]
            BY <4>2, <4>4
        <5> HIDE DEF n
        <5>2. failures' \in [Conts -> [Hosts -> Nat]]
            BY <5>1 DEF TypeOK
        <5> QED BY <4>3, <5>2
      <4> QED BY <4>1, <4>3, <4>4 DEF TypeOK
    <3> QED BY <2>4, <3>1, <3>2 DEF Connect, TypeOK
  <2>5. CASE Return(k)
      BY <2>5 DEF Return, TypeOK
  <2> QED BY <1>6, <2>1, <2>2, <2>3, <2>4, <2>5 DEF Cont
<1>7. CASE UNCHANGED vars
    BY <1>7 DEF vars, TypeOK
<1> QED BY <1>1, <1>2, <1>3, <1>4, <1>5, <1>6, <1>7 DEF Next, Adder

\* For each connector k: the step of the caller or of a connector leaves a task
\* of k with a wake-up on its way.
LEMMA InvInductive == Inv /\ [Next]_vars => Inv'
<1> SUFFICES ASSUME Inv, [Next]_vars PROVE NoTaskForgotten' /\ FlushInv'
    BY TypeInductive DEF Inv
<1>0. TypeOK /\ NoTaskForgotten /\ FlushInv
    BY DEF Inv
<1> SUFFICES ASSUME NEW k \in Conts
             PROVE  /\ hosts'[k] # NoHosts =>
                          \/ Coming(k)'
                          \/ adder' \in {"byte", "flush"} /\ Head(plan').cont = k
                    /\ adder' = "flush" /\ Head(plan').cont = k /\ wbuf'[k] = 0 =>
                          hosts'[k] = NoHosts \/ Coming(k)'
    BY DEF NoTaskForgotten, FlushInv, Coming, NoHosts
<1>a. hosts[k] # NoHosts =>
          Coming(k) \/ (adder \in {"byte", "flush"} /\ Head(plan).cont = k)
    BY <1>0 DEF NoTaskForgotten, Coming
<1>b. adder = "flush" /\ Head(plan).cont = k /\ wbuf[k] = 0 =>
          hosts[k] = NoHosts \/ Coming(k)
    BY <1>0 DEF FlushInv
<1>1. CASE \E h \in Hosts, t \in Amounts : ClientAdd(h, t)
    BY <1>1, <1>a DEF ClientAdd, Coming
<1>2. CASE AddNothing
    BY <1>2, <1>a DEF AddNothing, Coming
<1>3. CASE AddTask
    BY <1>3, <1>a, <1>0, PlanType DEF AddTask, Coming, TypeOK
<1>4. CASE AddByte
    BY <1>4, <1>a, <1>0, PlanType DEF AddByte, Coming, TypeOK
<1>5. CASE Flush
    BY <1>5, <1>a, <1>b, <1>0, PlanType, PipeAssumption DEF Flush, Coming, TypeOK
<1>6. CASE \E j \in Conts : Cont(j)
  <2>0. PICK j \in Conts : Cont(j)
      BY <1>6
  <2>1. CASE Poll(j)
      BY <2>1, <1>a, <1>b, <1>0 DEF Poll, Coming, TypeOK
  <2>2. CASE Drain(j)
      BY <2>2, <1>a, <1>b, <1>0 DEF Drain, Coming, TypeOK
  <2>3. CASE Swap(j)
      BY <2>3, <1>a, <1>b, <1>0 DEF Swap, Coming, TypeOK
  <2>4. CASE Connect(j)
      BY <2>4, <1>a, <1>b DEF Connect, Coming
  <2>5. CASE Return(j)
      BY <2>5, <1>a, <1>b, <1>0 DEF Return, Coming, TypeOK
  <2> QED BY <2>0, <2>1, <2>2, <2>3, <2>4, <2>5 DEF Cont
<1>8. CASE UNCHANGED vars
    BY <1>8, <1>a, <1>b DEF vars, Coming
<1> QED BY <1>1, <1>2, <1>3, <1>4, <1>5, <1>6, <1>8 DEF Next, Adder

\* The inductive invariant holds throughout.
THEOREM InvHolds == Spec => []Inv
BY InitInv, InvInductive, PTL DEF Spec

\* The variables of Connector keep their types; in particular the pipe never
\* holds more than it can and the caller is inside connector::add only with a
\* call to finish.
THEOREM TypeCorrect == Spec => []TypeOK
<1>1. Inv => TypeOK
    BY DEF Inv
<1> QED BY <1>1, InvHolds, PTL

\* A task in hosts_ always has a byte in the pipe, a caller about to write one
\* or a connector about to take the table, whatever the size of the pipe and
\* however the threads interleave (tcp.cc:208-252).
THEOREM NoTaskForgottenHolds == Spec => []NoTaskForgotten
<1>1. Inv => NoTaskForgotten
    BY DEF Inv
<1> QED BY <1>1, InvHolds, PTL

-----------------------------------------------------------------------------
(* Numbers. *)

\* A set of numbers has a smallest one.
LEMMA Smallest ==
    ASSUME NEW T \in SUBSET Nat, T # {}
    PROVE  \E x \in T : \A y \in T : x <= y
<1> DEFINE R == OpToRel(<, Nat)
<1>1. IsWellFoundedOn(R, Nat)
  BY NatLessThanWellFounded
<1>2. \A x, y \in Nat : y < x => <<y, x>> \in R
  BY DEF OpToRel
<1> HIDE DEF R
<1>3. PICK x \in T : \A y \in T : ~(<<y, x>> \in R)
  BY <1>1, WFMin
<1>4. \A y \in T : ~(y < x)
  BY <1>2, <1>3
<1> QED BY <1>3, <1>4

\* So what holds of 0, and of a number when it holds of the one before, holds of
\* all of them.
LEMMA SetInduction ==
    ASSUME NEW P \in SUBSET Nat, 0 \in P, \A n \in Nat : n \in P => n + 1 \in P
    PROVE  P = Nat
<1> SUFFICES ASSUME Nat \ P # {} PROVE FALSE
  OBVIOUS
<1>1. PICK x \in Nat \ P : \A y \in Nat \ P : x <= y
  BY Smallest
<1>2. x # 0 /\ x - 1 \in Nat /\ ~(x <= x - 1)
  BY <1>1
<1>3. x - 1 \in P
  BY <1>1, <1>2
<1>4. (x - 1) + 1 \in P
  BY <1>2, <1>3
<1> QED BY <1>1, <1>2, <1>4

-----------------------------------------------------------------------------
(* Sums over finite sets. *)

Pick(T) == CHOOSE x \in T : TRUE
Upto(S, n) == {T \in SUBSET S : Cardinality(T) <= n}
Recurs(g, f, T) == g[T] = IF T = {} THEN 0 ELSE f[Pick(T)] + g[T \ {Pick(T)}]

\* Partial sums of f: of every part of S with at most n elements.
Partial(g, f, S, n) ==
    /\ g \in [Upto(S, n) -> Nat]
    /\ \A T \in Upto(S, n) : Recurs(g, f, T)

Numbers(f, S) == IsFiniteSet(S) /\ \A k \in S : f[k] \in Nat

\* A part of a finite set, without one of its elements.
LEMMA Smaller ==
    ASSUME NEW S, IsFiniteSet(S), NEW T \in SUBSET S, NEW x \in T
    PROVE  /\ T \ {x} \in SUBSET S
           /\ Cardinality(T) \in Nat /\ Cardinality(T \ {x}) \in Nat
           /\ Cardinality(T \ {x}) = Cardinality(T) - 1
<1>1. IsFiniteSet(T)
  BY FS_Subset
<1>2. IsFiniteSet(T \ {x}) /\ Cardinality(T \ {x}) = Cardinality(T) - 1
  BY <1>1, FS_RemoveElement
<1> QED BY <1>1, <1>2, FS_CardinalityType

\* They exist.
LEMMA PartialExist ==
    ASSUME NEW f, NEW S, Numbers(f, S)
    PROVE  \A n \in Nat : \E g : Partial(g, f, S, n)
<1> DEFINE P == {n \in Nat : \E g : Partial(g, f, S, n)}
<1>0. IsFiniteSet(S) /\ \A T \in SUBSET S : IsFiniteSet(T) /\ Cardinality(T) \in Nat
  BY FS_Subset, FS_CardinalityType DEF Numbers
<1>1. 0 \in P
  <2> DEFINE g == [T \in Upto(S, 0) |-> 0]
  <2>1. \A T \in Upto(S, 0) : T = {}
    BY <1>0, FS_EmptySet DEF Upto
  <2>2. Partial(g, f, S, 0)
    BY <2>1 DEF Partial, Recurs
  <2> QED BY <2>2
<1>2. ASSUME NEW n \in Nat, n \in P PROVE n + 1 \in P
  <2>1. PICK h : Partial(h, f, S, n)
    BY <1>2
  <2> DEFINE g == [T \in Upto(S, n + 1) |-> IF T = {} THEN 0 ELSE f[Pick(T)] + h[T \ {Pick(T)}]]
  <2>2. ASSUME NEW T \in Upto(S, n + 1), T # {}
        PROVE  /\ Pick(T) \in S /\ T \ {Pick(T)} \in Upto(S, n)
    <3>1. T \in SUBSET S /\ Pick(T) \in T
      BY <2>2 DEF Pick, Upto
    <3>2. /\ T \ {Pick(T)} \in SUBSET S /\ Cardinality(T) \in Nat
          /\ Cardinality(T \ {Pick(T)}) = Cardinality(T) - 1
      BY <1>0, <3>1, Smaller
    <3>3. Cardinality(T) <= n + 1
      BY DEF Upto
    <3>4. Cardinality(T) - 1 <= n
      BY <3>2, <3>3
    <3> QED BY <3>1, <3>2, <3>4 DEF Upto
  <2>3. g \in [Upto(S, n + 1) -> Nat]
    <3> SUFFICES ASSUME NEW T \in Upto(S, n + 1), T # {}
                 PROVE  f[Pick(T)] + h[T \ {Pick(T)}] \in Nat
      OBVIOUS
    <3>1. f[Pick(T)] \in Nat /\ h[T \ {Pick(T)}] \in Nat
      BY <2>1, <2>2 DEF Partial, Numbers
    <3> QED BY <3>1
  <2>4. \A T \in Upto(S, n) : T \in Upto(S, n + 1)
    BY <1>0 DEF Upto
  <2>5. \A T \in Upto(S, n) : g[T] = h[T]
    BY <2>1, <2>4 DEF Partial, Recurs
  <2>6. ASSUME NEW T \in Upto(S, n + 1) PROVE Recurs(g, f, T)
    <3>1. CASE T = {}
      BY <3>1 DEF Recurs
    <3>2. CASE T # {}
      <4>1. g[T] = f[Pick(T)] + h[T \ {Pick(T)}]
        BY <3>2
      <4>2. g[T \ {Pick(T)}] = h[T \ {Pick(T)}]
        BY <2>2, <2>5, <3>2
      <4> HIDE DEF g
      <4> QED BY <3>2, <4>1, <4>2 DEF Recurs
    <3> QED BY <3>1, <3>2
  <2>7. Partial(g, f, S, n + 1)
    BY <2>3, <2>6 DEF Partial
  <2> QED BY <2>7
<1>3. P = Nat
  <2> HIDE DEF P
  <2>1. P \in SUBSET Nat
    BY DEF P
  <2> QED BY <1>1, <1>2, <2>1, SetInduction
<1> QED BY <1>3

\* The sum of f over S is the largest of them.
LEMMA SumIs ==
    ASSUME NEW f, NEW S, Numbers(f, S)
    PROVE  \E g : /\ g \in [SUBSET S -> Nat]
                  /\ \A T \in SUBSET S : Recurs(g, f, T)
                  /\ SumOver(f, S) = g[S]
<1> DEFINE IsIter(g) == g = [T \in SUBSET S |-> IF T = {} THEN 0 ELSE f[Pick(T)] + g[T \ {Pick(T)}]]
           G == CHOOSE g : IsIter(g)
           n == Cardinality(S)
<1>1. n \in Nat /\ Upto(S, n) = SUBSET S
  BY FS_Subset, FS_CardinalityType DEF Numbers, Upto
<1> HIDE DEF n
<1>2. PICK h : Partial(h, f, S, n)
  BY <1>1, PartialExist
<1>3. h = [T \in SUBSET S |-> h[T]]
  BY <1>1, <1>2 DEF Partial
<1>4. IsIter(h)
  BY <1>1, <1>2, <1>3 DEF Partial, Recurs
<1>5. IsIter(G)
  BY <1>4
<1>6. SumOver(f, S) = G[S]
  BY DEF SumOver, MapThenSumSet, MapThenFoldSet, Pick
<1> HIDE DEF G
<1>7. \A T \in SUBSET S : Recurs(G, f, T)
  BY <1>5 DEF Recurs
<1>8. \A T \in SUBSET S : G[T] \in Nat
  <2> DEFINE P == {m \in Nat : \A T \in SUBSET S : Cardinality(T) <= m => G[T] \in Nat}
  <2>1. 0 \in P
    <3> SUFFICES ASSUME NEW T \in SUBSET S, Cardinality(T) <= 0 PROVE G[T] \in Nat
      BY Zenon
    <3>1. IsFiniteSet(T) /\ Cardinality(T) \in Nat
      BY FS_Subset, FS_CardinalityType DEF Numbers
    <3>2. T = {}
      BY <3>1, FS_EmptySet
    <3>3. Recurs(G, f, T)
      BY <1>7
    <3>4. G[T] = 0
      BY <3>2, <3>3 DEF Recurs
    <3> QED BY <3>4
  <2>2. ASSUME NEW m \in Nat, m \in P PROVE m + 1 \in P
    <3> SUFFICES ASSUME NEW T \in SUBSET S, Cardinality(T) <= m + 1 PROVE G[T] \in Nat
      OBVIOUS
    <3>0. G[T] = IF T = {} THEN 0 ELSE f[Pick(T)] + G[T \ {Pick(T)}]
      BY <1>7 DEF Recurs
    <3>a. CASE T = {}
      BY <3>0, <3>a
    <3>b. CASE T # {}
      <4>1. Pick(T) \in T
        BY <3>b DEF Pick
      <4>2. /\ T \ {Pick(T)} \in SUBSET S /\ Cardinality(T) \in Nat
            /\ Cardinality(T \ {Pick(T)}) = Cardinality(T) - 1
        BY <4>1, Smaller DEF Numbers
      <4>3. Cardinality(T \ {Pick(T)}) <= m
        BY <4>2
      <4>4. G[T \ {Pick(T)}] \in Nat
        BY <2>2, <4>2, <4>3
      <4>5. f[Pick(T)] \in Nat
        BY <4>1 DEF Numbers
      <4> QED BY <3>0, <3>b, <4>4, <4>5
    <3> QED BY <3>a, <3>b
  <2>3. P = Nat
    <3> HIDE DEF P
    <3>1. P \in SUBSET Nat
      BY DEF P
    <3> QED BY <2>1, <2>2, <3>1, SetInduction
  <2> SUFFICES ASSUME NEW T \in SUBSET S PROVE G[T] \in Nat
    OBVIOUS
  <2>4. Cardinality(T) \in Nat
    BY FS_Subset, FS_CardinalityType DEF Numbers
  <2>5. Cardinality(T) \in P
    BY <2>3, <2>4
  <2> QED BY <2>4, <2>5
<1>9. G \in [SUBSET S -> Nat]
  BY <1>5, <1>8
<1> QED BY <1>6, <1>7, <1>9

\* A sum that does not depend on the element that is added first.
Adds(g, f, S) ==
    /\ g \in [SUBSET S -> Nat] /\ g[{}] = 0
    /\ \A T \in SUBSET S : \A x \in T : g[T] = f[x] + g[T \ {x}]

\* The sum of f over S is one.
LEMMA AnyOrder ==
    ASSUME NEW f, NEW S, Numbers(f, S)
    PROVE  \E g : Adds(g, f, S) /\ SumOver(f, S) = g[S]
<1>1. PICK g : /\ g \in [SUBSET S -> Nat]
               /\ \A T \in SUBSET S : Recurs(g, f, T)
               /\ SumOver(f, S) = g[S]
  BY SumIs
<1>2. IsFiniteSet(S) /\ \A k \in S : f[k] \in Nat
  BY DEF Numbers
<1>3. \A T \in SUBSET S : Cardinality(T) \in Nat
  BY <1>2, FS_Subset, FS_CardinalityType
<1> DEFINE Any(T) == \A x \in T : g[T] = f[x] + g[T \ {x}]
           P == {m \in Nat : \A T \in SUBSET S : Cardinality(T) <= m => Any(T)}
<1>4. 0 \in P
  <2> SUFFICES ASSUME NEW T \in SUBSET S, Cardinality(T) <= 0 PROVE T = {}
    OBVIOUS
  <2>1. Cardinality(T) = 0 /\ IsFiniteSet(T)
    BY <1>2, <1>3, FS_Subset
  <2> QED BY <2>1, FS_EmptySet
<1>5. ASSUME NEW m \in Nat, m \in P PROVE m + 1 \in P
  <2> SUFFICES ASSUME NEW T \in SUBSET S, Cardinality(T) <= m + 1, NEW x \in T
               PROVE  g[T] = f[x] + g[T \ {x}]
    OBVIOUS
  <2> DEFINE c == Pick(T)
  <2>1. c \in T
    BY DEF Pick
  <2> HIDE DEF c
  <2>2. g[T] = f[c] + g[T \ {c}]
    <3>1. Recurs(g, f, T)
      BY <1>1
    <3> QED BY <3>1 DEF Recurs, c
  <2>3. CASE x = c
    BY <2>2, <2>3
  <2>4. CASE x # c
    <3>1. /\ T \ {c} \in SUBSET S /\ Cardinality(T \ {c}) = Cardinality(T) - 1
          /\ T \ {x} \in SUBSET S /\ Cardinality(T \ {x}) = Cardinality(T) - 1
      BY <1>2, <2>1, Smaller
    <3>2. Cardinality(T \ {c}) <= m /\ Cardinality(T \ {x}) <= m
      BY <1>3, <3>1
    <3>3. Any(T \ {c}) /\ Any(T \ {x})
      BY <1>5, <3>1, <3>2
    <3>4. g[T \ {c}] = f[x] + g[(T \ {c}) \ {x}]
      BY <2>4, <3>3
    <3>5. g[T \ {x}] = f[c] + g[(T \ {x}) \ {c}]
      BY <2>1, <2>4, <3>3
    <3>6. (T \ {c}) \ {x} = (T \ {x}) \ {c} /\ (T \ {x}) \ {c} \in SUBSET S
      OBVIOUS
    <3> DEFINE a == f[x]  b == f[c]  d == g[(T \ {x}) \ {c}]
    <3>7. a \in Nat /\ b \in Nat /\ d \in Nat
      BY <1>1, <1>2, <2>1, <3>6
    <3>8. g[T \ {c}] = a + d /\ g[T \ {x}] = b + d /\ g[T] = b + g[T \ {c}]
      BY <2>2, <3>4, <3>5, <3>6
    <3> HIDE DEF a, b, d
    <3>9. g[T] = a + g[T \ {x}]
      BY <3>7, <3>8
    <3> QED BY <3>9 DEF a
  <2> QED BY <2>3, <2>4
<1>6. P = Nat
  <2> HIDE DEF P
  <2>1. P \in SUBSET Nat
    BY DEF P
  <2> QED BY <1>4, <1>5, <2>1, SetInduction
<1>7. ASSUME NEW T \in SUBSET S PROVE Any(T)
  <2>1. Cardinality(T) \in P /\ Cardinality(T) <= Cardinality(T)
    BY <1>3, <1>6
  <2> QED BY <2>1
<1>8. g[{}] = 0
  <2>1. Recurs(g, f, {})
    BY <1>1
  <2> QED BY <2>1 DEF Recurs
<1> QED BY <1>1, <1>7, <1>8 DEF Adds

\* Two sums of the same numbers are the same.
LEMMA SumsAgree ==
    ASSUME NEW f, NEW S, NEW g, Adds(g, f, S), NEW e, NEW R, NEW h, Adds(h, e, R),
           NEW U, IsFiniteSet(U), U \subseteq S, U \subseteq R, \A k \in U : f[k] = e[k]
    PROVE  g[U] = h[U]
<1> DEFINE P == {m \in Nat : \A T \in SUBSET U : Cardinality(T) <= m => g[T] = h[T]}
<1>1. \A T \in SUBSET U : Cardinality(T) \in Nat /\ IsFiniteSet(T)
  BY FS_Subset, FS_CardinalityType
<1>2. 0 \in P
  <2> SUFFICES ASSUME NEW T \in SUBSET U, Cardinality(T) <= 0 PROVE g[T] = h[T]
    OBVIOUS
  <2>1. Cardinality(T) = 0 /\ IsFiniteSet(T)
    BY <1>1
  <2>2. T = {}
    BY <2>1, FS_EmptySet
  <2> QED BY <2>2 DEF Adds
<1>3. ASSUME NEW m \in Nat, m \in P PROVE m + 1 \in P
  <2> SUFFICES ASSUME NEW T \in SUBSET U, Cardinality(T) <= m + 1 PROVE g[T] = h[T]
    OBVIOUS
  <2>1. CASE T = {}
    BY <2>1 DEF Adds
  <2>2. CASE T # {}
    <3>1. PICK x \in T : TRUE
      BY <2>2
    <3>2. T \ {x} \in SUBSET U /\ Cardinality(T \ {x}) = Cardinality(T) - 1
      BY Smaller
    <3>3. Cardinality(T \ {x}) <= m
      BY <1>1, <3>2
    <3>4. g[T \ {x}] = h[T \ {x}]
      BY <1>3, <3>2, <3>3
    <3>5. g[T] = f[x] + g[T \ {x}] /\ h[T] = e[x] + h[T \ {x}]
      BY DEF Adds
    <3>6. f[x] = e[x]
      OBVIOUS
    <3> QED BY <3>4, <3>5, <3>6
  <2> QED BY <2>1, <2>2
<1>4. P = Nat
  <2> HIDE DEF P
  <2>1. P \in SUBSET Nat
    BY DEF P
  <2> QED BY <1>2, <1>3, <2>1, SetInduction
<1>5. Cardinality(U) \in P /\ Cardinality(U) <= Cardinality(U)
  BY <1>1, <1>4
<1> QED BY <1>5

\* Nothing adds up to nothing.
LEMMA SumEmpty ==
    ASSUME NEW f
    PROVE  SumOver(f, {}) = 0
<1>1. Numbers(f, {})
  BY FS_EmptySet DEF Numbers
<1> QED BY <1>1, AnyOrder DEF Adds

\* A sum is a number.
LEMMA SumNat ==
    ASSUME NEW f, NEW S, Numbers(f, S)
    PROVE  SumOver(f, S) \in Nat
<1>1. PICK g : Adds(g, f, S) /\ SumOver(f, S) = g[S]
  BY AnyOrder
<1>2. g \in [SUBSET S -> Nat] /\ S \in SUBSET S
  BY <1>1 DEF Adds
<1> QED BY <1>1, <1>2

\* It depends on the numbers only.
LEMMA SumSame ==
    ASSUME NEW f, NEW g, NEW S, Numbers(f, S), \A k \in S : f[k] = g[k]
    PROVE  SumOver(f, S) = SumOver(g, S)
<1>1. Numbers(g, S) /\ IsFiniteSet(S)
  BY DEF Numbers
<1>2. PICK a : Adds(a, f, S) /\ SumOver(f, S) = a[S]
  BY AnyOrder
<1>3. PICK b : Adds(b, g, S) /\ SumOver(g, S) = b[S]
  BY <1>1, AnyOrder
<1>4. a[S] = b[S]
  BY <1>1, <1>2, <1>3, SumsAgree
<1> QED BY <1>2, <1>3, <1>4

\* One of the numbers and the others.
LEMMA SumApart ==
    ASSUME NEW f, NEW S, Numbers(f, S), NEW x \in S
    PROVE  Numbers(f, S \ {x}) /\ SumOver(f, S) = f[x] + SumOver(f, S \ {x})
<1>1. Numbers(f, S \ {x}) /\ IsFiniteSet(S \ {x})
  BY FS_Subset DEF Numbers
<1>2. PICK a : Adds(a, f, S) /\ SumOver(f, S) = a[S]
  BY AnyOrder
<1>3. PICK b : Adds(b, f, S \ {x}) /\ SumOver(f, S \ {x}) = b[S \ {x}]
  BY <1>1, AnyOrder
<1>4. a[S \ {x}] = b[S \ {x}]
  <2> DEFINE U == S \ {x}
  <2>1. IsFiniteSet(U) /\ U \subseteq S /\ Adds(b, f, U)
    BY <1>1, <1>3
  <2> HIDE DEF U
  <2>2. a[U] = b[U]
    BY <1>2, <2>1, SumsAgree
  <2> QED BY <2>2 DEF U
<1>5. a[S] = f[x] + a[S \ {x}]
  BY <1>2 DEF Adds
<1> QED BY <1>1, <1>2, <1>3, <1>4, <1>5

\* The numbers g at R are the numbers f at S, one place higher.
Above(g, R, f, S) ==
    /\ S \in SUBSET Nat /\ IsFiniteSet(S) /\ R = {i + 1 : i \in S}
    /\ \A i \in S : f[i] \in Nat /\ g[i + 1] = f[i]

\* Then they have the same sum.
LEMMA SumShift ==
    ASSUME NEW f, NEW g, NEW S, NEW R, Above(g, R, f, S)
    PROVE  Numbers(g, R) /\ SumOver(g, R) = SumOver(f, S)
<1>0. /\ S \in SUBSET Nat /\ IsFiniteSet(S) /\ R = {i + 1 : i \in S}
      /\ \A i \in S : f[i] \in Nat /\ g[i + 1] = f[i]
  BY DEF Above
<1> DEFINE Up(T) == {i + 1 : i \in T}
           P == {m \in Nat : \A T \in SUBSET S : Cardinality(T) = m =>
                    Numbers(g, Up(T)) /\ SumOver(g, Up(T)) = SumOver(f, T)}
<1>1. \A T \in SUBSET S : Cardinality(T) \in Nat /\ IsFiniteSet(T)
  BY <1>0, FS_Subset, FS_CardinalityType
<1>2. 0 \in P
  <2> SUFFICES ASSUME NEW T \in SUBSET S, Cardinality(T) = 0
               PROVE  Numbers(g, Up(T)) /\ SumOver(g, Up(T)) = SumOver(f, T)
    OBVIOUS
  <2>1. IsFiniteSet(T)
    BY <1>1
  <2>2. T = {}
    BY <2>1, FS_EmptySet
  <2>3. Up(T) = {}
    BY <2>2
  <2>4. Numbers(g, {})
    BY FS_EmptySet DEF Numbers
  <2> HIDE DEF Up
  <2> QED BY <2>2, <2>3, <2>4, SumEmpty
<1>3. ASSUME NEW m \in Nat, m \in P PROVE m + 1 \in P
  <2> SUFFICES ASSUME NEW T \in SUBSET S, Cardinality(T) = m + 1
               PROVE  Numbers(g, Up(T)) /\ SumOver(g, Up(T)) = SumOver(f, T)
    OBVIOUS
  <2>1. T # {}
    BY FS_EmptySet
  <2>2. PICK x \in T : TRUE
    BY <2>1
  <2> DEFINE V == T \ {x}
  <2>3. V \in SUBSET S /\ Cardinality(V) = m
    BY <1>0, <1>1, Smaller
  <2>4. Numbers(g, Up(V)) /\ SumOver(g, Up(V)) = SumOver(f, V)
    BY <1>3, <2>3
  <2>5. Up(T) = Up(V) \cup {x + 1} /\ Up(T) \ {x + 1} = Up(V) /\ x + 1 \in Up(T)
    BY <1>0
  <2>6. g[x + 1] = f[x] /\ f[x] \in Nat
    BY <1>0
  <2>7. Numbers(g, Up(T))
    <3> HIDE DEF Up, V
    <3>1. IsFiniteSet(Up(T))
      BY <2>4, <2>5, FS_AddElement DEF Numbers
    <3>2. \A k \in Up(T) : g[k] \in Nat
      BY <2>4, <2>5, <2>6 DEF Numbers
    <3> QED BY <3>1, <3>2 DEF Numbers
  <2>8. SumOver(g, Up(T)) = g[x + 1] + SumOver(g, Up(V))
    <3> HIDE DEF Up, V
    <3> QED BY <2>5, <2>7, SumApart
  <2>9. Numbers(f, T)
    BY <1>0, <1>1 DEF Numbers
  <2>10. SumOver(f, T) = f[x] + SumOver(f, V)
    BY <2>9, SumApart
  <2> HIDE DEF Up, V
  <2> QED BY <2>4, <2>6, <2>7, <2>8, <2>10
<1>4. P = Nat
  <2> HIDE DEF P
  <2>1. P \in SUBSET Nat
    BY DEF P
  <2> QED BY <1>2, <1>3, <2>1, SetInduction
<1>5. Cardinality(S) \in P
  BY <1>1, <1>4
<1>6. Numbers(g, Up(S)) /\ SumOver(g, Up(S)) = SumOver(f, S)
  BY <1>5
<1> QED BY <1>0, <1>6

\* Equal numbers, from the first place to the n-th.
LEMMA SumEqual ==
    ASSUME NEW f, NEW c \in Nat, NEW n \in Nat, \A k \in 1..n : f[k] = c
    PROVE  Numbers(f, 1..n) /\ SumOver(f, 1..n) = n * c
<1> DEFINE P == {m \in Nat : m <= n => SumOver(f, 1..m) = m * c}
<1>1. \A m \in Nat : m <= n => Numbers(f, 1..m)
  BY FS_Interval DEF Numbers
<1>2. 0 \in P
  <2>1. 1..0 = {} /\ 0 * c = 0
    OBVIOUS
  <2>2. SumOver(f, 1..0) = 0
    BY <2>1, SumEmpty
  <2> QED BY <2>1, <2>2
<1>3. ASSUME NEW m \in Nat, m \in P PROVE m + 1 \in P
  <2> SUFFICES ASSUME m + 1 <= n PROVE SumOver(f, 1..m + 1) = (m + 1) * c
    OBVIOUS
  <2>1. Numbers(f, 1..m + 1) /\ m + 1 \in 1..m + 1 /\ (1..m + 1) \ {m + 1} = 1..m
    BY <1>1
  <2>2. SumOver(f, 1..m + 1) = f[m + 1] + SumOver(f, 1..m)
    BY <2>1, SumApart
  <2>3. SumOver(f, 1..m) = m * c
    BY <1>3
  <2>4. f[m + 1] = c
    OBVIOUS
  <2>5. \A a, b \in Nat : (a + 1) * b = b + a * b
    OBVIOUS
  <2> QED BY <2>2, <2>3, <2>4, <2>5
<1>4. P = Nat
  <2> HIDE DEF P
  <2>1. P \in SUBSET Nat
    BY DEF P
  <2> QED BY <1>2, <1>3, <2>1, SetInduction
<1>5. n \in P
  BY <1>4
<1> QED BY <1>1, <1>5

\* One number changes, and the sum by as much.
LEMMA SumChange ==
    ASSUME NEW f, NEW g, NEW S, Numbers(f, S), NEW x \in S, g[x] \in Nat,
           \A k \in S : k # x => g[k] = f[k]
    PROVE  SumOver(g, S) \in Nat /\ SumOver(g, S) + f[x] = SumOver(f, S) + g[x]
<1>1. Numbers(g, S)
  BY DEF Numbers
<1>2. /\ SumOver(f, S) = f[x] + SumOver(f, S \ {x}) /\ Numbers(f, S \ {x})
      /\ SumOver(g, S) = g[x] + SumOver(g, S \ {x})
  BY <1>1, SumApart
<1>3. SumOver(f, S \ {x}) = SumOver(g, S \ {x})
  BY <1>2, SumSame
<1>4. SumOver(f, S \ {x}) \in Nat /\ f[x] \in Nat
  BY <1>2, SumNat DEF Numbers
<1>5. SumOver(g, S) \in Nat
  BY <1>1, SumNat
<1> QED BY <1>2, <1>3, <1>4, <1>5

-----------------------------------------------------------------------------
(* The account of the connections. *)

\* The calls that Planned(h) counts, and what the account adds up.
Open(h) == {i \in 1..Len(plan) : plan[i].host = h /\ (i > 1 \/ adder = "idle")}
Nums(h) == [i \in Open(h) |-> plan[i].num]
Fails(h) == [k \in Conts |-> failures[k][h]]
Held(h) == [k \in Conts |-> hosts[k][h] + taken[k][h]]

\* A connector that is not connecting has an empty table of its own: the swap
\* overwrites nothing.
TakenInv == \A k \in Conts : cpc[k] # "connect" => taken[k] = NoHosts

AccountInv == Inv /\ TakenInv /\ EachConnectionOnce

\* The account of one host.
LEMMA AccountIs ==
    ASSUME NEW h \in Hosts
    PROVE  /\ Planned(h) = SumOver(Nums(h), Open(h))
           /\ Attempted(h) = handed[h] + SumOver(Fails(h), Conts)
BY DEF Planned, Attempted, Nums, Open, Fails

\* Its parts are numbers.
LEMMA AccountNumbers ==
    ASSUME TypeOK, NEW h \in Hosts
    PROVE  /\ Numbers(Nums(h), Open(h)) /\ Numbers(Fails(h), Conts) /\ Numbers(Held(h), Conts)
           /\ Planned(h) \in Nat /\ SumOver(Fails(h), Conts) \in Nat
           /\ SumOver(Held(h), Conts) \in Nat /\ handed[h] \in Nat /\ asked[h] \in Nat
<1>1. plan \in Seq(Requests) /\ Len(plan) \in Nat
  BY LenProperties DEF TypeOK
<1>2. \A i \in 1..Len(plan) : plan[i] \in Requests
  BY <1>1, ElementOfSeq
<1>3. IsFiniteSet(1..Len(plan)) /\ IsFiniteSet(Conts)
  BY <1>1, NAssumption, FS_Interval DEF Conts
<1>4. IsFiniteSet(Open(h))
  BY <1>3, FS_Subset DEF Open
<1>5. \A i \in Open(h) : Nums(h)[i] \in Nat
  BY <1>2 DEF Open, Nums, Requests
<1>6. \A k \in Conts : Fails(h)[k] \in Nat
  BY DEF Fails, TypeOK
<1>7. \A k \in Conts : Held(h)[k] \in Nat
  <2> SUFFICES ASSUME NEW k \in Conts PROVE hosts[k][h] + taken[k][h] \in Nat
    BY DEF Held
  <2>1. hosts[k][h] \in Nat /\ taken[k][h] \in Nat
    BY DEF TypeOK
  <2> QED BY <2>1
<1>8. Numbers(Nums(h), Open(h)) /\ Numbers(Fails(h), Conts) /\ Numbers(Held(h), Conts)
  BY <1>3, <1>4, <1>5, <1>6, <1>7 DEF Numbers
<1>9. Planned(h) \in Nat
  BY <1>8, AccountIs, SumNat
<1> QED BY <1>8, <1>9, SumNat DEF TypeOK

\* A call of connector::add that has returned counted nothing.
LEMMA TailPlanned ==
    ASSUME TypeOK, NEW h \in Hosts, plan # <<>>, plan' = Tail(plan), adder' = "idle",
           adder # "idle" \/ Head(plan).num = 0
    PROVE  Planned(h)' = Planned(h)
<1> DEFINE p == plan  q == Tail(plan)
           S == {i \in 1..Len(q) : q[i].host = h}
           R == {i \in 1..Len(p) : p[i].host = h /\ i > 1}
           f == [i \in S |-> q[i].num]
           g == Nums(h)
<1>1. p \in Seq(Requests) /\ p # <<>> /\ Len(p) \in Nat
  BY LenProperties DEF TypeOK
<1>2. /\ q \in Seq(Requests) /\ Len(q) = Len(p) - 1 /\ Len(q) \in Nat
      /\ \A i \in 1..Len(q) : q[i] = p[i + 1]
  BY <1>1, HeadTailProperties, LenProperties
<1>3. Planned(h)' = SumOver(f, S)
  <2>1. Open(h)' = S
    BY <1>2 DEF Open
  <2>2. Nums(h)' = f
    BY <2>1 DEF Nums
  <2> HIDE DEF f, S
  <2>3. Planned(h)' = SumOver(Nums(h)', Open(h)')
    BY DEF Planned, Nums, Open
  <2> QED BY <2>1, <2>2, <2>3
<1>4. S \in SUBSET Nat /\ IsFiniteSet(S) /\ R \in SUBSET Nat
  <2>1. IsFiniteSet(1..Len(q))
    BY <1>2, FS_Interval
  <2> QED BY <2>1, FS_Subset
<1>5. R = {i + 1 : i \in S}
  <2>1. \A i \in S : i + 1 \in R
    BY <1>1, <1>2
  <2>2. \A j \in R : j - 1 \in S /\ j = (j - 1) + 1
    BY <1>1, <1>2
  <2> HIDE DEF R, S
  <2> QED BY <2>1, <2>2
<1>6. R \subseteq Open(h)
  BY DEF Open
<1>7. \A i \in S : i + 1 \in R /\ f[i] = q[i].num /\ q[i] = p[i + 1] /\ q[i] \in Requests
  BY <1>2, <1>5, ElementOfSeq
<1>8. \A i \in S : f[i] \in Nat /\ g[i + 1] = f[i]
  BY <1>6, <1>7 DEF Nums, Requests
<1> HIDE DEF f, S, g
<1>9. Numbers(g, R) /\ SumOver(g, R) = SumOver(f, S)
  <2>1. Above(g, R, f, S)
    BY <1>4, <1>5, <1>8 DEF Above
  <2> HIDE DEF R
  <2> QED BY <2>1, SumShift
<1>10. SumOver(g, Open(h)) = SumOver(g, R)
  <2>1. Numbers(g, Open(h))
    BY AccountNumbers DEF g
  <2>2. CASE 1 \in Open(h)
    <3>1. Open(h) \ {1} = R
      BY <1>1 DEF Open
    <3>2. g[1] = 0
      <4>1. adder = "idle" /\ Head(p).num = 0 /\ Head(p) = p[1]
        BY <1>1, <2>2, HeadTailProperties DEF Open
      <4> QED BY <2>2, <4>1 DEF g, Nums
    <3> HIDE DEF R
    <3>3. SumOver(g, Open(h)) = g[1] + SumOver(g, Open(h) \ {1})
      BY <2>1, <2>2, SumApart
    <3>4. SumOver(g, R) \in Nat
      BY <1>9, SumNat
    <3>5. SumOver(g, Open(h)) = 0 + SumOver(g, R)
      BY <3>1, <3>2, <3>3
    <3> QED BY <3>4, <3>5
  <2>3. CASE ~(1 \in Open(h))
    <3>1. Open(h) = R
      BY <1>1, <2>3 DEF Open
    <3> QED BY <3>1
  <2> QED BY <2>2, <2>3
<1> QED BY <1>3, <1>9, <1>10, AccountIs DEF g

\* The division of tcp_client::add adds up to the count.
LEMMA SplitPlanned ==
    ASSUME NEW h \in Hosts, NEW g \in Hosts, NEW t \in Nat, plan' = Split(g, t), adder' = "idle"
    PROVE  Planned(h)' = IF h = g THEN t ELSE 0
<1> DEFINE S == Split(g, t)  U == {i \in 1..Len(S) : S[i].host = h}
           f == [i \in U |-> S[i].num]
<1> USE NAssumption
<1>1. Planned(h)' = SumOver(f, U)
  <2>1. Open(h)' = U
    BY DEF Open
  <2>2. Nums(h)' = f
    BY <2>1 DEF Nums
  <2> HIDE DEF f, U
  <2>3. Planned(h)' = SumOver(Nums(h)', Open(h)')
    BY DEF Planned, Nums, Open
  <2> QED BY <2>1, <2>2, <2>3
<1>2. t \div N \in Nat /\ t % N \in Nat /\ t = N * (t \div N) + (t % N)
  OBVIOUS
<1>3. CASE N = 1
  <2>1. S = <<[cont |-> 1, host |-> g, num |-> t]>> /\ Len(S) = 1
    BY <1>3 DEF Split
  <2>2. CASE h = g
    <3>1. U = 1..1 /\ \A k \in 1..1 : f[k] = t
      BY <2>1, <2>2
    <3> HIDE DEF f, U
    <3>2. SumOver(f, 1..1) = 1 * t
      BY <3>1, SumEqual
    <3> QED BY <1>1, <2>2, <3>1, <3>2
  <2>3. CASE h # g
    <3>1. U = {}
      BY <2>1, <2>3
    <3> HIDE DEF f, U
    <3> QED BY <1>1, <2>3, <3>1, SumEmpty
  <2> QED BY <2>2, <2>3
<1>4. CASE N # 1
  <2> DEFINE A == [k \in Conts |-> [cont |-> k, host |-> g, num |-> t \div N]]
             r == [cont |-> 1, host |-> g, num |-> t % N]
  <2>1. S = Append(A, r)
    BY <1>4 DEF Split
  <2>2. A \in Seq(Requests) /\ r \in Requests /\ Len(A) = N
    <3>1. A \in [1..N -> Requests]
      BY <1>2 DEF Conts, Requests
    <3>2. r \in Requests
      BY <1>2 DEF Conts, Requests
    <3> QED BY <3>1, <3>2
  <2>3. /\ Len(S) = N + 1 /\ S[N + 1] = r /\ \A i \in 1..N : S[i] = A[i]
    BY <2>1, <2>2, AppendProperties
  <2>4. \A i \in 1..N : S[i].host = g /\ S[i].num = t \div N
    <3> SUFFICES ASSUME NEW i \in 1..N PROVE S[i].host = g /\ S[i].num = t \div N
      OBVIOUS
    <3>1. S[i] = A[i] /\ i \in Conts
      BY <2>3 DEF Conts
    <3>2. A[i] = [cont |-> i, host |-> g, num |-> t \div N]
      BY <3>1
    <3> HIDE DEF S, A
    <3> QED BY <3>1, <3>2
  <2>5. S[N + 1].host = g /\ S[N + 1].num = t % N
    BY <2>3
  <2>6. \A i \in 1..N + 1 : i \in 1..N \/ i = N + 1
    OBVIOUS
  <2> HIDE DEF A, r, S
  <2>7. CASE h = g
    <3>1. U = 1..N + 1
      BY <2>3, <2>4, <2>5, <2>6, <2>7
    <3>2. f[N + 1] = t % N /\ \A i \in 1..N : f[i] = t \div N
      BY <2>4, <2>5, <3>1
    <3> HIDE DEF f, U
    <3>3. Numbers(f, 1..N) /\ SumOver(f, 1..N) = N * (t \div N)
      BY <1>2, <3>2, SumEqual
    <3>4. Numbers(f, 1..N + 1)
      <4>1. IsFiniteSet(1..N + 1)
        BY FS_Interval
      <4> QED BY <1>2, <2>6, <3>2, <4>1 DEF Numbers
    <3>5. N + 1 \in 1..N + 1 /\ (1..N + 1) \ {N + 1} = 1..N
      OBVIOUS
    <3>6. SumOver(f, 1..N + 1) = f[N + 1] + SumOver(f, 1..N)
      BY <3>4, <3>5, SumApart
    <3>7. SumOver(f, U) = (t % N) + N * (t \div N)
      BY <3>1, <3>2, <3>3, <3>6
    <3>8. N * (t \div N) \in Nat
      BY <1>2
    <3> QED BY <1>1, <1>2, <2>7, <3>7, <3>8
  <2>8. CASE h # g
    <3>1. U = {}
      BY <2>3, <2>4, <2>5, <2>6, <2>8
    <3> HIDE DEF f, U
    <3> QED BY <1>1, <2>8, <3>1, SumEmpty
  <2> QED BY <2>7, <2>8
<1> QED BY <1>3, <1>4

\* A step that leaves the plan, and whether its first call has stored, alone.
LEMMA SamePlanned ==
    ASSUME NEW h \in Hosts, plan' = plan, (adder' = "idle") = (adder = "idle")
    PROVE  Planned(h)' = Planned(h)
<1>1. Open(h)' = Open(h)
  BY DEF Open
<1>2. Nums(h)' = Nums(h)
  BY <1>1 DEF Nums
<1>3. Planned(h)' = SumOver(Nums(h)', Open(h)')
  BY DEF Planned, Nums, Open
<1> QED BY <1>1, <1>2, <1>3, AccountIs

\* What the call being made has of the connections to h.
Part(h) == IF Head(plan).host = h THEN Head(plan).num ELSE 0

\* Storing a task takes it out of the plan.
LEMMA TaskPlanned ==
    ASSUME TypeOK, NEW h \in Hosts, AddTask
    PROVE  Planned(h)' \in Nat /\ Planned(h) = Part(h) + Planned(h)'
<1> DEFINE O == Open(h)  V == O \ {1}  f == Nums(h)
<1>1. /\ plan # <<>> /\ plan' = plan /\ adder = "idle" /\ adder' = "byte"
      /\ plan \in Seq(Requests) /\ Len(plan) \in Nat
  BY LenProperties DEF AddTask, TypeOK
<1>2. Open(h)' = V
  BY <1>1 DEF Open
<1>3. /\ Nums(h)' = [i \in V |-> plan[i].num] /\ \A i \in V : f[i] = Nums(h)'[i]
  BY <1>1, <1>2 DEF Nums
<1>4. Planned(h)' = SumOver(Nums(h)', V)
  <2>1. Planned(h)' = SumOver(Nums(h)', Open(h)')
    BY DEF Planned, Nums, Open
  <2> QED BY <1>2, <2>1
<1>5. Numbers(f, O) /\ Planned(h) = SumOver(f, O)
  BY AccountNumbers, AccountIs
<1>6. 1 \in 1..Len(plan) /\ Head(plan) = plan[1]
  BY <1>1, EmptySeq, HeadTailProperties
<1>7. 1 \in O => Head(plan).host = h /\ f[1] = Head(plan).num
  BY <1>6 DEF Open, Nums
<1>8. 1 \notin O => Head(plan).host # h
  BY <1>1, <1>6 DEF Open
<1>9. Numbers(f, V) /\ SumOver(f, O) = Part(h) + SumOver(f, V) /\ SumOver(f, V) \in Nat
  <2> HIDE DEF f, O
  <2>1. CASE 1 \in O
    <3>1. Numbers(f, V) /\ SumOver(f, O) = f[1] + SumOver(f, V)
      BY <1>5, <2>1, SumApart
    <3>2. SumOver(f, V) \in Nat
      BY <3>1, SumNat
    <3> QED BY <1>7, <2>1, <3>1, <3>2 DEF Part
  <2>2. CASE 1 \notin O
    <3>1. V = O /\ Part(h) = 0
      BY <1>8, <2>2 DEF Part
    <3>2. SumOver(f, O) \in Nat
      BY <1>5, SumNat
    <3> QED BY <1>5, <3>1, <3>2
  <2> QED BY <2>1, <2>2
<1> DEFINE g == Nums(h)'
<1>10. SumOver(f, V) = SumOver(g, V)
  <2>1. \A i \in V : f[i] = g[i]
    BY <1>3
  <2> HIDE DEF f, g, V
  <2> QED BY <1>9, <2>1, SumSame
<1> QED BY <1>4, <1>5, <1>9, <1>10

\* And into a table.
LEMMA TaskHeld ==
    ASSUME TypeOK, NEW h \in Hosts, AddTask
    PROVE  /\ SumOver(Held(h)', Conts) \in Nat
           /\ SumOver(Held(h)', Conts) = SumOver(Held(h), Conts) + Part(h)
<1> DEFINE c == Head(plan).cont
           e == Head(plan).host
           n == Head(plan).num
           f == Held(h)
           g == Held(h)'
<1>1. c \in Conts /\ e \in Hosts /\ n \in Nat
  BY PlanType DEF AddTask
<1>2. hosts' = [hosts EXCEPT ![c][e] = hosts[c][e] + n] /\ taken' = taken
  BY DEF AddTask
<1>3. /\ hosts \in [Conts -> [Hosts -> Nat]] /\ taken \in [Conts -> [Hosts -> Nat]]
      /\ Part(h) = IF e = h THEN n ELSE 0
  BY DEF TypeOK, Part
<1> HIDE DEF c, e, n
<1>4. /\ \A k \in Conts : f[k] = hosts[k][h] + taken[k][h]
      /\ \A k \in Conts : g[k] = hosts'[k][h] + taken'[k][h]
  BY DEF Held
<1>5. \A k \in Conts : k # c => g[k] = f[k]
  BY <1>1, <1>2, <1>3, <1>4
<1>6. hosts'[c][h] = hosts[c][h] + Part(h)
  BY <1>1, <1>2, <1>3
<1>7. hosts[c][h] \in Nat /\ taken[c][h] \in Nat /\ Part(h) \in Nat
  BY <1>1, <1>3
<1>8. f[c] \in Nat /\ g[c] \in Nat /\ g[c] = f[c] + Part(h)
  BY <1>1, <1>2, <1>4, <1>6, <1>7
<1>9. Numbers(f, Conts) /\ SumOver(f, Conts) \in Nat
  BY AccountNumbers
<1> HIDE DEF f, g
<1>10. SumOver(g, Conts) \in Nat /\ SumOver(g, Conts) + f[c] = SumOver(f, Conts) + g[c]
  BY <1>1, <1>5, <1>8, <1>9, SumChange
<1>11. SumOver(g, Conts) = SumOver(f, Conts) + Part(h)
  BY <1>7, <1>8, <1>9, <1>10
<1> QED BY <1>10, <1>11 DEF f, g

\* Taking the table moves the tasks of a connector from one table to the other.
LEMMA SwapHeld ==
    ASSUME TypeOK, TakenInv, NEW h \in Hosts, NEW j \in Conts, Swap(j)
    PROVE  Held(h)' = Held(h)
<1>1. /\ taken' = [taken EXCEPT ![j] = hosts[j]]
      /\ hosts' = [hosts EXCEPT ![j] = NoHosts]
      /\ taken[j] = NoHosts
  BY DEF Swap, TakenInv
<1>2. hosts \in [Conts -> [Hosts -> Nat]] /\ taken \in [Conts -> [Hosts -> Nat]]
  BY DEF TypeOK
<1>3. NoHosts[h] = 0
  BY DEF NoHosts
<1>4. ASSUME NEW k \in Conts PROVE hosts'[k][h] + taken'[k][h] = hosts[k][h] + taken[k][h]
  <2>1. CASE k = j
    <3>1. hosts'[k][h] = 0 /\ taken'[k][h] = hosts[k][h] /\ taken[k][h] = 0
      BY <1>1, <1>2, <1>3, <2>1
    <3>2. hosts[k][h] \in Nat
      BY <1>2
    <3> QED BY <3>1, <3>2
  <2>2. CASE k # j
    BY <1>1, <1>2, <2>2
  <2> QED BY <2>1, <2>2
<1> QED BY <1>4 DEF Held

\* A connect takes one connection from the connector's table, and hands the
\* socket over or counts the failure.
LEMMA ConnectBooked ==
    ASSUME TypeOK, NEW h \in Hosts, NEW j \in Conts, Connect(j)
    PROVE  (handed[h] + SumOver(Fails(h), Conts)) + SumOver(Held(h), Conts)
               = (handed'[h] + SumOver(Fails(h)', Conts)) + SumOver(Held(h)', Conts)
<1>1. PICK e \in Hosts :
        /\ taken[j][e] > 0
        /\ taken' = [taken EXCEPT ![j][e] = @ - 1]
        /\ \/ handed' = [handed EXCEPT ![e] = @ + 1] /\ failures' = failures
           \/ failures' = [failures EXCEPT ![j][e] = @ + 1] /\ handed' = handed
  BY DEF Connect
<1>2. hosts' = hosts
  BY DEF Connect
<1>3. /\ hosts \in [Conts -> [Hosts -> Nat]] /\ taken \in [Conts -> [Hosts -> Nat]]
      /\ failures \in [Conts -> [Hosts -> Nat]] /\ handed \in [Hosts -> Nat]
  BY DEF TypeOK
<1> DEFINE f == Held(h)
           g == Held(h)'
           a == Fails(h)
           b == Fails(h)'
<1>4. /\ \A k \in Conts : f[k] = hosts[k][h] + taken[k][h]
      /\ \A k \in Conts : g[k] = hosts[k][h] + taken'[k][h]
      /\ \A k \in Conts : a[k] = failures[k][h]
      /\ \A k \in Conts : b[k] = failures'[k][h]
  BY <1>2 DEF Held, Fails
<1>5. /\ Numbers(f, Conts) /\ SumOver(f, Conts) \in Nat
      /\ Numbers(a, Conts) /\ SumOver(a, Conts) \in Nat
  BY AccountNumbers
<1>6. CASE h # e
  <2>1. \A k \in Conts : taken'[k][h] = taken[k][h] /\ failures'[k][h] = failures[k][h]
    BY <1>1, <1>3, <1>6
  <2>2. g = f /\ b = a /\ handed'[h] = handed[h]
    BY <1>1, <1>2, <1>3, <1>6, <2>1 DEF Held, Fails
  <2> HIDE DEF f, g, a, b
  <2>3. (handed[h] + SumOver(a, Conts)) + SumOver(f, Conts)
            = (handed'[h] + SumOver(b, Conts)) + SumOver(g, Conts)
    BY <2>2
  <2> QED BY <2>3 DEF f, g, a, b
<1>7. CASE h = e
  <2>1. /\ \A k \in Conts : k # j => taken'[k][h] = taken[k][h]
        /\ taken'[j][h] = taken[j][h] - 1
    BY <1>1, <1>3, <1>7
  <2>2. hosts[j][h] \in Nat /\ taken[j][h] \in Nat /\ taken[j][h] > 0
    BY <1>1, <1>3, <1>7
  <2>3. /\ \A k \in Conts : k # j => g[k] = f[k]
        /\ g[j] \in Nat /\ f[j] \in Nat /\ g[j] = f[j] - 1
    BY <1>4, <2>1, <2>2
  <2>4. handed[h] \in Nat
    BY <1>3
  <2>5. \A k \in Conts : failures[k][h] \in Nat
    BY <1>3
  <2>6. CASE handed' = [handed EXCEPT ![e] = @ + 1] /\ failures' = failures
    <3>1. handed'[h] = handed[h] + 1 /\ b = a
      BY <1>3, <1>7, <2>6 DEF Fails
    <3> HIDE DEF f, g, a, b
    <3>2. SumOver(g, Conts) \in Nat /\ SumOver(g, Conts) + f[j] = SumOver(f, Conts) + g[j]
      BY <1>5, <2>3, SumChange
    <3>3. SumOver(b, Conts) = SumOver(a, Conts)
      BY <3>1
    <3>4. (handed[h] + SumOver(a, Conts)) + SumOver(f, Conts)
              = (handed'[h] + SumOver(b, Conts)) + SumOver(g, Conts)
      BY <1>5, <2>3, <2>4, <3>1, <3>2, <3>3
    <3> QED BY <3>4 DEF f, g, a, b
  <2>7. CASE failures' = [failures EXCEPT ![j][e] = @ + 1] /\ handed' = handed
    <3>1. /\ \A k \in Conts : k # j => failures'[k][h] = failures[k][h]
          /\ failures'[j][h] = failures[j][h] + 1
      BY <1>3, <1>7, <2>7
    <3>2. /\ \A k \in Conts : k # j => b[k] = a[k]
          /\ b[j] \in Nat /\ a[j] \in Nat /\ b[j] = a[j] + 1
      BY <1>4, <2>5, <3>1
    <3> HIDE DEF f, g, a, b
    <3>3. SumOver(g, Conts) \in Nat /\ SumOver(g, Conts) + f[j] = SumOver(f, Conts) + g[j]
      BY <1>5, <2>3, SumChange
    <3>4. SumOver(b, Conts) \in Nat /\ SumOver(b, Conts) + a[j] = SumOver(a, Conts) + b[j]
      BY <1>5, <3>2, SumChange
    <3>5. (handed[h] + SumOver(a, Conts)) + SumOver(f, Conts)
              = (handed'[h] + SumOver(b, Conts)) + SumOver(g, Conts)
      BY <1>5, <2>3, <2>4, <2>7, <3>2, <3>3, <3>4
    <3> QED BY <3>5 DEF f, g, a, b
  <2> QED BY <1>1, <2>6, <2>7
<1> QED BY <1>6, <1>7

\* The account of host h is right.
Booked(h) ==
    asked[h] = Planned(h) + ((handed[h] + SumOver(Fails(h), Conts)) + SumOver(Held(h), Conts))

AllBooked == \A h \in Hosts : Booked(h)

\* EachConnectionOnce is the account of every host.
LEMMA Accounts == TypeOK => (EachConnectionOnce <=> AllBooked)
<1> SUFFICES ASSUME TypeOK
             PROVE  EachConnectionOnce <=> \A h \in Hosts : Booked(h)
  BY DEF AllBooked
<1>1. EachConnectionOnce <=> \A h \in Hosts :
          asked[h] = Planned(h) + Attempted(h) + SumOver(Held(h), Conts)
  BY DEF EachConnectionOnce, Held
<1>2. ASSUME NEW h \in Hosts
      PROVE  Booked(h) <=> asked[h] = Planned(h) + Attempted(h) + SumOver(Held(h), Conts)
  <2> DEFINE p == Planned(h)  a == handed[h]  b == SumOver(Fails(h), Conts)
             c == SumOver(Held(h), Conts)
  <2>1. p \in Nat /\ a \in Nat /\ b \in Nat /\ c \in Nat
    BY AccountNumbers
  <2>2. Attempted(h) = a + b
    BY AccountIs
  <2>3. Booked(h) <=> asked[h] = p + ((a + b) + c)
    BY DEF Booked
  <2> HIDE DEF p, a, b, c
  <2>4. p + ((a + b) + c) = p + (a + b) + c
    BY <2>1
  <2>5. p + Attempted(h) + c = p + (a + b) + c
    BY <2>2
  <2>6. Booked(h) <=> asked[h] = p + Attempted(h) + c
    BY <2>3, <2>4, <2>5
  <2> QED BY <2>6 DEF p, c
<1> QED BY <1>1, <1>2

\* A connector that is not connecting keeps its own table empty.
LEMMA TakenInductive == TypeOK /\ TakenInv /\ [Next]_vars => TakenInv'
<1> SUFFICES ASSUME TypeOK, TakenInv, [Next]_vars, NEW k \in Conts, cpc'[k] # "connect"
             PROVE  taken'[k] = NoHosts
  BY DEF TakenInv, NoHosts
<1>1. cpc[k] # "connect" => taken[k] = NoHosts
  BY DEF TakenInv
<1>2. CASE UNCHANGED <<cpc, taken>>
  BY <1>1, <1>2
<1>3. CASE \E j \in Conts : Cont(j)
  <2>1. PICK j \in Conts : Cont(j)
    BY <1>3
  <2>2. CASE Poll(j)
    BY <1>1, <2>2 DEF Poll, TypeOK
  <2>3. CASE Drain(j)
    BY <1>1, <2>3 DEF Drain, TypeOK
  <2>4. CASE Swap(j)
    BY <1>1, <2>4 DEF Swap, TypeOK
  <2>5. CASE Connect(j)
    BY <1>1, <2>5 DEF Connect, TypeOK
  <2>6. CASE Return(j)
    BY <1>1, <2>6 DEF Return, TypeOK
  <2> QED BY <2>1, <2>2, <2>3, <2>4, <2>5, <2>6 DEF Cont
<1>4. (\E h \in Hosts, t \in Amounts : ClientAdd(h, t)) \/ Adder \/ UNCHANGED vars
          => UNCHANGED <<cpc, taken>>
  BY DEF ClientAdd, Adder, AddNothing, AddTask, AddByte, Flush, vars
<1> QED BY <1>2, <1>3, <1>4 DEF Next

\* The account stays right when neither side of it moves.
LEMMA SameBooked ==
    ASSUME NEW h \in Hosts, Booked(h), Planned(h)' = Planned(h),
           UNCHANGED <<asked, handed, failures>>, Held(h)' = Held(h)
    PROVE  Booked(h)'
<1> DEFINE a == SumOver(Fails(h), Conts)  b == SumOver(Held(h), Conts)
<1>1. Fails(h)' = Fails(h)
  BY DEF Fails
<1>2. a' = a /\ b' = b /\ handed'[h] = handed[h] /\ asked'[h] = asked[h]
  BY <1>1
<1>3. asked[h] = Planned(h) + ((handed[h] + a) + b)
  BY DEF Booked
<1> HIDE DEF a, b
<1>4. asked'[h] = Planned(h)' + ((handed'[h] + a') + b')
  BY <1>2, <1>3
<1> QED BY <1>4 DEF Booked, a, b

\* Every step keeps the account of every host: each action by itself.
LEMMA BookedInductive ==
    ASSUME TypeOK, TakenInv, [Next]_vars, NEW h \in Hosts, Booked(h)
    PROVE  Booked(h)'
<1> DEFINE p == Planned(h)  a == SumOver(Fails(h), Conts)  b == SumOver(Held(h), Conts)
<1>0. /\ p \in Nat /\ a \in Nat /\ b \in Nat /\ handed[h] \in Nat /\ asked[h] \in Nat
      /\ asked[h] = p + ((handed[h] + a) + b)
  BY AccountNumbers DEF Booked
<1>1. ASSUME NEW e \in Hosts, NEW t \in Amounts, ClientAdd(e, t) PROVE Booked(h)'
  <2>1. t \in Nat
    BY AmountsAssumption
  <2>2. p = 0
    <3>1. plan = <<>>
      BY <1>1 DEF ClientAdd
    <3>2. Open(h) = {}
      BY <3>1 DEF Open
    <3> QED BY <3>2, AccountIs, SumEmpty
  <2>3. plan' = Split(e, t) /\ adder' = "idle"
    BY <1>1 DEF ClientAdd
  <2>4. p' = IF h = e THEN t ELSE 0
    BY <2>1, <2>3, SplitPlanned
  <2>5. asked'[h] = asked[h] + IF h = e THEN t ELSE 0
    <3>1. asked' = [asked EXCEPT ![e] = @ + t] /\ asked \in [Hosts -> Nat]
      BY <1>1 DEF ClientAdd, TypeOK
    <3> QED BY <1>0, <3>1
  <2>6. a' = a /\ b' = b /\ handed' = handed
    BY <1>1 DEF ClientAdd, Fails, Held
  <2> HIDE DEF p, a, b
  <2>7. asked'[h] = p' + ((handed'[h] + a') + b')
    BY <1>0, <2>1, <2>2, <2>4, <2>5, <2>6
  <2> QED BY <2>7 DEF Booked, p, a, b
<1>2. CASE AddNothing
  <2>1. Planned(h)' = Planned(h)
    BY <1>2, TailPlanned DEF AddNothing
  <2>2. UNCHANGED <<asked, handed, failures>> /\ Held(h)' = Held(h)
    BY <1>2 DEF AddNothing, Held
  <2> QED BY <2>1, <2>2, SameBooked
<1>3. CASE AddTask
  <2>1. p' \in Nat /\ p = Part(h) + p'
    BY <1>3, TaskPlanned
  <2>2. b' \in Nat /\ b' = b + Part(h)
    BY <1>3, TaskHeld
  <2>3. a' = a /\ asked' = asked /\ handed' = handed
    BY <1>3 DEF AddTask, Fails
  <2>4. Part(h) \in Nat
    BY <1>3, PlanType DEF Part, AddTask
  <2> HIDE DEF p, a, b
  <2>5. asked'[h] = p' + ((handed'[h] + a') + b')
    BY <1>0, <2>1, <2>2, <2>3, <2>4
  <2> QED BY <2>5 DEF Booked, p, a, b
<1>4. CASE AddByte
  <2>1. Planned(h)' = Planned(h)
    BY <1>4, SamePlanned DEF AddByte
  <2>2. UNCHANGED <<asked, handed, failures>> /\ Held(h)' = Held(h)
    BY <1>4 DEF AddByte, Held
  <2> QED BY <2>1, <2>2, SameBooked
<1>5. CASE Flush
  <2>1. plan # <<>> /\ adder # "idle"
    BY <1>5 DEF Flush, TypeOK
  <2>2. (plan' = plan /\ adder' = adder) \/ (plan' = Tail(plan) /\ adder' = "idle")
    BY <1>5 DEF Flush
  <2>3. Planned(h)' = Planned(h)
    BY <2>1, <2>2, SamePlanned, TailPlanned
  <2>4. UNCHANGED <<asked, handed, failures>> /\ Held(h)' = Held(h)
    BY <1>5 DEF Flush, Held
  <2> QED BY <2>3, <2>4, SameBooked
<1>6. ASSUME NEW j \in Conts, Cont(j) PROVE Booked(h)'
  <2>1. plan' = plan /\ adder' = adder /\ asked' = asked
    BY <1>6 DEF Cont, Poll, Drain, Swap, Connect, Return
  <2>2. Planned(h)' = Planned(h)
    BY <2>1, SamePlanned
  <2>3. CASE Connect(j)
    <3>1. (handed[h] + a) + b = (handed'[h] + a') + b'
      BY <2>3, ConnectBooked
    <3>2. p' = p /\ asked'[h] = asked[h]
      BY <2>1, <2>2
    <3> HIDE DEF p, a, b
    <3>3. asked'[h] = p' + ((handed'[h] + a') + b')
      BY <1>0, <3>1, <3>2
    <3> QED BY <3>3 DEF Booked, p, a, b
  <2>4. CASE Swap(j)
    <3>1. Held(h)' = Held(h)
      BY <2>4, SwapHeld
    <3>2. UNCHANGED <<asked, handed, failures>>
      BY <2>4 DEF Swap
    <3> QED BY <2>2, <3>1, <3>2, SameBooked
  <2>5. CASE Poll(j) \/ Drain(j) \/ Return(j)
    <3>1. UNCHANGED <<asked, handed, failures>> /\ Held(h)' = Held(h)
      BY <2>5 DEF Poll, Drain, Return, Held
    <3> QED BY <2>2, <3>1, SameBooked
  <2> QED BY <1>6, <2>3, <2>4, <2>5 DEF Cont
<1>7. CASE UNCHANGED vars
  <2>1. Planned(h)' = Planned(h)
    BY <1>7, SamePlanned DEF vars
  <2>2. UNCHANGED <<asked, handed, failures>> /\ Held(h)' = Held(h)
    BY <1>7 DEF vars, Held
  <2> QED BY <2>1, <2>2, SameBooked
<1> QED BY <1>1, <1>2, <1>3, <1>4, <1>5, <1>6, <1>7 DEF Next, Adder

\* Nothing has been asked for at first.
LEMMA InitAccount == Init => AccountInv
<1> SUFFICES ASSUME Init PROVE AccountInv
  OBVIOUS
<1>1. Inv /\ TakenInv
  BY InitInv DEF Init, TakenInv
<1>2. ASSUME NEW h \in Hosts PROVE Booked(h)
  <2>1. Planned(h) = 0
    <3>1. plan = <<>>
      BY DEF Init
    <3>2. Open(h) = {}
      BY <3>1 DEF Open
    <3> QED BY <3>2, AccountIs, SumEmpty
  <2>2. /\ \A k \in 1..N : Fails(h)[k] = 0
        /\ \A k \in 1..N : Held(h)[k] = 0
    BY DEF Init, Fails, Held, NoHosts, Conts
  <2>3. N * 0 = 0 /\ N \in Nat
    BY NAssumption
  <2>4. SumOver(Fails(h), Conts) = 0 /\ SumOver(Held(h), Conts) = 0
    BY <2>2, <2>3, SumEqual DEF Conts
  <2>5. handed[h] = 0 /\ asked[h] = 0
    BY DEF Init, NoHosts
  <2> QED BY <2>1, <2>4, <2>5 DEF Booked
<1> QED BY <1>1, <1>2, Accounts DEF AccountInv, Inv, AllBooked

\* Every step keeps the account.
LEMMA AccountInductive == AccountInv /\ [Next]_vars => AccountInv'
<1>1. TypeOK' => (EachConnectionOnce' <=> AllBooked')
  BY Accounts, PTL
<1> SUFFICES ASSUME AccountInv, [Next]_vars PROVE AccountInv'
  OBVIOUS
<1>2. TypeOK /\ TakenInv /\ Inv'
  BY InvInductive DEF AccountInv, Inv
<1>3. TakenInv'
  BY <1>2, TakenInductive
<1>4. AllBooked
  BY <1>2, Accounts DEF AccountInv
<1>5. AllBooked'
  BY <1>2, <1>4, BookedInductive DEF AllBooked
<1>6. TypeOK'
  BY <1>2 DEF Inv
<1>7. EachConnectionOnce'
  BY <1>1, <1>5, <1>6
<1> QED BY <1>2, <1>3, <1>7 DEF AccountInv

\* However a count divides among the connectors, and however storing, waking,
\* taking and connecting interleave, each connection asked for is in exactly one
\* place: in a call still to be made, in a table, with a connector, handed to a
\* worker or counted as a failure (tcp.cc:208-290, 371-387).
THEOREM EachConnectionOnceHolds == Spec => []EachConnectionOnce
<1>1. AccountInv => EachConnectionOnce
  BY DEF AccountInv
<1> QED BY <1>1, InitAccount, AccountInductive, PTL DEF Spec

=============================================================================
