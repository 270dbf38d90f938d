---------------------------- MODULE PsharedBarrier ----------------------------
(***************************************************************************)
(* pshared_barrier of lock.cc: a counter behind a process-shared mutex and *)
(* condition variable.  wait() holds the mutex from its first line to its  *)
(* end and gives it up only inside cond_.wait, so that each piece between  *)
(* two sleeps is one step.                                                 *)
(***************************************************************************)
EXTENDS Integers, FiniteSets

CONSTANTS Threads,  \* threads or processes that share the barrier
          Count,    \* the argument of the constructor
          MaxCalls  \* bound: calls of wait() in all

ASSUME ThreadsAssumption == IsFiniteSet(Threads)
ASSUME CountAssumption == Count \in Nat
ASSUME MaxCallsAssumption == MaxCalls \in Nat

VARIABLES bcount,  \* count_
          bpc,     \* "idle", "asleep" in cond_.wait, "woken": to re-test
          calls,   \* history: calls of wait() so far
          passed,  \* history: calls that returned
          thrown   \* history: calls that threw

barrierVars == <<bcount, bpc, calls, passed, thrown>>

\* The waiters of cond_.
Asleep == {t \in Threads : bpc[t] = "asleep"}

BarrierInit ==
    /\ bcount = Count
    /\ bpc = [t \in Threads |-> "idle"]
    /\ calls = 0
    /\ passed = 0
    /\ thrown = 0

\* Mutant: a surplus call sleeps where it should throw.
ArriveUnchecked(t) ==
    /\ bpc[t] = "idle" /\ calls < MaxCalls
    /\ calls' = calls + 1
    /\ bcount' = bcount - 1
    /\ IF bcount' = 0
       THEN /\ bpc' = [u \in Threads |-> IF bpc[u] = "asleep" THEN "woken" ELSE bpc[u]]
            /\ passed' = passed + 1
       ELSE /\ bpc' = [bpc EXCEPT ![t] = "asleep"]
            /\ UNCHANGED passed
    /\ UNCHANGED thrown

\* Mutant: the last arrival wakes one sleeper.
ArriveNotifyOne(t) ==
    /\ bpc[t] = "idle" /\ calls < MaxCalls
    /\ calls' = calls + 1
    /\ bcount' = bcount - 1
    /\ \/ /\ bcount' = 0
          /\ IF Asleep = {} THEN UNCHANGED bpc
             ELSE \E u \in Asleep : bpc' = [bpc EXCEPT ![u] = "woken"]
          /\ passed' = passed + 1
       \/ /\ bcount' > 0
          /\ bpc' = [bpc EXCEPT ![t] = "asleep"]
          /\ UNCHANGED passed
    /\ UNCHANGED thrown

\* wait() up to the return, the exception or the first sleep.
Arrive(t) ==
    /\ bpc[t] = "idle" /\ calls < MaxCalls
    /\ calls' = calls + 1
    /\ bcount' = bcount - 1
    /\ \/ /\ bcount' = 0
          /\ bpc' = [u \in Threads |-> IF bpc[u] = "asleep" THEN "woken" ELSE bpc[u]]
          /\ passed' = passed + 1
          /\ UNCHANGED thrown
       \/ /\ bcount' > 0
          /\ bpc' = [bpc EXCEPT ![t] = "asleep"]
          /\ UNCHANGED <<passed, thrown>>
       \/ /\ bcount' < 0
          /\ thrown' = thrown + 1
          /\ UNCHANGED <<bpc, passed>>

\* The condition variable may wake a sleeper for no reason.
Spurious(t) ==
    /\ bpc[t] = "asleep"
    /\ bpc' = [bpc EXCEPT ![t] = "woken"]
    /\ UNCHANGED <<bcount, calls, passed, thrown>>

\* Mutant: wait() with if in place of while around cond_.wait.
RetestNever(t) ==
    /\ bpc[t] = "woken"
    /\ bpc' = [bpc EXCEPT ![t] = "idle"]
    /\ passed' = passed + 1
    /\ UNCHANGED <<bcount, calls, thrown>>

\* The predicate of cond_.wait, after a wake-up and with the mutex held again.
Retest(t) ==
    /\ bpc[t] = "woken"
    /\ \/ /\ bcount = 0
          /\ bpc' = [bpc EXCEPT ![t] = "idle"]
          /\ passed' = passed + 1
       \/ /\ bcount # 0
          /\ bpc' = [bpc EXCEPT ![t] = "asleep"]
          /\ UNCHANGED passed
    /\ UNCHANGED <<bcount, calls, thrown>>

BarrierNext == \E t \in Threads : Arrive(t) \/ Spurious(t) \/ Retest(t)

\* A thread that was woken gets the mutex in the end.
BarrierSpec == BarrierInit /\ [][BarrierNext]_barrierVars /\ \A t \in Threads : WF_barrierVars(Retest(t))

-----------------------------------------------------------------------------
BarrierTypeOK ==
    /\ bcount \in Int
    /\ bpc \in [Threads -> {"idle", "asleep", "woken"}]
    /\ calls \in Nat /\ passed \in Nat /\ thrown \in Nat

\* Nobody passes before Count calls have arrived, however often the condition
\* variable wakes a sleeper (lock.cc:264).
NoneEarly == passed > 0 => calls >= Count

\* The threads inside wait().
Busy == {t \in Threads : bpc[t] # "idle"}

\* A call is in one state: sleeping, returned or failed; and as many calls fail
\* as there were calls too many.
CallsAddUp ==
    /\ calls = passed + thrown + Cardinality(Busy)
    /\ thrown = IF calls > Count THEN calls - Count ELSE 0

\* Once Count calls have arrived every sleeper returns, also when a surplus call
\* follows that throws (lock.cc:257-269).
Released == \A t \in Threads : calls >= Count /\ bpc[t] # "idle" ~> bpc[t] = "idle"
=============================================================================
