------------------------------ MODULE MCSession ------------------------------
(* Session for TLC: a parent and two children, the first with the one waiter *)
(* at the fence; each of the three has a notifier or a waiter and a user of  *)
(* the lock.                                                                 *)
EXTENDS Session

CONSTANTS parent, c1, c2, w1, u1, u2, n2

MCHome == [t \in Threads \cup Users |->
    IF t \in {w1, u1} THEN c1 ELSE IF t \in {n2, u2} THEN c2 ELSE parent]
=============================================================================
