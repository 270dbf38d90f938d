------------------------------- MODULE TaskPool -------------------------------
(***************************************************************************)
(* What a thread pool promises, without workers, queue or locks: a task    *)
(* that was submitted is run at most once; one that is owed is run in the  *)
(* end; the pool closes only when nothing owed is left, and is then quiet. *)
(***************************************************************************)
EXTENDS Naturals

CONSTANT Tasks

VARIABLES submitted,  \* tasks handed to the pool
          owed,       \* those the pool has to run
          runs,       \* how often each task has been run
          closed      \* the pool is over

poolVars == <<submitted, owed, runs, closed>>

PoolInit ==
    /\ submitted = {} /\ owed = {}
    /\ runs = [t \in Tasks |-> 0]
    /\ closed = FALSE

\* New tasks; some or all of them are owed from now on.
Submit ==
    /\ submitted \subseteq submitted' /\ submitted' \subseteq Tasks
    /\ owed \subseteq owed' /\ owed' \ owed \subseteq submitted' \ submitted
    /\ UNCHANGED <<runs, closed>>

RunTask(t) ==
    /\ t \in submitted /\ runs[t] = 0 /\ ~closed
    /\ runs' = [runs EXCEPT ![t] = 1]
    /\ UNCHANGED <<submitted, owed, closed>>

RunOwed(t) == t \in owed /\ RunTask(t)

Close ==
    /\ ~closed /\ closed' = TRUE
    /\ \A t \in owed : runs[t] = 1
    /\ UNCHANGED <<submitted, owed, runs>>

PoolNext == Submit \/ (\E t \in Tasks : RunTask(t)) \/ Close

PoolSafe == PoolInit /\ [][PoolNext]_poolVars

PoolSpec == PoolSafe /\ \A t \in Tasks : WF_poolVars(RunOwed(t))
=============================================================================
