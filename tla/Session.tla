------------------------------- MODULE Session -------------------------------
(***************************************************************************)
(* Processes that share an object in a segment (test_ipc.cc): they open    *)
(* the segment as in Ipc, and the threads of those that use it call the    *)
(* object, which is a struct with a pshared_rwlock (125-165) or one with a *)
(* fence and a barrier (258-325).  A process leaves when none of its       *)
(* threads is inside the object, and may die at any other moment but in a  *)
(* call of the fence or the barrier.                                       *)
(***************************************************************************)
EXTENDS Ipc, PsharedSync, RwLock

CONSTANT Home  \* the process of each thread

ASSUME HomeAssumption == Home \in [Threads \cup Users -> Procs]

VARIABLE object  \* what the segment holds: "rwlock", "fence"

sessionVars == <<vars, syncVars, rwVars, object>>

SessionInit == Init /\ SyncInit /\ RwInit /\ object \in {"rwlock", "fence"}

\* No thread of the process is inside a call of the fence or the barrier, ...
Outside(p) ==
    \A t \in Threads : Home[t] = p =>
        /\ bpc[t] = "idle"
        /\ t \in Waiters => wpc[t] = "out"
        /\ t \in Notifiers => npc[t] # "lock"

\* ... and none has a guard.
Unguarded(p) == \A u \in Users : Home[u] = p => upc[u] = "none"

\* A step of the process as a whole.
Alone(p) ==
    /\ Constructor(p) \/ Release(p) \/ Acquire(p) \/ Interrupted(p)
       \/ (Outside(p) /\ Unguarded(p) /\ Leave(p))
    /\ UNCHANGED <<syncVars, rwVars, object>>

\* A process dies, with its threads.
Death(p) ==
    LET D == {u \in Users : Home[u] = p /\ upc[u] = "in"}
    IN  /\ Outside(p) /\ Crash(p)
        /\ Die(D) \/ (D = {} /\ UNCHANGED rwVars)
        /\ UNCHANGED <<syncVars, object>>

\* A thread calls the fence, then the barrier.
AtFence(t) ==
    \/ t \in Waiters /\ (Look(t) \/ Decide(t) \/ FenceSpurious(t))
    \/ t \in Notifiers /\ (Check(t) \/ Set(t))

Synchronise(t) ==
    /\ object = "fence" /\ pc[Home[t]] = "use"
    /\ \/ AtFence(t) /\ UNCHANGED barrierVars
       \/ AtBarrier(t) /\ UNCHANGED fenceVars
    /\ UNCHANGED <<vars, rwVars, object>>

\* A thread uses the rwlock.
Guarded(u) ==
    /\ object = "rwlock" /\ pc[Home[u]] = "use"
    /\ Operation(u)
    /\ UNCHANGED <<vars, syncVars, object>>

SessionNext ==
    \/ \E p \in Procs : Alone(p) \/ Death(p)
    \/ \E t \in Threads : Synchronise(t)
    \/ \E u \in Users : Guarded(u)

\* Threads run on inside wait() and notify().
SessionSpec ==
    /\ SessionInit /\ [][SessionNext]_sessionVars
    /\ FenceFairness
    /\ \A t \in Threads : WF_barrierVars(Retest(t))
=============================================================================
