----------------------------- MODULE PsharedSync -----------------------------
(***************************************************************************)
(* A fence and a barrier in one shared segment, used as the processes of   *)
(* test_ipc.cc use them: a process first waits on the fence or notifies    *)
(* it, and only then comes to the barrier.                                 *)
(***************************************************************************)
EXTENDS PsharedFence, PsharedBarrier

\* The process is done with the fence.  (The wait() of a notifier after its own
\* notify() finds ok_ set and changes nothing.)
Through(t) ==
    /\ t \in Waiters => wpc[t] = "out" /\ waits[t] = MaxWaits
    /\ t \in Notifiers => npc[t] = "done"

SyncInit == FenceInit /\ BarrierInit

AtBarrier(t) == (Through(t) /\ Arrive(t)) \/ Spurious(t) \/ Retest(t)

SyncNext ==
    \/ FenceNext /\ UNCHANGED barrierVars
    \/ (\E t \in Threads : AtBarrier(t)) /\ UNCHANGED fenceVars

syncVars == <<fenceVars, barrierVars>>

\* Threads run on inside wait() and notify().
SyncSpec ==
    /\ SyncInit /\ [][SyncNext]_syncVars
    /\ FenceFairness
    /\ \A t \in Threads : WF_barrierVars(Retest(t))
=============================================================================
