----------------------------- MODULE PsharedFence -----------------------------
(***************************************************************************)
(* pshared_one_time_fence of lock.cc: wait() blocks until somebody has     *)
(* called notify().  Both read ok_ before they take the mutex: that read   *)
(* is a step of its own.  notify() wakes one waiter, and none at all once  *)
(* ok_ is set, so the fence is for one waiting thread, as in the tests.    *)
(***************************************************************************)
EXTENDS Naturals

CONSTANTS Waiters,    \* threads that call wait(), once or repeatedly
          Notifiers,  \* threads that call notify()
          MaxWaits    \* bound: calls of wait() per waiter

ASSUME MaxWaitsAssumption == MaxWaits \in Nat

VARIABLES ok,      \* ok_
          wpc,     \* where each waiter is in wait()
          waits,   \* calls of wait() that have returned, per waiter
          npc,     \* where each notifier is in notify()
          noticed  \* history: a call of notify() has begun

fenceVars == <<ok, wpc, waits, npc, noticed>>

\* The waiters of cond_.
FenceAsleep == {w \in Waiters : wpc[w] = "asleep"}

FenceInit ==
    /\ ok = FALSE
    /\ wpc = [w \in Waiters |-> "out"]
    /\ waits = [w \in Waiters |-> 0]
    /\ npc = [n \in Notifiers |-> "out"]
    /\ noticed = FALSE

\* wait() returns.
FenceLeave(w) ==
    /\ wpc' = [wpc EXCEPT ![w] = "out"]
    /\ waits' = [waits EXCEPT ![w] = @ + 1]

\* wait(): the test before the lock.
Look(w) ==
    /\ wpc[w] = "out" /\ waits[w] < MaxWaits
    /\ \/ ok /\ FenceLeave(w)
       \/ ~ok /\ wpc' = [wpc EXCEPT ![w] = "lock"] /\ UNCHANGED waits
    /\ UNCHANGED <<ok, npc, noticed>>

\* Mutant: the waiter does not look again once it has the lock.
DecideBlindly(w) ==
    /\ wpc[w] \in {"lock", "woken"}
    /\ IF wpc[w] = "woken" /\ ok THEN FenceLeave(w)
       ELSE wpc' = [wpc EXCEPT ![w] = "asleep"] /\ UNCHANGED waits
    /\ UNCHANGED <<ok, npc, noticed>>

\* Mutant: a waiter that was woken does not test the flag.
DecideOnce(w) ==
    /\ wpc[w] \in {"lock", "woken"}
    /\ IF wpc[w] = "woken" \/ ok THEN FenceLeave(w)
       ELSE wpc' = [wpc EXCEPT ![w] = "asleep"] /\ UNCHANGED waits
    /\ UNCHANGED <<ok, npc, noticed>>

\* The test under the lock, and the predicate after a wake-up.
Decide(w) ==
    /\ wpc[w] \in {"lock", "woken"}
    /\ \/ ok /\ FenceLeave(w)
       \/ ~ok /\ wpc' = [wpc EXCEPT ![w] = "asleep"] /\ UNCHANGED waits
    /\ UNCHANGED <<ok, npc, noticed>>

\* The condition variable may wake a sleeper for no reason.
FenceSpurious(w) ==
    /\ wpc[w] = "asleep"
    /\ wpc' = [wpc EXCEPT ![w] = "woken"]
    /\ UNCHANGED <<ok, waits, npc, noticed>>

\* notify(): the test before the lock; nothing to do the second time.
Check(n) ==
    /\ npc[n] = "out"
    /\ npc' = [npc EXCEPT ![n] = IF ok THEN "done" ELSE "lock"]
    /\ noticed' = TRUE
    /\ UNCHANGED <<ok, wpc, waits>>

\* Mutant: the flag is set and nobody is woken.
SetSilently(n) ==
    /\ npc[n] = "lock"
    /\ ok' = TRUE
    /\ npc' = [npc EXCEPT ![n] = "done"]
    /\ UNCHANGED <<wpc, waits, noticed>>

\* notify() under the lock: ok_ and notify_one.
Set(n) ==
    /\ npc[n] = "lock"
    /\ ok' = TRUE
    /\ npc' = [npc EXCEPT ![n] = "done"]
    /\ \/ FenceAsleep = {} /\ UNCHANGED wpc
       \/ \E w \in FenceAsleep : wpc' = [wpc EXCEPT ![w] = "woken"]
    /\ UNCHANGED <<waits, noticed>>

FenceNext ==
    \/ \E w \in Waiters : Look(w) \/ Decide(w) \/ FenceSpurious(w)
    \/ \E n \in Notifiers : Check(n) \/ Set(n)

\* Threads run on once they are inside wait() or notify().
FenceFairness ==
    /\ \A w \in Waiters : WF_fenceVars(Decide(w))
    /\ \A n \in Notifiers : WF_fenceVars(Set(n))

FenceSpec == FenceInit /\ [][FenceNext]_fenceVars /\ FenceFairness

-----------------------------------------------------------------------------
FenceTypeOK ==
    /\ ok \in BOOLEAN
    /\ wpc \in [Waiters -> {"out", "lock", "asleep", "woken"}]
    /\ waits \in [Waiters -> Nat]
    /\ npc \in [Notifiers -> {"out", "lock", "done"}]
    /\ noticed \in BOOLEAN

\* No wait() returns before a notify() has begun, spurious wake-ups or not.
NoneBefore == (\E w \in Waiters : waits[w] > 0) => noticed

\* With one waiter: once ok_ is set nobody is left asleep.  The waiter that saw
\* ok_ false before it locked looks again under the lock.
NoLateSleeper == ok => FenceAsleep = {}

\* With one waiter: every wait() returns once notify() has begun.
WaitReturns == \A w \in Waiters : noticed /\ wpc[w] # "out" ~> wpc[w] = "out"
=============================================================================
