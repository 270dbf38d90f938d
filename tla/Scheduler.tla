------------------------------- MODULE Scheduler -------------------------------
(***************************************************************************)
(* timed_scheduler (scheduler.h) with the number theory it rests on        *)
(* (utils.cc).  The constructor turns frequencies into intervals, lays the *)
(* calls of one period out in a table and starts a thread, which walks the *)
(* table for ever and sleeps until each time point.  Handlers take time    *)
(* and the thread may fall behind the clock.                               *)
(*                                                                         *)
(* The table counts nanoseconds, the clock ticks of its own: where a tick  *)
(* is longer (system_clock of libc++), time_point_cast cuts every time     *)
(* point off, and the next one is reckoned from what is left.              *)
(***************************************************************************)
EXTENDS Naturals, Sequences, SequencesExt

CONSTANTS Tasks,    \* timer tasks, an initial segment of the numbers
          Second,   \* nanoseconds of a second
          Units,    \* nanoseconds of a tick of the clock, Clock::duration
          Args,     \* the constructor's arguments, for each task its frequency,
                    \* <<calls, seconds>>, and its priority
          MaxTime,  \* bound: the last place the thread comes to
          MaxLag    \* bound: how far the clock runs ahead of the thread

ASSUME SecondAssumption == Second \in Nat \ {0} /\ Units \subseteq Nat \ {0}
ASSUME BoundsAssumption == MaxTime \in Nat /\ MaxLag \in Nat \ {0}
ASSUME TasksAssumption == IsFiniteSet(Tasks) /\ Tasks # {}

\* greatest_common_divisor and least_common_multiple assert that no interval is
\* zero: no task is called more often than once in a nanosecond.
ASSUME ArgsAssumption ==
    \A a \in Args, i \in Tasks :
        /\ a[i].prio \in Nat
        /\ a[i].freq \in (Nat \ {0}) \X (Nat \ {0})
        /\ a[i].freq[1] <= Second * a[i].freq[2]

VARIABLES freq, prio,  \* the constructor's arguments
          align,
          order,       \* timer_handlers_
          unit,        \* the clock's tick
          now,         \* the time
          pc,          \* the thread
          start,       \* the first time point
          stamp,       \* the place in tasks_
          tp, next,    \* tp_curr and tp_next
          todo,        \* handlers of this stamp still to be called
          stop,        \* stop_
          place,       \* history: nanoseconds of table the thread has gone through
          points,      \* history: time points it has gone through
          until,       \* history: the first place not begun when stop_ was set
          calls        \* history: calls of each handler at each place

argVars == <<freq, prio, align, order, unit, start>>
histVars == <<place, points, until, calls>>
vars == <<argVars, now, pc, stamp, tp, next, todo, stop, histVars>>

-----------------------------------------------------------------------------
(* utils.cc *)

\* greatest_common_divisor: the loop over p and r, as a recursive function.
gcd[a \in Nat \X Nat] == IF a[2] = 0 THEN a[1] ELSE gcd[<<a[2], a[1] % a[2]>>]

\* Mutant: the larger of the two.
LcmLarger(p, r) == IF p < r THEN r ELSE p

\* least_common_multiple.
Lcm(p, r) == (p \div gcd[<<p, r>>]) * r

Gcd(p, r) == gcd[<<p, r>>]

-----------------------------------------------------------------------------
(* The constructor. *)

Interval(i) == (Second * freq[i][2]) \div freq[i][1]

Intervals == [i \in Tasks |-> Interval(i)]

\* interval_, the period of the table, and the step in which it is laid out.
Period == FoldFunction(Lcm, 1, Intervals)
Grain == FoldFunction(Gcd, 0, Intervals)

\* tasks_: the stamps with a handler, and the handlers of a stamp, pushed back in
\* the order of the heap.
Stamps == {s \in 0..Period - 1 : s % Grain = 0 /\ \E i \in Tasks : s % Interval(i) = 0}
Handlers(s) ==
    LET pushed[n \in 0..Len(order)] ==
            IF n = 0 THEN <<>>
            ELSE IF s % Interval(order[n]) = 0 THEN Append(pushed[n - 1], order[n])
            ELSE pushed[n - 1]
    IN  pushed[Len(order)]

\* The heap: the greatest value, which is the most urgent, comes first.
Sorted(o) == \A j, k \in 1..Len(o) : j < k => prio[o[j]] >= prio[o[k]]

Init ==
    /\ \E a \in Args : freq = [i \in Tasks |-> a[i].freq] /\ prio = [i \in Tasks |-> a[i].prio]
    /\ align \in BOOLEAN
    /\ order \in SetToSeqs(Tasks) /\ Sorted(order)
    /\ unit \in Units /\ now = 1 /\ pc = "new" /\ start = 0
    /\ stamp = 0 /\ tp = 0 /\ next = 0 /\ todo = <<>>
    /\ stop = FALSE /\ place = 0 /\ points = 0 /\ until = 0
    /\ calls = [i \in Tasks |-> [e \in 0..MaxTime |-> 0]]

-----------------------------------------------------------------------------
(* The thread. *)

\* A time in ticks of the clock: what Clock::now() returns, and what duration_cast
\* and time_point_cast make of nanoseconds.
Cast(t) == t - (t % unit)

\* The thread has run its init tasks and takes the time; aligned, it sleeps until
\* the next full second (ceil_time_point).
Start ==
    /\ pc = "new" /\ pc' = "sleep"
    /\ next' = IF align THEN Cast((Cast(now) \div Second + 1) * Second) ELSE Cast(now)
    /\ tp' = next' /\ start' = next'
    /\ UNCHANGED <<freq, prio, align, order, unit, now, stamp, todo, stop, histVars>>

\* Both loops test stop_.
StopSeen == stop

\* Mutant: only the inner loop tests stop_, and the outer one spins.
WakeSpinning ==
    /\ pc = "sleep" /\ Cast(now) >= next /\ ~StopSeen /\ place < MaxTime
    /\ tp' = Cast(next)
    /\ pc' = "call" /\ todo' = Handlers(stamp)
    /\ UNCHANGED <<argVars, now, stamp, next, stop, histVars>>

\* sleep_until returns and the time point is cut to ticks; the next stamp begins
\* unless the scheduler stops.
Wake ==
    /\ pc = "sleep" /\ Cast(now) >= next
    /\ tp' = Cast(next)
    /\ \/ StopSeen /\ pc' = "exit" /\ UNCHANGED todo
       \/ /\ ~StopSeen /\ place < MaxTime
          /\ pc' = "call" /\ todo' = Handlers(stamp)
    /\ UNCHANGED <<argVars, now, stamp, next, stop, histVars>>

\* A handler is called with tp_curr.
Call ==
    /\ pc = "call" /\ todo # <<>>
    /\ calls' = [calls EXCEPT ![Head(todo)][place] = @ + 1]
    /\ todo' = Tail(todo)
    /\ UNCHANGED <<argVars, now, pc, stamp, tp, next, stop, place, points, until>>

\* The time to the next stamp, or to the end of the period.
Span == Min({s \in Stamps \cup {Period} : s > stamp}) - stamp

\* Mutant: the next time point is reckoned from the time it is.
SleepFromNow ==
    /\ pc = "call" /\ todo = <<>>
    /\ pc' = "sleep"
    /\ stamp' = (stamp + Span) % Period
    /\ next' = Cast(now) + Span
    /\ place' = place + Span /\ points' = points + 1
    /\ UNCHANGED <<argVars, now, tp, todo, stop, until, calls>>

\* All handlers are called: the thread sleeps until the next time point.
Sleep ==
    /\ pc = "call" /\ todo = <<>>
    /\ pc' = "sleep"
    /\ stamp' = (stamp + Span) % Period
    /\ next' = tp + Span
    /\ place' = place + Span /\ points' = points + 1
    /\ UNCHANGED <<argVars, now, tp, todo, stop, until, calls>>

\* The exit tasks.
Exit ==
    /\ pc = "exit" /\ pc' = "ended"
    /\ UNCHANGED <<argVars, now, stamp, tp, next, todo, stop, histVars>>

Thread == Start \/ Wake \/ Call \/ Sleep \/ Exit

\* The destructor sets stop_ and joins.
Destroy ==
    /\ ~stop /\ stop' = TRUE
    /\ until' = IF pc = "call" THEN place + 1 ELSE place
    /\ UNCHANGED <<argVars, now, pc, stamp, tp, next, todo, place, points, calls>>

Tick ==
    /\ now < next + MaxLag
    /\ now' = now + 1
    /\ UNCHANGED <<argVars, pc, stamp, tp, next, todo, stop, histVars>>

Next == Thread \/ Destroy \/ Tick

\* The thread runs and time passes.
Spec == Init /\ [][Next]_vars /\ WF_vars(Thread) /\ WF_vars(Tick)

-----------------------------------------------------------------------------
Due(i, e) == e % Interval(i) = 0

\* Every handler is called once at every multiple of its interval and never at
\* another place, for any mix of intervals: the table over the least common multiple
\* in steps of the greatest common divisor leaves nothing out and joins up with
\* itself. Of two handlers due at the same place the more urgent is called first, and
\* once the destructor has set stop_ the thread begins no further place, also when it
\* was asleep (scheduler.h:74-123).
OnTime ==
    \A i \in Tasks, e \in 0..MaxTime :
        /\ calls[i][e] <= 1
        /\ e < place => (calls[i][e] = 1 <=> Due(i, e))
        /\ calls[i][e] = 1 => Due(i, e) /\ e <= place
        /\ pc = "call" /\ e = place /\ Due(i, e) /\ calls[i][e] = 0 =>
               \A j \in Tasks : calls[j][e] = 1 => prio[j] >= prio[i]
        /\ stop /\ e >= until => calls[i][e] = 0

\* Handlers are not called early, and lateness does not add up: however long handlers
\* take, the time a handler is called with is the start plus its place in the table
\* when the clock resolves the intervals, and otherwise falls short of it by less than
\* a tick for each time point gone through (scheduler.h:118-123).
Punctual ==
    pc = "call" =>
        /\ tp <= now
        /\ tp <= start + place /\ start + place <= tp + points * (unit - 1)
        /\ (\A i \in Tasks : Interval(i) % unit = 0) => tp = start + place

\* The destructor returns and the exit tasks run.
SchedulerEnds == stop ~> pc = "ended"
=============================================================================
