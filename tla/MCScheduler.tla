----------------------------- MODULE MCScheduler -----------------------------
(* Scheduler for TLC: three tasks.  Seconds of six units make the intervals  *)
(* two, three, four, five and six units, four and five of them quotients cut *)
(* off; some do not divide each other, some are equal.                       *)
EXTENDS Scheduler

Task(n, s, p) == [freq |-> <<n, s>>, prio |-> p]

MCArgs == {<<Task(3, 1, 14), Task(2, 1, 20), Task(4, 3, 17)>>,
           <<Task(2, 1, 17), Task(4, 3, 17), Task(1, 1, 20)>>,
           <<Task(3, 1, 14), Task(3, 1, 20), Task(2, 1, 14)>>,
           <<Task(8, 7, 20), Task(3, 1, 14), Task(8, 7, 14)>>}
=============================================================================
