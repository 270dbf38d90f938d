------------------------------ MODULE TaskQueue ------------------------------
(***************************************************************************)
(* The task queue of thread_pool.h: a FIFO of handlers behind a mutex and  *)
(* a condition variable, the workers that drain it, and stop(), which      *)
(* raises a flag and joins the workers.                                    *)
(*                                                                         *)
(* Every critical section of the code runs under the one mutex and blocks  *)
(* only in cond_.wait, which releases it: each is one step here.  The      *)
(* notify_all a worker issues after it has released the mutex is a step of *)
(* its own.                                                                *)
(***************************************************************************)
EXTENDS Naturals, Sequences, FiniteSets

CONSTANTS Workers,  \* the threads of the pool
          Tasks,    \* the handlers that can be submitted, each at most once
          Batches,  \* the vectors that can be passed to add_task
          NoTask    \* an empty handler variable

ASSUME WorkersAssumption == Workers # {}
ASSUME NoTaskAssumption == NoTask \notin Tasks
ASSUME BatchesAssumption ==
    /\ Batches \subseteq Seq(Tasks)
    /\ \A b \in Batches : \A i, j \in 1..Len(b) : b[i] = b[j] => i = j

VARIABLES queue,    \* queue_
          stop,     \* stop_
          pc,       \* where each worker is in run_impl
          handler,  \* the local variable handler of each worker
          main,     \* the thread that owns the pool
          added,    \* history: the tasks submitted so far
          promised, \* history: those submitted before stop, or by a handler
          executed  \* history: how often each task has been run to its end

poolVars == <<queue, stop, pc, handler, main>>
vars == <<queue, stop, pc, handler, main, added, promised, executed>>

\* "new": not started; "loop": about to lock and test; "wait": asleep in
\* cond_.wait; "woken": to re-lock and re-test; "notify": holds a task, about
\* to notify; "run": inside the handler; "exited": the thread is over.
PCs == {"new", "loop", "wait", "woken", "notify", "run", "exited"}

InQueue(t) == \E i \in 1..Len(queue) : queue[i] = t
Asleep == {w \in Workers : pc[w] = "wait"}
Holds(w) == pc[w] \in {"notify", "run"}

TypeOK ==
    /\ queue \in Seq(Tasks)
    /\ stop \in BOOLEAN
    /\ pc \in [Workers -> PCs]
    /\ handler \in [Workers -> Tasks \cup {NoTask}]
    /\ main \in {"running", "joining", "stopped"}
    /\ added \in SUBSET Tasks
    /\ promised \in SUBSET added
    /\ executed \in [Tasks -> Nat]

Init ==
    /\ queue = <<>>
    /\ stop = FALSE
    /\ pc = [w \in Workers |-> "new"]
    /\ handler = [w \in Workers |-> NoTask]
    /\ main = "running"
    /\ added = {}
    /\ promised = {}
    /\ executed = [t \in Tasks |-> 0]

-----------------------------------------------------------------------------
\* pc after the sleepers in S have been notified.
Wake(S) == [w \in Workers |-> IF w \in S THEN "woken" ELSE pc[w]]

\* notify_one: some sleeper, if there is one.
NotifyOne ==
    \/ Asleep = {} /\ UNCHANGED pc
    \/ \E w \in Asleep : pc' = Wake({w})

NotifyAll == pc' = Wake(Asleep)

\* What every add_task records: a task is owed once it was submitted before
\* the stop, or from inside a handler.
Record(ts, nested) ==
    /\ nested => \E w \in Workers : pc[w] = "run"
    /\ added' = added \cup ts
    /\ promised' = IF stop /\ ~nested THEN promised ELSE promised \cup ts

\* Mutant: the lock is released and nobody is notified.
AddTaskSilently(t, nested) ==
    /\ t \notin added
    /\ queue' = Append(queue, t)
    /\ UNCHANGED pc
    /\ Record({t}, nested)
    /\ UNCHANGED <<stop, handler, main, executed>>

\* add_task(h), by a client thread or by a handler that is running.
AddTask(t, nested) ==
    /\ t \notin added
    /\ queue' = Append(queue, t)
    /\ NotifyOne
    /\ Record({t}, nested)
    /\ UNCHANGED <<stop, handler, main, executed>>

\* add_task(vector): all of it under one lock, then notify_all.
AddTasks(b, nested) ==
    LET ts == {b[i] : i \in 1..Len(b)} IN
    /\ ts \cap added = {}
    /\ queue' = queue \o b
    /\ NotifyAll
    /\ Record(ts, nested)
    /\ UNCHANGED <<stop, handler, main, executed>>

-----------------------------------------------------------------------------
\* thread_pool::run starts the threads.
Start(w) ==
    /\ pc[w] = "new"
    /\ pc' = [pc EXCEPT ![w] = "loop"]
    /\ UNCHANGED <<queue, stop, handler, main, added, promised, executed>>

\* Mutant: the handler is copied and stays at the front of the queue.
PopKeeping(w) ==
    /\ queue # <<>>
    /\ handler' = [handler EXCEPT ![w] = Head(queue)]
    /\ pc' = [pc EXCEPT ![w] = "notify"]
    /\ UNCHANGED <<queue, stop, main, added, promised, executed>>

\* The front of the queue is moved into handler, the mutex released.
Pop(w) ==
    /\ queue # <<>>
    /\ handler' = [handler EXCEPT ![w] = Head(queue)]
    /\ queue' = Tail(queue)
    /\ pc' = [pc EXCEPT ![w] = "notify"]
    /\ UNCHANGED <<stop, main, added, promised, executed>>

\* Mutant: the flag alone ends the thread.
ExitAtOnce(w) ==
    /\ stop
    /\ pc' = [pc EXCEPT ![w] = "exited"]
    /\ UNCHANGED <<queue, stop, handler, main, added, promised, executed>>

\* Nothing queued and the pool stopped: break, and the thread ends.
Exit(w) ==
    /\ queue = <<>>
    /\ stop
    /\ pc' = [pc EXCEPT ![w] = "exited"]
    /\ UNCHANGED <<queue, stop, handler, main, added, promised, executed>>

\* Mutant: the worker sleeps without testing the flag.
SleepRegardless(w) ==
    /\ queue = <<>>
    /\ pc' = [pc EXCEPT ![w] = "wait"]
    /\ UNCHANGED <<queue, stop, handler, main, added, promised, executed>>

\* Nothing queued and not stopped: sleep in cond_.wait.
Sleep(w) ==
    /\ queue = <<>>
    /\ ~stop
    /\ pc' = [pc EXCEPT ![w] = "wait"]
    /\ UNCHANGED <<queue, stop, handler, main, added, promised, executed>>

\* The critical section of run_impl, entered from the top of the loop or on
\* return from the wait: both test the queue first and the flag second.
Decide(w) ==
    /\ pc[w] \in {"loop", "woken"}
    /\ Pop(w) \/ Exit(w) \/ Sleep(w)

\* A condition variable may wake a sleeper for no reason.
Spurious(w) ==
    /\ pc[w] = "wait"
    /\ pc' = [pc EXCEPT ![w] = "woken"]
    /\ UNCHANGED <<queue, stop, handler, main, added, promised, executed>>

\* notify_all, after the mutex is released.
Announce(w) ==
    /\ pc[w] = "notify"
    /\ pc' = [Wake(Asleep) EXCEPT ![w] = "run"]
    /\ UNCHANGED <<queue, stop, handler, main, added, promised, executed>>

\* handler() returns.
Finish(w) ==
    /\ pc[w] = "run"
    /\ executed' = [executed EXCEPT ![handler[w]] = @ + 1]
    /\ pc' = [pc EXCEPT ![w] = "loop"]
    /\ UNCHANGED <<queue, stop, handler, main, added, promised>>

-----------------------------------------------------------------------------
\* stop(): raise the flag and notify_all under the lock, then join.  The
\* owner calls it after run() has returned.
Stop ==
    /\ main = "running"
    /\ \A w \in Workers : pc[w] # "new"
    /\ stop' = TRUE
    /\ NotifyAll
    /\ main' = "joining"
    /\ UNCHANGED <<queue, handler, added, promised, executed>>

Join ==
    /\ main = "joining"
    /\ \A w \in Workers : pc[w] = "exited"
    /\ main' = "stopped"
    /\ UNCHANGED <<queue, stop, pc, handler, added, promised, executed>>

Worker(w) == Start(w) \/ Decide(w) \/ Announce(w) \/ Finish(w)

Next ==
    \/ \E t \in Tasks, nested \in BOOLEAN : AddTask(t, nested)
    \/ \E b \in Batches, nested \in BOOLEAN : AddTasks(b, nested)
    \/ \E w \in Workers : Worker(w) \/ Spurious(w)
    \/ Stop
    \/ Join

\* Threads are scheduled and handlers return; nobody has to submit or stop.
Fairness == (\A w \in Workers : WF_vars(Worker(w))) /\ WF_vars(Join)

Spec == Init /\ [][Next]_vars /\ Fairness

-----------------------------------------------------------------------------
\* When stop() has returned, every task submitted before it, and every task a
\* handler submitted at any time, has run exactly once (thread_pool.h:148-176
\* tests the queue before stop_, and stop() joins).
StopDrains ==
    main = "stopped" => \A t \in promised : executed[t] = 1

\* No task runs twice, and none is lost: what was added is queued once, or in
\* the hands of one worker, or done, and never two of these (pop under the
\* lock, handler moved out of the queue).
ExactlyOnce ==
    \A t \in Tasks :
        LET queued == {i \in 1..Len(queue) : queue[i] = t}
            held   == {w \in Workers : Holds(w) /\ handler[w] = t}
        IN  Cardinality(queued) + Cardinality(held) + executed[t]
                = IF t \in added THEN 1 ELSE 0

\* A task never waits while a worker sleeps, unless some worker is on its way
\* to the queue or about to wake the sleepers: no notification is lost between
\* the test of the predicate and the sleep.
NoIdleSleeper ==
    queue # <<>> /\ Asleep # {} =>
        \E w \in Workers : pc[w] \in {"loop", "woken", "notify"}

\* stop() returns, whatever is queued and wherever the workers are.
StopReturns == main = "joining" ~> main = "stopped"

\* Queue, workers and stop() hidden: what a user of the pool can tell.
Pool == INSTANCE TaskPool WITH submitted <- added, owed <- promised,
                               runs <- executed, closed <- (main = "stopped")

\* The pool is a TaskPool: with its queue, its workers and its stop() hidden, a
\* task is run at most once, an owed one is run in the end, and when stop() has
\* returned nothing is owed and nothing runs any more.
IsTaskPool == Pool!PoolSpec
=============================================================================
