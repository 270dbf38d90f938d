# A TLA+ model of cppev

cppev is a C++ library for event-driven programs: an event loop over epoll or
kqueue, a multi-threaded TCP reactor on top of it, a thread pool, an
asynchronous logger, process-shared locks, shared memory, a scheduler and a
subprocess wrapper. This directory holds TLA+ modules that model the parts of
it where threads, processes, peers and the kernel interleave, TLC
configurations that check them on small instances, and TLAPS proofs of the most
important safety properties for instances of every size.

Line numbers refer to `src/src/lib/*.cc` and `src/src/include/cppev/*.h`.

## 1. Inventory

| Component | State | Operations | Interacts with | What is hard |
|---|---|---|---|---|
| `thread_pool_task_queue` (`thread_pool.h`) | `queue_`, `stop_`, one mutex, one condition variable, the workers | `add_task` (three forms), `run_impl`, `run`, `stop`, `join`, `cancel` | client threads and handlers call `add_task`; the owner calls `stop` | lost wake-ups; stop with tasks queued; the join that never ends |
| reactor connections (`tcp.cc`) | per socket: descriptor, flags, write buffer, loop; per loop: callbacks | `on_readable`, `on_writable`, `on_acpt_writable`, `on_cont_writable`, `async_write`, `safely_close` | acceptor and connector threads, the event loop, user callbacks, the peer | hand-written moves of the interest between read and write; callbacks that close or write in the middle of a handler; reuse of descriptor numbers |
| event loop, epoll (`event_loop_epoll.cc`, `event_loop.h`) | `fds_`, `fd_cbs_`, the epoll set, `stop_` | `fd_register`, `fd_remove`, `loop_once`, `loop_forever`, `stop_loop_forever` | used from other threads by acceptors and connectors | EEXIST/ENOENT/EBADF throw in a thread nobody guards; batches with stale entries; waking a loop to stop it |
| event loop, kqueue (`event_loop_kqueue.cc`) | as above plus `fd_events_` | the same | the same | its record of registered events must agree with the kernel's |
| connector (`tcp.cc`) | `hosts_`, a pipe and its write buffer, `failures_` | `tcp_client::add`, `connector::add`, `on_pipe_readable` | the client thread and the connector's loop | a task stored between the drain of the pipe and the swap; a full pipe; the division of the count |
| acceptor, `tcp_server`, `tcp_client` (`tcp.cc`) | thread pools of acceptors, connectors, workers | `listen`, `run`, `shutdown`, `minloads_get_evlp` | everything above | order of the shutdown; loads read without a lock while they change |
| `async_logger` | two buffers, `curr_`, recursive lock, `recur_level_`, `stop_` | `operator<<`, `log::endl`, `run_impl`, destructor | any logging thread, the writer thread | a lock kept over several calls; a buffer written without the lock; a notification without the lock |
| `pshared_one_time_fence`, `pshared_barrier` (`lock.cc`) | `ok_`, `count_`, mutex, condition variable | `wait`, `notify` | processes that share memory | tests outside the lock; released waiters that test again |
| `pshared_lock`, `pshared_cond`, `pshared_rwlock`, guards, `spinlock` | the pthread objects, the pointer `rwlock_` of a guard | lock, unlock, wait, notify; move of a guard | the above | a process that dies with the lock; a guard destroyed after its `unlock()` |
| `buffer` (`buffer.h`) | `cap_`, `start_`, `offset_` | `resize`, `tiny`, `clear`, `produce`, `consume`, `put_string`, `get_string` | streams, logger | doubling beyond 2^30; `consume` beyond the contents |
| `nstream` (`nio.cc`) | two buffers, `eof_`, `eop_`, `reset_` | `read_chunk`, `write_chunk`, `read_all`, `write_all` | kernel, reactor | stopping in the middle on EAGAIN, end and reset |
| `shared_memory`, `semaphore` (`ipc.cc`) | segment, `creator_`; counter | constructor (open/create/open), `unlink`, `acquire`, `release` | other processes | the creator clears a segment others already use |
| `timed_scheduler` (`scheduler.h`), `gcd`/`lcm` (`utils.cc`) | table of intervals, `stop_` | constructor, `run_impl`, destructor | user tasks, the clock | truncated intervals, a clock coarser than the table, huge tables, stop in a long gap |
| `subp_open` (`subprocess.cc`) | pid, three pipes, exit state | `poll`, `wait`, `communicate`, `terminate` | the child | full pipes, output between the last drain and the exit, a second `poll` |
| `runnable` (`runnable.h`) | thread, promise | `run`, `join`, `detach`, `cancel`, `wait_for` | pools, logger | cancellation |
| string, signal and loader utilities, `sysconfig`, socket options | none, or one system call | | | index arithmetic of `split`, `strip` and `join` |

What makes each correct:

* pool: an accepted task runs exactly once, no wake-up is lost, `stop` drains
  the queue and returns;
* connections: no system call of a handler fails, a live connection always
  waits for the right event, `on_closed` comes once and last, output is sent, a
  peer's end is noticed;
* connector: every connection asked for is tried once, a stored task always has
  a wake-up coming;
* logger: whole lines in order, nothing lost between the two buffers, finished
  lines get written, the destructor returns;
* fence and barrier: nobody passes early, nobody sleeps for ever, surplus calls
  fail;
* buffer and streams: the bytes that come out are the bytes that went in;
* shared memory: an object is used only when it is constructed;
* rwlock guards: a writer is alone, and every lock is unlocked once;
* subprocess: all output is read, no call blocks for ever;
* scheduler: every task runs at its frequency, lateness does not add up, exit
  tasks come last.

## 2. Plan

All modelling steps of the plan are done:

1. `TaskQueue`, with proofs; the abstract `TaskPool` and the proof that
   `TaskQueue` implements it.
2. `Connection`: handlers, event loop, descriptor table and peer in one module,
   because every hazard there lies between them; the epoll and the kqueue
   backend behind the same handlers; with proofs for the server that answers.
3. `Connector`, with proofs that no wake-up and no connection is lost.
4. `AsyncLogger`, with proofs.
5. `PsharedFence`, `PsharedBarrier`, with proofs, and `PsharedSync`, which
   composes them, with the proof that neither disturbs the other.
6. `Reactor`: the life of a server or a client from `run` to `shutdown`, with
   proofs.
7. `Buffer`, `Stream` on top of it, `Subprocess` on top of both, and the
   abstract `Fifo` that the whole way of the bytes implements, with the proof
   that it does.
8. `Ipc`: shared memory and semaphore together, and `RwLock`: the rwlock and its
   guards, both with proofs; `Session`, which composes them with `PsharedSync`,
   with the proof that what holds of the parts holds of the whole.
9. `Scheduler`, with `gcd` and `lcm`, with proofs.

The proofs of the safety properties of all modules are done (section 6). What is
left: the invariant of `Connection` for callbacks that close, with epoll and peers
that keep their streams open.

## 3. Modules

| Module | Code | Checked by | Proved in |
|---|---|---|---|
| `TaskQueue`, `TaskPool` | `thread_pool.h` 24-206 | `MCTaskQueue` | `TaskQueueProofs` |
| `Connection` | `tcp.cc` 34-193, `event_loop_epoll.cc`, `event_loop_kqueue.cc`, `nio.cc` read, write, accept, close | `MCConnection` (adds the symmetry of the sockets) | `ConnectionProofs` |
| `Connector` | `tcp.cc` 208-297, 371-405 | `MCConnector` | `ConnectorProofs` |
| `Reactor` | `tcp.cc` 17-31, 108-205, 305-436, `event_loop.h` 69-114, `runnable.h` run, join | `MCReactor` (adds the ways of the connections) | `ReactorProofs` |
| `AsyncLogger` | `async_logger.cc` | `MCAsyncLogger` | `AsyncLoggerProofs` |
| `PsharedBarrier` | `lock.cc` 180-213, 249-270 | `MCSession`, `MCPsharedSync` | `IpcProofs` |
| `PsharedFence` | `lock.cc` 180-213, 216-241 | `MCSession`, `MCPsharedSync` | `IpcProofs` |
| `PsharedSync` | the two in one segment, as in `unittest/test_ipc.cc` | `MCSession`, `MCPsharedSync` | `IpcProofs` |
| `Buffer` | `buffer.h` 22-186 | through `MCSubprocess` | `SubprocessProofs` |
| `Stream`, `Fifo` | `nio.cc` 57-167 | through `MCSubprocess` | `SubprocessProofs` |
| `Subprocess` | `subprocess.cc`, `subprocess.h` | `MCSubprocess` | `SubprocessProofs` |
| `Ipc` | `ipc.cc`, `ipc.h`, the processes of `unittest/test_ipc.cc` | `MCSession` | `IpcProofs` |
| `RwLock` | `lock.cc` 273-449 | `MCSession` | `IpcProofs` |
| `Session` | the three in the processes of `unittest/test_ipc.cc` | `MCSession` (adds the processes of the threads) | `IpcProofs` |
| `Scheduler` | `scheduler.h`, `utils.cc` 50-93 | `MCScheduler` (adds the tasks) | `SchedulerProofs` |

A definition whose comment begins with *Mutant* is a plausible bug of the
definition that follows it. No specification uses it; putting it in that
definition's place must break the property that `PROJECT.json` names.

**TaskQueue.** Each critical section under `lock_` is one step, since the only
blocking call in it, `cond_.wait`, releases the lock. The `notify_all` a worker
issues after unlocking (`thread_pool.h:173`) is a step of its own. `Decide` is
the body of `run_impl` up to the pop: the queue is tested first, `stop_` second,
both at the top of the loop and after a wake-up. Wake-ups may be spurious. A
task may be submitted by a client or, `nested`, by a running handler, and also
after `stop()`; `promised` records the tasks the pool owes: those submitted
before the flag was raised and those submitted by handlers. The forms of
`add_task` for an lvalue and an rvalue do the same to the queue.

**TaskPool** says the same without queue, workers and locks: tasks are submitted,
some of them owed, each is run at most once, the pool closes only when nothing
is owed and is then quiet, and what is owed is run. The mapping hides the queue
and the workers and takes a returned `stop()` for the close.

**Connection.** A socket object goes from `Accept` (the kernel gives the lowest
free descriptor) through the two halves of `fd_register`, `Store` and `Publish`
(between them the worker may run), to a worker's loop. `Poll` is `epoll_wait` or
`kevent` with the queueing of the callbacks, `Dispatch` starts one. A handler is
a list of steps (`Program`), and a user callback pushes the steps of
`async_write` or `safely_close` in front of what is left, so the nesting of the
code (a handler calls the user, who calls `async_write`, which calls the user)
is kept. Between any two steps the peer, the other loops and the accepting
thread may act. `fault` is set where the code throws: a failed `epoll_ctl`
(EEXIST, ENOENT, EBADF) or `kevent` (ENOENT, EBADF), or a read, write or close
of a number that no longer belongs to the socket. Nothing in the reactor catches
these exceptions, so a fault ends the process and the model stops. `fds` holds
callbacks by descriptor number, as `fds_` does, and `Erase` removes all of them;
a reused number is therefore told apart from the connection that had it before.
The user's callbacks are policies: which of doing nothing, writing and closing
they may choose. `backend` is fixed in the initial state: with epoll an event is
reported while it holds and a descriptor is added once; with kqueue an event is
reported once after it occurred (`hot`, EV_CLEAR), adding is idempotent, and
`fd_remove` deletes what `fd_events_` recorded (`events`), event by event.

**Connector.** One thread calls `tcp_client::add`; `Split` is the division of
the count. `Flush` and `Drain` move one byte at a time, so that the other thread
may act in between. What the pipe refuses stays in the write buffer.

**Reactor.** The controlling thread walks through the threads in the order of
`run()` and of `shutdown()`; `stop_loop_forever` is two steps, the flag and the
pipe that hangs up. Each thread tests `stop_`, waits in the kernel, and works; a
source (acceptor or connector) takes a batch and for each connection goes through
`minloads_get_evlp`: worker by worker it compares the loads with the least so far
(`Look`) and, when they are smaller, reads them again to note them (`Note`), each
read a step of its own, while other sources hand over and workers change their
tables. `Loads` is the number of entries of `fds_`: the handler of a new connection
removes its entry (`Serve`), stores `on_writable` (`Hook`) and after the user's
callback `on_readable` (`Open`), so that the loads of a worker go from one to none
and to two. The two entries of an ended connection go in one step (one `erase` in
`fd_remove`), although `ev_loads` may be read between them; while a
worker without connections is there only loads of zero are chosen, so that a number
in between makes no difference to `NoneOverlooked`. What a worker does with a connection meanwhile
is `Connection`.

**AsyncLogger.** The recursive mutex is an owner and a depth; `Put` returns with
the lock held, as `operator<<` does, and `EndLine` gives up as many levels as
`recur_level_` says. `Test` and `Sleep` are separate steps: the destructor
notifies without the lock and can fall between them. A line is a sequence of
pieces: header, texts, end.

**PsharedBarrier, PsharedFence, PsharedSync.** `pshared_cond::wait` with a
predicate is a loop around `pthread_cond_wait`; the test after each wake-up is a
step with the lock held. The fence reads `ok_` once before it locks: a plain
`bool` read and written without synchronisation, of which the read may return
the old or the new value; as a step of its own it does both. `PsharedSync` lets
each process go through the fence and then to the barrier, as the processes of
`unittest/test_ipc.cc` (258-325) do. Its specification is `SyncSpec`. The barrier
may be called more often than it counts, as that test does.

**Buffer, Stream, Subprocess, Fifo.** A buffer is a value with capacity, two
offsets and its memory, so that wiping, doubling and moving are visible. `Stream`
makes every `read` and `write` of `read_all` and `write_all` a step: `left` is
what the current chunk may still move, and a full chunk starts the next one.
`Subprocess` puts a parent (`communicate`, `poll`, `wait`) and a child that
copies its input, itself written with streams, at the two ends of three pipes
that may be full or empty at any moment; the child may leave or be killed. The
bytes are numbered; `Fifo` says that the numbers arrive in order without gap or
repetition, and the mapping shows it only what was sent and what has come back.

**Ipc.** A constructor of `shared_memory` or `semaphore` is open, create with O_EXCL,
open again, each a step; the creator of a segment sizes and clears it after the name
is visible to all. What the processes do with the two is taken from
`unittest/test_ipc.cc`, in two forms. `Gated` is `test_sem_shm_by_fork` (44-123): the
parent opens the segment, fills it, opens the semaphore and releases the permits; a
child opens the semaphore and acquires its permits, one by one, and only then opens
the segment; the parent waits for its children, and whoever created an object unlinks
it. Not `Gated` is `test_shm_one_time_fence_barrier_by_fork` (258-325): parent and
child open the segment, whoever created it constructs the object, and both use it at
once. The model has any number of children and of permits for each. With more than
one child an early child that created the semaphore unlinks it when it is through,
and a late one may then create and wait on a semaphore nobody releases: that all
processes end is not claimed. `acquire` throws when a signal interrupts it; a process
may die at any step.

**RwLock.** Each user locks through a guard, whose pointer moves between two objects
(move construction, and assignment to the object moved from, as in
`unittest/test_lock.cc` 35-37), may call `unlock()` and `lock()`, and destroys it. The
destructor unlocks whenever the guard has a pointer, also after `unlock()`
(`lock.cc:384`, `429`): unlocking a `pthread_rwlock` one does not hold is undefined,
so `Destroy` leaves the lock in any state then and sets `stray`. Users may die inside,
several at once when they are threads of one process, and leave the lock taken.

**Session.** The three together: processes open the segment as in `Ipc`, and the
threads of those that have got it call the object in it, which is a struct with a
rwlock (as in `test_ipc.cc` 125-165) or one with a fence and a barrier (258-325),
chosen in the initial state. `Home` gives the process of each thread. A process leaves
when none of its threads is inside a call or has a guard; it may die at any moment but
inside a call of the fence or the barrier, and its death takes the users of the lock
inside with it. The run has the semaphore in front of both objects; the test of the
fence has none (section 5).

**Scheduler.** Intervals are truncated quotients of a second; `Period` and
`Grain` are their least common multiple and greatest common divisor, `Stamps`
the table laid out with them. The thread walks the table, sleeps until each time
point (`next`, the code's `tp_next`) and when it has woken makes it `tp_curr` (`tp`).
The table counts nanoseconds and the clock ticks of `unit` nanoseconds: `Cast` is
what `Clock::now`, `duration_cast` and `time_point_cast` do to a time. With
`unit = 1` (`system_clock` of libstdc++) nothing is cut off; with libc++ on macOS
`system_clock` counts microseconds, and an interval such as 333,333,333 ns loses a
part of a tick at every time point. The clock may run ahead of the thread. Three
histories place the thread: `place`, the nanoseconds of table gone through,
`points`, the number of time points gone through, and `until`, the first place not
begun when `stop_` was set. `gcd` is the code's loop as a recursive function.
`ArgsAssumption` says what the code asserts of its arguments: no interval is zero.

## 4. Runs

| Run | Instance | Shows |
|---|---|---|
| `task_queue` | 3 workers, 3 tasks, vectors of 0, 1 and 2 | `ExactlyOnce`, `StopDrains`, `NoIdleSleeper`; `StopReturns`, `IsTaskPool` (refinement) |
| `connection_echo` | epoll and kqueue, an accepted and a dialled connection, 1 loop, answers of 2 bytes, a kernel that takes 1 | `NoFault`, `NeverStranded`, `ClosedIsFinal`; `OutputSent`, `EndNoticed`, with peers that end or reset at any moment |
| `connection_close` | epoll, 2 connections, 2 loops, closing callbacks | `NoFault`, `NeverStranded`, `NoOutputDropped` under immediate reuse of descriptor numbers |
| `connector` | 2 connectors, 2 hosts, counts 1 and 3, a pipe of one byte | `EachConnectionOnce`, `NoTaskForgotten`; `AllAttempted` |
| `reactor` | 2 workers, 1 connector, 3 connections in batches of 2, connects that may fail (239,222 states) | `NoneLate`, `NoneOverlooked`; `ShutdownReturns`, `ArrivalsServed` |
| `async_logger` | 2 threads, 2 lines each of up to 2 pieces | `OrderKept`, `LinesWhole`; `LinesWritten`, `DestructorReturns` |
| `session` | a parent and 2 children, 2 permits each, 1 death; 3 users of a rwlock, or 1 waiter with 3 calls of `wait` and 3 notifiers, the four at a barrier for 3, up to 6 calls (309,925 states) | `UsedWhenReady`, `Exclusion`, `FreeAfterwards`, `NoneBefore`, `NoLateSleeper`, `NoneEarly`, `CallsAddUp`; `WaitReturns` |
| `subprocess` | chunks of 2, pipes of 2, up to 3 bytes and 1 error byte | `InBounds`, `StringsEnd`, `AllCollected`; `WaitEnds`, `IsFifo` (refinement) |
| `scheduler` | 3 tasks, four sets of frequencies and priorities, aligned and not, clocks that tick every unit and every second one, 20 units of time, up to 4 late (45,402 states) | `OnTime`, `Punctual`; `SchedulerEnds` |
| `connection_close_at_eof` | epoll, 1 connection | **violated** `NoFault`, finding 1 |
| `connection_kqueue_reuse` | kqueue, 2 connections, 1 descriptor | **violated** `NoFault`, finding 2 |
| `pshared_surplus` | 1 waiter, 1 notifier, a barrier for 2, 3 calls | **violated** `Released`, finding 3 |

**Bounds.** Three workers let one run, one sleep and one wake; three tasks let a
vector, a single task and a task of a handler meet. Two connections are the
least at which a number is reused while its old owner is still being served and
at which a batch has two entries; an answer of two bytes into room for one is
the least partial write; one loop suffices where the connections do not meet in
the descriptor table, and two are used where they do. Counts 1 and 3 with two
connectors are below the number of connectors and not a multiple of it; a pipe
of one byte is full as soon as it is used. With one source a worker can have two
connections, the most `NoneOverlooked` allows, while the other has none: the source
reads its loads when its handler has removed the entry of the first. Three
connections are the least that would violate it. With two sources the most is three;
that instance with four connections has 8.9 million states, and both invariants were
checked on it once. The theorems are for any number of sources. Two lines of two threads let the swap fall before, within and after a
line of either. Six calls at a barrier for three give surplus calls before,
during and after the release. Three bytes through chunks and pipes of two fill a
chunk, a pipe and leave a rest, and make a buffer double twice. A parent and two
children let either side create the semaphore and the children compete for permits.
Three users, each in a process of its own, let one release the lock of a second
under a third. Intervals of 2, 3,
4, 5 and 6 units give a period longer than every interval and a common divisor
of one or more; 20 units of time cover the longest period, 12, and its
join with the next, and the period of 10 twice; on a clock that ticks every second
unit the intervals of 3 and 5 are cut off and those of 2, 4 and 6 are not; four units
of lateness exceed every gap between two time points. Deadlock checking is off because
all of these systems may legitimately come to rest.

**Fairness.** Weak fairness of each thread that the code keeps running: workers,
loops, connector threads, the thread that has called `shutdown`, the writer, the
scheduler and its clock, a thread inside a call of the fence or the barrier. It stands for the operating
system's scheduling and for handlers that return. Nobody has to submit, log,
connect, stop, shut down or wake up spuriously. A peer is assumed to go on
reading what the kernel holds for it (`OutputSent` and `EndNoticed` are about
such peers). A thread in the middle of a log line finishes it. The child of
`Subprocess` has to go on only once it is leaving, which is what `WaitEnds` is
about. No fairness is assumed of `Arrive`: nobody has to reach the barrier.

## 5. What the violated runs show

1. **Closing after the answer.** When the request and the end of the stream
   arrive in one read, `on_read_complete` answers, the answer goes out at once
   and `on_write_complete` closes (as in
   `examples/file_transfer/file_transfer_server.cc`), `on_readable` continues
   with `fd_remove` on the closed descriptor (`tcp.cc:77-80`) and throws.
2. **A closed descriptor with kqueue.** `safely_close` relies on the kernel to
   forget a closed descriptor (`tcp.cc:53`), and the kernel does; the record
   `fd_events_` stays. The next connection with the number adds its events to
   the stale ones, and its first `fd_remove` deletes an event that is not
   watched: ENOENT, thrown in the worker.

3. **A surplus call at the barrier.** `wait()` decrements `count_` first and throws
   when it is negative (`lock.cc:257-264`). A waiter that the last arrival has
   released tests `count_ == 0` again when it gets the mutex: if the surplus call
   was faster, `count_` is -1 and the waiter sleeps for ever. `test_ipc.cc:314-323`
   makes this call in the parent straight after its own `wait()`, expects it to
   throw, and expects the child to end with 0.

Some weaknesses are visible in the models without a run of their own:

* A segment may be used while it is made. Its name is visible from `shm_open` on;
  `ftruncate`, `memset` and `construct` come later (`ipc.cc:46-63`).
  `test_ipc.cc:279-312` lets two processes open one name with nothing between them;
  the one that is not the creator uses the object at once, before it has a size (the
  access faults), before it is cleared (what was written is lost) or before it is
  constructed: with `Gated = FALSE`, `UsedWhenReady` is violated. Where a semaphore
  comes first, as in `test_ipc.cc:44-123`, this cannot happen (`session`).
* `async_write` from `on_accept` or `on_connect` with a message the kernel does
  not take whole calls `fd_remove` for a descriptor that is in no epoll set
  (`tcp.cc:117-121`): `connection_echo` with `"write"` in `OnOpen` violates
  `NoFault`. The runs keep `OnOpen` idle.
* The logger's destructor notifies without the lock and the notification can be
  lost (`missed` in `DestructorReturns`); lines logged after the last swap are
  not written once `stop_` is set (`LinesWritten` speaks of a living logger).
* The fence serves one waiter: `notify` wakes one and later calls return early.
* A guard that is destroyed after its `unlock()` unlocks again and may release
  another's lock: `Exclusion` and `FreeAfterwards` hold up to the first one
  (`stray`).
* The loads of the workers stay in no fixed proportion: a worker that is just
  opening a connection shows one entry too few, and every source may choose it at
  that moment. What does hold is `NoneOverlooked`.

## 6. Proofs

All proofs are for every value of the constants under the assumptions named in
the modules.

**TaskQueueProofs** assumes a non-empty set of workers, that `NoTask` is no task
and that a vector holds no task twice. The properties are not inductive by
themselves: `ExactlyOnce` needs that the queue has no duplicates
(`QueueInjective`), that what is queued or held is submitted and not yet run
(`QueuedFresh`, `HeldFresh`) and that nothing submitted is nowhere
(`Accounted`). `StopDrains` needs where owner and workers are in the stop
protocol (`StopProtocol`) and that the last worker to leave leaves no owed task
behind (`NoneLeftBehind`): a worker leaves only when the queue is empty, and
afterwards only handlers of other workers can add owed tasks.
`AddingKeepsInv` treats all forms of `add_task` at once. Results:
`TypeCorrect`, `StopDrainsHolds`, `NoLostWakeup`, `ExactlyOnceHolds`, and
`ImplementsTaskPool`: under the same invariant the initial state maps to an
initial state of `TaskPool` and every step to one of its steps or to none. The
invariant is needed for two of them: that a finished task had not been run
before, and that nothing is owed when `stop()` returns.

**ConnectorProofs** assumes at least one connector and a pipe of at least one
byte. `NoTaskForgotten` becomes inductive with `FlushInv`: a caller inside
`write_all` whose write buffer is empty has put its byte into the pipe, and the
byte is there, or the connector is draining, or the table has been taken. A
full pipe keeps the invariant because it is not empty. `SplitType` shows that
the division yields calls of `connector::add`.

`EachConnectionOnce` adds numbers up over the calls still to be made and over the
connectors, so the module first proves what a sum over a finite set is. The fold
of the community modules is defined by a recursive choice; `PartialExist` and
`SumIs` show that it exists, `AnyOrder` that the order of the elements does not
matter, and from there a sum is a number (`SumNat`), splits (`SumApart`), moves
with one of its terms (`SumChange`), is not changed by renumbering (`SumShift`)
and is a product when its terms are equal (`SumEqual`). With these,
`SplitPlanned` shows that the equal parts and the remainder add up to the count,
and each action moves a number from one term of the account to another or
nothing at all. The one strengthening is `TakenInv`: a connector that is not
connecting has an empty table of its own, so the swap overwrites nothing.
Results: `TypeCorrect`, `NoTaskForgottenHolds`, `EachConnectionOnceHolds`.

**AsyncLoggerProofs** assumes that the writer is none of the logging threads.
`LockInv` says who has the recursive lock and that `recur_level_` is its depth,
`SwapInv` that the buffer not being filled belongs to the writer, `LogInv` that
the log is made of lines of which the last is open exactly while a thread has
the lock, and `CutInv` that only the buffer being filled may stop in the middle
of a line. `OrderKept` is inductive with the first two, `LinesWhole` follows from
the last two and `OrderKept`: what is written is a beginning of the log that ends
at the end of a line. Results: `TypeCorrect`, `OrderIsKept`, `LinesAreWhole`.

**ReactorProofs** assumes at least one worker and one source, a batch of at least
one and finitely many connections. `AtInv` and `OrderInv` follow the loops of
`run()` and `shutdown()`: no worker is told to stop before every source has
ended. `HomeInv` says where a connection is, and that a taken one belongs to a
source in the middle of its batch; together they give `NoneLate`. For
`NoneOverlooked`, `OpeningInv` says that a worker opens at most one connection at a
time, the only one its loads do not show; `ScanInv` that a source which has passed a
worker without any connection has noted loads of none, so that it has chosen a worker
with nothing to show; and `SpreadInv` that, as long as some worker has been given
nothing, the connections of any other and the choices under way for it are at most
one for each source and one. Results: `TypeCorrect`, `NoneIsLate`,
`NoneIsOverlooked`.

**IpcProofs** assumes a finite set of at least two processes and at least one permit
for each child. For the gated session `GateInv` consists of `ParentInv` (the parent
creates the segment and goes on to the semaphore when the object is in it),
`ChildInv` (a child comes to the segment only with a permit), `NameInv` (the name
stands for the parent's segment as long as a child may open it) and `PermitInv` (no
semaphore has a permit before the segment is filled). `UsedOnlyWhenReady` has
`Gated` as its hypothesis: without it the property is false (section 5). For the
rwlock `RwInv` says that, as long as no guard was destroyed after its `unlock()`, the
lock counts those inside and the dead, and that a user has one pointer between his two
guards. Results: `TypeCorrect`, `UsedOnlyWhenReady`, `GuardsExclude`,
`LockIsFreeAfterwards`.

The second half of **IpcProofs** proves the fence, the barrier and their
composition, what else processes keep in a segment. The fence has
`NoneBeforeHolds` for any waiters, with `Begun` (the flag is set only after a
`notify` has begun), and `NoLateSleeperHolds` under the hypothesis that
there is one waiter: with two it is false, as `notify` wakes one thread only. The
barrier assumes finitely many threads; `CounterInv` relates `count_` to the number
of calls, `BusyMore` and `BusyLess` count the threads inside `wait`. Results:
`NoneEarlyHolds`, `CallsAddUpHolds`. `Separate` shows that a step of the
composition is one of the fence or of the barrier and leaves the other's variables
alone, which carries all four over to it: `SyncHolds`, `SyncWakesWaiter`.

For the whole session, `Parts` shows that each of its steps is a step, or none, of the
hand-over, of the fence, of the barrier and of the rwlock (a death is one of the
hand-over and one of the rwlock), so that the invariants of the four hold together.
Result: `SessionHolds`, under the hypothesis `Gated`.

**SubprocessProofs** assumes chunks and pipes of at least one byte. It begins with
what the operations of a buffer do, each with offsets inside the array and zeros
behind the contents as hypothesis and conclusion: `Resize` makes room by doubling
(`Doubled` needs that a power of two exceeds every number), `Tiny` moves the
contents to the front, `Produce` appends to them, `Consume` and `Clear` take
from them. From these come the moves of a stream (`read_all` and `write_all`, a
chunk at a time) and then the steps of parent and child. The invariant: `TypeOK`
with good buffers, `ModeInv` (why `communicate` runs and what is known when it
does), `EmptyInv` (the last one leaves one pipe after the other empty, the child
being dead), `RoomInv` (room for a terminator) and `OrderInv` (the bytes sent are
what has been collected followed by what is in each place on the way, in order).
Results: `TypeCorrect`, `OffsetsInBounds`, `StringsAreTerminated`,
`WaitCollectsAll`, and `CopyIsFifo`: the whole way of the bytes implements `Fifo`.

**ConnectionProofs** is about the server that answers (`Answering`): `on_accept` and
`on_connect` do nothing, `on_read_complete` may write, `on_write_complete` does
nothing, no callback closes. Section 5 shows why the theorems are about this server:
`NoFault` is violated for callbacks that close when the stream has just ended, that
close with kqueue, or that write on opening. Everything else is free: epoll or kqueue, any number of connections, descriptors and loops, answers
of any length, peers that send, read, end and reset at any time. The one new
assumption on constants is that `None` is no connection, number or loop.

A handler's remaining steps are always one of twenty lists (`FromAccept` to
`AtRelease`): `Heads`, `Tails` and `Pushes` say where each leads, `Reached` which
ones a step can be at. The invariant says of each connection
* where it is in its life (`LifeInv`): it owns its number from `Accept` to the
  release, and nothing is stored or watched before or after;
* at each place of its handler (`Doing`), and while it waits (`Waiting`), its
  *posture*: which callbacks are stored and which events are watched for it. This
  is what makes every `fd_register` and `fd_remove` succeed;
* that the event it waits for is not one kqueue has already reported (`Unseen`),
  unless its callback is queued or an end of the stream has been noted, in which
  case the handler goes on to `on_closed`;
* that a queued callback is stored and for the event watched (`QueueInv`), so that
  no handler starts on a connection that another one has changed since the poll;

and of the tables (`TableInv`): a number leads back to its owner, a free number is
watched nowhere, `fd_events_` is what kqueue watches, and an event that has fired is
watched. Most steps touch only their own connection: `SameConnInv` shows that the
others keep their part, and `HandlerKeeps`, `QuietKeeps` and `RewatchKeeps` reduce a
handler's step to bringing it to its next place. `HooksAt` and `OwnersDiffer` are why
erasing by number cannot reach a neighbour. The invariant was checked with TLC on
the instance of `connection_echo` with two requests per connection (1,846,944
states) and on two loops that share one descriptor number (288,082 states).
Results: `TypeCorrect`, `NothingFails`, `NoneIsStranded`, `ClosingIsFinal`,
`OutputIsKept`.

**SchedulerProofs** assumes finitely many tasks and what the code asserts, that no
interval is zero; the number of tasks, their frequencies and priorities, the
resolution of the clock and the time the thread loses are free. It has four layers.
* Numbers: what it means to divide, and that `%` decides it (`DividesMod`).
* `gcd` and `lcm`. A turn of Euclid's loop keeps the common divisors
  (`SameCommon`), so the recursive definition has a solution (`GcdDef`) and
  computes the greatest one (`GcdIsGreatest`); `LcmIsLeast` follows from it.
* The table. Over a vector the two are folds: `PeriodIs` and `GrainIs` show by
  induction over the set of tasks that every interval divides the period and the
  grain divides every interval. Hence steps of the grain leave no stamp out
  (`StampsAre`), whole periods make no difference (`Periodic`), nothing is due
  between a stamp and the next (`SpanIs`), and the constructor's loop over the heap
  lists each handler of a stamp once, in the order of urgency (`HandlersAre`).
* The thread. `OnTime` is not inductive: it does not know the place in the table.
  `PlaceInv` adds that `place` is a number of whole periods and the stamp, `CallsInv`
  which calls exactly have been made, `TodoInv` that those that wait are due and no
  more urgent than those made, `StopInv` that the thread has begun no place from
  `until` on. For `Punctual`, `ClockInv` relates the time points to the places: each
  is a multiple of the tick, falls short of its place by less than a tick for each
  time point before it, and by nothing when the tick divides all intervals, for it
  then divides every gap of the table. The invariants were checked with TLC on the
  instance of `scheduler`.

Results: `OnTimeHolds`, `PunctualHolds`, `GcdIsGreatest`, `LcmIsLeast`, `TypeCorrect`.

**Induction.** The library's induction theorems take an operator as a parameter and
cannot be used here. Where numbers or finite sets have to be gone through,
`Smallest` takes from the well-foundedness of `<` that a set of numbers has a
least one, and `SetInduction` that a set with 0 and with the successor of each of
its members is all of them; the property to be proved is written as such a set.
The powers of two of `Buffer`, all the sums of `Connector` and the gcd, the lcm and
the table of `Scheduler` are proved this way.

The type invariants of all modules with proofs are proved, and no run spends time
on them. The inductive invariants were checked with TLC before they were proved.

**Model-checked only.** All liveness properties and the liveness part of
`IsTaskPool` (they rest on fairness, which these provers do not handle);
the invariants of `Connection` for callbacks that close.

## 7. Not modelled

* `cancel` (`pthread_cancel`) of a pool or a thread; `detach`, `wait_for` and
  `send_signal` of a `runnable`.
* Failures of `accept` other than EAGAIN, of `socket`, of `fork` and of memory.
* The contents of the reactor's read buffer, and the clearing of it after each
  callback (`tcp.cc:76`).
* The reference an acceptor keeps to a new connection until it has registered
  its whole batch: `Release` closes a finished connection at once, the code may
  close it a little later.
* The failure counters of the workers' `iohandler` (`tcp.cc:140`) and the log
  messages; a failed connect does end its handler and release the socket.
* A callback `on_closed` that writes or closes.
* Two threads inside `connector::add` (the write buffer of the pipe is not
  protected), more than one waiter at the fence.
* A `write` of the logger that the descriptor takes only in part: its result is
  ignored and the rest lost.
* `buffer`: copies and moves, a capacity beyond 2^30 (an `int` that doubles), and
  `consume` of more than there is, which is the caller's error.
* `nstream`: the move of a stream object, which takes the new write buffer from
  the other object's read buffer (`nio.h:163`); nothing in the library moves one
  with data in it.
* Lock guards: the assignment to a guard that still holds a lock, which forgets that
  lock (`lock.cc:374-380`); a guard without a pointer whose `lock()` or `unlock()` is
  called; `spinlock`. Deaths inside a call of the fence or the barrier, which may leave
  their mutex locked for ever (it is not robust).
* `shared_memory` and `semaphore`: their moves; what a child releases and acquires
  after it has opened the segment (`test_ipc.cc:72-78`); an unlink by a process that
  did not create the object, as the children of `test_ipc.cc:125-256` do; whether a
  session ends: two processes that each `acquire(count)` a part of the permits
  (`ipc.cc:146`) would wait for each other if fewer were released than all need
  together.
* `subp_open`: a second `wait` or `poll` after the child has been reaped, which
  ends the parent; the search for the program and its arguments.
* `timed_scheduler`: periods that overflow, frequencies above 10^9; a clock that is set
  back; the number of the exit tasks' runs (they are one step). The sub-tick rest of
  `tp_next` counts when the thread sleeps: it wakes at the first tick not before it.
* Components without a protocol of their own: string functions, socket options
  and addresses, UDP, signals, the loader of shared objects, `sysconfig`. Of the
  string functions, the stripping on the right compares an index with a bound that wraps around
  when what is left is as long as what is stripped (`utils.cc:449`), and then strips
  without comparing.
