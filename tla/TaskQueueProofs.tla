--------------------------- MODULE TaskQueueProofs ---------------------------
(***************************************************************************)
(* What TaskQueue.tla promises, proved for any set of workers and tasks.   *)
(***************************************************************************)
EXTENDS TaskQueue, TLAPS, SequenceTheorems, FiniteSetTheorems

\* A task stands in the queue at most once.
QueueInjective == \A i, j \in 1..Len(queue) : queue[i] = queue[j] => i = j

\* What is queued has been submitted and has not been run.
QueuedFresh ==
    \A i \in 1..Len(queue) : queue[i] \in added /\ executed[queue[i]] = 0

\* What a worker holds has been submitted, is not run yet, is no longer queued
\* and is held by no other worker.
HeldFresh ==
    \A w \in Workers : Holds(w) =>
        /\ handler[w] \in added
        /\ executed[handler[w]] = 0
        /\ ~InQueue(handler[w])
        /\ \A v \in Workers : Holds(v) /\ handler[v] = handler[w] => v = w

\* No submitted task is nowhere.
Accounted ==
    \A t \in Tasks :
        /\ executed[t] \in {0, 1}
        /\ t \notin added => executed[t] = 0
        /\ t \in added => \/ InQueue(t)
                          \/ \E w \in Workers : Holds(w) /\ handler[w] = t
                          \/ executed[t] = 1

\* Where the owner and the workers are in the stop protocol.
StopProtocol ==
    /\ stop <=> main # "running"
    /\ \A w \in Workers : pc[w] = "exited" => stop
    /\ main = "stopped" => \A w \in Workers : pc[w] = "exited"

\* The last worker does not leave an owed task behind.
NoneLeftBehind ==
    (\A w \in Workers : pc[w] = "exited") =>
        \A i \in 1..Len(queue) : queue[i] \notin promised

\* Nobody sleeps through the stop.
NoSleepAfterStop == stop => Asleep = {}

Inv ==
    /\ TypeOK
    /\ QueueInjective
    /\ QueuedFresh
    /\ HeldFresh
    /\ Accounted
    /\ StopProtocol
    /\ NoneLeftBehind
    /\ NoSleepAfterStop
    /\ NoIdleSleeper

-----------------------------------------------------------------------------
\* Neither form of add_task can duplicate, lose or starve a task: vector b,
\* none of it submitted before, goes to the back of the queue and some of the
\* sleepers, at least one if there is any, are woken.
LEMMA AddingKeepsInv ==
    ASSUME Inv, NEW b \in Seq(Tasks), NEW nested \in BOOLEAN,
           \A i, j \in 1..Len(b) : b[i] = b[j] => i = j,
           \A i \in 1..Len(b) : b[i] \notin added,
           queue' = queue \o b,
           NEW S \in SUBSET Asleep, pc' = Wake(S), Asleep # {} => S # {},
           Record({b[i] : i \in 1..Len(b)}, nested),
           UNCHANGED <<stop, handler, main, executed>>
    PROVE  Inv'
<1> DEFINE ts == {b[i] : i \in 1..Len(b)}
<1>1. /\ queue \in Seq(Tasks) /\ pc \in [Workers -> PCs]
      /\ executed \in [Tasks -> Nat]
      /\ handler \in [Workers -> Tasks \cup {NoTask}]
      /\ main \in {"running", "joining", "stopped"} /\ stop \in BOOLEAN
      /\ added \in SUBSET Tasks /\ promised \in SUBSET added
  BY DEF Inv, TypeOK
<1>2. /\ queue' \in Seq(Tasks)
      /\ Len(queue) \in Nat /\ Len(b) \in Nat
      /\ Len(queue') = Len(queue) + Len(b)
      /\ \A i \in 1..Len(queue') :
            queue'[i] = IF i <= Len(queue) THEN queue[i] ELSE b[i - Len(queue)]
  BY <1>1, ConcatProperties, LenProperties
<1>3. /\ \A i \in 1..Len(queue) : queue'[i] = queue[i]
      /\ \A i \in 1..Len(b) : queue'[Len(queue) + i] = b[i]
      /\ \A i \in 1..Len(queue') :
            \/ i \in 1..Len(queue) /\ queue'[i] = queue[i]
            \/ i - Len(queue) \in 1..Len(b) /\ queue'[i] = b[i - Len(queue)]
  BY <1>2
<1>4. ts \in SUBSET Tasks /\ \A i \in 1..Len(b) : b[i] \in ts /\ b[i] \in Tasks
  BY ElementOfSeq
<1>5. /\ added' = added \cup ts
      /\ promised' \in SUBSET (promised \cup ts)
      /\ stop /\ ~nested => promised' = promised
      /\ nested => \E w \in Workers : pc[w] = "run"
  BY DEF Record
<1>6. \A w \in Workers :
        /\ pc'[w] = pc[w] \/ (pc[w] = "wait" /\ pc'[w] = "woken")
        /\ w \in S => pc'[w] = "woken"
        /\ Holds(w)' <=> Holds(w)
        /\ pc'[w] = "exited" <=> pc[w] = "exited"
        /\ pc'[w] = "wait" => pc[w] = "wait"
  BY <1>1 DEF Wake, Asleep, Holds
<1>7. pc' \in [Workers -> PCs]
  BY <1>1 DEF Wake, PCs
<1>8. \A t \in Tasks : InQueue(t)' <=> InQueue(t) \/ t \in ts
  <2> SUFFICES ASSUME NEW t \in Tasks PROVE InQueue(t)' <=> InQueue(t) \/ t \in ts
    OBVIOUS
  <2>1. InQueue(t)' => InQueue(t) \/ t \in ts
    BY <1>3, <1>2 DEF InQueue
  <2>2. InQueue(t) => InQueue(t)'
    BY <1>3, <1>2 DEF InQueue
  <2>3. ASSUME t \in ts PROVE InQueue(t)'
    <3>1. PICK i \in 1..Len(b) : b[i] = t
      BY <2>3
    <3>2. Len(queue) + i \in 1..Len(queue') /\ queue'[Len(queue) + i] = t
      BY <3>1, <1>2, <1>3
    <3> QED BY <3>2 DEF InQueue
  <2> QED BY <2>1, <2>2, <2>3
<1>10. TypeOK'
  BY <1>1, <1>2, <1>4, <1>5, <1>7 DEF TypeOK
<1>11. QueueInjective'
  <2> SUFFICES ASSUME NEW i \in 1..Len(queue'), NEW j \in 1..Len(queue'),
                      queue'[i] = queue'[j]
               PROVE  i = j
    BY DEF QueueInjective
  <2>1. CASE i \in 1..Len(queue) /\ j \in 1..Len(queue)
    BY <2>1, <1>3 DEF Inv, QueueInjective
  <2>2. CASE i \notin 1..Len(queue) /\ j \notin 1..Len(queue)
    BY <2>2, <1>2, <1>3
  <2>3. CASE i \in 1..Len(queue) /\ j \notin 1..Len(queue)
    BY <2>3, <1>2, <1>3 DEF Inv, QueuedFresh
  <2>4. CASE i \notin 1..Len(queue) /\ j \in 1..Len(queue)
    BY <2>4, <1>2, <1>3 DEF Inv, QueuedFresh
  <2> QED BY <2>1, <2>2, <2>3, <2>4
<1>12. QueuedFresh'
  <2> SUFFICES ASSUME NEW i \in 1..Len(queue')
               PROVE  queue'[i] \in added' /\ executed[queue'[i]] = 0
    BY DEF QueuedFresh
  <2>1. CASE i \in 1..Len(queue)
    BY <2>1, <1>3, <1>5 DEF Inv, QueuedFresh
  <2>2. CASE i - Len(queue) \in 1..Len(b) /\ queue'[i] = b[i - Len(queue)]
    BY <2>2, <1>4, <1>5 DEF Inv, Accounted
  <2> QED BY <2>1, <2>2, <1>3
<1>13. HeldFresh'
  <2> SUFFICES ASSUME NEW w \in Workers, Holds(w)
               PROVE  /\ handler[w] \in added'
                      /\ executed[handler[w]] = 0
                      /\ ~InQueue(handler[w])'
                      /\ \A v \in Workers : Holds(v)' /\ handler[v] = handler[w] => v = w
    BY <1>6 DEF HeldFresh, InQueue
  <2>1. handler[w] \in added /\ handler[w] \notin ts /\ handler[w] \in Tasks
    BY <1>1 DEF Inv, HeldFresh
  <2> QED BY <2>1, <1>5, <1>6, <1>8 DEF Inv, HeldFresh
<1>14. Accounted'
  <2> SUFFICES ASSUME NEW t \in Tasks
               PROVE  /\ executed[t] \in {0, 1}
                      /\ t \notin added' => executed[t] = 0
                      /\ t \in added' => \/ InQueue(t)'
                                         \/ \E w \in Workers : Holds(w)' /\ handler[w] = t
                                         \/ executed[t] = 1
    BY DEF Accounted, InQueue
  <2> QED BY <1>5, <1>6, <1>8 DEF Inv, Accounted
<1>15. StopProtocol'
  BY <1>6 DEF Inv, StopProtocol
<1>16. NoneLeftBehind'
  <2> SUFFICES ASSUME \A w \in Workers : pc'[w] = "exited", NEW i \in 1..Len(queue')
               PROVE  queue'[i] \notin promised'
    BY DEF NoneLeftBehind
  <2>1. \A w \in Workers : pc[w] = "exited"
    BY <1>6
  <2>2. stop /\ ~nested /\ promised' = promised
    BY <2>1, <1>5, WorkersAssumption DEF Inv, StopProtocol
  <2>3. CASE i \in 1..Len(queue)
    BY <2>1, <2>2, <2>3, <1>3 DEF Inv, NoneLeftBehind
  <2>4. CASE i - Len(queue) \in 1..Len(b) /\ queue'[i] = b[i - Len(queue)]
    BY <2>2, <2>4, <1>1
  <2> QED BY <2>3, <2>4, <1>3
<1>17. NoSleepAfterStop'
  BY <1>6 DEF Inv, NoSleepAfterStop, Asleep
<1>18. NoIdleSleeper'
  <2> SUFFICES ASSUME Asleep' # {}
               PROVE  \E w \in Workers : pc'[w] \in {"loop", "woken", "notify"}
    BY DEF NoIdleSleeper
  <2>1. Asleep # {}
    BY <1>6 DEF Asleep
  <2>2. PICK w \in S : w \in Workers
    BY <2>1 DEF Asleep
  <2> QED BY <2>2, <1>6
<1> QED BY <1>10, <1>11, <1>12, <1>13, <1>14, <1>15, <1>16, <1>17, <1>18 DEF Inv

\* What notify_one and notify_all have in common.
LEMMA NotifyWakes ==
    ASSUME TypeOK, NotifyOne \/ NotifyAll
    PROVE  \E S \in SUBSET Asleep : pc' = Wake(S) /\ (Asleep # {} => S # {})
<1>1. CASE NotifyAll
  BY <1>1 DEF NotifyAll
<1>2. ASSUME NEW w \in Asleep, pc' = Wake({w})
      PROVE  \E S \in SUBSET Asleep : pc' = Wake(S) /\ (Asleep # {} => S # {})
  BY <1>2
<1>3. CASE Asleep = {} /\ UNCHANGED pc
  <2>1. pc' = Wake({})
    BY <1>3 DEF Wake, TypeOK
  <2> QED BY <1>3, <2>1
<1> QED BY <1>1, <1>2, <1>3 DEF NotifyOne

\* A step of a worker or of the owner that moves no task and under which every
\* worker keeps the task it holds leaves the tasks where they are.
LEMMA NoTaskMoves ==
    ASSUME Inv, UNCHANGED <<queue, handler, added, promised, executed>>,
           \A v \in Workers : Holds(v)' <=> Holds(v)
    PROVE  /\ QueueInjective' /\ QueuedFresh' /\ HeldFresh' /\ Accounted'
           /\ \A t \in Tasks : InQueue(t)' <=> InQueue(t)
<1>1. queue' = queue /\ handler' = handler /\ added' = added /\ executed' = executed
  OBVIOUS
<1>2. QueueInjective' /\ QueuedFresh'
  BY <1>1 DEF Inv, QueueInjective, QueuedFresh
<1>3. \A t : InQueue(t)' <=> InQueue(t)
  BY <1>1 DEF InQueue
<1>4. HeldFresh'
  BY <1>1, <1>3 DEF Inv, HeldFresh
<1>5. Accounted'
  BY <1>1, <1>3 DEF Inv, Accounted
<1> QED BY <1>2, <1>3, <1>4, <1>5

\* One worker goes from one place without a task to another: what remains to be
\* shown is that it neither leaves nor falls asleep at the wrong time.
LEMMA WorkerMoves ==
    ASSUME Inv, NEW w \in Workers, NEW p \in PCs,
           pc' = [pc EXCEPT ![w] = p], ~Holds(w), pc[w] # "exited",
           p \notin {"notify", "run"},
           p = "exited" => stop /\ queue = <<>>,
           p = "wait" => ~stop /\ queue = <<>>,
           pc[w] \in {"loop", "woken"} => p \in {"loop", "woken"} \/ queue = <<>>,
           UNCHANGED <<queue, stop, handler, main, added, promised, executed>>
    PROVE  Inv'
<1>1. /\ pc \in [Workers -> PCs] /\ pc' \in [Workers -> PCs] /\ pc'[w] = p
      /\ \A v \in Workers \ {w} : pc'[v] = pc[v]
  BY DEF Inv, TypeOK
<1>2. \A v \in Workers : Holds(v)' <=> Holds(v)
  BY <1>1 DEF Holds
<1>3. QueueInjective' /\ QueuedFresh' /\ HeldFresh' /\ Accounted'
  BY <1>2, NoTaskMoves
<1>4. TypeOK'
  BY <1>1 DEF Inv, TypeOK
<1>5. StopProtocol'
  <2>1. main # "stopped"
    BY DEF Inv, StopProtocol
  <2> QED BY <1>1, <2>1 DEF Inv, StopProtocol
<1>6. NoneLeftBehind'
  <2> SUFFICES ASSUME \A v \in Workers : pc'[v] = "exited", NEW i \in 1..Len(queue)
               PROVE  queue[i] \notin promised
    BY DEF NoneLeftBehind
  <2>1. Len(queue) = 0
    BY <1>1
  <2> QED BY <2>1
<1>7. NoSleepAfterStop'
  BY <1>1 DEF Inv, NoSleepAfterStop, Asleep
<1>8. NoIdleSleeper'
  <2> SUFFICES ASSUME queue # <<>>, Asleep' # {}
               PROVE  \E v \in Workers : pc'[v] \in {"loop", "woken", "notify"}
    BY DEF NoIdleSleeper
  <2>1. Asleep # {}
    BY <1>1 DEF Asleep
  <2>2. PICK v \in Workers : pc[v] \in {"loop", "woken", "notify"}
    BY <2>1 DEF Inv, NoIdleSleeper
  <2>3. pc'[v] \in {"loop", "woken", "notify"}
    BY <1>1, <2>2 DEF Holds
  <2> QED BY <2>3
<1> QED BY <1>3, <1>4, <1>5, <1>6, <1>7, <1>8 DEF Inv

\* Every sleeper is woken and nobody else is disturbed.
LEMMA AllWoken ==
    ASSUME Inv, pc' \in [Workers -> PCs], Asleep' = {},
           \A v \in Workers : /\ Holds(v)' <=> Holds(v)
                              /\ pc'[v] = "exited" <=> pc[v] = "exited",
           UNCHANGED <<queue, handler, added, promised, executed>>,
           stop' \in BOOLEAN, main' \in {"running", "joining", "stopped"}, StopProtocol'
    PROVE  Inv'
<1>1. QueueInjective' /\ QueuedFresh' /\ HeldFresh' /\ Accounted'
  BY NoTaskMoves
<1>2. TypeOK'
  BY DEF Inv, TypeOK
<1>3. NoneLeftBehind'
  BY DEF Inv, NoneLeftBehind
<1>4. NoSleepAfterStop' /\ NoIdleSleeper'
  BY DEF NoSleepAfterStop, NoIdleSleeper
<1> QED BY <1>1, <1>2, <1>3, <1>4 DEF Inv

-----------------------------------------------------------------------------
\* The inductive step, one action at a time.
LEMMA InvInductive == Inv /\ [Next]_vars => Inv'
<1> SUFFICES ASSUME Inv, [Next]_vars PROVE Inv'
  OBVIOUS
<1> USE DEF Inv
<1>1. ASSUME NEW t \in Tasks, NEW nested \in BOOLEAN, AddTask(t, nested)
      PROVE  Inv'
  <2> DEFINE b == <<t>>
  <2>1. /\ b \in Seq(Tasks) /\ Len(b) = 1 /\ b[1] = t
        /\ \A i \in 1..Len(b) : i = 1
    OBVIOUS
  <2>2. queue' = queue \o b
    BY <1>1, AppendIsConcat DEF AddTask, TypeOK
  <2>3. PICK S \in SUBSET Asleep : pc' = Wake(S) /\ (Asleep # {} => S # {})
    BY <1>1, NotifyWakes DEF AddTask
  <2> HIDE DEF b
  <2>4. {b[i] : i \in 1..Len(b)} = {t}
    BY <2>1
  <2>5. /\ \A i, j \in 1..Len(b) : b[i] = b[j] => i = j
        /\ \A i \in 1..Len(b) : b[i] \notin added
    BY <1>1, <2>1 DEF AddTask
  <2>6. /\ Record({b[i] : i \in 1..Len(b)}, nested)
        /\ UNCHANGED <<stop, handler, main, executed>>
    BY <1>1, <2>4 DEF AddTask
  <2> QED BY <2>1, <2>2, <2>3, <2>5, <2>6, AddingKeepsInv
<1>2. ASSUME NEW b \in Batches, NEW nested \in BOOLEAN, AddTasks(b, nested)
      PROVE  Inv'
  <2>1. PICK S \in SUBSET Asleep : pc' = Wake(S) /\ (Asleep # {} => S # {})
    BY <1>2, NotifyWakes DEF AddTasks
  <2>2. /\ b \in Seq(Tasks)
        /\ \A i, j \in 1..Len(b) : b[i] = b[j] => i = j
        /\ \A i \in 1..Len(b) : b[i] \notin added
        /\ queue' = queue \o b
        /\ Record({b[i] : i \in 1..Len(b)}, nested)
        /\ UNCHANGED <<stop, handler, main, executed>>
    BY <1>2, BatchesAssumption DEF AddTasks
  <2> QED BY <2>1, <2>2, AddingKeepsInv
<1>3. ASSUME NEW w \in Workers, Start(w)
      PROVE  Inv'
  <2>1. "loop" \in PCs /\ ~Holds(w) /\ pc[w] = "new"
    BY <1>3 DEF Start, PCs, Holds
  <2> QED BY <1>3, <2>1, WorkerMoves DEF Start
<1>4. ASSUME NEW w \in Workers, pc[w] \in {"loop", "woken"}, Pop(w)
      PROVE  Inv'
  <2> PICK front : front = queue[1]
    OBVIOUS
  <2>1. /\ queue \in Seq(Tasks) /\ queue # <<>> /\ Len(queue) \in Nat \ {0}
        /\ Head(queue) = front /\ front \in Tasks /\ 1 \in 1..Len(queue)
        /\ queue' \in Seq(Tasks) /\ Len(queue') = Len(queue) - 1
        /\ \A i \in 1..Len(queue') : queue'[i] = queue[i + 1]
    BY <1>4, HeadTailProperties, EmptySeq DEF Pop, TypeOK
  <2>2. /\ pc' = [pc EXCEPT ![w] = "notify"] /\ pc \in [Workers -> PCs]
        /\ handler' = [handler EXCEPT ![w] = front]
        /\ handler \in [Workers -> Tasks \cup {NoTask}]
        /\ UNCHANGED <<stop, main, added, promised, executed>>
    BY <1>4, <2>1 DEF Pop, TypeOK
  <2>3. \A t : InQueue(t) <=> t = front \/ InQueue(t)'
    <3>1. \A t : InQueue(t)' => InQueue(t)
      <4> SUFFICES ASSUME NEW t, NEW i \in 1..Len(queue'), queue'[i] = t
                   PROVE  InQueue(t)
        BY DEF InQueue
      <4>1. i + 1 \in 1..Len(queue) /\ queue[i + 1] = t
        BY <2>1
      <4> QED BY <4>1 DEF InQueue
    <3>2. ASSUME NEW t, InQueue(t) PROVE t = front \/ InQueue(t)'
      <4>1. PICK i \in 1..Len(queue) : queue[i] = t
        BY <3>2 DEF InQueue
      <4>2. CASE i # 1
        <5>1. i - 1 \in 1..Len(queue') /\ queue'[i - 1] = t
          BY <4>1, <4>2, <2>1
        <5> QED BY <5>1 DEF InQueue
      <4> QED BY <4>1, <4>2
    <3>3. InQueue(front)
      BY <2>1 DEF InQueue
    <3> QED BY <3>1, <3>2, <3>3
  <2>4. \A v \in Workers : IF v = w
          THEN Holds(v)' /\ ~Holds(v) /\ handler'[v] = front
          ELSE (Holds(v)' <=> Holds(v)) /\ handler'[v] = handler[v]
    BY <1>4, <2>2 DEF Holds
  <2>5. TypeOK' /\ StopProtocol' /\ NoneLeftBehind' /\ NoSleepAfterStop' /\ NoIdleSleeper'
    BY <1>4, <2>1, <2>2 DEF TypeOK, PCs, StopProtocol, NoneLeftBehind,
       NoSleepAfterStop, NoIdleSleeper, Asleep
  <2>6. \A i \in 1..Len(queue') : i + 1 \in 1..Len(queue) /\ i + 1 # 1 /\ i \in Nat
    BY <2>1
  <2>7. QueueInjective'
    BY <2>1, <2>6 DEF QueueInjective
  <2>8. QueuedFresh'
    BY <2>1, <2>2, <2>6 DEF QueuedFresh
  <2>9. ~InQueue(front)'
    BY <2>1, <2>6 DEF QueueInjective, InQueue
  <2>10. HeldFresh'
    <3>1. front \in added /\ executed[front] = 0
      BY <2>1 DEF QueuedFresh
    <3>2. \A v \in Workers : Holds(v) => handler[v] # front
      BY <2>3 DEF HeldFresh
    <3> SUFFICES ASSUME NEW v \in Workers, Holds(v)'
                 PROVE  /\ handler'[v] \in added
                        /\ executed[handler'[v]] = 0
                        /\ ~\E i \in 1..Len(queue') : queue'[i] = handler'[v]
                        /\ \A u \in Workers :
                              Holds(u)' /\ handler'[u] = handler'[v] => u = v
      BY <2>2 DEF HeldFresh, InQueue
    <3>3. ~\E i \in 1..Len(queue') : queue'[i] = handler'[v]
      <4>1. CASE v = w
        BY <4>1, <2>4, <2>9 DEF InQueue
      <4>2. CASE v # w
        <5>1. ~InQueue(handler[v]) /\ handler'[v] = handler[v]
          BY <4>2, <2>4 DEF HeldFresh
        <5>2. PICK h : h = handler[v]
          OBVIOUS
        <5>3. ~InQueue(h)'
          BY <5>1, <5>2, <2>3
        <5> QED BY <5>1, <5>2, <5>3 DEF InQueue
      <4> QED BY <4>1, <4>2
    <3> QED BY <3>1, <3>2, <3>3, <2>4 DEF HeldFresh
  <2>11. Accounted'
    BY <2>2, <2>3, <2>4 DEF Accounted
  <2> QED BY <2>5, <2>7, <2>8, <2>10, <2>11
<1>5. ASSUME NEW w \in Workers, pc[w] \in {"loop", "woken"}, Exit(w)
      PROVE  Inv'
  <2>1. "exited" \in PCs /\ ~Holds(w) /\ pc[w] # "exited"
    BY <1>5 DEF PCs, Holds
  <2> QED BY <1>5, <2>1, WorkerMoves DEF Exit
<1>6. ASSUME NEW w \in Workers, pc[w] \in {"loop", "woken"}, Sleep(w)
      PROVE  Inv'
  <2>1. "wait" \in PCs /\ ~Holds(w) /\ pc[w] # "exited"
    BY <1>6 DEF PCs, Holds
  <2> QED BY <1>6, <2>1, WorkerMoves DEF Sleep
<1>7. ASSUME NEW w \in Workers, Spurious(w)
      PROVE  Inv'
  <2>1. "woken" \in PCs /\ ~Holds(w) /\ pc[w] = "wait"
    BY <1>7 DEF Spurious, PCs, Holds
  <2> QED BY <1>7, <2>1, WorkerMoves DEF Spurious
<1>8. ASSUME NEW w \in Workers, Announce(w)
      PROVE  Inv'
  <2>1. /\ pc' \in [Workers -> PCs] /\ pc'[w] = "run" /\ Asleep' = {}
        /\ \A v \in Workers \ {w} :
              pc'[v] = IF pc[v] = "wait" THEN "woken" ELSE pc[v]
    BY <1>8 DEF Announce, Wake, Asleep, TypeOK, PCs
  <2>2. \A v \in Workers : /\ Holds(v)' <=> Holds(v)
                           /\ pc'[v] = "exited" <=> pc[v] = "exited"
    BY <1>8, <2>1 DEF Announce, Holds
  <2>3. UNCHANGED <<queue, stop, handler, main, added, promised, executed>>
    BY <1>8 DEF Announce
  <2>4. StopProtocol' /\ stop' \in BOOLEAN /\ main' \in {"running", "joining", "stopped"}
    BY <2>2, <2>3 DEF StopProtocol, TypeOK
  <2> QED BY <2>1, <2>2, <2>3, <2>4, AllWoken
<1>9. ASSUME NEW w \in Workers, Finish(w)
      PROVE  Inv'
  <2> DEFINE h == handler[w]
  <2>1. /\ h \in Tasks /\ h \in added /\ executed[h] = 0 /\ ~InQueue(h)
        /\ \A v \in Workers : Holds(v) /\ handler[v] = h => v = w
    BY <1>9 DEF Finish, HeldFresh, Holds, TypeOK
  <2>2. /\ executed' = [executed EXCEPT ![h] = 1] /\ executed \in [Tasks -> Nat]
        /\ pc' = [pc EXCEPT ![w] = "loop"] /\ pc \in [Workers -> PCs]
        /\ UNCHANGED <<queue, stop, handler, main, added, promised>>
    BY <1>9, <2>1 DEF Finish, TypeOK
  <2>3. \A v \in Workers : Holds(v)' <=> v # w /\ Holds(v)
    BY <2>2 DEF Holds
  <2>4. TypeOK' /\ QueueInjective'
    BY <2>1, <2>2 DEF TypeOK, PCs, QueueInjective
  <2>8. StopProtocol' /\ NoneLeftBehind' /\ NoSleepAfterStop' /\ NoIdleSleeper'
    BY <1>9, <2>2 DEF Finish, StopProtocol, NoneLeftBehind, NoSleepAfterStop,
       NoIdleSleeper, Asleep
  <2>5. QueuedFresh'
    BY <2>1, <2>2 DEF QueuedFresh, InQueue, TypeOK
  <2>6. HeldFresh'
    BY <2>1, <2>2, <2>3 DEF HeldFresh, InQueue, TypeOK
  <2>7. Accounted'
    BY <2>1, <2>2, <2>3 DEF Accounted, InQueue
  <2> QED BY <2>4, <2>5, <2>6, <2>7, <2>8
<1>10. CASE Stop
  <2>1. /\ pc' \in [Workers -> PCs] /\ Asleep' = {}
        /\ \A v \in Workers :
              pc'[v] = IF pc[v] = "wait" THEN "woken" ELSE pc[v]
    BY <1>10 DEF Stop, NotifyAll, Wake, Asleep, TypeOK, PCs
  <2>2. \A v \in Workers : /\ Holds(v)' <=> Holds(v)
                           /\ pc'[v] = "exited" <=> pc[v] = "exited"
    BY <2>1 DEF Holds
  <2>3. /\ stop' = TRUE /\ main = "running" /\ main' = "joining"
        /\ UNCHANGED <<queue, handler, added, promised, executed>>
    BY <1>10 DEF Stop
  <2>4. StopProtocol' /\ stop' \in BOOLEAN /\ main' \in {"running", "joining", "stopped"}
    BY <2>2, <2>3 DEF StopProtocol
  <2> QED BY <2>1, <2>2, <2>3, <2>4, AllWoken
<1>11. CASE Join
  <2>1. /\ main = "joining" /\ main' = "stopped" /\ \A w \in Workers : pc[w] = "exited"
        /\ UNCHANGED <<queue, stop, pc, handler, added, promised, executed>>
    BY <1>11 DEF Join
  <2>2. QueueInjective' /\ QueuedFresh' /\ HeldFresh' /\ Accounted'
    BY <2>1, NoTaskMoves DEF Holds
  <2>3. TypeOK' /\ StopProtocol' /\ NoneLeftBehind' /\ NoSleepAfterStop'
    BY <2>1 DEF TypeOK, StopProtocol, NoneLeftBehind, NoSleepAfterStop, Asleep
  <2>4. NoIdleSleeper'
    BY <2>1 DEF NoIdleSleeper, Asleep
  <2> QED BY <2>2, <2>3, <2>4
<1>12. CASE UNCHANGED vars
  BY <1>12 DEF vars, TypeOK, QueueInjective, QueuedFresh, HeldFresh,
     Accounted, StopProtocol, NoneLeftBehind, NoSleepAfterStop, NoIdleSleeper,
     Asleep, Holds, InQueue
<1> QED
  BY <1>1, <1>2, <1>3, <1>4, <1>5, <1>6, <1>7, <1>8, <1>9, <1>10, <1>11, <1>12
  DEF Next, Worker, Decide

LEMMA InitInv == Init => Inv
<1> SUFFICES ASSUME Init PROVE Inv
  OBVIOUS
<1>1. /\ queue = <<>> /\ Len(queue) = 0 /\ queue \in Seq(Tasks)
      /\ pc = [w \in Workers |-> "new"] /\ stop = FALSE /\ main = "running"
      /\ handler = [w \in Workers |-> NoTask]
      /\ executed = [t \in Tasks |-> 0] /\ added = {} /\ promised = {}
  BY EmptySeq DEF Init
<1>2. TypeOK
  BY <1>1 DEF TypeOK, PCs
<1>3. QueueInjective /\ QueuedFresh /\ NoneLeftBehind
  BY <1>1 DEF QueueInjective, QueuedFresh, NoneLeftBehind
<1>4. HeldFresh /\ Accounted /\ StopProtocol
  BY <1>1 DEF HeldFresh, Accounted, StopProtocol, Holds
<1>5. NoSleepAfterStop /\ NoIdleSleeper
  BY <1>1 DEF NoSleepAfterStop, NoIdleSleeper
<1> QED BY <1>2, <1>3, <1>4, <1>5 DEF Inv

\* Inv is an invariant of the pool, whatever the workers, tasks and vectors.
THEOREM InvHolds == Spec => []Inv
  BY InitInv, InvInductive, PTL DEF Spec

\* Type correctness of the pool.
THEOREM TypeCorrect == Spec => []TypeOK
<1>1. Inv => TypeOK
  BY DEF Inv
<1> QED BY <1>1, InvHolds, PTL

\* stop() returns only when every task owed to a client has run exactly once:
\* run_impl tests the queue before stop_, for any number of workers and tasks.
THEOREM StopDrainsHolds == Spec => []StopDrains
<1>1. Inv => StopDrains
  <2> SUFFICES ASSUME Inv, main = "stopped", NEW t \in promised
               PROVE  executed[t] = 1
    BY DEF StopDrains
  <2>1. /\ \A w \in Workers : pc[w] = "exited"
        /\ t \in Tasks /\ t \in added
    BY DEF Inv, StopProtocol, TypeOK
  <2>2. ~InQueue(t)
    BY <2>1 DEF Inv, NoneLeftBehind, InQueue
  <2> QED BY <2>1, <2>2 DEF Inv, Accounted, Holds
<1> QED BY <1>1, InvHolds, PTL

\* No wake-up is lost: a queued task and a sleeping worker never coexist
\* without somebody on the way to the queue; and nobody sleeps after the stop.
THEOREM NoLostWakeup == Spec => [](NoIdleSleeper /\ NoSleepAfterStop)
<1>1. Inv => NoIdleSleeper /\ NoSleepAfterStop
  BY DEF Inv
<1> QED BY <1>1, InvHolds, PTL

\* Every submitted task is in exactly one place, and is run at most once.
THEOREM ExactlyOnceHolds == Spec => []ExactlyOnce
<1>1. Inv => ExactlyOnce
  <2> SUFFICES ASSUME Inv, NEW t \in Tasks
               PROVE  LET queued == {i \in 1..Len(queue) : queue[i] = t}
                          held   == {w \in Workers : Holds(w) /\ handler[w] = t}
                      IN  Cardinality(queued) + Cardinality(held) + executed[t]
                            = IF t \in added THEN 1 ELSE 0
    BY DEF ExactlyOnce
  <2> DEFINE queued == {i \in 1..Len(queue) : queue[i] = t}
             held   == {w \in Workers : Holds(w) /\ handler[w] = t}
  <2>1. ASSUME queued # {} PROVE \E i : queued = {i}
    <3>1. PICK i \in queued : TRUE
      BY <2>1
    <3>2. \A j \in queued : j = i
      BY <3>1 DEF Inv, QueueInjective
    <3> QED BY <3>1, <3>2
  <2>2. ASSUME held # {} PROVE \E w : held = {w}
    <3>1. PICK w \in held : TRUE
      BY <2>2
    <3>2. \A v \in held : v = w
      BY <3>1 DEF Inv, HeldFresh
    <3> QED BY <3>1, <3>2
  <2>3. queued # {} => held = {} /\ executed[t] = 0 /\ t \in added
    BY DEF Inv, QueuedFresh, HeldFresh, InQueue
  <2>4. held # {} => executed[t] = 0 /\ t \in added
    BY DEF Inv, HeldFresh
  <2>5. /\ executed[t] \in {0, 1} /\ (t \notin added => executed[t] = 0)
        /\ t \in added => queued # {} \/ held # {} \/ executed[t] = 1
    BY DEF Inv, Accounted, InQueue
  <2>6. /\ queued = {} => Cardinality(queued) = 0
        /\ queued # {} => Cardinality(queued) = 1
    BY <2>1, FS_EmptySet, FS_Singleton
  <2>7. /\ held = {} => Cardinality(held) = 0
        /\ held # {} => Cardinality(held) = 1
    BY <2>2, FS_EmptySet, FS_Singleton
  <2> HIDE DEF queued, held
  <2>8. Cardinality(queued) + Cardinality(held) + executed[t]
            = IF t \in added THEN 1 ELSE 0
    BY <2>3, <2>4, <2>5, <2>6, <2>7
  <2> QED BY <2>8 DEF queued, held
<1> QED BY <1>1, InvHolds, PTL

-----------------------------------------------------------------------------
\* A step of the pool is a step of TaskPool or leaves what it shows unchanged.
LEMMA StepSimulates ==
    Inv /\ [Next]_vars => [Pool!PoolNext]_(Pool!poolVars)
<1> SUFFICES ASSUME Inv, [Next]_vars
             PROVE  [Pool!PoolNext]_(Pool!poolVars)
  OBVIOUS
<1> USE DEF Pool!poolVars
<1>1. ASSUME NEW t \in Tasks, NEW nested \in BOOLEAN, AddTask(t, nested)
      PROVE  Pool!Submit
  <2>1. /\ added' = added \cup {t} /\ t \notin added
        /\ promised' = promised \/ promised' = promised \cup {t}
        /\ UNCHANGED <<executed, main>>
    BY <1>1 DEF AddTask, Record
  <2> QED BY <2>1 DEF Pool!Submit, Inv, TypeOK
<1>2. ASSUME NEW b \in Batches, NEW nested \in BOOLEAN, AddTasks(b, nested)
      PROVE  Pool!Submit
  <2> DEFINE ts == {b[i] : i \in 1..Len(b)}
  <2>1. ts \subseteq Tasks
    BY BatchesAssumption
  <2>2. /\ added' = added \cup ts /\ ts \cap added = {}
        /\ promised' = promised \/ promised' = promised \cup ts
        /\ UNCHANGED <<executed, main>>
    BY <1>2 DEF AddTasks, Record
  <2> HIDE DEF ts
  <2> QED BY <2>1, <2>2 DEF Pool!Submit, Inv, TypeOK
<1>3. ASSUME NEW w \in Workers, Finish(w)
      PROVE  Pool!RunTask(handler[w]) /\ handler[w] \in Tasks
  <2>1. /\ handler[w] \in added /\ executed[handler[w]] = 0
        /\ handler[w] \in Tasks /\ main # "stopped"
    BY <1>3 DEF Finish, Inv, HeldFresh, Holds, TypeOK, StopProtocol
  <2>2. /\ executed' = [executed EXCEPT ![handler[w]] = 1]
        /\ UNCHANGED <<added, promised, main>>
    BY <1>3, <2>1 DEF Finish, Inv, TypeOK
  <2> QED BY <2>1, <2>2 DEF Pool!RunTask
<1>4. ASSUME NEW w \in Workers,
             Start(w) \/ Decide(w) \/ Announce(w) \/ Spurious(w)
      PROVE  UNCHANGED Pool!poolVars
  BY <1>4 DEF Start, Decide, Pop, Exit, Sleep, Announce, Spurious
<1>5. ASSUME Stop PROVE UNCHANGED Pool!poolVars
  BY <1>5 DEF Stop
<1>6. ASSUME Join PROVE Pool!Close
  <2>1. ASSUME NEW t \in promised PROVE executed[t] = 1
    <3>1. /\ \A w \in Workers : pc[w] = "exited"
          /\ t \in Tasks /\ t \in added
      BY <1>6 DEF Join, Inv, TypeOK
    <3>2. ~InQueue(t)
      BY <3>1 DEF Inv, NoneLeftBehind, InQueue
    <3> QED BY <3>1, <3>2 DEF Inv, Accounted, Holds
  <2> QED BY <1>6, <2>1 DEF Join, Pool!Close
<1>7. CASE UNCHANGED vars
  BY <1>7 DEF vars
<1> QED
  BY <1>1, <1>2, <1>3, <1>4, <1>5, <1>6, <1>7 DEF Next, Worker, Pool!PoolNext

\* The pool implements TaskPool: the safety part of its specification, for any
\* workers, tasks and vectors.  That owed tasks are run in the end is checked by
\* TLC.
THEOREM ImplementsTaskPool == Spec => Pool!PoolSafe
<1>1. Init => Pool!PoolInit
  BY DEF Init, Pool!PoolInit
<1> QED BY <1>1, StepSimulates, InvHolds, PTL DEF Spec, Pool!PoolSafe
=============================================================================
