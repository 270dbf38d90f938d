------------------------------- MODULE Reactor -------------------------------
(***************************************************************************)
(* The life of a tcp_server or tcp_client (tcp.cc): run() starts the       *)
(* worker threads and then the threads that make connections, acceptors or *)
(* connectors, here sources; each runs event_loop::loop_forever.  A source *)
(* hands every new connection to the least loaded worker, whose loads it   *)
(* reads one after the other while the workers change them.  shutdown()    *)
(* stops and joins first the sources, then the workers, while the loops    *)
(* wait in the kernel, run callbacks or test stop_.                        *)
(*                                                                         *)
(* Threads are numbered in the order of run(): workers 1..NW, then sources.*)
(* A connection is followed from its arrival to its end; what happens on   *)
(* it meanwhile is the module Connection.                                  *)
(***************************************************************************)
EXTENDS Naturals, FiniteSets

CONSTANTS NW,      \* thr_num: worker threads
          NS,      \* acceptors or connectors
          Conns,   \* connections
          Batch,   \* connections one accept() call takes at most
          Client,  \* the sources are connectors, whose connect may fail
          Via      \* the sources each connection may come through

ASSUME ThreadsAssumption == NW \in Nat \ {0} /\ NS \in Nat \ {0}
ASSUME ConnsAssumption == IsFiniteSet(Conns)
ASSUME BatchAssumption == Batch \in Nat \ {0}
ASSUME ClientAssumption == Client \in BOOLEAN

Workers == 1..NW
Sources == NW + 1 .. NW + NS
Threads == Workers \cup Sources

ASSUME ViaAssumption == Via \in [Conns -> SUBSET Sources]

VARIABLES phase,  \* of the thread that calls run() and shutdown()
          at,     \* the thread its loop has come to
          tpc,    \* where each thread is
          stop,   \* stop_ of each event loop
          pipe,   \* the pipe stop_loop_forever wakes a loop with
          stage,  \* of each connection
          home,   \* the thread a connection is with
          batch,  \* the callbacks a worker has queued, by connection
          turn,   \* the worker a source has come to in minloads_get_evlp
          step,   \* which of the two reads of its loads is next: "look", "note"
          best,   \* minloads_evlp of a source
          least,  \* minloads of a source
          late    \* history: connections given to a loop told to stop

ctlVars  == <<phase, at>>
loopVars == <<tpc, stop, pipe>>
connVars == <<stage, home, batch, late>>
scanVars == <<turn, step, best, least>>
vars == <<ctlVars, loopVars, connVars, scanVars>>

Phases == {"run", "serve", "stop_sources", "join_sources", "stop_workers",
           "join_workers", "done"}

Init ==
    /\ phase = "run" /\ at = 1
    /\ tpc = [t \in Threads |-> "new"]
    /\ stop = [t \in Threads |-> FALSE]
    /\ pipe = [t \in Threads |-> "none"]
    /\ stage = [c \in Conns |-> "away"]
    /\ home = [c \in Conns |-> 0]
    /\ batch = [w \in Workers |-> {}]
    /\ late = {}
    /\ turn = [s \in Sources |-> 1] /\ step = [s \in Sources |-> "note"]
    /\ best = [s \in Sources |-> 0] /\ least = [s \in Sources |-> 0]

At(s, st) == {c \in Conns : home[c] = s /\ stage[c] = st}

-----------------------------------------------------------------------------
(* The controlling thread. *)

\* Mutant: shutdown stops the workers first.
AdvanceWorkersFirst ==
    \/ /\ \/ phase \in {"run", "stop_sources", "join_sources"} /\ at # NW + NS
          \/ phase \in {"stop_workers", "join_workers"} /\ at # NW
       /\ at' = at + 1 /\ UNCHANGED phase
    \/ /\ phase = "run" /\ at = NW + NS
       /\ phase' = "serve" /\ at' = 1
    \/ /\ phase = "stop_workers" /\ at = NW
       /\ phase' = "join_workers" /\ at' = 1
    \/ /\ phase = "join_workers" /\ at = NW
       /\ phase' = "stop_sources" /\ at' = NW + 1
    \/ /\ phase = "stop_sources" /\ at = NW + NS
       /\ phase' = "join_sources" /\ at' = NW + 1
    \/ /\ phase = "join_sources" /\ at = NW + NS
       /\ phase' = "done" /\ at' = 0

\* The next thread of the loop, or the next loop.
Advance ==
    \/ /\ \/ phase \in {"run", "stop_sources", "join_sources"} /\ at # NW + NS
          \/ phase \in {"stop_workers", "join_workers"} /\ at # NW
       /\ at' = at + 1 /\ UNCHANGED phase
    \/ /\ phase = "run" /\ at = NW + NS
       /\ phase' = "serve" /\ at' = NW + 1
    \/ /\ phase = "stop_sources" /\ at = NW + NS
       /\ phase' = "join_sources" /\ at' = NW + 1
    \/ /\ phase = "join_sources" /\ at = NW + NS
       /\ phase' = "stop_workers" /\ at' = 1
    \/ /\ phase = "stop_workers" /\ at = NW
       /\ phase' = "join_workers" /\ at' = 1
    \/ /\ phase = "join_workers" /\ at = NW
       /\ phase' = "done" /\ at' = 0

\* run(): pthread_create for the next thread.
RunThread ==
    /\ phase = "run"
    /\ tpc' = [tpc EXCEPT ![at] = "test"]
    /\ Advance
    /\ UNCHANGED <<stop, pipe, connVars, scanVars>>

\* The user calls shutdown().
Shutdown ==
    /\ phase = "serve"
    /\ phase' = IF at \in Sources THEN "stop_sources" ELSE "stop_workers"
    /\ UNCHANGED <<at, loopVars, connVars, scanVars>>

Stopping == phase \in {"stop_sources", "stop_workers"}

\* stop_loop_forever: the flag first, ...
SetStop ==
    /\ Stopping /\ ~stop[at]
    /\ stop' = [stop EXCEPT ![at] = TRUE]
    /\ UNCHANGED <<ctlVars, tpc, pipe, connVars, scanVars>>

\* Mutant: nothing wakes the loop.
HangUpNot ==
    /\ Stopping /\ stop[at]
    /\ Advance
    /\ UNCHANGED <<loopVars, connVars, scanVars>>

\* ... then the read end of a fresh pipe is registered with the loop, and hangs
\* up when the write end dies with the local vector.
HangUp ==
    /\ Stopping /\ stop[at]
    /\ pipe' = [pipe EXCEPT ![at] = "hung"]
    /\ Advance
    /\ UNCHANGED <<tpc, stop, connVars, scanVars>>

\* join() of the next thread.
Join ==
    /\ phase \in {"join_sources", "join_workers"}
    /\ tpc[at] = "ended"
    /\ Advance
    /\ UNCHANGED <<loopVars, connVars, scanVars>>

Control == RunThread \/ SetStop \/ HangUp \/ Join

-----------------------------------------------------------------------------
(* loop_forever of any thread. *)

Goto(t, pc) == tpc' = [tpc EXCEPT ![t] = pc]

\* The test of stop_; run_impl returns when it is set.
Test(t) ==
    /\ tpc[t] = "test"
    /\ Goto(t, IF stop[t] THEN "ended" ELSE "wait")
    /\ UNCHANGED <<ctlVars, stop, pipe, connVars, scanVars>>

\* The kernel wakes the loop for a hung-up pipe; no callback is run for that.
Wake(t) ==
    /\ tpc[t] = "wait" /\ pipe[t] = "hung" /\ Goto(t, "test")
    /\ UNCHANGED <<ctlVars, stop, pipe, connVars, scanVars>>

-----------------------------------------------------------------------------
(* A source: acceptor::on_acpt_readable, connector::on_pipe_readable. *)

\* accept() takes what is queued, at most Batch at a time, or the connector takes
\* the hosts it has swapped out.
Take(s) ==
    /\ tpc[s] = "wait"
    /\ \E T \in SUBSET At(s, "queued") \ {{}} :
        /\ Cardinality(T) = Batch \/ (Cardinality(T) < Batch /\ T = At(s, "queued"))
        /\ stage' = [c \in Conns |-> IF c \in T THEN "taken" ELSE stage[c]]
    /\ Goto(s, "hand")
    /\ UNCHANGED <<ctlVars, stop, pipe, home, batch, late, scanVars>>

\* ev_loads(): entries of fds_.  A connection has one until its handler removes
\* it, none until the handler stores on_writable, and two once it is opened; the
\* pipe of stop_loop_forever has one.
Loads(w) == Cardinality(At(w, "handed") \cup At(w, "hooked"))
            + 2 * Cardinality(At(w, "open") \cup At(w, "ending"))
            + (IF pipe[w] = "none" THEN 0 ELSE 1)

\* Where minloads_get_evlp begins: the loads of the first loop are below INT32_MAX
\* whatever they are, so that it is noted without a look.
Fresh(s) == turn[s] = 1 /\ step[s] = "note"

\* Mutant: the comparison is the wrong way round.
LookGreater(s) ==
    /\ tpc[s] = "hand" /\ turn[s] \in Workers /\ step[s] = "look"
    /\ IF Loads(turn[s]) > least[s]
       THEN step' = [step EXCEPT ![s] = "note"] /\ UNCHANGED turn
       ELSE turn' = [turn EXCEPT ![s] = @ + 1] /\ UNCHANGED step
    /\ UNCHANGED <<ctlVars, loopVars, connVars, best, least>>

\* minloads_get_evlp, without a lock: the loads are compared with the least, ...
Look(s) ==
    /\ tpc[s] = "hand" /\ turn[s] \in Workers /\ step[s] = "look"
    /\ IF Loads(turn[s]) < least[s]
       THEN step' = [step EXCEPT ![s] = "note"] /\ UNCHANGED turn
       ELSE turn' = [turn EXCEPT ![s] = @ + 1] /\ UNCHANGED step
    /\ UNCHANGED <<ctlVars, loopVars, connVars, best, least>>

\* ... and read once more to be noted as the least.
Note(s) ==
    /\ tpc[s] = "hand" /\ turn[s] \in Workers /\ step[s] = "note"
    /\ best' = [best EXCEPT ![s] = turn[s]]
    /\ least' = [least EXCEPT ![s] = Loads(turn[s])]
    /\ turn' = [turn EXCEPT ![s] = @ + 1]
    /\ step' = [step EXCEPT ![s] = "look"]
    /\ UNCHANGED <<ctlVars, loopVars, connVars>>

\* Mutant: one connection is handed over and the rest of the batch forgotten.
ProceedOnce(s) == Goto(s, "test")

\* The next connection of those taken, or back to the loop after the last.
Proceed(s) == Goto(s, IF Cardinality(At(s, "taken")) = 1 THEN "test" ELSE "hand")

\* fd_register with the loop that was picked.
Hand(s) ==
    /\ tpc[s] = "hand" /\ turn[s] = NW + 1
    /\ \E c \in At(s, "taken") :
        /\ stage' = [stage EXCEPT ![c] = "handed"]
        /\ home' = [home EXCEPT ![c] = best[s]]
        /\ late' = IF stop[best[s]] THEN late \cup {c} ELSE late
    /\ Proceed(s)
    /\ turn' = [turn EXCEPT ![s] = 1] /\ step' = [step EXCEPT ![s] = "note"]
    /\ best' = [best EXCEPT ![s] = 0] /\ least' = [least EXCEPT ![s] = 0]
    /\ UNCHANGED <<ctlVars, stop, pipe, batch>>

\* A connect that fails at once is counted and the socket given up.
ConnectFails(s) ==
    /\ Client /\ tpc[s] = "hand" /\ Fresh(s)
    /\ \E c \in At(s, "taken") : stage' = [stage EXCEPT ![c] = "failed"]
    /\ Proceed(s)
    /\ UNCHANGED <<ctlVars, stop, pipe, home, batch, late, scanVars>>

Source(s) ==
    Test(s) \/ Wake(s) \/ Take(s) \/ Look(s) \/ Note(s) \/ Hand(s) \/ ConnectFails(s)

-----------------------------------------------------------------------------
(* A worker. *)

\* Connections with an event for the worker.
Due(w) == At(w, "handed") \cup At(w, "ending")

\* epoll_wait returns and the callbacks are queued.
WorkerWake(w) ==
    /\ tpc[w] = "wait" /\ Due(w) # {}
    /\ batch' = [batch EXCEPT ![w] = Due(w)]
    /\ Goto(w, "serve")
    /\ UNCHANGED <<ctlVars, stop, pipe, stage, home, late, scanVars>>

\* The next callback that is queued, or back to the loop.
Onward(w, rest) == Goto(w, IF rest = {} THEN "test" ELSE "serve")

\* The next callback: of a new connection, which is first of all removed, or of an
\* ended one, which is removed for good.
Serve(w) ==
    /\ tpc[w] = "serve"
    /\ \E c \in batch[w] :
        /\ batch' = [batch EXCEPT ![w] = @ \ {c}]
        /\ \/ /\ stage[c] = "handed"
              /\ stage' = [stage EXCEPT ![c] = "bare"]
              /\ Goto(w, "opening")
           \/ /\ stage[c] = "ending"
              /\ stage' = [stage EXCEPT ![c] = "gone"]
              /\ Onward(w, batch[w] \ {c})
    /\ UNCHANGED <<ctlVars, stop, pipe, home, late, scanVars>>

\* on_acpt_writable, on_cont_writable: on_writable is stored again, unless the
\* connect turns out to have failed.
Hook(w) ==
    /\ tpc[w] = "opening"
    /\ \E c \in At(w, "bare") :
        \/ stage' = [stage EXCEPT ![c] = "hooked"] /\ UNCHANGED tpc
        \/ Client /\ stage' = [stage EXCEPT ![c] = "gone"] /\ Onward(w, batch[w])
    /\ UNCHANGED <<ctlVars, stop, pipe, home, batch, late, scanVars>>

\* After on_accept or on_connect, on_readable is stored too.
Open(w) ==
    /\ tpc[w] = "opening"
    /\ \E c \in At(w, "hooked") : stage' = [stage EXCEPT ![c] = "open"]
    /\ Onward(w, batch[w])
    /\ UNCHANGED <<ctlVars, stop, pipe, home, batch, late, scanVars>>

Worker(w) == Test(w) \/ Wake(w) \/ WorkerWake(w) \/ Serve(w) \/ Hook(w) \/ Open(w)

-----------------------------------------------------------------------------
(* Peers, or the callers of add(). *)

Arrive(c, s) ==
    /\ stage[c] = "away"
    /\ stage' = [stage EXCEPT ![c] = "queued"]
    /\ home' = [home EXCEPT ![c] = s]
    /\ UNCHANGED <<ctlVars, loopVars, batch, late, scanVars>>

PeerEnds(c) ==
    /\ stage[c] = "open"
    /\ stage' = [stage EXCEPT ![c] = "ending"]
    /\ UNCHANGED <<ctlVars, loopVars, home, batch, late, scanVars>>

Next ==
    \/ Control \/ Shutdown
    \/ \E s \in Sources : Source(s)
    \/ \E w \in Workers : Worker(w)
    \/ \E c \in Conns : PeerEnds(c) \/ \E s \in Via[c] : Arrive(c, s)

\* Every thread runs on; nobody has to call shutdown() or to connect.
Fairness ==
    /\ WF_vars(Control)
    /\ \A s \in Sources : WF_vars(Source(s))
    /\ \A w \in Workers : WF_vars(Worker(w))

Spec == Init /\ [][Next]_vars /\ Fairness

-----------------------------------------------------------------------------
\* shutdown() joins the sources before it stops a worker (tcp.cc:338-354,
\* 419-435), so no connection is ever registered with a loop that has been told
\* to stop, and when shutdown() has returned none is left between two threads.
NoneLate ==
    /\ late = {}
    /\ phase = "done" => \A c \in Conns : stage[c] # "taken"

\* "This is not thread safe but it's okay" (tcp.cc:23): the loads are read twice
\* and one after the other while they change, and those of a worker drop for a
\* moment whenever it opens a connection (tcp.cc:117-121); but no worker is
\* overlooked: until a worker is given its first connection no other has more than
\* one for each source and one.
NoneOverlooked ==
    LET Has(w) == {c \in Conns : home[c] = w /\ stage[c] # "gone"} IN
    \A v, w \in Workers :
        (\A c \in Conns : home[c] # v) => Cardinality(Has(w)) <= NS + 1

\* shutdown() returns: a loop that tested stop_ before it was set, and one that
\* sleeps in the kernel, are woken by the pipe (event_loop.h:103-114), and every
\* thread it joins ends.
ShutdownReturns ==
    Stopping ~> phase = "done" /\ \A t \in Threads : tpc[t] = "ended"

\* A connection that has arrived is opened by a worker, unless its connect fails
\* or shutdown() is called.
ArrivalsServed ==
    \A c \in Conns : stage[c] = "queued" ~>
        stage[c] \in {"open", "ending", "gone", "failed"} \/ phase \notin {"run", "serve"}
=============================================================================
