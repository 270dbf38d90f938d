------------------------------ MODULE Connector ------------------------------
(***************************************************************************)
(* How tcp_client::add hands connection tasks to its connector threads:    *)
(* the count is divided among them, each part goes into the connector's    *)
(* table hosts_ under its lock, and a byte in a pipe tells its event loop. *)
(* on_pipe_readable drains the pipe, takes the table and connects.         *)
(*                                                                         *)
(* One thread calls add: the write buffer of the pipe is not protected.    *)
(***************************************************************************)
EXTENDS Naturals, Sequences, FiniteSetsExt

CONSTANTS N,         \* conts_.size()
          Hosts,     \* (address, port, family) tuples
          Amounts,   \* the values of t passed to tcp_client::add
          PipeSize,  \* bytes the pipe holds
          MaxCalls   \* bound: calls of tcp_client::add

ASSUME NAssumption == N \in Nat \ {0}
ASSUME AmountsAssumption == Amounts \subseteq Nat
ASSUME PipeAssumption == PipeSize \in Nat \ {0}
ASSUME CallsAssumption == MaxCalls \in Nat

VARIABLES plan,     \* calls of connector::add still to be made, in order
          adder,    \* where the calling thread is in connector::add
          hosts,    \* hosts_ of each connector
          wbuf,     \* bytes in the write buffer of each pipe
          pipe,     \* bytes in each pipe
          cpc,      \* where each connector thread is in on_pipe_readable
          taken,    \* its local table hosts
          handed,   \* sockets handed to a worker's loop, by host
          failures, \* failures_ of each connector
          asked,    \* history: connections asked for, by host
          calls     \* history: calls of tcp_client::add

vars == <<plan, adder, hosts, wbuf, pipe, cpc, taken, handed, failures, asked, calls>>

Conts == 1..N
NoHosts == [h \in Hosts |-> 0]

Init ==
    /\ plan = <<>>
    /\ adder = "idle"
    /\ hosts = [k \in Conts |-> NoHosts]
    /\ wbuf = [k \in Conts |-> 0]
    /\ pipe = [k \in Conts |-> 0]
    /\ cpc = [k \in Conts |-> "poll"]
    /\ taken = [k \in Conts |-> NoHosts]
    /\ handed = NoHosts
    /\ failures = [k \in Conts |-> NoHosts]
    /\ asked = NoHosts
    /\ calls = 0

-----------------------------------------------------------------------------
(* The thread that calls tcp_client::add. *)

\* Mutant: the remainder is forgotten.
EvenSplit(h, t) == [k \in Conts |-> [cont |-> k, host |-> h, num |-> t \div N]]

\* The calls of connector::add: an equal part for each connector, then the
\* remainder for the first.  One connector alone gets everything.
Split(h, t) ==
    IF N = 1 THEN <<[cont |-> 1, host |-> h, num |-> t]>>
    ELSE Append([k \in Conts |-> [cont |-> k, host |-> h, num |-> t \div N]],
                [cont |-> 1, host |-> h, num |-> t % N])

ClientAdd(h, t) ==
    /\ adder = "idle" /\ plan = <<>> /\ calls < MaxCalls
    /\ plan' = Split(h, t)
    /\ asked' = [asked EXCEPT ![h] = @ + t]
    /\ calls' = calls + 1
    /\ UNCHANGED <<adder, hosts, wbuf, pipe, cpc, taken, handed, failures>>

\* connector::add returns at once for t = 0.
AddNothing ==
    /\ adder = "idle" /\ plan # <<>> /\ Head(plan).num = 0
    /\ plan' = Tail(plan)
    /\ UNCHANGED <<adder, hosts, wbuf, pipe, cpc, taken, handed, failures, asked, calls>>

\* Mutant: the table alone, no byte.
AddTaskSilently ==
    LET p == Head(plan) IN
    /\ adder = "idle" /\ plan # <<>> /\ p.num > 0
    /\ hosts' = [hosts EXCEPT ![p.cont][p.host] = @ + p.num]
    /\ plan' = Tail(plan)
    /\ UNCHANGED <<adder, wbuf, pipe, cpc, taken, handed, failures, asked, calls>>

\* The task goes into the table, under the lock.
AddTask ==
    LET p == Head(plan) IN
    /\ adder = "idle" /\ plan # <<>> /\ p.num > 0
    /\ hosts' = [hosts EXCEPT ![p.cont][p.host] = @ + p.num]
    /\ adder' = "byte"
    /\ UNCHANGED <<plan, wbuf, pipe, cpc, taken, handed, failures, asked, calls>>

\* wbuffer().put_string("0").
AddByte ==
    /\ adder = "byte"
    /\ wbuf' = [wbuf EXCEPT ![Head(plan).cont] = @ + 1]
    /\ adder' = "flush"
    /\ UNCHANGED <<plan, hosts, pipe, cpc, taken, handed, failures, asked, calls>>

\* write_all(1): byte by byte, until all is written or the pipe is full.  What
\* the pipe refuses stays in the buffer for the next call.
Flush ==
    LET k == Head(plan).cont IN
    /\ adder = "flush"
    /\ \/ /\ wbuf[k] > 0 /\ pipe[k] < PipeSize
          /\ wbuf' = [wbuf EXCEPT ![k] = @ - 1]
          /\ pipe' = [pipe EXCEPT ![k] = @ + 1]
          /\ UNCHANGED <<plan, adder>>
       \/ /\ wbuf[k] = 0 \/ pipe[k] = PipeSize
          /\ plan' = Tail(plan)
          /\ adder' = "idle"
          /\ UNCHANGED <<wbuf, pipe>>
    /\ UNCHANGED <<hosts, cpc, taken, handed, failures, asked, calls>>

Adder == AddNothing \/ AddTask \/ AddByte \/ Flush

-----------------------------------------------------------------------------
(* The thread of connector k. *)

\* The pipe is readable: its loop calls on_pipe_readable.
Poll(k) ==
    /\ cpc[k] = "poll" /\ pipe[k] > 0
    /\ cpc' = [cpc EXCEPT ![k] = "drain"]
    /\ UNCHANGED <<plan, adder, hosts, wbuf, pipe, taken, handed, failures, asked, calls>>

\* read_all(1), until the pipe is empty.
Drain(k) ==
    /\ cpc[k] = "drain"
    /\ \/ /\ pipe[k] > 0
          /\ pipe' = [pipe EXCEPT ![k] = @ - 1]
          /\ UNCHANGED cpc
       \/ /\ pipe[k] = 0
          /\ cpc' = [cpc EXCEPT ![k] = "swap"]
          /\ UNCHANGED pipe
    /\ UNCHANGED <<plan, adder, hosts, wbuf, taken, handed, failures, asked, calls>>

\* The table is swapped with an empty one, under the lock.
Swap(k) ==
    /\ cpc[k] = "swap"
    /\ taken' = [taken EXCEPT ![k] = hosts[k]]
    /\ hosts' = [hosts EXCEPT ![k] = NoHosts]
    /\ cpc' = [cpc EXCEPT ![k] = "connect"]
    /\ UNCHANGED <<plan, adder, wbuf, pipe, handed, failures, asked, calls>>

\* One connect: the socket goes to a worker's loop, or the failure is counted.
Connect(k) ==
    /\ cpc[k] = "connect"
    /\ \E h \in Hosts :
        /\ taken[k][h] > 0
        /\ taken' = [taken EXCEPT ![k][h] = @ - 1]
        /\ \/ handed' = [handed EXCEPT ![h] = @ + 1] /\ UNCHANGED failures
           \/ failures' = [failures EXCEPT ![k][h] = @ + 1] /\ UNCHANGED handed
    /\ UNCHANGED <<plan, adder, hosts, wbuf, pipe, cpc, asked, calls>>

\* Mutant: the pipe is emptied once more when the connecting is over.
ReturnDraining(k) ==
    /\ cpc[k] = "connect" /\ taken[k] = NoHosts
    /\ cpc' = [cpc EXCEPT ![k] = "poll"]
    /\ pipe' = [pipe EXCEPT ![k] = 0]
    /\ UNCHANGED <<plan, adder, hosts, wbuf, taken, handed, failures, asked, calls>>

\* Everything taken has been tried.
Return(k) ==
    /\ cpc[k] = "connect" /\ taken[k] = NoHosts
    /\ cpc' = [cpc EXCEPT ![k] = "poll"]
    /\ UNCHANGED <<plan, adder, hosts, wbuf, pipe, taken, handed, failures, asked, calls>>

Cont(k) == Poll(k) \/ Drain(k) \/ Swap(k) \/ Connect(k) \/ Return(k)

Next ==
    \/ \E h \in Hosts, t \in Amounts : ClientAdd(h, t)
    \/ Adder
    \/ \E k \in Conts : Cont(k)

\* Both threads run on; nobody has to ask for connections.
Fairness == WF_vars(Adder) /\ \A k \in Conts : WF_vars(Cont(k))

Spec == Init /\ [][Next]_vars /\ Fairness

-----------------------------------------------------------------------------
\* The arguments of a call of connector::add.
Requests == [cont : Conts, host : Hosts, num : Nat]

TypeOK ==
    /\ plan \in Seq(Requests)
    /\ adder \in {"idle", "byte", "flush"}
    /\ adder # "idle" => plan # <<>>
    /\ hosts \in [Conts -> [Hosts -> Nat]]
    /\ wbuf \in [Conts -> Nat]
    /\ pipe \in [Conts -> 0..PipeSize]
    /\ cpc \in [Conts -> {"poll", "drain", "swap", "connect"}]
    /\ taken \in [Conts -> [Hosts -> Nat]]
    /\ handed \in [Hosts -> Nat]
    /\ failures \in [Conts -> [Hosts -> Nat]]
    /\ asked \in [Hosts -> Nat]
    /\ calls \in Nat

SumOver(f, S) == MapThenSumSet(LAMBDA k : f[k], S)

\* Connections still in calls of connector::add that have not stored theirs.
Planned(h) ==
    LET open == {i \in 1..Len(plan) : plan[i].host = h /\ (i > 1 \/ adder = "idle")}
    IN  SumOver([i \in open |-> plan[i].num], open)
Attempted(h) == handed[h] + SumOver([k \in Conts |-> failures[k][h]], Conts)

\* Every connection asked for is in one place, whatever the count and however
\* many connectors there are: to be stored, in a table, in the hands of a
\* connector, handed to a loop, or counted as a failure (tcp.cc:208-290,
\* 371-387).
EachConnectionOnce ==
    \A h \in Hosts : asked[h] = Planned(h) + Attempted(h)
        + SumOver([k \in Conts |-> hosts[k][h] + taken[k][h]], Conts)

\* A stored task has a byte in the pipe, or on its way, or its connector has
\* drained the pipe and is about to take the table: also when the pipe was
\* full and refused the byte.
NoTaskForgotten ==
    \A k \in Conts : hosts[k] # NoHosts =>
        \/ pipe[k] > 0
        \/ cpc[k] \in {"drain", "swap"}
        \/ adder \in {"byte", "flush"} /\ Head(plan).cont = k

\* Every connection asked for is tried in the end.
AllAttempted ==
    \A h \in Hosts : Attempted(h) < asked[h] ~> Attempted(h) = asked[h]
=============================================================================
