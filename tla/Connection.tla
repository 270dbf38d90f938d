------------------------------ MODULE Connection ------------------------------
(***************************************************************************)
(* TCP connections in the reactor of tcp.cc on the event loops of          *)
(* event_loop_epoll.cc and event_loop_kqueue.cc: acceptor or connector     *)
(* threads hand sockets to worker loops, the loops run the iohandler       *)
(* callbacks, and these call the user's callbacks, which may write         *)
(* (async_write) or close (safely_close).                                  *)
(*                                                                         *)
(* A worker runs one handler at a time, but the descriptor table is shared *)
(* with the other threads and the peer acts at any time.  A handler is     *)
(* therefore a list of steps, todo; a callback pushes the steps of what it *)
(* calls in front of the rest.  Bytes are counted, not named.              *)
(***************************************************************************)
EXTENDS Naturals, Sequences, FiniteSets

CONSTANTS Conns,     \* socket objects, each used for one connection
          Dialled,   \* those a connector made; an acceptor made the others
          Fds,       \* descriptor numbers, lowest free one first
          Loops,     \* event loops of the worker threads
          None,
          Backends,  \* "epoll" (Linux), "kqueue" (macOS): one per process
          OnOpen,    \* what on_accept and on_connect may do
          OnRead,    \* what on_read_complete may do
          OnWritten, \* what on_write_complete may do
          PeerMay,   \* how a peer may end a connection: "fin", "reset"
          MsgLen,    \* bytes a callback puts into wbuffer at once
          Capacity,  \* bytes the kernel takes before write says EAGAIN
          MaxMsgs,   \* bound: messages written per connection
          MaxReqs    \* bound: requests a peer sends per connection

ASSUME FdsAssumption == Fds \subseteq Nat
ASSUME PolicyAssumption ==
    /\ Dialled \subseteq Conns
    /\ Backends \subseteq {"epoll", "kqueue"}
    /\ OnOpen \cup OnRead \cup OnWritten \subseteq {"idle", "write", "close"}
    /\ PeerMay \subseteq {"fin", "reset"}
ASSUME SizesAssumption == {MsgLen, Capacity, MaxMsgs, MaxReqs} \subseteq Nat
ASSUME NoneAssumption == None \notin Conns \cup Fds \cup Loops

VARIABLES stage,    \* of a connection, from "unborn" to "gone"
          fdOf,     \* fd_
          loopOf,   \* evlp_
          closed,   \* closed_
          flags,    \* which of eof_, eop_ and reset_ are set
          wbuf,     \* wbuffer().size()
          file,     \* the kernel's descriptor table
          interest, \* the kernel's queue of each loop, by descriptor: the events
                    \* watched, and with kqueue those that have fired (EV_CLEAR)
          link,     \* the kernel's and the peer's side of a connection
          fds,      \* fds_ of each loop: the stored callbacks
          events,   \* fd_events_ of each loop, kept for kqueue only
          batch,    \* fd_cbs_ of each loop
          cur,      \* the connection whose handler a loop runs, if any
          todo,     \* the steps left of that handler
          msgs,     \* messages written so far
          ended,    \* history: how often on_closed was called
          backend,  \* the event loop the library was built with
          fault     \* an exception left a thread, or a stale number was used

sockVars   == <<stage, fdOf, loopOf, closed, flags, wbuf>>
kernelVars == <<file, interest, link>>
loopVars   == <<fds, events, batch, cur, todo>>
histVars   == <<msgs, ended>>
procVars   == <<backend, fault>>
vars == <<sockVars, kernelVars, loopVars, histVars, procVars>>

Handlers == {"acpt_writable", "cont_writable", "readable", "writable"}
Callbacks == {"on_open", "on_read_complete", "on_write_complete", "on_closed"}
Steps == Callbacks \cup
    {"read", "finish_read", "write", "finish_write", "resume_read",
     "check_write", "settle", "remove", "check_connect", "prepare",
     "start_read", "unhook", "close", "release"}

\* Mutant: the descriptor is closed before its callbacks are erased.
CloseThenErase == <<"close", "unhook">>

\* The order of the calls in each function.
Program == [h \in Handlers |->
    CASE h = "readable" ->
            <<"read", "on_read_complete", "finish_read", "release">>
      [] h = "writable" ->
            <<"write", "finish_write", "check_write", "release">>
      [] h = "acpt_writable" ->
            <<"remove", "prepare", "on_open", "start_read", "release">>
      [] h = "cont_writable" ->
            <<"remove", "check_connect", "prepare", "on_open", "start_read",
              "release">>]
AsyncWrite == <<"write", "settle">>
SafelyClose == <<"unhook", "close">>

Event(h) == IF h = "readable" THEN "r" ELSE "w"
Unwatched == [on |-> {}, hot |-> {}]
Entry(c, h) == [fd |-> fdOf[c], conn |-> c, cb |-> h]

Init ==
    /\ stage = [c \in Conns |-> "unborn"]
    /\ fdOf = [c \in Conns |-> None]
    /\ loopOf = [c \in Conns |-> None]
    /\ closed = [c \in Conns |-> FALSE]
    /\ flags = [c \in Conns |-> {}]
    /\ wbuf = [c \in Conns |-> 0]
    /\ file = [f \in Fds |-> None]
    /\ interest = [l \in Loops |-> [f \in Fds |-> Unwatched]]
    /\ link = [c \in Conns |-> [peer |-> "open", in |-> 0, out |-> 0, sent |-> 0]]
    /\ fds = [l \in Loops |-> {}]
    /\ events = [l \in Loops |-> [f \in Fds |-> {}]]
    /\ batch = [l \in Loops |-> {}]
    /\ cur = [l \in Loops |-> None]
    /\ todo = [l \in Loops |-> <<>>]
    /\ msgs = [c \in Conns |-> 0]
    /\ ended = [c \in Conns |-> 0]
    /\ backend \in Backends
    /\ fault = FALSE

-----------------------------------------------------------------------------
(* The descriptor table, epoll and kqueue. *)

Owns(c) == fdOf[c] # None /\ file[fdOf[c]] = c

Ready(c, i) ==
    \/ i = "r" /\ (link[c].in > 0 \/ link[c].peer # "open")
    \/ i = "w" /\ (link[c].out < Capacity \/ link[c].peer = "reset")

Watched(l, c) == interest[l][fdOf[c]].on
Recorded(l, c) == events[l][fdOf[c]]

\* EPOLL_CTL_ADD fails for a descriptor that is in the set, EV_ADD does not.
CanAdd(l, c) == Owns(c) /\ (backend = "epoll" => Watched(l, c) = {})

\* EPOLL_CTL_DEL fails for a descriptor that is not in the set.  For kqueue the
\* recorded events are deleted one by one, and EV_DELETE fails for an event
\* that is not watched.
EpollCanDel(l, c) == Owns(c) /\ Watched(l, c) # {}
KqueueCanDel(l, c) ==
    Recorded(l, c) # {} => Owns(c) /\ Recorded(l, c) \subseteq Watched(l, c)
CanDel(l, c) == IF backend = "epoll" THEN EpollCanDel(l, c) ELSE KqueueCanDel(l, c)

\* The events that fd_remove takes out.
Removed(l, c) == IF backend = "epoll" THEN Watched(l, c) ELSE Recorded(l, c)

\* Take the events in out away and watch those in new; EV_ADD fires at once for
\* a condition that holds.
Watch(l, c, out, new) ==
    /\ interest' = [interest EXCEPT ![l][fdOf[c]] =
            [on |-> (@.on \ out) \cup new,
             hot |-> IF backend = "epoll" THEN {}
                     ELSE (@.hot \ out) \cup {i \in new : Ready(c, i)}]]
    /\ events' = [events EXCEPT ![l][fdOf[c]] =
            IF backend = "epoll" THEN {} ELSE (@ \ out) \cup new]

\* Something happened to the socket: kqueue notes the watched events it is for.
Fire(c, evs) ==
    interest' = [l \in Loops |-> [interest[l] EXCEPT ![fdOf[c]].hot =
        IF backend = "epoll" THEN {} ELSE @ \cup (evs \cap Watched(l, c))]]

\* Closing a descriptor takes it out of every queue of the kernel.
CloseFd(c) ==
    /\ file' = [file EXCEPT ![fdOf[c]] = None]
    /\ interest' = [l \in Loops |-> [interest[l] EXCEPT ![fdOf[c]] = Unwatched]]

\* fds_.erase(fd): every callback stored under the number.
Erase(l, c) == fds' = [fds EXCEPT ![l] = {e \in @ : e.fd # fdOf[c]}]

-----------------------------------------------------------------------------
(* The acceptor and connector threads.  Any loop may be the least loaded.  *)

Accept(c) ==
    /\ stage[c] = "unborn"
    /\ \E f \in Fds :
        /\ file[f] = None
        /\ \A g \in Fds : file[g] = None => f <= g
        /\ file' = [file EXCEPT ![f] = c]
        /\ fdOf' = [fdOf EXCEPT ![c] = f]
    /\ stage' = [stage EXCEPT ![c] = "accepted"]
    /\ UNCHANGED <<loopOf, closed, flags, wbuf, interest, link, loopVars, histVars, procVars>>

\* fd_register, first half: set_evlp and the callback.
Store(c, l) ==
    LET h == IF c \in Dialled THEN "cont_writable" ELSE "acpt_writable" IN
    /\ stage[c] = "accepted"
    /\ loopOf' = [loopOf EXCEPT ![c] = l]
    /\ fds' = [fds EXCEPT ![l] = @ \cup {Entry(c, h)}]
    /\ stage' = [stage EXCEPT ![c] = "stored"]
    /\ UNCHANGED <<fdOf, closed, flags, wbuf, kernelVars, events, batch, cur, todo, histVars, procVars>>

\* fd_register, second half: EPOLL_CTL_ADD for writing.
Publish(c) ==
    /\ stage[c] = "stored"
    /\ Watch(loopOf[c], c, {}, {"w"})
    /\ stage' = [stage EXCEPT ![c] = "live"]
    /\ UNCHANGED <<fdOf, loopOf, closed, flags, wbuf, file, link, fds, batch, cur, todo, histVars, procVars>>

-----------------------------------------------------------------------------
(* event_loop::loop_once. *)

\* What epoll_wait or kevent returns for a descriptor: epoll what holds, kqueue
\* what has fired since it was last returned and still holds.
Holds(f, evs) == {i \in evs : file[f] # None /\ Ready(file[f], i)}
EpollReported(l, f) == Holds(f, interest[l][f].on)
KqueueReported(l, f) == Holds(f, interest[l][f].hot)
Reported(l, f) == IF backend = "epoll" THEN EpollReported(l, f) ELSE KqueueReported(l, f)

\* The callbacks stored for the events are queued.
Poll(l) ==
    /\ cur[l] = None /\ batch[l] = {}
    /\ \E f \in Fds : Reported(l, f) # {}
    /\ batch' = [batch EXCEPT ![l] =
            {<<e.conn, e.cb>> : e \in {x \in fds[l] : Event(x.cb) \in Reported(l, x.fd)}}]
    /\ interest' = [interest EXCEPT ![l] = [f \in Fds |-> [@[f] EXCEPT !.hot = {}]]]
    /\ UNCHANGED <<sockVars, file, link, fds, events, cur, todo, histVars, procVars>>

\* A queued callback starts; those of equal priority in any order.
Dispatch(l) ==
    /\ cur[l] = None
    /\ \E x \in batch[l] :
        /\ batch' = [batch EXCEPT ![l] = @ \ {x}]
        /\ cur' = [cur EXCEPT ![l] = x[1]]
        /\ todo' = [todo EXCEPT ![l] = Program[x[2]]]
    /\ UNCHANGED <<sockVars, kernelVars, fds, events, histVars, procVars>>

-----------------------------------------------------------------------------
(* The steps of the handlers, on loop l for connection c. *)

At(l, c, step) == cur[l] = c /\ todo[l] # <<>> /\ Head(todo[l]) = step

\* Go on with steps, then with the rest of the handler.
Then(l, steps) == todo' = [todo EXCEPT ![l] = steps \o Tail(@)]

Fault == fault' = TRUE /\ UNCHANGED <<sockVars, kernelVars, loopVars, histVars, backend>>

\* read_all: all that has arrived, up to EAGAIN, the end or an error.
Read(l, c) ==
    /\ At(l, c, "read")
    /\ IF ~Owns(c) THEN Fault ELSE
        /\ \/ link[c].peer = "open" /\ UNCHANGED flags
           \/ link[c].peer = "fin" /\ flags' = [flags EXCEPT ![c] = @ \cup {"eof"}]
           \/ /\ link[c].peer = "reset"
              /\ \E r \in {"eof", "reset"} : flags' = [flags EXCEPT ![c] = @ \cup {r}]
        /\ link' = [link EXCEPT ![c].in = 0]
        /\ Then(l, <<>>)
        /\ UNCHANGED <<stage, fdOf, loopOf, closed, wbuf, file, interest, fds, events, batch, cur, histVars, procVars>>

\* write_all, one byte at a time: the peer may make room meanwhile.
Write(l, c) ==
    /\ At(l, c, "write")
    /\ IF wbuf[c] > 0 /\ ~Owns(c) THEN Fault ELSE
        /\ \/ /\ wbuf[c] > 0 /\ link[c].peer # "reset" /\ link[c].out < Capacity
              /\ wbuf' = [wbuf EXCEPT ![c] = @ - 1]
              /\ link' = [link EXCEPT ![c].out = @ + 1]
              /\ UNCHANGED <<flags, todo>>
           \/ /\ wbuf[c] > 0 /\ link[c].peer = "reset"
              /\ \E r \in {"eop", "reset"} : flags' = [flags EXCEPT ![c] = @ \cup {r}]
              /\ Then(l, <<>>)
              /\ UNCHANGED <<wbuf, link>>
           \/ /\ wbuf[c] = 0 \/ (link[c].peer # "reset" /\ link[c].out = Capacity)
              /\ Then(l, <<>>)
              /\ UNCHANGED <<wbuf, flags, link>>
        /\ UNCHANGED <<stage, fdOf, loopOf, closed, file, interest, fds, events, batch, cur, histVars, procVars>>

\* A user callback: it does nothing, or fills wbuffer and calls async_write,
\* or calls safely_close.  on_closed does nothing to the connection.
UserMay(c, step) ==
    LET policy == [on_open |-> OnOpen, on_read_complete |-> OnRead,
                   on_write_complete |-> OnWritten, on_closed |-> {"idle"}][step]
    IN  IF msgs[c] < MaxMsgs THEN policy ELSE (policy \ {"write"}) \cup {"idle"}

Callback(l, c, step) ==
    /\ At(l, c, step)
    /\ \E act \in UserMay(c, step) :
        /\ wbuf' = IF act = "write" THEN [wbuf EXCEPT ![c] = @ + MsgLen] ELSE wbuf
        /\ msgs' = IF act = "write" THEN [msgs EXCEPT ![c] = @ + 1] ELSE msgs
        /\ Then(l, CASE act = "idle"  -> <<>>
                     [] act = "write" -> AsyncWrite
                     [] act = "close" -> SafelyClose)
    /\ ended' = IF step = "on_closed" THEN [ended EXCEPT ![c] = @ + 1] ELSE ended
    /\ UNCHANGED <<stage, fdOf, loopOf, closed, flags, kernelVars, fds, events, batch, cur, procVars>>

\* Mutant: async_write adds the write interest without removing the other one.
SettleNoRemove(l, c) ==
    /\ At(l, c, "settle")
    /\ IF wbuf[c] > 0 /\ ~CanAdd(l, c) THEN Fault ELSE
        /\ IF wbuf[c] = 0
           THEN Then(l, <<"on_write_complete">>) /\ UNCHANGED <<interest, events>>
           ELSE Then(l, <<>>) /\ Watch(l, c, {}, {"w"})
        /\ UNCHANGED <<sockVars, file, link, fds, batch, cur, histVars, procVars>>

\* Mutant: async_write takes a partial write for a complete one.
SettleRegardless(l, c) ==
    /\ At(l, c, "settle")
    /\ Then(l, <<"on_write_complete">>)
    /\ UNCHANGED <<sockVars, kernelVars, fds, events, batch, cur, histVars, procVars>>

\* Mutant: async_write does not ask for the writable event.
SettleForgotten(l, c) ==
    /\ At(l, c, "settle")
    /\ Then(l, IF wbuf[c] = 0 THEN <<"on_write_complete">> ELSE <<>>)
    /\ UNCHANGED <<sockVars, kernelVars, fds, events, batch, cur, histVars, procVars>>

\* async_write after write_all: done, or wait until the socket is writable.
Settle(l, c) ==
    /\ At(l, c, "settle")
    /\ IF wbuf[c] > 0 /\ ~CanDel(l, c) THEN Fault ELSE
        /\ IF wbuf[c] = 0
           THEN Then(l, <<"on_write_complete">>) /\ UNCHANGED <<interest, events>>
           ELSE Then(l, <<>>) /\ Watch(l, c, Removed(l, c), {"w"})
        /\ UNCHANGED <<sockVars, file, link, fds, batch, cur, histVars, procVars>>

\* Mutant: on_readable calls on_closed and keeps the registration.
FinishReadKeeping(l, c) ==
    /\ At(l, c, "finish_read")
    /\ Then(l, IF flags[c] \cap {"eof", "reset"} # {} THEN <<"on_closed">> ELSE <<>>)
    /\ UNCHANGED <<sockVars, kernelVars, fds, events, batch, cur, histVars, procVars>>

\* on_readable after the callback.
FinishRead(l, c) ==
    /\ At(l, c, "finish_read")
    /\ Then(l, IF flags[c] \cap {"eof", "reset"} # {} THEN <<"on_closed", "remove">> ELSE <<>>)
    /\ UNCHANGED <<sockVars, kernelVars, fds, events, batch, cur, histVars, procVars>>

\* on_writable after write_all.
FinishWrite(l, c) ==
    /\ At(l, c, "finish_write")
    /\ IF wbuf[c] = 0 /\ ~CanDel(l, c) THEN Fault ELSE
        /\ IF wbuf[c] = 0
           THEN Watch(l, c, Removed(l, c), {}) /\ Then(l, <<"on_write_complete", "resume_read">>)
           ELSE UNCHANGED <<interest, events>> /\ Then(l, <<>>)
        /\ UNCHANGED <<sockVars, file, link, fds, batch, cur, histVars, procVars>>

\* Mutant: on_writable does not go back to reading.
ResumeReadForgotten(l, c) ==
    /\ At(l, c, "resume_read")
    /\ Then(l, <<>>)
    /\ UNCHANGED <<sockVars, kernelVars, fds, events, batch, cur, histVars, procVars>>

\* Mutant: on_writable does not ask whether the callback closed the socket.
ResumeReadRegardless(l, c) ==
    /\ At(l, c, "resume_read")
    /\ IF ~CanAdd(l, c) THEN Fault ELSE
        /\ Watch(l, c, {}, {"r"})
        /\ Then(l, <<>>)
        /\ UNCHANGED <<sockVars, file, link, fds, batch, cur, histVars, procVars>>

\* on_writable goes back to reading, unless the callback closed the socket.
ResumeRead(l, c) ==
    /\ At(l, c, "resume_read")
    /\ IF ~closed[c] /\ ~CanAdd(l, c) THEN Fault ELSE
        /\ IF closed[c] THEN UNCHANGED <<interest, events>> ELSE Watch(l, c, {}, {"r"})
        /\ Then(l, <<>>)
        /\ UNCHANGED <<sockVars, file, link, fds, batch, cur, histVars, procVars>>

\* on_writable at its end.
CheckWrite(l, c) ==
    /\ At(l, c, "check_write")
    /\ Then(l, IF flags[c] \cap {"eop", "reset"} # {} THEN <<"on_closed", "remove">> ELSE <<>>)
    /\ UNCHANGED <<sockVars, kernelVars, fds, events, batch, cur, histVars, procVars>>

\* fd_remove(iop, true): EPOLL_CTL_DEL, then the stored callbacks.
Remove(l, c) ==
    /\ At(l, c, "remove")
    /\ IF ~CanDel(l, c) THEN Fault ELSE
        /\ Watch(l, c, Removed(l, c), {})
        /\ Erase(l, c)
        /\ Then(l, <<>>)
        /\ UNCHANGED <<sockVars, file, link, batch, cur, histVars, procVars>>

\* A failed connect ends the handler; the socket is released with it.
CheckConnect(l, c) ==
    /\ At(l, c, "check_connect")
    /\ \/ link[c].peer # "reset" /\ Then(l, <<>>)
       \/ todo' = [todo EXCEPT ![l] = <<"release">>]
    /\ UNCHANGED <<sockVars, kernelVars, fds, events, batch, cur, histVars, procVars>>

\* fd_register(iop, writable, on_writable, false): the callback only.
Prepare(l, c) ==
    /\ At(l, c, "prepare")
    /\ fds' = [fds EXCEPT ![l] = @ \cup {Entry(c, "writable")}]
    /\ Then(l, <<>>)
    /\ UNCHANGED <<sockVars, kernelVars, events, batch, cur, histVars, procVars>>

\* fd_register(iop, readable, on_readable, true).
StartRead(l, c) ==
    /\ At(l, c, "start_read")
    /\ IF ~CanAdd(l, c) THEN Fault ELSE
        /\ fds' = [fds EXCEPT ![l] = @ \cup {Entry(c, "readable")}]
        /\ Watch(l, c, {}, {"r"})
        /\ Then(l, <<>>)
        /\ UNCHANGED <<sockVars, file, link, batch, cur, histVars, procVars>>

\* safely_close: fd_remove(iop, true, false), which only erases, and close().
Unhook(l, c) ==
    /\ At(l, c, "unhook")
    /\ Erase(l, c)
    /\ Then(l, <<>>)
    /\ UNCHANGED <<sockVars, kernelVars, events, batch, cur, histVars, procVars>>

Close(l, c) ==
    /\ At(l, c, "close")
    /\ IF ~Owns(c) THEN Fault ELSE
        /\ CloseFd(c)
        /\ closed' = [closed EXCEPT ![c] = TRUE]
        /\ Then(l, <<>>)
        /\ UNCHANGED <<stage, fdOf, loopOf, flags, wbuf, link, fds, events, batch, cur, histVars, procVars>>

\* The loop lets go of the connection; the last reference closes it.
Release(l, c) ==
    LET last == /\ \A k \in Loops : \A e \in fds[k] : e.conn # c
                /\ \A k \in Loops : \A x \in batch[k] : x[1] # c
    IN
    /\ At(l, c, "release")
    /\ IF last /\ ~closed[c]
       THEN CloseFd(c) /\ closed' = [closed EXCEPT ![c] = TRUE]
       ELSE UNCHANGED <<file, interest, closed>>
    /\ stage' = IF last THEN [stage EXCEPT ![c] = "gone"] ELSE stage
    /\ cur' = [cur EXCEPT ![l] = None]
    /\ Then(l, <<>>)
    /\ UNCHANGED <<fdOf, loopOf, flags, wbuf, link, fds, events, batch, histVars, procVars>>

-----------------------------------------------------------------------------
(* The peer. *)

Reachable(c) == Owns(c) /\ link[c].peer # "reset"

\* A request arrives.
PeerSend(c) ==
    /\ Reachable(c) /\ link[c].peer = "open" /\ link[c].sent < MaxReqs
    /\ link' = [link EXCEPT ![c].in = @ + 1, ![c].sent = @ + 1]
    /\ Fire(c, {"r"})
    /\ UNCHANGED <<sockVars, file, loopVars, histVars, procVars>>

\* The peer takes a byte the kernel holds for it.
PeerTake(c) ==
    /\ Reachable(c) /\ link[c].out > 0
    /\ link' = [link EXCEPT ![c].out = @ - 1]
    /\ Fire(c, {"w"})
    /\ UNCHANGED <<sockVars, file, loopVars, histVars, procVars>>

\* The peer ends its stream, or resets the connection.
PeerEnd(c, how) ==
    /\ Reachable(c) /\ link[c].peer # how
    /\ link' = [link EXCEPT ![c].peer = how, ![c].out = IF how = "reset" THEN 0 ELSE @]
    /\ Fire(c, {"r", "w"})
    /\ UNCHANGED <<sockVars, file, loopVars, histVars, procVars>>

-----------------------------------------------------------------------------
HandlerStep(l, c) ==
    \/ Read(l, c) \/ Write(l, c) \/ Settle(l, c) \/ FinishRead(l, c)
    \/ FinishWrite(l, c) \/ ResumeRead(l, c) \/ CheckWrite(l, c)
    \/ Remove(l, c) \/ CheckConnect(l, c) \/ Prepare(l, c) \/ StartRead(l, c)
    \/ Unhook(l, c) \/ Close(l, c) \/ Release(l, c)
    \/ \E step \in Callbacks : Callback(l, c, step)

Worker(l) == ~fault /\ (Poll(l) \/ Dispatch(l) \/ \E c \in Conns : HandlerStep(l, c))
Hand(c) ==
    /\ ~fault
    /\ (\E l \in Loops : Store(c, l)) \/ Publish(c)

Next ==
    \/ \E l \in Loops : Worker(l)
    \/ \E c \in Conns : Hand(c)
    \/ ~fault /\ \E c \in Conns :
        \/ Accept(c) \/ PeerSend(c) \/ PeerTake(c)
        \/ \E how \in PeerMay : PeerEnd(c, how)

\* The threads run on, and a peer goes on reading what it is sent.
Fairness ==
    /\ \A l \in Loops : WF_vars(Worker(l))
    /\ \A c \in Conns : WF_vars(Hand(c)) /\ WF_vars(~fault /\ PeerTake(c))

Spec == Init /\ [][Next]_vars /\ Fairness

-----------------------------------------------------------------------------
TypeOK ==
    /\ stage \in [Conns -> {"unborn", "accepted", "stored", "live", "gone"}]
    /\ fdOf \in [Conns -> Fds \cup {None}]
    /\ loopOf \in [Conns -> Loops \cup {None}]
    /\ closed \in [Conns -> BOOLEAN]
    /\ flags \in [Conns -> SUBSET {"eof", "eop", "reset"}]
    /\ wbuf \in [Conns -> Nat]
    /\ file \in [Fds -> Conns \cup {None}]
    /\ interest \in [Loops -> [Fds -> [on : SUBSET {"r", "w"}, hot : SUBSET {"r", "w"}]]]
    /\ link \in [Conns -> [peer : {"open", "fin", "reset"}, in : Nat, out : Nat, sent : Nat]]
    /\ fds \in [Loops -> SUBSET [fd : Fds, conn : Conns, cb : Handlers]]
    /\ events \in [Loops -> [Fds -> SUBSET {"r", "w"}]]
    /\ batch \in [Loops -> SUBSET (Conns \X Handlers)]
    /\ cur \in [Loops -> Conns \cup {None}]
    /\ todo \in [Loops -> Seq(Steps)]
    /\ msgs \in [Conns -> Nat]
    /\ ended \in [Conns -> Nat]
    /\ backend \in Backends
    /\ fault \in BOOLEAN

Served(c) == \E l \in Loops : cur[l] = c
Hooks(c) == {e.cb : e \in {x \in fds[loopOf[c]] : x.conn = c /\ x.fd = fdOf[c]}}

\* No epoll_ctl, kevent, read, write or close of a handler fails or reaches a number
\* that belongs to another socket: such a failure throws out of the worker
\* thread, which nothing catches, and ends the process.
NoFault == ~fault

\* A live connection no handler is working on waits for exactly one event: the
\* one its loop holds a callback for, and writable exactly while output is
\* pending (tcp.cc:46, 99-105, 121), so it is neither stranded nor spinning;
\* with kqueue, whose events are edge-triggered, no edge has been missed and
\* fd_events_ is what the kernel watches.
NeverStranded ==
    \A c \in Conns : stage[c] = "live" /\ ~Served(c) =>
        LET l == loopOf[c]
            waiting(e) ==
                /\ Watched(l, c) = {e}
                /\ backend = "kqueue" =>
                    /\ Recorded(l, c) = {e}
                    /\ Ready(c, e) => \/ e \in interest[l][fdOf[c]].hot
                                      \/ \E x \in batch[l] : x[1] = c
        IN
        /\ Owns(c)
        /\ \/ Hooks(c) \in {{"acpt_writable"}, {"cont_writable"}} /\ waiting("w")
           \/ Hooks(c) = {"readable", "writable"} /\ waiting(IF wbuf[c] > 0 THEN "w" ELSE "r")

\* on_closed comes at most once and last: no callback of the connection is run,
\* queued or stored after it (tcp.cc:77-81, 102-106).
ClosedIsFinal ==
    \A c \in Conns : ended[c] > 0 =>
        /\ ended[c] = 1
        /\ \A l \in Loops : cur[l] = c => \A i \in 1..Len(todo[l]) : todo[l][i] \notin Callbacks
        /\ \A l \in Loops : \A x \in batch[l] : x[1] # c
        /\ ~Served(c) => stage[c] = "gone" /\ ~Owns(c)

\* Output is given up only when the peer has ended the connection: the user can
\* close only where nothing is pending, on_read_complete running only while
\* the write buffer is empty.
NoOutputDropped ==
    \A c \in Conns : closed[c] /\ wbuf[c] > 0 => link[c].peer # "open"

\* What was put into the write buffer is written, by later writable events if
\* need be, unless the peer goes or the process ends.
OutputSent ==
    \A c \in Conns : wbuf[c] > 0 ~> wbuf[c] = 0 \/ link[c].peer # "open" \/ fault

\* A peer that has ended or reset the connection is noticed, also in the middle
\* of a long write, and its descriptor is closed: every handler leaves the
\* descriptor waiting for an event that will come (tcp.cc:66-148).
EndNoticed ==
    \A c \in Conns : link[c].peer # "open" ~> closed[c] \/ fault
=============================================================================
