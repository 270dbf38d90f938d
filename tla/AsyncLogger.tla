----------------------------- MODULE AsyncLogger -----------------------------
(***************************************************************************)
(* async_logger: threads put the pieces of a line into buffers_[curr_]     *)
(* under a recursive lock that they keep from the first piece to log::endl;*)
(* a writer thread swaps the two buffers under the lock and writes the     *)
(* other one without it.  The destructor sets stop_ and notifies without   *)
(* the lock, then joins the writer.                                        *)
(***************************************************************************)
EXTENDS Naturals, Sequences

CONSTANTS Threads,    \* threads that log
          Writer,     \* the thread of run_impl
          None,
          MaxLines,   \* bound: lines per thread
          MaxPieces   \* bound: operator<< calls per line, before log::endl

ASSUME WriterAssumption == Writer \notin Threads /\ None \notin Threads /\ None # Writer
ASSUME BoundsAssumption == MaxLines \in Nat /\ MaxPieces \in Nat

VARIABLES owner, depth, \* the recursive mutex lock_: who holds it, how often
          recur,        \* recur_level_
          buffers,      \* buffers_: what operator<< has put there
          curr,         \* curr_
          prev,         \* prev of run_impl
          stop,         \* stop_
          tpc,          \* what each logging thread is about to do
          lines,        \* lines each thread has finished
          wpc,          \* where the writer is in run_impl
          dtor,         \* where the destructor is
          written,      \* what has been written to the descriptor
          log,          \* history: every piece in the order it was put
          missed        \* history: the destructor notified just before the sleep

vars == <<owner, depth, recur, buffers, curr, prev, stop, tpc, lines, wpc, dtor, written, log, missed>>

Free(t) == owner \in {None, t}
Piece(t, kind) == [thr |-> t, kind |-> kind]

Init ==
    /\ owner = None /\ depth = 0 /\ recur = 0
    /\ buffers = [i \in 0..1 |-> <<>>]
    /\ curr = 0 /\ prev = 0
    /\ stop = FALSE
    /\ tpc = [t \in Threads |-> "log"]
    /\ lines = [t \in Threads |-> 0]
    /\ wpc = "top"
    /\ dtor = "out"
    /\ written = <<>> /\ log = <<>>
    /\ missed = FALSE

-----------------------------------------------------------------------------
(* A logging thread. *)

\* What one operator<< puts: the header too when it is the first of its line.
Pieces(t, kind) ==
    IF recur = 0 THEN <<Piece(t, "head"), Piece(t, kind)>> ELSE <<Piece(t, kind)>>

\* Mutant: the lock is given up after every piece.
PutUnlocking(t) ==
    /\ tpc[t] = "log" /\ lines[t] < MaxLines /\ recur < MaxPieces /\ ~stop
    /\ Free(t)
    /\ recur' = recur + 1
    /\ buffers' = [buffers EXCEPT ![curr] = @ \o Pieces(t, "text")]
    /\ log' = log \o Pieces(t, "text")
    /\ UNCHANGED <<owner, depth, curr, prev, stop, tpc, lines, wpc, dtor, written, missed>>

\* operator<<(const char *), which returns with the lock held.
Put(t) ==
    /\ tpc[t] = "log" /\ lines[t] < MaxLines /\ recur < MaxPieces /\ ~stop
    /\ Free(t)
    /\ owner' = t /\ depth' = depth + 1
    /\ recur' = recur + 1
    /\ buffers' = [buffers EXCEPT ![curr] = @ \o Pieces(t, "text")]
    /\ log' = log \o Pieces(t, "text")
    /\ UNCHANGED <<curr, prev, stop, tpc, lines, wpc, dtor, written, missed>>

\* Mutant: log::endl gives up one level of the recursive lock.
EndLineUnlockOnce(t) ==
    /\ tpc[t] = "log" /\ lines[t] < MaxLines /\ ~stop
    /\ Free(t)
    /\ buffers' = [buffers EXCEPT ![curr] = @ \o Pieces(t, "end")]
    /\ log' = log \o Pieces(t, "end")
    /\ recur' = 0
    /\ depth' = depth
    /\ owner' = IF depth' = 0 THEN None ELSE t
    /\ lines' = [lines EXCEPT ![t] = @ + 1]
    /\ tpc' = [tpc EXCEPT ![t] = "notify"]
    /\ UNCHANGED <<curr, prev, stop, wpc, dtor, written, missed>>

\* operator<<(log::endl): one more piece, which takes the lock once more, then
\* as many unlocks as there were pieces.
EndLine(t) ==
    /\ tpc[t] = "log" /\ lines[t] < MaxLines /\ ~stop
    /\ Free(t)
    /\ buffers' = [buffers EXCEPT ![curr] = @ \o Pieces(t, "end")]
    /\ log' = log \o Pieces(t, "end")
    /\ recur' = 0
    /\ depth' = depth + 1 - (recur + 1)
    /\ owner' = IF depth' = 0 THEN None ELSE t
    /\ lines' = [lines EXCEPT ![t] = @ + 1]
    /\ tpc' = [tpc EXCEPT ![t] = "notify"]
    /\ UNCHANGED <<curr, prev, stop, wpc, dtor, written, missed>>

\* cond_.notify_one(), after the unlocks.
Wake == wpc' = IF wpc = "asleep" THEN "woken" ELSE wpc
Notify(t) ==
    /\ tpc[t] = "notify"
    /\ tpc' = [tpc EXCEPT ![t] = "log"]
    /\ Wake
    /\ UNCHANGED <<owner, depth, recur, buffers, curr, prev, stop, lines, dtor, written, log, missed>>

-----------------------------------------------------------------------------
(* The writer. *)

\* while (!stop_).
Top ==
    /\ wpc = "top"
    /\ wpc' = IF stop THEN "done" ELSE "lock"
    /\ UNCHANGED <<owner, depth, recur, buffers, curr, prev, stop, tpc, lines, dtor, written, log, missed>>

\* The lock is taken, at first or again after a wake-up.
Lock ==
    /\ wpc \in {"lock", "woken"} /\ owner = None
    /\ owner' = Writer /\ depth' = 1
    /\ wpc' = "test"
    /\ UNCHANGED <<recur, buffers, curr, prev, stop, tpc, lines, dtor, written, log, missed>>

\* The predicate.
Test ==
    /\ wpc = "test"
    /\ wpc' = IF buffers[curr] # <<>> \/ stop THEN "swap" ELSE "sleep"
    /\ UNCHANGED <<owner, depth, recur, buffers, curr, prev, stop, tpc, lines, dtor, written, log, missed>>

\* cond_.wait gives up the lock and sleeps, in one step.
Sleep ==
    /\ wpc = "sleep"
    /\ owner' = None /\ depth' = 0
    /\ wpc' = "asleep"
    /\ UNCHANGED <<recur, buffers, curr, prev, stop, tpc, lines, dtor, written, log, missed>>

\* The condition variable may wake the writer for no reason.
Spurious ==
    /\ wpc = "asleep"
    /\ wpc' = "woken"
    /\ UNCHANGED <<owner, depth, recur, buffers, curr, prev, stop, tpc, lines, dtor, written, log, missed>>

\* Mutant: the writer takes the buffer and does not give the threads another.
SwapNot ==
    /\ wpc = "swap"
    /\ prev' = curr
    /\ owner' = None /\ depth' = 0
    /\ wpc' = "write"
    /\ UNCHANGED <<recur, buffers, curr, stop, tpc, lines, dtor, written, log, missed>>

\* The buffers change places and the lock is given up.
Swap ==
    /\ wpc = "swap"
    /\ prev' = curr /\ curr' = 1 - curr
    /\ owner' = None /\ depth' = 0
    /\ wpc' = "write"
    /\ UNCHANGED <<recur, buffers, stop, tpc, lines, dtor, written, log, missed>>

\* write(), without the lock.
Write ==
    /\ wpc = "write"
    /\ written' = written \o buffers[prev]
    /\ wpc' = "clear"
    /\ UNCHANGED <<owner, depth, recur, buffers, curr, prev, stop, tpc, lines, dtor, log, missed>>

\* clear(), without the lock.
Clear ==
    /\ wpc = "clear"
    /\ buffers' = [buffers EXCEPT ![prev] = <<>>]
    /\ wpc' = "top"
    /\ UNCHANGED <<owner, depth, recur, curr, prev, stop, tpc, lines, dtor, written, log, missed>>

-----------------------------------------------------------------------------
(* The destructor; no thread logs any more. *)

SetStop ==
    /\ dtor = "out" /\ \A t \in Threads : tpc[t] = "log" /\ owner # t
    /\ stop' = TRUE
    /\ dtor' = "notify"
    /\ UNCHANGED <<owner, depth, recur, buffers, curr, prev, tpc, lines, wpc, written, log, missed>>

\* Mutant: the destructor does not notify.
StopSilently ==
    /\ dtor = "notify"
    /\ dtor' = "join"
    /\ UNCHANGED <<owner, depth, recur, buffers, curr, prev, stop, tpc, lines, wpc, written, log, missed>>

\* cond_.notify_one() without the lock: it reaches nobody when the writer has
\* seen the predicate false and is not asleep yet.
StopNotify ==
    /\ dtor = "notify"
    /\ dtor' = "join"
    /\ Wake
    /\ missed' = (wpc = "sleep")
    /\ UNCHANGED <<owner, depth, recur, buffers, curr, prev, stop, tpc, lines, written, log>>

Join ==
    /\ dtor = "join" /\ wpc = "done"
    /\ dtor' = "over"
    /\ UNCHANGED <<owner, depth, recur, buffers, curr, prev, stop, tpc, lines, wpc, written, log, missed>>

-----------------------------------------------------------------------------
RunImpl == Top \/ Lock \/ Test \/ Sleep \/ Swap \/ Write \/ Clear
Destroy == SetStop \/ StopNotify \/ Join

Next ==
    \/ \E t \in Threads : Put(t) \/ EndLine(t) \/ Notify(t)
    \/ RunImpl
    \/ Spurious
    \/ Destroy

\* The writer runs, a thread finishes the line it
\* has begun, and a destructor that has begun goes on.
Fairness ==
    /\ WF_vars(RunImpl)
    /\ \A t \in Threads : WF_vars(Notify(t)) /\ WF_vars(owner = t /\ EndLine(t))
    /\ WF_vars(StopNotify) /\ WF_vars(Join)

Spec == Init /\ [][Next]_vars /\ Fairness

-----------------------------------------------------------------------------
TypeOK ==
    /\ owner \in Threads \cup {Writer, None} /\ depth \in Nat /\ recur \in Nat
    /\ buffers \in [0..1 -> Seq([thr : Threads, kind : {"head", "text", "end"}])]
    /\ curr \in 0..1 /\ prev \in 0..1
    /\ stop \in BOOLEAN /\ missed \in BOOLEAN
    /\ tpc \in [Threads -> {"log", "notify"}]
    /\ lines \in [Threads -> Nat]
    /\ wpc \in {"top", "lock", "test", "sleep", "asleep", "woken", "swap", "write", "clear", "done"}
    /\ dtor \in {"out", "notify", "join", "over"}
    /\ written \in Seq([thr : Threads, kind : {"head", "text", "end"}])
    /\ log \in Seq([thr : Threads, kind : {"head", "text", "end"}])

\* Nothing is lost, doubled or reordered on the way: what was logged is what
\* was written, then the buffer being written, then the one being filled.  The
\* writer therefore never clears a piece put there while it wrote.
OrderKept ==
    log = written \o (IF wpc = "clear" THEN <<>> ELSE buffers[1 - curr]) \o buffers[curr]

\* What is written consists of whole lines, each of one thread, with its header
\* in front: the lock is kept for a line and the swap needs the lock.
LinesWhole ==
    /\ written # <<>> => written[Len(written)].kind = "end"
    /\ \A i \in 1..Len(written) :
        IF i = 1 \/ written[i - 1].kind = "end"
        THEN written[i].kind = "head"
        ELSE written[i].kind # "head" /\ written[i].thr = written[i - 1].thr

\* While the logger lives every finished line is written in the end: the
\* notification of log::endl comes after the unlock and is never lost.
LinesWritten ==
    \A t \in Threads, n \in 1..MaxLines :
        lines[t] >= n ~>
            Len(SelectSeq(written, LAMBDA p : p = Piece(t, "end"))) >= n \/ stop

\* The destructor returns, unless its notification came between the writer's
\* test of the predicate and its sleep.
DestructorReturns == dtor = "notify" ~> dtor = "over" \/ missed
=============================================================================
