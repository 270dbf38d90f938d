-------------------------------- MODULE Stream --------------------------------
(***************************************************************************)
(* nstream::read_all and write_all (nio.cc) on non-blocking descriptors of *)
(* pipes.  Every system call is a step: what the other side does between   *)
(* two calls decides how a chunk ends.  A call interrupted by a signal is  *)
(* repeated and leaves no trace.                                           *)
(***************************************************************************)
EXTENDS Buffer

CONSTANTS Ends,      \* stream objects, each with the buffer it uses here
          Chans,     \* pipes
          Step,      \* sysconfig::buffer_io_step
          PipeSize   \* bytes a pipe holds

ASSUME StepAssumption == Step \in Nat \ {0}
ASSUME PipeAssumption == PipeSize \in Nat \ {0}

VARIABLES buf,   \* rbuffer_ or wbuffer_ of each end
          left,  \* what the current chunk of an end may still move
          chan   \* bytes in each pipe

streamVars == <<buf, left, chan>>

StreamInit ==
    /\ buf = [e \in Ends |-> New(1)]
    /\ left = [e \in Ends |-> Step]
    /\ chan = [k \in Chans |-> <<>>]

Smaller(m, n) == IF m < n THEN m ELSE n

\* The bytes the next read() brings.
Readable(e, k) == Smaller(left[e], Len(chan[k]))

\* Mutant: the buffer is used as it is.
ReadyNot(e) == buf[e]

\* The buffer with room for the rest of the chunk.
Ready(e) == Resize(buf[e], buf[e].offset + left[e])

\* One read() of read_all that brings something; a full chunk starts the next.
ReadSome(e, k) ==
    LET n == Readable(e, k) IN
    /\ n > 0
    /\ buf' = [buf EXCEPT ![e] = Fill(Ready(e), SubSeq(chan[k], 1, n))]
    /\ chan' = [chan EXCEPT ![k] = SubSeq(@, n + 1, Len(@))]
    /\ left' = [left EXCEPT ![e] = IF @ = n THEN Step ELSE @ - n]

\* The read() that finds the pipe empty, EAGAIN, ends read_all.
ReadEnds(e, k) ==
    /\ Readable(e, k) = 0
    /\ buf' = [buf EXCEPT ![e] = Ready(e)]
    /\ left' = [left EXCEPT ![e] = Step]
    /\ UNCHANGED chan

\* The length of the next write(), and whether the pipe takes all of it.
Writable(e) == Smaller(left[e], Size(buf[e]))
Room(k) == PipeSize - Len(chan[k])

\* Mutant: write() is taken to write everything it is given.
SentBlindly(e, n) == [buf[e] EXCEPT !.start = @ + Writable(e)]

\* The buffer when n bytes have been written: the offset moves.
Sent(e, n) == [buf[e] EXCEPT !.start = @ + n]

\* write_chunk clears a buffer it has emptied, at the end of the chunk.
Emptied(b) == IF Size(b) = 0 THEN Clear(b) ELSE b

\* One write() of write_all that moves n bytes and does not end it: inside a
\* chunk, or at the end of a full one.
WriteSome(e, k) ==
    \E n \in 1..Smaller(Writable(e), Room(k)) :
        /\ n < Writable(e) \/ n = left[e]
        /\ chan' = [chan EXCEPT ![k] = @ \o GetString(buf[e], n)]
        /\ buf' = [buf EXCEPT ![e] = IF n = left[e] THEN Emptied(Sent(e, n)) ELSE Sent(e, n)]
        /\ left' = [left EXCEPT ![e] = IF @ = n THEN Step ELSE @ - n]

\* The last write() of write_all: nothing to write, a pipe without room for it
\* all (EAGAIN), or the last bytes of a chunk that was not full.
WriteEnds(e, k) ==
    /\ \/ /\ Writable(e) = 0 \/ Room(k) < Writable(e)
          /\ buf' = [buf EXCEPT ![e] = Emptied(@)]
          /\ UNCHANGED chan
       \/ /\ Writable(e) \in 1..Smaller(left[e] - 1, Room(k))
          /\ chan' = [chan EXCEPT ![k] = @ \o Content(buf[e])]
          /\ buf' = [buf EXCEPT ![e] = Clear(@)]
    /\ left' = [left EXCEPT ![e] = Step]

\* The offsets stay in order and inside the array, whatever is read, written,
\* collected and refused: read_chunk makes room before it reads (nio.cc:59) and
\* write_chunk never passes the end of what was produced.
InBounds ==
    \A e \in Ends :
        /\ buf[e].start \in 0..buf[e].offset /\ buf[e].offset \in 0..buf[e].cap
        /\ left[e] \in 1..Step
=============================================================================
