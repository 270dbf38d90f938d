------------------------------ MODULE Subprocess ------------------------------
(***************************************************************************)
(* subp_open (subprocess.cc): a parent that feeds a child through one pipe *)
(* and collects its output from two others, and a child that copies its    *)
(* input to its output, itself written with nstream.  The parent keeps the *)
(* child's ends of the pipes open, so that neither side ever sees the end  *)
(* of a stream or a broken pipe.                                           *)
(***************************************************************************)
EXTENDS Stream

CONSTANTS MaxBytes,  \* bound: bytes the parent sends
          MaxErrs    \* bound: bytes the child writes to its standard error

ASSUME MaxBytesAssumption == MaxBytes \in Nat /\ MaxErrs \in Nat

\* stdin_, stdout_ and stderr_ of the parent; standard input and output of the
\* child.
SubpEnds == {"stdin", "stdout", "stderr", "childin", "childout"}
SubpChans == {"in", "out", "err"}
ASSUME EndsAssumption == SubpEnds \subseteq Ends /\ SubpChans \subseteq Chans

VARIABLES ppc,     \* the parent: with its user, in communicate, done
          mode,    \* what communicate was called for
          input,   \* its argument
          cpc,     \* the child
          reaped,  \* waitpid has returned the child
          bytes,   \* history: bytes sent so far
          errs     \* history: bytes the child wrote to its standard error

parentVars == <<ppc, mode, input, reaped, bytes>>
childVars  == <<cpc, errs>>
vars == <<streamVars, parentVars, childVars>>

\* subp_open(cmd): the pipes and the fork.
Init ==
    /\ StreamInit
    /\ ppc = "user" /\ mode = "none" /\ input = <<>>
    /\ cpc = "idle" /\ reaped = FALSE
    /\ bytes = 0 /\ errs = 0

-----------------------------------------------------------------------------
(* The parent. *)

\* communicate() begins: standard output, then standard error, then the input.
Begin(m, s) == ppc' = "stdout" /\ mode' = m /\ input' = s

\* The user calls communicate(input); the bytes are numbered.
Communicate ==
    /\ ppc = "user"
    /\ \E n \in 1..MaxBytes - bytes :
        /\ Begin("call", [i \in 1..n |-> bytes + i])
        /\ bytes' = bytes + n
    /\ UNCHANGED <<streamVars, reaped, childVars>>

\* The user calls wait(), once.
Wait ==
    /\ ppc = "user" /\ ~reaped
    /\ ppc' = "poll"
    /\ UNCHANGED <<streamVars, mode, input, reaped, bytes, childVars>>

\* Mutant: the child is not asked for its output while it runs.
PollOnly ==
    /\ ppc = "poll" /\ cpc = "dead"
    /\ reaped' = TRUE
    /\ Begin("final", <<>>)
    /\ UNCHANGED <<streamVars, bytes, childVars>>

\* Mutant: wait() returns as soon as the child is gone.
PollNoFinal ==
    /\ ppc = "poll"
    /\ reaped' = (cpc = "dead")
    /\ IF reaped' THEN ppc' = "done" /\ UNCHANGED <<mode, input>> ELSE Begin("loop", <<>>)
    /\ UNCHANGED <<streamVars, bytes, childVars>>

\* poll(): waitpid without hanging; communicate() follows either way.
Poll ==
    /\ ppc = "poll"
    /\ reaped' = (cpc = "dead")
    /\ Begin(IF cpc = "dead" THEN "final" ELSE "loop", <<>>)
    /\ UNCHANGED <<streamVars, bytes, childVars>>

\* Where communicate() returns to.
Caller == CASE mode = "call" -> "user" [] mode = "loop" -> "poll" [] mode = "final" -> "done"

\* read_all of one of the outputs.
Collect(e, k, next) ==
    /\ ppc = e
    /\ \/ ReadSome(e, k) /\ UNCHANGED ppc
       \/ ReadEnds(e, k) /\ ppc' = next
    /\ UNCHANGED <<mode, input, reaped, bytes, childVars>>

\* The input joins wbuffer, if there is any ...
Feed ==
    /\ ppc = "stdin"
    /\ \/ /\ input # <<>>
          /\ buf' = [buf EXCEPT !["stdin"] = Produce(@, input)]
          /\ ppc' = "write"
       \/ /\ input = <<>>
          /\ ppc' = Caller
          /\ UNCHANGED buf
    /\ UNCHANGED <<left, chan, mode, input, reaped, bytes, childVars>>

\* ... and is written as far as the pipe takes it: what is left goes with the
\* next input, if there is one.
WriteInput ==
    /\ ppc = "write"
    /\ \/ WriteSome("stdin", "in") /\ UNCHANGED ppc
       \/ WriteEnds("stdin", "in") /\ ppc' = Caller
    /\ UNCHANGED <<mode, input, reaped, bytes, childVars>>

Parent ==
    \/ Poll \/ Feed \/ WriteInput
    \/ Collect("stdout", "out", "stderr")
    \/ Collect("stderr", "err", "stdin")

-----------------------------------------------------------------------------
(* The child. *)

ChildRead ==
    /\ cpc \in {"idle", "read"}
    /\ \/ ReadSome("childin", "in") /\ cpc' = "read"
       \/ ReadEnds("childin", "in") /\ cpc' = "idle"
    /\ UNCHANGED <<parentVars, errs>>

\* get_string and put_string.
ChildCopy ==
    /\ cpc = "idle"
    /\ \E n \in 1..Size(buf["childin"]) :
        buf' = [buf EXCEPT !["childin"] = Consume(@, n),
                           !["childout"] = Produce(@, GetString(buf["childin"], n))]
    /\ UNCHANGED <<left, chan, parentVars, childVars>>

ChildTiny ==
    /\ cpc = "idle"
    /\ \E e \in {"childin", "childout"} : buf' = [buf EXCEPT ![e] = Tiny(@)]
    /\ UNCHANGED <<left, chan, parentVars, childVars>>

\* write_all, while it runs and, until nothing is left, before it exits.
ChildWrite ==
    /\ Size(buf["childout"]) > 0
    /\ \/ WriteSome("childout", "out") /\ cpc' = (IF cpc = "idle" THEN "write" ELSE cpc)
       \/ WriteEnds("childout", "out") /\ cpc' = (IF cpc = "write" THEN "idle" ELSE cpc)
    /\ cpc \in {"idle", "write", "leaving"}
    /\ UNCHANGED <<parentVars, errs>>

ChildError ==
    /\ cpc = "idle" /\ errs < MaxErrs /\ Room("err") > 0
    /\ chan' = [chan EXCEPT !["err"] = Append(@, 1)]
    /\ errs' = errs + 1
    /\ UNCHANGED <<buf, left, parentVars, cpc>>

\* The child has read enough.
ChildLeave ==
    /\ cpc = "idle" /\ cpc' = "leaving"
    /\ UNCHANGED <<streamVars, parentVars, errs>>

ChildExit ==
    /\ cpc = "leaving" /\ Size(buf["childout"]) = 0
    /\ cpc' = "dead"
    /\ UNCHANGED <<streamVars, parentVars, errs>>

\* send_signal, terminate, kill: the child may die at any moment.
Killed ==
    /\ cpc # "dead" /\ cpc' = "dead"
    /\ UNCHANGED <<streamVars, parentVars, errs>>

Child == ChildRead \/ ChildCopy \/ ChildTiny \/ ChildWrite \/ ChildError \/ ChildLeave \/ ChildExit

Next == Communicate \/ Wait \/ Parent \/ Child \/ Killed

\* The parent runs on, and a child that is leaving writes what it has and exits.
Spec ==
    /\ Init /\ [][Next]_vars
    /\ WF_vars(Parent) /\ WF_vars(ChildWrite) /\ WF_vars(ChildExit)

-----------------------------------------------------------------------------
\* stdout() and stderr() are C strings although nobody writes their terminator:
\* the bytes past the end of every buffer are zero, whatever was consumed, moved
\* or cleared before, and read_all leaves room for one (buffer.h:89-135,
\* nio.cc:59).
StringsEnd ==
    /\ \A e \in Ends : \A i \in buf[e].offset..buf[e].cap - 1 : buf[e].mem[i] = Nul
    /\ ppc \in {"user", "poll", "done"} =>
        \A e \in {"stdout", "stderr"} : buf[e].offset < buf[e].cap

\* wait() collects everything: when it has returned nothing the child wrote is
\* still in a pipe (subprocess.h:50).
AllCollected == ppc = "done" => chan["out"] = <<>> /\ chan["err"] = <<>>

\* "Why polling is essential" (subprocess.h:39-44): a child that has more to say
\* than a pipe holds is never stuck behind it, and wait() returns.
WaitEnds == ppc = "poll" /\ cpc = "leaving" ~> ppc = "done"

\* What the parent has sent and what has come back.
Copy == INSTANCE Fifo WITH Bytes <- 1..MaxBytes,
                           sent <- [i \in 1..bytes |-> i],
                           delivered <- Content(buf["stdout"])

\* The bytes the child gives back are the bytes it was given: through two pipes,
\* four buffers and any number of partial reads and writes they are delivered in
\* order, none twice and none left out.
IsFifo == Copy!FifoSpec
=============================================================================
