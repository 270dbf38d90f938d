--------------------------------- MODULE Fifo ---------------------------------
(***************************************************************************)
(* What a byte stream promises: bytes are delivered in the order in which  *)
(* they were sent, none twice, none invented, none left out in between.    *)
(***************************************************************************)
EXTENDS Naturals, Sequences

CONSTANT Bytes

VARIABLES sent,      \* every byte sent so far
          delivered  \* every byte delivered so far

FifoInit == sent = <<>> /\ delivered = <<>>

\* Any number of bytes join the stream, behind those sent before.
Send ==
    /\ sent' \in Seq(Bytes)
    /\ Len(sent') > Len(sent) /\ SubSeq(sent', 1, Len(sent)) = sent
    /\ UNCHANGED delivered

\* Any number of the bytes that are due next arrive.
Deliver ==
    /\ \E n \in Len(delivered) + 1..Len(sent) : delivered' = SubSeq(sent, 1, n)
    /\ UNCHANGED sent

FifoSpec == FifoInit /\ [][Send \/ Deliver]_<<sent, delivered>>
=============================================================================
