----------------------------- MODULE MCReactor -----------------------------
(* Reactor for TLC: every connection may come through every source. *)
EXTENDS Reactor

MCVia == [c \in Conns |-> Sources]
=============================================================================
