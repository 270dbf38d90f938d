----------------------------- MODULE MCSubprocess -----------------------------
(* Subprocess for TLC. *)
EXTENDS Subprocess
=============================================================================
