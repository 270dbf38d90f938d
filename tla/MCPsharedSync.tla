---------------------------- MODULE MCPsharedSync ----------------------------
(* PsharedSync for TLC: one waiter, three notifiers, a barrier for three. *)
EXTENDS PsharedSync
=============================================================================
