---------------------------- MODULE MCConnection ----------------------------
(* Connection with interchangeable sockets. *)
EXTENDS Connection, TLC

ConnSymmetry == Permutations(Conns)
=============================================================================
