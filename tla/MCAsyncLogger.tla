---------------------------- MODULE MCAsyncLogger ----------------------------
(* AsyncLogger as it stands: its constants are given by the configurations. *)
EXTENDS AsyncLogger
=============================================================================
