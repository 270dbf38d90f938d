---------------------------- MODULE MCTaskQueue ----------------------------
(* TaskQueue with the vectors of add_task given as a definition. *)
EXTENDS TaskQueue

CONSTANTS t1, t2, t3

MCBatches == {<<>>, <<t2, t3>>, <<t3>>}
=============================================================================
