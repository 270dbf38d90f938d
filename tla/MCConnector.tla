----------------------------- MODULE MCConnector -----------------------------
(* Connector as it stands: its constants are given by the configurations. *)
EXTENDS Connector
=============================================================================
