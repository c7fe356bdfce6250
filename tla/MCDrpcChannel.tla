--------------------------- MODULE MCDrpcChannel ----------------------------
(* DrpcChannel for TLC; all its constants are numbers. *)
EXTENDS DrpcChannel
=============================================================================
