---------------------------- MODULE MCKrpcConfig -----------------------------
(* KrpcConfig for TLC. *)
EXTENDS KrpcConfig

OneLetter == {"a"}
=============================================================================
