--------------------------- MODULE MCKrpcRegistry ---------------------------
(* KrpcRegistry for TLC: two providers of a service with one method, and a *)
(* client.                                                                 *)
EXTENDS KrpcRegistry

CONSTANTS p1, p2, c1

TwoProviders == {p1, p2}
OneMethod == {"Login"}
OneClient == {c1}
=============================================================================
