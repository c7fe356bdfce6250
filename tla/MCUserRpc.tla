----------------------------- MODULE MCUserRpc ------------------------------
(* UserRpc for TLC: one client, whose calls may overlap in the provider.   *)
EXTENDS UserRpc

CONSTANTS c1

OneClient == {c1}
SomeOperands == {-1, 1}
ExpectedSum == -2
=============================================================================
