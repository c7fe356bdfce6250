---------------------------- MODULE MCKrpcCall -----------------------------
(* KrpcCall for TLC.  The method names are those of example/user.proto. *)
EXTENDS KrpcCall, TLC

CONSTANTS t1, t2, args, none

OneThread == {t1}
TwoThreads == {t1, t2}
AllMethods == {"Login", "Register"}
OneMethod == {"Login"}
OneArgs == {args}
AllArgs == {args, none}
NoArgs == {none}

(* For runs that check invariants only. *)
Symmetry == Permutations(TwoThreads)
=============================================================================
