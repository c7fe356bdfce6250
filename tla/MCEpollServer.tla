--------------------------- MODULE MCEpollServer ----------------------------
(* EpollServer for TLC. *)
EXTENDS EpollServer, TLC

CONSTANTS k1, k2, k3, w1, w2

TwoConns == {k1, k2}
ThreeConns == {k1, k2, k3}
OneWorker == {w1}
TwoWorkers == {w1, w2}

(* For runs that check invariants and action properties only. *)
Symmetry == Permutations(Conns) \union Permutations(Workers)
=============================================================================
