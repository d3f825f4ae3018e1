---------------------------- MODULE MCStoreLock ----------------------------
(* StoreLock for TLC. *)
EXTENDS StoreLock, TLC

CONSTANTS p1, p2

Gateways == {p1, p2}
Interchangeable == Permutations(Gateways)
=============================================================================
