------------------------------ MODULE MCLease ------------------------------
(* Lease for TLC. *)
EXTENDS Lease

CONSTANTS s1, s2, o1

Sequences2 == {s1, s2}
Sequences1 == {s1}
Opens == {o1}
NoOpens == {}
=============================================================================
