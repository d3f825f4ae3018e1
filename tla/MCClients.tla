----------------------------- MODULE MCClients -----------------------------
(* Clients for TLC. *)
EXTENDS Clients, TLC

CONSTANTS t1, t2, v1, v2, root, user

OneThread == {t1}
TwoThreads == {t1, t2}
OneBoot == {v1}
TwoBoots == {v1, v2}
Interchangeable == Permutations(TwoThreads) \cup Permutations(TwoBoots)
OnePrincipal == {root}
TwoPrincipals == {root, user}
=============================================================================
