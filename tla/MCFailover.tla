----------------------------- MODULE MCFailover -----------------------------
(* Failover for TLC: two gateways, their names interchangeable. *)
EXTENDS Failover, TLC

CONSTANTS n1, n2

Gateways == {n1, n2}
NoGateway == {}
OneCtl == {"ctl"}
NoCtl == {}
NoRequest == {}
TakeoverOnly == {"takeover"}
AnyRequest == {"takeover", "force", "standby"}
Interchangeable == Permutations(Gateways)
=============================================================================
