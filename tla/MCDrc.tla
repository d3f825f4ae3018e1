------------------------------- MODULE MCDrc -------------------------------
(* Drc with four transmissions: three of one call, one of another.          *)
EXTENDS Drc

CONSTANTS r1, r2, r3, r4, ka, kb

MCReq == {r1, r2, r3, r4}
MCKey == {ka, kb}
MCKeyOf == [r \in MCReq |-> IF r = r4 THEN kb ELSE ka]
=============================================================================
