--------------------------- MODULE MCSessionSlots ---------------------------
(* SessionSlots with two connections.                                       *)
EXTENDS SessionSlots

CONSTANTS c1, c2

MCConn == {c1, c2}
=============================================================================
