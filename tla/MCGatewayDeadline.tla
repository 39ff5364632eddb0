------------------------- MODULE MCGatewayDeadline -------------------------
(* An instance of GatewayDeadline, and Gateway in it, for TLC. *)
EXTENDS GatewayDeadline

CONSTANTS r1
=============================================================================
