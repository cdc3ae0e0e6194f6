-------------------------- MODULE MC_GatewayServer --------------------------
(* Instances of GatewayServer for TLC.                                     *)
EXTENDS GatewayServer

CONSTANTS c1, c2, c3

MCConnections == {c1, c2, c3}
=============================================================================
