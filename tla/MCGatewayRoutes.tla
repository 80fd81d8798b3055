--------------------------- MODULE MCGatewayRoutes ---------------------------
(* A completion and a stream over the same two routes. *)
EXTENDS GatewayRoutes
==============================================================================
