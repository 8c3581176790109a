--------------------------- MODULE MCGatewayCalls ---------------------------
(* Values for the constants of GatewayCalls. *)
EXTENDS MCFixGateway, GatewayCalls
=============================================================================
