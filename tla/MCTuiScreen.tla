---------------------------- MODULE MCTuiScreen ----------------------------
(* Values for the constants of TuiScreen. *)
EXTENDS TuiScreen, MCTuiClient
=============================================================================
