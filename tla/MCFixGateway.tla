---------------------------- MODULE MCFixGateway ----------------------------
(* Values for the constants of FixGateway.                                 *)
EXTENDS FixGateway

\* At most two shares an order; no other limit is configured.
MCRiskCtx ==
  [available_margin         |-> 0,
   var_percentage           |-> [s \in {} |-> 0],
   elm_percentage           |-> [s \in {} |-> 0],
   upper_circuit_limit      |-> [s \in {} |-> 0],
   lower_circuit_limit      |-> [s \in {} |-> 0],
   max_notional_per_order   |-> 0,
   max_notional_per_account |-> 0,
   max_notional_per_symbol  |-> [s \in {} |-> 0],
   max_qty_per_order        |-> 2,
   max_qty_per_account      |-> 0,
   max_qty_per_symbol       |-> [s \in {} |-> 0]]

\* Sessions are interchangeable, and so are threads.
GatewaySymmetry == Permutations(Sessions) \cup Permutations(Threads)
=============================================================================
