---------------------------- MODULE MCTuiClient ----------------------------
(* Values for the constants of TuiClient. *)
EXTENDS TuiClient, Scripts, StreamParser

\* At most two shares an order.
MCRiskCtx ==
  [available_margin         |-> 0,
   var_percentage           |-> [s \in {} |-> 0],
   elm_percentage           |-> [s \in {} |-> 0],
   upper_circuit_limit      |-> [s \in {} |-> 0],
   lower_circuit_limit      |-> [s \in {} |-> 0],
   max_notional_per_order   |-> 0,
   max_notional_per_account |-> 0,
   max_notional_per_symbol  |-> [s \in {} |-> 0],
   max_qty_per_order        |-> 2,
   max_qty_per_account      |-> 0,
   max_qty_per_symbol       |-> [s \in {} |-> 0]]

\* Clients differ by their name alone.
Symmetry == Permutations(Clients)

\* Every client pre-populates the book with one sell order.
MCBgOrders == <<[symbol |-> "A", side |-> "Sell", price |-> 2, quantity |-> 2]>>
=============================================================================
