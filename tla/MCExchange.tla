----------------------------- MODULE MCExchange -----------------------------
(* Values for the constants of Exchange, and the symmetry of its threads.  *)
EXTENDS Priority

\* Limits that a small order can break: a circuit band of 1..2 ticks and at
\* most two shares an order.  B has no per-symbol entry, as a symbol missing
\* from the maps.
MCRiskCtx ==
  [available_margin         |-> 100,
   var_percentage           |-> [s \in {"A"} |-> 15],
   elm_percentage           |-> [s \in {"A"} |-> 5],
   upper_circuit_limit      |-> [s \in {"A"} |-> 2],
   lower_circuit_limit      |-> [s \in {"A"} |-> 1],
   max_notional_per_order   |-> 100,
   max_notional_per_account |-> 100,
   max_notional_per_symbol  |-> [s \in {"A"} |-> 100],
   max_qty_per_order        |-> 2,
   max_qty_per_account      |-> 100,
   max_qty_per_symbol       |-> [s \in {"A"} |-> 100]]

ThreadSymmetry == Permutations(Threads)
=============================================================================
