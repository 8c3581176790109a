---------------------------- MODULE MCRiskLimits ----------------------------
(* Contexts in which each limit is absent, not configured or binding.      *)
EXTENDS RiskLimits

Maps(values) == {[s \in {} |-> 0]} \cup {[s \in {"A"} |-> v] : v \in values}

MCQuantities == (-1)..4

MCContexts ==
  {[available_margin         |-> margin,
    var_percentage           |-> var,
    elm_percentage           |-> [s \in {"A"} |-> 5],
    upper_circuit_limit      |-> [s \in {"A"} |-> 2],
    lower_circuit_limit      |-> low,
    max_notional_per_order   |-> per_order,
    max_notional_per_account |-> 5,
    max_notional_per_symbol  |-> per_symbol,
    max_qty_per_order        |-> qty_order,
    max_qty_per_account      |-> 3,
    max_qty_per_symbol       |-> qty_symbol] :
      margin \in {0, 1}, var \in Maps({15}), low \in Maps({1}),
      per_order \in {0, 2, 4}, per_symbol \in Maps({0, 3}),
      qty_order \in {0, 2}, qty_symbol \in Maps({0, 1})}
=============================================================================
