----------------------------- MODULE RiskEngine -----------------------------
(***************************************************************************)
(* CMRiskEngine::check_order (src/risk/risk_engine.cpp): eight checks of   *)
(* one order against a RiskContext (include/risk/risk_context.h), the      *)
(* first that rejects gives the reason.                                    *)
(*                                                                         *)
(* A RiskContext ctx is a record.  Its std::unordered_maps are functions   *)
(* on the symbols that have an entry.  Percentages are whole percents, so  *)
(* the margin comparison is scaled by 100.                                 *)
(***************************************************************************)
EXTENDS OrderState

\* Plausible defect: a limit of zero is taken for a limit.
NoLimit_ZeroIsALimit(map, symbol) ==
  IF symbol \in DOMAIN map THEN map[symbol] < 0 ELSE TRUE

\* it == map.end() || it->second <= 0: no limit is configured.
NoLimit(map, symbol) == IF symbol \in DOMAIN map THEN map[symbol] <= 0 ELSE TRUE

notional(order) == order.price * order.quantity

\* Each check_... is TRUE when that check approves the order.
check_circuit_limits(ctx, order) ==
  LET s == order.symbol IN
  ~ /\ s \in DOMAIN ctx.upper_circuit_limit
    /\ s \in DOMAIN ctx.lower_circuit_limit
    /\ \/ order.price > ctx.upper_circuit_limit[s]
       \/ order.price < ctx.lower_circuit_limit[s]

check_margin(ctx, order) ==
  LET s == order.symbol IN
  ~ /\ s \in DOMAIN ctx.var_percentage
    /\ s \in DOMAIN ctx.elm_percentage
    /\ notional(order) * (ctx.var_percentage[s] + ctx.elm_percentage[s])
         > 100 * ctx.available_margin

check_notional_per_order(ctx, order) ==
  \/ ctx.max_notional_per_order <= 0
  \/ notional(order) <= ctx.max_notional_per_order

check_notional_per_symbol(ctx, order) ==
  \/ NoLimit(ctx.max_notional_per_symbol, order.symbol)
  \/ notional(order) <= ctx.max_notional_per_symbol[order.symbol]

check_notional_per_account(ctx, order) ==
  \/ ctx.max_notional_per_account <= 0
  \/ notional(order) <= ctx.max_notional_per_account

check_qty_per_order(ctx, order) ==
  \/ ctx.max_qty_per_order <= 0
  \/ order.quantity <= ctx.max_qty_per_order

\* Plausible defect: the comparison is the wrong way round.
check_qty_per_symbol_Flipped(ctx, order) ==
  \/ NoLimit(ctx.max_qty_per_symbol, order.symbol)
  \/ order.quantity >= ctx.max_qty_per_symbol[order.symbol]

check_qty_per_symbol(ctx, order) ==
  \/ NoLimit(ctx.max_qty_per_symbol, order.symbol)
  \/ order.quantity <= ctx.max_qty_per_symbol[order.symbol]

check_qty_per_account(ctx, order) ==
  \/ ctx.max_qty_per_account <= 0
  \/ order.quantity <= ctx.max_qty_per_account

\* The checks in the order check_order runs them, each with its reason.
Checks(ctx, order) ==
  << <<check_circuit_limits(ctx, order),       "Circuit_Breaker">>,
     <<check_margin(ctx, order),               "Insufficient_Margin">>,
     <<check_notional_per_order(ctx, order),   "Max_Notional_Per_Order">>,
     <<check_notional_per_symbol(ctx, order),  "Max_Notional_Per_Symbol">>,
     <<check_notional_per_account(ctx, order), "Max_Notional_Per_Account">>,
     <<check_qty_per_order(ctx, order),        "Max_Qty_Per_Order">>,
     <<check_qty_per_symbol(ctx, order),       "Max_Qty_Per_Symbol">>,
     <<check_qty_per_account(ctx, order),      "Max_Qty_Per_Account">> >>

\* The reason of the first check that rejects, "None" when all approve.
check_order(ctx, order) ==
  LET failed == {i \in 1..8 : ~Checks(ctx, order)[i][1]}
  IN  IF failed = {} THEN "None"
      ELSE Checks(ctx, order)[CHOOSE i \in failed : \A j \in failed : i <= j][2]

Approved(ctx, order) == check_order(ctx, order) = "None"
=============================================================================
