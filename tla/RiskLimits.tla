----------------------------- MODULE RiskLimits -----------------------------
(***************************************************************************)
(* What the risk engine's answers mean for an order that rests and is      *)
(* filled little by little: the order loses shares, and every state of it  *)
(* is one that check_order could be asked about.                           *)
(***************************************************************************)
EXTENDS RiskEngine

CONSTANTS
  Contexts,       \* the RiskContexts of interest
  Quantities,     \* the quantities of interest
  MaxQuantity     \* the largest Quantity: 2^31 - 1 in the code

VARIABLES ctx, order

vars == <<ctx, order>>

Init ==
  /\ ctx \in Contexts
  /\ order \in [symbol : Symbols, price : Prices, quantity : Quantities]

\* Some of the order's shares trade.
Fill ==
  /\ \E quantity \in Quantities :
       quantity < order.quantity /\ order' = [order EXCEPT !.quantity = quantity]
  /\ UNCHANGED ctx

Spec == Init /\ [][Fill]_vars

\* The limits of one kind that are configured; at or below zero one is not.
Configured(limits) == {limit \in limits : limit > 0}

PerSymbol(map) == IF order.symbol \in DOMAIN map THEN {map[order.symbol]} ELSE {}

InBand ==
  order.symbol \in DOMAIN ctx.lower_circuit_limit \cap DOMAIN ctx.upper_circuit_limit =>
    ctx.lower_circuit_limit[order.symbol] <= order.price
      /\ order.price <= ctx.upper_circuit_limit[order.symbol]

\* The quantity limits in force.
QuantityLimits ==
  Configured({ctx.max_qty_per_order, ctx.max_qty_per_account}
               \cup PerSymbol(ctx.max_qty_per_symbol))

\* The shares of an order are within the tightest configured quantity limit,
\* its notional within the tightest configured notional limit and its margin
\* within what is available, and the price is in the circuit band; nothing else
\* stops an order.  Eight checks, each with its own rule for "not configured",
\* give this together.
ApprovedMeansWithinLimits ==
  Approved(ctx, order) <=>
    /\ InBand
    /\ \A limit \in QuantityLimits : order.quantity <= limit
    /\ \A limit \in Configured({ctx.max_notional_per_order, ctx.max_notional_per_account}
                                 \cup PerSymbol(ctx.max_notional_per_symbol)) :
         notional(order) <= limit
    /\ \A var \in PerSymbol(ctx.var_percentage), elm \in PerSymbol(ctx.elm_percentage) :
         notional(order) * (var + elm) <= 100 * ctx.available_margin

\* An approved order stays approvable as it fills: the remainder that rests
\* never breaks a limit the whole order kept.
FillKeepsApproval == [][Approved(ctx, order) => Approved(ctx', order')]_vars

-----------------------------------------------------------------------------
(* Quantities at their width.                                              *)

\* new_qty - filled_quantity as the build computes it: overflow wraps around.
OpenQuantity(new_qty, filled) ==
  LET exact == new_qty - filled
  IN  IF exact < -MaxQuantity - 1 THEN exact + 2 * (MaxQuantity + 1) ELSE exact

\* Plausible defect: the revised order is not checked again.
Rebooked_NoRiskCheck(open_qty) == IF open_qty > 0 THEN open_qty ELSE 0

\* The shares a replace of the order puts back on the book; 0: it is abandoned.
Rebooked(open_qty) ==
  IF open_qty > 0 /\ Approved(ctx, [order EXCEPT !.quantity = open_qty])
    THEN open_qty
    ELSE 0

\* A replace may name any quantity, however negative.  The subtraction may then
\* overflow to a large positive number, but while some quantity limit and the
\* shares filled so far stay within the width together, risk refuses it: the
\* replace ends as it would without overflow.
OverflowIsRefused ==
  \A filled \in 0..MaxQuantity, new_qty \in (-MaxQuantity - 1)..MaxQuantity :
    (\E limit \in QuantityLimits : filled + limit <= MaxQuantity)
      => Rebooked(OpenQuantity(new_qty, filled)) = Rebooked(new_qty - filled)
=============================================================================
