----------------------------- MODULE OrderState -----------------------------
(***************************************************************************)
(* The OMS's record of one order (include/core/order_state.h) and the      *)
(* vocabulary it is written in (include/common/enums.h, types.h).          *)
(*                                                                         *)
(* OrderType has the single value Limit and is left out.  A Price is a     *)
(* double in the code; the program only compares prices, copies them and   *)
(* multiplies them by quantities, so a price is a whole number of ticks.   *)
(***************************************************************************)
EXTENDS Integers, FiniteSets

CONSTANTS
  Symbols,      \* every symbol a message may carry
  Prices        \* the prices, in ticks, that a message may carry

\* A double has finitely many values.
ASSUME PricesAssumption == Prices \subseteq Int /\ IsFiniteSet(Prices)

Side == {"Buy", "Sell"}

Opposite(side) == IF side = "Buy" THEN "Sell" ELSE "Buy"

OrderStatus == {"New", "Filled", "Partial_Filled", "Cancelled", "Rejected"}

\* uint64_t, allocated from 1 upwards.
OrderId == Nat \ {0}

OrderStates ==
  [symbol            : Symbols,
   side              : Side,
   price             : Prices,
   original_quantity : Int,
   filled_quantity   : Int,
   order_status      : OrderStatus]

is_terminal(st) == st.order_status \in {"Filled", "Cancelled", "Rejected"}

remaining_quantity(st) == st.original_quantity - st.filled_quantity

\* An order that can still trade: not terminal, with shares left.
IsOpen(st) == ~is_terminal(st) /\ remaining_quantity(st) > 0

\* The order state the OMS builds for an order it accepts or rejects.
NewOrderState(order, status) ==
  [symbol            |-> order.symbol,
   side              |-> order.side,
   price             |-> order.price,
   original_quantity |-> order.quantity,
   filled_quantity   |-> 0,
   order_status      |-> status]

\* On the side `side` of a book, price p sorts no later than price q.
AtLeastAsGood(side, p, q) == IF side = "Buy" THEN p >= q ELSE p <= q

(***************************************************************************)
(* Arrival order, a history that is not in the code.  <<x, y>> is in it    *)
(* when x was accepted (or last replaced) before y, both on one symbol.    *)
(* Requeue is its value once id has been accepted on symbol sym behind     *)
(* every live order; pairs of finished orders are forgotten.               *)
(***************************************************************************)
Requeue(ahead, orders, id, sym) ==
  LET live == {x \in DOMAIN orders \ {id} : ~is_terminal(orders[x])}
  IN  (ahead \cap (live \X live))
        \cup ({x \in live : orders[x].symbol = sym} \X {id})
=============================================================================
