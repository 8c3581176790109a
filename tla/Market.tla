------------------------------- MODULE Market -------------------------------
(***************************************************************************)
(* What the exchange promises, with no books, queues, threads or locks: a  *)
(* set of orders and a tape of trades.  Orders on one symbol are served    *)
(* one request at a time, each request finds the symbol fully matched, and *)
(* trades follow price-time priority at the resting order's price.         *)
(***************************************************************************)
EXTENDS OrderState, Sequences

CONSTANTS
  OrderIds,     \* the ids the exchange may hand out
  Quantities    \* the quantities a request may carry

VARIABLES
  orders,       \* id -> order state, for the orders received so far
  tape,         \* the trades, in the order they were applied
  ahead         \* arrival order of live orders (see OrderState)

vars == <<orders, tape, ahead>>

OpenOrders(sym, side) ==
  {x \in DOMAIN orders :
     orders[x].symbol = sym /\ orders[x].side = side /\ IsOpen(orders[x])}

\* No bid meets an ask: nothing on the symbol is left to trade.
Settled(sym) ==
  \A b \in OpenOrders(sym, "Buy"), s \in OpenOrders(sym, "Sell") :
    orders[b].price < orders[s].price

Requests ==
  [symbol : Symbols, side : Side, price : Prices, quantity : Quantities]

Record(id, st) ==
  orders' = [x \in DOMAIN orders \cup {id} |-> IF x = id THEN st ELSE orders[x]]

Init == orders = <<>> /\ tape = <<>> /\ ahead = {}

Reject(id, req) ==
  /\ id \notin DOMAIN orders
  /\ Record(id, NewOrderState(req, "Rejected"))
  /\ UNCHANGED <<tape, ahead>>

Accept(id, req) ==
  /\ id \notin DOMAIN orders
  /\ Settled(req.symbol)
  /\ Record(id, NewOrderState(req, "New"))
  /\ ahead' = Requeue(ahead, orders, id, req.symbol)
  /\ UNCHANGED tape

Cancel(id) ==
  /\ id \in DOMAIN orders
  /\ ~is_terminal(orders[id])
  /\ Settled(orders[id].symbol)
  /\ orders' = [orders EXCEPT ![id].order_status = "Cancelled"]
  /\ UNCHANGED <<tape, ahead>>

\* The new quantity counts the shares already filled; time priority is lost.
Replace(id, price, quantity) ==
  /\ id \in DOMAIN orders
  /\ ~is_terminal(orders[id])
  /\ Settled(orders[id].symbol)
  /\ quantity > orders[id].filled_quantity
  /\ orders' = [orders EXCEPT ![id].price             = price,
                              ![id].original_quantity = quantity,
                              ![id].order_status      = "New"]
  /\ ahead' = Requeue(ahead, orders, id, orders[id].symbol)
  /\ UNCHANGED tape

\* No other open order on r's side of its symbol has a better price, or the
\* same price and an earlier arrival.
HasPriority(r) ==
  \A x \in OpenOrders(orders[r].symbol, orders[r].side) \ {r} :
    /\ AtLeastAsGood(orders[r].side, orders[r].price, orders[x].price)
    /\ orders[x].price = orders[r].price => <<r, x>> \in ahead

Filled(st, quantity) ==
  [st EXCEPT !.filled_quantity = @ + quantity,
             !.order_status    = IF remaining_quantity(st) = quantity
                                   THEN "Filled" ELSE "Partial_Filled"]

\* The newer order a takes the older order r, at r's price, for as many
\* shares as both have left.
Fill(a, r) ==
  LET buy  == IF orders[a].side = "Buy" THEN a ELSE r
      sell == IF orders[a].side = "Buy" THEN r ELSE a
      left == {remaining_quantity(orders[a]), remaining_quantity(orders[r])}
      quantity == CHOOSE q \in left : \A p \in left : q <= p
  IN  /\ <<r, a>> \in ahead
      /\ IsOpen(orders[a]) /\ IsOpen(orders[r])
      /\ orders[a].side # orders[r].side
      /\ orders[buy].price >= orders[sell].price
      /\ HasPriority(r)
      /\ orders' = [orders EXCEPT ![a] = Filled(@, quantity),
                                  ![r] = Filled(@, quantity)]
      /\ tape' = Append(tape, [buy_order_id  |-> buy,
                               sell_order_id |-> sell,
                               price         |-> orders[r].price,
                               quantity      |-> quantity])
      /\ UNCHANGED ahead

FillSome == \E a, r \in DOMAIN orders : Fill(a, r)

Next ==
  \/ \E id \in OrderIds, req \in Requests : Reject(id, req) \/ Accept(id, req)
  \/ \E id \in DOMAIN orders : Cancel(id)
  \/ \E id \in DOMAIN orders, p \in Prices, q \in Quantities : Replace(id, p, q)
  \/ FillSome

Spec == Init /\ [][Next]_vars

\* Orders that cross do trade.
FairSpec == Spec /\ WF_vars(FillSome)
=============================================================================
