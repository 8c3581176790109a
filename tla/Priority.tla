------------------------------ MODULE Priority ------------------------------
(***************************************************************************)
(* Why the trades of Exchange.tla are those of Market.tla: queues stand in *)
(* order of arrival, a call hits the best order that is left each time,    *)
(* and a request finds its symbol settled.  PriorityInv is the inductive   *)
(* invariant behind the refinement that Market_proofs.tla proves.          *)
(***************************************************************************)
EXTENDS BookAgreement

\* Order x is served before order y, of the same side.
Before(x, y) ==
  /\ AtLeastAsGood(order_states[x].side, order_states[x].price, order_states[y].price)
  /\ order_states[x].price = order_states[y].price => <<x, y>> \in ahead

\* Every queue of a side lists its orders the way the relation `order` does.
InOrder(levels, order) ==
  \A p \in DOMAIN levels : \A i, j \in DOMAIN levels[p] :
    i < j => <<levels[p][i].order_id, levels[p][j].order_id>> \in order

\* Every queue of symbol s stands in order of arrival.
QueuesInOrder(s) == \A sd \in Side : InOrder(books[s][sd], ahead)

\* The open orders that t's call could have hit in place of the one of its
\* trade i, not having hit them before.
Rivals(t, i) ==
  {x \in DOMAIN order_states :
     /\ Belongs(x, incoming[t].symbol, Opposite(incoming[t].side))
     /\ IsOpen(order_states[x])
     /\ \A j \in 1..i : x # Hit(t, j)}

\* Trade i of t's call hit the best order there was, at a price in its limit.
HitBest(t, i) ==
  /\ AtLeastAsGood(Opposite(incoming[t].side), order_states[Hit(t, i)].price,
                   incoming[t].price)
  /\ \A x \in Rivals(t, i) : Before(Hit(t, i), x)

\* Only the last trade of a call may leave shares of the order it hit.
HitWhole(t, i) ==
  i < Len(matched[t]) =>
    matched[t][i].quantity = remaining_quantity(order_states[Hit(t, i)])

\* The order of t's call is behind every live order of its symbol.
LastInLine(t) ==
  \A x \in DOMAIN order_states \ {incoming[t].order_id} :
    order_states[x].symbol = incoming[t].symbol /\ ~is_terminal(order_states[x]) =>
      <<x, incoming[t].order_id>> \in ahead

\* What a handler's call has kept of price and time, place by place.
CallInOrder(t) ==
  /\ pc[t] = "submit" =>
       req[t].order.quantity \in Quantities /\ req[t].order.order_id \in 1..MaxOrders
  /\ pc[t] \in {"match", "apply"} =>
       /\ LastInLine(t)
       /\ \A i \in DOMAIN matched[t] : HitBest(t, i) /\ HitWhole(t, i)
  /\ pc[t] \in {"pull", "cancel", "replace"} => M!Settled(snap[t].symbol)

PriorityInv ==
  /\ \A s \in Registered : QueuesInOrder(s)
  /\ \A t \in Threads : CallInOrder(t)
=============================================================================
