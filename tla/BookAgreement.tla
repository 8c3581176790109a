---------------------------- MODULE BookAgreement ----------------------------
(***************************************************************************)
(* How the books and the OMS of Exchange.tla agree at every moment of a    *)
(* call, and not only between calls: what rests of an order while trades   *)
(* of it are matched and not yet applied, or while it is being replaced.   *)
(* Agreement is the inductive invariant behind the theorems of             *)
(* BookAgreement_proofs.tla.                                               *)
(***************************************************************************)
EXTENDS Exchange

\* The two orders of a trade that `order` made: itself, and the one it hit.
OwnOf(order, trade) ==
  IF order.side = "Buy" THEN trade.buy_order_id ELSE trade.sell_order_id

HitBy(order, trade) ==
  IF order.side = "Buy" THEN trade.sell_order_id ELSE trade.buy_order_id

\* The order that unapplied trade i of t's call hit.
Hit(t, i) == HitBy(incoming[t], matched[t][i])

\* The unapplied trades of t's call that took shares of the resting order x.
TradesOf(t, x) == {i \in DOMAIN matched[t] : Hit(t, i) = x}

\* Shares of x that t's call has taken and the OMS has yet to hear of.
Taken(t, x) ==
  IF TradesOf(t, x) = {} THEN 0
                         ELSE matched[t][CHOOSE i \in TradesOf(t, x) : TRUE].quantity

\* What rests of the open order x while t works on its symbol.
RestsDuring(t, x) ==
  LET left == remaining_quantity(order_states[x])
  IN  IF pc[t] \in {"match", "apply"}
        THEN IF x # incoming[t].order_id THEN left - Taken(t, x)
             ELSE IF pc[t] = "apply" THEN incoming[t].quantity ELSE 0
        ELSE IF pc[t] \in {"cancel", "replace"} /\ x = req[t].order_id THEN 0 ELSE left

\* The shares of order x that rest, going by the OMS and the call on its symbol.
Resting(x) ==
  LET st == order_states[x]
      t  == symbol_mutexes[st.symbol]
  IN  IF ~IsOpen(st) THEN 0
      ELSE IF t = NoThread THEN remaining_quantity(st)
      ELSE RestsDuring(t, x)

RestingOn(s, sd) == {x \in DOMAIN order_states : Belongs(x, s, sd) /\ Resting(x) > 0}

\* What a side of a book should hold.
Content(s, sd) == [x \in RestingOn(s, sd) |-> <<order_states[x].price, Resting(x)>>]

\* Every side holds just that.
BooksHold == \A s \in Registered, sd \in Side : Holds(books[s][sd], Content(s, sd))

\* A mutex that is held is held by a handler that works on its symbol.
HeldInCall ==
  \A s \in Symbols : symbol_mutexes[s] # NoThread =>
    /\ pc[symbol_mutexes[s]] \in InCall
    /\ MessageSymbol(req[symbol_mutexes[s]]) = s

\* The copy that cancel_order and modify_order took is still true.
SnapCurrent(t) ==
  pc[t] \in {"pull", "cancel", "replace"} =>
    snap[t] = order_states[req[t].order_id] /\ ~is_terminal(snap[t])

\* Trades wait only in the call that made them.
MatchedInCall(t) == pc[t] \notin {"match", "apply"} => matched[t] = <<>>

\* Trade i of t's call can be applied to the order it hit, whole.
Covered(t, i) ==
  LET trade == matched[t][i]
      hit   == order_states[Hit(t, i)]
  IN  /\ OwnOf(incoming[t], trade) = incoming[t].order_id
      /\ trade.price = hit.price
      /\ ~is_terminal(hit)
      /\ 0 < trade.quantity /\ trade.quantity <= remaining_quantity(hit)

\* No order is hit twice, and one that is hit and has shares left ends the call.
HitsOnce(t) ==
  /\ \A i, j \in DOMAIN matched[t] : Hit(t, i) = Hit(t, j) => i = j
  /\ incoming[t].quantity > 0 => \A i \in DOMAIN matched[t] :
       matched[t][i].quantity = remaining_quantity(order_states[Hit(t, i)])

\* The trades of the call bring the order from what the OMS has left of it to
\* what the call has left of it: left[i] is what remains once i are applied.
AddsUp(t) ==
  LET n  == Len(matched[t])
      st == order_states[incoming[t].order_id]
  IN  \E left \in [0..n -> incoming[t].quantity..st.original_quantity] :
        /\ left[0] = remaining_quantity(st) /\ left[n] = incoming[t].quantity
        /\ \A i \in 1..n : left[i] = left[i - 1] - matched[t][i].quantity

\* What a call that matches or applies relies on.
CallCovered(t) ==
  pc[t] \in {"match", "apply"} =>
    /\ ~is_terminal(order_states[incoming[t].order_id])
    /\ order_states[incoming[t].order_id].price = incoming[t].price
    /\ \A i \in DOMAIN matched[t] : Covered(t, i)
    /\ matched[t] # <<>> => incoming[t].quantity >= 0
    /\ HitsOnce(t)
    /\ AddsUp(t)

CallOK(t) == SnapCurrent(t) /\ MatchedInCall(t) /\ CallCovered(t)

Agreement ==
  /\ HeldInCall
  /\ BooksHold
  /\ FillsWithinOrder
  /\ \A t \in Threads : CallOK(t)
=============================================================================
