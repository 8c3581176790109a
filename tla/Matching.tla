------------------------------ MODULE Matching ------------------------------
(***************************************************************************)
(* OrderBook::process_order as one function of a book and an order, and    *)
(* the OMS calls built on it as functions of the exchange's whole state,   *)
(* for the modules in which a call is a single step (the caller holds the  *)
(* symbol's mutex; Exchange.tla shows that nothing is seen in between).    *)
(***************************************************************************)
EXTENDS OrderBook, RiskEngine

Lesser(a, b) == IF a <= b THEN a ELSE b

\* The first n of these numbers added up.
Summed(numbers, n) ==
  LET total[i \in 0..n] == IF i = 0 THEN 0 ELSE total[i - 1] + numbers[i]
  IN  total[n]

-----------------------------------------------------------------------------
(* The book.                                                               *)

\* match_orders on its way: `levels` of the other side, shares `left` of the
\* order, and the fills made: resting order, shares and price.
Begun(order, levels) == [levels |-> levels, left |-> order.quantity, fills |-> <<>>]

\* The price of the best resting order.
BestFor(order, run) == Best(Opposite(order.side), run.levels)

\* The loop condition and price_check.
GoesOn(order, run) ==
  /\ DOMAIN run.levels # {}
  /\ run.left > 0
  /\ AtLeastAsGood(Opposite(order.side), BestFor(order, run), order.price)

\* One turn of the loop.
Turn(order, run) ==
  LET best    == BestFor(order, run)
      resting == run.levels[best][1]
      traded  == Lesser(run.left, resting.quantity)
  IN  [levels |-> TakeFront(run.levels, best, traded),
       left   |-> run.left - traded,
       fills  |-> Append(run.fills, [order_id |-> resting.order_id,
                                     quantity |-> traded, price |-> best])]

\* Each turn but the last takes an order off its queue.
Queued(levels) == UNION {{p} \X DOMAIN levels[p] : p \in DOMAIN levels}

MostTurns(levels) == Cardinality(Queued(levels))

\* Where the loop is after each of so many turns from `run` on; once it has
\* ended it stays as it is.
Runs(order, run, turns) ==
  LET after[n \in 0..turns] ==
        IF n = 0 THEN run
        ELSE LET now == after[n - 1]
             IN  IF GoesOn(order, now) THEN Turn(order, now) ELSE now
  IN  after

\* Where the loop ends.
LoopEnd(order, run) ==
  LET turns == MostTurns(run.levels) IN Runs(order, run, turns)[turns]

\* Plausible defect: only the best order is tried.
match_orders_OnlyBest(order, levels) == Runs(order, Begun(order, levels), 1)[1]

match_orders(order, levels) == LoopEnd(order, Begun(order, levels))

\* process_order: the loop against the other side of the book, then what is
\* left of the order rests.
AfterMatch(book, order, run) ==
  LET hit == [book EXCEPT ![Opposite(order.side)] = run.levels]
  IN  IF run.left > 0
        THEN [hit EXCEPT ![order.side] =
                Rest(@, order.price, [order_id |-> order.order_id, quantity |-> run.left])]
        ELSE hit

-----------------------------------------------------------------------------
(* The OMS.  `ex` is a record of order_states and books.                   *)

WithState(ex, id, st) ==
  [ex EXCEPT !.order_states =
     [x \in DOMAIN @ \cup {id} |-> IF x = id THEN st ELSE @[x]]]

\* apply_trade for one side of a trade.
AddFill(st, quantity) ==
  [st EXCEPT !.filled_quantity = @ + quantity,
             !.order_status    = IF remaining_quantity(st) = quantity
                                   THEN "Filled" ELSE "Partial_Filled"]

Filled(states, id, quantity) == [states EXCEPT ![id] = AddFill(@, quantity)]

\* The states after each of the fills has been applied to both its orders.
Applied(states, id, fills) ==
  LET after[n \in 0..Len(fills)] ==
        IF n = 0 THEN states
        ELSE Filled(Filled(after[n - 1], id, fills[n].quantity),
                    fills[n].order_id, fills[n].quantity)
  IN  after[Len(fills)]

\* process_order, then apply_trade for each trade.
Process(ex, order) ==
  LET run == match_orders(order, ex.books[order.symbol][Opposite(order.side)])
  IN  [ex     |-> [order_states |-> Applied(ex.order_states, order.order_id, run.fills),
                   books        |-> [ex.books EXCEPT
                                       ![order.symbol] = AfterMatch(@, order, run)]],
       trades |-> run.fills]

NoTrades(ex) == [ex |-> ex, trades |-> <<>>]

submit_order(ex, ctx, order) ==
  IF order.symbol \in DOMAIN ex.books /\ Approved(ctx, order)
    THEN Process(WithState(ex, order.order_id, NewOrderState(order, "New")), order)
    ELSE NoTrades(WithState(ex, order.order_id, NewOrderState(order, "Rejected")))

Pulled(ex, id) ==
  LET st == ex.order_states[id]
  IN  [ex EXCEPT !.books[st.symbol][st.side] = CancelFromLevel(@, st.price, id)]

Cancelled(ex, id) ==
  [Pulled(ex, id) EXCEPT !.order_states[id].order_status = "Cancelled"]

\* "if (!found) return", and only live orders are amended.
CanAmend(ex, id) == id \in DOMAIN ex.order_states /\ ~is_terminal(ex.order_states[id])

cancel_order(ex, id) == IF CanAmend(ex, id) THEN Cancelled(ex, id) ELSE ex

Replaced(ex, ctx, id, price, quantity) ==
  LET st      == ex.order_states[id]
      revised == [order_id |-> id, symbol |-> st.symbol, side |-> st.side,
                  price |-> price, quantity |-> quantity - st.filled_quantity]
      renewed == [st EXCEPT !.price = price, !.original_quantity = quantity,
                            !.order_status = "New"]
  IN  IF revised.quantity > 0 /\ Approved(ctx, revised)
        THEN Process(WithState(Pulled(ex, id), id, renewed), revised)
        ELSE NoTrades(Cancelled(ex, id))

modify_order(ex, ctx, id, price, quantity) ==
  IF CanAmend(ex, id) THEN Replaced(ex, ctx, id, price, quantity) ELSE NoTrades(ex)

-----------------------------------------------------------------------------
(* What the calls rely on and keep.                                        *)

\* What match_orders has of an order from start to end.
TermsOf(order) ==
  [order_id |-> order.order_id, symbol |-> order.symbol, side |-> order.side,
   price |-> order.price]

\* What becomes of the exchange when match_orders ends at `run`.
Ended(ex, order, run) ==
  [order_states |-> Applied(ex.order_states, order.order_id, run.fills),
   books        |-> [ex.books EXCEPT ![order.symbol] = AfterMatch(@, order, run)]]

OrdersOn(states, symbol, side) ==
  {id \in DOMAIN states : states[id].symbol = symbol /\ states[id].side = side}

\* The orders of a side that can still trade, with price and shares.
OpenOn(states, symbol, side) ==
  [id \in {x \in OrdersOn(states, symbol, side) : IsOpen(states[x])} |->
     <<states[id].price, remaining_quantity(states[id])>>]

\* Each side of a book holds just these.
BooksMirror(ex) ==
  \A s \in DOMAIN ex.books, sd \in Side :
    Holds(ex.books[s][sd], OpenOn(ex.order_states, s, sd))

\* Whatever rests or trades has shares.
Shares == Nat \ {0}

EntriesOf(ids) == [order_id : ids, quantity : Shares]

\* An order of a message.
IsOrder(order) ==
  /\ order.order_id \in OrderId /\ order.symbol \in Symbols /\ order.side \in Side
  /\ order.price \in Prices /\ order.quantity \in Int

\* What fills and cancels leave alone in an order.
SameTerms(after, before) ==
  /\ after.symbol = before.symbol /\ after.side = before.side
  /\ after.price = before.price

\* Each side of a book holds orders of its side and symbol, no level is empty,
\* and an order that is live has a book.
IsExchange(ex, registered) ==
  /\ ex = [order_states |-> ex.order_states, books |-> ex.books]
  /\ DOMAIN ex.order_states \subseteq OrderId
  /\ ex.order_states \in [DOMAIN ex.order_states -> OrderStates]
  /\ ex.books = [s \in registered |-> [sd \in Side |-> ex.books[s][sd]]]
  /\ \A s \in registered, sd \in Side :
       Tidy(ex.books[s][sd], EntriesOf(OrdersOn(ex.order_states, s, sd)))
  /\ \A id \in DOMAIN ex.order_states :
       ~is_terminal(ex.order_states[id]) => ex.order_states[id].symbol \in registered
=============================================================================
