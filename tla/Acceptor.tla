------------------------------ MODULE Acceptor ------------------------------
(***************************************************************************)
(* What ExchangeApplication (src/fix/exchange_application.cpp) does with a *)
(* message, as functions: the ids it gives, the call it makes, the reports *)
(* it sends.  FixGateway.tla has the same handlers step by step, and       *)
(* GatewayCalls.tla shows that the steps come to these functions when one  *)
(* thread runs all handlers, as under SocketAcceptor.                      *)
(*                                                                         *)
(* `app` is a record of next_order_id, clordid_map (ClOrdID -> OrderId),   *)
(* orderid_to_clordid_map and the exchange `ex` of Matching.tla.           *)
(***************************************************************************)
EXTENDS Matching

Put(map, key, value) ==
  [k \in DOMAIN map \cup {key} |-> IF k = key THEN value ELSE map[k]]

EmptyExchange(registered) ==
  [order_states |-> <<>>, books |-> [s \in registered |-> [sd \in Side |-> NoLevels]]]

\* Before the first message.
NewApp(registered) ==
  [next_order_id |-> 1, clordid_map |-> <<>>, orderid_to_clordid_map |-> <<>>,
   ex |-> EmptyExchange(registered)]

-----------------------------------------------------------------------------
(* Reports.                                                                *)

\* What an ExecutionReport says of an order's state.
View(st) ==
  [symbol |-> st.symbol, side |-> st.side, price |-> st.price,
   status |-> st.order_status, leaves |-> remaining_quantity(st),
   cum    |-> st.filled_quantity]

ExecutionReport(cl, id, exec_type, shares, px, st) ==
  [order_id |-> id, cl |-> cl, exec_type |-> exec_type, shares |-> shares, px |-> px,
   view |-> View(st)]

Answer(cl, id, exec_type, st) == ExecutionReport(cl, id, exec_type, 0, 0, st)

Ack(cl, id, st) ==
  Answer(cl, id, IF st.order_status = "Rejected" THEN "Rejected" ELSE "New", st)

\* The report on one side of a trade: LastShares and LastPx are the trade's.
FillReport(cl, id, shares, px, st) ==
  ExecutionReport(cl, id, IF st.order_status = "Filled" THEN "Fill" ELSE "PartialFill",
                  shares, px, st)

\* Two reports on each trade: the handler's own order, then the resting one.
FillReports(app, cl, id, trades) ==
  LET Report(c, x, f) == FillReport(c, x, f.quantity, f.price, app.ex.order_states[x])
  IN  [n \in 1..(2 * Len(trades)) |->
         LET f == trades[(n + 1) \div 2]
         IN  IF n % 2 = 1 THEN Report(cl, id, f)
             ELSE Report(app.orderid_to_clordid_map[f.order_id], f.order_id, f)]

-----------------------------------------------------------------------------
(* The handlers.  Each gives the new `app`, the reports and the trades.    *)

Named(app, cl, id) ==
  [app EXCEPT !.clordid_map = Put(@, cl, id), !.orderid_to_clordid_map = Put(@, id, cl)]

Unanswered(app) == [app |-> app, reports |-> <<>>, trades |-> <<>>]

\* The order of a message, with the id it is given.
WithId(order, id) ==
  [order_id |-> id, symbol |-> order.symbol, side |-> order.side, price |-> order.price,
   quantity |-> order.quantity]

NewOrderSingle(app, ctx, cl, order) ==
  LET id    == app.next_order_id
      call  == submit_order(app.ex, ctx, WithId(order, id))
      after == [Named(app, cl, id) EXCEPT !.next_order_id = id + 1, !.ex = call.ex]
  IN  [app     |-> after,
       reports |-> <<Ack(cl, id, call.ex.order_states[id])>>
                     \o FillReports(after, cl, id, call.trades),
       trades  |-> call.trades]

\* An order that is not a limit order gets an id and a report, nothing else.
Unsupported(app, cl, order) ==
  LET id == app.next_order_id
  IN  [app     |-> [Named(app, cl, id) EXCEPT !.next_order_id = id + 1],
       reports |-> <<Ack(cl, id, NewOrderState(order, "Rejected"))>>,
       trades  |-> <<>>]

\* OrderCancelRequest ("F") and OrderCancelReplaceRequest ("G") for order id;
\* an order that is finished, or that the OMS does not have, gets no report.
Amend(app, ctx, id, m) ==
  LET call  == IF m.kind = "F"
                 THEN NoTrades(cancel_order(app.ex, id))
                 ELSE modify_order(app.ex, ctx, id, m.price, m.quantity)
      after == [Named(app, m.cl, id) EXCEPT !.ex = call.ex]
  IN  IF ~CanAmend(app.ex, id)
        THEN Unanswered(app)
        ELSE [app     |-> after,
              reports |-> <<Answer(m.cl, id, IF m.kind = "F" THEN "Cancelled" ELSE "Replace",
                                   call.ex.order_states[id])>>
                            \o FillReports(after, m.cl, id, call.trades),
              trades  |-> call.trades]

\* The handler of a message; one that names an order nobody knows gets no report.
Handled(app, ctx, m) ==
  IF m.kind = "D" THEN NewOrderSingle(app, ctx, m.cl, m.order)
  ELSE IF m.orig \in DOMAIN app.clordid_map
         THEN Amend(app, ctx, app.clordid_map[m.orig], m)
         ELSE Unanswered(app)
=============================================================================
