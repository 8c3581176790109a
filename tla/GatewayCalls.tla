---------------------------- MODULE GatewayCalls ----------------------------
(***************************************************************************)
(* The functions of Acceptor.tla are what the handlers of FixGateway.tla   *)
(* come to when one thread runs them all.                                  *)
(***************************************************************************)
EXTENDS FixGateway

\* The acceptor's variables as the record the functions take.
app == [next_order_id |-> next_order_id, clordid_map |-> clordid_map,
        orderid_to_clordid_map |-> orderid_to_clordid_map, ex |-> ex]

\* What a message does to the maps and the exchange, as a function.
Outcome(a, m) ==
  IF m.kind = "D" /\ m.ord_type # "Limit" THEN Unsupported(a, m.cl, m.order)
                                          ELSE Handled(a, risk_ctx, m)

\* The maps, the exchange and the reports after one more message.
With(before, m) ==
  LET outcome == Outcome(before.app, m)
  IN  [app |-> outcome.app, reports |-> before.reports \o outcome.reports]

\* The functions of the first n messages, one after the other, from the start.
ReplayOf(messages, n) ==
  LET after[i \in 0..n] ==
        IF i = 0 THEN [app |-> NewApp(Registered), reports |-> <<>>]
                 ELSE With(after[i - 1], messages[i])
  IN  after[n]

Replay == ReplayOf(inbound, Len(inbound))

\* What a report says, without its ExecID and its targets.
Said(r) ==
  [order_id |-> r.order_id, cl |-> r.cl, exec_type |-> r.exec_type,
   shares |-> r.shares, px |-> r.px, view |-> r.view]

SaidBy(reports) == [i \in DOMAIN reports |-> Said(reports[i])]

\* When the thread is idle, the maps, the exchange and everything sent so far
\* are what the functions of the messages give, one after the other: the clients
\* see each handler as one step, though it reads the state again before each of
\* its fill reports.
HandlersAreFunctions == Quiet => Replay = [app |-> app, reports |-> SaidBy(sent)]

\* What a report still to be sent will say.
Foretold(a, r) ==
  IF r.exec_type # "?" THEN Said(r)
  ELSE FillReport(IF r.cl # NoName THEN r.cl ELSE a.orderid_to_clordid_map[r.order_id],
                  r.order_id, r.shares, r.px, a.ex.order_states[r.order_id])

ForetoldBy(a, reports) == [i \in DOMAIN reports |-> Foretold(a, reports[i])]

\* What a NewOrderSingle whose order has its id and its names comes to.
Submitted(a, cl, order) ==
  LET id    == order.order_id
      call  == submit_order(a.ex, risk_ctx, order)
      after == [a EXCEPT !.ex = call.ex]
  IN  [app     |-> after,
       reports |-> <<Ack(cl, id, call.ex.order_states[id])>>
                     \o FillReports(after, cl, id, call.trades)]

AfterCall(outcome) == [app |-> outcome.app, reports |-> SaidBy(sent) \o outcome.reports]

AfterReports(t, a) ==
  [app |-> a, reports |-> SaidBy(sent) \o ForetoldBy(a, jobs[t])]

\* Where a handler will have come to when it returns.
Prospect(t) ==
  LET m == msg[t]
  IN  CASE pc[t] = "submit" -> AfterCall(Submitted(app, m.cl, m.order))
        [] pc[t] = "amend"  -> AfterCall(Amend(app, risk_ctx, m.order_id, m))
        [] pc[t] = "remap"  -> AfterReports(t, Named(app, m.cl, m.order_id))
        [] OTHER            -> AfterReports(t, app)

\* Each step of a handler keeps what it will come to.  From this FixGateway_proofs
\* derives HandlersAreFunctions, for one thread.
ReplayInv ==
  \A t \in Threads :
    /\ pc[t] # "thrown" => Replay = Prospect(t)
    /\ pc[t] = "lookup" => jobs[t][1].cl = NoName
=============================================================================
