---------------------------- MODULE ExchangeCalls ----------------------------
(***************************************************************************)
(* The calls of Matching.tla are what the handlers of Exchange.tla, many   *)
(* threads in many steps, compute on each symbol.  `promised` is a         *)
(* history: for each symbol, what the function of the last call that       *)
(* locked its mutex made of the symbol's orders and book, as they were     *)
(* when the call started.                                                  *)
(***************************************************************************)
EXTENDS BookAgreement, Matching

VARIABLE promised

\* The orders and the book of one symbol.
OrdersAt(s) == {id \in DOMAIN order_states : order_states[id].symbol = s}

PartOf(s) == [order_states |-> [id \in OrdersAt(s) |-> order_states[id]],
              books        |-> [u \in Registered \cap {s} |-> books[u]]]

\* What the call of thread t makes of its symbol's part, as a function.
Outcome(t) ==
  LET m    == req[t]
      part == PartOf(MessageSymbol(m))
  IN  CASE m.kind = "D" -> submit_order(part, risk_ctx, m.order).ex
        [] m.kind = "F" -> cancel_order(part, m.order_id)
        [] OTHER -> modify_order(part, risk_ctx, m.order_id, m.price, m.quantity).ex

CallsInit == Init /\ promised = [s \in Symbols |-> PartOf(s)]

CallsNext ==
  \E t \in Threads :
    \/ Receive(t) /\ UNCHANGED promised
    \/ Enter(t) /\ promised' = [promised EXCEPT ![MessageSymbol(req[t])] = Outcome(t)]
    \/ Continue(t) /\ UNCHANGED promised

CallsSpec == CallsInit /\ [][CallsNext]_<<vars, promised>>

\* When no call is running on a symbol, its orders and its book are what the
\* functions of the calls made on it give, in the order in which the calls
\* took its mutex: match_orders' loop, the two halves of cancel_order and the
\* six steps of modify_order add up to one function each, and a call on
\* another symbol, which runs at the same time, is not felt.
CallsAreFunctions ==
  \A s \in Symbols : symbol_mutexes[s] = NoThread => promised[s] = PartOf(s)

-----------------------------------------------------------------------------
(* The inductive invariant behind CallsAreFunctions.                       *)

\* The trades of t's call that the OMS has yet to hear of, as fills.
FillsOf(t) ==
  [i \in DOMAIN matched[t] |-> [order_id |-> Hit(t, i), quantity |-> matched[t][i].quantity,
                                price    |-> matched[t][i].price]]

\* Where t's match_orders is.
RunOf(t) ==
  [levels |-> Against(incoming[t]), left |-> incoming[t].quantity, fills |-> FillsOf(t)]

Marked(ex, id) == [ex EXCEPT !.order_states[id].order_status = "Cancelled"]

\* What is still to become of its symbol's part when t's call goes on by itself.
Coming(t) ==
  LET part  == PartOf(MessageSymbol(req[t]))
      id    == req[t].order_id
      terms == TermsOf(incoming[t])
  IN  CASE pc[t] = "match" -> Ended(part, terms, LoopEnd(terms, RunOf(t)))
        [] pc[t] = "apply" ->
             [part EXCEPT !.order_states = Applied(@, incoming[t].order_id, FillsOf(t))]
        [] pc[t] = "pull" -> Outcome(t)
        [] pc[t] = "replace" /\ Replaceable(Revised(t)) ->
             Process(WithState(part, id, Renewed(snap[t], req[t].price, req[t].quantity)),
                     Revised(t)).ex
        [] OTHER -> Marked(part, id)

\* A call that is running is on its way to what was promised.
CallsInv ==
  /\ promised = [s \in Symbols |-> promised[s]]
  /\ CallsAreFunctions
  /\ \A t \in Threads : pc[t] \in InCall => promised[MessageSymbol(req[t])] = Coming(t)
=============================================================================
