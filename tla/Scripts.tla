------------------------------- MODULE Scripts -------------------------------
(***************************************************************************)
(* The fixed scripts of apps/, played on the functions of Matching.tla and *)
(* Acceptor.tla, and what comes of them: the smoke test of                 *)
(* exchange_main.cpp; under the set-up of exchange_fix_main.cpp, the       *)
(* pre-population of fix_tui_client.py and the sequence that               *)
(* fix_test_client_pure.py and fix_client.py send; and that set-up read    *)
(* from a file by RiskContext::load_from_file.                             *)
(***************************************************************************)
EXTENDS Acceptor

Submit(id, symbol, side, price, quantity) ==
  [op |-> "submit", order |-> [order_id |-> id, symbol |-> symbol, side |-> side,
                               price |-> price, quantity |-> quantity]]
Cancels(id) == [op |-> "cancel", id |-> id]
Modifies(id, price, quantity) ==
  [op |-> "modify", id |-> id, price |-> price, quantity |-> quantity]

\* The calls one after the other; `tape` holds incoming order, resting order,
\* shares and price of each trade.
Play(registered, ctx, calls) ==
  LET Result(ex, call) ==
        CASE call.op = "submit" -> submit_order(ex, ctx, call.order)
          [] call.op = "cancel" -> NoTrades(cancel_order(ex, call.id))
          [] call.op = "modify" -> modify_order(ex, ctx, call.id, call.price, call.quantity)
      By(call) == IF call.op = "submit" THEN call.order.order_id ELSE call.id
      Step(so_far, call) ==
        LET result == Result(so_far.ex, call)
        IN  [ex   |-> result.ex,
             tape |-> so_far.tape \o
                        [i \in DOMAIN result.trades |->
                           <<By(call), result.trades[i].order_id,
                             result.trades[i].quantity, result.trades[i].price>>]]
  IN  FoldLeft(Step, [ex |-> EmptyExchange(registered), tape |-> <<>>], calls)

\* A map with the value a for the first symbols and b for the others.
Limits(first, a, others, b) ==
  [s \in first \cup others |-> IF s \in first THEN a ELSE b]

-----------------------------------------------------------------------------
(* exchange_main.cpp.                                                      *)

SmokeSymbols == {"RELIANCE", "INFY"}

SmokeCtx ==
  LET Map(reliance, infy) == Limits({"RELIANCE"}, reliance, {"INFY"}, infy)
  IN  [available_margin         |-> 500000,
       max_notional_per_order   |-> 100000,
       max_notional_per_account |-> 1000000,
       max_qty_per_order        |-> 5000,
       max_qty_per_account      |-> 50000,
       var_percentage           |-> Map(15, 12),
       elm_percentage           |-> Map(5, 4),
       upper_circuit_limit      |-> Map(110, 1650),
       lower_circuit_limit      |-> Map(90, 1350),
       max_notional_per_symbol  |-> Map(300000, 500000),
       max_qty_per_symbol       |-> Map(10000, 5000)]

SmokeCalls ==
  <<Submit(1, "RELIANCE", "Sell", 100, 100), Submit(2, "RELIANCE", "Sell", 101, 50),
    Submit(3, "RELIANCE", "Sell", 102, 75),  Submit(4, "RELIANCE", "Buy", 100, 50),
    Submit(5, "INFY", "Sell", 1500, 60),     Submit(6, "INFY", "Sell", 1510, 40),
    Submit(7, "INFY", "Buy", 1500, 50),      Submit(8, "INFY", "Buy", 1600, 30),
    Submit(9, "HDFC", "Buy", 200, 10),
    Cancels(2), Cancels(2), Cancels(9),
    Modifies(3, 100, 60), Submit(10, "RELIANCE", "Buy", 100, 30), Modifies(2, 99, 50)>>

\* The smoke test ends like this.  Order 8 trades with 5 before 6 (its heading
\* says "matches INFY @1510 only"), and order 10 with 1 rather than with the
\* modified 3, which has queued up behind it.
ASSUME SmokeTestOutcome ==
  LET end    == Play(SmokeSymbols, SmokeCtx, SmokeCalls)
      Status(id) == end.ex.order_states[id].order_status
      Left(id)   == remaining_quantity(end.ex.order_states[id])
  IN  /\ end.tape = << <<4, 1, 50, 100>>, <<7, 5, 50, 1500>>, <<8, 5, 10, 1500>>,
                       <<8, 6, 20, 1510>>, <<10, 1, 30, 100>> >>
      /\ {id \in 1..10 : Status(id) = "Filled"} = {4, 5, 7, 8, 10}
      /\ {id \in 1..10 : Status(id) = "Cancelled"} = {2}
      /\ {id \in 1..10 : Status(id) = "Rejected"} = {9}
      /\ <<Left(1), Left(3), Left(6)>> = <<20, 60, 20>>
      /\ end.ex.books["RELIANCE"]["Sell"][100]
           = <<[order_id |-> 1, quantity |-> 20], [order_id |-> 3, quantity |-> 60]>>

-----------------------------------------------------------------------------
(* exchange_fix_main.cpp and pre_populate_books, in half rupees.           *)

AcceptorSymbols == {"RELIANCE", "INFY", "TCS"}

AcceptorCtx ==
  LET Map(infy, others) == Limits({"INFY"}, infy, {"RELIANCE", "TCS"}, others)
  IN  [available_margin         |-> 10000000,
       max_notional_per_order   |-> 1000000,
       max_notional_per_account |-> 20000000,
       max_qty_per_order        |-> 10000,
       max_qty_per_account      |-> 100000,
       var_percentage           |-> Map(12, 15),
       elm_percentage           |-> Map(4, 5),
       upper_circuit_limit      |-> Map(10000, 10000),
       lower_circuit_limit      |-> Map(2, 2),
       max_notional_per_symbol  |-> Map(6000000, 4000000),
       max_qty_per_symbol       |-> Map(20000, 50000)]

\* The orders of one client, ids from `first` on.
PrePopulation(first) ==
  <<Submit(first, "RELIANCE", "Buy", 199, 100),      Submit(first + 1, "RELIANCE", "Buy", 198, 150),
    Submit(first + 2, "RELIANCE", "Sell", 201, 80),  Submit(first + 3, "RELIANCE", "Sell", 202, 120),
    Submit(first + 4, "INFY", "Buy", 2990, 40),      Submit(first + 5, "INFY", "Buy", 2980, 60),
    Submit(first + 6, "INFY", "Sell", 3010, 30),     Submit(first + 7, "INFY", "Sell", 3020, 50),
    Submit(first + 8, "TCS", "Buy", 6400, 20),       Submit(first + 9, "TCS", "Sell", 6440, 30)>>

\* "Pre-populate resting orders for the demo": risk approves all of them, and
\* those of two clients rest without trading with each other, two to a level.
ASSUME PrePopulationRests ==
  LET end == Play(AcceptorSymbols, AcceptorCtx, PrePopulation(1) \o PrePopulation(11))
  IN  /\ end.tape = <<>>
      /\ \A id \in 1..20 : end.ex.order_states[id].order_status = "New"
      /\ \A s \in AcceptorSymbols, sd \in Side :
           \A p \in DOMAIN end.ex.books[s][sd] : Len(end.ex.books[s][sd][p]) = 2

-----------------------------------------------------------------------------
(* The test clients, in half rupees.                                       *)

NewOrder(cl, symbol, side, price, quantity) ==
  [kind |-> "D", cl |-> cl, order |-> [symbol |-> symbol, side |-> side, price |-> price,
                                       quantity |-> quantity]]
CancelRequest(cl, orig) == [kind |-> "F", cl |-> cl, orig |-> orig]
ReplaceRequest(cl, orig, price, quantity) ==
  [kind |-> "G", cl |-> cl, orig |-> orig, price |-> price, quantity |-> quantity]

\* ORD-0001 to ORD-0007.
TestSequence ==
  <<NewOrder(1, "RELIANCE", "Sell", 200, 100), NewOrder(2, "RELIANCE", "Buy", 200, 50),
    CancelRequest(3, 1),
    NewOrder(4, "INFY", "Sell", 3000, 60), ReplaceRequest(5, 4, 3020, 40),
    NewOrder(6, "INFY", "Buy", 3020, 40),
    CancelRequest(7, 1)>>

\* The reports the client sees, in the order of the messages.
ReportsOf(registered, ctx, messages) ==
  LET Step(so_far, m) ==
        LET answer == Handled(so_far.app, ctx, m)
        IN  [app |-> answer.app, reports |-> so_far.reports \o answer.reports]
  IN  FoldLeft(Step, [app |-> NewApp(registered), reports |-> <<>>], messages).reports

\* The comments of the scripts come true: "partial fill on sell", "fills modified
\* sell", and the last cancel gets no report ("expect reject").  What is left of
\* order 1 is reported as ORD-0003, its fill as ORD-0001.
ASSUME TestSequenceOutcome ==
  LET reports == ReportsOf(AcceptorSymbols, AcceptorCtx, TestSequence)
  IN  [i \in DOMAIN reports |->
         <<reports[i].cl, reports[i].exec_type, reports[i].view.status,
           reports[i].view.leaves>>]
        = << <<1, "New", "New", 100>>,
             <<2, "New", "Filled", 0>>, <<2, "Fill", "Filled", 0>>,
             <<1, "PartialFill", "Partial_Filled", 50>>,
             <<3, "Cancelled", "Cancelled", 50>>,
             <<4, "New", "New", 60>>, <<5, "Replace", "New", 40>>,
             <<6, "New", "Filled", 0>>, <<6, "Fill", "Filled", 0>>,
             <<5, "Fill", "Filled", 0>> >>

-----------------------------------------------------------------------------
(* risk_context.cpp.                                                       *)

\* A document `j` as a RiskContext; of entries for one symbol the last counts.
load_from_file(j) ==
  LET entries == j.symbols
      Final(sym) == Max({i \in DOMAIN entries : entries[i].symbol = sym})
      Map(field) == [sym \in {entries[i].symbol : i \in DOMAIN entries} |->
                       entries[Final(sym)][field]]
  IN  j.account @@
      [field \in {"var_percentage", "elm_percentage", "upper_circuit_limit",
                  "lower_circuit_limit", "max_notional_per_symbol",
                  "max_qty_per_symbol"} |-> Map(field)]

\* The entry of a file for a symbol.
FileEntry(sym, var, elm, per_symbol, qty) ==
  [symbol |-> sym, var_percentage |-> var, elm_percentage |-> elm,
   upper_circuit_limit |-> 10000, lower_circuit_limit |-> 2,
   max_notional_per_symbol |-> per_symbol, max_qty_per_symbol |-> qty]

\* The acceptor's set-up written to a file and loaded again is the same
\* RiskContext, also when a symbol's first entry was revised further down.
ASSUME LoadedSetUp ==
  load_from_file(
    [account |-> [available_margin |-> 10000000, max_notional_per_order |-> 1000000,
                  max_notional_per_account |-> 20000000, max_qty_per_order |-> 10000,
                  max_qty_per_account |-> 100000],
     symbols |-> <<FileEntry("INFY", 1, 1, 1, 1),
                   FileEntry("RELIANCE", 15, 5, 4000000, 50000),
                   FileEntry("INFY", 12, 4, 6000000, 20000),
                   FileEntry("TCS", 15, 5, 4000000, 50000)>>]) = AcceptorCtx
=============================================================================
