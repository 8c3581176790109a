----------------------------- MODULE FixGateway -----------------------------
(***************************************************************************)
(* ExchangeApplication (src/fix/exchange_application.cpp): FIX sessions,   *)
(* the ClOrdID maps, and the handlers of the three messages with the       *)
(* reports they send.  A call into the exchange is one step (see           *)
(* Matching.tla); between the steps of a handler - each critical section   *)
(* of global_state_mutex_, each read of an order's state, each send -      *)
(* handlers of other threads run.                                          *)
(***************************************************************************)
EXTENDS Acceptor

CONSTANTS
  Sessions,         \* FIX sessions
  Threads,          \* threads that run callbacks; SocketAcceptor has one
  NoThread,         \* the holder of a mutex that is free
  MaxMessages,      \* bound: messages in one behaviour
  OrdTypes,         \* the order types clients send, "Limit" and "Market"
  Registered,       \* symbols given to register_symbol
  risk_ctx,         \* the RiskContext every check uses
  Quantities,       \* the quantities a message may carry
  MaxOrders,        \* bound: NewOrderSingle messages in one behaviour
  MaxLogouts        \* bound: logouts in one behaviour

ASSUME GatewayThreadsAssumption == NoThread \notin Threads
ASSUME GatewaySymbolsAssumption == Registered \subseteq Symbols
ASSUME GatewayQuantitiesAssumption == Quantities \subseteq Int
ASSUME GatewayBoundsAssumption == MaxOrders \in Nat

VARIABLES
  next_order_id, next_exec_id,
  clordid_map,              \* ClOrdID -> OrderId
  orderid_to_clordid_map,   \* OrderId -> ClOrdID
  order_sessions,           \* OrderId -> session
  active_sessions,
  symbol_mutexes,           \* symbol -> thread that holds its mutex
  ex,                       \* the exchange: order_states and books
  pc,                       \* thread -> where its handler is
  msg,                      \* thread -> the message it handles
  jobs,                     \* thread -> reports its handler has yet to send
  sent,                     \* every report sent, in the order of sending
  inbound,                  \* history: every message received, in order
  refused,                  \* history: ClOrdIDs answered with OrderCancelReject
  logouts                   \* counts towards MaxLogouts

maps == <<clordid_map, orderid_to_clordid_map, order_sessions>>
links == <<active_sessions, logouts>>
vars == <<next_order_id, next_exec_id, maps, links, symbol_mutexes, ex, pc, msg,
          jobs, sent, inbound, refused>>

-----------------------------------------------------------------------------
(* Helpers.                                                                *)

Nothing == [none |-> TRUE]

\* A ClOrdID is the number of the message that carries it: no two are the same.
ClOrdIds == 1..MaxMessages

Goto(t, where) == pc' = [pc EXCEPT ![t] = where]

\* A mutex the thread holds already is not taken again.
SymbolFree(t) == symbol_mutexes[msg[t].symbol] \in {NoThread, t}

\* The ClOrdID of a report that has yet to be looked up.
NoName == 0

\* A report on a fill; what it says of the order is read when its turn comes.
FillOf(id, cl, f) ==
  [order_id |-> id, cl |-> cl, exec_type |-> "?", shares |-> f.quantity, px |-> f.price]

\* Two reports on each trade: the handler's own order, then the resting one.
FillsOf(id, cl, fills) ==
  [n \in 1..(2 * Len(fills)) |->
     LET f == fills[(n + 1) \div 2]
     IN  IF n % 2 = 1 THEN FillOf(id, cl, f) ELSE FillOf(f.order_id, NoName, f)]

\* Where a handler goes to deal with the first of its reports.
StageOf(reports) ==
  IF reports = <<>> THEN "idle"
  ELSE CASE reports[1].exec_type # "?" -> "stamp"
         [] reports[1].cl # NoName     -> "read"
         [] OTHER                      -> "lookup"

\* The handler returns.
Finish(t) ==
  /\ Goto(t, "idle")
  /\ msg' = [msg EXCEPT ![t] = Nothing]
  /\ jobs' = [jobs EXCEPT ![t] = <<>>]

\* Plausible defect: the handler of a cancel never unlocks.
FreeSymbols_Kept(t) == symbol_mutexes

FreeSymbols(t) ==
  [s \in Symbols |-> IF symbol_mutexes[s] = t THEN NoThread ELSE symbol_mutexes[s]]

Init ==
  /\ next_order_id = 1 /\ next_exec_id = 1
  /\ clordid_map = <<>> /\ orderid_to_clordid_map = <<>> /\ order_sessions = <<>>
  /\ active_sessions = {}
  /\ symbol_mutexes = [s \in Symbols |-> NoThread]
  /\ ex = EmptyExchange(Registered)
  /\ pc = [t \in Threads |-> "idle"]
  /\ msg = [t \in Threads |-> Nothing]
  /\ jobs = [t \in Threads |-> <<>>]
  /\ sent = <<>>
  /\ inbound = <<>>
  /\ refused = {}
  /\ logouts = 0

-----------------------------------------------------------------------------
(* Sessions.  QuickFIX handles the messages of one session one at a time.  *)

Busy(session) == \E t \in Threads : msg[t] # Nothing /\ msg[t].session = session

\* A callback needs a thread.
Callback == \E t \in Threads : pc[t] = "idle"

onLogon(session) ==
  /\ session \notin active_sessions /\ Callback
  /\ active_sessions' = active_sessions \cup {session}
  /\ UNCHANGED <<next_order_id, next_exec_id, maps, logouts, symbol_mutexes, ex,
                 pc, msg, jobs, sent, inbound, refused>>

onLogout(session) ==
  /\ session \in active_sessions /\ ~Busy(session) /\ Callback
  /\ logouts < MaxLogouts
  /\ active_sessions' = active_sessions \ {session}
  /\ logouts' = logouts + 1
  /\ UNCHANGED <<next_order_id, next_exec_id, maps, symbol_mutexes, ex, pc, msg,
                 jobs, sent, inbound, refused>>

\* Thread t takes the next message from a session.  ClOrdIDs are the numbers of the
\* messages, so clients never repeat one here; those that do are in TuiClient.
Takes(t, m) ==
  /\ pc[t] = "idle"
  /\ m.session \in active_sessions /\ ~Busy(m.session)
  /\ m.cl = Len(inbound) + 1
  /\ inbound' = Append(inbound, m)

-----------------------------------------------------------------------------
(* NewOrderSingle.                                                         *)

\* Plausible defect: the counter is read and advanced without the mutex.
Register_Racy(cl, session) ==
  /\ next_order_id' \in {next_order_id, next_order_id + 1}
  /\ clordid_map' = Put(clordid_map, cl, next_order_id)
  /\ orderid_to_clordid_map' = Put(orderid_to_clordid_map, next_order_id, cl)
  /\ order_sessions' = Put(order_sessions, next_order_id, session)

\* Under global_state_mutex_ the order gets its id and its map entries.
Register(cl, session) ==
  /\ next_order_id' = next_order_id + 1
  /\ clordid_map' = Put(clordid_map, cl, next_order_id)
  /\ orderid_to_clordid_map' = Put(orderid_to_clordid_map, next_order_id, cl)
  /\ order_sessions' = Put(order_sessions, next_order_id, session)

\* A NewOrderSingle with these terms arrives and is registered.
Arrives(t, session, cl, ord_type, order) ==
  LET m == [kind |-> "D", session |-> session, cl |-> cl, ord_type |-> ord_type,
            order |-> order]
  IN  /\ Takes(t, m)
      /\ msg' = [msg EXCEPT ![t] =
           [kind |-> "D", session |-> session, cl |-> cl, order |-> order,
            order_id |-> next_order_id, symbol |-> order.symbol]]
      /\ next_order_id <= MaxOrders
      /\ ord_type \in OrdTypes
      /\ Register(cl, session)
      /\ UNCHANGED <<next_exec_id, links, symbol_mutexes, ex, sent, refused>>

NewOrders ==
  [order_id : {next_order_id}, symbol : Symbols, side : Side, price : Prices,
   quantity : Quantities]

ReceiveOrder(t, session, cl) ==
  \E order \in NewOrders :
    /\ Arrives(t, session, cl, "Limit", order)
    /\ Goto(t, "submit")
    /\ UNCHANGED jobs

\* "Only Limit orders supported": the order has an id and map entries, and a
\* report is to be sent, but the OMS never hears of it.
ReceiveUnsupported(t, session, cl) ==
  \E order \in NewOrders :
    /\ Arrives(t, session, cl, "Market", order)
    /\ jobs' = [jobs EXCEPT ![t] =
         <<Ack(cl, next_order_id, NewOrderState(order, "Rejected"))>>]
    /\ Goto(t, "stamp")

\* Plausible defect: the fills are reported before the ack.
SubmitReports_FillsFirst(t, call) ==
  LET id  == msg[t].order_id
      st  == call.ex.order_states[id]
      ack == <<Ack(msg[t].cl, id, st)>>
  IN  IF call.trades = <<>> THEN ack
      ELSE <<FillReport(msg[t].cl, id, call.trades[1].quantity, call.trades[1].price, st)>>
             \o Tail(FillsOf(id, msg[t].cl, call.trades)) \o ack

\* What is reported of a submitted order: its ack, then its fills.
SubmitReports(t, call) ==
  LET id == msg[t].order_id
  IN  <<Ack(msg[t].cl, id, call.ex.order_states[id])>> \o FillsOf(id, msg[t].cl, call.trades)

\* Under the symbol's mutex: submit_order, then the order's state is copied.
Submit(t) ==
  /\ pc[t] = "submit"
  /\ SymbolFree(t)
  /\ \E call \in {submit_order(ex, risk_ctx, msg[t].order)} :
       /\ ex' = call.ex
       /\ jobs' = [jobs EXCEPT ![t] = SubmitReports(t, call)]
  /\ Goto(t, "stamp")
  /\ UNCHANGED <<next_order_id, next_exec_id, maps, links, symbol_mutexes, msg,
                 sent, inbound, refused>>

-----------------------------------------------------------------------------
(* OrderCancelRequest and OrderCancelReplaceRequest.                       *)

\* ClOrdIDs a client can name: its own, and those of reports it was sent.
KnownTo(session) ==
  {r.cl : r \in {x \in Range(inbound) : x.session = session}}
    \cup {r.cl : r \in {x \in Range(sent) : session \in x.targets}}

\* The symbol of the order the ClOrdID stands for, which every client in apps/
\* names; any symbol when the OMS has no such order.
SymbolsOf(orig) ==
  LET ids == {id \in DOMAIN ex.order_states :
                orig \in DOMAIN clordid_map /\ clordid_map[orig] = id}
  IN  IF ids = {} THEN Symbols ELSE {ex.order_states[id].symbol : id \in ids}

\* The ClOrdID is looked up under global_state_mutex_; the request goes on.
AmendFound(t, m) ==
  /\ m.orig \in DOMAIN clordid_map
  /\ msg' = [msg EXCEPT ![t] = Put(m, "order_id", clordid_map[m.orig])]
  /\ Goto(t, "amend")
  /\ UNCHANGED refused

\* "Unknown ClOrdID": an OrderCancelReject, and the handler returns.
AmendUnknown(m) ==
  /\ m.orig \notin DOMAIN clordid_map
  /\ refused' = refused \cup {m.cl}
  /\ UNCHANGED <<pc, msg>>

ReceiveAmend(t, m) ==
  /\ Takes(t, m)
  /\ m.orig \in KnownTo(m.session)
  /\ AmendFound(t, m) \/ AmendUnknown(m)
  /\ UNCHANGED <<next_order_id, next_exec_id, maps, links, symbol_mutexes, ex, jobs,
                 sent>>

ReceiveCancel(t, session, cl) ==
  \E orig \in ClOrdIds : \E sym \in SymbolsOf(orig) :
    ReceiveAmend(t, [kind |-> "F", session |-> session, cl |-> cl, orig |-> orig,
                     symbol |-> sym])

ReceiveReplace(t, session, cl) ==
  \E orig \in ClOrdIds, price \in Prices, quantity \in Quantities :
    \E sym \in SymbolsOf(orig) :
      ReceiveAmend(t, [kind |-> "G", session |-> session, cl |-> cl, orig |-> orig,
                       symbol |-> sym, price |-> price, quantity |-> quantity])

\* order_states_.at throws for an id the OMS does not have: std::out_of_range
\* leaves the handler and nothing in this program catches it on this thread.
AmendThrows(t) ==
  /\ pc[t] = "amend"
  /\ SymbolFree(t)
  /\ msg[t].order_id \notin DOMAIN ex.order_states
  /\ Goto(t, "thrown")
  /\ UNCHANGED <<next_order_id, next_exec_id, maps, links, symbol_mutexes, ex, msg,
                 jobs, sent, inbound, refused>>

Amendable(t) ==
  /\ pc[t] = "amend"
  /\ SymbolFree(t)
  /\ msg[t].order_id \in DOMAIN ex.order_states

\* "Order already in terminal state": an OrderCancelReject.
AmendRefused(t) ==
  /\ Amendable(t)
  /\ is_terminal(ex.order_states[msg[t].order_id])
  /\ refused' = refused \cup {msg[t].cl}
  /\ Finish(t)
  /\ UNCHANGED <<next_order_id, next_exec_id, maps, links, symbol_mutexes, ex, sent,
                 inbound>>

\* The handler of a cancel keeps the symbol's mutex until it returns.
Cancel(t) ==
  LET id == msg[t].order_id
  IN  /\ Amendable(t)
      /\ msg[t].kind = "F"
      /\ ~is_terminal(ex.order_states[id])
      /\ ex' = cancel_order(ex, id)
      /\ symbol_mutexes' = [symbol_mutexes EXCEPT ![msg[t].symbol] = t]
      /\ jobs' = [jobs EXCEPT ![t] =
                    <<Answer(msg[t].cl, id, "Cancelled", ex'.order_states[id])>>]
      /\ Goto(t, "remap")
      /\ UNCHANGED <<next_order_id, next_exec_id, maps, links, msg, sent, inbound,
                     refused>>

\* The handler of a replace lets go of it before it reports.
Replace(t) ==
  LET m  == msg[t]
      id == m.order_id
  IN  /\ Amendable(t)
      /\ m.kind = "G"
      /\ ~is_terminal(ex.order_states[id])
      /\ \E call \in {modify_order(ex, risk_ctx, id, m.price, m.quantity)} :
           /\ ex' = call.ex
           /\ jobs' = [jobs EXCEPT ![t] =
                         <<Answer(m.cl, id, "Replace", call.ex.order_states[id])>>
                           \o FillsOf(id, m.cl, call.trades)]
      /\ Goto(t, "remap")
      /\ UNCHANGED <<next_order_id, next_exec_id, maps, links, symbol_mutexes, msg,
                     sent, inbound, refused>>

\* Plausible defect: the order is not found under its new ClOrdID.
Remap_BackOnly(t) ==
  LET m == msg[t]
  IN  /\ pc[t] = "remap"
      /\ orderid_to_clordid_map' = Put(orderid_to_clordid_map, m.order_id, m.cl)
      /\ order_sessions' = IF m.kind = "G"
                             THEN Put(order_sessions, m.order_id, m.session)
                             ELSE order_sessions
      /\ Goto(t, "stamp")
      /\ UNCHANGED <<next_order_id, next_exec_id, clordid_map, links, symbol_mutexes, ex,
                     msg, jobs, sent, inbound, refused>>

\* The order answers to its new ClOrdID too; a replace also takes it over.
Remap(t) ==
  LET m == msg[t]
  IN  /\ pc[t] = "remap"
      /\ clordid_map' = Put(clordid_map, m.cl, m.order_id)
      /\ orderid_to_clordid_map' = Put(orderid_to_clordid_map, m.order_id, m.cl)
      /\ order_sessions' = IF m.kind = "G"
                             THEN Put(order_sessions, m.order_id, m.session)
                             ELSE order_sessions
      /\ Goto(t, "stamp")
      /\ UNCHANGED <<next_order_id, next_exec_id, links, symbol_mutexes, ex, msg, jobs,
                     sent, inbound, refused>>

-----------------------------------------------------------------------------
(* Reports.                                                                *)

\* The resting order's ClOrdID is looked up; an order without one gets no report.
Lookup(t) ==
  LET id == jobs[t][1].order_id
      rest == Tail(jobs[t])
  IN  /\ pc[t] = "lookup"
      /\ IF id \in DOMAIN orderid_to_clordid_map
           THEN /\ jobs' = [jobs EXCEPT ![t][1].cl = orderid_to_clordid_map[id]]
                /\ Goto(t, "read")
                /\ UNCHANGED msg
           ELSE IF rest = <<>>
                  THEN Finish(t)
                  ELSE /\ jobs' = [jobs EXCEPT ![t] = rest]
                       /\ Goto(t, StageOf(rest))
                       /\ UNCHANGED msg
      /\ UNCHANGED <<next_order_id, next_exec_id, maps, links, symbol_mutexes, ex, sent,
                     inbound, refused>>

\* Plausible defect: the report on a resting order shows the incoming one.
StateToReport_Incoming(t) == ex.order_states[msg[t].order_id]

StateToReport(t) == ex.order_states[jobs[t][1].order_id]

\* The order's state is read again, under the symbol's mutex.
ReadState(t) ==
  /\ pc[t] = "read"
  /\ SymbolFree(t)
  /\ jobs' = [jobs EXCEPT ![t][1] =
       FillReport(@.cl, @.order_id, @.shares, @.px, StateToReport(t))]
  /\ Goto(t, "stamp")
  /\ UNCHANGED <<next_order_id, next_exec_id, maps, links, symbol_mutexes, ex, msg,
                 sent, inbound, refused>>

\* Plausible defect: the counter is read without the mutex.
TakeExecId_Racy == next_exec_id' \in {next_exec_id, next_exec_id + 1}

TakeExecId == next_exec_id' = next_exec_id + 1

\* The session a report falls back on when no session is active.  An order's
\* session is entered once, before its first trade, so that reading it now gives
\* what the handler's lookup gave.
Fallback(t) ==
  IF jobs[t][1].order_id = msg[t].order_id THEN msg[t].session
                                           ELSE order_sessions[jobs[t][1].order_id]

\* A report with its ExecID and the sessions it is sent to.
Stamped(r, exec_id, targets) ==
  [order_id |-> r.order_id, cl |-> r.cl, exec_type |-> r.exec_type, shares |-> r.shares,
   px |-> r.px, view |-> r.view, exec_id |-> exec_id, targets |-> targets]

\* Under global_state_mutex_ the report gets its ExecID and its targets.
Stamp(t) ==
  /\ pc[t] = "stamp"
  /\ TakeExecId
  /\ jobs' = [jobs EXCEPT ![t][1] =
       Stamped(@, next_exec_id, IF active_sessions = {} THEN {Fallback(t)}
                                                        ELSE active_sessions)]
  /\ Goto(t, "send")
  /\ UNCHANGED <<next_order_id, maps, links, symbol_mutexes, ex, msg, sent, inbound,
                 refused>>

\* Plausible defect: the loop over the trades stops after the first report.
Remaining_None(t) == <<>>

Remaining(t) == Tail(jobs[t])

\* sendToTarget for each target; after its last report the handler returns.
Send(t) ==
  /\ pc[t] = "send"
  /\ sent' = Append(sent, jobs[t][1])
  /\ IF Remaining(t) = <<>>
       THEN Finish(t) /\ symbol_mutexes' = FreeSymbols(t)
       ELSE /\ jobs' = [jobs EXCEPT ![t] = Remaining(t)]
            /\ Goto(t, StageOf(Remaining(t)))
            /\ UNCHANGED <<msg, symbol_mutexes>>
  /\ UNCHANGED <<next_order_id, next_exec_id, maps, links, ex, inbound, refused>>

-----------------------------------------------------------------------------
(* The specification.                                                      *)

Receive(t) ==
  \E session \in Sessions, cl \in ClOrdIds :
    \/ ReceiveOrder(t, session, cl)
    \/ ReceiveUnsupported(t, session, cl)
    \/ ReceiveCancel(t, session, cl)
    \/ ReceiveReplace(t, session, cl)

Handle(t) ==
  \/ Submit(t)
  \/ AmendThrows(t) \/ AmendRefused(t) \/ Cancel(t) \/ Replace(t) \/ Remap(t)
  \/ Lookup(t) \/ ReadState(t) \/ Stamp(t) \/ Send(t)

Next ==
  \/ \E session \in Sessions : onLogon(session) \/ onLogout(session)
  \/ \E t \in Threads : Receive(t) \/ Handle(t)

Spec == Init /\ [][Next]_vars

\* Every thread that can go on with its handler does.
FairSpec == Spec /\ \A t \in Threads : WF_vars(Handle(t))

-----------------------------------------------------------------------------
(* Properties.                                                             *)

ExecType == {"New", "Rejected", "Cancelled", "Replace", "Fill", "PartialFill"}

Views ==
  [symbol : Symbols, side : Side, price : Prices, status : OrderStatus, leaves : Int,
   cum : Int]

\* Reports without and with ExecID and targets.
Drafts ==
  [order_id : OrderId, cl : ClOrdIds, exec_type : ExecType, shares : Int, px : Int,
   view : Views]

Reports ==
  [order_id : OrderId, cl : ClOrdIds, exec_type : ExecType, shares : Int, px : Int,
   view : Views, exec_id : Nat \ {0}, targets : (SUBSET Sessions) \ {{}}]

\* The OrderIds given so far.
GivenIds == 1..(next_order_id - 1)

\* Every variable has its type.
TypeOK ==
  /\ next_order_id \in OrderId /\ next_exec_id \in Nat \ {0}
  /\ DOMAIN clordid_map \subseteq ClOrdIds
  /\ \A cl \in DOMAIN clordid_map : clordid_map[cl] \in GivenIds
  /\ orderid_to_clordid_map \in [GivenIds -> ClOrdIds]
  /\ order_sessions \in [GivenIds -> Sessions]
  /\ active_sessions \subseteq Sessions
  /\ symbol_mutexes \in [Symbols -> Threads \cup {NoThread}]
  /\ IsExchange(ex, Registered) /\ DOMAIN ex.order_states \subseteq GivenIds
  /\ sent \in Seq(Reports)

Quiet == \A t \in Threads : pc[t] = "idle"

\* "Bidirectional ClOrdID <-> OrderID State Mapping": following an order to its
\* ClOrdID and back gives the order, after any renaming by cancels and replaces
\* and between the two steps of each.
MapsAgree ==
  \A id \in DOMAIN orderid_to_clordid_map :
    /\ orderid_to_clordid_map[id] \in DOMAIN clordid_map
    /\ clordid_map[orderid_to_clordid_map[id]] = id

\* A handler of a cancel or replace that has yet to give the order its ClOrdID.
Renaming(t) == pc[t] \in {"amend", "remap"}

\* A ClOrdID enters the maps once, in the handler of the message that brought
\* it: none in the maps is still to come, or still with another handler.
NamesUsedOnce ==
  /\ inbound \in Seq(Range(inbound))
  /\ DOMAIN pc = Threads /\ DOMAIN msg = Threads
  /\ DOMAIN clordid_map \subseteq 1..Len(inbound)
  /\ \A t \in Threads : Renaming(t) =>
       /\ msg[t].cl \in 1..Len(inbound) \ DOMAIN clordid_map
       /\ \A u \in Threads \ {t} : Renaming(u) => msg[u].cl # msg[t].cl

\* From this FixGateway_proofs derives MapsAgree, for any number of threads.
NamesInv == MapsAgree /\ NamesUsedOnce

\* No two reports carry the same ExecID.
ExecIdsUnique ==
  \A i, j \in DOMAIN sent : i # j => sent[i].exec_id # sent[j].exec_id

\* What the message of a busy handler says; an order that is still to be
\* submitted has an OrderId that the OMS has not seen, one that is reported on
\* has one that was given.
MessageOK(t) ==
  /\ pc[t] # "idle" =>
       /\ msg[t].session \in Sessions /\ msg[t].cl \in ClOrdIds
       /\ msg[t].symbol \in Symbols /\ msg[t].order_id \in GivenIds
  /\ pc[t] = "amend" /\ msg[t].kind = "G" =>
       msg[t].price \in Prices /\ msg[t].quantity \in Int
  /\ pc[t] = "submit" =>
       /\ IsOrder(msg[t].order) /\ msg[t].order.order_id = msg[t].order_id
       /\ msg[t].order_id \notin DOMAIN ex.order_states
  /\ pc[t] \in {"remap", "stamp"} => jobs[t][1].order_id \in GivenIds

\* No two handlers submit an order with the same OrderId.
SubmitsDiffer ==
  \A t, u \in Threads :
    t # u /\ pc[t] = "submit" /\ pc[u] = "submit" => msg[t].order_id # msg[u].order_id

\* Reports on fills of these orders, still to be read.
FillJobsOn(ids) ==
  [order_id : ids, cl : ClOrdIds \cup {NoName}, exec_type : {"?"}, shares : Int, px : Int]

\* The stage of a handler fits the first of its reports; the others are fills
\* of orders in `ids`.
JobsFit(ids, where, js) ==
  /\ js \in Seq(FillJobsOn(ids) \cup Drafts \cup Reports)
  /\ \A i \in DOMAIN js : i # 1 => js[i] \in FillJobsOn(ids)
  /\ where \in {"remap", "stamp", "send", "lookup", "read"} => js # <<>>
  /\ where \in {"remap", "stamp"} => js[1] \in Drafts
  /\ where = "send" => js[1] \in Reports
  /\ where \in {"lookup", "read"} => js[1] \in FillJobsOn(ids)
  /\ where = "read" => js[1].cl # NoName
  /\ where \in {"idle", "submit", "amend"} => js = <<>>

\* Every handler is between two of its steps.
HandlersOK ==
  /\ DOMAIN pc = Threads /\ DOMAIN msg = Threads /\ DOMAIN jobs = Threads
  /\ \A t \in Threads : MessageOK(t) /\ JobsFit(DOMAIN ex.order_states, pc[t], jobs[t])
  /\ SubmitsDiffer

\* An ExecID is used up when it is taken: those of the reports sent and of the
\* reports about to be sent all differ, and lie below the counter.
ExecIdsTaken ==
  /\ ExecIdsUnique
  /\ \A i \in DOMAIN sent : sent[i].exec_id < next_exec_id
  /\ \A t \in Threads : pc[t] = "send" =>
       /\ jobs[t][1].exec_id < next_exec_id
       /\ \A i \in DOMAIN sent : sent[i].exec_id # jobs[t][1].exec_id
       /\ \A u \in Threads \ {t} :
            pc[u] = "send" => jobs[u][1].exec_id # jobs[t][1].exec_id

\* From this FixGateway_proofs derives TypeOK and ExecIdsUnique.
GatewayInv == TypeOK /\ HandlersOK /\ ExecIdsTaken

ReportsOn(id) == {i \in DOMAIN sent : sent[i].order_id = id}

SharesFor(r, id) == IF r.order_id = id THEN r.shares ELSE 0

\* The shares that these reports say were traded on an order.
SharesOn(reports, id) ==
  Summed([i \in DOMAIN reports |-> SharesFor(reports[i], id)], Len(reports))

\* When no handler runs, the fills reported on an order add up to its filled
\* quantity: each trade was reported once on each side, whoever handled it.
FillsReported ==
  Quiet => \A id \in DOMAIN ex.order_states :
    ex.order_states[id].filled_quantity = SharesOn(sent, id)

\* The threads, one after the other.
Turns ==
  CHOOSE nth \in [1..Cardinality(Threads) -> Threads] :
    /\ \A i, j \in DOMAIN nth : i # j => nth[i] # nth[j]
    /\ Range(nth) = Threads

\* The shares traded on an order that handlers have yet to report.
SharesDue(id) ==
  Summed([k \in DOMAIN Turns |-> SharesOn(jobs[Turns[k]], id)], Cardinality(Threads))

FilledOf(id) ==
  IF id \in DOMAIN ex.order_states THEN ex.order_states[id].filled_quantity ELSE 0

\* Whatever was filled was reported or is due, between the steps of the handlers
\* too.  From this FixGateway_proofs derives FillsReported, for any finite number
\* of threads.
FillsInv ==
  /\ GivenIds \subseteq 1..MaxOrders
  /\ \A id \in 1..MaxOrders : FilledOf(id) = SharesOn(sent, id) + SharesDue(id)

\* When no handler runs, the last report on an order shows the order as it is:
\* a client that believes the latest report has the public book right.
LastReportIsCurrent ==
  Quiet => \A id \in DOMAIN ex.order_states :
    /\ ReportsOn(id) # {}
    /\ sent[CHOOSE i \in ReportsOn(id) : \A j \in ReportsOn(id) : j <= i].view
         = View(ex.order_states[id])

\* What answers a NewOrderSingle.
Acks == {"New", "Rejected"}

\* "Send New ack first": the first report on an order answers its
\* NewOrderSingle, no fill or cancel of it is reported before.
AckFirst ==
  \A id \in DOMAIN orderid_to_clordid_map : ReportsOn(id) # {} =>
    sent[CHOOSE i \in ReportsOn(id) : \A j \in ReportsOn(id) : i <= j].exec_type \in Acks

\* The first and the last of the reports on an order.
FirstOn(reports, i) ==
  \A j \in DOMAIN reports : reports[j].order_id = reports[i].order_id => i <= j

LastOn(reports, i) ==
  \A j \in DOMAIN reports : reports[j].order_id = reports[i].order_id => j <= i

Mentions(reports, id) == \E i \in DOMAIN reports : reports[i].order_id = id

\* How the reports sent and those a handler has yet to send fit together: every
\* order was acked first or the ack is next, and of every order the last report
\* shows it as it is, or one more is to come.
ReportsFit(reports, js, states, drafted) ==
  /\ \A i \in DOMAIN reports : FirstOn(reports, i) => reports[i].exec_type \in Acks
  /\ \A i \in DOMAIN reports : LastOn(reports, i) =>
       LET id == reports[i].order_id
       IN  id \in DOMAIN states => Mentions(js, id) \/ reports[i].view = View(states[id])
  /\ \A id \in DOMAIN states :
       \/ Mentions(reports, id)
       \/ js # <<>> /\ js[1].order_id = id /\ js[1].exec_type \in Acks
  /\ drafted =>
       LET id == js[1].order_id
       IN  /\ js[1].exec_type \in Acks \/ id \in DOMAIN states
           /\ id \in DOMAIN states =>
                \/ js[1].view = View(states[id])
                \/ \E k \in DOMAIN js : k # 1 /\ js[k].order_id = id

\* The first report of the handler says what it will say.
Drafted(t) == pc[t] \in {"remap", "stamp", "send"}

OneThread == \E t \in Threads : Threads = {t}

\* From this FixGateway_proofs derives AckFirst and LastReportIsCurrent, for the one
\* thread that SocketAcceptor has (with two, a fill may be reported before an ack).
ReportsInv ==
  \A t \in Threads : ReportsFit(sent, jobs[t], ex.order_states, Drafted(t))

\* A cancel or replace of a rejected order does not throw: the handler finds in
\* the OMS whatever order a ClOrdID stands for.
NeverThrows == \A t \in Threads : pc[t] # "thrown"

Answered(cl) == cl \in refused \/ \E i \in DOMAIN sent : sent[i].cl = cl

\* Every message is answered by a report or an OrderCancelReject with its
\* ClOrdID: no handler is stuck on a symbol's mutex or drops its reports.
\* (Answers are never taken back and messages are finitely many: this is
\* cl \in DOMAIN inbound ~> Answered(cl) for each ClOrdID, and cheaper to check.)
EveryMessageAnswered == []<>(\A cl \in DOMAIN inbound : Answered(cl))
=============================================================================
