------------------------------ MODULE Exchange ------------------------------
(***************************************************************************)
(* The exchange core as the FIX handlers drive it: ExchangeApplication's   *)
(* critical sections, the OMS (src/core/oms.cpp), the matching engine and  *)
(* its order books, with one handler thread per element of Threads.        *)
(*                                                                         *)
(* A handler locks the mutex of the symbol its message names, calls        *)
(* submit_order, cancel_order or modify_order, and unlocks.  The steps     *)
(* between which other threads can interfere are actions of their own: one *)
(* iteration of match_orders, one apply_trade, one pull from a book, one   *)
(* critical section of oms_mutex_.  A thread's local variables are         *)
(* functions of the thread, and are reset when they go out of scope.       *)
(***************************************************************************)
EXTENDS OrderBook, RiskEngine

CONSTANTS
  Threads,          \* threads that run onMessage
  NoThread,         \* the holder of a mutex that is free
  Registered,       \* symbols given to register_symbol before the threads start
  risk_ctx,         \* the RiskContext every check uses
  Kinds,            \* the kinds of message the clients send, of D, F and G
  Quantities,       \* the quantities a message may carry
  NamesOwnSymbol,   \* TRUE: a cancel or replace names its order's symbol
  MaxOrders         \* bound: orders submitted in one behaviour

ASSUME ThreadsAssumption == NoThread \notin Threads
ASSUME RegisteredAssumption == Registered \subseteq Symbols
ASSUME KindsAssumption == Kinds \subseteq {"D", "F", "G"}
ASSUME QuantitiesAssumption == Quantities \subseteq Int
ASSUME NamesOwnSymbolAssumption == NamesOwnSymbol \in BOOLEAN
ASSUME MaxOrdersAssumption == MaxOrders \in Nat

VARIABLES
  next_order_id,    \* ExchangeApplication::next_order_id_
  symbol_mutexes,   \* symbol -> thread that holds its mutex
  oms_mutex,        \* thread that holds OMS::oms_mutex_
  order_states,     \* OMS::order_states_
  trades,           \* OMS::trades_
  next_trade_id,    \* OMS::next_trade_id_
  books,            \* MatchingEngine::books_: symbol -> side -> levels
  pc,               \* thread -> where its handler is
  req,              \* thread -> the message it handles
  snap,             \* thread -> `state`, copied from order_states_
  incoming,         \* thread -> `incoming` of process_order
  matched,          \* thread -> trades of this call not yet applied
  ahead             \* history, not in the code: see OrderState

shared == <<next_order_id, symbol_mutexes, oms_mutex, order_states, trades,
            next_trade_id, books, ahead>>
locals == <<pc, req, snap, incoming, matched>>
vars == <<shared, locals>>

-----------------------------------------------------------------------------
(* The shape of the state.                                                 *)

Trade ==
  [trade_id : Nat, buy_order_id : OrderId, sell_order_id : OrderId,
   price : Prices, quantity : Int]

Order ==
  [order_id : OrderId, symbol : Symbols, side : Side, price : Prices,
   quantity : Int]

\* D is NewOrderSingle, F OrderCancelRequest, G OrderCancelReplaceRequest.
Message ==
  [kind : {"D"}, order : Order]
    \cup [kind : {"F"}, order_id : OrderId, symbol : Symbols]
    \cup [kind : {"G"}, order_id : OrderId, symbol : Symbols, price : Prices,
          quantity : Quantities]

None == [none |-> TRUE]

\* A handler holds its symbol's mutex in these places only.
InCall == {"match", "apply", "pull", "cancel", "replace"}

PC == {"idle", "submit", "amend"} \cup InCall

-----------------------------------------------------------------------------
(* Helpers.                                                                *)

MessageSymbol(m) == IF m.kind = "D" THEN m.order.symbol ELSE m.symbol

\* Plausible defect: the handler goes in without the symbol's mutex.
SymbolFree_Ignored(t) == TRUE

SymbolFree(t) == symbol_mutexes[MessageSymbol(req[t])] = NoThread

\* Plausible defect: oms_mutex_ is not taken.
OmsFree_Ignored(t) == TRUE

\* Plausible defect: apply_trade locks oms_mutex_, which its caller holds.
OmsFree_NotReentrant(t) == oms_mutex = NoThread

OmsFree(t) == oms_mutex \in {NoThread, t}

Goto(t, where) == pc' = [pc EXCEPT ![t] = where]

Lock(t) == symbol_mutexes' = [symbol_mutexes EXCEPT ![MessageSymbol(req[t])] = t]

\* The handler returns: its locks and its locals are gone.
Return(t) ==
  /\ Goto(t, "idle")
  /\ symbol_mutexes' = [symbol_mutexes EXCEPT ![MessageSymbol(req[t])] = NoThread]
  /\ req' = [req EXCEPT ![t] = None]
  /\ snap' = [snap EXCEPT ![t] = None]
  /\ incoming' = [incoming EXCEPT ![t] = None]
  /\ matched' = [matched EXCEPT ![t] = <<>>]

\* Plausible defect: the order is filed under the counter, not its own id.
Insert_TakesCounter(id, st) ==
  order_states' = [x \in DOMAIN order_states \cup {next_order_id} |->
                     IF x \in DOMAIN order_states THEN order_states[x] ELSE st]

\* order_states_.insert: no effect when the id is already present.
Insert(id, st) ==
  order_states' = [x \in DOMAIN order_states \cup {id} |->
                     IF x \in DOMAIN order_states THEN order_states[x] ELSE st]

Init ==
  /\ next_order_id = 1
  /\ symbol_mutexes = [s \in Symbols |-> NoThread]
  /\ oms_mutex = NoThread
  /\ order_states = <<>>
  /\ trades = <<>>
  /\ next_trade_id = 1
  /\ books = [s \in Registered |-> [sd \in Side |-> NoLevels]]
  /\ pc = [t \in Threads |-> "idle"]
  /\ req = [t \in Threads |-> None]
  /\ snap = [t \in Threads |-> None]
  /\ incoming = [t \in Threads |-> None]
  /\ matched = [t \in Threads |-> <<>>]
  /\ ahead = {}

-----------------------------------------------------------------------------
(* NewOrderSingle.                                                         *)

\* The message arrives; under global_state_mutex_ it gets its OrderId.
ReceiveOrder(t, sym, side, price, quantity) ==
  LET order == [order_id |-> next_order_id, symbol |-> sym, side |-> side,
                price |-> price, quantity |-> quantity]
  IN  /\ "D" \in Kinds
      /\ pc[t] = "idle"
      /\ next_order_id <= MaxOrders
      /\ req' = [req EXCEPT ![t] = [kind |-> "D", order |-> order]]
      /\ next_order_id' = next_order_id + 1
      /\ Goto(t, "submit")
      /\ UNCHANGED <<symbol_mutexes, oms_mutex, order_states, trades,
                     next_trade_id, books, ahead, snap, incoming, matched>>

Acceptable(order) == order.symbol \in Registered /\ Approved(risk_ctx, order)

\* submit_order, unknown symbol or risk rejection: recorded, never booked.
SubmitRejected(t) ==
  LET order == req[t].order
  IN  /\ pc[t] = "submit"
      /\ SymbolFree(t) /\ OmsFree(t)
      /\ ~Acceptable(order)
      /\ Insert(order.order_id, NewOrderState(order, "Rejected"))
      /\ Return(t)
      /\ UNCHANGED <<next_order_id, oms_mutex, trades, next_trade_id, books, ahead>>

\* submit_order up to process_order: the order is live before it is matched.
SubmitAccepted(t) ==
  LET order == req[t].order
  IN  /\ pc[t] = "submit"
      /\ SymbolFree(t) /\ OmsFree(t)
      /\ Acceptable(order)
      /\ Insert(order.order_id, NewOrderState(order, "New"))
      /\ ahead' = Requeue(ahead, order_states, order.order_id, order.symbol)
      /\ Lock(t)
      /\ incoming' = [incoming EXCEPT ![t] = order]
      /\ Goto(t, "match")
      /\ UNCHANGED <<next_order_id, oms_mutex, trades, next_trade_id, books,
                     req, snap, matched>>

-----------------------------------------------------------------------------
(* process_order: one action per iteration of match_orders, then the rest. *)

\* The levels the order is matched against.
Against(order) == books[order.symbol][Opposite(order.side)]

\* Plausible defect: an order at the limit price itself does not trade.
CanMatch_StrictPrice(order) ==
  /\ DOMAIN Against(order) # {}
  /\ order.quantity > 0
  /\ LET best == Best(Opposite(order.side), Against(order))
     IN  best # order.price /\ AtLeastAsGood(Opposite(order.side), best, order.price)

\* The loop condition and price_check of match_orders.
CanMatch(order) ==
  /\ DOMAIN Against(order) # {}
  /\ order.quantity > 0
  /\ AtLeastAsGood(Opposite(order.side),
                   Best(Opposite(order.side), Against(order)), order.price)

\* Plausible defect: the counter is read and written back non-atomically.
TakeTradeId_Racy == next_trade_id' \in {next_trade_id, next_trade_id + 1}

\* trade_id = next_trade_id++, atomic, one counter for all books.
TakeTradeId == next_trade_id' = next_trade_id + 1

NewTrade(order, resting_id, price, quantity) ==
  [trade_id      |-> next_trade_id,
   buy_order_id  |-> IF order.side = "Buy" THEN order.order_id ELSE resting_id,
   sell_order_id |-> IF order.side = "Buy" THEN resting_id ELSE order.order_id,
   price         |-> price,
   quantity      |-> quantity]

MatchOne(t) ==
  LET order   == incoming[t]
      side    == Opposite(order.side)
      best    == Best(side, Against(order))
      resting == Against(order)[best][1]
      traded  == IF order.quantity <= resting.quantity
                   THEN order.quantity ELSE resting.quantity
  IN  /\ pc[t] = "match"
      /\ CanMatch(order)
      /\ TakeTradeId
      /\ matched' = [matched EXCEPT ![t] =
                       Append(@, NewTrade(order, resting.order_id, best, traded))]
      /\ incoming' = [incoming EXCEPT ![t].quantity = @ - traded]
      /\ books' = [books EXCEPT ![order.symbol][side] = TakeFront(@, best, traded)]
      /\ UNCHANGED <<next_order_id, symbol_mutexes, oms_mutex, order_states,
                     trades, ahead, pc, req, snap>>

\* Plausible defect: an order without shares rests too.
RestRemainder_Empty(order) ==
  books' = [books EXCEPT ![order.symbol][order.side] =
              Rest(@, order.price, [order_id |-> order.order_id,
                                    quantity |-> order.quantity])]

\* Shares left over rest at the order's own price.
RestRemainder(order) ==
  books' = IF order.quantity > 0
             THEN [books EXCEPT ![order.symbol][order.side] =
                     Rest(@, order.price, [order_id |-> order.order_id,
                                           quantity |-> order.quantity])]
             ELSE books

\* process_order returns no trade: nothing to apply, the call is over.
MatchedNothing(t) ==
  /\ pc[t] = "match"
  /\ ~CanMatch(incoming[t])
  /\ matched[t] = <<>>
  /\ RestRemainder(incoming[t])
  /\ Return(t)
  /\ UNCHANGED <<next_order_id, oms_mutex, order_states, trades, next_trade_id, ahead>>

\* process_order returns trades: they are applied next.
MatchedSome(t) ==
  /\ pc[t] = "match"
  /\ ~CanMatch(incoming[t])
  /\ matched[t] # <<>>
  /\ RestRemainder(incoming[t])
  /\ Goto(t, "apply")
  /\ UNCHANGED <<next_order_id, symbol_mutexes, oms_mutex, order_states, trades,
                 next_trade_id, ahead, req, snap, incoming, matched>>

-----------------------------------------------------------------------------
(* apply_trade, for each trade of the call under one hold of oms_mutex_.   *)

AfterFill(st, quantity) ==
  [st EXCEPT !.filled_quantity = @ + quantity,
             !.order_status    = IF st.original_quantity - (st.filled_quantity + quantity) = 0
                                   THEN "Filled" ELSE "Partial_Filled"]

\* Plausible defect: only the buyer's order state is updated.
Apply_BuySideOnly(trade) ==
  /\ order_states' = [order_states EXCEPT
       ![trade.buy_order_id] = AfterFill(@, trade.quantity)]
  /\ trades' = Append(trades, trade)

Apply(trade) ==
  /\ order_states' = [order_states EXCEPT
       ![trade.buy_order_id]  = AfterFill(@, trade.quantity),
       ![trade.sell_order_id] = AfterFill(@, trade.quantity)]
  /\ trades' = Append(trades, trade)

ApplyTrade(t) ==
  /\ pc[t] = "apply"
  /\ OmsFree(t)
  /\ Apply(matched[t][1])
  /\ Len(matched[t]) > 1
  /\ matched' = [matched EXCEPT ![t] = Tail(@)]
  /\ oms_mutex' = t
  /\ UNCHANGED <<next_order_id, symbol_mutexes, next_trade_id, books, ahead,
                 pc, req, snap, incoming>>

\* The last trade of the call: both mutexes are released.
ApplyLastTrade(t) ==
  /\ pc[t] = "apply"
  /\ OmsFree(t)
  /\ Apply(matched[t][1])
  /\ Len(matched[t]) = 1
  /\ oms_mutex' = NoThread
  /\ Return(t)
  /\ UNCHANGED <<next_order_id, next_trade_id, books, ahead>>

-----------------------------------------------------------------------------
(* OrderCancelRequest and OrderCancelReplaceRequest.                       *)

\* A cancel or replace arrives for an order the OMS knows.  Every client in
\* apps/ names that order's symbol; the handler does not check that it does.
ReceiveAmend(t, message) ==
  /\ message.kind \in Kinds
  /\ pc[t] = "idle"
  /\ message.order_id \in DOMAIN order_states
  /\ NamesOwnSymbol => message.symbol = order_states[message.order_id].symbol
  /\ req' = [req EXCEPT ![t] = message]
  /\ Goto(t, "amend")
  /\ UNCHANGED <<shared, snap, incoming, matched>>

\* Plausible defect: a Filled order may still be cancelled or replaced.
MayAmend_ForgetsFilled(st) == st.order_status \notin {"Cancelled", "Rejected"}

MayAmend(st) == ~is_terminal(st)

\* "Order already in terminal state": a reject is sent, nothing changes.
AmendRefused(t) ==
  /\ pc[t] = "amend"
  /\ SymbolFree(t) /\ OmsFree(t)
  /\ ~MayAmend(order_states[req[t].order_id])
  /\ Return(t)
  /\ UNCHANGED <<next_order_id, oms_mutex, order_states, trades, next_trade_id,
                 books, ahead>>

\* cancel_order and modify_order copy the order's state first.
AmendStarted(t) ==
  /\ pc[t] = "amend"
  /\ SymbolFree(t) /\ OmsFree(t)
  /\ MayAmend(order_states[req[t].order_id])
  /\ snap' = [snap EXCEPT ![t] = order_states[req[t].order_id]]
  /\ Lock(t)
  /\ Goto(t, "pull")
  /\ UNCHANGED <<next_order_id, oms_mutex, order_states, trades, next_trade_id,
                 books, ahead, req, incoming, matched>>

\* Then they take what rests of it off its book, at the copied price.
Pull(t) ==
  /\ pc[t] = "pull"
  /\ books' = [books EXCEPT ![snap[t].symbol][snap[t].side] =
                  CancelFromLevel(@, snap[t].price, req[t].order_id)]
  /\ Goto(t, IF req[t].kind = "F" THEN "cancel" ELSE "replace")
  /\ UNCHANGED <<next_order_id, symbol_mutexes, oms_mutex, order_states, trades,
                 next_trade_id, ahead, req, snap, incoming, matched>>

MarkCancelled(id) ==
  order_states' = [order_states EXCEPT ![id].order_status = "Cancelled"]

\* The last critical section of cancel_order.
CancelDone(t) ==
  /\ pc[t] = "cancel"
  /\ OmsFree(t)
  /\ MarkCancelled(req[t].order_id)
  /\ Return(t)
  /\ UNCHANGED <<next_order_id, oms_mutex, trades, next_trade_id, books, ahead>>

\* Plausible defect: shares already filled are ordered again.
Revised_WholeQuantity(t) ==
  [order_id |-> req[t].order_id, symbol |-> snap[t].symbol, side |-> snap[t].side,
   price |-> req[t].price, quantity |-> req[t].quantity]

\* `revised`: the new quantity less the shares already filled.
Revised(t) ==
  [order_id |-> req[t].order_id, symbol |-> snap[t].symbol, side |-> snap[t].side,
   price |-> req[t].price, quantity |-> req[t].quantity - snap[t].filled_quantity]

\* Plausible defect: the revised order is not checked again.
Replaceable_NoRiskCheck(order) == order.quantity > 0

Replaceable(order) == order.quantity > 0 /\ Approved(risk_ctx, order)

\* modify_order: nothing left to trade, or risk rejects the revised order.
ReplaceAbandoned(t) ==
  /\ pc[t] = "replace"
  /\ OmsFree(t)
  /\ ~Replaceable(Revised(t))
  /\ MarkCancelled(req[t].order_id)
  /\ Return(t)
  /\ UNCHANGED <<next_order_id, oms_mutex, trades, next_trade_id, books, ahead>>

\* The new terms; what was filled stays filled.
Renewed(st, price, quantity) ==
  [st EXCEPT !.price = price, !.original_quantity = quantity, !.order_status = "New"]

\* modify_order: commit the new terms, then match the revised order.
ReplaceCommitted(t) ==
  LET id == req[t].order_id
  IN  /\ pc[t] = "replace"
      /\ OmsFree(t)
      /\ Replaceable(Revised(t))
      /\ order_states' = [order_states EXCEPT
                            ![id] = Renewed(@, req[t].price, req[t].quantity)]
      /\ ahead' = Requeue(ahead, order_states, id, snap[t].symbol)
      /\ incoming' = [incoming EXCEPT ![t] = Revised(t)]
      /\ Goto(t, "match")
      /\ UNCHANGED <<next_order_id, symbol_mutexes, oms_mutex, trades,
                     next_trade_id, books, req, snap, matched>>

-----------------------------------------------------------------------------
(* The specification.                                                      *)

Receive(t) ==
  \/ \E sym \in Symbols, side \in Side, price \in Prices, quantity \in Quantities :
       ReceiveOrder(t, sym, side, price, quantity)
  \/ \E id \in DOMAIN order_states, sym \in Symbols :
       ReceiveAmend(t, [kind |-> "F", order_id |-> id, symbol |-> sym])
  \/ \E id \in DOMAIN order_states, sym \in Symbols, price \in Prices,
        quantity \in Quantities :
       ReceiveAmend(t, [kind |-> "G", order_id |-> id, symbol |-> sym,
                        price |-> price, quantity |-> quantity])

\* A handler's first step, which waits for its symbol's mutex.
Enter(t) ==
  SubmitRejected(t) \/ SubmitAccepted(t) \/ AmendRefused(t) \/ AmendStarted(t)

\* A handler's later steps, taken while it holds the mutex.
Continue(t) ==
  \/ MatchOne(t) \/ MatchedNothing(t) \/ MatchedSome(t)
  \/ ApplyTrade(t) \/ ApplyLastTrade(t)
  \/ Pull(t) \/ CancelDone(t) \/ ReplaceAbandoned(t) \/ ReplaceCommitted(t)

Next == \E t \in Threads : Receive(t) \/ Enter(t) \/ Continue(t)

Spec == Init /\ [][Next]_vars

\* The operating system runs every thread that is ready to run.  Nothing is
\* assumed of which waiter std::mutex lets in.
FairSpec == Spec /\ \A t \in Threads : WF_vars(Continue(t))

-----------------------------------------------------------------------------
(* Properties.                                                             *)

OmsTypeOK ==
  /\ next_order_id \in OrderId
  /\ DOMAIN order_states \subseteq 1..(next_order_id - 1)
  /\ order_states \in [DOMAIN order_states -> OrderStates]
  /\ trades \in Seq(Trade)
  /\ next_trade_id \in Nat

BooksTypeOK ==
  /\ DOMAIN books = Registered
  /\ \A s \in Registered :
       /\ books[s] \in [Side -> {books[s][sd] : sd \in Side}]
       /\ \A sd \in Side : IsLevels(books[s][sd])

ThreadsTypeOK ==
  /\ symbol_mutexes \in [Symbols -> Threads \cup {NoThread}]
  /\ oms_mutex \in Threads \cup {NoThread}
  /\ pc \in [Threads -> PC]
  /\ req \in [Threads -> Message \cup {None}]
  /\ snap \in [Threads -> OrderStates \cup {None}]
  /\ incoming \in [Threads -> Order \cup {None}]
  /\ matched \in [Threads -> Seq(Trade)]

\* Every variable has its type.
TypeOK == OmsTypeOK /\ BooksTypeOK /\ ThreadsTypeOK

\* The places of the books of symbol s where an order rests.
Places(s) ==
  UNION {UNION {{<<sd, p, i>> : i \in DOMAIN books[s][sd][p]} :
                  p \in DOMAIN books[s][sd]} : sd \in Side}

EntryAt(s, place) == books[s][place[1]][place[2]][place[3]]

\* Between two calls on a symbol its books and the OMS agree: each open order
\* rests in exactly one place, on its side, at its price and for its remaining
\* shares, and nothing else rests.  match_orders, apply_trade, cancel_order and
\* modify_order each update one half only.
BookMirrorsOrders ==
  \A s \in Registered : symbol_mutexes[s] = NoThread =>
    /\ \A place \in Places(s) :
         LET entry == EntryAt(s, place)
             st    == order_states[entry.order_id]
         IN  /\ entry.order_id \in DOMAIN order_states
             /\ IsOpen(st)
             /\ <<st.symbol, st.side, st.price>> = <<s, place[1], place[2]>>
             /\ entry.quantity = remaining_quantity(st)
    /\ \A id \in DOMAIN order_states :
         order_states[id].symbol = s /\ IsOpen(order_states[id]) =>
           Cardinality({pl \in Places(s) : EntryAt(s, pl).order_id = id}) = 1

\* A level of a book is erased with its last order: match_orders takes front()
\* of a level's queue unchecked, even in the middle of a call.
LevelsNonEmpty ==
  \A s \in Registered, sd \in Side :
    \A p \in DOMAIN books[s][sd] : books[s][sd][p] # <<>>

\* Between two calls on a symbol its best bid is below its best ask:
\* match_orders has not stopped early.
Uncrossed ==
  \A s \in Registered : symbol_mutexes[s] = NoThread =>
    \A bid \in DOMAIN books[s]["Buy"], ask \in DOMAIN books[s]["Sell"] : bid < ask

\* An order's fills are within its quantity and agree with its status.
WithinOrder(st) ==
  /\ st.filled_quantity >= 0
  /\ st.filled_quantity > 0 => st.filled_quantity <= st.original_quantity
  /\ st.order_status = "Filled" =>
       st.filled_quantity = st.original_quantity /\ st.filled_quantity > 0
  /\ st.order_status = "Partial_Filled" =>
       0 < st.filled_quantity /\ st.filled_quantity < st.original_quantity
  /\ st.order_status = "Rejected" => st.filled_quantity = 0

\* No order trades more than it asked for, over any sequence of partial fills
\* and replaces, and its status agrees with its fills.
FillsWithinOrder == \A id \in DOMAIN order_states : WithinOrder(order_states[id])

\* The shares of a trade that order id bought or sold: its execution there.
ExecutedIn(trade, id) ==
  IF id \in {trade.buy_order_id, trade.sell_order_id} THEN trade.quantity ELSE 0

\* The total of order id's executions in the first n trades of the log.
ExecutedUpTo(log, id) ==
  LET total[n \in 0..Len(log)] ==
        IF n = 0 THEN 0 ELSE total[n - 1] + ExecutedIn(log[n], id)
  IN  total

\* An order's filled_quantity is the total of its executions, replaces included.
FilledIsExecuted ==
  \A id \in DOMAIN order_states :
    order_states[id].filled_quantity = ExecutedUpTo(trades, id)[Len(trades)]

\* No two trades share a trade id, across symbols and including trades that
\* are matched and not yet applied.
TradeIdsUnique ==
  /\ \A i, j \in DOMAIN trades : i # j => trades[i].trade_id # trades[j].trade_id
  /\ \A t \in Threads : \A i \in DOMAIN matched[t], j \in DOMAIN trades :
       matched[t][i].trade_id # trades[j].trade_id
  /\ \A t, u \in Threads : \A i \in DOMAIN matched[t], j \in DOMAIN matched[u] :
       <<t, i>> # <<u, j>> => matched[t][i].trade_id # matched[u][j].trade_id

\* The OMS knows order id, as one for this side of this symbol's book.
Belongs(id, s, sd) ==
  /\ id \in DOMAIN order_states
  /\ order_states[id].symbol = s
  /\ order_states[id].side = sd

PairsSides(trade) ==
  \E s \in Registered :
    Belongs(trade.buy_order_id, s, "Buy") /\ Belongs(trade.sell_order_id, s, "Sell")

\* Every trade, applied or still to be applied, is between a buy and a sell
\* order of one registered symbol that the OMS knows, and so would be the next
\* one from any book: the order_states_.at of apply_trade never throws.
TradesPairSides ==
  /\ \A i \in DOMAIN trades : PairsSides(trades[i])
  /\ \A t \in Threads : \A i \in DOMAIN matched[t] : PairsSides(matched[t][i])
  /\ \A s \in Registered : \A place \in Places(s) :
       Belongs(EntryAt(s, place).order_id, s, place[1])

\* A thread that works on a symbol's orders holds that symbol's mutex, so no
\* two threads ever touch the same book.
LockCoversBook ==
  \A t \in Threads :
    /\ pc[t] \in {"match", "apply"} => symbol_mutexes[incoming[t].symbol] = t
    /\ pc[t] \in {"pull", "cancel", "replace"} => symbol_mutexes[snap[t].symbol] = t

\* Whatever rests in a book would still pass every risk check at its price and
\* for the shares that rest, after any partial fills and replaces: no path
\* into a book avoids check_order, and a fill never makes an order worse.
BookedWithinLimits ==
  \A s \in Registered : \A place \in Places(s) :
    Approved(risk_ctx, [symbol |-> s, price |-> place[2],
                        quantity |-> EntryAt(s, place).quantity])

\* A Filled, Cancelled or Rejected order never changes again: no late fill,
\* cancel or replace reaches it.
TerminalIsFinal ==
  [][\A id \in DOMAIN order_states :
       is_terminal(order_states[id]) => order_states'[id] = order_states[id]]_vars

\* While a call's trades are half applied, no other thread changes the OMS:
\* get_trades and get_order_state see whole calls.
BatchesAtomic ==
  [][\A t \in Threads :
       oms_mutex = t /\ matched'[t] = matched[t] =>
         UNCHANGED <<order_states, trades>>]_vars

\* A handler inside its critical section always leaves it: no two handlers
\* wait for each other on symbol mutexes and oms_mutex_.
CriticalSectionsEnd ==
  \A s \in Symbols : symbol_mutexes[s] # NoThread ~> symbol_mutexes[s] = NoThread

\* The tape as the market sees it.
TapeOf(log) ==
  [i \in DOMAIN log |-> [buy_order_id  |-> log[i].buy_order_id,
                         sell_order_id |-> log[i].sell_order_id,
                         price         |-> log[i].price,
                         quantity      |-> log[i].quantity]]

M == INSTANCE Market WITH
       OrderIds <- 1..MaxOrders, orders <- order_states, tape <- TapeOf(trades)

\* The threads, locks and books implement a market that serves one request at
\* a time per symbol in price-time priority.
ImplementsMarket == M!Spec

\* And orders that cross do trade.
ImplementsFairMarket == M!FairSpec

-----------------------------------------------------------------------------
(* The inductive invariant from which Exchange_proofs derives TypeOK,      *)
(* LevelsNonEmpty, TradesPairSides and LockCoversBook.                     *)

Booked(s, sd) == {e \in Entry : Belongs(e.order_id, s, sd)}

BooksTidy ==
  \A s \in Registered, sd \in Side : Tidy(books[s][sd], Booked(s, sd))

PairTrade == {trade \in Trade : PairsSides(trade)}

TradesTidy ==
  trades \in Seq(PairTrade) /\ \A t \in Threads : matched[t] \in Seq(PairTrade)

\* Only orders of registered symbols are ever live.
LiveRegistered ==
  \A id \in DOMAIN order_states :
    ~is_terminal(order_states[id]) => order_states[id].symbol \in Registered

\* What the locals of thread t hold, place by place.
HandlerOK(t) ==
  /\ pc[t] = "submit" =>
       /\ req[t] \in [kind : {"D"}, order : Order]
       /\ req[t].order.order_id < next_order_id
  /\ pc[t] \in {"amend", "pull", "cancel", "replace"} =>
       /\ req[t] \in Message /\ req[t].kind # "D"
       /\ req[t].order_id \in DOMAIN order_states
  /\ pc[t] \in {"pull", "cancel", "replace"} =>
       /\ snap[t] \in OrderStates
       /\ snap[t].symbol \in Registered
       /\ Belongs(req[t].order_id, snap[t].symbol, snap[t].side)
  /\ pc[t] \in {"cancel", "replace"} => (pc[t] = "replace" <=> req[t].kind = "G")
  /\ pc[t] \in {"match", "apply"} =>
       /\ incoming[t] \in Order
       /\ incoming[t].symbol \in Registered
       /\ Belongs(incoming[t].order_id, incoming[t].symbol, incoming[t].side)
  /\ pc[t] = "apply" => matched[t] # <<>>

\* A handler past its first step holds the mutex of the symbol it works on.
LockHeld(t) ==
  /\ pc[t] \in InCall =>
       MessageSymbol(req[t]) \in Symbols /\ symbol_mutexes[MessageSymbol(req[t])] = t
  /\ pc[t] = "amend" => req[t].symbol = order_states[req[t].order_id].symbol
  /\ pc[t] \in {"match", "apply"} => incoming[t].symbol = MessageSymbol(req[t])
  /\ pc[t] \in {"pull", "cancel", "replace"} => snap[t].symbol = MessageSymbol(req[t])

\* An order on its way to the OMS has an id that no other order has.
SubmitsFresh ==
  \A t \in Threads : pc[t] = "submit" =>
    /\ req[t].order.order_id \notin DOMAIN order_states
    /\ \A u \in Threads \ {t} : pc[u] = "submit" =>
         req[u].order.order_id # req[t].order.order_id

CoreInv ==
  /\ TypeOK
  /\ BooksTidy
  /\ TradesTidy
  /\ LiveRegistered
  /\ SubmitsFresh
  /\ \A t \in Threads : HandlerOK(t)

\* Shares that may rest at price p of a book of symbol s: some, and none that
\* the risk engine would refuse there.
MayRest(s, p, quantity) ==
  /\ quantity > 0
  /\ Approved(risk_ctx, [symbol |-> s, price |-> p, quantity |-> quantity])

\* Every bid of a book is below every ask of it, also while it is matched.
NoCross ==
  \A s \in Registered :
    \A bid \in DOMAIN books[s]["Buy"], ask \in DOMAIN books[s]["Sell"] : bid < ask

\* Whatever rests may rest, and so may what a call in match_orders has left.
RestsApproved ==
  /\ \A s \in Registered, sd \in Side :
       \A p \in DOMAIN books[s][sd] : \A i \in DOMAIN books[s][sd][p] :
         MayRest(s, p, books[s][sd][p][i].quantity)
  /\ \A t \in Threads : pc[t] = "match" =>
       LET order == incoming[t]
       IN  order.quantity > 0 => MayRest(order.symbol, order.price, order.quantity)

\* oms_mutex_ is held between two steps only while trades are applied.
BatchOwner == \A t \in Threads : oms_mutex = t => pc[t] = "apply"

\* From these Exchange_proofs derives Uncrossed, BookedWithinLimits, BatchesAtomic.
BooksSafe == NoCross /\ RestsApproved /\ BatchOwner

LocksHeld == \A t \in Threads : LockHeld(t)

\* TypeOK and what makes it inductive, and, when clients name their orders'
\* own symbols, what the per-symbol mutexes protect.
IndInv ==
  /\ CoreInv
  /\ NamesOwnSymbol => LocksHeld
=============================================================================
