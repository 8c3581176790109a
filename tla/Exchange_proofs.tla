--------------------------- MODULE Exchange_proofs ---------------------------
(***************************************************************************)
(* Invariants of Exchange for every set of symbols, prices, quantities and *)
(* threads, every RiskContext and any number of orders.  IndInv is shown   *)
(* to be inductive, one action at a time; the theorems at the end are its  *)
(* consequences.  Then what the books keep whatever symbols cancels and    *)
(* replaces name: they are never crossed, and nothing rests that the risk  *)
(* engine would refuse; what oms_mutex_ keeps: calls reach the OMS whole;  *)
(* and that the books' one counter of trade ids gives each trade its own.  *)
(***************************************************************************)
EXTENDS Exchange, Operators_proofs

-----------------------------------------------------------------------------
(* What an action may do to the OMS's records.                             *)

\* No order is forgotten or moved to another symbol or side.
StatesKept ==
  \A id \in DOMAIN order_states :
    /\ id \in DOMAIN order_states'
    /\ order_states'[id].symbol = order_states[id].symbol
    /\ order_states'[id].side = order_states[id].side

\* An order's symbol and side outlive every step that keeps the states.
LEMMA StillBelongs ==
  ASSUME StatesKept, NEW id, NEW s, NEW sd, Belongs(id, s, sd)
  PROVE  Belongs(id, s, sd)'
BY DEF StatesKept, Belongs

\* What may rest on a side of a book may rest there afterwards.
LEMMA StillBooked ==
  ASSUME StatesKept, NEW s, NEW sd
  PROVE  Booked(s, sd) \subseteq Booked(s, sd)'
BY StillBelongs DEF Booked

\* A trade that pairs two sides of a symbol still does afterwards.
LEMMA StillPairTrade ==
  ASSUME StatesKept
  PROVE  PairTrade \subseteq PairTrade'
BY StillBelongs DEF PairTrade, PairsSides

\* A sequence over a set is one over any larger set.
LEMMA SeqInLarger ==
  ASSUME NEW S, NEW T, S \subseteq T, NEW q \in Seq(S)
  PROVE  q \in Seq(T)
BY \A i \in 1..Len(q) : q[i] \in T

\* A sequence of two or more has a non-empty tail over the same set.
LEMMA TailProperly ==
  ASSUME NEW S, NEW q \in Seq(S), Len(q) > 1
  PROVE  Tail(q) \in Seq(S) /\ Tail(q) # <<>>
<1>1. Tail(q) \in Seq(S) /\ Len(Tail(q)) = Len(q) - 1
  OBVIOUS
<1>2. Len(Tail(q)) # 0 /\ Len(<<>>) = 0
  BY <1>1
<1> QED BY <1>1, <1>2, Zenon

\* Trades that do not move stay tidy.
LEMMA StillTradesTidy ==
  ASSUME StatesKept, TradesTidy, UNCHANGED trades, UNCHANGED matched
  PROVE  TradesTidy'
BY StillPairTrade, SeqInLarger DEF TradesTidy

\* Books that do not move stay tidy.
LEMMA StillBooksTidy ==
  ASSUME StatesKept, BooksTidy, UNCHANGED books
  PROVE  BooksTidy'
BY StillBooked, TidyInLarger DEF BooksTidy

\* The locals of a thread that does not move stay right.
LEMMA StillHandlerOK ==
  ASSUME StatesKept, TypeOK, NEW u \in Threads, HandlerOK(u),
         pc'[u] = pc[u], req'[u] = req[u], snap'[u] = snap[u],
         incoming'[u] = incoming[u], matched'[u] = matched[u],
         next_order_id' \in Int, next_order_id <= next_order_id'
  PROVE  HandlerOK(u)'
<1>1. pc[u] = "submit" => (req[u].order.order_id < next_order_id)'
  BY DEF HandlerOK, TypeOK, OmsTypeOK, Order, OrderId
<1>2. \A id \in DOMAIN order_states : id \in DOMAIN order_states'
  BY DEF StatesKept
<1> QED BY <1>1, <1>2, StillBelongs DEF HandlerOK

\* A step of thread t leaves the locals of all others in order.
LEMMA StillOthers ==
  ASSUME StatesKept, CoreInv, NEW t \in Threads,
         next_order_id' \in Int, next_order_id <= next_order_id',
         \A u \in Threads \ {t} :
           /\ pc'[u] = pc[u] /\ req'[u] = req[u] /\ snap'[u] = snap[u]
           /\ incoming'[u] = incoming[u] /\ matched'[u] = matched[u],
         HandlerOK(t)'
  PROVE  \A u \in Threads : HandlerOK(u)'
BY StillHandlerOK DEF CoreInv

\* One side of one book is replaced by tidy levels.
LEMMA OneBookMoved ==
  ASSUME StatesKept, BooksTypeOK, BooksTidy, NEW s \in Registered, NEW sd \in Side,
         NEW levels, Tidy(levels, Booked(s, sd)'),
         books' = [books EXCEPT ![s][sd] = levels]
  PROVE  BooksTypeOK' /\ BooksTidy'
<1>1. \A r \in Registered, d \in Side :
        books'[r][d] = IF r = s /\ d = sd THEN levels ELSE books[r][d]
  BY DEF BooksTypeOK
<1>2. ASSUME NEW r \in Registered, NEW d \in Side
      PROVE  Tidy(books'[r][d], Booked(r, d)')
  <2>1. Tidy(books[r][d], Booked(r, d)')
    BY StillBooked, TidyInLarger DEF BooksTidy
  <2> QED BY <1>1, <2>1
<1>3. DOMAIN books' = Registered
  BY DEF BooksTypeOK
<1>4. ASSUME NEW r \in Registered
      PROVE  books'[r] \in [Side -> {books'[r][d] : d \in Side}]
  BY DEF BooksTypeOK
<1>5. ASSUME NEW r \in Registered, NEW d \in Side PROVE IsLevels(books'[r][d])
  <2>1. Booked(r, d)' \subseteq Entry
    BY DEF Booked
  <2>2. Tidy(books'[r][d], Entry)
    BY <1>2, <2>1, TidyInLarger
  <2> QED BY <2>2 DEF Tidy, IsLevels
<1> QED BY <1>2, <1>3, <1>4, <1>5 DEF BooksTypeOK, BooksTidy

\* Books that do not move keep their type and stay tidy.
LEMMA BooksUnmoved ==
  ASSUME StatesKept, BooksTypeOK, BooksTidy, UNCHANGED books
  PROVE  BooksTypeOK' /\ BooksTidy'
BY StillBooksTidy DEF BooksTypeOK

\* A handler that returns leaves every thread's locals right.
LEMMA ReturnKeeps ==
  ASSUME StatesKept, CoreInv, NEW t \in Threads, Return(t), UNCHANGED next_order_id,
         oms_mutex' \in {oms_mutex, NoThread}
  PROVE  /\ ThreadsTypeOK'
         /\ \A u \in Threads : HandlerOK(u)'
         /\ \A u \in Threads : matched'[u] \in Seq(PairTrade')
<1>a. ThreadsTypeOK /\ OmsTypeOK
  BY DEF CoreInv, TypeOK
<1>1. ThreadsTypeOK'
  <2>1. symbol_mutexes' \in [Symbols -> Threads \cup {NoThread}]
    BY <1>a DEF Return, ThreadsTypeOK
  <2>2. oms_mutex' \in Threads \cup {NoThread}
    BY <1>a DEF ThreadsTypeOK
  <2>3. pc' \in [Threads -> PC]
    BY <1>a DEF Return, Goto, ThreadsTypeOK, PC
  <2>4. /\ req' \in [Threads -> Message \cup {None}]
        /\ snap' \in [Threads -> OrderStates \cup {None}]
        /\ incoming' \in [Threads -> Order \cup {None}]
        /\ matched' \in [Threads -> Seq(Trade)]
    BY <1>a DEF Return, ThreadsTypeOK
  <2> QED BY <2>1, <2>2, <2>3, <2>4 DEF ThreadsTypeOK
<1>2. HandlerOK(t)'
  <2>1. pc'[t] = "idle"
    BY <1>a DEF Return, Goto, ThreadsTypeOK
  <2> QED BY <2>1 DEF HandlerOK
<1>3. \A u \in Threads : HandlerOK(u)'
  <2>1. next_order_id' \in Int /\ next_order_id <= next_order_id'
    BY <1>a DEF OmsTypeOK, OrderId
  <2>2. \A u \in Threads \ {t} :
          /\ pc'[u] = pc[u] /\ req'[u] = req[u] /\ snap'[u] = snap[u]
          /\ incoming'[u] = incoming[u] /\ matched'[u] = matched[u]
    BY <1>a DEF Return, Goto, ThreadsTypeOK
  <2> QED BY <1>2, <2>1, <2>2, StillOthers
<1>4. ASSUME NEW u \in Threads PROVE matched'[u] \in Seq(PairTrade')
  <2>1. matched'[u] = IF u = t THEN <<>> ELSE matched[u]
    BY DEF Return, CoreInv, TypeOK, ThreadsTypeOK
  <2>2. matched[u] \in Seq(PairTrade')
    BY StillPairTrade, SeqInLarger DEF CoreInv, TradesTidy
  <2> QED BY <2>1, <2>2
<1> QED BY <1>1, <1>3, <1>4

-----------------------------------------------------------------------------
(* The actions that change the OMS's records keep them.                    *)

\* A step that leaves the OMS alone keeps the states.
LEMMA UnchangedKept ==
  ASSUME UNCHANGED order_states
  PROVE  StatesKept
BY DEF StatesKept

\* Inserting an order keeps the states of the others.
LEMMA InsertKept ==
  ASSUME NEW id, NEW st, Insert(id, st)
  PROVE  StatesKept
BY DEF StatesKept, Insert

\* Cancelling keeps every order's symbol and side.
LEMMA MarkCancelledKept ==
  ASSUME OmsTypeOK, NEW id \in DOMAIN order_states, MarkCancelled(id)
  PROVE  /\ StatesKept
         /\ DOMAIN order_states' = DOMAIN order_states
         /\ order_states' \in [DOMAIN order_states' -> OrderStates]
         /\ \A x \in DOMAIN order_states :
              x # id => order_states'[x] = order_states[x]
         /\ order_states'[id].order_status = "Cancelled"
BY DEF StatesKept, MarkCancelled, OmsTypeOK, OrderStates, OrderStatus

\* A fill keeps the type and the terms of an order state.
LEMMA AfterFillType ==
  ASSUME NEW st \in OrderStates, NEW quantity \in Int
  PROVE  LET new == AfterFill(st, quantity)
         IN  /\ new \in OrderStates
             /\ new.symbol = st.symbol /\ new.side = st.side /\ new.price = st.price
             /\ new.original_quantity = st.original_quantity
             /\ new.filled_quantity = st.filled_quantity + quantity
             /\ new.order_status = IF new.original_quantity - new.filled_quantity = 0
                                     THEN "Filled" ELSE "Partial_Filled"
<1> DEFINE filled == st.filled_quantity + quantity
           status == IF st.original_quantity - (st.filled_quantity + quantity) = 0
                       THEN "Filled" ELSE "Partial_Filled"
           halfway == [symbol |-> st.symbol, side |-> st.side, price |-> st.price,
                       original_quantity |-> st.original_quantity,
                       filled_quantity |-> filled, order_status |-> st.order_status]
           done == [symbol |-> st.symbol, side |-> st.side, price |-> st.price,
                    original_quantity |-> st.original_quantity,
                    filled_quantity |-> filled, order_status |-> status]
<1>1. [st EXCEPT !.filled_quantity = @ + quantity] = halfway
  BY DEF OrderStates
<1>2. [halfway EXCEPT !.order_status = status] = done
  OBVIOUS
<1>3. AfterFill(st, quantity)
        = [[st EXCEPT !.filled_quantity = @ + quantity] EXCEPT !.order_status = status]
  BY Zenon DEF AfterFill
<1>4. AfterFill(st, quantity) = done
  BY <1>1, <1>2, <1>3, Zenon
<1>5. filled \in Int /\ status \in OrderStatus
  BY DEF OrderStates, OrderStatus
<1> QED BY <1>4, <1>5 DEF OrderStates

\* Applying a trade keeps the states and their type.
LEMMA ApplyKept ==
  ASSUME OmsTypeOK, LiveRegistered, NEW trade \in PairTrade, Apply(trade)
  PROVE  /\ StatesKept
         /\ DOMAIN order_states' = DOMAIN order_states
         /\ order_states' \in [DOMAIN order_states' -> OrderStates]
         /\ LiveRegistered'
         /\ \A id \in DOMAIN order_states :
              order_states'[id] = IF id \in {trade.buy_order_id, trade.sell_order_id}
                                    THEN AfterFill(order_states[id], trade.quantity)
                                    ELSE order_states[id]
<1> DEFINE buy == trade.buy_order_id
           sell == trade.sell_order_id
           half == [order_states EXCEPT ![buy] = AfterFill(@, trade.quantity)]
           both == [half EXCEPT ![sell] = AfterFill(order_states[sell], trade.quantity)]
<1>1. PICK s \in Registered : Belongs(buy, s, "Buy") /\ Belongs(sell, s, "Sell")
  BY DEF PairTrade, PairsSides
<1>2. trade.quantity \in Int
  BY DEF PairTrade, Trade
<1>3. order_states' = both
  BY Zenon DEF Apply
<1>4. buy # sell
  BY <1>1 DEF Belongs
<1>5. \A id \in DOMAIN order_states : order_states[id] \in OrderStates
  BY DEF OmsTypeOK
<1>6. DOMAIN half = DOMAIN order_states
  OBVIOUS
<1>7. DOMAIN order_states' = DOMAIN order_states
  BY <1>3, <1>6
<1>8. \A id \in DOMAIN order_states :
        order_states'[id] = IF id \in {buy, sell}
                              THEN AfterFill(order_states[id], trade.quantity)
                              ELSE order_states[id]
  BY <1>1, <1>3, <1>4 DEF Belongs, OmsTypeOK
<1>9. \A id \in DOMAIN order_states :
        /\ order_states'[id] \in OrderStates
        /\ order_states'[id].symbol = order_states[id].symbol
        /\ order_states'[id].side = order_states[id].side
  BY <1>2, <1>5, <1>8, AfterFillType
<1>10. StatesKept
  BY <1>7, <1>9 DEF StatesKept
<1>11. order_states' \in [DOMAIN order_states' -> OrderStates]
  <2>1. \A id \in DOMAIN order_states' : order_states'[id] \in OrderStates
    BY <1>7, <1>9
  <2>2. both = [id \in DOMAIN both |-> both[id]]
    OBVIOUS
  <2> QED BY <1>3, <2>1, <2>2
<1>12. \A id \in {buy, sell} : order_states[id].symbol \in Registered
  BY <1>1 DEF Belongs
<1>13. LiveRegistered'
  BY <1>7, <1>8, <1>9, <1>12 DEF LiveRegistered
<1> QED BY <1>7, <1>8, <1>10, <1>11, <1>13

\* New terms keep the type, symbol and side of an order state.
LEMMA RenewedType ==
  ASSUME NEW st \in OrderStates, NEW price \in Prices, NEW quantity \in Int
  PROVE  /\ Renewed(st, price, quantity) \in OrderStates
         /\ Renewed(st, price, quantity).symbol = st.symbol
         /\ Renewed(st, price, quantity).side = st.side
<1> DEFINE priced == [symbol |-> st.symbol, side |-> st.side, price |-> price,
                      original_quantity |-> st.original_quantity,
                      filled_quantity |-> st.filled_quantity,
                      order_status |-> st.order_status]
           sized == [symbol |-> st.symbol, side |-> st.side, price |-> price,
                     original_quantity |-> quantity,
                     filled_quantity |-> st.filled_quantity,
                     order_status |-> st.order_status]
           done == [symbol |-> st.symbol, side |-> st.side, price |-> price,
                    original_quantity |-> quantity,
                    filled_quantity |-> st.filled_quantity, order_status |-> "New"]
<1>1. [st EXCEPT !.price = price] = priced
  BY DEF OrderStates
<1>2. [priced EXCEPT !.original_quantity = quantity] = sized
  OBVIOUS
<1>3. [sized EXCEPT !.order_status = "New"] = done
  OBVIOUS
<1>4. Renewed(st, price, quantity)
        = [[[st EXCEPT !.price = price] EXCEPT !.original_quantity = quantity]
             EXCEPT !.order_status = "New"]
  BY Zenon DEF Renewed
<1>5. Renewed(st, price, quantity) = done
  BY <1>1, <1>2, <1>3, <1>4, Zenon
<1>6. done \in OrderStates
  BY DEF OrderStates, OrderStatus
<1> QED BY <1>5, <1>6

\* Committing a replace keeps the states and their type.
LEMMA RenewedKept ==
  ASSUME OmsTypeOK, NEW id \in DOMAIN order_states, NEW price \in Prices,
         NEW quantity \in Int,
         order_states' = [order_states EXCEPT ![id] = Renewed(@, price, quantity)]
  PROVE  /\ StatesKept
         /\ DOMAIN order_states' = DOMAIN order_states
         /\ order_states' \in [DOMAIN order_states' -> OrderStates]
         /\ \A x \in DOMAIN order_states :
              x # id => order_states'[x] = order_states[x]
<1>1. order_states[id] \in OrderStates
  BY DEF OmsTypeOK
<1> DEFINE new == Renewed(order_states[id], price, quantity)
<1>2. /\ new \in OrderStates
      /\ new.symbol = order_states[id].symbol
      /\ new.side = order_states[id].side
  BY <1>1, RenewedType
<1>3. order_states' = [order_states EXCEPT ![id] = new]
  OBVIOUS
<1> HIDE DEF new
<1> QED BY <1>2, <1>3 DEF StatesKept, OmsTypeOK
\* Inserting an order keeps the OMS's type and what is live registered.
LEMMA InsertKeeps ==
  ASSUME OmsTypeOK, LiveRegistered,
         NEW id \in 1..(next_order_id - 1), id \notin DOMAIN order_states,
         NEW st \in OrderStates, is_terminal(st) \/ st.symbol \in Registered,
         Insert(id, st)
  PROVE  /\ DOMAIN order_states' = DOMAIN order_states \cup {id}
         /\ order_states' \in [DOMAIN order_states' -> OrderStates]
         /\ order_states'[id] = st
         /\ LiveRegistered'
BY DEF Insert, OmsTypeOK, LiveRegistered

\* An order that was on its way still is, or has arrived.
LEMMA StillFresh ==
  ASSUME SubmitsFresh, DOMAIN order_states' = DOMAIN order_states,
         \A u \in Threads : pc'[u] = "submit" => pc[u] = "submit" /\ req'[u] = req[u]
  PROVE  SubmitsFresh'
BY DEF SubmitsFresh

\* An action that changes only the message counter and the locals of t.
LEMMA LocalStep ==
  ASSUME CoreInv, NEW t \in Threads,
         UNCHANGED <<order_states, trades, next_trade_id, books, matched>>,
         next_order_id' \in OrderId, next_order_id <= next_order_id',
         ThreadsTypeOK', SubmitsFresh',
         \A u \in Threads \ {t} :
           /\ pc'[u] = pc[u] /\ req'[u] = req[u] /\ snap'[u] = snap[u]
           /\ incoming'[u] = incoming[u],
         HandlerOK(t)'
  PROVE  CoreInv'
<1>1. StatesKept
  BY UnchangedKept
<1>2. BooksTypeOK' /\ BooksTidy'
  BY <1>1, BooksUnmoved DEF CoreInv, TypeOK
<1>3. TradesTidy'
  BY <1>1, StillTradesTidy DEF CoreInv
<1>4. LiveRegistered'
  BY DEF CoreInv, LiveRegistered
<1>5. OmsTypeOK'
  BY DEF CoreInv, TypeOK, OmsTypeOK, OrderId
<1>6. \A u \in Threads : HandlerOK(u)'
  BY <1>1, StillOthers DEF OrderId
<1> QED BY <1>2, <1>3, <1>4, <1>5, <1>6 DEF CoreInv, TypeOK

-----------------------------------------------------------------------------
(* One lemma per action: CoreInv survives it.                              *)

\* The arrival of a NewOrderSingle keeps the invariant.
LEMMA ReceiveOrderKeeps ==
  ASSUME CoreInv, NEW t \in Threads, NEW sym \in Symbols, NEW side \in Side,
         NEW price \in Prices, NEW quantity \in Quantities,
         ReceiveOrder(t, sym, side, price, quantity)
  PROVE  CoreInv'
<1> DEFINE order == [order_id |-> next_order_id, symbol |-> sym, side |-> side,
                     price |-> price, quantity |-> quantity]
<1>1. OmsTypeOK /\ ThreadsTypeOK
  BY DEF CoreInv, TypeOK
<1>2. order \in Order
  BY <1>1, QuantitiesAssumption DEF Order, OmsTypeOK
<1>3. /\ req' = [req EXCEPT ![t] = [kind |-> "D", order |-> order]]
      /\ pc' = [pc EXCEPT ![t] = "submit"]
      /\ next_order_id' = next_order_id + 1
      /\ UNCHANGED <<symbol_mutexes, oms_mutex, order_states, trades,
                     next_trade_id, books, snap, incoming, matched>>
  BY DEF ReceiveOrder, Goto
<1> HIDE DEF order
<1>4. ThreadsTypeOK'
  <2>1. [kind |-> "D", order |-> order] \in Message
    BY <1>2 DEF Message
  <2> QED BY <1>1, <1>3, <2>1 DEF ThreadsTypeOK, PC
<1>5. req'[t] = [kind |-> "D", order |-> order] /\ pc'[t] = "submit"
  BY <1>1, <1>3 DEF ThreadsTypeOK
<1>6. \A u \in Threads \ {t} :
        /\ pc'[u] = pc[u] /\ req'[u] = req[u] /\ snap'[u] = snap[u]
        /\ incoming'[u] = incoming[u]
  BY <1>1, <1>3 DEF ThreadsTypeOK
<1>7. order.order_id = next_order_id
  BY DEF order
<1>8. HandlerOK(t)'
  BY <1>1, <1>2, <1>3, <1>5, <1>7 DEF HandlerOK, OmsTypeOK, OrderId
<1>9. SubmitsFresh'
  <2>1. \A u \in Threads : pc[u] = "submit" =>
          req[u].order.order_id \in Int /\ req[u].order.order_id < next_order_id
    BY DEF CoreInv, HandlerOK, Order, OrderId
  <2>2. next_order_id \notin DOMAIN order_states
    BY <1>1 DEF OmsTypeOK, OrderId
  <2> QED BY <1>1, <1>3, <1>5, <1>6, <1>7, <2>1, <2>2
          DEF CoreInv, SubmitsFresh, OmsTypeOK, OrderId
<1>10. next_order_id' \in OrderId /\ next_order_id <= next_order_id'
  BY <1>1, <1>3 DEF OmsTypeOK, OrderId
<1> QED BY <1>3, <1>4, <1>6, <1>8, <1>9, <1>10, LocalStep

\* The arrival of a cancel or replace keeps the invariant.
LEMMA ReceiveAmendKeeps ==
  ASSUME CoreInv, NEW t \in Threads, NEW message \in Message, message.kind # "D",
         ReceiveAmend(t, message)
  PROVE  CoreInv'
<1>1. OmsTypeOK /\ ThreadsTypeOK
  BY DEF CoreInv, TypeOK
<1>2. /\ req' = [req EXCEPT ![t] = message]
      /\ pc' = [pc EXCEPT ![t] = "amend"]
      /\ message.order_id \in DOMAIN order_states
      /\ UNCHANGED <<next_order_id, symbol_mutexes, oms_mutex, order_states, trades,
                     next_trade_id, books, snap, incoming, matched>>
  BY DEF ReceiveAmend, Goto, shared
<1>3. ThreadsTypeOK'
  BY <1>1, <1>2 DEF ThreadsTypeOK, PC
<1>4. req'[t] = message /\ pc'[t] = "amend"
  BY <1>1, <1>2 DEF ThreadsTypeOK
<1>5. \A u \in Threads \ {t} :
        /\ pc'[u] = pc[u] /\ req'[u] = req[u] /\ snap'[u] = snap[u]
        /\ incoming'[u] = incoming[u]
  BY <1>1, <1>2 DEF ThreadsTypeOK
<1>6. HandlerOK(t)'
  BY <1>2, <1>4 DEF HandlerOK
<1>7. SubmitsFresh'
  BY <1>2, <1>4, <1>5, StillFresh DEF CoreInv
<1>8. next_order_id' \in OrderId /\ next_order_id <= next_order_id'
  BY <1>1, <1>2 DEF OmsTypeOK, OrderId
<1> QED BY <1>2, <1>3, <1>5, <1>6, <1>7, <1>8, LocalStep

\* The order that a handler is about to submit, and what Insert makes of it.
LEMMA SubmittedOrder ==
  ASSUME CoreInv, NEW t \in Threads, pc[t] = "submit"
  PROVE  /\ req[t].order \in Order
         /\ req[t].order.order_id \in 1..(next_order_id - 1)
         /\ req[t].order.order_id \notin DOMAIN order_states
         /\ \A status \in OrderStatus :
              LET st == NewOrderState(req[t].order, status)
              IN  /\ st \in OrderStates
                  /\ st.symbol = req[t].order.symbol
                  /\ st.side = req[t].order.side
                  /\ st.order_status = status
<1>1. req[t].order \in Order /\ req[t].order.order_id < next_order_id
  BY DEF CoreInv, HandlerOK
<1>2. req[t].order.order_id \in 1..(next_order_id - 1)
  BY <1>1 DEF Order, OrderId, CoreInv, TypeOK, OmsTypeOK
<1>3. req[t].order.order_id \notin DOMAIN order_states
  BY DEF CoreInv, SubmitsFresh
<1>4. \A status \in OrderStatus :
        NewOrderState(req[t].order, status) \in OrderStates
  BY <1>1 DEF Order, NewOrderState, OrderStates
<1> QED BY <1>1, <1>2, <1>3, <1>4 DEF NewOrderState

\* A submit that reaches the OMS leaves the others on their way.
LEMMA ArrivedFresh ==
  ASSUME CoreInv, NEW t \in Threads, pc[t] = "submit",
         DOMAIN order_states' = DOMAIN order_states \cup {req[t].order.order_id},
         \A u \in Threads : pc'[u] = "submit" =>
           u # t /\ pc[u] = "submit" /\ req'[u] = req[u]
  PROVE  SubmitsFresh'
BY DEF CoreInv, SubmitsFresh

\* Rejecting an order keeps the invariant.
LEMMA SubmitRejectedKeeps ==
  ASSUME CoreInv, NEW t \in Threads, SubmitRejected(t)
  PROVE  CoreInv'
<1> DEFINE order == req[t].order
           st == NewOrderState(order, "Rejected")
<1>1. OmsTypeOK /\ ThreadsTypeOK
  BY DEF CoreInv, TypeOK
<1>2. /\ pc[t] = "submit"
      /\ Insert(order.order_id, st)
      /\ Return(t)
      /\ UNCHANGED <<next_order_id, oms_mutex, trades, next_trade_id, books, ahead>>
  BY DEF SubmitRejected
<1>3. /\ order.order_id \in 1..(next_order_id - 1)
      /\ order.order_id \notin DOMAIN order_states
      /\ st \in OrderStates
      /\ st.order_status = "Rejected"
  BY <1>2, SubmittedOrder DEF OrderStatus
<1>4. is_terminal(st)
  BY <1>3 DEF is_terminal
<1>5. StatesKept
  BY <1>2, InsertKept
<1> HIDE DEF st
<1>6. /\ DOMAIN order_states' = DOMAIN order_states \cup {order.order_id}
      /\ order_states' \in [DOMAIN order_states' -> OrderStates]
      /\ LiveRegistered'
  BY <1>1, <1>2, <1>3, <1>4, InsertKeeps DEF CoreInv
<1>7. OmsTypeOK'
  BY <1>1, <1>2, <1>3, <1>6 DEF OmsTypeOK
<1>8. BooksTypeOK' /\ BooksTidy'
  BY <1>2, <1>5, BooksUnmoved DEF CoreInv, TypeOK
<1>9. /\ ThreadsTypeOK'
      /\ \A u \in Threads : HandlerOK(u)'
      /\ \A u \in Threads : matched'[u] \in Seq(PairTrade')
  BY <1>2, <1>5, ReturnKeeps
<1>10. TradesTidy'
  BY <1>2, <1>5, <1>9, StillPairTrade, SeqInLarger DEF CoreInv, TradesTidy
<1>11. SubmitsFresh'
  BY <1>1, <1>2, <1>6, ArrivedFresh DEF Return, Goto, ThreadsTypeOK
<1> QED BY <1>6, <1>7, <1>8, <1>9, <1>10, <1>11 DEF CoreInv, TypeOK

\* Accepting an order keeps the invariant.
LEMMA SubmitAcceptedKeeps ==
  ASSUME CoreInv, NEW t \in Threads, SubmitAccepted(t)
  PROVE  CoreInv'
<1> DEFINE order == req[t].order
           st == NewOrderState(order, "New")
<1>1. OmsTypeOK /\ ThreadsTypeOK
  BY DEF CoreInv, TypeOK
<1>2. /\ pc[t] = "submit"
      /\ order.symbol \in Registered
      /\ Insert(order.order_id, st)
      /\ symbol_mutexes' = [symbol_mutexes EXCEPT ![MessageSymbol(req[t])] = t]
      /\ incoming' = [incoming EXCEPT ![t] = order]
      /\ pc' = [pc EXCEPT ![t] = "match"]
      /\ UNCHANGED <<next_order_id, oms_mutex, trades, next_trade_id, books,
                     req, snap, matched>>
  BY DEF SubmitAccepted, Acceptable, Goto, Lock
<1>3. /\ order \in Order
      /\ order.order_id \in 1..(next_order_id - 1)
      /\ order.order_id \notin DOMAIN order_states
      /\ st \in OrderStates
      /\ st.symbol = order.symbol
      /\ st.side = order.side
  BY <1>2, SubmittedOrder DEF OrderStatus
<1>4. StatesKept
  BY <1>2, InsertKept
<1> HIDE DEF st, order
<1>5. /\ DOMAIN order_states' = DOMAIN order_states \cup {order.order_id}
      /\ order_states' \in [DOMAIN order_states' -> OrderStates]
      /\ order_states'[order.order_id] = st
      /\ LiveRegistered'
  BY <1>1, <1>2, <1>3, InsertKeeps DEF CoreInv
<1>6. OmsTypeOK'
  BY <1>1, <1>2, <1>3, <1>5 DEF OmsTypeOK
<1>7. BooksTypeOK' /\ BooksTidy'
  BY <1>2, <1>4, BooksUnmoved DEF CoreInv, TypeOK
<1>8. TradesTidy'
  BY <1>2, <1>4, StillTradesTidy DEF CoreInv
<1>9. ThreadsTypeOK'
  BY <1>1, <1>2, <1>3 DEF ThreadsTypeOK, PC, InCall
<1>10. pc'[t] = "match" /\ incoming'[t] = order
  BY <1>1, <1>2 DEF ThreadsTypeOK
<1>11. \A u \in Threads \ {t} : pc'[u] = pc[u] /\ incoming'[u] = incoming[u]
  BY <1>1, <1>2 DEF ThreadsTypeOK
<1>12. HandlerOK(t)'
  BY <1>2, <1>3, <1>5, <1>10 DEF HandlerOK, Belongs
<1>13. \A u \in Threads : HandlerOK(u)'
  BY <1>1, <1>2, <1>4, <1>11, <1>12, StillOthers DEF OmsTypeOK, OrderId
<1>14. SubmitsFresh'
  BY <1>2, <1>5, <1>10, <1>11, ArrivedFresh DEF order
<1> QED BY <1>5, <1>6, <1>7, <1>8, <1>9, <1>13, <1>14 DEF CoreInv, TypeOK

\* What a matching handler matches against.
LEMMA RestingOrder ==
  ASSUME CoreInv, NEW t \in Threads, pc[t] = "match", CanMatch(incoming[t])
  PROVE  LET order  == incoming[t]
             side   == Opposite(order.side)
             levels == Against(order)
             best   == Best(side, levels)
         IN  /\ order \in Order /\ order.symbol \in Registered
             /\ Belongs(order.order_id, order.symbol, order.side)
             /\ side \in Side
             /\ levels = books[order.symbol][side]
             /\ Tidy(levels, Booked(order.symbol, side))
             /\ best \in DOMAIN levels /\ best \in Prices
             /\ levels[best][1] \in Booked(order.symbol, side)
<1> DEFINE order  == incoming[t]
           side   == Opposite(order.side)
           levels == Against(order)
           best   == Best(side, levels)
<1>1. /\ order \in Order /\ order.symbol \in Registered
      /\ Belongs(order.order_id, order.symbol, order.side)
  BY DEF CoreInv, HandlerOK
<1>2. side \in Side
  BY DEF Opposite, Side
<1>3. levels = books[order.symbol][side]
  BY DEF Against
<1>4. Tidy(levels, Booked(order.symbol, side))
  BY <1>1, <1>2, <1>3 DEF CoreInv, BooksTidy
<1>5. DOMAIN levels # {} /\ DOMAIN levels \subseteq Prices
  BY <1>4 DEF CanMatch, Tidy
<1> HIDE DEF order, side, levels
<1>6. best \in DOMAIN levels /\ best \in Prices
  BY <1>2, <1>5, BestIsALevel
<1> HIDE DEF best
<1>7. levels[best] \in Seq(Booked(order.symbol, side)) /\ levels[best] # <<>>
  BY <1>4, <1>6 DEF Tidy
<1>8. levels[best][1] \in Booked(order.symbol, side)
  BY <1>7
<1> QED BY <1>1, <1>2, <1>3, <1>4, <1>6, <1>8 DEF order, side, levels, best

\* One iteration of match_orders keeps the invariant.
LEMMA MatchOneKeeps ==
  ASSUME CoreInv, NEW t \in Threads, MatchOne(t)
  PROVE  CoreInv'
<1> DEFINE order   == incoming[t]
           side    == Opposite(order.side)
           levels  == Against(order)
           best    == Best(side, levels)
           resting == levels[best][1]
           traded  == IF order.quantity <= resting.quantity
                        THEN order.quantity ELSE resting.quantity
           trade   == NewTrade(order, resting.order_id, best, traded)
<1>1. OmsTypeOK /\ BooksTypeOK /\ ThreadsTypeOK
  BY DEF CoreInv, TypeOK
<1>2. /\ pc[t] = "match"
      /\ CanMatch(order)
      /\ next_trade_id' = next_trade_id + 1
      /\ matched' = [matched EXCEPT ![t] = Append(@, trade)]
      /\ incoming' = [incoming EXCEPT ![t].quantity = @ - traded]
      /\ books' = [books EXCEPT ![order.symbol][side] = TakeFront(@, best, traded)]
      /\ UNCHANGED <<next_order_id, symbol_mutexes, oms_mutex, order_states,
                     trades, ahead, pc, req, snap>>
  BY DEF MatchOne, TakeTradeId
<1>3. /\ order \in Order /\ order.symbol \in Registered
      /\ Belongs(order.order_id, order.symbol, order.side)
      /\ side \in Side
      /\ levels = books[order.symbol][side]
      /\ Tidy(levels, Booked(order.symbol, side))
      /\ best \in DOMAIN levels /\ best \in Prices
      /\ resting \in Booked(order.symbol, side)
  BY <1>2, RestingOrder
<1>4. StatesKept
  BY <1>2, UnchangedKept
<1>5. resting \in Entry /\ Belongs(resting.order_id, order.symbol, side)
  BY <1>3 DEF Booked
<1>6. traded \in Int
  BY <1>3, <1>5 DEF Order, Entry
<1>7. trade \in PairTrade
  <2>1. trade \in Trade
    BY <1>1, <1>3, <1>5, <1>6 DEF NewTrade, Trade, Order, Entry, OmsTypeOK
  <2>2. CASE order.side = "Buy"
    <3>1. side = "Sell" /\ trade.buy_order_id = order.order_id
            /\ trade.sell_order_id = resting.order_id
      BY <2>2 DEF Opposite, NewTrade
    <3> QED BY <2>1, <2>2, <3>1, <1>3, <1>5 DEF PairTrade, PairsSides
  <2>3. CASE order.side = "Sell"
    <3>1. side = "Buy" /\ trade.buy_order_id = resting.order_id
            /\ trade.sell_order_id = order.order_id
      BY <2>3 DEF Opposite, NewTrade
    <3> QED BY <2>1, <2>3, <3>1, <1>3, <1>5 DEF PairTrade, PairsSides
  <2> QED BY <1>3, <2>2, <2>3 DEF Order, Side
<1> HIDE DEF trade, traded, best, levels, side, resting
<1>8. BooksTypeOK' /\ BooksTidy'
  <2>1. PICK s \in Registered : s = order.symbol
    BY <1>3
  <2>2. PICK sd \in Side : sd = side
    BY <1>3
  <2>3. PICK new : new = TakeFront(levels, best, traded)
    OBVIOUS
  <2>4. Tidy(levels, Booked(s, sd)')
    BY <1>3, <1>4, <2>1, <2>2, StillBooked, TidyInLarger
  <2>5. Booked(s, sd)' \subseteq Entry
    BY DEF Booked
  <2>6. FrontLeft(levels, best, traded) \in Booked(s, sd)'
    <3>1. PICK queue, e : queue = levels[best] /\ e = queue[1]
      OBVIOUS
    <3>2. queue \in Seq(Booked(s, sd)') /\ queue # <<>>
      BY <1>3, <2>4, <3>1 DEF Tidy
    <3>3. e \in Booked(s, sd)'
      BY <3>1, <3>2
    <3>4. e.quantity - traded \in Int
      BY <1>6, <3>3 DEF Booked, Entry
    <3>5. FrontLeft(levels, best, traded) =
            [order_id |-> e.order_id, quantity |-> e.quantity - traded]
      BY <3>1 DEF FrontLeft
    <3> QED BY <3>3, <3>4, <3>5 DEF Booked, Entry
  <2>7. Tidy(new, Booked(s, sd)')
    BY <1>3, <1>6, <2>3, <2>4, <2>5, <2>6, TakeFrontTidy
  <2>8. books' = [books EXCEPT ![s][sd] = new]
    BY <1>2, <1>3, <2>1, <2>2, <2>3
  <2> QED BY <1>1, <1>4, <2>7, <2>8, OneBookMoved DEF CoreInv
<1>9. /\ incoming'[t] = [order EXCEPT !.quantity = @ - traded]
      /\ \A u \in Threads \ {t} : incoming'[u] = incoming[u] /\ matched'[u] = matched[u]
  BY <1>1, <1>2 DEF ThreadsTypeOK
<1>10. /\ incoming'[t] \in Order
       /\ incoming'[t].order_id = order.order_id
       /\ incoming'[t].symbol = order.symbol
       /\ incoming'[t].side = order.side
  <2>1. [order EXCEPT !.quantity = @ - traded]
          = [order_id |-> order.order_id, symbol |-> order.symbol, side |-> order.side,
             price |-> order.price, quantity |-> order.quantity - traded]
    BY <1>3 DEF Order
  <2>2. order.quantity - traded \in Int
    BY <1>3, <1>6 DEF Order
  <2> QED BY <1>3, <1>9, <2>1, <2>2 DEF Order
<1>11. /\ matched'[t] \in Seq(PairTrade')
       /\ matched' \in [Threads -> Seq(Trade)]
  <2>1. matched[t] \in Seq(PairTrade) /\ matched[t] \in Seq(Trade) /\ trade \in Trade
    BY <1>1, <1>7 DEF CoreInv, TradesTidy, ThreadsTypeOK, PairTrade
  <2>2. Append(matched[t], trade) \in Seq(PairTrade) /\ Append(matched[t], trade) \in Seq(Trade)
    BY <1>7, <2>1, AppendProperties
  <2>3. matched'[t] \in Seq(PairTrade)
    BY <1>1, <1>2, <2>2 DEF ThreadsTypeOK
  <2>4. matched' \in [Threads -> Seq(Trade)]
    BY <1>1, <1>2, <2>2 DEF ThreadsTypeOK
  <2> QED BY <1>4, <2>3, <2>4, StillPairTrade, SeqInLarger
<1>12. TradesTidy'
  BY <1>2, <1>4, <1>9, <1>11, StillPairTrade, SeqInLarger DEF CoreInv, TradesTidy
<1>13. ThreadsTypeOK'
  <2>1. incoming' \in [Threads -> Order \cup {None}]
    <3>1. \A u \in Threads : incoming'[u] \in Order \cup {None}
      BY <1>1, <1>9, <1>10 DEF ThreadsTypeOK
    <3>2. incoming' = [u \in Threads |-> incoming'[u]]
      BY <1>1, <1>2 DEF ThreadsTypeOK
    <3> QED BY <3>1, <3>2
  <2> QED BY <1>1, <1>2, <1>11, <2>1 DEF ThreadsTypeOK
<1>14. HandlerOK(t)'
  BY <1>2, <1>3, <1>4, <1>10, StillBelongs DEF HandlerOK
<1>15. \A u \in Threads : HandlerOK(u)'
  BY <1>1, <1>2, <1>4, <1>9, <1>14, StillOthers DEF OmsTypeOK, OrderId
<1>16. SubmitsFresh' /\ LiveRegistered'
  BY <1>2, StillFresh DEF CoreInv, LiveRegistered
<1>17. OmsTypeOK'
  BY <1>1, <1>2 DEF OmsTypeOK
<1> QED BY <1>8, <1>12, <1>13, <1>15, <1>16, <1>17 DEF CoreInv, TypeOK

\* Resting the remainder of the incoming order keeps the books.
LEMMA RestKeeps ==
  ASSUME CoreInv, NEW t \in Threads, pc[t] = "match", RestRemainder(incoming[t]),
         UNCHANGED order_states
  PROVE  BooksTypeOK' /\ BooksTidy'
<1>1. PICK order : order = incoming[t]
  OBVIOUS
<1>2. /\ order \in Order /\ order.symbol \in Registered
      /\ Belongs(order.order_id, order.symbol, order.side)
  BY <1>1 DEF CoreInv, HandlerOK
<1>3. StatesKept /\ BooksTypeOK /\ BooksTidy
  BY UnchangedKept DEF CoreInv, TypeOK
<1>4. CASE order.quantity > 0
  <2> DEFINE entry == [order_id |-> order.order_id, quantity |-> order.quantity]
  <2>1. PICK new : new = Rest(books[order.symbol][order.side], order.price, entry)
    OBVIOUS
  <2>2. entry \in Booked(order.symbol, order.side)
    BY <1>2 DEF Booked, Entry, Order
  <2>3. Tidy(books[order.symbol][order.side], Booked(order.symbol, order.side))
    BY <1>2, <1>3 DEF BooksTidy, Order
  <2>4. order.price \in Prices /\ order.side \in Side
    BY <1>2 DEF Order
  <2>5. Tidy(new, Booked(order.symbol, order.side))
    BY <2>1, <2>2, <2>3, <2>4, RestTidy
  <2>6. Tidy(new, Booked(order.symbol, order.side)')
    BY <1>3, <2>5, StillBooked, TidyInLarger
  <2>7. books' = [books EXCEPT ![order.symbol][order.side] = new]
    BY <1>1, <1>4, <2>1 DEF RestRemainder
  <2> QED BY <1>2, <1>3, <2>4, <2>6, <2>7, OneBookMoved
<1>5. CASE ~(order.quantity > 0)
  BY <1>1, <1>3, <1>5, BooksUnmoved DEF RestRemainder
<1> QED BY <1>4, <1>5

\* A process_order without trades keeps the invariant.
LEMMA MatchedNothingKeeps ==
  ASSUME CoreInv, NEW t \in Threads, MatchedNothing(t)
  PROVE  CoreInv'
<1>1. OmsTypeOK /\ ThreadsTypeOK
  BY DEF CoreInv, TypeOK
<1>2. /\ pc[t] = "match"
      /\ RestRemainder(incoming[t])
      /\ Return(t)
      /\ UNCHANGED <<next_order_id, oms_mutex, order_states, trades, next_trade_id>>
  BY DEF MatchedNothing
<1>3. StatesKept
  BY <1>2, UnchangedKept
<1>4. BooksTypeOK' /\ BooksTidy'
  BY <1>2, RestKeeps
<1>5. /\ ThreadsTypeOK'
      /\ \A u \in Threads : HandlerOK(u)'
      /\ \A u \in Threads : matched'[u] \in Seq(PairTrade')
  BY <1>2, <1>3, ReturnKeeps
<1>6. TradesTidy'
  BY <1>2, <1>3, <1>5, StillPairTrade, SeqInLarger DEF CoreInv, TradesTidy
<1>7. SubmitsFresh' /\ LiveRegistered'
  BY <1>1, <1>2, StillFresh DEF CoreInv, LiveRegistered, Return, Goto, ThreadsTypeOK
<1>8. OmsTypeOK'
  BY <1>1, <1>2 DEF OmsTypeOK
<1> QED BY <1>4, <1>5, <1>6, <1>7, <1>8 DEF CoreInv, TypeOK

\* The end of a process_order with trades keeps the invariant.
LEMMA MatchedSomeKeeps ==
  ASSUME CoreInv, NEW t \in Threads, MatchedSome(t)
  PROVE  CoreInv'
<1>1. OmsTypeOK /\ ThreadsTypeOK
  BY DEF CoreInv, TypeOK
<1>2. /\ pc[t] = "match"
      /\ matched[t] # <<>>
      /\ RestRemainder(incoming[t])
      /\ pc' = [pc EXCEPT ![t] = "apply"]
      /\ UNCHANGED <<next_order_id, symbol_mutexes, oms_mutex, order_states, trades,
                     next_trade_id, req, snap, incoming, matched>>
  BY DEF MatchedSome, Goto
<1>3. StatesKept
  BY <1>2, UnchangedKept
<1>4. BooksTypeOK' /\ BooksTidy'
  BY <1>2, RestKeeps
<1>5. TradesTidy'
  BY <1>2, <1>3, StillTradesTidy DEF CoreInv
<1>6. ThreadsTypeOK'
  BY <1>1, <1>2 DEF ThreadsTypeOK, PC, InCall
<1>7. pc'[t] = "apply" /\ \A u \in Threads \ {t} : pc'[u] = pc[u]
  BY <1>1, <1>2 DEF ThreadsTypeOK
<1>8. HandlerOK(t)'
  <2>1. /\ incoming[t] \in Order /\ incoming[t].symbol \in Registered
        /\ Belongs(incoming[t].order_id, incoming[t].symbol, incoming[t].side)
    BY <1>2 DEF CoreInv, HandlerOK
  <2> QED BY <1>2, <1>7, <2>1 DEF HandlerOK, Belongs
<1>9. \A u \in Threads : HandlerOK(u)'
  BY <1>1, <1>2, <1>3, <1>7, <1>8, StillOthers DEF OmsTypeOK, OrderId
<1>10. SubmitsFresh' /\ LiveRegistered'
  BY <1>2, <1>7, StillFresh DEF CoreInv, LiveRegistered
<1>11. OmsTypeOK'
  BY <1>1, <1>2 DEF OmsTypeOK
<1> QED BY <1>4, <1>5, <1>6, <1>9, <1>10, <1>11 DEF CoreInv, TypeOK

\* What apply_trade of the first pending trade does to the records.
LEMMA FirstApplied ==
  ASSUME CoreInv, NEW t \in Threads, pc[t] = "apply", Apply(matched[t][1]),
         UNCHANGED <<next_order_id, next_trade_id>>
  PROVE  /\ StatesKept
         /\ DOMAIN order_states' = DOMAIN order_states
         /\ LiveRegistered'
         /\ OmsTypeOK'
         /\ trades' \in Seq(PairTrade')
<1>1. OmsTypeOK /\ ThreadsTypeOK
  BY DEF CoreInv, TypeOK
<1>2. PICK trade : trade = matched[t][1]
  OBVIOUS
<1>3. matched[t] \in Seq(PairTrade) /\ matched[t] # <<>>
  BY DEF CoreInv, TradesTidy, HandlerOK
<1>4. trade \in PairTrade /\ trade \in Trade
  BY <1>2, <1>3 DEF PairTrade
<1>5. Apply(trade)
  BY <1>2
<1>6. /\ StatesKept
      /\ DOMAIN order_states' = DOMAIN order_states
      /\ order_states' \in [DOMAIN order_states' -> OrderStates]
      /\ LiveRegistered'
  BY <1>1, <1>4, <1>5, ApplyKept DEF CoreInv
<1>7. trades' = Append(trades, trade)
  BY <1>5 DEF Apply
<1>8. trades' \in Seq(PairTrade) /\ trades' \in Seq(Trade)
  BY <1>1, <1>4, <1>7, AppendProperties DEF CoreInv, TradesTidy, OmsTypeOK
<1>9. trades' \in Seq(PairTrade')
  BY <1>6, <1>8, StillPairTrade, SeqInLarger
<1>10. OmsTypeOK'
  BY <1>1, <1>6, <1>8 DEF OmsTypeOK
<1> QED BY <1>6, <1>9, <1>10

\* An apply_trade that is not the call's last keeps the invariant.
LEMMA ApplyTradeKeeps ==
  ASSUME CoreInv, NEW t \in Threads, ApplyTrade(t)
  PROVE  CoreInv'
<1>1. OmsTypeOK /\ ThreadsTypeOK
  BY DEF CoreInv, TypeOK
<1>2. /\ pc[t] = "apply"
      /\ Apply(matched[t][1])
      /\ Len(matched[t]) > 1
      /\ matched' = [matched EXCEPT ![t] = Tail(@)]
      /\ oms_mutex' = t
      /\ UNCHANGED <<next_order_id, symbol_mutexes, next_trade_id, books,
                     pc, req, snap, incoming>>
  BY DEF ApplyTrade
<1>3. /\ StatesKept
      /\ DOMAIN order_states' = DOMAIN order_states
      /\ LiveRegistered'
      /\ OmsTypeOK'
      /\ trades' \in Seq(PairTrade')
  BY <1>2, FirstApplied
<1>4. BooksTypeOK' /\ BooksTidy'
  BY <1>2, <1>3, BooksUnmoved DEF CoreInv, TypeOK
<1>5. /\ Tail(matched[t]) \in Seq(PairTrade) /\ Tail(matched[t]) \in Seq(Trade)
      /\ Tail(matched[t]) # <<>>
  <2>1. matched[t] \in Seq(PairTrade) /\ matched[t] \in Seq(Trade) /\ matched[t] # <<>>
    BY <1>1, <1>2 DEF CoreInv, TradesTidy, ThreadsTypeOK
  <2> QED BY <1>2, <2>1, TailProperly
<1>6. /\ matched'[t] = Tail(matched[t])
      /\ \A u \in Threads \ {t} : matched'[u] = matched[u]
  BY <1>1, <1>2 DEF ThreadsTypeOK
<1>7. TradesTidy'
  BY <1>3, <1>5, <1>6, StillPairTrade, SeqInLarger DEF CoreInv, TradesTidy
<1>8. ThreadsTypeOK'
  BY <1>1, <1>2, <1>5 DEF ThreadsTypeOK
<1>9. HandlerOK(t)'
  BY <1>2, <1>3, <1>5, <1>6, StillBelongs DEF CoreInv, HandlerOK
<1>10. \A u \in Threads : HandlerOK(u)'
  BY <1>1, <1>2, <1>3, <1>6, <1>9, StillOthers DEF OmsTypeOK, OrderId
<1>11. SubmitsFresh'
  BY <1>2, <1>3, StillFresh DEF CoreInv
<1> QED BY <1>3, <1>4, <1>7, <1>8, <1>10, <1>11 DEF CoreInv, TypeOK

\* The last apply_trade of a call keeps the invariant.
LEMMA ApplyLastTradeKeeps ==
  ASSUME CoreInv, NEW t \in Threads, ApplyLastTrade(t)
  PROVE  CoreInv'
<1>1. ThreadsTypeOK
  BY DEF CoreInv, TypeOK
<1>2. /\ pc[t] = "apply"
      /\ Apply(matched[t][1])
      /\ oms_mutex' = NoThread
      /\ Return(t)
      /\ UNCHANGED <<next_order_id, next_trade_id, books>>
  BY DEF ApplyLastTrade
<1>3. /\ StatesKept
      /\ DOMAIN order_states' = DOMAIN order_states
      /\ LiveRegistered'
      /\ OmsTypeOK'
      /\ trades' \in Seq(PairTrade')
  BY <1>2, FirstApplied
<1>4. BooksTypeOK' /\ BooksTidy'
  BY <1>2, <1>3, BooksUnmoved DEF CoreInv, TypeOK
<1>5. /\ ThreadsTypeOK'
      /\ \A u \in Threads : HandlerOK(u)'
      /\ \A u \in Threads : matched'[u] \in Seq(PairTrade')
  BY <1>2, <1>3, ReturnKeeps
<1>6. TradesTidy'
  BY <1>3, <1>5 DEF TradesTidy
<1>7. SubmitsFresh'
  BY <1>1, <1>2, <1>3, StillFresh DEF CoreInv, Return, Goto, ThreadsTypeOK
<1> QED BY <1>3, <1>4, <1>5, <1>6, <1>7 DEF CoreInv, TypeOK

\* Refusing a cancel or replace of a terminal order keeps the invariant.
LEMMA AmendRefusedKeeps ==
  ASSUME CoreInv, NEW t \in Threads, AmendRefused(t)
  PROVE  CoreInv'
<1>1. OmsTypeOK /\ ThreadsTypeOK
  BY DEF CoreInv, TypeOK
<1>2. /\ Return(t)
      /\ UNCHANGED <<next_order_id, oms_mutex, order_states, trades, next_trade_id,
                     books>>
  BY DEF AmendRefused
<1>3. StatesKept
  BY <1>2, UnchangedKept
<1>4. BooksTypeOK' /\ BooksTidy'
  BY <1>2, <1>3, BooksUnmoved DEF CoreInv, TypeOK
<1>5. /\ ThreadsTypeOK'
      /\ \A u \in Threads : HandlerOK(u)'
      /\ \A u \in Threads : matched'[u] \in Seq(PairTrade')
  BY <1>2, <1>3, ReturnKeeps
<1>6. TradesTidy'
  BY <1>2, <1>3, <1>5, StillPairTrade, SeqInLarger DEF CoreInv, TradesTidy
<1>7. SubmitsFresh' /\ LiveRegistered'
  BY <1>1, <1>2, StillFresh DEF CoreInv, LiveRegistered, Return, Goto, ThreadsTypeOK
<1>8. OmsTypeOK'
  BY <1>1, <1>2 DEF OmsTypeOK
<1> QED BY <1>4, <1>5, <1>6, <1>7, <1>8 DEF CoreInv, TypeOK

\* Copying the order's state keeps the invariant.
LEMMA AmendStartedKeeps ==
  ASSUME CoreInv, NEW t \in Threads, AmendStarted(t)
  PROVE  CoreInv'
<1> DEFINE id == req[t].order_id
<1>1. OmsTypeOK /\ ThreadsTypeOK
  BY DEF CoreInv, TypeOK
<1>2. /\ pc[t] = "amend"
      /\ ~is_terminal(order_states[id])
      /\ snap' = [snap EXCEPT ![t] = order_states[id]]
      /\ symbol_mutexes' = [symbol_mutexes EXCEPT ![MessageSymbol(req[t])] = t]
      /\ pc' = [pc EXCEPT ![t] = "pull"]
      /\ UNCHANGED <<next_order_id, oms_mutex, order_states, trades, next_trade_id,
                     books, req, incoming, matched>>
  BY DEF AmendStarted, MayAmend, Lock, Goto
<1>3. /\ req[t] \in Message /\ req[t].kind # "D"
      /\ id \in DOMAIN order_states
  BY <1>2 DEF CoreInv, HandlerOK
<1>4. order_states[id] \in OrderStates /\ order_states[id].symbol \in Registered
  BY <1>1, <1>2, <1>3 DEF OmsTypeOK, CoreInv, LiveRegistered
<1>5. ThreadsTypeOK'
  BY <1>1, <1>2, <1>4 DEF ThreadsTypeOK, PC, InCall
<1>6. /\ pc'[t] = "pull" /\ snap'[t] = order_states[id]
      /\ \A u \in Threads \ {t} : pc'[u] = pc[u] /\ snap'[u] = snap[u]
  BY <1>1, <1>2 DEF ThreadsTypeOK
<1>7. HandlerOK(t)'
  BY <1>2, <1>3, <1>4, <1>6 DEF HandlerOK, Belongs
<1>8. SubmitsFresh'
  BY <1>2, <1>6, StillFresh DEF CoreInv
<1>9. next_order_id' \in OrderId /\ next_order_id <= next_order_id'
  BY <1>1, <1>2 DEF OmsTypeOK, OrderId
<1> QED BY <1>2, <1>5, <1>6, <1>7, <1>8, <1>9, LocalStep

\* The locals of a handler that amends an order.
LEMMA AmendLocals ==
  ASSUME CoreInv, NEW t \in Threads, pc[t] \in {"pull", "cancel", "replace"}
  PROVE  /\ req[t] \in Message /\ req[t].kind # "D"
         /\ req[t].order_id \in DOMAIN order_states
         /\ snap[t] \in OrderStates
         /\ snap[t].symbol \in Registered
         /\ Belongs(req[t].order_id, snap[t].symbol, snap[t].side)
BY DEF CoreInv, HandlerOK

\* Taking the order off its book keeps the invariant.
LEMMA PullKeeps ==
  ASSUME CoreInv, NEW t \in Threads, Pull(t)
  PROVE  CoreInv'
<1>1. OmsTypeOK /\ BooksTypeOK /\ ThreadsTypeOK
  BY DEF CoreInv, TypeOK
<1>2. /\ pc[t] = "pull"
      /\ books' = [books EXCEPT ![snap[t].symbol][snap[t].side] =
                     CancelFromLevel(@, snap[t].price, req[t].order_id)]
      /\ pc' = [pc EXCEPT ![t] = IF req[t].kind = "F" THEN "cancel" ELSE "replace"]
      /\ UNCHANGED <<next_order_id, symbol_mutexes, oms_mutex, order_states, trades,
                     next_trade_id, req, snap, incoming, matched>>
  BY DEF Pull, Goto
<1>3. /\ req[t] \in Message /\ req[t].kind # "D"
      /\ req[t].order_id \in DOMAIN order_states
      /\ snap[t] \in OrderStates
      /\ snap[t].symbol \in Registered
      /\ Belongs(req[t].order_id, snap[t].symbol, snap[t].side)
  BY <1>2, AmendLocals
<1>4. StatesKept
  BY <1>2, UnchangedKept
<1>5. BooksTypeOK' /\ BooksTidy'
  <2>1. PICK s \in Registered : s = snap[t].symbol
    BY <1>3
  <2>2. PICK sd \in Side : sd = snap[t].side
    BY <1>3 DEF OrderStates
  <2>3. PICK new : new = CancelFromLevel(books[s][sd], snap[t].price, req[t].order_id)
    OBVIOUS
  <2>4. snap[t].price \in Prices
    BY <1>3 DEF OrderStates
  <2>5. Tidy(books[s][sd], Booked(s, sd)')
    BY <1>4, StillBooked, TidyInLarger DEF CoreInv, BooksTidy
  <2>6. Tidy(new, Booked(s, sd)')
    BY <2>3, <2>4, <2>5, CancelFromLevelTidy
  <2>7. books' = [books EXCEPT ![s][sd] = new]
    BY <1>2, <2>1, <2>2, <2>3
  <2> QED BY <1>1, <1>4, <2>6, <2>7, OneBookMoved DEF CoreInv
<1>6. TradesTidy'
  BY <1>2, <1>4, StillTradesTidy DEF CoreInv
<1>7. ThreadsTypeOK'
  BY <1>1, <1>2 DEF ThreadsTypeOK, PC, InCall
<1>8. /\ pc'[t] = IF req[t].kind = "F" THEN "cancel" ELSE "replace"
      /\ \A u \in Threads \ {t} : pc'[u] = pc[u]
  BY <1>1, <1>2 DEF ThreadsTypeOK
<1>9. req[t].kind \in {"F", "G"}
  BY <1>3 DEF Message
<1>10. HandlerOK(t)'
  BY <1>2, <1>3, <1>8, <1>9 DEF HandlerOK, Belongs
<1>11. \A u \in Threads : HandlerOK(u)'
  BY <1>1, <1>2, <1>4, <1>8, <1>10, StillOthers DEF OmsTypeOK, OrderId
<1>12. SubmitsFresh' /\ LiveRegistered'
  BY <1>2, <1>8, StillFresh DEF CoreInv, LiveRegistered
<1>13. OmsTypeOK'
  BY <1>1, <1>2 DEF OmsTypeOK
<1> QED BY <1>5, <1>6, <1>7, <1>11, <1>12, <1>13 DEF CoreInv, TypeOK

\* The end of a cancel, and of a replace that comes to one.
LEMMA CancelledReturnKeeps ==
  ASSUME CoreInv, NEW t \in Threads, pc[t] \in {"cancel", "replace"},
         MarkCancelled(req[t].order_id), Return(t),
         UNCHANGED <<next_order_id, oms_mutex, trades, next_trade_id, books>>
  PROVE  CoreInv'
<1>1. OmsTypeOK /\ ThreadsTypeOK
  BY DEF CoreInv, TypeOK
<1>2. PICK id \in DOMAIN order_states : id = req[t].order_id
  BY AmendLocals
<1>3. /\ StatesKept
      /\ DOMAIN order_states' = DOMAIN order_states
      /\ order_states' \in [DOMAIN order_states' -> OrderStates]
      /\ \A x \in DOMAIN order_states : x # id => order_states'[x] = order_states[x]
      /\ order_states'[id].order_status = "Cancelled"
  BY <1>1, <1>2, MarkCancelledKept
<1>4. BooksTypeOK' /\ BooksTidy'
  BY <1>3, BooksUnmoved DEF CoreInv, TypeOK
<1>5. /\ ThreadsTypeOK'
      /\ \A u \in Threads : HandlerOK(u)'
      /\ \A u \in Threads : matched'[u] \in Seq(PairTrade')
  BY <1>3, ReturnKeeps
<1>6. TradesTidy'
  BY <1>3, <1>5, StillPairTrade, SeqInLarger DEF CoreInv, TradesTidy
<1>7. SubmitsFresh'
  BY <1>1, <1>3, StillFresh DEF CoreInv, Return, Goto, ThreadsTypeOK
<1>8. LiveRegistered'
  BY <1>3 DEF CoreInv, LiveRegistered, is_terminal
<1>9. OmsTypeOK'
  BY <1>1, <1>3 DEF OmsTypeOK
<1> QED BY <1>4, <1>5, <1>6, <1>7, <1>8, <1>9 DEF CoreInv, TypeOK

\* Committing a replace keeps the invariant.
LEMMA ReplaceCommittedKeeps ==
  ASSUME CoreInv, NEW t \in Threads, ReplaceCommitted(t)
  PROVE  CoreInv'
<1>1. OmsTypeOK /\ ThreadsTypeOK
  BY DEF CoreInv, TypeOK
<1>2. PICK id : id = req[t].order_id
  OBVIOUS
<1>3. PICK revised : revised = Revised(t)
  OBVIOUS
<1>4. /\ pc[t] = "replace"
      /\ order_states' = [order_states EXCEPT
                            ![id] = Renewed(@, req[t].price, req[t].quantity)]
      /\ incoming' = [incoming EXCEPT ![t] = revised]
      /\ pc' = [pc EXCEPT ![t] = "match"]
      /\ UNCHANGED <<next_order_id, symbol_mutexes, oms_mutex, trades,
                     next_trade_id, books, req, snap, matched>>
  BY <1>2, <1>3 DEF ReplaceCommitted, Goto
<1>5. /\ req[t] \in Message
      /\ id \in DOMAIN order_states
      /\ snap[t] \in OrderStates
      /\ snap[t].symbol \in Registered
      /\ Belongs(id, snap[t].symbol, snap[t].side)
  BY <1>2, <1>4, AmendLocals
<1>6. req[t].kind = "G"
  BY <1>4 DEF CoreInv, HandlerOK
<1>7. req[t].price \in Prices /\ req[t].quantity \in Int
  BY <1>5, <1>6, QuantitiesAssumption DEF Message
<1>8. /\ revised \in Order
      /\ revised.order_id = id
      /\ revised.symbol = snap[t].symbol
      /\ revised.side = snap[t].side
  <2>1. id \in OrderId
    BY <1>1, <1>5 DEF OmsTypeOK, OrderId
  <2>2. snap[t].filled_quantity \in Int /\ snap[t].symbol \in Symbols /\ snap[t].side \in Side
    BY <1>5 DEF OrderStates
  <2> QED BY <1>2, <1>3, <1>7, <2>1, <2>2 DEF Revised, Order
<1>9. /\ StatesKept
      /\ DOMAIN order_states' = DOMAIN order_states
      /\ order_states' \in [DOMAIN order_states' -> OrderStates]
      /\ \A x \in DOMAIN order_states : x # id => order_states'[x] = order_states[x]
  BY <1>1, <1>4, <1>5, <1>7, RenewedKept
<1>10. BooksTypeOK' /\ BooksTidy'
  BY <1>4, <1>9, BooksUnmoved DEF CoreInv, TypeOK
<1>11. TradesTidy'
  BY <1>4, <1>9, StillTradesTidy DEF CoreInv
<1>12. ThreadsTypeOK'
  BY <1>1, <1>4, <1>8 DEF ThreadsTypeOK, PC, InCall
<1>13. /\ pc'[t] = "match" /\ incoming'[t] = revised
       /\ \A u \in Threads \ {t} : pc'[u] = pc[u] /\ incoming'[u] = incoming[u]
  BY <1>1, <1>4 DEF ThreadsTypeOK
<1>14. Belongs(id, snap[t].symbol, snap[t].side)'
  BY <1>4, <1>5, <1>9 DEF StatesKept, Belongs
<1>15. HandlerOK(t)'
  BY <1>4, <1>5, <1>8, <1>13, <1>14 DEF HandlerOK, Belongs
<1>16. \A u \in Threads : HandlerOK(u)'
  BY <1>1, <1>4, <1>9, <1>13, <1>15, StillOthers DEF OmsTypeOK, OrderId
<1>17. SubmitsFresh'
  BY <1>4, <1>9, <1>13, StillFresh DEF CoreInv
<1>18. LiveRegistered'
  <2>1. order_states[id].symbol \in Registered
    BY <1>5 DEF Belongs
  <2> QED BY <1>9, <2>1 DEF CoreInv, LiveRegistered, StatesKept
<1>19. OmsTypeOK'
  BY <1>1, <1>4, <1>9 DEF OmsTypeOK
<1> QED BY <1>10, <1>11, <1>12, <1>16, <1>17, <1>18, <1>19 DEF CoreInv, TypeOK

-----------------------------------------------------------------------------
(* The per-symbol mutexes.                                                 *)

\* A step of t cannot take a mutex from another thread when all it changes is a
\* mutex that is free or its own.
LEMMA OthersHold ==
  ASSUME CoreInv, LocksHeld, StatesKept, NEW t \in Threads, NEW s, NEW holder,
         symbol_mutexes[s] \in {NoThread, t},
         symbol_mutexes' \in {symbol_mutexes, [symbol_mutexes EXCEPT ![s] = holder]},
         \A u \in Threads \ {t} :
           /\ pc'[u] = pc[u] /\ req'[u] = req[u] /\ snap'[u] = snap[u]
           /\ incoming'[u] = incoming[u],
         LockHeld(t)'
  PROVE  LocksHeld'
<1>1. ThreadsTypeOK
  BY DEF CoreInv, TypeOK
<1>2. ASSUME NEW u \in Threads \ {t} PROVE LockHeld(u)'
  <2>1. /\ LockHeld(u) /\ HandlerOK(u)
        /\ pc'[u] = pc[u] /\ req'[u] = req[u] /\ snap'[u] = snap[u]
        /\ incoming'[u] = incoming[u]
    BY DEF LocksHeld, CoreInv
  <2>2. ASSUME pc[u] \in InCall PROVE symbol_mutexes'[MessageSymbol(req[u])] = u
    <3>1. PICK m \in Symbols : m = MessageSymbol(req[u]) /\ symbol_mutexes[m] = u
      BY <2>1, <2>2 DEF LockHeld
    <3>2. m # s
      BY <3>1, ThreadsAssumption
    <3>3. CASE symbol_mutexes' = symbol_mutexes
      BY <3>1, <3>3
    <3>4. CASE symbol_mutexes' = [symbol_mutexes EXCEPT ![s] = holder]
      <4>1. symbol_mutexes'[m] = symbol_mutexes[m]
        BY <1>1, <3>2, <3>4 DEF ThreadsTypeOK
      <4> QED BY <3>1, <4>1
    <3> QED BY <3>3, <3>4
  <2>3. ASSUME pc[u] = "amend"
        PROVE  req[u].symbol = order_states'[req[u].order_id].symbol
    <3>1. req[u].order_id \in DOMAIN order_states
            /\ req[u].symbol = order_states[req[u].order_id].symbol
      BY <2>1, <2>3 DEF HandlerOK, LockHeld
    <3> QED BY <3>1 DEF StatesKept
  <2>4. MessageSymbol(req[u])' = MessageSymbol(req[u])
    BY <2>1 DEF MessageSymbol
  <2> QED BY <2>1, <2>2, <2>3, <2>4 DEF LockHeld, InCall
<1> QED BY <1>2 DEF LocksHeld

\* A thread that is idle or waits to submit holds nothing.
LEMMA NothingToHold ==
  ASSUME NEW t \in Threads, pc'[t] \in {"idle", "submit"}
  PROVE  LockHeld(t)'
BY DEF LockHeld, InCall

\* A handler that returns leaves every lock where it belongs.
LEMMA ReturnHolds ==
  ASSUME CoreInv, LocksHeld, StatesKept, NEW t \in Threads, Return(t),
         pc[t] \in InCall \/ SymbolFree(t)
  PROVE  LocksHeld'
<1>1. ThreadsTypeOK
  BY DEF CoreInv, TypeOK
<1>2. pc'[t] = "idle" /\ \A u \in Threads \ {t} :
        /\ pc'[u] = pc[u] /\ req'[u] = req[u] /\ snap'[u] = snap[u]
        /\ incoming'[u] = incoming[u]
  BY <1>1 DEF Return, Goto, ThreadsTypeOK
<1>3. PICK s : s = MessageSymbol(req[t])
  OBVIOUS
<1>4. symbol_mutexes[s] \in {NoThread, t}
  BY <1>3 DEF LocksHeld, LockHeld, SymbolFree
<1>5. symbol_mutexes' = [symbol_mutexes EXCEPT ![s] = NoThread]
  BY <1>3 DEF Return
<1>6. LockHeld(t)'
  BY <1>2, NothingToHold
<1> QED BY <1>2, <1>4, <1>5, <1>6, OthersHold

\* An action that leaves the mutexes and the message of t as they are.
LEMMA HoldsOn ==
  ASSUME CoreInv, LocksHeld, StatesKept, NEW t \in Threads, pc[t] \in InCall,
         UNCHANGED <<symbol_mutexes, req>>,
         \A u \in Threads \ {t} :
           pc'[u] = pc[u] /\ snap'[u] = snap[u] /\ incoming'[u] = incoming[u],
         pc'[t] \in InCall,
         pc'[t] \in {"match", "apply"} => incoming'[t].symbol = MessageSymbol(req[t]),
         pc'[t] \in {"pull", "cancel", "replace"} => snap'[t].symbol = MessageSymbol(req[t])
  PROVE  LocksHeld'
<1>1. MessageSymbol(req[t]) \in Symbols /\ symbol_mutexes[MessageSymbol(req[t])] = t
  BY DEF LocksHeld, LockHeld
<1>2. MessageSymbol(req[t])' = MessageSymbol(req[t])
  BY DEF MessageSymbol
<1>3. pc'[t] # "amend"
  BY DEF InCall
<1>4. LockHeld(t)'
  BY <1>1, <1>2, <1>3 DEF LockHeld
<1>5. PICK s : s = MessageSymbol(req[t])
  OBVIOUS
<1> QED BY <1>1, <1>4, <1>5, OthersHold

\* The arrival of a message leaves every lock where it belongs.
LEMMA ReceiveHolds ==
  ASSUME CoreInv, LocksHeld, NamesOwnSymbol, NEW t \in Threads, Receive(t)
  PROVE  LocksHeld'
<1>1. ThreadsTypeOK
  BY DEF CoreInv, TypeOK
<1>2. /\ UNCHANGED <<symbol_mutexes, order_states, snap, incoming>>
      /\ \E m \in {"submit", "amend"} : pc' = [pc EXCEPT ![t] = m]
      /\ \E m : req' = [req EXCEPT ![t] = m]
  BY DEF Receive, ReceiveOrder, ReceiveAmend, Goto, shared
<1>3. StatesKept
  BY <1>2, UnchangedKept
<1>4. \A u \in Threads \ {t} :
        /\ pc'[u] = pc[u] /\ req'[u] = req[u] /\ snap'[u] = snap[u]
        /\ incoming'[u] = incoming[u]
  BY <1>1, <1>2 DEF ThreadsTypeOK
<1>5. pc'[t] = "submit" \/ (pc'[t] = "amend" /\
        req'[t].symbol = order_states[req'[t].order_id].symbol)
  BY <1>1 DEF Receive, ReceiveOrder, ReceiveAmend, Goto, ThreadsTypeOK
<1>6. LockHeld(t)'
  BY <1>2, <1>5 DEF LockHeld, InCall
<1>7. ASSUME NEW u \in Threads \ {t} PROVE LockHeld(u)'
  <2>1. LockHeld(u)
    BY DEF LocksHeld
  <2>2. MessageSymbol(req[u])' = MessageSymbol(req[u])
    BY <1>4 DEF MessageSymbol
  <2> QED BY <1>2, <1>4, <2>1, <2>2 DEF LockHeld, InCall
<1> QED BY <1>6, <1>7 DEF LocksHeld

\* Every step keeps the records of the orders the OMS knows.
LEMMA StepKeepsStates ==
  ASSUME CoreInv, NEW t \in Threads, Enter(t) \/ Continue(t)
  PROVE  StatesKept
<1>1. OmsTypeOK
  BY DEF CoreInv, TypeOK
<1>2. CASE SubmitRejected(t) \/ SubmitAccepted(t)
  BY <1>2, InsertKept DEF SubmitRejected, SubmitAccepted
<1>3. CASE AmendRefused(t) \/ AmendStarted(t) \/ MatchOne(t) \/ MatchedNothing(t)
             \/ MatchedSome(t) \/ Pull(t)
  BY <1>3, UnchangedKept
     DEF AmendRefused, AmendStarted, MatchOne, MatchedNothing, MatchedSome, Pull
<1>4. CASE ApplyTrade(t) \/ ApplyLastTrade(t)
  BY <1>4, FirstApplied DEF ApplyTrade, ApplyLastTrade
<1>5. CASE CancelDone(t) \/ ReplaceAbandoned(t)
  <2>1. /\ pc[t] \in {"cancel", "replace"} /\ MarkCancelled(req[t].order_id)
    BY <1>5 DEF CancelDone, ReplaceAbandoned
  <2>2. PICK id \in DOMAIN order_states : id = req[t].order_id
    BY <2>1, AmendLocals
  <2> QED BY <1>1, <2>1, <2>2, MarkCancelledKept
<1>6. CASE ReplaceCommitted(t)
  <2>1. PICK id : id = req[t].order_id
    OBVIOUS
  <2>2. /\ pc[t] = "replace"
        /\ order_states' = [order_states EXCEPT
                              ![id] = Renewed(@, req[t].price, req[t].quantity)]
    BY <1>6, <2>1 DEF ReplaceCommitted
  <2>3. id \in DOMAIN order_states /\ req[t] \in Message /\ req[t].kind = "G"
    BY <2>1, <2>2 DEF CoreInv, HandlerOK
  <2>4. req[t].price \in Prices /\ req[t].quantity \in Int
    BY <2>3, QuantitiesAssumption DEF Message
  <2> QED BY <1>1, <2>2, <2>3, <2>4, RenewedKept
<1> QED BY <1>2, <1>3, <1>4, <1>5, <1>6 DEF Enter, Continue

\* A handler's first step takes the mutex of its symbol, or returns.
LEMMA EnterHolds ==
  ASSUME CoreInv, LocksHeld, NEW t \in Threads, Enter(t)
  PROVE  LocksHeld'
<1>1. ThreadsTypeOK /\ StatesKept
  BY StepKeepsStates DEF CoreInv, TypeOK
<1>2. CASE SubmitRejected(t) \/ AmendRefused(t)
  BY <1>1, <1>2, ReturnHolds DEF SubmitRejected, AmendRefused
<1>3. CASE SubmitAccepted(t) \/ AmendStarted(t)
  <2>1. PICK s : s = MessageSymbol(req[t])
    OBVIOUS
  <2>2. s \in Symbols
    <3>1. CASE SubmitAccepted(t)
      <4>1. req[t].kind = "D" /\ req[t].order \in Order
        BY <3>1 DEF SubmitAccepted, CoreInv, HandlerOK
      <4> QED BY <2>1, <4>1 DEF MessageSymbol, Order
    <3>2. CASE AmendStarted(t)
      <4>1. req[t] \in Message /\ req[t].kind # "D"
        BY <3>2 DEF AmendStarted, CoreInv, HandlerOK
      <4> QED BY <2>1, <4>1 DEF MessageSymbol, Message
    <3> QED BY <1>3, <3>1, <3>2
  <2>3. /\ symbol_mutexes[s] = NoThread
        /\ symbol_mutexes' = [symbol_mutexes EXCEPT ![s] = t]
        /\ req' = req
    BY <1>3, <2>1 DEF SubmitAccepted, AmendStarted, SymbolFree, Lock
  <2>4. \A u \in Threads \ {t} :
          /\ pc'[u] = pc[u] /\ snap'[u] = snap[u] /\ incoming'[u] = incoming[u]
    BY <1>1, <1>3 DEF SubmitAccepted, AmendStarted, Goto, ThreadsTypeOK
  <2>5. MessageSymbol(req[t])' = s /\ symbol_mutexes'[s] = t
    BY <1>1, <2>1, <2>2, <2>3 DEF MessageSymbol, ThreadsTypeOK
  <2>6. CASE SubmitAccepted(t)
    <3>1. pc'[t] = "match" /\ incoming'[t].symbol = s
      <4>1. req[t].kind = "D" /\ incoming'[t] = req[t].order /\ pc'[t] = "match"
        BY <1>1, <2>6 DEF SubmitAccepted, CoreInv, HandlerOK, Goto, ThreadsTypeOK
      <4> QED BY <2>1, <4>1 DEF MessageSymbol
    <3> QED BY <1>1, <2>2, <2>3, <2>4, <2>5, <3>1, OthersHold DEF LockHeld
  <2>7. CASE AmendStarted(t)
    <3>1. pc'[t] = "pull" /\ snap'[t].symbol = s
      <4>1. /\ pc[t] = "amend" /\ req[t].kind # "D"
            /\ snap'[t] = order_states[req[t].order_id] /\ pc'[t] = "pull"
        BY <1>1, <2>7 DEF AmendStarted, CoreInv, HandlerOK, Goto, ThreadsTypeOK
      <4>2. req[t].symbol = order_states[req[t].order_id].symbol
        BY <4>1 DEF LocksHeld, LockHeld
      <4> QED BY <2>1, <4>1, <4>2 DEF MessageSymbol
    <3> QED BY <1>1, <2>2, <2>3, <2>4, <2>5, <3>1, OthersHold DEF LockHeld
  <2> QED BY <1>3, <2>6, <2>7
<1> QED BY <1>2, <1>3 DEF Enter

\* A later step keeps the mutex until the handler returns.
LEMMA ContinueHolds ==
  ASSUME CoreInv, LocksHeld, NEW t \in Threads, Continue(t)
  PROVE  LocksHeld'
<1>1. ThreadsTypeOK /\ StatesKept
  BY StepKeepsStates DEF CoreInv, TypeOK
<1>2. LockHeld(t)
  BY DEF LocksHeld
<1>3. CASE MatchedNothing(t) \/ ApplyLastTrade(t) \/ CancelDone(t) \/ ReplaceAbandoned(t)
  BY <1>1, <1>3, ReturnHolds
     DEF MatchedNothing, ApplyLastTrade, CancelDone, ReplaceAbandoned, InCall
<1>4. CASE MatchOne(t)
  <2>1. PICK traded : incoming' = [incoming EXCEPT ![t].quantity = @ - traded]
    BY <1>4 DEF MatchOne
  <2>2. /\ pc[t] = "match" /\ pc' = pc
        /\ UNCHANGED <<symbol_mutexes, req, snap>>
    BY <1>4 DEF MatchOne
  <2>3. incoming[t] \in Order
    BY <2>2 DEF CoreInv, HandlerOK
  <2>4. /\ incoming'[t].symbol = incoming[t].symbol
        /\ \A u \in Threads \ {t} : incoming'[u] = incoming[u]
    BY <1>1, <2>1, <2>3 DEF ThreadsTypeOK, Order
  <2> QED BY <1>1, <1>2, <2>2, <2>4, HoldsOn DEF LockHeld, InCall
<1>5. CASE MatchedSome(t)
  <2>1. /\ pc[t] = "match" /\ pc' = [pc EXCEPT ![t] = "apply"]
        /\ UNCHANGED <<symbol_mutexes, req, snap, incoming>>
    BY <1>5 DEF MatchedSome, Goto
  <2>2. pc'[t] = "apply" /\ \A u \in Threads \ {t} : pc'[u] = pc[u]
    BY <1>1, <2>1 DEF ThreadsTypeOK
  <2> QED BY <1>1, <1>2, <2>1, <2>2, HoldsOn DEF LockHeld, InCall
<1>6. CASE ApplyTrade(t)
  <2>1. pc[t] = "apply" /\ UNCHANGED <<symbol_mutexes, pc, req, snap, incoming>>
    BY <1>6 DEF ApplyTrade
  <2> QED BY <1>1, <1>2, <2>1, HoldsOn DEF LockHeld, InCall
<1>7. CASE Pull(t)
  <2>1. /\ pc[t] = "pull"
        /\ pc' = [pc EXCEPT ![t] = IF req[t].kind = "F" THEN "cancel" ELSE "replace"]
        /\ UNCHANGED <<symbol_mutexes, req, snap, incoming>>
    BY <1>7 DEF Pull, Goto
  <2>2. pc'[t] \in {"cancel", "replace"} /\ \A u \in Threads \ {t} : pc'[u] = pc[u]
    BY <1>1, <2>1 DEF ThreadsTypeOK
  <2> QED BY <1>1, <1>2, <2>1, <2>2, HoldsOn DEF LockHeld, InCall
<1>8. CASE ReplaceCommitted(t)
  <2>1. /\ pc[t] = "replace" /\ pc' = [pc EXCEPT ![t] = "match"]
        /\ incoming' = [incoming EXCEPT ![t] = Revised(t)]
        /\ UNCHANGED <<symbol_mutexes, req, snap>>
    BY <1>8 DEF ReplaceCommitted, Goto
  <2>2. /\ pc'[t] = "match" /\ incoming'[t].symbol = snap[t].symbol
        /\ \A u \in Threads \ {t} : pc'[u] = pc[u] /\ incoming'[u] = incoming[u]
    BY <1>1, <2>1 DEF ThreadsTypeOK, Revised
  <2> QED BY <1>1, <1>2, <2>1, <2>2, HoldsOn DEF LockHeld, InCall
<1> QED BY <1>3, <1>4, <1>5, <1>6, <1>7, <1>8 DEF Continue

-----------------------------------------------------------------------------
(* The invariant.                                                          *)

\* The invariant holds initially.
LEMMA InitIndInv == Init => IndInv
<1> SUFFICES ASSUME Init PROVE IndInv
  OBVIOUS
<1>1. OmsTypeOK
  BY DEF Init, OmsTypeOK, OrderId
<1>2. ASSUME NEW s \in Registered, NEW sd \in Side
      PROVE  Tidy(books[s][sd], Booked(s, sd)) /\ IsLevels(books[s][sd])
  BY DEF Init, Tidy, IsLevels, NoLevels
<1>3. BooksTypeOK /\ BooksTidy
  BY <1>2 DEF Init, BooksTypeOK, BooksTidy
<1>4. ThreadsTypeOK
  BY DEF Init, ThreadsTypeOK, PC
<1>5. TradesTidy /\ LiveRegistered
  BY DEF Init, TradesTidy, LiveRegistered
<1>6. \A t \in Threads : pc[t] = "idle"
  BY DEF Init
<1>7. SubmitsFresh /\ (\A t \in Threads : HandlerOK(t)) /\ LocksHeld
  BY <1>6 DEF SubmitsFresh, HandlerOK, LocksHeld, LockHeld, InCall
<1> QED BY <1>1, <1>3, <1>4, <1>5, <1>7 DEF IndInv, CoreInv, TypeOK

\* The arrival of any message keeps the invariant.
LEMMA ReceiveKeeps ==
  ASSUME CoreInv, NEW t \in Threads, Receive(t)
  PROVE  CoreInv'
<1>1. CASE \E sym \in Symbols, side \in Side, price \in Prices, quantity \in Quantities :
             ReceiveOrder(t, sym, side, price, quantity)
  BY <1>1, ReceiveOrderKeeps
<1>2. CASE \E id \in DOMAIN order_states, sym \in Symbols :
             ReceiveAmend(t, [kind |-> "F", order_id |-> id, symbol |-> sym])
  <2>1. PICK id \in DOMAIN order_states, sym \in Symbols :
          ReceiveAmend(t, [kind |-> "F", order_id |-> id, symbol |-> sym])
    BY <1>2
  <2>2. id \in OrderId
    BY DEF CoreInv, TypeOK, OmsTypeOK, OrderId
  <2>3. [kind |-> "F", order_id |-> id, symbol |-> sym] \in Message
    BY <2>2 DEF Message
  <2> QED BY <2>1, <2>3, ReceiveAmendKeeps
<1>3. CASE \E id \in DOMAIN order_states, sym \in Symbols, price \in Prices,
             quantity \in Quantities :
             ReceiveAmend(t, [kind |-> "G", order_id |-> id, symbol |-> sym,
                              price |-> price, quantity |-> quantity])
  <2>1. PICK id \in DOMAIN order_states, sym \in Symbols, price \in Prices,
             quantity \in Quantities :
          ReceiveAmend(t, [kind |-> "G", order_id |-> id, symbol |-> sym,
                           price |-> price, quantity |-> quantity])
    BY <1>3
  <2>2. id \in OrderId
    BY DEF CoreInv, TypeOK, OmsTypeOK, OrderId
  <2>3. [kind |-> "G", order_id |-> id, symbol |-> sym, price |-> price,
         quantity |-> quantity] \in Message
    BY <2>2 DEF Message
  <2> QED BY <2>1, <2>3, ReceiveAmendKeeps
<1> QED BY <1>1, <1>2, <1>3 DEF Receive

\* A stuttering step keeps the invariant.
LEMMA StutterIndInv ==
  ASSUME IndInv, UNCHANGED vars
  PROVE  IndInv'
<1>1. UNCHANGED <<next_order_id, symbol_mutexes, oms_mutex, order_states, trades,
                  next_trade_id, books, pc, req, snap, incoming, matched>>
  BY DEF vars, shared, locals
<1>2. TypeOK'
  BY <1>1 DEF IndInv, CoreInv, TypeOK, OmsTypeOK, BooksTypeOK, ThreadsTypeOK
<1>4. BooksTidy'
  <2>1. \A s \in Registered, sd \in Side : Booked(s, sd)' = Booked(s, sd)
    BY <1>1 DEF Booked, Belongs
  <2> QED BY <1>1, <2>1 DEF IndInv, CoreInv, BooksTidy
<1>5. TradesTidy'
  <2>1. PairTrade' = PairTrade
    BY <1>1 DEF PairTrade, PairsSides, Belongs
  <2> QED BY <1>1, <2>1 DEF IndInv, CoreInv, TradesTidy
<1>6. LiveRegistered' /\ SubmitsFresh'
  BY <1>1 DEF IndInv, CoreInv, LiveRegistered, SubmitsFresh
<1>7. \A t \in Threads : HandlerOK(t)'
  BY <1>1 DEF IndInv, CoreInv, HandlerOK, Belongs
<1>3. NamesOwnSymbol => LocksHeld'
  BY <1>1 DEF IndInv, LocksHeld, LockHeld, MessageSymbol
<1> QED BY <1>2, <1>3, <1>4, <1>5, <1>6, <1>7 DEF IndInv, CoreInv

\* Every step keeps the invariant.
LEMMA NextIndInv ==
  ASSUME IndInv, Next
  PROVE  IndInv'
<1>1. PICK t \in Threads : Receive(t) \/ Enter(t) \/ Continue(t)
  BY DEF Next
<1>2. CoreInv
  BY DEF IndInv
<1>3. CoreInv'
  <2>1. CASE Receive(t)
    BY <1>2, <2>1, ReceiveKeeps
  <2>2. CASE Enter(t)
    BY <1>2, <2>2, SubmitRejectedKeeps, SubmitAcceptedKeeps, AmendRefusedKeeps,
       AmendStartedKeeps DEF Enter
  <2>3. CASE Continue(t)
    <3>1. CASE MatchOne(t) \/ MatchedNothing(t) \/ MatchedSome(t)
      BY <1>2, <3>1, MatchOneKeeps, MatchedNothingKeeps, MatchedSomeKeeps
    <3>2. CASE ApplyTrade(t) \/ ApplyLastTrade(t)
      BY <1>2, <3>2, ApplyTradeKeeps, ApplyLastTradeKeeps
    <3>3. CASE Pull(t) \/ ReplaceCommitted(t)
      BY <1>2, <3>3, PullKeeps, ReplaceCommittedKeeps
    <3>4. CASE CancelDone(t)
      BY <1>2, <3>4, CancelledReturnKeeps DEF CancelDone
    <3>5. CASE ReplaceAbandoned(t)
      BY <1>2, <3>5, CancelledReturnKeeps DEF ReplaceAbandoned
    <3> QED BY <2>3, <3>1, <3>2, <3>3, <3>4, <3>5 DEF Continue
  <2> QED BY <1>1, <2>1, <2>2, <2>3
<1>4. ASSUME NamesOwnSymbol PROVE LocksHeld'
  <2>1. LocksHeld
    BY <1>4 DEF IndInv
  <2> QED BY <1>1, <1>2, <1>4, <2>1, ReceiveHolds, EnterHolds, ContinueHolds
<1> QED BY <1>3, <1>4 DEF IndInv

\* IndInv holds in every reachable state.
THEOREM IndInvAlways == Spec => []IndInv
<1>1. IndInv /\ [Next]_vars => IndInv'
  BY NextIndInv, StutterIndInv
<1> QED BY InitIndInv, <1>1, PTL DEF Spec

\* Every variable keeps its type.
THEOREM TypeOKAlways == Spec => []TypeOK
<1>1. IndInv => TypeOK
  BY DEF IndInv, CoreInv
<1> QED BY <1>1, IndInvAlways, PTL

\* No level of any book is ever left empty: front() is always defined where
\* match_orders calls it.
THEOREM LevelsNonEmptyAlways == Spec => []LevelsNonEmpty
<1>1. IndInv => LevelsNonEmpty
  BY DEF IndInv, CoreInv, BooksTidy, Tidy, LevelsNonEmpty
<1> QED BY <1>1, IndInvAlways, PTL

\* Every trade is between a buy and a sell order of one registered symbol, both
\* known to the OMS, and every resting order is on its own side of its own
\* symbol's book: the at() of apply_trade never throws.
THEOREM TradesPairSidesAlways == Spec => []TradesPairSides
<1>1. IndInv => TradesPairSides
  <2> SUFFICES ASSUME IndInv PROVE TradesPairSides
    OBVIOUS
  <2>1. trades \in Seq(PairTrade) /\ \A t \in Threads : matched[t] \in Seq(PairTrade)
    BY DEF IndInv, CoreInv, TradesTidy
  <2>2. \A i \in DOMAIN trades : PairsSides(trades[i])
    BY <2>1 DEF PairTrade
  <2>3. ASSUME NEW t \in Threads, NEW i \in DOMAIN matched[t]
        PROVE  PairsSides(matched[t][i])
    BY <2>1 DEF PairTrade
  <2>4. ASSUME NEW s \in Registered, NEW place \in Places(s)
        PROVE  Belongs(EntryAt(s, place).order_id, s, place[1])
    <3>1. PICK sd \in Side : \E p \in DOMAIN books[s][sd] :
            \E i \in DOMAIN books[s][sd][p] : place = <<sd, p, i>>
      BY DEF Places
    <3>7. PICK p \in DOMAIN books[s][sd] :
             \E i \in DOMAIN books[s][sd][p] : place = <<sd, p, i>>
      BY <3>1
    <3>2. PICK i \in DOMAIN books[s][sd][p] : place = <<sd, p, i>>
      BY <3>7
    <3>3. Tidy(books[s][sd], Booked(s, sd))
      BY DEF IndInv, CoreInv, BooksTidy
    <3>4. books[s][sd][p] \in Seq(Booked(s, sd))
      BY <3>2, <3>3 DEF Tidy
    <3>5. books[s][sd][p][i] \in Booked(s, sd)
      BY <3>2, <3>4
    <3>6. EntryAt(s, place) = books[s][sd][p][i] /\ place[1] = sd
      BY <3>2 DEF EntryAt
    <3> QED BY <3>5, <3>6 DEF Booked
  <2> QED BY <2>2, <2>3, <2>4 DEF TradesPairSides
<1> QED BY <1>1, IndInvAlways, PTL

\* When every cancel and replace names its order's own symbol, a thread that
\* works on a symbol's orders holds that symbol's mutex, for any number of
\* threads and symbols.
THEOREM LockCoversBookAlways ==
  ASSUME NamesOwnSymbol
  PROVE  Spec => []LockCoversBook
<1>1. IndInv => LockCoversBook
  BY DEF IndInv, LocksHeld, LockHeld, LockCoversBook, InCall
<1> QED BY <1>1, IndInvAlways, PTL

-----------------------------------------------------------------------------
(* How a step may move one side of one book.                               *)

\* The side of the book that a step moves; the others stay.
SideMoved(s, sd, new) ==
  /\ s \in Registered /\ sd \in Side
  /\ \A r \in Registered, d \in Side :
       books'[r][d] = IF r = s /\ d = sd THEN new ELSE books[r][d]

\* An EXCEPT on the books moves one side.
LEMMA ExceptMoves ==
  ASSUME CoreInv, NEW s \in Registered, NEW sd \in Side, NEW new,
         books' = [books EXCEPT ![s][sd] = new]
  PROVE  SideMoved(s, sd, new)
BY DEF SideMoved, CoreInv, TypeOK, BooksTypeOK

\* No level is new.
LEMMA StoreQueueLevels ==
  ASSUME NEW levels, NEW price \in DOMAIN levels, NEW queue
  PROVE  DOMAIN StoreQueue(levels, price, queue) \subseteq DOMAIN levels
BY DEF StoreQueue, SetLevel, DropLevel

\* Matching opens no level.
LEMMA TakeFrontLevels ==
  ASSUME NEW levels, NEW price \in DOMAIN levels, NEW traded
  PROVE  DOMAIN TakeFront(levels, price, traded) \subseteq DOMAIN levels
BY StoreQueueLevels DEF TakeFront

\* Nor does cancelling.
LEMMA CancelLevels ==
  ASSUME NEW levels, NEW price, NEW id
  PROVE  DOMAIN CancelFromLevel(levels, price, id) \subseteq DOMAIN levels
BY StoreQueueLevels DEF CancelFromLevel, IsQueued

\* Resting opens one level at most.
LEMMA RestLevels ==
  ASSUME NEW levels, NEW price, NEW entry
  PROVE  DOMAIN Rest(levels, price, entry) = DOMAIN levels \cup {price}
BY DEF Rest, SetLevel

-----------------------------------------------------------------------------
(* The books are never crossed.                                            *)

\* Levels that go cross nothing.
LEMMA FewerLevelsNoCross ==
  ASSUME NoCross, NEW s, NEW sd, NEW new, SideMoved(s, sd, new),
         DOMAIN new \subseteq DOMAIN books[s][sd]
  PROVE  NoCross'
BY DEF NoCross, SideMoved, Side

\* What the loop condition of match_orders says when it ends the loop.
LEMMA NothingToMatch ==
  ASSUME CoreInv, NEW t \in Threads, pc[t] = "match", ~CanMatch(incoming[t]),
         NEW order, order = incoming[t], order.quantity > 0,
         NEW c, NEW sd, c = order.symbol, sd = order.side
  PROVE  /\ c \in Registered /\ sd \in Side /\ order.price \in Prices
         /\ order.quantity \in Int
         /\ \A p \in DOMAIN books[c][Opposite(sd)] :
              /\ sd = "Buy" => order.price < p
              /\ sd = "Sell" => p < order.price
<1>1. PICK side, levels : side = Opposite(sd) /\ levels = books[c][side]
  OBVIOUS
<1>2. order \in Order /\ order.symbol \in Registered
  BY <1>1 DEF CoreInv, HandlerOK
<1>3. order.side \in Side /\ side \in Side /\ order.price \in Int /\ order.price \in Prices
      /\ order.quantity \in Int
  BY <1>1, <1>2, PricesAssumption DEF Order, Opposite, Side
<1>4. DOMAIN levels \subseteq Prices /\ DOMAIN levels \subseteq Int
  BY <1>1, <1>2, <1>3, PricesAssumption DEF CoreInv, BooksTidy, Tidy
<1>5. ASSUME NEW p \in DOMAIN levels
      PROVE  /\ order.side = "Buy" => order.price < p
             /\ order.side = "Sell" => p < order.price
  <2>1. PICK best : best = Best(side, levels)
    OBVIOUS
  <2>2. best \in DOMAIN levels /\ AtLeastAsGood(side, best, p)
    BY <1>3, <1>4, <2>1, BestIsALevel
  <2>3. ~AtLeastAsGood(side, best, order.price)
    BY <1>1, <2>1 DEF CanMatch, Against
  <2>4. best \in Int /\ p \in Int
    BY <1>4, <2>2
  <2> QED BY <1>1, <1>3, <2>2, <2>3, <2>4 DEF AtLeastAsGood, Opposite, Side
<1> QED BY <1>1, <1>2, <1>3, <1>4, <1>5

\* A remainder rests only where nothing on the other side would match it.
LEMMA RestNoCross ==
  ASSUME CoreInv, NoCross, NEW t \in Threads, pc[t] = "match",
         ~CanMatch(incoming[t]), RestRemainder(incoming[t])
  PROVE  NoCross'
<1>1. PICK order, c, sd, entry, new :
        /\ order = incoming[t] /\ c = order.symbol /\ sd = order.side
        /\ entry = [order_id |-> order.order_id, quantity |-> order.quantity]
        /\ new = Rest(books[c][sd], order.price, entry)
  OBVIOUS
<1>2. CASE order.quantity > 0
  <2>1. /\ c \in Registered /\ sd \in Side
        /\ \A p \in DOMAIN books[c][Opposite(sd)] :
             /\ sd = "Buy" => order.price < p
             /\ sd = "Sell" => p < order.price
    BY <1>1, <1>2, NothingToMatch
  <2>2. books' = [books EXCEPT ![c][sd] = new]
    BY <1>1, <1>2 DEF RestRemainder
  <2>3. SideMoved(c, sd, new)
    BY <2>1, <2>2, ExceptMoves
  <2>4. DOMAIN new = DOMAIN books[c][sd] \cup {order.price}
    <3>1. DOMAIN Rest(books[c][sd], order.price, entry) = DOMAIN books[c][sd] \cup {order.price}
      BY RestLevels
    <3> QED BY <1>1, <3>1
  <2> QED BY <2>1, <2>3, <2>4 DEF NoCross, SideMoved, Side, Opposite
<1>3. CASE ~(order.quantity > 0)
  BY <1>1, <1>3 DEF RestRemainder, NoCross
<1> QED BY <1>2, <1>3

\* No step crosses a book.
LEMMA NextNoCross ==
  ASSUME CoreInv, NoCross, Next
  PROVE  NoCross'
<1>1. PICK t \in Threads : Receive(t) \/ Enter(t) \/ Continue(t)
  BY DEF Next
<1>2. CASE UNCHANGED books
  BY <1>2 DEF NoCross
<1>3. CASE MatchOne(t)
  <2>1. PICK order, c, side, levels, best :
          /\ order = incoming[t] /\ c = order.symbol /\ side = Opposite(order.side)
          /\ levels = Against(order) /\ best = Best(side, levels)
    OBVIOUS
  <2>2. PICK traded : books' = [books EXCEPT ![c][side] = TakeFront(@, best, traded)]
    BY <1>3, <2>1 DEF MatchOne
  <2>3. pc[t] = "match" /\ CanMatch(incoming[t])
    BY <1>3 DEF MatchOne
  <2>4. /\ c \in Registered /\ side \in Side /\ levels = books[c][side]
        /\ best \in DOMAIN levels
    BY <2>1, <2>3, RestingOrder
  <2>5. PICK new : new = TakeFront(levels, best, traded)
    OBVIOUS
  <2>6. SideMoved(c, side, new)
    BY <2>2, <2>4, <2>5, ExceptMoves
  <2> QED BY <2>4, <2>5, <2>6, TakeFrontLevels, FewerLevelsNoCross
<1>4. CASE MatchedNothing(t) \/ MatchedSome(t)
  BY <1>4, RestNoCross DEF MatchedNothing, MatchedSome
<1>5. CASE Pull(t)
  <2>1. PICK c, sd, price, id :
          /\ c = snap[t].symbol /\ sd = snap[t].side
          /\ price = snap[t].price /\ id = req[t].order_id
    OBVIOUS
  <2>2. pc[t] = "pull" /\ books' = [books EXCEPT ![c][sd] = CancelFromLevel(@, price, id)]
    BY <1>5, <2>1 DEF Pull
  <2>3. c \in Registered /\ sd \in Side
    BY <2>1, <2>2, AmendLocals DEF OrderStates
  <2>4. PICK new : new = CancelFromLevel(books[c][sd], price, id)
    OBVIOUS
  <2>5. SideMoved(c, sd, new)
    BY <2>2, <2>3, <2>4, ExceptMoves
  <2> QED BY <2>4, <2>5, CancelLevels, FewerLevelsNoCross
<1> QED BY <1>1, <1>2, <1>3, <1>4, <1>5
        DEF Receive, ReceiveOrder, ReceiveAmend, shared, Enter, SubmitRejected, SubmitAccepted,
            AmendRefused, AmendStarted, Continue, ApplyTrade, ApplyLastTrade, CancelDone,
            ReplaceAbandoned, ReplaceCommitted

\* In every book every bid is below every ask, between the steps of a call too.
THEOREM NoCrossAlways == Spec => []NoCross
<1>1. Init => NoCross
  BY DEF Init, NoCross, NoLevels, Side
<1>2. IndInv /\ NoCross /\ [Next]_vars => NoCross'
  <2> SUFFICES ASSUME IndInv, NoCross, [Next]_vars PROVE NoCross'
    OBVIOUS
  <2>1. CASE Next
    BY <2>1, NextNoCross DEF IndInv
  <2>2. CASE UNCHANGED vars
    BY <2>2 DEF vars, shared, NoCross
  <2> QED BY <2>1, <2>2
<1> QED BY <1>1, <1>2, IndInvAlways, PTL DEF Spec

\* Between two calls on a symbol its best bid is below its best ask:
\* match_orders has not stopped early.
THEOREM UncrossedAlways == Spec => []Uncrossed
<1>1. NoCross => Uncrossed
  BY DEF NoCross, Uncrossed
<1> QED BY <1>1, NoCrossAlways, PTL


-----------------------------------------------------------------------------
(* Calls reach the OMS whole.                                              *)

\* A handler that leaves a place other than "apply" does not hold oms_mutex_.
LEMMA NextBatchOwner ==
  ASSUME CoreInv, BatchOwner, Next
  PROVE  BatchOwner'
<1>1. PICK t \in Threads : Receive(t) \/ Enter(t) \/ Continue(t)
  BY DEF Next
<1>2. pc \in [Threads -> PC] /\ NoThread \notin Threads
  BY ThreadsAssumption DEF CoreInv, TypeOK, ThreadsTypeOK
<1>3. ASSUME UNCHANGED oms_mutex, pc[t] # "apply", NEW where, pc' = [pc EXCEPT ![t] = where]
      PROVE  BatchOwner'
  BY <1>2, <1>3 DEF BatchOwner
<1>4. CASE Receive(t)
  BY <1>3, <1>4 DEF Receive, ReceiveOrder, ReceiveAmend, shared, Goto
<1>5. CASE Enter(t)
  BY <1>3, <1>5 DEF Enter, SubmitRejected, SubmitAccepted, AmendRefused, AmendStarted,
                    Return, Goto
<1>6. CASE MatchOne(t)
  BY <1>6 DEF MatchOne, BatchOwner
<1>7. CASE ApplyTrade(t)
  BY <1>7 DEF ApplyTrade, BatchOwner
<1>8. CASE ApplyLastTrade(t)
  BY <1>2, <1>8 DEF ApplyLastTrade, BatchOwner
<1>9. CASE MatchedNothing(t) \/ MatchedSome(t)
  BY <1>3, <1>9 DEF MatchedNothing, MatchedSome, Return, Goto
<1>10. CASE Pull(t) \/ CancelDone(t) \/ ReplaceAbandoned(t) \/ ReplaceCommitted(t)
  BY <1>3, <1>10 DEF Pull, CancelDone, ReplaceAbandoned, ReplaceCommitted, Return, Goto
<1> QED BY <1>1, <1>4, <1>5, <1>6, <1>7, <1>8, <1>9, <1>10 DEF Continue

\* oms_mutex_ is held between two steps only by a handler that applies trades.
THEOREM BatchOwnerAlways == Spec => []BatchOwner
<1>1. Init => BatchOwner
  BY ThreadsAssumption DEF Init, BatchOwner
<1>2. IndInv /\ BatchOwner /\ [Next]_vars => BatchOwner'
  <2> SUFFICES ASSUME IndInv, BatchOwner, [Next]_vars PROVE BatchOwner'
    OBVIOUS
  <2>1. CASE Next
    BY <2>1, NextBatchOwner DEF IndInv
  <2>2. CASE UNCHANGED vars
    BY <2>2 DEF vars, shared, locals, BatchOwner
  <2> QED BY <2>1, <2>2
<1> QED BY <1>1, <1>2, IndInvAlways, PTL DEF Spec

\* While t holds oms_mutex_ only t applies trades, one a step, and no other
\* handler records, cancels or replaces an order.
LEMMA BatchStep ==
  ASSUME CoreInv, BatchOwner, Next, NEW t \in Threads, oms_mutex = t, matched'[t] = matched[t]
  PROVE  UNCHANGED <<order_states, trades>>
<1>1. PICK u \in Threads : Receive(u) \/ Enter(u) \/ Continue(u)
  BY DEF Next
<1>2. pc[t] = "apply" /\ t # NoThread
  BY ThreadsAssumption DEF BatchOwner
<1>3. CASE UNCHANGED <<order_states, trades>>
  BY <1>3
<1>4. CASE OmsFree(u)
  <2>1. u = t
    BY <1>2, <1>4 DEF OmsFree
  <2>2. CASE ApplyTrade(u) \/ ApplyLastTrade(u)
    <3>1. matched[t] # <<>> /\ matched[t] \in Seq(PairTrade) /\ matched \in [Threads -> Seq(Trade)]
      BY <1>2 DEF CoreInv, HandlerOK, TradesTidy, TypeOK, ThreadsTypeOK
    <3>2. matched'[t] = Tail(matched[t]) \/ matched'[t] = <<>>
      BY <2>1, <2>2, <3>1 DEF ApplyTrade, ApplyLastTrade, Return
    <3>3. Len(Tail(matched[t])) # Len(matched[t])
      BY <3>1
    <3> QED BY <3>1, <3>2, <3>3
  <2>3. CASE ~(ApplyTrade(u) \/ ApplyLastTrade(u))
    BY <1>1, <1>2, <2>1, <2>3
       DEF Receive, ReceiveOrder, ReceiveAmend, shared, Enter, SubmitRejected, SubmitAccepted,
           AmendRefused, AmendStarted, Continue, MatchOne, MatchedNothing, MatchedSome, Pull,
           CancelDone, ReplaceAbandoned, ReplaceCommitted
  <2> QED BY <2>2, <2>3
<1> QED BY <1>1, <1>3, <1>4
        DEF Receive, ReceiveOrder, ReceiveAmend, shared, Enter, SubmitRejected, SubmitAccepted,
            AmendRefused, AmendStarted, Continue, MatchOne, MatchedNothing, MatchedSome,
            ApplyTrade, ApplyLastTrade, Pull, CancelDone, ReplaceAbandoned, ReplaceCommitted

\* While a call's trades are half applied, no other thread changes the OMS.
THEOREM BatchesAtomicAlways == Spec => BatchesAtomic
<1>1. IndInv /\ BatchOwner /\ [Next]_vars =>
        [\A t \in Threads :
           oms_mutex = t /\ matched'[t] = matched[t] => UNCHANGED <<order_states, trades>>]_vars
  BY BatchStep DEF IndInv
<1> QED BY <1>1, IndInvAlways, BatchOwnerAlways, PTL DEF Spec, BatchesAtomic


-----------------------------------------------------------------------------
(* Nothing rests that the risk engine would refuse.                        *)

\* Every entry of the levels may rest in a book of symbol s.
MayRestAll(s, levels) ==
  \A p \in DOMAIN levels : \A i \in DOMAIN levels[p] : MayRest(s, p, levels[p][i].quantity)

\* The limits are as RiskContext's loader leaves them, and no price is negative.
LimitsAssumption == WellFormed(risk_ctx) /\ Prices \subseteq Nat

\* An order that loses shares and keeps some may still rest.
LEMMA FewerMayRest ==
  ASSUME LimitsAssumption, NEW s, NEW p \in Prices, NEW quantity \in Int, NEW less \in Int,
         MayRest(s, p, quantity), 0 < less, less <= quantity
  PROVE  MayRest(s, p, less)
<1> DEFINE whole == [symbol |-> s, price |-> p, quantity |-> quantity]
           part  == [symbol |-> s, price |-> p, quantity |-> less]
<1>1. /\ whole.price \in Nat /\ whole.quantity \in Int /\ part.quantity \in Int
      /\ part.symbol = whole.symbol /\ part.price = whole.price
      /\ part.quantity <= whole.quantity
  BY DEF LimitsAssumption
<1>2. Approved(risk_ctx, whole)
  BY DEF MayRest
<1> HIDE DEF whole, part
<1>3. Approved(risk_ctx, part)
  BY <1>1, <1>2, FewerSharesPass DEF LimitsAssumption
<1> QED BY <1>3 DEF MayRest, part

\* What an order may rest with depends on its symbol, price and shares only.
LEMMA ApprovedMayRest ==
  ASSUME NEW order, order.quantity > 0, Approved(risk_ctx, order)
  PROVE  MayRest(order.symbol, order.price, order.quantity)
<1> DEFINE bare == [symbol |-> order.symbol, price |-> order.price,
                    quantity |-> order.quantity]
<1>1. AllChecks(risk_ctx, order) => AllChecks(risk_ctx, bare)
  BY DEF AllChecks, notional, check_circuit_limits, check_margin,
     check_notional_per_order, check_notional_per_symbol, check_notional_per_account,
     check_qty_per_order, check_qty_per_symbol, check_qty_per_account
<1> HIDE DEF bare
<1>2. Approved(risk_ctx, bare)
  BY <1>1, ApprovedIsAllChecks
<1> QED BY <1>2 DEF MayRest, bare

\* A queue in which everything may rest takes the place of another.
LEMMA StoreQueueMayRest ==
  ASSUME NEW s, NEW levels, MayRestAll(s, levels), NEW price, NEW queue,
         \A i \in DOMAIN queue : MayRest(s, price, queue[i].quantity)
  PROVE  MayRestAll(s, StoreQueue(levels, price, queue))
<1>1. LevelReplaced(levels, price, queue, StoreQueue(levels, price, queue))
  BY StoreQueueIs
<1> QED BY <1>1 DEF MayRestAll, LevelReplaced

\* A front order that loses shares may rest with the others.
LEMMA TakeFrontMayRest ==
  ASSUME LimitsAssumption, NEW E, E \subseteq Entry, NEW levels, Tidy(levels, E),
         NEW s, MayRestAll(s, levels), NEW price \in DOMAIN levels,
         NEW traded \in Int, 0 < traded, traded <= levels[price][1].quantity
  PROVE  MayRestAll(s, TakeFront(levels, price, traded))
<1>1. PICK before : before = levels[price]
  OBVIOUS
<1>2. /\ before \in Seq(E) /\ before # <<>> /\ price \in Prices
      /\ \A i \in DOMAIN before : MayRest(s, price, before[i].quantity)
  BY <1>1 DEF Tidy, MayRestAll
<1>3. CASE before[1].quantity = traded
  <2>1. PICK queue : queue = Tail(before)
    OBVIOUS
  <2>2. \A i \in DOMAIN queue : i + 1 \in DOMAIN before /\ queue[i] = before[i + 1]
    BY <1>2, <2>1
  <2>3. \A i \in DOMAIN queue : MayRest(s, price, queue[i].quantity)
    BY <1>2, <2>2
  <2>4. TakeFront(levels, price, traded) = StoreQueue(levels, price, queue)
    BY <1>1, <1>3, <2>1 DEF TakeFront
  <2> QED BY <2>3, <2>4, StoreQueueMayRest
<1>4. CASE before[1].quantity # traded
  <2>1. PICK queue : queue = [before EXCEPT ![1].quantity = @ - traded]
    OBVIOUS
  <2>2. 1 \in DOMAIN before /\ before[1] \in Entry
    BY <1>2
  <2>3. /\ DOMAIN queue = DOMAIN before
        /\ queue[1].quantity = before[1].quantity - traded
        /\ \A i \in DOMAIN before : i # 1 => queue[i] = before[i]
    BY <1>2, <2>1, <2>2 DEF Entry
  <2>4. /\ before[1].quantity \in Int /\ before[1].quantity - traded \in Int
        /\ 0 < before[1].quantity - traded
        /\ before[1].quantity - traded <= before[1].quantity
    BY <1>1, <1>4, <2>2 DEF Entry
  <2>5. MayRest(s, price, before[1].quantity - traded)
    BY <1>2, <2>2, <2>4, FewerMayRest
  <2>6. \A i \in DOMAIN queue : MayRest(s, price, queue[i].quantity)
    BY <1>2, <2>3, <2>5
  <2>7. TakeFront(levels, price, traded) = StoreQueue(levels, price, queue)
    BY <1>1, <1>4, <2>1 DEF TakeFront
  <2> QED BY <2>6, <2>7, StoreQueueMayRest
<1> QED BY <1>3, <1>4

\* A remainder that may rest does.
LEMMA RestMayRest ==
  ASSUME NEW E, NEW levels, Tidy(levels, E), NEW s, MayRestAll(s, levels),
         NEW price \in Prices, NEW entry, MayRest(s, price, entry.quantity)
  PROVE  MayRestAll(s, Rest(levels, price, entry))
<1>1. PICK before, queue : before = QueueAt(levels, price) /\ queue = Append(before, entry)
  OBVIOUS
<1>2. before \in Seq(E) /\ \A i \in DOMAIN before : MayRest(s, price, before[i].quantity)
  BY <1>1 DEF QueueAt, Tidy, MayRestAll
<1>3. \A i \in DOMAIN queue : MayRest(s, price, queue[i].quantity)
  BY <1>1, <1>2
<1> QED BY <1>1, <1>3 DEF Rest, SetLevel, MayRestAll

\* Cancelling leaves orders that were there.
LEMMA CancelMayRest ==
  ASSUME NEW E, NEW levels, Tidy(levels, E), NEW s, MayRestAll(s, levels), NEW price, NEW id
  PROVE  MayRestAll(s, CancelFromLevel(levels, price, id))
<1>1. CASE ~IsQueued(levels, price, id)
  BY <1>1 DEF CancelFromLevel
<1>2. CASE IsQueued(levels, price, id)
  <2> DEFINE before == levels[price]
             Mine   == {i \in DOMAIN before : before[i].order_id = id}
             first  == CHOOSE i \in DOMAIN before :
                         /\ before[i].order_id = id
                         /\ \A j \in 1..(i - 1) : before[j].order_id # id
             queue  == RemoveAt(before, first)
  <2>1. /\ before \in Seq(E) /\ DOMAIN before = 1..Len(before) /\ Len(before) \in Nat
        /\ \A i \in DOMAIN before : MayRest(s, price, before[i].quantity)
    BY <1>2 DEF IsQueued, Tidy, MayRestAll
  <2>2. first \in DOMAIN before
    <3>1. Mine \in SUBSET Nat /\ Mine # {}
      BY <1>2, <2>1 DEF IsQueued
    <3>2. PICK i \in Mine : \A m \in Mine : i <= m
      BY <3>1, LeastNatural
    <3>3. \A j \in 1..(i - 1) : before[j].order_id # id
      BY <2>1, <3>2
    <3> QED BY <3>2, <3>3
  <2>3. CancelFromLevel(levels, price, id) = StoreQueue(levels, price, queue)
    BY <1>2 DEF CancelFromLevel
  <2> HIDE DEF first, before
  <2>4. /\ queue \in Seq(E) /\ Len(queue) = Len(before) - 1
        /\ \A i \in 1..(Len(before) - 1) :
             queue[i] = IF i < first THEN before[i] ELSE before[i + 1]
    BY <2>1, <2>2, RemoveAtIs
  <2>5. DOMAIN queue = 1..(Len(before) - 1)
    BY <2>4
  <2> HIDE DEF queue
  <2>6. \A i \in DOMAIN queue : \E j \in DOMAIN before : queue[i] = before[j]
    BY <2>1, <2>2, <2>4, <2>5
  <2>7. \A i \in DOMAIN queue : MayRest(s, price, queue[i].quantity)
    BY <2>1, <2>6
  <2> QED BY <2>3, <2>7, StoreQueueMayRest
<1> QED BY <1>1, <1>2

\* What a call in match_orders has left may rest.
CallMayRest(t) ==
  pc[t] = "match" /\ incoming[t].quantity > 0 =>
    MayRest(incoming[t].symbol, incoming[t].price, incoming[t].quantity)

\* When a side moves to levels in which everything may rest, and so may what the
\* moving thread has left, the rest follows.
LEMMA RestsApprovedStep ==
  ASSUME RestsApproved, NEW t \in Threads,
         \A u \in Threads \ {t} : pc'[u] = pc[u] /\ incoming'[u] = incoming[u],
         CallMayRest(t)',
         NEW s, NEW sd, NEW new, (SideMoved(s, sd, new) /\ MayRestAll(s, new)) \/ UNCHANGED books
  PROVE  RestsApproved'
<1>1. ASSUME NEW r \in Registered, NEW d \in Side,
             NEW p \in DOMAIN books'[r][d], NEW i \in DOMAIN books'[r][d][p]
      PROVE  MayRest(r, p, books'[r][d][p][i].quantity)
  <2>1. CASE UNCHANGED books
    BY <1>1, <2>1 DEF RestsApproved
  <2>2. CASE SideMoved(s, sd, new) /\ MayRestAll(s, new)
    <3>1. CASE r = s /\ d = sd
      BY <1>1, <2>2, <3>1 DEF SideMoved, MayRestAll
    <3>2. CASE ~(r = s /\ d = sd)
      BY <1>1, <2>2, <3>2 DEF SideMoved, RestsApproved
    <3> QED BY <3>1, <3>2
  <2> QED BY <2>1, <2>2
<1>2. ASSUME NEW u \in Threads PROVE CallMayRest(u)'
  <2>1. CASE u = t
    BY <2>1
  <2>2. CASE u # t
    BY <2>2 DEF CallMayRest, RestsApproved, MayRest
  <2> QED BY <2>1, <2>2
<1>3. \A r, p, quantity : MayRest(r, p, quantity)' <=> MayRest(r, p, quantity)
  BY DEF MayRest
<1> QED BY <1>1, <1>2, <1>3 DEF RestsApproved, CallMayRest


\* A trade takes shares from the front order and from the incoming one, and
\* leaves both with shares that may rest, or none.
LEMMA MatchOneMayRest ==
  ASSUME LimitsAssumption, CoreInv, RestsApproved, NEW t \in Threads, MatchOne(t)
  PROVE  RestsApproved'
<1>1. PICK order, c, side, levels, best, traded, new :
        /\ order = incoming[t] /\ c = order.symbol /\ side = Opposite(order.side)
        /\ levels = Against(order) /\ best = Best(side, levels)
        /\ traded = IF order.quantity <= levels[best][1].quantity
                      THEN order.quantity ELSE levels[best][1].quantity
        /\ new = TakeFront(levels, best, traded)
  OBVIOUS
<1>2. /\ pc[t] = "match" /\ CanMatch(order)
      /\ incoming' = [incoming EXCEPT ![t].quantity = @ - traded]
      /\ books' = [books EXCEPT ![c][side] = TakeFront(@, best, traded)]
      /\ UNCHANGED pc
  BY <1>1 DEF MatchOne
<1>3. /\ order \in Order /\ c \in Registered /\ side \in Side /\ levels = books[c][side]
      /\ Tidy(levels, Booked(c, side)) /\ best \in DOMAIN levels
      /\ levels[best][1] \in Booked(c, side)
  BY <1>1, <1>2, RestingOrder
<1>4. /\ order.quantity \in Int /\ order.quantity > 0 /\ order.price \in Prices
      /\ levels[best][1].quantity \in Int
  BY <1>2, <1>3 DEF CanMatch, Order, Booked, Entry
<1>5. MayRestAll(c, levels)
  BY <1>3 DEF RestsApproved, MayRestAll
<1>6. levels[best][1].quantity > 0
  <2>1. levels[best] \in Seq(Booked(c, side)) /\ levels[best] # <<>>
    BY <1>3 DEF Tidy
  <2>2. 1 \in DOMAIN levels[best]
    BY <2>1
  <2> QED BY <1>3, <1>5, <2>2 DEF MayRestAll, MayRest
<1>7. /\ traded \in Int /\ 0 < traded /\ traded <= order.quantity
      /\ traded <= levels[best][1].quantity
  BY <1>1, <1>4, <1>6
<1>8. MayRestAll(c, new)
  <2>1. Booked(c, side) \subseteq Entry
    BY DEF Booked
  <2> QED BY <1>1, <1>3, <1>5, <1>7, <2>1, TakeFrontMayRest
<1>9. SideMoved(c, side, new)
  <2>1. books' = [books EXCEPT ![c][side] = new]
    BY <1>1, <1>2, <1>3
  <2> QED BY <1>3, <2>1, ExceptMoves
<1>10. /\ incoming'[t] = [order EXCEPT !.quantity = @ - traded]
       /\ \A u \in Threads \ {t} : pc'[u] = pc[u] /\ incoming'[u] = incoming[u]
  BY <1>1, <1>2 DEF CoreInv, TypeOK, ThreadsTypeOK
<1>11. /\ incoming'[t].quantity = order.quantity - traded
       /\ incoming'[t].symbol = c /\ incoming'[t].price = order.price
  BY <1>1, <1>3, <1>10 DEF Order
<1>12. MayRest(c, order.price, order.quantity)
  BY <1>1, <1>2, <1>4 DEF RestsApproved
<1>13. CallMayRest(t)'
  <2>1. PICK left \in Int : left = order.quantity - traded /\ left <= order.quantity
    BY <1>4, <1>7
  <2>2. left > 0 => MayRest(c, order.price, left)
    BY <1>4, <1>12, <2>1, FewerMayRest
  <2> QED BY <1>11, <2>1, <2>2 DEF CallMayRest, MayRest
<1> QED BY <1>8, <1>9, <1>10, <1>13, RestsApprovedStep

\* The remainder of the incoming order may rest.
LEMMA RestRemainderMayRest ==
  ASSUME CoreInv, RestsApproved, NEW t \in Threads, pc[t] = "match",
         RestRemainder(incoming[t])
  PROVE  \/ UNCHANGED books
         \/ \E s, sd, new : SideMoved(s, sd, new) /\ MayRestAll(s, new)
<1>1. PICK order, c, sd, entry, new :
        /\ order = incoming[t] /\ c = order.symbol /\ sd = order.side
        /\ entry = [order_id |-> order.order_id, quantity |-> order.quantity]
        /\ new = Rest(books[c][sd], order.price, entry)
  OBVIOUS
<1>2. CASE order.quantity > 0
  <2>1. order \in Order /\ c \in Registered /\ sd \in Side /\ order.price \in Prices
    BY <1>1 DEF CoreInv, HandlerOK, Order
  <2>2. books' = [books EXCEPT ![c][sd] = new]
    BY <1>1, <1>2 DEF RestRemainder
  <2>3. SideMoved(c, sd, new)
    BY <2>1, <2>2, ExceptMoves
  <2>4. Tidy(books[c][sd], Booked(c, sd))
    BY <2>1 DEF CoreInv, BooksTidy
  <2>5. MayRestAll(c, books[c][sd])
    BY <2>1 DEF RestsApproved, MayRestAll
  <2>6. MayRest(c, order.price, entry.quantity)
    BY <1>1, <1>2 DEF RestsApproved
  <2>7. MayRestAll(c, new)
    BY <1>1, <2>1, <2>4, <2>5, <2>6, RestMayRest
  <2> QED BY <2>3, <2>7
<1>3. CASE ~(order.quantity > 0)
  BY <1>1, <1>3 DEF RestRemainder
<1> QED BY <1>2, <1>3

\* What a cancel or replace leaves in the book may rest.
LEMMA PullMayRest ==
  ASSUME CoreInv, RestsApproved, NEW t \in Threads, Pull(t)
  PROVE  RestsApproved'
<1>1. PICK c, sd, price, id :
        /\ c = snap[t].symbol /\ sd = snap[t].side
        /\ price = snap[t].price /\ id = req[t].order_id
  OBVIOUS
<1>2. /\ pc[t] = "pull" /\ books' = [books EXCEPT ![c][sd] = CancelFromLevel(@, price, id)]
      /\ pc' = [pc EXCEPT ![t] = IF req[t].kind = "F" THEN "cancel" ELSE "replace"]
      /\ UNCHANGED incoming
  BY <1>1 DEF Pull, Goto
<1>3. c \in Registered /\ sd \in Side
  BY <1>1, <1>2, AmendLocals DEF OrderStates
<1>4. PICK new : new = CancelFromLevel(books[c][sd], price, id)
  OBVIOUS
<1>5. SideMoved(c, sd, new)
  BY <1>2, <1>3, <1>4, ExceptMoves
<1>6. Tidy(books[c][sd], Booked(c, sd)) /\ MayRestAll(c, books[c][sd])
  BY <1>3 DEF CoreInv, BooksTidy, RestsApproved, MayRestAll
<1>7. MayRestAll(c, new)
  BY <1>4, <1>6, CancelMayRest
<1>8. /\ CallMayRest(t)'
      /\ \A u \in Threads \ {t} : pc'[u] = pc[u] /\ incoming'[u] = incoming[u]
  BY <1>2 DEF CallMayRest, CoreInv, TypeOK, ThreadsTypeOK
<1> QED BY <1>5, <1>7, <1>8, RestsApprovedStep

\* Only checked orders enter match_orders.
LEMMA EnterMatchMayRest ==
  ASSUME CoreInv, RestsApproved, NEW t \in Threads, NEW order,
         Approved(risk_ctx, order), incoming' = [incoming EXCEPT ![t] = order],
         pc' = [pc EXCEPT ![t] = "match"], UNCHANGED books
  PROVE  RestsApproved'
<1>1. /\ incoming'[t] = order
      /\ \A u \in Threads \ {t} : pc'[u] = pc[u] /\ incoming'[u] = incoming[u]
  BY DEF CoreInv, TypeOK, ThreadsTypeOK
<1>2. CallMayRest(t)'
  BY <1>1, ApprovedMayRest DEF CallMayRest, MayRest
<1> QED BY <1>1, <1>2, RestsApprovedStep

\* Every other step leaves the books alone and t outside match_orders.
LEMMA ElsewhereMayRest ==
  ASSUME CoreInv, RestsApproved, NEW t \in Threads, NEW where, where # "match",
         pc' = [pc EXCEPT ![t] = where],
         \A u \in Threads \ {t} : incoming'[u] = incoming[u],
         NEW s, NEW sd, NEW new, (SideMoved(s, sd, new) /\ MayRestAll(s, new)) \/ UNCHANGED books
  PROVE  RestsApproved'
<1>1. pc'[t] # "match" /\ \A u \in Threads \ {t} : pc'[u] = pc[u]
  BY DEF CoreInv, TypeOK, ThreadsTypeOK
<1>2. CallMayRest(t)'
  BY <1>1 DEF CallMayRest
<1> QED BY <1>1, <1>2, RestsApprovedStep

\* No path into a book avoids check_order.
LEMMA NextRestsApproved ==
  ASSUME LimitsAssumption, CoreInv, RestsApproved, Next
  PROVE  RestsApproved'
<1>1. PICK t \in Threads : Receive(t) \/ Enter(t) \/ Continue(t)
  BY DEF Next
<1>2. incoming \in [Threads -> Order \cup {None}] /\ pc \in [Threads -> PC]
  BY DEF CoreInv, TypeOK, ThreadsTypeOK
<1>3. ASSUME NEW where, where # "match", pc' = [pc EXCEPT ![t] = where], UNCHANGED books,
             \E x : incoming' = [incoming EXCEPT ![t] = x]
      PROVE  RestsApproved'
  <2>1. \A u \in Threads \ {t} : incoming'[u] = incoming[u]
    BY <1>2, <1>3
  <2> QED BY <1>3, <2>1, ElsewhereMayRest
<1>4. UNCHANGED incoming => incoming' = [incoming EXCEPT ![t] = incoming[t]]
  BY <1>2
<1>5. UNCHANGED pc => pc' = [pc EXCEPT ![t] = pc[t]]
  BY <1>2
<1>6. CASE Receive(t)
  BY <1>3, <1>4, <1>6 DEF Receive, ReceiveOrder, ReceiveAmend, shared, Goto
<1>7. CASE SubmitRejected(t) \/ AmendRefused(t) \/ CancelDone(t) \/ ReplaceAbandoned(t)
           \/ ApplyLastTrade(t)
  BY <1>3, <1>7 DEF SubmitRejected, AmendRefused, CancelDone, ReplaceAbandoned,
                    ApplyLastTrade, Return, Goto
<1>8. CASE AmendStarted(t)
  BY <1>3, <1>4, <1>8 DEF AmendStarted, Goto
<1>9. CASE ApplyTrade(t)
  BY <1>3, <1>4, <1>5, <1>9 DEF ApplyTrade
<1>10. CASE SubmitAccepted(t)
  BY <1>10, EnterMatchMayRest DEF SubmitAccepted, Acceptable, Goto
<1>11. CASE ReplaceCommitted(t)
  BY <1>11, EnterMatchMayRest DEF ReplaceCommitted, Replaceable, Goto
<1>12. CASE MatchedNothing(t) \/ MatchedSome(t)
  <2>1. pc[t] = "match" /\ RestRemainder(incoming[t])
    BY <1>12 DEF MatchedNothing, MatchedSome
  <2>2. PICK where : where # "match" /\ pc' = [pc EXCEPT ![t] = where]
    BY <1>12 DEF MatchedNothing, MatchedSome, Return, Goto
  <2>3. \A u \in Threads \ {t} : incoming'[u] = incoming[u]
    BY <1>2, <1>12 DEF MatchedNothing, MatchedSome, Return
  <2> QED BY <2>1, <2>2, <2>3, RestRemainderMayRest, ElsewhereMayRest
<1>13. CASE MatchOne(t) \/ Pull(t)
  BY <1>13, MatchOneMayRest, PullMayRest
<1> QED BY <1>1, <1>6, <1>7, <1>8, <1>9, <1>10, <1>11, <1>12, <1>13 DEF Enter, Continue

\* Whatever rests in a book passes every risk check for the shares that rest,
\* and so does what a running call has left to match.
THEOREM RestsApprovedAlways ==
  ASSUME LimitsAssumption
  PROVE  Spec => []RestsApproved
<1>1. Init => RestsApproved
  BY DEF Init, RestsApproved, NoLevels
<1>2. IndInv /\ RestsApproved /\ [Next]_vars => RestsApproved'
  <2> SUFFICES ASSUME IndInv, RestsApproved, [Next]_vars PROVE RestsApproved'
    OBVIOUS
  <2>1. CASE Next
    BY <2>1, NextRestsApproved DEF IndInv
  <2>2. CASE UNCHANGED vars
    BY <2>2 DEF vars, shared, locals, RestsApproved, MayRest
  <2> QED BY <2>1, <2>2
<1> QED BY <1>1, <1>2, IndInvAlways, PTL DEF Spec

\* Whatever rests in a book would still pass every risk check at its price and
\* for the shares that rest, after any partial fills and replaces.
THEOREM BookedWithinLimitsAlways ==
  ASSUME LimitsAssumption
  PROVE  Spec => []BookedWithinLimits
<1>1. RestsApproved => BookedWithinLimits
  <2> SUFFICES ASSUME RestsApproved, NEW s \in Registered, NEW place \in Places(s)
               PROVE  Approved(risk_ctx, [symbol |-> s, price |-> place[2],
                                          quantity |-> EntryAt(s, place).quantity])
    BY DEF BookedWithinLimits
  <2>1. PICK sd \in Side : \E p \in DOMAIN books[s][sd] :
          \E i \in DOMAIN books[s][sd][p] : place = <<sd, p, i>>
    BY DEF Places
  <2>2. PICK p \in DOMAIN books[s][sd] :
          \E i \in DOMAIN books[s][sd][p] : place = <<sd, p, i>>
    BY <2>1
  <2>3. PICK i \in DOMAIN books[s][sd][p] : place = <<sd, p, i>>
    BY <2>2
  <2>4. MayRest(s, p, books[s][sd][p][i].quantity)
    BY DEF RestsApproved
  <2> QED BY <2>3, <2>4 DEF MayRest, EntryAt
<1> QED BY <1>1, RestsApprovedAlways, PTL

-----------------------------------------------------------------------------
(* Trade ids: next_trade_id_ gives every trade of every book an id of its  *)
(* own.  TradeIdsUnique is inductive together with the fact that the       *)
(* counter is ahead of every id given out.                                 *)

\* The counter is ahead of every trade, applied or not.
TradeIdsBelow ==
  /\ \A i \in DOMAIN trades : trades[i].trade_id < next_trade_id
  /\ \A t \in Threads : \A i \in DOMAIN matched[t] :
       matched[t][i].trade_id < next_trade_id

TradeIdsInv == TradeIdsBelow /\ TradeIdsUnique

-----------------------------------------------------------------------------
(* The three things a step may do to trades.                               *)

\* The trades of thread t, if any are left, are forgotten.
Forgotten(t) ==
  /\ UNCHANGED <<trades, next_trade_id>>
  /\ matched' = [matched EXCEPT ![t] = <<>>]

\* Thread t makes a trade with the counter's id.
Made(t) ==
  \E trade \in Trade :
    /\ trade.trade_id = next_trade_id
    /\ next_trade_id' = next_trade_id + 1
    /\ matched' = [matched EXCEPT ![t] = Append(@, trade)]
    /\ UNCHANGED trades

\* The first trade of thread t is applied.
Moved(t) ==
  /\ matched[t] # <<>>
  /\ trades' = Append(trades, matched[t][1])
  /\ matched' = [matched EXCEPT ![t] = Tail(@)]
  /\ UNCHANGED next_trade_id

\* Forgetting trades keeps the ids unique.
LEMMA ForgottenKeeps ==
  ASSUME TypeOK, TradeIdsInv, NEW t \in Threads, Forgotten(t)
  PROVE  TradeIdsInv'
<1>1. /\ matched'[t] = <<>>
      /\ \A u \in Threads \ {t} : matched'[u] = matched[u]
  BY DEF Forgotten, TypeOK, ThreadsTypeOK
<1>2. \A u \in Threads : \A i \in DOMAIN matched'[u] :
        i \in DOMAIN matched[u] /\ matched'[u][i] = matched[u][i]
  BY <1>1
<1>3. trades' = trades /\ next_trade_id' = next_trade_id
  BY DEF Forgotten
<1>4. TradeIdsBelow'
  BY <1>2, <1>3 DEF TradeIdsInv, TradeIdsBelow
<1>5. TradeIdsUnique'
  BY <1>2, <1>3 DEF TradeIdsInv, TradeIdsUnique
<1> QED BY <1>4, <1>5 DEF TradeIdsInv

\* The id of a new trade is above all others.
LEMMA MadeKeeps ==
  ASSUME TypeOK, TradeIdsInv, NEW t \in Threads, Made(t)
  PROVE  TradeIdsInv'
<1>1. PICK trade \in Trade :
        /\ trade.trade_id = next_trade_id
        /\ next_trade_id' = next_trade_id + 1
        /\ matched' = [matched EXCEPT ![t] = Append(@, trade)]
        /\ UNCHANGED trades
  BY DEF Made
<1>2. next_trade_id \in Nat /\ matched \in [Threads -> Seq(Trade)] /\ trades \in Seq(Trade)
  BY DEF TypeOK, OmsTypeOK, ThreadsTypeOK
<1> DEFINE Pending(u, i) == u = t /\ i = Len(matched[t]) + 1
<1>3. ASSUME NEW u \in Threads, NEW i \in DOMAIN matched'[u]
      PROVE  \/ Pending(u, i) /\ matched'[u][i] = trade
             \/ i \in DOMAIN matched[u] /\ matched'[u][i] = matched[u][i]
  <2>1. CASE u = t
    <3>1. matched'[t] = Append(matched[t], trade) /\ matched[t] \in Seq(Trade)
      BY <1>1, <1>2
    <3> QED BY <2>1, <3>1
  <2>2. CASE u # t
    BY <1>1, <1>2, <2>2
  <2> QED BY <2>1, <2>2
<1>8. \A tr \in Trade : tr.trade_id \in Nat
  BY DEF Trade
<1>4. \A i \in DOMAIN trades : trades[i].trade_id \in Nat
  <2>1. \A i \in DOMAIN trades : trades[i] \in Trade
    BY <1>2
  <2> QED BY <1>8, <2>1
<1>5. \A u \in Threads : \A i \in DOMAIN matched[u] : matched[u][i].trade_id \in Nat
  <2>1. \A u \in Threads : \A i \in DOMAIN matched[u] : matched[u][i] \in Trade
    BY <1>2
  <2> QED BY <1>8, <2>1
<1>6. TradeIdsBelow'
  BY <1>1, <1>2, <1>3, <1>4, <1>5 DEF TradeIdsInv, TradeIdsBelow
<1>7. TradeIdsUnique'
  <2>1. \A i, j \in DOMAIN trades' : i # j => trades'[i].trade_id # trades'[j].trade_id
    BY <1>1 DEF TradeIdsInv, TradeIdsUnique
  <2>2. ASSUME NEW u \in Threads, NEW i \in DOMAIN matched'[u], NEW j \in DOMAIN trades'
        PROVE  matched'[u][i].trade_id # trades'[j].trade_id
    <3>1. CASE Pending(u, i) /\ matched'[u][i] = trade
      BY <1>1, <1>2, <1>4, <3>1 DEF TradeIdsInv, TradeIdsBelow
    <3>2. CASE i \in DOMAIN matched[u] /\ matched'[u][i] = matched[u][i]
      BY <1>1, <3>2 DEF TradeIdsInv, TradeIdsUnique
    <3> QED BY <1>3, <3>1, <3>2
  <2>3. ASSUME NEW u \in Threads, NEW v \in Threads,
               NEW i \in DOMAIN matched'[u], NEW j \in DOMAIN matched'[v],
               <<u, i>> # <<v, j>>
        PROVE  matched'[u][i].trade_id # matched'[v][j].trade_id
    <3>1. u # v \/ i # j
      BY <2>3
    <3>2. CASE Pending(u, i) /\ matched'[u][i] = trade
      <4>1. j \in DOMAIN matched[v] /\ matched'[v][j] = matched[v][j]
        BY <1>3, <3>1, <3>2
      <4> QED BY <1>1, <1>2, <1>5, <3>2, <4>1 DEF TradeIdsInv, TradeIdsBelow
    <3>3. CASE Pending(v, j) /\ matched'[v][j] = trade
      <4>1. i \in DOMAIN matched[u] /\ matched'[u][i] = matched[u][i]
        BY <1>3, <3>1, <3>3
      <4> QED BY <1>1, <1>2, <1>5, <3>3, <4>1 DEF TradeIdsInv, TradeIdsBelow
    <3>4. CASE /\ i \in DOMAIN matched[u] /\ matched'[u][i] = matched[u][i]
               /\ j \in DOMAIN matched[v] /\ matched'[v][j] = matched[v][j]
      BY <2>3, <3>4 DEF TradeIdsInv, TradeIdsUnique
    <3> QED BY <1>3, <3>2, <3>3, <3>4
  <2> QED BY <2>1, <2>2, <2>3 DEF TradeIdsUnique
<1> QED BY <1>6, <1>7 DEF TradeIdsInv

\* A trade that moves to trades_ takes its id along.
LEMMA MovedKeeps ==
  ASSUME TypeOK, TradeIdsInv, NEW t \in Threads, Moved(t)
  PROVE  TradeIdsInv'
<1>1. matched \in [Threads -> Seq(Trade)] /\ trades \in Seq(Trade)
  BY DEF TypeOK, OmsTypeOK, ThreadsTypeOK
<1>2. PICK first \in Trade : first = matched[t][1]
  BY <1>1 DEF Moved
<1>3. 1 \in DOMAIN matched[t]
  BY <1>1 DEF Moved
<1>4. ASSUME NEW j \in DOMAIN trades'
      PROVE  \/ j = Len(trades) + 1 /\ trades'[j] = first
             \/ j \in DOMAIN trades /\ trades'[j] = trades[j]
  <2>1. trades' = Append(trades, first)
    BY <1>2 DEF Moved
  <2> QED BY <1>1, <2>1
<1> DEFINE Was(u, i) == IF u = t THEN i + 1 ELSE i
<1>5. ASSUME NEW u \in Threads, NEW i \in DOMAIN matched'[u]
      PROVE  /\ i \in Nat \ {0}
             /\ Was(u, i) \in DOMAIN matched[u]
             /\ matched'[u][i] = matched[u][Was(u, i)]
  <2>1. CASE u = t
    <3>1. matched'[t] = Tail(matched[t]) /\ matched[t] \in Seq(Trade) /\ matched[t] # <<>>
      BY <1>1 DEF Moved
    <3> QED BY <2>1, <3>1
  <2>2. CASE u # t
    <3>1. matched'[u] = matched[u] /\ matched[u] \in Seq(Trade)
      BY <1>1, <2>2 DEF Moved
    <3> QED BY <2>2, <3>1
  <2> QED BY <2>1, <2>2
<1>6. next_trade_id' = next_trade_id
  BY DEF Moved
<1>7. TradeIdsBelow'
  BY <1>2, <1>3, <1>4, <1>5, <1>6 DEF TradeIdsInv, TradeIdsBelow
<1>8. TradeIdsUnique'
  <2>1. ASSUME NEW i \in DOMAIN trades', NEW j \in DOMAIN trades', i # j
        PROVE  trades'[i].trade_id # trades'[j].trade_id
    BY <1>2, <1>3, <1>4, <2>1 DEF TradeIdsInv, TradeIdsUnique
  <2>2. ASSUME NEW u \in Threads, NEW i \in DOMAIN matched'[u], NEW j \in DOMAIN trades'
        PROVE  matched'[u][i].trade_id # trades'[j].trade_id
    <3>1. CASE j \in DOMAIN trades /\ trades'[j] = trades[j]
      BY <1>5, <3>1 DEF TradeIdsInv, TradeIdsUnique
    <3>2. CASE trades'[j] = first
      <4>1. u # t \/ Was(u, i) # 1
        BY <1>5
      <4>2. <<u, Was(u, i)>> # <<t, 1>>
        BY <4>1
      <4> QED BY <1>2, <1>3, <1>5, <3>2, <4>2 DEF TradeIdsInv, TradeIdsUnique
    <3> QED BY <1>4, <3>1, <3>2
  <2>3. ASSUME NEW u \in Threads, NEW v \in Threads,
               NEW i \in DOMAIN matched'[u], NEW j \in DOMAIN matched'[v],
               <<u, i>> # <<v, j>>
        PROVE  matched'[u][i].trade_id # matched'[v][j].trade_id
    <3>1. u # v \/ i # j
      BY <2>3
    <3>2. <<u, Was(u, i)>> # <<v, Was(v, j)>>
      <4>1. u # v \/ Was(u, i) # Was(v, j)
        BY <1>5, <3>1
      <4> QED BY <4>1
    <3> QED BY <1>5, <3>2 DEF TradeIdsInv, TradeIdsUnique
  <2> QED BY <2>1, <2>2, <2>3 DEF TradeIdsUnique
<1> QED BY <1>7, <1>8 DEF TradeIdsInv

-----------------------------------------------------------------------------
(* The invariant.                                                          *)

\* Every step does one of the three, or nothing, to trades.
LEMMA NextTradeIds ==
  ASSUME CoreInv, TradeIdsInv, Next
  PROVE  TradeIdsInv'
<1>1. PICK t \in Threads : Receive(t) \/ Enter(t) \/ Continue(t)
  BY DEF Next
<1>2. TypeOK
  BY DEF CoreInv
<1>3. CASE UNCHANGED <<trades, next_trade_id, matched>>
  BY <1>3 DEF TradeIdsInv, TradeIdsBelow, TradeIdsUnique
<1>4. CASE Receive(t)
  BY <1>3, <1>4 DEF Receive, ReceiveOrder, ReceiveAmend, shared
<1>5. CASE SubmitAccepted(t) \/ AmendStarted(t) \/ MatchedSome(t) \/ Pull(t)
           \/ ReplaceCommitted(t)
  BY <1>3, <1>5
     DEF SubmitAccepted, AmendStarted, MatchedSome, Pull, ReplaceCommitted
<1>6. CASE SubmitRejected(t) \/ AmendRefused(t) \/ MatchedNothing(t) \/ CancelDone(t)
           \/ ReplaceAbandoned(t)
  <2>1. Forgotten(t)
    BY <1>6 DEF SubmitRejected, AmendRefused, MatchedNothing, CancelDone,
       ReplaceAbandoned, Return, Forgotten
  <2> QED BY <1>2, <2>1, ForgottenKeeps
<1>7. CASE MatchOne(t)
  <2> DEFINE order   == incoming[t]
             side    == Opposite(order.side)
             best    == Best(side, Against(order))
             resting == Against(order)[best][1]
             traded  == IF order.quantity <= resting.quantity
                          THEN order.quantity ELSE resting.quantity
             trade   == NewTrade(order, resting.order_id, best, traded)
  <2>1. /\ next_trade_id' = next_trade_id + 1 /\ UNCHANGED trades
        /\ matched' = [matched EXCEPT ![t] = Append(@, trade)]
    BY <1>7 DEF MatchOne, TakeTradeId
  <2>2. trade.trade_id = next_trade_id
    BY DEF NewTrade
  <2>3. trade \in Trade
    <3>1. TypeOK'
      BY <1>7, MatchOneKeeps DEF CoreInv
    <3>2. matched'[t] \in Seq(Trade) /\ matched[t] \in Seq(Trade)
      BY <1>2, <3>1 DEF TypeOK, ThreadsTypeOK
    <3>3. matched'[t] = Append(matched[t], trade)
      BY <1>2, <2>1 DEF TypeOK, ThreadsTypeOK
    <3> HIDE DEF trade
    <3>4. matched'[t][Len(matched[t]) + 1] = trade
          /\ Len(matched[t]) + 1 \in DOMAIN matched'[t]
      BY <3>2, <3>3
    <3> QED BY <3>2, <3>4
  <2> HIDE DEF trade
  <2> QED BY <1>2, <2>1, <2>2, <2>3, MadeKeeps DEF Made
<1>8. CASE ApplyTrade(t) \/ ApplyLastTrade(t)
  <2>1. pc[t] = "apply" /\ trades' = Append(trades, matched[t][1])
        /\ UNCHANGED next_trade_id
    BY <1>8 DEF ApplyTrade, ApplyLastTrade, Apply
  <2>2. matched[t] # <<>> /\ matched[t] \in Seq(Trade)
    BY <1>2, <2>1 DEF CoreInv, HandlerOK, TypeOK, ThreadsTypeOK
  <2>3. matched' = [matched EXCEPT ![t] = Tail(@)]
    <3>1. CASE ApplyTrade(t)
      BY <3>1 DEF ApplyTrade
    <3>2. CASE ApplyLastTrade(t)
      <4>1. matched' = [matched EXCEPT ![t] = <<>>] /\ Len(matched[t]) = 1
        BY <3>2 DEF ApplyLastTrade, Return
      <4>2. Tail(matched[t]) = <<>>
        <5>1. Tail(matched[t]) \in Seq(Trade) /\ Len(Tail(matched[t])) = 0
          BY <2>2, <4>1
        <5> QED BY <5>1, EmptySeq
      <4>3. [matched EXCEPT ![t] = Tail(@)] = [matched EXCEPT ![t] = Tail(matched[t])]
        BY Zenon
      <4> QED BY <4>1, <4>2, <4>3
    <3> QED BY <1>8, <3>1, <3>2
  <2> QED BY <1>2, <2>1, <2>2, <2>3, MovedKeeps DEF Moved
<1> QED BY <1>1, <1>4, <1>5, <1>6, <1>7, <1>8 DEF Enter, Continue

\* No two trades ever share a trade id, for any number of threads and books.
THEOREM TradeIdsUniqueAlways == Spec => []TradeIdsUnique
<1>1. Init => TradeIdsInv
  BY DEF Init, TradeIdsInv, TradeIdsBelow, TradeIdsUnique
<1>2. IndInv /\ TradeIdsInv /\ [Next]_vars => TradeIdsInv'
  <2> SUFFICES ASSUME IndInv, TradeIdsInv, [Next]_vars PROVE TradeIdsInv'
    OBVIOUS
  <2>1. CASE Next
    BY <2>1, NextTradeIds DEF IndInv
  <2>2. CASE UNCHANGED vars
    BY <2>2 DEF vars, shared, locals, TradeIdsInv, TradeIdsBelow, TradeIdsUnique
  <2> QED BY <2>1, <2>2
<1>3. TradeIdsInv => TradeIdsUnique
  BY DEF TradeIdsInv
<1> QED BY <1>1, <1>2, <1>3, IndInvAlways, PTL DEF Spec

\* What keeps the books safe holds together in every state, for any number of
\* threads, orders and symbols: no bid meets an ask, whatever rests may rest, and
\* oms_mutex_ is in the hands of a handler only while it applies its trades.
THEOREM BooksSafeAlways ==
  ASSUME LimitsAssumption
  PROVE  Spec => []BooksSafe
<1>1. NoCross /\ RestsApproved /\ BatchOwner => BooksSafe
  BY DEF BooksSafe
<1> QED BY <1>1, NoCrossAlways, RestsApprovedAlways, BatchOwnerAlways, PTL

-----------------------------------------------------------------------------
(* Fills are executions.                                                   *)

\* The total of an order's executions is that of what each trade has of them.
LEMMA ExecutedSumsUp ==
  ASSUME NEW log \in Seq(Trade), NEW id, NEW n, n = Len(log)
  PROVE  /\ n \in Nat
         /\ SumsUp(ExecutedUpTo(log, id), n, [i \in 1..n |-> ExecutedIn(log[i], id)])
         /\ \A i \in 1..n : ExecutedIn(log[i], id) \in Int
<1> DEFINE q == [i \in 1..n |-> ExecutedIn(log[i], id)]
<1>1. n \in Nat /\ \A i \in 1..n : log[i] \in Trade
  OBVIOUS
<1>2. \A i \in 1..n : ExecutedIn(log[i], id) \in Int
  BY <1>1 DEF ExecutedIn, Trade
<1>3. \A i \in 1..n : q[i] \in Int
  BY <1>2
<1>4. PICK f : SumsUp(f, n, q)
  <2> HIDE DEF q
  <2> QED BY <1>1, <1>3, SumsExist
<1>5. f = [i \in 0..n |-> IF i = 0 THEN 0 ELSE f[i - 1] + ExecutedIn(log[i], id)]
  <2>1. \A i \in 0..n : i # 0 => q[i] = ExecutedIn(log[i], id)
    BY <1>1
  <2>2. f = [i \in 0..n |-> IF i = 0 THEN 0 ELSE f[i - 1] + q[i]]
    BY <1>4 DEF SumsUp
  <2> HIDE DEF q
  <2> QED BY <2>1, <2>2
<1>6. PICK t : t = ExecutedUpTo(log, id)
  OBVIOUS
<1>7. t = [i \in 0..n |-> IF i = 0 THEN 0 ELSE t[i - 1] + ExecutedIn(log[i], id)]
  BY <1>5, <1>6, Zenon DEF ExecutedUpTo
<1>8. SumsUp(t, n, q)
  <2>1. \A i \in 0..n : i # 0 => q[i] = ExecutedIn(log[i], id)
    BY <1>1
  <2> HIDE DEF q
  <2> QED BY <1>7, <2>1 DEF SumsUp
<1> QED BY <1>1, <1>2, <1>6, <1>8

\* A trade that is added to the log adds what it has of the order's executions.
LEMMA ExecutedGrows ==
  ASSUME NEW log \in Seq(Trade), NEW trade \in Trade, NEW id,
         NEW longer, longer = Append(log, trade)
  PROVE  ExecutedUpTo(longer, id)[Len(longer)]
           = ExecutedUpTo(log, id)[Len(log)] + ExecutedIn(trade, id)
<1>1. PICK n \in Nat : n = Len(log)
  OBVIOUS
<1>2. /\ longer \in Seq(Trade) /\ Len(longer) = n + 1 /\ longer[n + 1] = trade
      /\ \A i \in 1..n : longer[i] = log[i]
  BY <1>1, AppendProperties
<1>3. PICK f, g : f = ExecutedUpTo(log, id) /\ g = ExecutedUpTo(longer, id)
  OBVIOUS
<1>4. PICK q : q = [i \in 1..n |-> ExecutedIn(log[i], id)]
  OBVIOUS
<1>5. PICK r : r = [i \in 1..(n + 1) |-> ExecutedIn(longer[i], id)]
  OBVIOUS
<1>6. SumsUp(f, n, q)
  BY <1>1, <1>3, <1>4, ExecutedSumsUp
<1>7. SumsUp(g, n + 1, r)
  <2>1. PICK m : m = n + 1
    OBVIOUS
  <2>2. SumsUp(g, m, [i \in 1..m |-> ExecutedIn(longer[i], id)])
    BY <1>2, <1>3, <2>1, ExecutedSumsUp
  <2> QED BY <1>5, <2>1, <2>2
<1>8. SameUpTo(n, q, r)
  BY <1>2, <1>4, <1>5 DEF SameUpTo
<1>9. f[n] = g[n]
  <2>1. PICK m : m \in Nat /\ m = n + 1 /\ n <= m
    BY <1>1
  <2>2. m \in Nat /\ n <= m /\ n \in Nat
    BY <1>1, <2>1
  <2>3. SumsUp(g, m, r)
    BY <1>7, <2>1
  <2> QED BY <1>6, <1>8, <2>2, <2>3, SumsAgree
<1>10. g[n + 1] = g[n] + r[n + 1]
  BY <1>1, <1>7 DEF SumsUp
<1>11. r[n + 1] = ExecutedIn(trade, id)
  BY <1>1, <1>2, <1>5
<1> QED BY <1>1, <1>2, <1>3, <1>9, <1>10, <1>11

\* An order that is in no trade has no executions.
LEMMA ExecutedNothing ==
  ASSUME NEW log \in Seq(Trade), NEW id, \A i \in DOMAIN log : ExecutedIn(log[i], id) = 0
  PROVE  ExecutedUpTo(log, id)[Len(log)] = 0
<1>1. PICK n \in Nat : n = Len(log) /\ DOMAIN log = 1..n
  OBVIOUS
<1>2. PICK q : q = [i \in 1..n |-> ExecutedIn(log[i], id)]
  OBVIOUS
<1>3. SumsUp(ExecutedUpTo(log, id), n, q)
  BY <1>1, <1>2, ExecutedSumsUp
<1>4. \A i \in 1..n : q[i] = 0
  BY <1>1, <1>2
<1> QED BY <1>1, <1>3, <1>4, NothingSumsToZero

\* A step that adds no trade and changes no order's fills.
LEMMA SameExecutions ==
  ASSUME FilledIsExecuted, UNCHANGED trades,
         \A x \in DOMAIN order_states' :
           /\ x \in DOMAIN order_states
           /\ order_states'[x].filled_quantity = order_states[x].filled_quantity
  PROVE  FilledIsExecuted'
<1> SUFFICES ASSUME NEW x \in DOMAIN order_states'
             PROVE  order_states'[x].filled_quantity = ExecutedUpTo(trades', x)[Len(trades')]
  BY DEF FilledIsExecuted
<1>1. ExecutedUpTo(trades', x)[Len(trades')] = ExecutedUpTo(trades, x)[Len(trades)]
  OBVIOUS
<1> QED BY <1>1 DEF FilledIsExecuted

\* Orders' numbers of shares filled stay, no trade is added, and an order that
\* arrives is unfilled and in no trade.
LEMMA ArrivalExecutions ==
  ASSUME CoreInv, FilledIsExecuted, UNCHANGED trades,
         NEW id, id \notin DOMAIN order_states, NEW st, st.filled_quantity = 0,
         Insert(id, st)
  PROVE  FilledIsExecuted'
<1>1. trades \in Seq(Trade) /\ trades \in Seq(PairTrade)
  BY DEF CoreInv, TypeOK, OmsTypeOK, TradesTidy
<1>2. \A i \in DOMAIN trades : ExecutedIn(trades[i], id) = 0
  <2> SUFFICES ASSUME NEW i \in DOMAIN trades PROVE ExecutedIn(trades[i], id) = 0
    OBVIOUS
  <2>1. trades[i] \in PairTrade
    BY <1>1
  <2>2. /\ trades[i].buy_order_id \in DOMAIN order_states
        /\ trades[i].sell_order_id \in DOMAIN order_states
    BY <2>1 DEF PairTrade, PairsSides, Belongs
  <2> QED BY <2>2 DEF ExecutedIn
<1>3. ExecutedUpTo(trades, id)[Len(trades)] = 0
  BY <1>1, <1>2, ExecutedNothing
<1>4. /\ DOMAIN order_states' = DOMAIN order_states \cup {id}
      /\ order_states'[id] = st
      /\ \A x \in DOMAIN order_states : order_states'[x] = order_states[x]
  BY DEF Insert
<1> SUFFICES ASSUME NEW x \in DOMAIN order_states'
             PROVE  order_states'[x].filled_quantity = ExecutedUpTo(trades', x)[Len(trades')]
  BY DEF FilledIsExecuted
<1>5. ExecutedUpTo(trades', x)[Len(trades')] = ExecutedUpTo(trades, x)[Len(trades)]
  OBVIOUS
<1>6. CASE x = id
  BY <1>3, <1>4, <1>5, <1>6
<1>7. CASE x # id
  BY <1>4, <1>5, <1>7 DEF FilledIsExecuted
<1> QED BY <1>6, <1>7

\* A trade that is applied adds its shares to those of both of its orders.
LEMMA ApplyExecutions ==
  ASSUME CoreInv, FilledIsExecuted, NEW trade \in PairTrade, Apply(trade)
  PROVE  FilledIsExecuted'
<1>1. OmsTypeOK /\ LiveRegistered /\ trades \in Seq(Trade) /\ trade \in Trade
  BY DEF CoreInv, TypeOK, OmsTypeOK, PairTrade
<1>2. /\ DOMAIN order_states' = DOMAIN order_states
      /\ \A id \in DOMAIN order_states :
           order_states'[id] = IF id \in {trade.buy_order_id, trade.sell_order_id}
                                 THEN AfterFill(order_states[id], trade.quantity)
                                 ELSE order_states[id]
  BY <1>1, ApplyKept
<1>3. PICK longer : longer = Append(trades, trade)
  OBVIOUS
<1>4. trades' = longer
  BY <1>3 DEF Apply
<1>5. trade.quantity \in Int
  BY <1>1 DEF Trade
<1> SUFFICES ASSUME NEW x \in DOMAIN order_states
             PROVE  order_states'[x].filled_quantity = ExecutedUpTo(trades', x)[Len(trades')]
  BY <1>2 DEF FilledIsExecuted
<1>6. ExecutedUpTo(longer, x)[Len(longer)]
        = ExecutedUpTo(trades, x)[Len(trades)] + ExecutedIn(trade, x)
  BY <1>1, <1>3, ExecutedGrows
<1>7. order_states[x].filled_quantity = ExecutedUpTo(trades, x)[Len(trades)]
  BY DEF FilledIsExecuted
<1>8. order_states[x] \in OrderStates
  BY <1>1 DEF OmsTypeOK
<1>9. order_states'[x].filled_quantity
        = order_states[x].filled_quantity + ExecutedIn(trade, x)
  <2>1. CASE x \in {trade.buy_order_id, trade.sell_order_id}
    BY <1>2, <1>5, <1>8, <2>1, AfterFillType DEF ExecutedIn
  <2>2. CASE x \notin {trade.buy_order_id, trade.sell_order_id}
    BY <1>2, <1>8, <2>2 DEF ExecutedIn, OrderStates
  <2> QED BY <2>1, <2>2
<1> QED BY <1>4, <1>6, <1>7, <1>9

\* Every step keeps fills the totals of executions.
LEMMA NextExecutions ==
  ASSUME CoreInv, FilledIsExecuted, Next
  PROVE  FilledIsExecuted'
<1>1. PICK t \in Threads : Receive(t) \/ Enter(t) \/ Continue(t)
  BY DEF Next
<1>2. OmsTypeOK /\ ThreadsTypeOK
  BY DEF CoreInv, TypeOK
<1>3. CASE UNCHANGED <<order_states, trades>>
  BY <1>3 DEF FilledIsExecuted
<1>4. CASE Receive(t) \/ AmendRefused(t) \/ AmendStarted(t) \/ MatchOne(t)
           \/ MatchedNothing(t) \/ MatchedSome(t) \/ Pull(t)
  BY <1>3, <1>4
     DEF Receive, ReceiveOrder, ReceiveAmend, shared, AmendRefused, AmendStarted,
         MatchOne, MatchedNothing, MatchedSome, Pull
<1>5. CASE SubmitRejected(t) \/ SubmitAccepted(t)
  <2>1. PICK id, st :
          /\ id = req[t].order.order_id /\ st.filled_quantity = 0
          /\ pc[t] = "submit" /\ Insert(id, st) /\ UNCHANGED trades
    <3>1. \A status : NewOrderState(req[t].order, status).filled_quantity = 0
      BY DEF NewOrderState
    <3>2. CASE SubmitRejected(t)
      BY <3>1, <3>2 DEF SubmitRejected
    <3>3. CASE SubmitAccepted(t)
      BY <3>1, <3>3 DEF SubmitAccepted
    <3> QED BY <1>5, <3>2, <3>3
  <2>2. id \notin DOMAIN order_states
    BY <2>1, SubmittedOrder
  <2> QED BY <2>1, <2>2, ArrivalExecutions
<1>6. CASE ApplyTrade(t) \/ ApplyLastTrade(t)
  <2>1. PICK trade : trade = matched[t][1]
    OBVIOUS
  <2>2. pc[t] = "apply" /\ Apply(trade)
    BY <1>6, <2>1 DEF ApplyTrade, ApplyLastTrade
  <2>3. matched[t] \in Seq(PairTrade) /\ matched[t] # <<>>
    BY <2>2 DEF CoreInv, TradesTidy, HandlerOK
  <2>4. trade \in PairTrade
    BY <2>1, <2>3
  <2> QED BY <2>2, <2>4, ApplyExecutions
<1>7. CASE CancelDone(t) \/ ReplaceAbandoned(t)
  <2>1. pc[t] \in {"cancel", "replace"} /\ MarkCancelled(req[t].order_id) /\ UNCHANGED trades
    BY <1>7 DEF CancelDone, ReplaceAbandoned
  <2>2. PICK id \in DOMAIN order_states : id = req[t].order_id
    BY <2>1, AmendLocals
  <2>3. DOMAIN order_states' = DOMAIN order_states
        /\ \A x \in DOMAIN order_states :
             order_states'[x].filled_quantity = order_states[x].filled_quantity
    BY <1>2, <2>1, <2>2 DEF MarkCancelled, OmsTypeOK, OrderStates
  <2> QED BY <2>1, <2>3, SameExecutions
<1>8. CASE ReplaceCommitted(t)
  <2>1. PICK id : id = req[t].order_id
    OBVIOUS
  <2>2. /\ pc[t] = "replace" /\ UNCHANGED trades
        /\ order_states' = [order_states EXCEPT
                              ![id] = Renewed(@, req[t].price, req[t].quantity)]
    BY <1>8, <2>1 DEF ReplaceCommitted
  <2>3. id \in DOMAIN order_states
    BY <2>1, <2>2, AmendLocals
  <2>4. Renewed(order_states[id], req[t].price, req[t].quantity).filled_quantity
          = order_states[id].filled_quantity
    BY <1>2, <2>3 DEF Renewed, OmsTypeOK, OrderStates
  <2>5. PICK new : new = Renewed(order_states[id], req[t].price, req[t].quantity)
    OBVIOUS
  <2>6. order_states' = [order_states EXCEPT ![id] = new]
    BY <2>2, <2>5
  <2>7. DOMAIN order_states' = DOMAIN order_states
        /\ \A x \in DOMAIN order_states :
             order_states'[x].filled_quantity = order_states[x].filled_quantity
    BY <2>3, <2>4, <2>5, <2>6
  <2> QED BY <2>2, <2>7, SameExecutions
<1> QED BY <1>1, <1>4, <1>5, <1>6, <1>7, <1>8 DEF Enter, Continue

\* An order's filled quantity is always the total of its executions, replaces
\* included, for any number of threads, orders and trades.
THEOREM FilledIsExecutedAlways == Spec => []FilledIsExecuted
<1>1. Init => FilledIsExecuted
  BY DEF Init, FilledIsExecuted
<1>2. IndInv /\ FilledIsExecuted /\ [Next]_vars => FilledIsExecuted'
  <2> SUFFICES ASSUME IndInv, FilledIsExecuted, [Next]_vars PROVE FilledIsExecuted'
    OBVIOUS
  <2>1. CASE Next
    BY <2>1, NextExecutions DEF IndInv
  <2>2. CASE UNCHANGED vars
    BY <2>2 DEF vars, shared, FilledIsExecuted
  <2> QED BY <2>1, <2>2
<1> QED BY <1>1, <1>2, IndInvAlways, PTL DEF Spec
=============================================================================
