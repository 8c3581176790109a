------------------------- MODULE BookAgreement_proofs -------------------------
(***************************************************************************)
(* Agreement is an invariant of Exchange, for every set of symbols,        *)
(* prices, quantities and threads, every RiskContext and any number of     *)
(* orders, when every cancel and replace names its order's own symbol.     *)
(* Each action is shown to keep it: what happens on other symbols is one   *)
(* lemma (AgreementStep), what happens on the symbol of the step is a      *)
(* lemma of the action.                                                    *)
(***************************************************************************)
EXTENDS BookAgreement, Exchange_proofs

-----------------------------------------------------------------------------
(* A step of one thread, seen from the other symbols.                      *)

\* The locals of thread u are left alone.
LocalsStay(u) ==
  /\ pc'[u] = pc[u] /\ req'[u] = req[u] /\ snap'[u] = snap[u]
  /\ incoming'[u] = incoming[u] /\ matched'[u] = matched[u]

\* A step of thread t that concerns only the symbols of C.
StaysIn(t, C) ==
  /\ \A u \in Threads \ {t} : LocalsStay(u)
  /\ \A x \in DOMAIN order_states' :
       order_states'[x].symbol \notin C =>
         x \in DOMAIN order_states /\ order_states'[x] = order_states[x]
  /\ \A r \in Symbols \ C :
       symbol_mutexes'[r] = symbol_mutexes[r] /\ symbol_mutexes[r] # t
  /\ \A r \in C : symbol_mutexes[r] \in {NoThread, t}
  /\ \A r \in Registered \ C : books'[r] = books[r]

\* An order of a symbol outside C keeps its record.
LEMMA RecordStays ==
  ASSUME StatesKept, NEW t, NEW C, StaysIn(t, C),
         NEW x \in DOMAIN order_states, order_states[x].symbol \notin C
  PROVE  order_states'[x] = order_states[x]
BY DEF StatesKept, StaysIn

\* A handler of another thread works on a symbol outside C.
LEMMA WorksElsewhere ==
  ASSUME CoreInv, LocksHeld, NEW t \in Threads, NEW C, StaysIn(t, C),
         NEW u \in Threads \ {t}, pc[u] \in InCall
  PROVE  MessageSymbol(req[u]) \in Symbols \ C
<1>1. MessageSymbol(req[u]) \in Symbols /\ symbol_mutexes[MessageSymbol(req[u])] = u
  BY DEF LocksHeld, LockHeld
<1>2. u # NoThread
  BY ThreadsAssumption
<1> QED BY <1>1, <1>2 DEF StaysIn

\* The orders of the trades of a call are all on its symbol.
LEMMA HitsOnSymbol ==
  ASSUME CoreInv, NEW u \in Threads, pc[u] \in {"match", "apply"},
         NEW i \in DOMAIN matched[u], Covered(u, i)
  PROVE  /\ matched[u][i] \in Trade
         /\ incoming[u] \in Order
         /\ Belongs(incoming[u].order_id, incoming[u].symbol, incoming[u].side)
         /\ Hit(u, i) \in DOMAIN order_states
         /\ Belongs(Hit(u, i), incoming[u].symbol, Opposite(incoming[u].side))
<1>1. matched[u][i] \in PairTrade
  BY DEF CoreInv, TradesTidy
<1>2. PICK s \in Registered :
        /\ Belongs(matched[u][i].buy_order_id, s, "Buy")
        /\ Belongs(matched[u][i].sell_order_id, s, "Sell")
  BY <1>1 DEF PairTrade, PairsSides
<1>3. /\ incoming[u] \in Order
      /\ Belongs(incoming[u].order_id, incoming[u].symbol, incoming[u].side)
  BY DEF CoreInv, HandlerOK
<1>4. OwnOf(incoming[u], matched[u][i]) = incoming[u].order_id
  BY DEF Covered
<1>5. incoming[u].side \in Side
  BY <1>3 DEF Order
<1> QED BY <1>1, <1>2, <1>3, <1>4, <1>5
        DEF PairTrade, OwnOf, Hit, HitBy, Belongs, Opposite, Side

\* The calls of the other threads are as sound as they were.
LEMMA OtherCallsOK ==
  ASSUME CoreInv, LocksHeld, StatesKept, NEW t \in Threads, NEW C, StaysIn(t, C),
         NEW u \in Threads \ {t}, CallOK(u)
  PROVE  CallOK(u)'
<1>1. LocalsStay(u)
  BY DEF StaysIn
<1>2. MatchedInCall(u)'
  BY <1>1 DEF CallOK, MatchedInCall, LocalsStay
<1>3. SnapCurrent(u)'
  <2> SUFFICES ASSUME pc[u] \in {"pull", "cancel", "replace"}
               PROVE  (snap[u] = order_states[req[u].order_id] /\ ~is_terminal(snap[u]))'
    BY <1>1 DEF SnapCurrent, LocalsStay
  <2>1. snap[u].symbol \notin C
    BY WorksElsewhere DEF LocksHeld, LockHeld, InCall
  <2>2. /\ req[u].order_id \in DOMAIN order_states
        /\ snap[u] = order_states[req[u].order_id] /\ ~is_terminal(snap[u])
    BY DEF CallOK, SnapCurrent, CoreInv, HandlerOK
  <2>3. order_states'[req[u].order_id] = order_states[req[u].order_id]
    BY <2>1, <2>2, RecordStays
  <2> QED BY <1>1, <2>2, <2>3 DEF LocalsStay, is_terminal
<1>4. CallCovered(u)'
  <2> SUFFICES ASSUME pc[u] \in {"match", "apply"} PROVE CallCovered(u)'
    BY <1>1 DEF CallCovered, LocalsStay
  <2>1. incoming[u].symbol \notin C
    BY WorksElsewhere DEF LocksHeld, LockHeld, InCall
  <2>2. CallCovered(u) /\ \A i \in DOMAIN matched[u] : Covered(u, i)
    BY DEF CallOK, CallCovered
  <2>3. Belongs(incoming[u].order_id, incoming[u].symbol, incoming[u].side)
    BY DEF CoreInv, HandlerOK
  <2>4. order_states'[incoming[u].order_id] = order_states[incoming[u].order_id]
    BY <2>1, <2>3, RecordStays DEF Belongs
  <2>5. ASSUME NEW i \in DOMAIN matched[u]
        PROVE  Hit(u, i)' = Hit(u, i) /\ order_states'[Hit(u, i)] = order_states[Hit(u, i)]
    <3>1. Belongs(Hit(u, i), incoming[u].symbol, Opposite(incoming[u].side))
      BY <2>2, HitsOnSymbol
    <3>2. order_states'[Hit(u, i)] = order_states[Hit(u, i)]
      BY <2>1, <3>1, RecordStays DEF Belongs
    <3> QED BY <1>1, <3>2 DEF Hit, HitBy, LocalsStay
  <2>6. \A i \in DOMAIN matched[u] : Covered(u, i)'
    BY <1>1, <2>2, <2>5 DEF Covered, LocalsStay, OwnOf, is_terminal, remaining_quantity
  <2>7. HitsOnce(u)'
    BY <1>1, <2>2, <2>5 DEF CallCovered, HitsOnce, LocalsStay, remaining_quantity
  <2>8. AddsUp(u)'
    BY <1>1, <2>2, <2>4 DEF CallCovered, AddsUp, LocalsStay, remaining_quantity
  <2> QED BY <1>1, <2>2, <2>4, <2>6, <2>7, <2>8 DEF CallCovered, LocalsStay, is_terminal
<1> QED BY <1>2, <1>3, <1>4 DEF CallOK

-----------------------------------------------------------------------------
(* What a step does to the contents of the books.                          *)

\* What rests of order x, and at which price, is left alone.
RestsOn(x) ==
  /\ Resting(x)' = Resting(x)
  /\ Resting(x) > 0 => order_states'[x].price = order_states[x].price

\* A side whose orders all rest on, and which no new order joins, holds the same.
LEMMA SameContent ==
  ASSUME StatesKept, NEW s, NEW sd,
         \A x \in DOMAIN order_states : Belongs(x, s, sd) => RestsOn(x),
         \A x \in DOMAIN order_states' \ DOMAIN order_states :
           Belongs(x, s, sd)' => ~ (Resting(x)' > 0)
  PROVE  Content(s, sd)' = Content(s, sd)
<1>1. \A x \in DOMAIN order_states : Belongs(x, s, sd)' <=> Belongs(x, s, sd)
  BY DEF StatesKept, Belongs
<1>2. \A x \in RestingOn(s, sd) :
        /\ x \in DOMAIN order_states /\ Belongs(x, s, sd)
        /\ Resting(x)' = Resting(x) /\ order_states'[x].price = order_states[x].price
  BY DEF RestingOn, RestsOn
<1>3. RestingOn(s, sd)' = RestingOn(s, sd)
  BY <1>1 DEF StatesKept, RestingOn, RestsOn
<1> QED BY <1>2, <1>3 DEF Content

\* Outside C every side should hold what it did.
LEMMA OtherContent ==
  ASSUME CoreInv, HeldInCall, StatesKept, NEW t \in Threads, NEW C, StaysIn(t, C),
         NEW r \in Symbols \ C, NEW sd \in Side
  PROVE  Content(r, sd)' = Content(r, sd)
<1>1. ASSUME NEW x \in DOMAIN order_states, order_states[x].symbol = r
      PROVE  RestsOn(x)
  <2>1. order_states'[x] = order_states[x]
    BY <1>1, RecordStays
  <2>2. /\ symbol_mutexes'[r] = symbol_mutexes[r] /\ symbol_mutexes[r] # t
        /\ symbol_mutexes[r] \in Threads \cup {NoThread}
    BY DEF StaysIn, CoreInv, TypeOK, ThreadsTypeOK
  <2>3. CASE symbol_mutexes[r] = NoThread
    BY <1>1, <2>1, <2>2, <2>3
       DEF RestsOn, Resting, IsOpen, is_terminal, remaining_quantity
  <2>4. CASE symbol_mutexes[r] # NoThread
    <3>1. PICK u \in Threads \ {t} : u = symbol_mutexes[r]
      BY <2>2, <2>4
    <3>2. LocalsStay(u)
      BY DEF StaysIn
    <3>3. TradesOf(u, x)' = TradesOf(u, x)
      BY <3>2 DEF TradesOf, Hit, HitBy, LocalsStay
    <3>4. Taken(u, x)' = Taken(u, x)
      BY <3>2, <3>3 DEF Taken, LocalsStay
    <3>5. RestsDuring(u, x)' = RestsDuring(u, x)
      BY <2>1, <3>2, <3>4 DEF RestsDuring, LocalsStay, remaining_quantity
    <3>6. Resting(x) = IF ~IsOpen(order_states[x]) THEN 0 ELSE RestsDuring(u, x)
      BY <1>1, <2>4, <3>1 DEF Resting
    <3>7. Resting(x)' = IF ~IsOpen(order_states'[x]) THEN 0 ELSE RestsDuring(u, x)'
      BY <1>1, <2>1, <2>2, <2>4, <3>1 DEF Resting, IsOpen, is_terminal, remaining_quantity
    <3> QED BY <2>1, <3>5, <3>6, <3>7 DEF RestsOn
  <2> QED BY <2>3, <2>4
<1>2. \A x \in DOMAIN order_states' \ DOMAIN order_states : ~Belongs(x, r, sd)'
  BY DEF StaysIn, Belongs
<1> QED BY <1>1, <1>2, SameContent DEF Belongs

\* What has to be shown of a step, given where it stays: the books, the orders
\* and the call of its own symbol.
LEMMA AgreementStep ==
  ASSUME CoreInv, LocksHeld, Agreement, StatesKept, NEW t \in Threads, NEW C, StaysIn(t, C),
         \A r \in C : symbol_mutexes'[r] # NoThread =>
           symbol_mutexes'[r] = t /\ pc'[t] \in InCall /\ MessageSymbol(req[t])' = r,
         \A r \in Registered \cap C, sd \in Side : Holds(books'[r][sd], Content(r, sd)'),
         \A x \in DOMAIN order_states' :
           order_states'[x].symbol \in C => WithinOrder(order_states'[x]),
         CallOK(t)'
  PROVE  Agreement'
<1>1. HeldInCall'
  <2> SUFFICES ASSUME NEW r \in Symbols, symbol_mutexes'[r] # NoThread
               PROVE  /\ pc'[symbol_mutexes'[r]] \in InCall
                      /\ MessageSymbol(req[symbol_mutexes[r]])' = r
    BY DEF HeldInCall, InCall
  <2>1. CASE r \in C
    BY <2>1 DEF MessageSymbol
  <2>2. CASE r \notin C
    <3>1. symbol_mutexes'[r] = symbol_mutexes[r] /\ symbol_mutexes[r] # t
      BY <2>2 DEF StaysIn
    <3>2. PICK u \in Threads \ {t} : u = symbol_mutexes[r]
      BY <3>1 DEF CoreInv, TypeOK, ThreadsTypeOK
    <3>3. pc'[u] = pc[u] /\ req'[u] = req[u]
      BY DEF StaysIn, LocalsStay
    <3>4. pc[u] \in InCall /\ MessageSymbol(req[u]) = r
      BY <3>1, <3>2 DEF Agreement, HeldInCall
    <3> QED BY <3>1, <3>2, <3>3, <3>4 DEF MessageSymbol
  <2> QED BY <2>1, <2>2
<1>2. BooksHold'
  <2> SUFFICES ASSUME NEW r \in Registered, NEW sd \in Side
               PROVE  Holds(books'[r][sd], Content(r, sd)')
    BY DEF BooksHold
  <2>1. CASE r \in C
    BY <2>1
  <2>2. CASE r \notin C
    <3>1. Content(r, sd)' = Content(r, sd)
      BY <2>2, OtherContent, RegisteredAssumption DEF Agreement
    <3>2. books'[r] = books[r]
      BY <2>2 DEF StaysIn
    <3> QED BY <3>1, <3>2 DEF Agreement, BooksHold
  <2> QED BY <2>1, <2>2
<1>3. FillsWithinOrder'
  BY DEF Agreement, FillsWithinOrder, StaysIn
<1>4. \A u \in Threads : CallOK(u)'
  BY OtherCallsOK DEF Agreement
<1> QED BY <1>1, <1>2, <1>3, <1>4 DEF Agreement

-----------------------------------------------------------------------------
(* Where a step stays.                                                     *)

\* Only orders of symbol c get a new record.
RecordsMoveOn(c) ==
  \A x \in DOMAIN order_states' :
    order_states'[x].symbol # c =>
      x \in DOMAIN order_states /\ order_states'[x] = order_states[x]

\* A handler holds no mutex but that of the symbol it works on.
LEMMA HoldsOneMutex ==
  ASSUME HeldInCall, NEW t \in Threads, NEW r \in Symbols, symbol_mutexes[r] = t
  PROVE  pc[t] \in InCall /\ MessageSymbol(req[t]) = r
BY ThreadsAssumption DEF HeldInCall

\* A step by the handler that holds, takes or releases the mutex of c stays on c.
LEMMA StaysOnSymbol ==
  ASSUME CoreInv, HeldInCall, NEW t \in Threads, NEW c \in Symbols,
         pc[t] \in InCall => MessageSymbol(req[t]) = c,
         symbol_mutexes[c] \in {NoThread, t},
         \/ symbol_mutexes' = symbol_mutexes
         \/ \E holder : symbol_mutexes' = [symbol_mutexes EXCEPT ![c] = holder],
         \A u \in Threads \ {t} : LocalsStay(u),
         RecordsMoveOn(c),
         \A r \in Registered \ {c} : books'[r] = books[r]
  PROVE  StaysIn(t, {c})
<1>1. \A r \in Symbols \ {c} : symbol_mutexes'[r] = symbol_mutexes[r]
  BY DEF CoreInv, TypeOK, ThreadsTypeOK
<1>2. \A r \in Symbols \ {c} : symbol_mutexes[r] # t
  BY HoldsOneMutex
<1> QED BY <1>1, <1>2 DEF StaysIn, RecordsMoveOn

\* A handler that returns is gone.
LEMMA ReturnedIdle ==
  ASSUME CoreInv, NEW t \in Threads, Return(t), MessageSymbol(req[t]) \in Symbols
  PROVE  /\ \A u \in Threads \ {t} : LocalsStay(u)
         /\ pc'[t] = "idle" /\ matched'[t] = <<>>
         /\ symbol_mutexes'[MessageSymbol(req[t])] = NoThread
         /\ CallOK(t)'
<1>1. /\ \A u \in Threads \ {t} : LocalsStay(u)
      /\ pc'[t] = "idle" /\ matched'[t] = <<>>
      /\ symbol_mutexes'[MessageSymbol(req[t])] = NoThread
  BY DEF Return, Goto, LocalsStay, CoreInv, TypeOK, ThreadsTypeOK
<1> QED BY <1>1 DEF CallOK, SnapCurrent, MatchedInCall, CallCovered

\* What has to be shown of a step that ends a call.
LEMMA AgreementReturn ==
  ASSUME CoreInv, LocksHeld, Agreement, StatesKept, NEW t \in Threads, NEW c \in Symbols,
         c = MessageSymbol(req[t]), symbol_mutexes[c] \in {NoThread, t}, Return(t),
         RecordsMoveOn(c),
         \A r \in Registered \ {c} : books'[r] = books[r],
         c \in Registered => \A sd \in Side : Holds(books'[c][sd], Content(c, sd)'),
         \A x \in DOMAIN order_states' :
           order_states'[x].symbol = c => WithinOrder(order_states'[x])
  PROVE  Agreement'
<1>1. /\ \A u \in Threads \ {t} : LocalsStay(u)
      /\ symbol_mutexes'[c] = NoThread
      /\ CallOK(t)'
  BY ReturnedIdle
<1>2. StaysIn(t, {c})
  BY <1>1, StaysOnSymbol DEF Return, Agreement
<1>3. \A r \in Registered \cap {c}, sd \in Side : Holds(books'[r][sd], Content(r, sd)')
  OBVIOUS
<1>4. \A r \in {c} : symbol_mutexes'[r] = NoThread
  BY <1>1
<1>5. \A x \in DOMAIN order_states' :
        order_states'[x].symbol \in {c} => WithinOrder(order_states'[x])
  OBVIOUS
<1> QED BY <1>1, <1>2, <1>3, <1>4, <1>5, AgreementStep

\* Books that do not move hold what they should if nothing should change.
LEMMA UnmovedBooksHold ==
  ASSUME Agreement, NEW c \in Registered, UNCHANGED books,
         \A sd \in Side : Content(c, sd)' = Content(c, sd)
  PROVE  \A sd \in Side : Holds(books'[c][sd], Content(c, sd)')
BY DEF Agreement, BooksHold

\* The arrival of a message touches no book and no call.
LEMMA ReceiveAgrees ==
  ASSUME CoreInv, LocksHeld, Agreement, NEW t \in Threads, Receive(t)
  PROVE  Agreement'
<1>1. /\ UNCHANGED <<order_states, symbol_mutexes, books, snap, incoming, matched>>
      /\ pc[t] = "idle"
      /\ \E m \in {"submit", "amend"} : pc' = [pc EXCEPT ![t] = m]
      /\ \E m : req' = [req EXCEPT ![t] = m]
  BY DEF Receive, ReceiveOrder, ReceiveAmend, Goto, shared
<1>2. /\ \A u \in Threads \ {t} : LocalsStay(u)
      /\ pc'[t] \in {"submit", "amend"} /\ matched'[t] = matched[t]
  BY <1>1 DEF LocalsStay, CoreInv, TypeOK, ThreadsTypeOK
<1>3. \A r \in Symbols : symbol_mutexes[r] # t
  BY <1>1, HoldsOneMutex DEF Agreement, InCall
<1>4. StaysIn(t, {})
  BY <1>1, <1>2, <1>3 DEF StaysIn
<1>5. matched[t] = <<>>
  BY <1>1 DEF Agreement, CallOK, MatchedInCall
<1>6. CallOK(t)'
  BY <1>2, <1>5 DEF CallOK, SnapCurrent, MatchedInCall, CallCovered
<1>7. StatesKept
  BY <1>1, UnchangedKept
<1> QED BY <1>4, <1>6, <1>7, AgreementStep

\* On a symbol that nobody works on, what is left of an open order rests.
LEMMA RestingFree ==
  ASSUME NEW x \in DOMAIN order_states,
         symbol_mutexes[order_states[x].symbol] = NoThread
  PROVE  Resting(x) = IF IsOpen(order_states[x])
                        THEN remaining_quantity(order_states[x]) ELSE 0
BY DEF Resting

\* On a symbol that t works on, what rests is told by the call.
LEMMA RestingHeld ==
  ASSUME NEW x \in DOMAIN order_states, NEW t \in Threads,
         symbol_mutexes[order_states[x].symbol] = t
  PROVE  Resting(x) = IF IsOpen(order_states[x]) THEN RestsDuring(t, x) ELSE 0
BY ThreadsAssumption DEF Resting

\* A refused cancel or replace changes nothing.
LEMMA AmendRefusedAgrees ==
  ASSUME CoreInv, LocksHeld, Agreement, NEW t \in Threads, AmendRefused(t)
  PROVE  Agreement'
<1>1. PICK c : c = MessageSymbol(req[t])
  OBVIOUS
<1>2. /\ pc[t] = "amend" /\ symbol_mutexes[c] = NoThread /\ Return(t)
      /\ UNCHANGED <<order_states, books>>
  BY <1>1 DEF AmendRefused, SymbolFree
<1>3. c \in Symbols
  BY <1>1, <1>2 DEF CoreInv, HandlerOK, Message, MessageSymbol
<1>4. StatesKept /\ RecordsMoveOn(c)
  BY <1>2, UnchangedKept DEF RecordsMoveOn
<1>5. symbol_mutexes'[c] = NoThread
  BY <1>1, <1>2, <1>3, ReturnedIdle
<1>6. ASSUME NEW x \in DOMAIN order_states, order_states[x].symbol = c
      PROVE  RestsOn(x)
  <2>1. Resting(x) = IF IsOpen(order_states[x])
                       THEN remaining_quantity(order_states[x]) ELSE 0
    BY <1>2, <1>6, RestingFree
  <2>2. Resting(x)' = IF IsOpen(order_states'[x])
                        THEN remaining_quantity(order_states'[x]) ELSE 0
    BY <1>2, <1>5, <1>6 DEF Resting, IsOpen, is_terminal, remaining_quantity
  <2> QED BY <1>2, <2>1, <2>2 DEF RestsOn
<1>7. \A sd \in Side : Content(c, sd)' = Content(c, sd)
  BY <1>2, <1>4, <1>6, SameContent DEF Belongs
<1> QED BY <1>1, <1>2, <1>3, <1>4, <1>7, UnmovedBooksHold, AgreementReturn
        DEF Agreement, FillsWithinOrder

-----------------------------------------------------------------------------
(* Submitting.                                                             *)

\* The same after a step.
LEMMA RestingFreeNext ==
  ASSUME NEW x \in DOMAIN order_states',
         symbol_mutexes'[order_states'[x].symbol] = NoThread
  PROVE  Resting(x)' = IF IsOpen(order_states'[x])
                         THEN remaining_quantity(order_states'[x]) ELSE 0
BY DEF Resting, IsOpen, is_terminal, remaining_quantity

\* The same after a step.
LEMMA RestingHeldNext ==
  ASSUME NEW x \in DOMAIN order_states', NEW t \in Threads,
         symbol_mutexes'[order_states'[x].symbol] = t
  PROVE  Resting(x)' = IF IsOpen(order_states'[x]) THEN RestsDuring(t, x)' ELSE 0
BY ThreadsAssumption DEF Resting, IsOpen, is_terminal, remaining_quantity

\* What a submission finds and what it inserts.
LEMMA Submission ==
  ASSUME CoreInv, NEW t \in Threads, pc[t] = "submit",
         NEW status \in {"New", "Rejected"},
         Insert(req[t].order.order_id, NewOrderState(req[t].order, status))
  PROVE  LET order == req[t].order
             id    == order.order_id
             c     == order.symbol
         IN  /\ order \in Order /\ c = MessageSymbol(req[t]) /\ c \in Symbols
             /\ id \notin DOMAIN order_states
             /\ StatesKept /\ RecordsMoveOn(c)
             /\ DOMAIN order_states' = DOMAIN order_states \cup {id}
             /\ order_states'[id] = NewOrderState(order, status)
             /\ \A x \in DOMAIN order_states : order_states'[x] = order_states[x]
             /\ order_states'[id] \in OrderStates /\ WithinOrder(order_states'[id])
<1> DEFINE order == req[t].order
           id    == order.order_id
<1>1. /\ order \in Order /\ id \notin DOMAIN order_states
      /\ NewOrderState(order, status) \in OrderStates
  BY SubmittedOrder DEF OrderStatus
<1>2. req[t].kind = "D"
  BY DEF CoreInv, HandlerOK
<1>3. /\ DOMAIN order_states' = DOMAIN order_states \cup {id}
      /\ order_states'[id] = NewOrderState(order, status)
      /\ \A x \in DOMAIN order_states : order_states'[x] = order_states[x]
  BY <1>1 DEF Insert
<1>4. RecordsMoveOn(order.symbol)
  BY <1>3 DEF RecordsMoveOn, NewOrderState
<1>5. WithinOrder(order_states'[id])
  BY <1>3 DEF WithinOrder, NewOrderState
<1>6. order.symbol = MessageSymbol(req[t]) /\ order.symbol \in Symbols
  BY <1>1, <1>2 DEF MessageSymbol, Order
<1> QED BY <1>1, <1>3, <1>4, <1>5, <1>6, InsertKept

\* A rejected order rests nowhere.
LEMMA SubmitRejectedAgrees ==
  ASSUME CoreInv, LocksHeld, Agreement, NEW t \in Threads, SubmitRejected(t)
  PROVE  Agreement'
<1>0. PICK order, id, c : order = req[t].order /\ id = order.order_id /\ c = order.symbol
  OBVIOUS
<1>1. /\ pc[t] = "submit" /\ SymbolFree(t) /\ Return(t) /\ UNCHANGED books
      /\ Insert(id, NewOrderState(order, "Rejected"))
  BY <1>0 DEF SubmitRejected
<1>2. /\ c = MessageSymbol(req[t]) /\ c \in Symbols
      /\ StatesKept /\ RecordsMoveOn(c)
      /\ DOMAIN order_states' = DOMAIN order_states \cup {id}
      /\ order_states'[id] = NewOrderState(order, "Rejected")
      /\ \A x \in DOMAIN order_states : order_states'[x] = order_states[x]
      /\ WithinOrder(order_states'[id])
  BY <1>0, <1>1, Submission
<1>3. symbol_mutexes[c] = NoThread /\ symbol_mutexes'[c] = NoThread
  BY <1>1, <1>2, ReturnedIdle DEF SymbolFree
<1>4. ASSUME NEW x \in DOMAIN order_states, order_states[x].symbol = c
      PROVE  RestsOn(x)
  BY <1>2, <1>3, <1>4, RestingFree, RestingFreeNext DEF RestsOn
<1>5. Resting(id)' = 0
  <2>1. ~IsOpen(order_states'[id])
    BY <1>2 DEF IsOpen, is_terminal, NewOrderState
  <2> QED BY <2>1 DEF Resting, IsOpen, is_terminal, remaining_quantity
<1>6. \A sd \in Side : Content(c, sd)' = Content(c, sd)
  BY <1>2, <1>4, <1>5, SameContent DEF Belongs
<1>7. \A x \in DOMAIN order_states' : WithinOrder(order_states'[x])
  BY <1>2 DEF Agreement, FillsWithinOrder
<1>8. c \in Registered => \A sd \in Side : Holds(books'[c][sd], Content(c, sd)')
  BY <1>1, <1>6, UnmovedBooksHold
<1> QED BY <1>1, <1>2, <1>3, <1>7, <1>8, AgreementReturn

\* A call without trades has taken nothing.
LEMMA NothingTaken ==
  ASSUME NEW t \in Threads, matched[t] = <<>>, NEW x
  PROVE  Taken(t, x) = 0
<1>1. TradesOf(t, x) = {}
  BY DEF TradesOf
<1> QED BY <1>1 DEF Taken

\* The same after a step.
LEMMA NothingTakenNext ==
  ASSUME NEW t \in Threads, matched'[t] = <<>>, NEW x
  PROVE  Taken(t, x)' = 0
<1>1. TradesOf(t, x)' = {}
  BY DEF TradesOf
<1> QED BY <1>1 DEF Taken

\* When nothing is matched yet the call's order is whole.
LEMMA WholeAddsUp ==
  ASSUME NEW t \in Threads, matched'[t] = <<>>,
         incoming'[t].quantity = remaining_quantity(order_states'[incoming'[t].order_id]),
         incoming'[t].quantity \in Int,
         ~is_terminal(order_states'[incoming'[t].order_id]),
         order_states'[incoming'[t].order_id].price = incoming'[t].price,
         order_states'[incoming'[t].order_id] \in OrderStates,
         WithinOrder(order_states'[incoming'[t].order_id])
  PROVE  CallCovered(t)'
<1>1. PICK n, q, st, own, all :
        /\ n = Len(matched'[t]) /\ q = incoming'[t].quantity
        /\ st = order_states'[incoming'[t].order_id]
        /\ own = remaining_quantity(st) /\ all = st.original_quantity
  OBVIOUS
<1>2. n = 0 /\ own = q /\ q \in Int /\ all \in Int /\ q <= all
  <2>1. st \in OrderStates /\ WithinOrder(st) /\ n = 0 /\ own = q /\ q \in Int
    BY <1>1
  <2> QED BY <1>1, <2>1 DEF OrderStates, WithinOrder, remaining_quantity
<1>3. AddsUp(t)'
  <2> DEFINE left == [i \in 0..0 |-> q]
  <2>1. /\ left \in [0..n -> q..all] /\ left[0] = own /\ left[n] = q
        /\ \A i \in 1..n : left[i] = left[i - 1] - matched'[t][i].quantity
    BY <1>2
  <2> HIDE DEF left
  <2>2. \E l \in [0..n -> q..all] :
          /\ l[0] = own /\ l[n] = q
          /\ \A i \in 1..n : l[i] = l[i - 1] - matched'[t][i].quantity
    BY <2>1
  <2> QED BY <1>1, <2>2 DEF AddsUp, remaining_quantity
<1>4. HitsOnce(t)' /\ \A i \in DOMAIN matched'[t] : FALSE
  BY DEF HitsOnce
<1> QED BY <1>3, <1>4 DEF CallCovered, is_terminal

\* An accepted order does not rest before it has been matched.
LEMMA SubmitAcceptedAgrees ==
  ASSUME CoreInv, LocksHeld, Agreement, NEW t \in Threads, SubmitAccepted(t)
  PROVE  Agreement'
<1>0. PICK order, id, c : order = req[t].order /\ id = order.order_id /\ c = order.symbol
  OBVIOUS
<1>1. /\ pc[t] = "submit" /\ SymbolFree(t) /\ Lock(t)
      /\ Insert(id, NewOrderState(order, "New"))
      /\ incoming' = [incoming EXCEPT ![t] = order]
      /\ pc' = [pc EXCEPT ![t] = "match"]
      /\ UNCHANGED <<books, req, snap, matched>>
  BY <1>0 DEF SubmitAccepted, Goto
<1>2. /\ order \in Order /\ c = MessageSymbol(req[t]) /\ c \in Symbols
      /\ id \notin DOMAIN order_states
      /\ StatesKept /\ RecordsMoveOn(c)
      /\ DOMAIN order_states' = DOMAIN order_states \cup {id}
      /\ order_states'[id] = NewOrderState(order, "New")
      /\ \A x \in DOMAIN order_states : order_states'[x] = order_states[x]
      /\ order_states'[id] \in OrderStates /\ WithinOrder(order_states'[id])
  BY <1>0, <1>1, Submission
<1>3. /\ symbol_mutexes[c] = NoThread
      /\ symbol_mutexes' = [symbol_mutexes EXCEPT ![c] = t]
      /\ symbol_mutexes'[c] = t
  BY <1>1, <1>2 DEF SymbolFree, Lock, CoreInv, TypeOK, ThreadsTypeOK
<1>4. /\ pc'[t] = "match" /\ incoming'[t] = order /\ matched'[t] = <<>>
      /\ \A u \in Threads \ {t} : LocalsStay(u)
  BY <1>1 DEF CoreInv, TypeOK, ThreadsTypeOK, LocalsStay, Agreement, CallOK, MatchedInCall
<1>5. /\ order.order_id = id /\ order.symbol = c /\ order.quantity \in Int
      /\ order_states'[id].price = order.price /\ ~is_terminal(order_states'[id])
      /\ remaining_quantity(order_states'[id]) = order.quantity
  BY <1>0, <1>2 DEF NewOrderState, is_terminal, remaining_quantity, Order
<1>6. ASSUME NEW x \in DOMAIN order_states, order_states[x].symbol = c
      PROVE  RestsOn(x)
  <2>1. Resting(x) = IF IsOpen(order_states[x])
                       THEN remaining_quantity(order_states[x]) ELSE 0
    BY <1>3, <1>6, RestingFree
  <2>2. Resting(x)' = IF IsOpen(order_states[x]) THEN RestsDuring(t, x)' ELSE 0
    BY <1>2, <1>3, <1>6, RestingHeldNext
  <2>3. RestsDuring(t, x)' = remaining_quantity(order_states[x]) - Taken(t, x)'
    BY <1>2, <1>4, <1>5 DEF RestsDuring, remaining_quantity
  <2>4. Taken(t, x)' = 0 /\ remaining_quantity(order_states[x]) \in Int
    BY <1>4, NothingTakenNext
       DEF CoreInv, TypeOK, OmsTypeOK, OrderStates, remaining_quantity
  <2> QED BY <1>2, <2>1, <2>2, <2>3, <2>4 DEF RestsOn
<1>7. Resting(id)' = 0
  <2>1. id \in DOMAIN order_states' /\ order_states'[id].symbol = c
    BY <1>2, <1>5 DEF NewOrderState
  <2>2. Resting(id)' = IF IsOpen(order_states'[id]) THEN RestsDuring(t, id)' ELSE 0
    BY <1>3, <2>1, RestingHeldNext
  <2> QED BY <1>4, <1>5, <2>2 DEF RestsDuring
<1>8. \A sd \in Side : Content(c, sd)' = Content(c, sd)
  BY <1>2, <1>6, <1>7, SameContent DEF Belongs
<1>9. \A x \in DOMAIN order_states' : WithinOrder(order_states'[x])
  BY <1>2 DEF Agreement, FillsWithinOrder
<1>10. CallOK(t)'
  <2>1. CallCovered(t)'
    BY <1>2, <1>4, <1>5, WholeAddsUp
  <2> QED BY <1>4, <2>1 DEF CallOK, SnapCurrent, MatchedInCall
<1>11. StaysIn(t, {c})
  BY <1>1, <1>2, <1>3, <1>4, StaysOnSymbol DEF Agreement, InCall
<1>12. \A r \in Registered \cap {c}, sd \in Side : Holds(books'[r][sd], Content(r, sd)')
  BY <1>1, <1>8, UnmovedBooksHold
<1>13. \A r \in {c} : symbol_mutexes'[r] = t /\ pc'[t] \in InCall /\ MessageSymbol(req[t])' = r
  BY <1>1, <1>2, <1>3, <1>4 DEF InCall, MessageSymbol
<1> QED BY <1>2, <1>9, <1>10, <1>11, <1>12, <1>13, AgreementStep

-----------------------------------------------------------------------------
(* Cancelling and replacing.                                               *)

\* What cancel_order and modify_order may rely on once they hold the mutex.
LEMMA AmendCall ==
  ASSUME CoreInv, LocksHeld, Agreement, NEW t \in Threads,
         pc[t] \in {"pull", "cancel", "replace"}
  PROVE  LET c  == snap[t].symbol
             id == req[t].order_id
         IN  /\ c \in Registered /\ c \in Symbols /\ c = MessageSymbol(req[t])
             /\ symbol_mutexes[c] = t
             /\ req[t] \in Message /\ req[t].kind # "D"
             /\ id \in DOMAIN order_states /\ Belongs(id, c, snap[t].side)
             /\ snap[t] = order_states[id] /\ ~is_terminal(order_states[id])
             /\ snap[t].side \in Side /\ order_states[id] \in OrderStates
             /\ matched[t] = <<>>
<1>1. SnapCurrent(t) /\ matched[t] = <<>>
  BY DEF Agreement, CallOK, MatchedInCall
<1>2. /\ snap[t] \in OrderStates /\ snap[t].symbol \in Registered
      /\ req[t] \in Message /\ req[t].kind # "D" /\ req[t].order_id \in DOMAIN order_states
      /\ Belongs(req[t].order_id, snap[t].symbol, snap[t].side)
  BY AmendLocals
<1>3. snap[t].symbol = MessageSymbol(req[t]) /\ symbol_mutexes[snap[t].symbol] = t
  BY DEF LocksHeld, LockHeld, InCall
<1> QED BY <1>1, <1>2, <1>3, RegisteredAssumption DEF SnapCurrent, OrderStates

\* The number of shares left is a whole number.
LEMMA RemainingIsInt ==
  ASSUME CoreInv, NEW x \in DOMAIN order_states
  PROVE  order_states[x] \in OrderStates /\ remaining_quantity(order_states[x]) \in Int
BY DEF CoreInv, TypeOK, OmsTypeOK, OrderStates, remaining_quantity

\* Taking the mutex and copying the order's state moves nothing.
LEMMA AmendStartedAgrees ==
  ASSUME CoreInv, LocksHeld, Agreement, NEW t \in Threads, AmendStarted(t)
  PROVE  Agreement'
<1>1. PICK id, c : id = req[t].order_id /\ c = MessageSymbol(req[t])
  OBVIOUS
<1>2. /\ pc[t] = "amend" /\ symbol_mutexes[c] = NoThread /\ ~is_terminal(order_states[id])
      /\ snap' = [snap EXCEPT ![t] = order_states[id]]
      /\ symbol_mutexes' = [symbol_mutexes EXCEPT ![c] = t]
      /\ pc' = [pc EXCEPT ![t] = "pull"]
      /\ UNCHANGED <<order_states, books, req, incoming, matched>>
  BY <1>1 DEF AmendStarted, SymbolFree, Lock, Goto, MayAmend
<1>3. c \in Symbols
  BY <1>1, <1>2 DEF CoreInv, HandlerOK, Message, MessageSymbol
<1>4. /\ pc'[t] = "pull" /\ snap'[t] = order_states[id] /\ matched'[t] = <<>>
      /\ symbol_mutexes'[c] = t
      /\ \A u \in Threads \ {t} : LocalsStay(u)
  BY <1>2, <1>3
     DEF CoreInv, TypeOK, ThreadsTypeOK, LocalsStay, Agreement, CallOK, MatchedInCall
<1>5. StatesKept /\ RecordsMoveOn(c)
  BY <1>2, UnchangedKept DEF RecordsMoveOn
<1>6. ASSUME NEW x \in DOMAIN order_states, order_states[x].symbol = c
      PROVE  RestsOn(x)
  <2>1. Resting(x) = IF IsOpen(order_states[x])
                       THEN remaining_quantity(order_states[x]) ELSE 0
    BY <1>2, <1>6, RestingFree
  <2>2. Resting(x)' = IF IsOpen(order_states[x]) THEN RestsDuring(t, x)' ELSE 0
    BY <1>2, <1>4, <1>6, RestingHeldNext
  <2>3. RestsDuring(t, x)' = remaining_quantity(order_states[x])
    BY <1>2, <1>4 DEF RestsDuring, remaining_quantity
  <2> QED BY <1>2, <2>1, <2>2, <2>3 DEF RestsOn
<1>7. \A sd \in Side : Content(c, sd)' = Content(c, sd)
  BY <1>2, <1>5, <1>6, SameContent DEF Belongs
<1>8. CallOK(t)'
  BY <1>1, <1>2, <1>4 DEF CallOK, SnapCurrent, MatchedInCall, CallCovered, is_terminal
<1>9. StaysIn(t, {c})
  BY <1>2, <1>3, <1>4, <1>5, StaysOnSymbol DEF Agreement, InCall
<1>10. \A r \in Registered \cap {c}, sd \in Side : Holds(books'[r][sd], Content(r, sd)')
  BY <1>2, <1>7, UnmovedBooksHold
<1>11. \A r \in {c} : symbol_mutexes'[r] = t /\ pc'[t] \in InCall /\ MessageSymbol(req[t])' = r
  BY <1>1, <1>2, <1>4 DEF InCall, MessageSymbol
<1>12. \A x \in DOMAIN order_states' : WithinOrder(order_states'[x])
  BY <1>2 DEF Agreement, FillsWithinOrder
<1> QED BY <1>5, <1>8, <1>9, <1>10, <1>11, <1>12, AgreementStep

\* The order leaves its book, and the call knows that it does not rest.
LEMMA PullAgrees ==
  ASSUME CoreInv, LocksHeld, Agreement, NEW t \in Threads, Pull(t)
  PROVE  Agreement'
<1>1. PICK id, c, sd, price :
        id = req[t].order_id /\ c = snap[t].symbol /\ sd = snap[t].side
          /\ price = snap[t].price
  OBVIOUS
<1>2. /\ pc[t] = "pull"
      /\ books' = [books EXCEPT ![c][sd] = CancelFromLevel(books[c][sd], price, id)]
      /\ pc' = [pc EXCEPT ![t] = IF req[t].kind = "F" THEN "cancel" ELSE "replace"]
      /\ UNCHANGED <<order_states, symbol_mutexes, req, snap, incoming, matched>>
  BY <1>1 DEF Pull, Goto
<1>3. /\ c \in Registered /\ c \in Symbols /\ c = MessageSymbol(req[t])
      /\ symbol_mutexes[c] = t /\ id \in DOMAIN order_states /\ Belongs(id, c, sd)
      /\ snap[t] = order_states[id] /\ ~is_terminal(order_states[id])
      /\ sd \in Side /\ order_states[id].price = price /\ matched[t] = <<>>
  BY <1>1, <1>2, AmendCall
<1>4. /\ pc'[t] \in {"cancel", "replace"} /\ \A u \in Threads \ {t} : LocalsStay(u)
      /\ matched'[t] = <<>>
  BY <1>2, <1>3 DEF CoreInv, TypeOK, ThreadsTypeOK, LocalsStay
<1>5. StatesKept /\ RecordsMoveOn(c)
  BY <1>2, UnchangedKept DEF RecordsMoveOn
<1>6. ASSUME NEW x \in DOMAIN order_states, order_states[x].symbol = c
      PROVE  Resting(x)' = IF x = id THEN 0 ELSE Resting(x)
  <2>1. Resting(x) = IF IsOpen(order_states[x]) THEN RestsDuring(t, x) ELSE 0
    BY <1>3, <1>6, RestingHeld
  <2>2. Resting(x)' = IF IsOpen(order_states[x]) THEN RestsDuring(t, x)' ELSE 0
    BY <1>2, <1>3, <1>6, RestingHeldNext
  <2>3. RestsDuring(t, x) = remaining_quantity(order_states[x])
    BY <1>2 DEF RestsDuring
  <2>4. RestsDuring(t, x)' = IF x = id THEN 0 ELSE remaining_quantity(order_states[x])
    BY <1>1, <1>2, <1>4 DEF RestsDuring, remaining_quantity
  <2> QED BY <2>1, <2>2, <2>3, <2>4
<1>7. \A r \in Registered, d \in Side :
        books'[r][d] = IF r = c /\ d = sd
                         THEN CancelFromLevel(books[c][sd], price, id) ELSE books[r][d]
  BY <1>2, <1>3 DEF CoreInv, TypeOK, BooksTypeOK
<1>8. ASSUME NEW d \in Side PROVE Holds(books'[c][d], Content(c, d)')
  <2>1. Holds(books[c][d], Content(c, d))
    BY <1>3 DEF Agreement, BooksHold
  <2>2. CASE d = sd
    <3>1. PICK old : old = Content(c, sd)
      OBVIOUS
    <3>2. /\ DOMAIN old = RestingOn(c, sd)
          /\ \A x \in DOMAIN old : old[x] = <<order_states[x].price, Resting(x)>>
      BY <3>1 DEF Content
    <3>3. id \in DOMAIN old => old[id][1] = price
      BY <1>3, <3>2
    <3>4. RestingOn(c, sd)' = RestingOn(c, sd) \ {id}
      BY <1>2, <1>6 DEF RestingOn, Belongs
    <3>5. \A x \in RestingOn(c, sd) \ {id} :
            Resting(x)' = Resting(x) /\ order_states'[x] = order_states[x]
      BY <1>2, <1>6 DEF RestingOn, Belongs
    <3>6. Content(c, sd)' = [x \in DOMAIN old \ {id} |-> old[x]]
      BY <3>2, <3>4, <3>5 DEF Content
    <3>7. Tidy(books[c][sd], Booked(c, sd))
      BY <1>3 DEF CoreInv, BooksTidy
    <3>8. Holds(CancelFromLevel(books[c][sd], price, id), Content(c, sd)')
      <4>1. PICK E, levels, new :
              E = Booked(c, sd) /\ levels = books[c][sd] /\ new = Content(c, sd)'
        OBVIOUS
      <4>2. /\ Tidy(levels, E) /\ Holds(levels, old)
            /\ new = [x \in DOMAIN old \ {id} |-> old[x]]
        BY <2>1, <2>2, <3>1, <3>6, <3>7, <4>1
      <4>3. Holds(CancelFromLevel(levels, price, id), new)
        BY <3>3, <4>2, HoldsCancel
      <4> QED BY <4>1, <4>3
    <3> QED BY <1>3, <1>7, <2>2, <3>8
  <2>3. CASE d # sd
    <3>1. \A x \in DOMAIN order_states : Belongs(x, c, d) => x # id /\ RestsOn(x)
      BY <1>2, <1>3, <1>6, <2>3 DEF Belongs, RestsOn
    <3>2. Content(c, d)' = Content(c, d)
      BY <1>2, <1>5, <3>1, SameContent
    <3> QED BY <1>3, <1>7, <2>1, <2>3, <3>2
  <2> QED BY <2>2, <2>3
<1>9. CallOK(t)'
  BY <1>1, <1>2, <1>3, <1>4
     DEF CallOK, SnapCurrent, MatchedInCall, CallCovered, is_terminal
<1>10. StaysIn(t, {c})
  BY <1>2, <1>3, <1>4, <1>5, <1>7, StaysOnSymbol DEF Agreement, CoreInv, TypeOK, BooksTypeOK
<1>11. \A r \in {c} : pc'[t] \in InCall /\ MessageSymbol(req[t])' = r /\ symbol_mutexes'[r] = t
  BY <1>1, <1>2, <1>3, <1>4 DEF InCall, MessageSymbol
<1>12. \A x \in DOMAIN order_states' : WithinOrder(order_states'[x])
  BY <1>2 DEF Agreement, FillsWithinOrder
<1> QED BY <1>5, <1>8, <1>9, <1>10, <1>11, <1>12, AgreementStep

\* An order that no longer rests is marked as cancelled.
LEMMA CancelledReturnAgrees ==
  ASSUME CoreInv, LocksHeld, Agreement, NEW t \in Threads, pc[t] \in {"cancel", "replace"},
         MarkCancelled(req[t].order_id), Return(t), UNCHANGED books
  PROVE  Agreement'
<1>1. PICK id, c : id = req[t].order_id /\ c = snap[t].symbol
  OBVIOUS
<1>2. /\ c \in Registered /\ c \in Symbols /\ c = MessageSymbol(req[t])
      /\ symbol_mutexes[c] = t /\ id \in DOMAIN order_states
      /\ order_states[id].symbol = c /\ ~is_terminal(order_states[id])
      /\ order_states[id] \in OrderStates
  BY <1>1, AmendCall DEF Belongs
<1>3. /\ StatesKept /\ DOMAIN order_states' = DOMAIN order_states
      /\ \A x \in DOMAIN order_states : x # id => order_states'[x] = order_states[x]
      /\ order_states'[id].order_status = "Cancelled"
  BY <1>1, <1>2, MarkCancelledKept DEF CoreInv, TypeOK
<1>4. WithinOrder(order_states'[id])
  <2>1. order_states'[id] = [order_states[id] EXCEPT !.order_status = "Cancelled"]
    BY <1>1, <1>2 DEF MarkCancelled
  <2>2. WithinOrder(order_states[id])
    BY <1>2 DEF Agreement, FillsWithinOrder
  <2> QED BY <1>2, <2>1, <2>2 DEF WithinOrder, OrderStates
<1>5. symbol_mutexes'[c] = NoThread
  BY <1>2, ReturnedIdle
<1>6. ASSUME NEW x \in DOMAIN order_states, order_states[x].symbol = c
      PROVE  RestsOn(x)
  <2>1. Resting(x) = IF IsOpen(order_states[x]) THEN RestsDuring(t, x) ELSE 0
    BY <1>2, <1>6, RestingHeld
  <2>2. Resting(x)' = IF IsOpen(order_states'[x])
                        THEN remaining_quantity(order_states'[x]) ELSE 0
    BY <1>3, <1>5, <1>6, RestingFreeNext DEF StatesKept
  <2>3. RestsDuring(t, x) = IF x = id THEN 0 ELSE remaining_quantity(order_states[x])
    BY <1>1 DEF RestsDuring
  <2>4. ~IsOpen(order_states'[id])
    BY <1>3 DEF IsOpen, is_terminal
  <2> QED BY <1>3, <2>1, <2>2, <2>3, <2>4 DEF RestsOn
<1>7. \A sd \in Side : Content(c, sd)' = Content(c, sd)
  BY <1>3, <1>6, SameContent DEF Belongs
<1>8. RecordsMoveOn(c)
  BY <1>2, <1>3 DEF RecordsMoveOn, StatesKept
<1>9. \A x \in DOMAIN order_states' : WithinOrder(order_states'[x])
  BY <1>3, <1>4 DEF Agreement, FillsWithinOrder
<1>10. \A sd \in Side : Holds(books'[c][sd], Content(c, sd)')
  BY <1>2, <1>7, UnmovedBooksHold
<1> QED BY <1>2, <1>3, <1>8, <1>9, <1>10, AgreementReturn

\* The order has new terms and is on its way back into a book.
LEMMA ReplaceCommittedAgrees ==
  ASSUME CoreInv, LocksHeld, Agreement, NEW t \in Threads, ReplaceCommitted(t)
  PROVE  Agreement'
<1>1. PICK id, c, price, quantity, revised :
        /\ id = req[t].order_id /\ c = snap[t].symbol
        /\ price = req[t].price /\ quantity = req[t].quantity /\ revised = Revised(t)
  OBVIOUS
<1>2. /\ pc[t] = "replace" /\ revised.quantity > 0
      /\ order_states' = [order_states EXCEPT ![id] = Renewed(@, price, quantity)]
      /\ incoming' = [incoming EXCEPT ![t] = revised]
      /\ pc' = [pc EXCEPT ![t] = "match"]
      /\ UNCHANGED <<symbol_mutexes, books, req, snap, matched>>
  BY <1>1 DEF ReplaceCommitted, Goto, Replaceable
<1>3. /\ c \in Registered /\ c \in Symbols /\ c = MessageSymbol(req[t])
      /\ symbol_mutexes[c] = t /\ id \in DOMAIN order_states
      /\ order_states[id].symbol = c /\ snap[t] = order_states[id]
      /\ order_states[id] \in OrderStates
      /\ ~is_terminal(order_states[id]) /\ matched[t] = <<>>
      /\ req[t] \in Message /\ req[t].kind # "D"
  BY <1>1, <1>2, AmendCall DEF Belongs
<1>4. price \in Prices /\ quantity \in Int
  <2>1. req[t].kind = "G"
    BY <1>2 DEF CoreInv, HandlerOK
  <2> QED BY <1>1, <1>3, <2>1, QuantitiesAssumption DEF Message
<1>5. /\ StatesKept /\ DOMAIN order_states' = DOMAIN order_states
      /\ order_states' \in [DOMAIN order_states' -> OrderStates]
      /\ \A x \in DOMAIN order_states : x # id => order_states'[x] = order_states[x]
  BY <1>2, <1>3, <1>4, RenewedKept DEF CoreInv, TypeOK
<1>6. PICK st : st = order_states[id]
  OBVIOUS
<1>7. /\ order_states'[id].price = price /\ order_states'[id].original_quantity = quantity
      /\ order_states'[id].filled_quantity = st.filled_quantity
      /\ order_states'[id].order_status = "New" /\ order_states'[id].symbol = c
  <2>1. order_states'[id] = Renewed(st, price, quantity)
    BY <1>2, <1>3, <1>6
  <2> QED BY <1>3, <1>6, <2>1 DEF Renewed, OrderStates
<1>8. /\ revised.order_id = id /\ revised.price = price /\ revised.symbol = c
      /\ revised.quantity = quantity - st.filled_quantity /\ revised.quantity \in Int
  BY <1>1, <1>3, <1>4, <1>6 DEF Revised, OrderStates
<1>9. WithinOrder(order_states'[id])
  <2>1. WithinOrder(st) /\ st \in OrderStates
    BY <1>3, <1>6 DEF Agreement, FillsWithinOrder
  <2> QED BY <1>2, <1>4, <1>7, <1>8, <2>1 DEF WithinOrder, OrderStates
<1>10. /\ pc'[t] = "match" /\ incoming'[t] = revised /\ matched'[t] = <<>>
       /\ \A u \in Threads \ {t} : LocalsStay(u)
  BY <1>2, <1>3 DEF CoreInv, TypeOK, ThreadsTypeOK, LocalsStay
<1>11. ASSUME NEW x \in DOMAIN order_states, order_states[x].symbol = c
       PROVE  RestsOn(x)
  <2>1. Resting(x) = IF IsOpen(order_states[x]) THEN RestsDuring(t, x) ELSE 0
    BY <1>3, <1>11, RestingHeld
  <2>2. Resting(x)' = IF IsOpen(order_states'[x]) THEN RestsDuring(t, x)' ELSE 0
    BY <1>2, <1>3, <1>5, <1>11, RestingHeldNext DEF StatesKept
  <2>3. RestsDuring(t, x) = IF x = id THEN 0 ELSE remaining_quantity(order_states[x])
    BY <1>1, <1>2 DEF RestsDuring
  <2>4. CASE x = id
    <3>1. RestsDuring(t, x)' = 0
      BY <1>8, <1>10, <2>4 DEF RestsDuring
    <3> QED BY <2>1, <2>2, <2>3, <2>4, <3>1 DEF RestsOn
  <2>5. CASE x # id
    <3>1. Taken(t, x)' = 0
      BY <1>10, NothingTakenNext
    <3>2. order_states'[x] = order_states[x] /\ remaining_quantity(order_states[x]) \in Int
      BY <1>5, <2>5, RemainingIsInt
    <3>3. RestsDuring(t, x)' = remaining_quantity(order_states[x])
      BY <1>8, <1>10, <2>5, <3>1, <3>2 DEF RestsDuring, remaining_quantity
    <3> QED BY <2>1, <2>2, <2>3, <2>5, <3>2, <3>3 DEF RestsOn
  <2> QED BY <2>4, <2>5
<1>12. \A sd \in Side : Content(c, sd)' = Content(c, sd)
  BY <1>5, <1>11, SameContent DEF Belongs
<1>13. CallOK(t)'
  <2>1. /\ ~is_terminal(order_states'[id])
        /\ remaining_quantity(order_states'[id]) = revised.quantity
        /\ order_states'[id] \in OrderStates
    BY <1>3, <1>5, <1>7, <1>8 DEF is_terminal, remaining_quantity
  <2>2. CallCovered(t)'
    BY <1>7, <1>8, <1>9, <1>10, <2>1, WholeAddsUp
  <2> QED BY <1>10, <2>2 DEF CallOK, SnapCurrent, MatchedInCall
<1>14. RecordsMoveOn(c)
  BY <1>3, <1>5 DEF RecordsMoveOn, StatesKept
<1>15. StaysIn(t, {c})
  BY <1>2, <1>3, <1>10, <1>14, StaysOnSymbol DEF Agreement
<1>16. \A r \in Registered \cap {c}, sd \in Side : Holds(books'[r][sd], Content(r, sd)')
  BY <1>2, <1>12, UnmovedBooksHold
<1>17. \A r \in {c} : symbol_mutexes'[r] = t /\ pc'[t] \in InCall /\ MessageSymbol(req[t])' = r
  BY <1>2, <1>3, <1>10 DEF InCall, MessageSymbol
<1>18. \A x \in DOMAIN order_states' : WithinOrder(order_states'[x])
  BY <1>5, <1>9 DEF Agreement, FillsWithinOrder
<1> QED BY <1>5, <1>13, <1>15, <1>16, <1>17, <1>18, AgreementStep

-----------------------------------------------------------------------------
(* Matching.                                                               *)

\* What process_order may rely on.
LEMMA MatchCall ==
  ASSUME CoreInv, LocksHeld, Agreement, NEW t \in Threads, pc[t] \in {"match", "apply"}
  PROVE  LET order == incoming[t]
             c     == order.symbol
             id    == order.order_id
         IN  /\ order \in Order /\ order.quantity \in Int /\ order.price \in Prices
             /\ order.side \in Side
             /\ c \in Registered /\ c \in Symbols /\ c = MessageSymbol(req[t])
             /\ symbol_mutexes[c] = t
             /\ id \in DOMAIN order_states /\ Belongs(id, c, order.side)
             /\ order_states[id].price = order.price /\ ~is_terminal(order_states[id])
             /\ \A i \in DOMAIN matched[t] : Covered(t, i)
             /\ matched[t] # <<>> => order.quantity >= 0
             /\ HitsOnce(t) /\ AddsUp(t)
             /\ matched[t] \in Seq(PairTrade)
<1>1. CallCovered(t) /\ matched[t] \in Seq(PairTrade)
  BY DEF Agreement, CallOK, CoreInv, TradesTidy
<1>2. /\ incoming[t] \in Order /\ incoming[t].symbol \in Registered
      /\ Belongs(incoming[t].order_id, incoming[t].symbol, incoming[t].side)
  BY DEF CoreInv, HandlerOK
<1>3. incoming[t].symbol = MessageSymbol(req[t]) /\ symbol_mutexes[incoming[t].symbol] = t
  BY DEF LocksHeld, LockHeld, InCall
<1> QED BY <1>1, <1>2, <1>3, RegisteredAssumption DEF CallCovered, Order, Belongs

\* Each trade of a call brings the order closer to what the call has left of it.
LEMMA AddsUpTo ==
  ASSUME CoreInv, NEW t \in Threads, AddsUp(t), matched[t] \in Seq(PairTrade),
         incoming[t].quantity \in Int, incoming[t].order_id \in DOMAIN order_states,
         NEW n, n = Len(matched[t]), NEW q, q = incoming[t].quantity,
         NEW own, own = remaining_quantity(order_states[incoming[t].order_id])
  PROVE  /\ n \in Nat /\ own \in Int /\ q <= own
         /\ n = 0 => q = own
         /\ n > 0 => q <= own - matched[t][1].quantity
         /\ n = 1 => q = own - matched[t][1].quantity
         /\ n > 1 => q <= own - matched[t][1].quantity - matched[t][2].quantity
<1>0. PICK all : all = order_states[incoming[t].order_id].original_quantity
  OBVIOUS
<1>1. PICK left \in [0..n -> q..all] :
        /\ left[0] = own /\ left[n] = q
        /\ \A i \in 1..n : left[i] = left[i - 1] - matched[t][i].quantity
  BY <1>0 DEF AddsUp
<1>2. n \in Nat /\ own \in Int /\ q \in Int /\ all \in Int
  BY <1>0, RemainingIsInt DEF OrderStates
<1>3. left[0] \in q..all
  BY <1>1, <1>2
<1>4. n > 0 => left[1] = own - matched[t][1].quantity /\ left[1] \in q..all
  <2> SUFFICES ASSUME n > 0
               PROVE  left[1] = own - matched[t][1].quantity /\ left[1] \in q..all
    OBVIOUS
  <2>1. 1 \in 1..n /\ 1 \in 0..n /\ 1 - 1 = 0
    BY <1>2
  <2> QED BY <1>1, <2>1
<1>5. n > 1 => left[2] = left[1] - matched[t][2].quantity /\ left[2] \in q..all
  <2> SUFFICES ASSUME n > 1
               PROVE  left[2] = left[1] - matched[t][2].quantity /\ left[2] \in q..all
    OBVIOUS
  <2>1. 2 \in 1..n /\ 2 \in 0..n /\ 2 - 1 = 1
    BY <1>2
  <2> QED BY <1>1, <2>1
<1> QED BY <1>1, <1>2, <1>3, <1>4, <1>5

\* The remainder rests where the order belongs, and no other side moves.
LEMMA RemainderHolds ==
  ASSUME CoreInv, LocksHeld, Agreement, NEW t \in Threads, pc[t] = "match",
         RestRemainder(incoming[t]), UNCHANGED order_states,
         NEW order, order = incoming[t], NEW c, c = order.symbol,
         NEW id, id = order.order_id,
         \A x \in DOMAIN order_states :
           order_states[x].symbol = c /\ x # id => Resting(x)' = Resting(x),
         Resting(id)' = IF order.quantity > 0 THEN order.quantity ELSE 0
  PROVE  /\ \A r \in Registered \ {c} : books'[r] = books[r]
         /\ \A d \in Side : Holds(books'[c][d], Content(c, d)')
<1>1. /\ order \in Order /\ order.quantity \in Int /\ order.price \in Prices
      /\ order.side \in Side /\ c \in Registered /\ symbol_mutexes[c] = t
      /\ id \in DOMAIN order_states /\ Belongs(id, c, order.side)
      /\ order_states[id].price = order.price
  BY MatchCall
<1>2. StatesKept
  BY UnchangedKept
<1>3. Resting(id) = 0
  <2>1. Resting(id) = IF IsOpen(order_states[id]) THEN RestsDuring(t, id) ELSE 0
    BY <1>1, RestingHeld DEF Belongs
  <2> QED BY <2>1 DEF RestsDuring
<1>4. \A d \in Side : Holds(books[c][d], Content(c, d))
  BY <1>1 DEF Agreement, BooksHold
<1>5. \A x \in DOMAIN order_states : order_states[x].symbol = c /\ x # id => RestsOn(x)
  BY DEF RestsOn
<1>6. CASE ~ (order.quantity > 0)
  <2>1. books' = books
    BY <1>6 DEF RestRemainder
  <2>2. RestsOn(id)
    BY <1>3, <1>6 DEF RestsOn
  <2>3. \A d \in Side : Content(c, d)' = Content(c, d)
    BY <1>2, <1>5, <2>2, SameContent DEF Belongs
  <2> QED BY <1>4, <2>1, <2>3
<1>7. CASE order.quantity > 0
  <2>1. PICK sd, entry, levels, new :
          /\ sd = order.side /\ levels = books[c][sd]
          /\ entry = [order_id |-> id, quantity |-> order.quantity]
          /\ new = Rest(levels, order.price, entry)
    OBVIOUS
  <2>2. books' = [books EXCEPT ![c][sd] = new]
    BY <1>7, <2>1 DEF RestRemainder
  <2>3. \A r \in Registered, d \in Side :
          books'[r][d] = IF r = c /\ d = sd THEN new ELSE books[r][d]
    BY <1>1, <2>1, <2>2 DEF CoreInv, TypeOK, BooksTypeOK
  <2>4. \A r \in Registered \ {c} : books'[r] = books[r]
    BY <2>2 DEF CoreInv, TypeOK, BooksTypeOK
  <2>5. Holds(new, Content(c, sd)')
    <3>1. PICK old, after, E :
            old = Content(c, sd) /\ after = Content(c, sd)' /\ E = Booked(c, sd)
      OBVIOUS
    <3>2. /\ DOMAIN old = RestingOn(c, sd)
          /\ \A x \in DOMAIN old : old[x] = <<order_states[x].price, Resting(x)>>
      BY <3>1 DEF Content
    <3>3. id \notin RestingOn(c, sd)
      BY <1>3 DEF RestingOn
    <3>4. \A x \in DOMAIN order_states : Belongs(x, c, sd)' <=> Belongs(x, c, sd)
      BY DEF Belongs
    <3>5. RestingOn(c, sd)' = RestingOn(c, sd) \cup {id}
      BY <1>1, <1>7, <2>1, <3>4 DEF RestingOn, Belongs
    <3>6. after = [x \in DOMAIN old \cup {id} |->
                     IF x = id THEN <<order.price, order.quantity>> ELSE old[x]]
      <4>1. \A x \in RestingOn(c, sd) : Resting(x)' = Resting(x)
        BY <3>3 DEF RestingOn, Belongs
      <4>2. after = [x \in RestingOn(c, sd)' |-> <<order_states'[x].price, Resting(x)'>>]
        BY <3>1 DEF Content
      <4>3. \A x \in RestingOn(c, sd)' :
              <<order_states'[x].price, Resting(x)'>>
                = IF x = id THEN <<order.price, order.quantity>> ELSE old[x]
        BY <1>1, <1>7, <3>2, <3>5, <4>1
      <4> QED BY <3>2, <3>5, <4>2, <4>3
    <3>7. Tidy(levels, E) /\ Holds(levels, old)
      BY <1>1, <1>4, <2>1, <3>1 DEF CoreInv, BooksTidy
    <3>8. entry.order_id = id /\ entry.quantity = order.quantity
      BY <2>1
    <3>9. Holds(new, after)
      <4>1. entry.order_id \notin DOMAIN old /\ order.price \in Prices
        BY <1>1, <3>2, <3>3, <3>8
      <4>2. after = [x \in DOMAIN old \cup {entry.order_id} |->
                       IF x = entry.order_id THEN <<order.price, entry.quantity>>
                                             ELSE old[x]]
        BY <3>6, <3>8
      <4>3. Holds(Rest(levels, order.price, entry), after)
        BY <3>7, <4>1, <4>2, HoldsRest
      <4> QED BY <2>1, <4>3
    <3> QED BY <3>1, <3>9
  <2>6. ASSUME NEW d \in Side, d # sd PROVE Content(c, d)' = Content(c, d)
    <3>1. \A x \in DOMAIN order_states : Belongs(x, c, d) => RestsOn(x)
      BY <1>1, <1>5, <2>1, <2>6 DEF Belongs
    <3> QED BY <1>2, <3>1, SameContent
  <2> QED BY <1>1, <1>4, <2>1, <2>3, <2>4, <2>5, <2>6
<1> QED BY <1>6, <1>7

\* A call without a trade ends with its order at rest.
LEMMA MatchedNothingAgrees ==
  ASSUME CoreInv, LocksHeld, Agreement, NEW t \in Threads, MatchedNothing(t)
  PROVE  Agreement'
<1>1. PICK order, c, id :
        order = incoming[t] /\ c = order.symbol /\ id = order.order_id
  OBVIOUS
<1>2. /\ pc[t] = "match" /\ matched[t] = <<>> /\ RestRemainder(incoming[t])
      /\ Return(t) /\ UNCHANGED order_states
  BY DEF MatchedNothing
<1>3. /\ order.quantity \in Int /\ c \in Registered /\ c \in Symbols
      /\ c = MessageSymbol(req[t]) /\ symbol_mutexes[c] = t
      /\ id \in DOMAIN order_states /\ order_states[id].symbol = c
      /\ ~is_terminal(order_states[id]) /\ AddsUp(t) /\ matched[t] \in Seq(PairTrade)
  BY <1>1, <1>2, MatchCall DEF Belongs
<1>4. remaining_quantity(order_states[id]) = order.quantity
  <2>1. Len(matched[t]) = 0
    BY <1>2
  <2> QED BY <1>1, <1>3, <2>1, AddsUpTo
<1>5. symbol_mutexes'[c] = NoThread
  BY <1>2, <1>3, ReturnedIdle
<1>6. ASSUME NEW x \in DOMAIN order_states, order_states[x].symbol = c
      PROVE  Resting(x)' = IF x = id THEN IF order.quantity > 0 THEN order.quantity ELSE 0
                                     ELSE Resting(x)
  <2>1. Resting(x) = IF IsOpen(order_states[x]) THEN RestsDuring(t, x) ELSE 0
    BY <1>3, <1>6, RestingHeld
  <2>2. Resting(x)' = IF IsOpen(order_states[x])
                        THEN remaining_quantity(order_states[x]) ELSE 0
    BY <1>2, <1>5, <1>6, RestingFreeNext
  <2>3. CASE x = id
    BY <1>3, <1>4, <2>2, <2>3 DEF IsOpen
  <2>4. CASE x # id
    <3>1. RestsDuring(t, x) = remaining_quantity(order_states[x])
      BY <1>1, <1>2, <2>4, NothingTaken, RemainingIsInt DEF RestsDuring
    <3> QED BY <2>1, <2>2, <2>4, <3>1
  <2> QED BY <2>3, <2>4
<1>7. /\ \A r \in Registered \ {c} : books'[r] = books[r]
      /\ \A d \in Side : Holds(books'[c][d], Content(c, d)')
  <2>1. \A x \in DOMAIN order_states :
          order_states[x].symbol = c /\ x # id => Resting(x)' = Resting(x)
    BY <1>6
  <2>2. Resting(id)' = IF order.quantity > 0 THEN order.quantity ELSE 0
    BY <1>3, <1>6
  <2> QED BY <1>1, <1>2, <2>1, <2>2, RemainderHolds
<1>8. StatesKept /\ RecordsMoveOn(c)
  BY <1>2, UnchangedKept DEF RecordsMoveOn
<1>9. \A x \in DOMAIN order_states' : WithinOrder(order_states'[x])
  BY <1>2 DEF Agreement, FillsWithinOrder
<1> QED BY <1>2, <1>3, <1>7, <1>8, <1>9, AgreementReturn

\* A call with trades lets the remainder rest before the OMS hears of them.
LEMMA MatchedSomeAgrees ==
  ASSUME CoreInv, LocksHeld, Agreement, NEW t \in Threads, MatchedSome(t)
  PROVE  Agreement'
<1>1. PICK order, c, id :
        order = incoming[t] /\ c = order.symbol /\ id = order.order_id
  OBVIOUS
<1>2. /\ pc[t] = "match" /\ matched[t] # <<>> /\ RestRemainder(incoming[t])
      /\ pc' = [pc EXCEPT ![t] = "apply"]
      /\ UNCHANGED <<order_states, symbol_mutexes, req, snap, incoming, matched>>
  BY DEF MatchedSome, Goto
<1>3. /\ order.quantity \in Int /\ c \in Registered /\ c \in Symbols
      /\ c = MessageSymbol(req[t]) /\ symbol_mutexes[c] = t
      /\ id \in DOMAIN order_states /\ order_states[id].symbol = c
      /\ ~is_terminal(order_states[id]) /\ AddsUp(t) /\ matched[t] \in Seq(PairTrade)
      /\ order.quantity >= 0
  BY <1>1, <1>2, MatchCall DEF Belongs
<1>4. /\ remaining_quantity(order_states[id]) \in Int
      /\ order.quantity <= remaining_quantity(order_states[id])
  BY <1>1, <1>3, AddsUpTo
<1>5. pc'[t] = "apply" /\ \A u \in Threads \ {t} : LocalsStay(u)
  BY <1>2 DEF CoreInv, TypeOK, ThreadsTypeOK, LocalsStay
<1>6. ASSUME NEW x \in DOMAIN order_states, order_states[x].symbol = c
      PROVE  Resting(x)' = IF x = id THEN IF order.quantity > 0 THEN order.quantity ELSE 0
                                     ELSE Resting(x)
  <2>1. Resting(x) = IF IsOpen(order_states[x]) THEN RestsDuring(t, x) ELSE 0
    BY <1>3, <1>6, RestingHeld
  <2>2. Resting(x)' = IF IsOpen(order_states[x]) THEN RestsDuring(t, x)' ELSE 0
    BY <1>2, <1>3, <1>6, RestingHeldNext
  <2>3. CASE x = id
    <3>1. RestsDuring(t, x)' = order.quantity
      BY <1>1, <1>2, <1>5, <2>3 DEF RestsDuring
    <3> QED BY <1>3, <1>4, <2>2, <2>3, <3>1 DEF IsOpen
  <2>4. CASE x # id
    <3>1. Taken(t, x)' = Taken(t, x)
      BY <1>2 DEF Taken, TradesOf, Hit, HitBy
    <3>2. RestsDuring(t, x)' = RestsDuring(t, x)
      BY <1>1, <1>2, <1>5, <2>4, <3>1 DEF RestsDuring, remaining_quantity
    <3> QED BY <2>1, <2>2, <2>4, <3>2
  <2> QED BY <2>3, <2>4
<1>7. /\ \A r \in Registered \ {c} : books'[r] = books[r]
      /\ \A d \in Side : Holds(books'[c][d], Content(c, d)')
  <2>1. \A x \in DOMAIN order_states :
          order_states[x].symbol = c /\ x # id => Resting(x)' = Resting(x)
    BY <1>6
  <2>2. Resting(id)' = IF order.quantity > 0 THEN order.quantity ELSE 0
    BY <1>3, <1>6
  <2> QED BY <1>1, <1>2, <2>1, <2>2, RemainderHolds
<1>8. StatesKept /\ RecordsMoveOn(c)
  BY <1>2, UnchangedKept DEF RecordsMoveOn
<1>9. \A x \in DOMAIN order_states' : WithinOrder(order_states'[x])
  BY <1>2 DEF Agreement, FillsWithinOrder
<1>10. CallOK(t)'
  <2>1. CallCovered(t)
    BY DEF Agreement, CallOK
  <2>2. CallCovered(t)'
    BY <1>2, <1>5, <2>1
       DEF CallCovered, Covered, HitsOnce, AddsUp, Hit, HitBy, OwnOf, is_terminal,
           remaining_quantity
  <2> QED BY <1>5, <2>2 DEF CallOK, SnapCurrent, MatchedInCall
<1>11. StaysIn(t, {c})
  BY <1>2, <1>3, <1>5, <1>7, <1>8, StaysOnSymbol DEF Agreement
<1>12. \A r \in {c} : symbol_mutexes'[r] = t /\ pc'[t] \in InCall /\ MessageSymbol(req[t])' = r
  BY <1>2, <1>3, <1>5 DEF InCall, MessageSymbol
<1> QED BY <1>7, <1>8, <1>9, <1>10, <1>11, <1>12, AgreementStep

\* What a call has taken of an order it hit is the quantity of the one trade.
LEMMA TakenIs ==
  ASSUME NEW t \in Threads, HitsOnce(t), NEW i \in DOMAIN matched[t],
         NEW x, x = Hit(t, i)
  PROVE  Taken(t, x) = matched[t][i].quantity
<1>1. TradesOf(t, x) = {i}
  BY DEF TradesOf, HitsOnce
<1>2. (CHOOSE j \in TradesOf(t, x) : TRUE) = i
  BY <1>1
<1> QED BY <1>1, <1>2 DEF Taken

\* The same after a step.
LEMMA TakenIsNext ==
  ASSUME NEW t \in Threads, NEW x, NEW i \in DOMAIN matched'[t],
         \A j \in DOMAIN matched'[t] : Hit(t, j)' = x <=> j = i
  PROVE  Taken(t, x)' = matched'[t][i].quantity
<1>1. TradesOf(t, x)' = {i}
  BY DEF TradesOf
<1>2. (CHOOSE j \in TradesOf(t, x)' : TRUE) = i
  BY <1>1
<1> QED BY <1>1, <1>2 DEF Taken

\* Of an order that the call did not hit it has taken nothing.
LEMMA TakenNone ==
  ASSUME NEW t, NEW x, TradesOf(t, x) = {}
  PROVE  Taken(t, x) = 0
BY DEF Taken

\* Where the loop of match_orders looks for the next trade of t's call.
AtFront(t, order, c, side, levels, best, front, x) ==
  /\ order = incoming[t] /\ c = order.symbol
  /\ side = Opposite(order.side) /\ levels = Against(order)
  /\ best = Best(side, levels) /\ front = levels[best][1] /\ x = front.order_id

\* The front order of the best level, while the incoming order has shares left:
\* it was not hit before, and all that the OMS has left of it rests.
LEMMA FrontUntouched ==
  ASSUME CoreInv, LocksHeld, Agreement, NEW t \in Threads, pc[t] = "match",
         NEW order, NEW c, NEW side, NEW levels, NEW best, NEW front, NEW x,
         AtFront(t, order, c, side, levels, best, front, x),
         order.quantity > 0, CanMatch(order)
  PROVE  /\ side \in Side /\ side # order.side /\ levels = books[c][side]
         /\ Tidy(levels, Booked(c, side)) /\ Holds(levels, Content(c, side))
         /\ best \in DOMAIN levels /\ front \in Entry /\ front.quantity > 0
         /\ x \in DOMAIN order_states /\ Belongs(x, c, side) /\ x # order.order_id
         /\ x \in RestingOn(c, side)
         /\ order_states[x].price = best /\ ~is_terminal(order_states[x])
         /\ front.quantity = remaining_quantity(order_states[x])
         /\ front.quantity = Resting(x)
         /\ TradesOf(t, x) = {}
<1>a. /\ order = incoming[t] /\ c = order.symbol
      /\ side = Opposite(order.side) /\ levels = Against(order)
      /\ best = Best(side, levels) /\ front = levels[best][1] /\ x = front.order_id
  BY DEF AtFront
<1>1. /\ side \in Side /\ levels = books[c][side] /\ Tidy(levels, Booked(c, side))
      /\ best \in DOMAIN levels /\ front \in Booked(c, side) /\ c \in Registered
      /\ order \in Order /\ Belongs(order.order_id, c, order.side)
  BY <1>a, RestingOrder
<1>2. side # order.side
  BY <1>a, <1>1 DEF Opposite, Order, Side
<1>3. /\ symbol_mutexes[c] = t /\ HitsOnce(t)
      /\ \A i \in DOMAIN matched[t] : Covered(t, i)
  BY <1>a, MatchCall
<1>4. Holds(levels, Content(c, side))
  BY <1>1 DEF Agreement, BooksHold
<1>5. front \in Entry /\ Belongs(x, c, side)
  BY <1>a, <1>1 DEF Booked
<1>6. x \in DOMAIN order_states /\ x # order.order_id /\ order_states[x].symbol = c
  BY <1>a, <1>1, <1>2, <1>5 DEF Belongs
<1>7. /\ x \in RestingOn(c, side)
      /\ <<order_states[x].price, Resting(x)>> = <<best, front.quantity>>
  <2>1. levels[best] \in Seq(Booked(c, side)) /\ levels[best] # <<>>
    BY <1>1 DEF Tidy
  <2>2. 1 \in DOMAIN levels[best]
    BY <2>1
  <2>3. /\ levels[best][1].order_id \in DOMAIN Content(c, side)
        /\ Content(c, side)[levels[best][1].order_id] = <<best, levels[best][1].quantity>>
    <3>1. PICK content : content = Content(c, side)
      OBVIOUS
    <3>2. /\ levels[best][1].order_id \in DOMAIN content
          /\ content[levels[best][1].order_id] = <<best, levels[best][1].quantity>>
      BY <1>1, <1>4, <2>2, <3>1, HeldAtLevel
    <3> QED BY <3>1, <3>2
  <2>4. levels[best][1] = front /\ front.order_id = x
    BY <1>a
  <2>5. x \in DOMAIN Content(c, side) /\ Content(c, side)[x] = <<best, front.quantity>>
    BY <2>3, <2>4
  <2> QED BY <2>5 DEF Content
<1>8. Resting(x) > 0 /\ Resting(x) = front.quantity /\ order_states[x].price = best
  BY <1>7 DEF RestingOn
<1>9. /\ IsOpen(order_states[x])
      /\ Resting(x) = remaining_quantity(order_states[x]) - Taken(t, x)
  <2>1. Resting(x) = IF IsOpen(order_states[x]) THEN RestsDuring(t, x) ELSE 0
    BY <1>3, <1>6, RestingHeld
  <2>2. IsOpen(order_states[x]) /\ Resting(x) = RestsDuring(t, x)
    <3>1. PICK rests, during : rests = Resting(x) /\ during = RestsDuring(t, x)
      OBVIOUS
    <3> QED BY <1>8, <2>1, <3>1
  <2>3. x # incoming[t].order_id
    BY <1>a, <1>6
  <2>4. RestsDuring(t, x) = remaining_quantity(order_states[x]) - Taken(t, x)
    BY <2>3, Zenon DEF RestsDuring
  <2> QED BY <2>2, <2>4
<1>10. TradesOf(t, x) = {}
  <2> SUFFICES ASSUME TradesOf(t, x) # {} PROVE FALSE
    OBVIOUS
  <2>1. PICK i \in DOMAIN matched[t] : Hit(t, i) = x
    BY DEF TradesOf
  <2>2. Taken(t, x) = matched[t][i].quantity
    BY <1>3, <2>1, TakenIs
  <2>3. matched[t][i].quantity = remaining_quantity(order_states[x])
    BY <1>a, <1>3, <2>1 DEF HitsOnce
  <2>4. Resting(x) = 0
    BY <1>6, <1>9, <2>2, <2>3, RemainingIsInt
  <2> QED BY <1>8, <2>4
<1>11. Resting(x) = remaining_quantity(order_states[x])
  BY <1>6, <1>9, <1>10, TakenNone, RemainingIsInt
<1> QED BY <1>1, <1>2, <1>4, <1>5, <1>6, <1>7, <1>8, <1>9, <1>10, <1>11 DEF IsOpen

\* A match takes shares off the front order, and the call remembers how many.
LEMMA MatchOneAgrees ==
  ASSUME CoreInv, LocksHeld, Agreement, NEW t \in Threads, MatchOne(t)
  PROVE  Agreement'
<1>1. PICK order, c, id, side, levels, best, front, x, traded, trade, q :
        /\ order = incoming[t] /\ c = order.symbol /\ id = order.order_id
        /\ side = Opposite(order.side) /\ levels = Against(order)
        /\ best = Best(side, levels) /\ front = levels[best][1] /\ x = front.order_id
        /\ traded = IF order.quantity <= front.quantity
                      THEN order.quantity ELSE front.quantity
        /\ trade = NewTrade(order, x, best, traded)
        /\ q = order.quantity - traded
  OBVIOUS
<1>a. order = incoming[t] /\ c = order.symbol /\ id = order.order_id
  BY <1>1
<1>b. side = Opposite(order.side) /\ levels = Against(order) /\ best = Best(side, levels)
  BY <1>1
<1>c. front = levels[best][1] /\ x = front.order_id
  BY <1>1
<1>d. /\ traded = IF order.quantity <= front.quantity THEN order.quantity ELSE front.quantity
      /\ q = order.quantity - traded
  BY <1>1
<1>e. trade = NewTrade(order, x, best, traded)
  BY <1>1
<1>2. /\ pc[t] = "match" /\ CanMatch(order) /\ order.quantity > 0
      /\ matched' = [matched EXCEPT ![t] = Append(@, trade)]
      /\ incoming' = [incoming EXCEPT ![t].quantity = @ - traded]
      /\ books' = [books EXCEPT ![c][side] = TakeFront(@, best, traded)]
      /\ UNCHANGED <<order_states, symbol_mutexes, pc, req, snap>>
  BY <1>1 DEF MatchOne, CanMatch
<1>3. /\ order \in Order /\ order.quantity \in Int /\ order.side \in Side
      /\ c \in Registered /\ c \in Symbols /\ c = MessageSymbol(req[t])
      /\ symbol_mutexes[c] = t
      /\ id \in DOMAIN order_states /\ Belongs(id, c, order.side)
      /\ order_states[id].price = order.price /\ ~is_terminal(order_states[id])
      /\ \A i \in DOMAIN matched[t] : Covered(t, i)
      /\ HitsOnce(t) /\ AddsUp(t) /\ matched[t] \in Seq(PairTrade)
  BY <1>a, <1>2, MatchCall
<1>4. /\ side \in Side /\ side # order.side /\ levels = books[c][side]
      /\ Tidy(levels, Booked(c, side)) /\ Holds(levels, Content(c, side))
      /\ best \in DOMAIN levels /\ front \in Entry /\ front.quantity > 0
      /\ x \in DOMAIN order_states /\ Belongs(x, c, side) /\ x # id
      /\ x \in RestingOn(c, side)
      /\ order_states[x].price = best /\ ~is_terminal(order_states[x])
      /\ front.quantity = remaining_quantity(order_states[x])
      /\ front.quantity = Resting(x)
      /\ TradesOf(t, x) = {}
  <2>1. CoreInv /\ LocksHeld /\ Agreement /\ t \in Threads
    OBVIOUS
  <2>2. pc[t] = "match" /\ order.quantity > 0 /\ CanMatch(order)
    BY <1>2
  <2>3. AtFront(t, order, c, side, levels, best, front, x)
    BY <1>a, <1>b, <1>c DEF AtFront
  <2>4. x # order.order_id => x # id
    BY <1>a
  <2> QED BY <2>1, <2>2, <2>3, <2>4, FrontUntouched
<1>5. front.quantity \in Int /\ traded \in Int /\ q \in Int /\ 0 < traded
        /\ traded <= front.quantity /\ 0 <= q /\ (q > 0 => traded = front.quantity)
  <2>1. front.quantity \in Int
    BY <1>4 DEF Entry
  <2> QED BY <1>d, <1>2, <1>3, <1>4, <2>1
<1>6. PICK n \in Nat : n = Len(matched[t]) /\ DOMAIN matched[t] = 1..n
  BY <1>3
<1>7. /\ DOMAIN matched'[t] = 1..(n + 1) /\ Len(matched'[t]) = n + 1
      /\ matched'[t][n + 1] = trade
      /\ \A i \in 1..n : matched'[t][i] = matched[t][i]
  <2>1. matched'[t] = Append(matched[t], trade)
    BY <1>2 DEF CoreInv, TypeOK, ThreadsTypeOK
  <2>2. matched[t] \in Seq(PairTrade \cup {trade})
    BY <1>3, SeqInLarger
  <2> QED BY <1>6, <2>1, <2>2, AppendProperties
<1>8. /\ incoming'[t].order_id = id /\ incoming'[t].symbol = c
      /\ incoming'[t].side = order.side /\ incoming'[t].price = order.price
      /\ incoming'[t].quantity = q
  <2>1. incoming \in [Threads -> Order \cup {None}]
    BY DEF CoreInv, TypeOK, ThreadsTypeOK
  <2>2. incoming' = [incoming EXCEPT ![t].quantity = @ - traded]
    BY <1>2
  <2>3. incoming'[t] = [order EXCEPT !.quantity = @ - traded]
    BY <1>a, <2>1, <2>2
  <2>4. order \in Order
    BY <1>3
  <2> QED BY <1>a, <1>d, <2>3, <2>4 DEF Order
<1>9. \A u \in Threads \ {t} : LocalsStay(u)
  BY <1>2 DEF CoreInv, TypeOK, ThreadsTypeOK, LocalsStay
<1>10. /\ \A i \in 1..n : Hit(t, i)' = Hit(t, i)
       /\ Hit(t, n + 1)' = x /\ OwnOf(incoming'[t], trade) = id
       /\ trade.price = best /\ trade.quantity = traded
  <2>1. \A i \in 1..n : Hit(t, i)' = Hit(t, i)
    BY <1>a, <1>7, <1>8 DEF Hit, HitBy
  <2>2. /\ trade.price = best /\ trade.quantity = traded
        /\ trade.buy_order_id = IF order.side = "Buy" THEN id ELSE x
        /\ trade.sell_order_id = IF order.side = "Buy" THEN x ELSE id
    BY <1>a, <1>e DEF NewTrade
  <2>3. Hit(t, n + 1)' = x
    BY <1>7, <1>8, <2>2 DEF Hit, HitBy
  <2>4. OwnOf(incoming'[t], trade) = id
    BY <1>8, <2>2 DEF OwnOf
  <2> QED BY <2>1, <2>2, <2>3, <2>4
<1>11. \A i \in 1..n : Hit(t, i) # x
  BY <1>4, <1>6 DEF TradesOf
<1>12. Taken(t, x)' = traded
  <2>1. \A j \in DOMAIN matched'[t] : Hit(t, j)' = x <=> j = n + 1
    BY <1>7, <1>10, <1>11
  <2> QED BY <1>7, <1>10, <2>1, TakenIsNext
<1>13. ASSUME NEW y, y # x PROVE Taken(t, y)' = Taken(t, y)
  <2>1. TradesOf(t, y)' = TradesOf(t, y)
    BY <1>6, <1>7, <1>10, <1>13 DEF TradesOf
  <2>2. CASE TradesOf(t, y) = {}
    BY <2>1, <2>2 DEF Taken
  <2>3. CASE TradesOf(t, y) # {}
    <3>1. (CHOOSE i \in TradesOf(t, y) : TRUE) \in 1..n
      BY <1>6, <2>3 DEF TradesOf
    <3> QED BY <1>7, <2>1, <2>3, <3>1 DEF Taken
  <2> QED BY <2>2, <2>3
<1>14. ASSUME NEW y \in DOMAIN order_states, order_states[y].symbol = c
       PROVE  Resting(y)' = IF y = x THEN front.quantity - traded ELSE Resting(y)
  <2>1. Resting(y) = IF IsOpen(order_states[y]) THEN RestsDuring(t, y) ELSE 0
    BY <1>3, <1>14, RestingHeld
  <2>2. Resting(y)' = IF IsOpen(order_states[y]) THEN RestsDuring(t, y)' ELSE 0
    BY <1>2, <1>3, <1>14, RestingHeldNext
  <2>3. RestsDuring(t, y)' = IF y = id THEN 0
                             ELSE remaining_quantity(order_states[y]) - Taken(t, y)'
    BY <1>2, <1>8 DEF RestsDuring, remaining_quantity
  <2>4. CASE y = x
    <3>1. IsOpen(order_states[x])
      BY <1>4, <1>5 DEF IsOpen
    <3> QED BY <1>4, <1>12, <2>2, <2>3, <2>4, <3>1
  <2>5. CASE y # x
    <3>1. RestsDuring(t, y) = IF y = id THEN 0
                              ELSE remaining_quantity(order_states[y]) - Taken(t, y)
      BY <1>a, <1>2 DEF RestsDuring
    <3> QED BY <1>13, <2>1, <2>2, <2>3, <2>5, <3>1
  <2> QED BY <2>4, <2>5
<1>15. StatesKept /\ RecordsMoveOn(c)
  BY <1>2, UnchangedKept DEF RecordsMoveOn
<1>16. /\ \A r \in Registered, d \in Side :
            books'[r][d] = IF r = c /\ d = side THEN TakeFront(levels, best, traded)
                                                ELSE books[r][d]
       /\ \A r \in Registered \ {c} : books'[r] = books[r]
  BY <1>2, <1>3, <1>4 DEF CoreInv, TypeOK, BooksTypeOK
<1>17. Holds(TakeFront(levels, best, traded), Content(c, side)')
  <2>1. PICK old, new, E :
          old = Content(c, side) /\ new = Content(c, side)' /\ E = Booked(c, side)
    OBVIOUS
  <2>2. /\ DOMAIN old = RestingOn(c, side)
        /\ \A y \in DOMAIN old : old[y] = <<order_states[y].price, Resting(y)>>
        /\ DOMAIN new = RestingOn(c, side)'
        /\ \A y \in DOMAIN new : new[y] = <<order_states'[y].price, Resting(y)'>>
        /\ new = [y \in DOMAIN new |-> new[y]]
    BY <2>1 DEF Content
  <2>3. \A y \in DOMAIN order_states : Belongs(y, c, side)' <=> Belongs(y, c, side)
    BY <1>2 DEF Belongs
  <2>4. RestingOn(c, side)' = IF front.quantity = traded THEN RestingOn(c, side) \ {x}
                                                         ELSE RestingOn(c, side)
    BY <1>2, <1>4, <1>5, <1>14, <2>3 DEF RestingOn, Belongs
  <2>5. \A y \in DOMAIN new : y # x => new[y] = old[y]
    BY <1>2, <1>14, <2>2, <2>3, <2>4 DEF RestingOn, Belongs
  <2>6. Tidy(levels, E) /\ Holds(levels, old) /\ E \subseteq Entry
    BY <1>4, <2>1 DEF Booked
  <2>7. CASE front.quantity = traded
    <3>1. new = [y \in DOMAIN old \ {x} |-> old[y]]
      BY <2>2, <2>4, <2>5, <2>7
    <3>2. levels[best][1].order_id = x /\ levels[best][1].quantity = traded
      BY <1>c, <2>7
    <3>3. new = [y \in DOMAIN old \ {levels[best][1].order_id} |-> old[y]]
      BY <3>1, <3>2
    <3>4. Holds(TakeFront(levels, best, traded), new)
      BY <1>4, <2>6, <3>2, <3>3, HoldsFrontGone
    <3> QED BY <2>1, <3>4
  <2>8. CASE front.quantity # traded
    <3>1. levels[best][1] = front
      BY <1>1
    <3>2. DOMAIN new = DOMAIN old
      BY <2>2, <2>4, <2>8
    <3>3. new[x] = <<best, front.quantity - traded>>
      BY <1>2, <1>4, <1>14, <2>2, <3>2 DEF Belongs
    <3>4. new = [y \in DOMAIN old |->
                    IF y = levels[best][1].order_id
                      THEN <<best, levels[best][1].quantity - traded>> ELSE old[y]]
      BY <1>c, <2>2, <2>5, <3>1, <3>2, <3>3
    <3>5. Holds(TakeFront(levels, best, traded), new)
      BY <1>4, <1>5, <2>6, <2>8, <3>1, <3>4, HoldsFrontLess
    <3> QED BY <2>1, <3>5
  <2> QED BY <2>7, <2>8
<1>18. ASSUME NEW d \in Side PROVE Holds(books'[c][d], Content(c, d)')
  <2>1. CASE d = side
    BY <1>3, <1>16, <1>17, <2>1
  <2>2. CASE d # side
    <3>1. \A y \in DOMAIN order_states : Belongs(y, c, d) => RestsOn(y)
      BY <1>2, <1>4, <1>14, <2>2 DEF Belongs, RestsOn
    <3>2. Content(c, d)' = Content(c, d)
      BY <1>2, <1>15, <3>1, SameContent
    <3> QED BY <1>3, <1>16, <2>2, <3>2 DEF Agreement, BooksHold
  <2> QED BY <2>1, <2>2
<1>19. \A i \in DOMAIN matched'[t] : Covered(t, i)'
  <2>1. ASSUME NEW i \in 1..n PROVE Covered(t, i)'
    <3>1. Covered(t, i) /\ matched'[t][i] = matched[t][i] /\ Hit(t, i)' = Hit(t, i)
      BY <1>3, <1>6, <1>7, <1>10
    <3>2. OwnOf(incoming'[t], matched[t][i]) = OwnOf(incoming[t], matched[t][i])
      BY <1>a, <1>8 DEF OwnOf
    <3> QED BY <1>a, <1>2, <1>8, <3>1, <3>2 DEF Covered, is_terminal, remaining_quantity
  <2>2. Covered(t, n + 1)'
    BY <1>2, <1>4, <1>5, <1>7, <1>8, <1>10 DEF Covered, is_terminal, remaining_quantity
  <2> QED BY <1>7, <2>1, <2>2
<1>20. HitsOnce(t)'
  <2>1. ASSUME NEW i \in 1..(n + 1), NEW j \in 1..(n + 1), Hit(t, i)' = Hit(t, j)'
        PROVE  i = j
    BY <1>3, <1>6, <1>10, <1>11, <2>1 DEF HitsOnce
  <2>2. ASSUME q > 0, NEW i \in 1..(n + 1)
        PROVE  matched'[t][i].quantity = remaining_quantity(order_states[Hit(t, i)'])
    <3>1. CASE i = n + 1
      BY <1>4, <1>5, <1>7, <1>10, <2>2, <3>1
    <3>2. CASE i \in 1..n
      <4>1. matched'[t][i] = matched[t][i] /\ Hit(t, i)' = Hit(t, i) /\ i \in DOMAIN matched[t]
        BY <1>6, <1>7, <1>10, <3>2
      <4>2. matched[t][i].quantity = remaining_quantity(order_states[Hit(t, i)])
        BY <1>a, <1>2, <1>3, <4>1 DEF HitsOnce
      <4> QED BY <4>1, <4>2
    <3> QED BY <3>1, <3>2
  <2> QED BY <1>2, <1>7, <1>8, <2>1, <2>2 DEF HitsOnce, remaining_quantity
<1>21. AddsUp(t)'
  <2>1. PICK own, all : /\ own = remaining_quantity(order_states[id])
                        /\ all = order_states[id].original_quantity
    OBVIOUS
  <2>2. own \in Int /\ all \in Int
    BY <1>3, <2>1, RemainingIsInt DEF OrderStates
  <2>3. PICK left \in [0..n -> order.quantity..all] :
          /\ left[0] = own /\ left[n] = order.quantity
          /\ \A i \in 1..n : left[i] = left[i - 1] - matched[t][i].quantity
    BY <1>a, <1>3, <1>6, <2>1 DEF AddsUp
  <2> DEFINE after == [i \in 0..(n + 1) |-> IF i = n + 1 THEN q ELSE left[i]]
  <2>4. left[n] \in order.quantity..all /\ n \in 0..n
    BY <1>6, <2>3
  <2>5. q <= order.quantity /\ order.quantity <= all /\ q = order.quantity - traded
    <3>1. order.quantity <= all
      BY <1>3, <2>2, <2>4
    <3> QED BY <1>d, <1>3, <1>5, <3>1
  <2>6. after \in [0..(n + 1) -> q..all]
    <3>1. \A i \in 0..n : left[i] \in order.quantity..all
      BY <2>3
    <3>2. \A i \in 0..(n + 1) : (IF i = n + 1 THEN q ELSE left[i]) \in q..all
      BY <1>3, <1>5, <2>2, <2>5, <3>1
    <3> QED BY <3>2
  <2>7. after[0] = own /\ after[n + 1] = q
    BY <2>3
  <2>8. ASSUME NEW i \in 1..(n + 1)
        PROVE  after[i] = after[i - 1] - matched'[t][i].quantity
    <3>1. CASE i = n + 1
      BY <1>7, <1>10, <2>3, <2>5, <3>1
    <3>2. CASE i \in 1..n
      <4>1. after[i] = left[i] /\ after[i - 1] = left[i - 1]
        BY <3>2
      <4> QED BY <1>7, <2>3, <3>2, <4>1
    <3> QED BY <3>1, <3>2
  <2> HIDE DEF after
  <2>9. \E l \in [0..(n + 1) -> q..all] :
          /\ l[0] = own /\ l[n + 1] = q
          /\ \A i \in 1..(n + 1) : l[i] = l[i - 1] - matched'[t][i].quantity
    BY <2>6, <2>7, <2>8
  <2>10. /\ Len(matched'[t]) = n + 1 /\ incoming'[t].quantity = q
         /\ own = remaining_quantity(order_states'[incoming'[t].order_id])
         /\ all = order_states'[incoming'[t].order_id].original_quantity
    BY <1>2, <1>7, <1>8, <2>1
  <2> QED BY <2>9, <2>10 DEF AddsUp, remaining_quantity
<1>22. CallOK(t)'
  <2>1. CallCovered(t)'
    BY <1>2, <1>3, <1>5, <1>8, <1>19, <1>20, <1>21 DEF CallCovered, is_terminal
  <2> QED BY <1>2, <2>1 DEF CallOK, SnapCurrent, MatchedInCall
<1>23. StaysIn(t, {c})
  BY <1>2, <1>3, <1>9, <1>15, <1>16, StaysOnSymbol DEF Agreement
<1>24. \A r \in {c} : symbol_mutexes'[r] = t /\ pc'[t] \in InCall /\ MessageSymbol(req[t])' = r
  BY <1>2, <1>3 DEF InCall, MessageSymbol
<1>25. \A y \in DOMAIN order_states' : WithinOrder(order_states'[y])
  BY <1>2 DEF Agreement, FillsWithinOrder
<1> QED BY <1>15, <1>18, <1>22, <1>23, <1>24, <1>25, AgreementStep

-----------------------------------------------------------------------------
(* Applying.                                                               *)

\* A fill of shares that are left is within the order, and ends it when none are.
LEMMA FillSound ==
  ASSUME NEW st \in OrderStates, WithinOrder(st), ~is_terminal(st), NEW quantity \in Int,
         0 < quantity, quantity <= remaining_quantity(st)
  PROVE  LET new == AfterFill(st, quantity)
         IN  /\ WithinOrder(new) /\ new \in OrderStates
             /\ remaining_quantity(new) = remaining_quantity(st) - quantity
             /\ remaining_quantity(new) \in Int /\ remaining_quantity(new) >= 0
             /\ is_terminal(new) <=> remaining_quantity(new) = 0
             /\ new.price = st.price /\ new.original_quantity = st.original_quantity
<1> DEFINE new == AfterFill(st, quantity)
<1>1. /\ new \in OrderStates
      /\ new.price = st.price
      /\ new.original_quantity = st.original_quantity
      /\ new.filled_quantity = st.filled_quantity + quantity
      /\ new.order_status = IF new.original_quantity - new.filled_quantity = 0
                              THEN "Filled" ELSE "Partial_Filled"
  BY AfterFillType
<1>2. st.original_quantity \in Int /\ st.filled_quantity \in Int
  BY DEF OrderStates
<1> HIDE DEF new
<1>3. remaining_quantity(new) = remaining_quantity(st) - quantity
  BY <1>1, <1>2 DEF remaining_quantity
<1>4. WithinOrder(new)
  BY <1>1, <1>2 DEF WithinOrder, remaining_quantity
<1>5. is_terminal(new) <=> remaining_quantity(new) = 0
  BY <1>1 DEF is_terminal, remaining_quantity
<1>6. remaining_quantity(new) \in Int /\ remaining_quantity(new) >= 0
  BY <1>2, <1>3 DEF remaining_quantity
<1> QED BY <1>1, <1>3, <1>4, <1>5, <1>6 DEF new

\* The trade that t's call applies next, and the two orders it is between.
AtFirst(t, order, c, id, trade, x) ==
  /\ order = incoming[t] /\ c = order.symbol /\ id = order.order_id
  /\ trade = matched[t][1] /\ x = Hit(t, 1)

\* The first trade of a call fills its own order and the one it hit, and both
\* have the shares for it.
LEMMA FirstTradeApplied ==
  ASSUME CoreInv, LocksHeld, Agreement, NEW t \in Threads, pc[t] = "apply",
         Apply(matched[t][1]),
         NEW order, NEW c, NEW id, NEW trade, NEW x, AtFirst(t, order, c, id, trade, x)
  PROVE  /\ StatesKept /\ RecordsMoveOn(c)
         /\ DOMAIN order_states' = DOMAIN order_states
         /\ id \in DOMAIN order_states /\ x \in DOMAIN order_states /\ x # id
         /\ Belongs(x, c, Opposite(order.side))
         /\ order_states[id].symbol = c /\ order_states[x].symbol = c
         /\ IsOpen(order_states[id]) /\ IsOpen(order_states[x])
         /\ \A y \in DOMAIN order_states :
              y \notin {id, x} => order_states'[y] = order_states[y]
         /\ \A y \in {id, x} :
              /\ WithinOrder(order_states'[y])
              /\ remaining_quantity(order_states'[y])
                   = remaining_quantity(order_states[y]) - trade.quantity
              /\ remaining_quantity(order_states[y]) \in Int
              /\ remaining_quantity(order_states'[y]) >= 0
              /\ is_terminal(order_states'[y]) <=> remaining_quantity(order_states'[y]) = 0
              /\ order_states'[y].price = order_states[y].price
              /\ order_states'[y].original_quantity = order_states[y].original_quantity
         /\ trade.quantity \in Int
         /\ order.quantity \in Int /\ 0 <= order.quantity
         /\ order.quantity <= remaining_quantity(order_states'[id])
<1>a. /\ order = incoming[t] /\ c = order.symbol /\ id = order.order_id
      /\ trade = matched[t][1] /\ x = Hit(t, 1)
  BY DEF AtFirst
<1>1. matched[t] # <<>> /\ matched[t] \in Seq(PairTrade)
  BY DEF CoreInv, HandlerOK, TradesTidy
<1>2. 1 \in DOMAIN matched[t] /\ trade \in PairTrade /\ Len(matched[t]) \in Nat
        /\ Len(matched[t]) > 0
  BY <1>a, <1>1
<1>3. /\ order \in Order /\ order.quantity \in Int /\ order.quantity >= 0
      /\ order.side \in Side /\ id \in DOMAIN order_states /\ Belongs(id, c, order.side)
      /\ ~is_terminal(order_states[id]) /\ Covered(t, 1) /\ AddsUp(t)
  BY <1>a, <1>1, <1>2, MatchCall
<1>4. x \in DOMAIN order_states /\ Belongs(x, c, Opposite(order.side))
  BY <1>a, <1>2, <1>3, HitsOnSymbol
<1>5. x # id
  BY <1>3, <1>4 DEF Belongs, Opposite, Side
<1>6. /\ trade.quantity \in Int /\ 0 < trade.quantity
      /\ trade.quantity <= remaining_quantity(order_states[x])
      /\ ~is_terminal(order_states[x])
  BY <1>a, <1>2, <1>3 DEF Covered, PairTrade, Trade
<1>7. order.quantity <= remaining_quantity(order_states[id]) - trade.quantity
  BY <1>a, <1>1, <1>2, <1>3, AddsUpTo
<1>8. /\ order_states[id] \in OrderStates /\ remaining_quantity(order_states[id]) \in Int
      /\ order_states[x] \in OrderStates /\ remaining_quantity(order_states[x]) \in Int
  BY <1>3, <1>4, RemainingIsInt
<1>9. trade.quantity <= remaining_quantity(order_states[id])
  BY <1>3, <1>6, <1>7, <1>8
<1>10. {trade.buy_order_id, trade.sell_order_id} = {id, x}
  BY <1>a, <1>3 DEF Covered, OwnOf, Hit, HitBy
<1>11. /\ StatesKept /\ DOMAIN order_states' = DOMAIN order_states
       /\ \A y \in DOMAIN order_states :
            order_states'[y] = IF y \in {id, x}
                                 THEN AfterFill(order_states[y], trade.quantity)
                                 ELSE order_states[y]
  BY <1>a, <1>2, <1>10, ApplyKept DEF CoreInv, TypeOK
<1>12. ASSUME NEW y \in {id, x}
       PROVE  /\ WithinOrder(order_states'[y])
              /\ remaining_quantity(order_states'[y])
                   = remaining_quantity(order_states[y]) - trade.quantity
              /\ remaining_quantity(order_states[y]) \in Int
              /\ remaining_quantity(order_states'[y]) >= 0
              /\ is_terminal(order_states'[y]) <=> remaining_quantity(order_states'[y]) = 0
              /\ order_states'[y].price = order_states[y].price
              /\ order_states'[y].original_quantity = order_states[y].original_quantity
  <2>1. /\ y \in DOMAIN order_states
        /\ order_states'[y] = AfterFill(order_states[y], trade.quantity)
    BY <1>3, <1>4, <1>11
  <2>2. WithinOrder(order_states[y])
    BY <2>1 DEF Agreement, FillsWithinOrder
  <2>3. /\ order_states[y] \in OrderStates /\ ~is_terminal(order_states[y])
        /\ trade.quantity <= remaining_quantity(order_states[y])
    BY <1>3, <1>6, <1>8, <1>9
  <2> QED BY <1>6, <1>8, <2>1, <2>2, <2>3, FillSound
<1>13. order.quantity <= remaining_quantity(order_states'[id])
  BY <1>7, <1>12
<1>14. IsOpen(order_states[id]) /\ IsOpen(order_states[x])
  BY <1>3, <1>6, <1>8, <1>9 DEF IsOpen
<1>15. order_states[id].symbol = c /\ order_states[x].symbol = c
  BY <1>3, <1>4 DEF Belongs
<1>16. RecordsMoveOn(c)
  BY <1>11, <1>15 DEF RecordsMoveOn, StatesKept
<1> QED BY <1>3, <1>4, <1>5, <1>6, <1>11, <1>12, <1>13, <1>14, <1>15, <1>16

\* Two different orders of symbol c have shares left.
BothOpen(c, id, x) ==
  /\ x # id /\ id \in DOMAIN order_states /\ x \in DOMAIN order_states
  /\ IsOpen(order_states[id]) /\ IsOpen(order_states[x])
  /\ order_states[id].symbol = c /\ order_states[x].symbol = c

\* What rests of the two orders before the first trade is applied.
LEMMA RestingBefore ==
  ASSUME CoreInv, LocksHeld, Agreement, NEW t \in Threads, pc[t] = "apply",
         NEW order, NEW c, NEW id, NEW trade, NEW x, AtFirst(t, order, c, id, trade, x),
         BothOpen(c, id, x)
  PROVE  /\ symbol_mutexes[c] = t
         /\ Resting(id) = order.quantity
         /\ Resting(x) = remaining_quantity(order_states[x]) - trade.quantity
<1>a. /\ order = incoming[t] /\ c = order.symbol /\ id = order.order_id
      /\ trade = matched[t][1] /\ x = Hit(t, 1)
  BY DEF AtFirst
<1>1. symbol_mutexes[c] = t /\ HitsOnce(t)
  BY <1>a, MatchCall
<1>2. 1 \in DOMAIN matched[t]
  <2>1. matched[t] # <<>> /\ matched[t] \in Seq(PairTrade)
    BY DEF CoreInv, HandlerOK, TradesTidy
  <2> QED BY <2>1
<1>3. Taken(t, x) = trade.quantity
  BY <1>a, <1>1, <1>2, TakenIs
<1>4. Resting(id) = RestsDuring(t, id) /\ Resting(x) = RestsDuring(t, x)
  BY <1>1, RestingHeld DEF BothOpen
<1> QED BY <1>a, <1>1, <1>3, <1>4 DEF RestsDuring, BothOpen

\* The first of several trades is applied: what the OMS has left of each order
\* moves towards what rests, and what rests does not move.
LEMMA ApplyTradeAgrees ==
  ASSUME CoreInv, LocksHeld, Agreement, NEW t \in Threads, ApplyTrade(t)
  PROVE  Agreement'
<1>1. PICK order, c, id, trade, x : AtFirst(t, order, c, id, trade, x)
  BY DEF AtFirst
<1>a. /\ order = incoming[t] /\ c = order.symbol /\ id = order.order_id
      /\ trade = matched[t][1] /\ x = Hit(t, 1)
  BY <1>1 DEF AtFirst
<1>2. /\ pc[t] = "apply" /\ Apply(matched[t][1]) /\ Len(matched[t]) > 1
      /\ matched' = [matched EXCEPT ![t] = Tail(@)]
      /\ UNCHANGED <<symbol_mutexes, books, pc, req, snap, incoming>>
  BY DEF ApplyTrade
<1>3. /\ StatesKept /\ RecordsMoveOn(c)
      /\ DOMAIN order_states' = DOMAIN order_states
      /\ id \in DOMAIN order_states /\ x \in DOMAIN order_states /\ x # id
      /\ order_states[id].symbol = c /\ order_states[x].symbol = c
      /\ IsOpen(order_states[id]) /\ IsOpen(order_states[x])
      /\ \A y \in DOMAIN order_states :
           y \notin {id, x} => order_states'[y] = order_states[y]
      /\ \A y \in {id, x} :
           /\ WithinOrder(order_states'[y])
           /\ remaining_quantity(order_states'[y])
                = remaining_quantity(order_states[y]) - trade.quantity
           /\ remaining_quantity(order_states[y]) \in Int
           /\ remaining_quantity(order_states'[y]) >= 0
           /\ is_terminal(order_states'[y]) <=> remaining_quantity(order_states'[y]) = 0
           /\ order_states'[y].price = order_states[y].price
           /\ order_states'[y].original_quantity = order_states[y].original_quantity
      /\ trade.quantity \in Int
      /\ order.quantity \in Int /\ 0 <= order.quantity
      /\ order.quantity <= remaining_quantity(order_states'[id])
  BY <1>1, <1>2, FirstTradeApplied
<1>4. /\ c \in Registered /\ c \in Symbols /\ c = MessageSymbol(req[t])
      /\ order_states[id].price = order.price /\ order.side \in Side
      /\ Belongs(id, c, order.side)
      /\ \A i \in DOMAIN matched[t] : Covered(t, i)
      /\ HitsOnce(t) /\ AddsUp(t) /\ matched[t] \in Seq(PairTrade)
  BY <1>a, <1>2, MatchCall
<1>5. PICK n \in Nat : n = Len(matched[t]) /\ n > 1 /\ DOMAIN matched[t] = 1..n
  BY <1>2, <1>4
<1>6. /\ DOMAIN matched'[t] = 1..(n - 1) /\ Len(matched'[t]) = n - 1
      /\ \A i \in 1..(n - 1) : matched'[t][i] = matched[t][i + 1]
  <2>1. matched'[t] = Tail(matched[t])
    BY <1>2 DEF CoreInv, TypeOK, ThreadsTypeOK
  <2> QED BY <1>4, <1>5, <2>1
<1>7. \A i \in 1..(n - 1) : Hit(t, i)' = Hit(t, i + 1) /\ i + 1 \in 1..n /\ i + 1 # 1
  BY <1>2, <1>6 DEF Hit, HitBy
<1>8. \A i \in 1..n : i # 1 => Hit(t, i) # x
  BY <1>a, <1>4, <1>5 DEF HitsOnce
<1>9. \A i \in 1..n : Hit(t, i) \in DOMAIN order_states /\ Hit(t, i) # id
  <2> SUFFICES ASSUME NEW i \in 1..n
               PROVE  Hit(t, i) \in DOMAIN order_states /\ Hit(t, i) # id
    OBVIOUS
  <2>1. Belongs(Hit(t, i), c, Opposite(order.side))
    BY <1>a, <1>2, <1>4, <1>5, HitsOnSymbol
  <2> QED BY <1>4, <2>1 DEF Belongs, Opposite, Side
<1>10. ASSUME NEW y, y # x PROVE Taken(t, y)' = Taken(t, y)
  <2>1. CASE \E i \in 1..n : Hit(t, i) = y
    <3>1. PICK i \in 1..n : Hit(t, i) = y
      BY <2>1
    <3>2. i # 1
      BY <1>a, <1>10, <3>1
    <3>3. PICK k \in 1..(n - 1) : k + 1 = i
      <4>1. i - 1 \in 1..(n - 1) /\ (i - 1) + 1 = i
        BY <1>5, <3>2
      <4> QED BY <4>1
    <3>4. Taken(t, y) = matched[t][i].quantity
      BY <1>4, <1>5, <3>1, TakenIs
    <3>5. \A j \in 1..(n - 1) : Hit(t, j)' = y <=> j = k
      <4> SUFFICES ASSUME NEW j \in 1..(n - 1) PROVE Hit(t, j)' = y <=> j = k
        OBVIOUS
      <4>1. Hit(t, j)' = Hit(t, j + 1) /\ j + 1 \in DOMAIN matched[t]
        BY <1>5, <1>7
      <4>2. Hit(t, j + 1) = y <=> j + 1 = i
        BY <1>4, <1>5, <3>1, <4>1 DEF HitsOnce
      <4>3. j + 1 = k + 1 <=> j = k
        BY <1>5
      <4> QED BY <3>3, <4>1, <4>2, <4>3
    <3>6. Taken(t, y)' = matched'[t][k].quantity
      <4>1. k \in DOMAIN matched'[t] /\ \A j \in DOMAIN matched'[t] : Hit(t, j)' = y <=> j = k
        BY <1>6, <3>3, <3>5
      <4> QED BY <4>1, TakenIsNext
    <3>7. matched'[t][k] = matched[t][i]
      BY <1>6, <3>3
    <3> QED BY <3>4, <3>6, <3>7
  <2>2. CASE \A i \in 1..n : Hit(t, i) # y
    <3>1. TradesOf(t, y) = {}
      BY <1>5, <2>2 DEF TradesOf
    <3>2. TradesOf(t, y)' = {}
      BY <1>6, <1>7, <2>2 DEF TradesOf
    <3> QED BY <3>1, <3>2 DEF Taken
  <2> QED BY <2>1, <2>2
<1>11. Taken(t, x)' = 0
  <2>1. TradesOf(t, x)' = {}
    BY <1>6, <1>7, <1>8 DEF TradesOf
  <2> QED BY <2>1 DEF Taken
<1>12. /\ symbol_mutexes[c] = t
       /\ Resting(id) = order.quantity
       /\ Resting(x) = remaining_quantity(order_states[x]) - trade.quantity
  <2>1. pc[t] = "apply"
    BY <1>2
  <2>2. BothOpen(c, id, x)
    BY <1>3 DEF BothOpen
  <2> QED BY <1>1, <2>1, <2>2, RestingBefore
<1>13. ASSUME NEW y \in DOMAIN order_states, order_states[y].symbol = c
       PROVE  RestsOn(y)
  <2>1. Resting(y)' = IF IsOpen(order_states'[y]) THEN RestsDuring(t, y)' ELSE 0
    BY <1>2, <1>3, <1>12, <1>13, RestingHeldNext DEF StatesKept
  <2>2. RestsDuring(t, y)' = IF y = id THEN order.quantity
                             ELSE remaining_quantity(order_states'[y]) - Taken(t, y)'
    BY <1>a, <1>2 DEF RestsDuring, remaining_quantity
  <2>3. CASE y = id
    <3>1. Resting(id)' = order.quantity
      BY <1>3, <2>1, <2>2, <2>3 DEF IsOpen
    <3> QED BY <1>3, <1>12, <2>3, <3>1 DEF RestsOn
  <2>4. CASE y = x
    <3>1. Resting(x)' = remaining_quantity(order_states'[x])
      BY <1>3, <1>11, <2>1, <2>2, <2>4 DEF IsOpen
    <3> QED BY <1>3, <1>12, <2>4, <3>1 DEF RestsOn
  <2>5. CASE y \notin {id, x}
    <3>1. order_states'[y] = order_states[y]
      BY <1>3, <2>5
    <3>2. Resting(y) = IF IsOpen(order_states[y]) THEN RestsDuring(t, y) ELSE 0
      BY <1>12, <1>13, RestingHeld
    <3>3. RestsDuring(t, y) = remaining_quantity(order_states[y]) - Taken(t, y)
      BY <1>a, <1>2, <2>5 DEF RestsDuring
    <3> QED BY <1>10, <2>1, <2>2, <2>5, <3>1, <3>2, <3>3 DEF RestsOn
  <2> QED BY <2>3, <2>4, <2>5
<1>14. \A sd \in Side : Content(c, sd)' = Content(c, sd)
  BY <1>3, <1>13, SameContent DEF Belongs
<1>15. AddsUp(t)'
  <2>1. PICK own, all : /\ own = remaining_quantity(order_states[id])
                        /\ all = order_states[id].original_quantity
    OBVIOUS
  <2>2. PICK left \in [0..n -> order.quantity..all] :
          /\ left[0] = own /\ left[n] = order.quantity
          /\ \A i \in 1..n : left[i] = left[i - 1] - matched[t][i].quantity
    BY <1>a, <1>4, <1>5, <2>1 DEF AddsUp
  <2>3. left[1] = own - trade.quantity
    <3>1. 1 \in 1..n /\ 1 - 1 = 0
      BY <1>5
    <3> QED BY <1>a, <2>2, <3>1
  <2> DEFINE after == [i \in 0..(n - 1) |-> left[i + 1]]
  <2>4. after \in [0..(n - 1) -> order.quantity..all]
    <3>1. \A i \in 0..(n - 1) : i + 1 \in 0..n
      BY <1>5
    <3> QED BY <2>2, <3>1
  <2>5. after[0] = own - trade.quantity /\ after[n - 1] = order.quantity
    <3>1. 0 \in 0..(n - 1) /\ n - 1 \in 0..(n - 1) /\ 0 + 1 = 1 /\ (n - 1) + 1 = n
      BY <1>5
    <3> QED BY <2>2, <2>3, <3>1
  <2>6. ASSUME NEW i \in 1..(n - 1)
        PROVE  after[i] = after[i - 1] - matched'[t][i].quantity
    <3>1. /\ i \in 0..(n - 1) /\ i - 1 \in 0..(n - 1) /\ i + 1 \in 1..n
          /\ (i - 1) + 1 = i /\ (i + 1) - 1 = i
      BY <1>5
    <3>2. after[i] = left[i + 1] /\ after[i - 1] = left[i]
      BY <3>1
    <3>3. left[i + 1] = left[i] - matched[t][i + 1].quantity
      BY <2>2, <3>1
    <3> QED BY <1>6, <3>2, <3>3
  <2> HIDE DEF after
  <2>7. PICK m, q, rest, st :
          /\ m = n - 1 /\ q = order.quantity /\ rest = own - trade.quantity
          /\ st = order_states'[id]
    OBVIOUS
  <2>8. /\ Len(matched'[t]) = m /\ incoming'[t].quantity = q
        /\ order_states'[incoming'[t].order_id] = st
    BY <1>a, <1>2, <1>6, <2>7
  <2>9. rest = remaining_quantity(st) /\ all = st.original_quantity
    BY <1>3, <2>1, <2>7
  <2>10. \E l \in [0..m -> q..all] :
          /\ l[0] = rest /\ l[m] = q
          /\ \A i \in 1..m : l[i] = l[i - 1] - matched'[t][i].quantity
    BY <2>4, <2>5, <2>6, <2>7
  <2> QED BY <2>8, <2>9, <2>10 DEF AddsUp, remaining_quantity
<1>16. \A i \in DOMAIN matched'[t] : Covered(t, i)'
  <2> SUFFICES ASSUME NEW i \in 1..(n - 1) PROVE Covered(t, i)'
    BY <1>6
  <2>1. PICK k \in 1..n : k = i + 1 /\ k # 1
    BY <1>7
  <2>2. Hit(t, i)' = Hit(t, k) /\ matched'[t][i] = matched[t][k] /\ Covered(t, k)
    BY <1>4, <1>5, <1>6, <1>7, <2>1
  <2>3. order_states'[Hit(t, k)] = order_states[Hit(t, k)]
    BY <1>3, <1>8, <1>9, <2>1
  <2> QED BY <1>2, <2>2, <2>3 DEF Covered, OwnOf, is_terminal, remaining_quantity
<1>17. HitsOnce(t)'
  <2>1. ASSUME NEW i \in 1..(n - 1), NEW j \in 1..(n - 1), Hit(t, i)' = Hit(t, j)'
        PROVE  i = j
    <3>1. Hit(t, i + 1) = Hit(t, j + 1) /\ i + 1 \in DOMAIN matched[t] /\ j + 1 \in DOMAIN matched[t]
      BY <1>5, <1>7, <2>1
    <3>2. i + 1 = j + 1
      BY <1>4, <3>1 DEF HitsOnce
    <3> QED BY <1>5, <3>2
  <2>2. ASSUME order.quantity > 0, NEW i \in 1..(n - 1)
        PROVE  matched'[t][i].quantity = remaining_quantity(order_states'[Hit(t, i)'])
    <3>1. PICK k \in 1..n : k = i + 1 /\ k # 1
      BY <1>7
    <3>2. order_states'[Hit(t, k)] = order_states[Hit(t, k)]
      BY <1>3, <1>8, <1>9, <3>1
    <3>3. matched[t][k].quantity = remaining_quantity(order_states[Hit(t, k)])
      BY <1>a, <1>4, <1>5, <2>2 DEF HitsOnce
    <3> QED BY <1>6, <1>7, <3>1, <3>2, <3>3
  <2> QED BY <1>a, <1>2, <1>6, <2>1, <2>2 DEF HitsOnce, remaining_quantity
<1>18. ~is_terminal(order_states'[id]) /\ order_states'[id].price = order.price
  <2>1. PICK left \in Int : left = remaining_quantity(order_states[id])
    BY <1>3
  <2>2. order.quantity <= left - trade.quantity - matched[t][2].quantity
    BY <1>a, <1>3, <1>4, <1>5, <2>1, AddsUpTo
  <2>3. matched[t][2].quantity \in Int /\ 0 < matched[t][2].quantity
    <3>1. 2 \in DOMAIN matched[t]
      BY <1>5
    <3> QED BY <1>4, <3>1 DEF Covered, PairTrade, Trade
  <2>4. remaining_quantity(order_states'[id]) > 0
    BY <1>3, <2>1, <2>2, <2>3
  <2> QED BY <1>3, <1>4, <2>4
<1>19. CallOK(t)'
  <2>1. CallCovered(t)'
    BY <1>a, <1>2, <1>3, <1>15, <1>16, <1>17, <1>18 DEF CallCovered, is_terminal
  <2> QED BY <1>2, <2>1 DEF CallOK, SnapCurrent, MatchedInCall
<1>20. \A u \in Threads \ {t} : LocalsStay(u)
  BY <1>2 DEF CoreInv, TypeOK, ThreadsTypeOK, LocalsStay
<1>21. StaysIn(t, {c})
  BY <1>2, <1>3, <1>4, <1>12, <1>20, StaysOnSymbol DEF Agreement
<1>22. \A r \in Registered \cap {c}, sd \in Side : Holds(books'[r][sd], Content(r, sd)')
  BY <1>2, <1>14, UnmovedBooksHold
<1>23. \A r \in {c} : symbol_mutexes'[r] = t /\ pc'[t] \in InCall /\ MessageSymbol(req[t])' = r
  BY <1>2, <1>4, <1>12 DEF InCall, MessageSymbol
<1>24. \A y \in DOMAIN order_states' : WithinOrder(order_states'[y])
  BY <1>3 DEF Agreement, FillsWithinOrder
<1> QED BY <1>3, <1>19, <1>21, <1>22, <1>23, <1>24, AgreementStep

\* The last trade is applied: the OMS and the book agree again without the call.
LEMMA ApplyLastTradeAgrees ==
  ASSUME CoreInv, LocksHeld, Agreement, NEW t \in Threads, ApplyLastTrade(t)
  PROVE  Agreement'
<1>1. PICK order, c, id, trade, x : AtFirst(t, order, c, id, trade, x)
  BY DEF AtFirst
<1>a. /\ order = incoming[t] /\ c = order.symbol /\ id = order.order_id
      /\ trade = matched[t][1] /\ x = Hit(t, 1)
  BY <1>1 DEF AtFirst
<1>2. /\ pc[t] = "apply" /\ Apply(matched[t][1]) /\ Len(matched[t]) = 1
      /\ Return(t) /\ UNCHANGED books
  BY DEF ApplyLastTrade
<1>3. /\ StatesKept /\ RecordsMoveOn(c)
      /\ DOMAIN order_states' = DOMAIN order_states
      /\ id \in DOMAIN order_states /\ x \in DOMAIN order_states /\ x # id
      /\ order_states[id].symbol = c /\ order_states[x].symbol = c
      /\ IsOpen(order_states[id]) /\ IsOpen(order_states[x])
      /\ \A y \in DOMAIN order_states :
           y \notin {id, x} => order_states'[y] = order_states[y]
      /\ \A y \in {id, x} :
           /\ WithinOrder(order_states'[y])
           /\ remaining_quantity(order_states'[y])
                = remaining_quantity(order_states[y]) - trade.quantity
           /\ remaining_quantity(order_states[y]) \in Int
           /\ remaining_quantity(order_states'[y]) >= 0
           /\ is_terminal(order_states'[y]) <=> remaining_quantity(order_states'[y]) = 0
           /\ order_states'[y].price = order_states[y].price
      /\ order.quantity \in Int /\ trade.quantity \in Int
  BY <1>1, <1>2, FirstTradeApplied
<1>4. /\ c \in Registered /\ c \in Symbols /\ c = MessageSymbol(req[t])
      /\ HitsOnce(t) /\ AddsUp(t) /\ matched[t] \in Seq(PairTrade)
  BY <1>a, <1>2, MatchCall
<1>5. order.quantity = remaining_quantity(order_states[id]) - trade.quantity
  BY <1>a, <1>2, <1>3, <1>4, AddsUpTo
<1>6. /\ symbol_mutexes[c] = t
      /\ Resting(id) = order.quantity
      /\ Resting(x) = remaining_quantity(order_states[x]) - trade.quantity
  <2>1. pc[t] = "apply"
    BY <1>2
  <2>2. BothOpen(c, id, x)
    BY <1>3 DEF BothOpen
  <2> QED BY <1>1, <2>1, <2>2, RestingBefore
<1>7. symbol_mutexes'[c] = NoThread
  BY <1>2, <1>4, ReturnedIdle
<1>8. ASSUME NEW y, y # x PROVE TradesOf(t, y) = {}
  <2>1. DOMAIN matched[t] = {1}
    BY <1>2, <1>4
  <2> QED BY <1>a, <1>8, <2>1 DEF TradesOf
<1>9. ASSUME NEW y \in DOMAIN order_states, order_states[y].symbol = c
      PROVE  RestsOn(y)
  <2>1. Resting(y)' = IF IsOpen(order_states'[y])
                        THEN remaining_quantity(order_states'[y]) ELSE 0
    BY <1>3, <1>7, <1>9, RestingFreeNext DEF StatesKept
  <2>2. CASE y \in {id, x}
    <3>1. Resting(y)' = remaining_quantity(order_states'[y])
      <4>1. PICK st : st = order_states'[y]
        OBVIOUS
      <4>2. /\ remaining_quantity(st) \in Int /\ remaining_quantity(st) >= 0
            /\ is_terminal(st) <=> remaining_quantity(st) = 0
        BY <1>3, <2>2, <4>1
      <4>3. Resting(y)' = IF IsOpen(st) THEN remaining_quantity(st) ELSE 0
        BY <2>1, <4>1
      <4> QED BY <4>1, <4>2, <4>3 DEF IsOpen
    <3> QED BY <1>3, <1>5, <1>6, <2>2, <3>1 DEF RestsOn
  <2>3. CASE y \notin {id, x}
    <3>1. order_states'[y] = order_states[y]
      BY <1>3, <2>3
    <3>2. Resting(y) = IF IsOpen(order_states[y]) THEN RestsDuring(t, y) ELSE 0
      BY <1>6, <1>9, RestingHeld
    <3>3. Taken(t, y) = 0
      BY <1>8, <2>3, TakenNone
    <3>4. RestsDuring(t, y) = remaining_quantity(order_states[y])
      BY <1>a, <1>2, <2>3, <3>3, RemainingIsInt DEF RestsDuring
    <3> QED BY <2>1, <3>1, <3>2, <3>4 DEF RestsOn
  <2> QED BY <2>2, <2>3
<1>10. \A sd \in Side : Content(c, sd)' = Content(c, sd)
  BY <1>3, <1>9, SameContent DEF Belongs
<1>11. \A sd \in Side : Holds(books'[c][sd], Content(c, sd)')
  BY <1>2, <1>4, <1>10, UnmovedBooksHold
<1>12. \A y \in DOMAIN order_states' : WithinOrder(order_states'[y])
  BY <1>3 DEF Agreement, FillsWithinOrder
<1> QED BY <1>2, <1>3, <1>4, <1>6, <1>11, <1>12, AgreementReturn

-----------------------------------------------------------------------------
(* The invariant.                                                          *)

\* Before the first message the books are empty and the OMS knows no order.
LEMMA InitAgreement == Init => Agreement
<1> SUFFICES ASSUME Init PROVE Agreement
  OBVIOUS
<1>1. /\ symbol_mutexes = [s \in Symbols |-> NoThread] /\ DOMAIN order_states = {}
      /\ pc = [t \in Threads |-> "idle"] /\ matched = [t \in Threads |-> <<>>]
  BY DEF Init
<1>2. ASSUME NEW s \in Registered, NEW sd \in Side
      PROVE  Holds(books[s][sd], Content(s, sd))
  <2>1. DOMAIN books[s][sd] = {}
    BY DEF Init, NoLevels
  <2>2. DOMAIN Content(s, sd) = {}
    BY <1>1 DEF Content, RestingOn
  <2> QED BY <2>1, <2>2 DEF Holds
<1>3. HeldInCall /\ FillsWithinOrder
  BY <1>1 DEF HeldInCall, FillsWithinOrder
<1>4. \A t \in Threads : CallOK(t)
  BY <1>1 DEF CallOK, SnapCurrent, MatchedInCall, CallCovered
<1> QED BY <1>2, <1>3, <1>4 DEF Agreement, BooksHold

\* A step that changes nothing keeps the invariant.
LEMMA StutterAgreement ==
  ASSUME Agreement, UNCHANGED vars
  PROVE  Agreement'
<1>1. UNCHANGED <<symbol_mutexes, order_states, books, pc, req, snap, incoming, matched>>
  BY DEF vars, shared, locals
<1>2. HeldInCall' /\ FillsWithinOrder'
  BY <1>1 DEF Agreement, HeldInCall, FillsWithinOrder, MessageSymbol, WithinOrder
<1>3. \A t, i : Hit(t, i)' = Hit(t, i)
  BY <1>1 DEF Hit, HitBy
<1>4. \A t, x : TradesOf(t, x)' = TradesOf(t, x)
  BY <1>1, <1>3 DEF TradesOf
<1>5. ASSUME NEW t, NEW x PROVE Taken(t, x)' = Taken(t, x)
  <2>1. (CHOOSE i \in TradesOf(t, x)' : TRUE) = CHOOSE i \in TradesOf(t, x) : TRUE
    BY <1>4, Zenon
  <2> QED BY <1>1, <1>4, <2>1 DEF Taken
<1>6. \A x : Resting(x)' = Resting(x)
  BY <1>1, <1>5 DEF Resting, RestsDuring, remaining_quantity, IsOpen, is_terminal
<1>7. \A s \in Registered, sd \in Side : Holds(books[s][sd], Content(s, sd))'
  <2> SUFFICES ASSUME NEW s \in Registered, NEW sd \in Side
               PROVE  Holds(books[s][sd], Content(s, sd))'
    OBVIOUS
  <2>1. RestingOn(s, sd)' = RestingOn(s, sd)
    BY <1>1, <1>6 DEF RestingOn, Belongs
  <2>2. Content(s, sd)' = Content(s, sd)
    BY <1>1, <1>6, <2>1 DEF Content
  <2>3. Holds(books[s][sd], Content(s, sd))
    BY DEF Agreement, BooksHold
  <2> QED BY <1>1, <2>2, <2>3 DEF Holds
<1>8. ASSUME NEW t \in Threads PROVE CallOK(t)'
  <2>1. SnapCurrent(t)' /\ MatchedInCall(t)'
    BY <1>1 DEF Agreement, CallOK, SnapCurrent, MatchedInCall, is_terminal
  <2>2. AddsUp(t) => AddsUp(t)'
    BY <1>1 DEF AddsUp, remaining_quantity
  <2>3. HitsOnce(t) => HitsOnce(t)'
    BY <1>1, <1>3 DEF HitsOnce, remaining_quantity
  <2>4. \A i : Covered(t, i) => Covered(t, i)'
    BY <1>1, <1>3 DEF Covered, OwnOf, remaining_quantity, is_terminal
  <2>5. CallCovered(t)'
    BY <1>1, <2>2, <2>3, <2>4 DEF Agreement, CallOK, CallCovered, is_terminal
  <2> QED BY <2>1, <2>5 DEF CallOK
<1> QED BY <1>2, <1>7, <1>8 DEF Agreement, BooksHold

\* Every step keeps the invariant.
LEMMA NextAgreement ==
  ASSUME CoreInv, LocksHeld, Agreement, Next
  PROVE  Agreement'
<1>1. PICK t \in Threads : Receive(t) \/ Enter(t) \/ Continue(t)
  BY DEF Next
<1>2. CASE Receive(t)
  BY <1>2, ReceiveAgrees
<1>3. CASE Enter(t)
  BY <1>3, SubmitRejectedAgrees, SubmitAcceptedAgrees, AmendRefusedAgrees,
     AmendStartedAgrees DEF Enter
<1>4. CASE Continue(t)
  <2>1. CASE MatchOne(t) \/ MatchedNothing(t) \/ MatchedSome(t)
    BY <2>1, MatchOneAgrees, MatchedNothingAgrees, MatchedSomeAgrees
  <2>2. CASE ApplyTrade(t) \/ ApplyLastTrade(t)
    BY <2>2, ApplyTradeAgrees, ApplyLastTradeAgrees
  <2>3. CASE Pull(t) \/ ReplaceCommitted(t)
    BY <2>3, PullAgrees, ReplaceCommittedAgrees
  <2>4. CASE CancelDone(t)
    BY <2>4, CancelledReturnAgrees DEF CancelDone
  <2>5. CASE ReplaceAbandoned(t)
    BY <2>5, CancelledReturnAgrees DEF ReplaceAbandoned
  <2> QED BY <1>4, <2>1, <2>2, <2>3, <2>4, <2>5 DEF Continue
<1> QED BY <1>1, <1>2, <1>3, <1>4

\* The books and the OMS agree at every moment of every call, whatever the
\* other threads do.
THEOREM AgreementAlways ==
  ASSUME NamesOwnSymbol
  PROVE  Spec => []Agreement
<1>1. IndInv => CoreInv /\ LocksHeld
  BY DEF IndInv
<1>2. IndInv /\ Agreement /\ [Next]_vars => Agreement'
  BY <1>1, NextAgreement, StutterAgreement
<1> QED BY InitAgreement, <1>2, IndInvAlways, PTL DEF Spec

\* No order trades more than it asked for, over any sequence of partial fills,
\* cancels and replaces, and its status agrees with its fills.
THEOREM FillsWithinOrderAlways ==
  ASSUME NamesOwnSymbol
  PROVE  Spec => []FillsWithinOrder
<1>1. Agreement => FillsWithinOrder
  BY DEF Agreement
<1> QED BY <1>1, AgreementAlways, PTL


\* A place of a book holds an open order of its side and price, for the shares
\* that rest of it.
LEMMA PlaceHolds ==
  ASSUME IndInv, Agreement, NEW s \in Registered, symbol_mutexes[s] = NoThread,
         NEW sd \in Side, NEW p \in DOMAIN books[s][sd], NEW i \in DOMAIN books[s][sd][p],
         NEW entry, entry = books[s][sd][p][i]
  PROVE  /\ Belongs(entry.order_id, s, sd)
         /\ IsOpen(order_states[entry.order_id])
         /\ order_states[entry.order_id].price = p
         /\ entry.quantity = remaining_quantity(order_states[entry.order_id])
<1>1. PICK id, content : id = entry.order_id /\ content = Content(s, sd)
  OBVIOUS
<1>2. Holds(books[s][sd], content)
  BY <1>1 DEF Agreement, BooksHold
<1>3. id \in DOMAIN content /\ content[id] = <<p, entry.quantity>>
  BY <1>1, <1>2 DEF Holds
<1>4. /\ Belongs(id, s, sd) /\ Resting(id) > 0
      /\ content[id] = <<order_states[id].price, Resting(id)>>
  BY <1>1, <1>3 DEF Content, RestingOn
<1>5. order_states[id].symbol = s /\ id \in DOMAIN order_states
  BY <1>4 DEF Belongs
<1>6. Resting(id) = IF IsOpen(order_states[id])
                      THEN remaining_quantity(order_states[id]) ELSE 0
  BY <1>5, RestingFree
<1>7. IsOpen(order_states[id])
  BY <1>4, <1>6
<1>8. <<p, entry.quantity>> = <<order_states[id].price, Resting(id)>>
  BY <1>3, <1>4
<1>9. p = order_states[id].price /\ entry.quantity = Resting(id)
  BY <1>8
<1> QED BY <1>1, <1>4, <1>6, <1>7, <1>9

\* A place of a symbol's books, taken apart.
LEMMA PlaceParts ==
  ASSUME NEW s, NEW place \in Places(s)
  PROVE  \E sd \in Side : \E p \in DOMAIN books[s][sd] : \E i \in DOMAIN books[s][sd][p] :
           place = <<sd, p, i>> /\ EntryAt(s, place) = books[s][sd][p][i]
<1>1. PICK sd \in Side : \E p \in DOMAIN books[s][sd] :
        \E i \in DOMAIN books[s][sd][p] : place = <<sd, p, i>>
  BY DEF Places
<1>2. PICK p \in DOMAIN books[s][sd] :
        \E i \in DOMAIN books[s][sd][p] : place = <<sd, p, i>>
  BY <1>1
<1>3. PICK i \in DOMAIN books[s][sd][p] : place = <<sd, p, i>>
  BY <1>2
<1> QED BY <1>3 DEF EntryAt

\* Between two calls on a symbol each of its open orders rests in one place.
LEMMA OnePlace ==
  ASSUME IndInv, Agreement, NEW s \in Registered, symbol_mutexes[s] = NoThread,
         NEW id \in DOMAIN order_states, order_states[id].symbol = s,
         IsOpen(order_states[id])
  PROVE  \E place : {pl \in Places(s) : EntryAt(s, pl).order_id = id} = {place}
<1>1. PICK sd, content : sd = order_states[id].side /\ content = Content(s, sd)
  OBVIOUS
<1>2. sd \in Side /\ Belongs(id, s, sd)
  BY <1>1 DEF Belongs, IndInv, CoreInv, TypeOK, OmsTypeOK, OrderStates
<1>3. Resting(id) = remaining_quantity(order_states[id]) /\ Resting(id) > 0
  BY RestingFree DEF IsOpen
<1>4. id \in DOMAIN content /\ content[id][1] = order_states[id].price
  BY <1>1, <1>2, <1>3 DEF Content, RestingOn
<1>5. Holds(books[s][sd], content)
  BY <1>1, <1>2 DEF Agreement, BooksHold
<1>6. PICK p \in DOMAIN books[s][sd] : \E i \in DOMAIN books[s][sd][p] :
        books[s][sd][p][i].order_id = id
  BY <1>4, <1>5 DEF Holds
<1>7. PICK i \in DOMAIN books[s][sd][p] : books[s][sd][p][i].order_id = id
  BY <1>6
<1>8. p = order_states[id].price
  BY <1>2, <1>7, PlaceHolds
<1>9. <<sd, p, i>> \in Places(s) /\ EntryAt(s, <<sd, p, i>>).order_id = id
  BY <1>2, <1>7 DEF Places, EntryAt
<1>10. ASSUME NEW pl \in Places(s), EntryAt(s, pl).order_id = id
       PROVE  pl = <<sd, p, i>>
  <2>1. PICK sd2, p2, i2 :
          /\ sd2 \in Side /\ p2 \in DOMAIN books[s][sd2] /\ i2 \in DOMAIN books[s][sd2][p2]
          /\ pl = <<sd2, p2, i2>> /\ EntryAt(s, pl) = books[s][sd2][p2][i2]
    BY PlaceParts
  <2>2. Belongs(id, s, sd2) /\ order_states[id].price = p2
    BY <1>10, <2>1, PlaceHolds
  <2>3. sd2 = sd /\ p2 = p
    BY <1>1, <1>8, <2>2 DEF Belongs
  <2>4. i2 = i
    BY <1>5, <1>7, <1>10, <2>1, <2>3 DEF Holds
  <2> QED BY <2>1, <2>3, <2>4
<1>11. {pl \in Places(s) : EntryAt(s, pl).order_id = id} = {<<sd, p, i>>}
  BY <1>9, <1>10
<1> QED BY <1>11

\* Between two calls on a symbol its books and the OMS agree: each open order
\* rests in exactly one place, on its side, at its price, for its remaining
\* shares, and nothing else rests.
THEOREM BookMirrorsOrdersAlways ==
  ASSUME NamesOwnSymbol
  PROVE  Spec => []BookMirrorsOrders
<1>1. ASSUME IndInv, Agreement PROVE BookMirrorsOrders
  <2> SUFFICES ASSUME NEW s \in Registered, symbol_mutexes[s] = NoThread
               PROVE  /\ \A place \in Places(s) :
                           LET entry == EntryAt(s, place)
                               st    == order_states[entry.order_id]
                           IN  /\ entry.order_id \in DOMAIN order_states
                               /\ IsOpen(st)
                               /\ <<st.symbol, st.side, st.price>>
                                    = <<s, place[1], place[2]>>
                               /\ entry.quantity = remaining_quantity(st)
                      /\ \A id \in DOMAIN order_states :
                           order_states[id].symbol = s /\ IsOpen(order_states[id]) =>
                             Cardinality({pl \in Places(s) : EntryAt(s, pl).order_id = id}) = 1
    BY DEF BookMirrorsOrders
  <2>1. ASSUME NEW place \in Places(s), NEW entry, entry = EntryAt(s, place)
        PROVE  /\ Belongs(entry.order_id, s, place[1])
               /\ IsOpen(order_states[entry.order_id])
               /\ order_states[entry.order_id].price = place[2]
               /\ entry.quantity = remaining_quantity(order_states[entry.order_id])
    <3>1. PICK sd, p, i :
            /\ sd \in Side /\ p \in DOMAIN books[s][sd] /\ i \in DOMAIN books[s][sd][p]
            /\ place = <<sd, p, i>> /\ entry = books[s][sd][p][i]
      BY <2>1, PlaceParts
    <3>2. /\ Belongs(entry.order_id, s, sd)
          /\ IsOpen(order_states[entry.order_id])
          /\ order_states[entry.order_id].price = p
          /\ entry.quantity = remaining_quantity(order_states[entry.order_id])
      BY <1>1, <3>1, PlaceHolds
    <3> QED BY <3>1, <3>2
  <2>2. ASSUME NEW id \in DOMAIN order_states,
               order_states[id].symbol = s, IsOpen(order_states[id])
        PROVE  Cardinality({pl \in Places(s) : EntryAt(s, pl).order_id = id}) = 1
    <3>1. PICK place : {pl \in Places(s) : EntryAt(s, pl).order_id = id} = {place}
      BY <1>1, <2>2, OnePlace
    <3> QED BY <3>1, FS_Singleton
  <2> QED BY <2>1, <2>2 DEF Belongs
<1> QED BY <1>1, IndInvAlways, AgreementAlways, PTL


\* Fills, cancels and replaces reach only orders that are not terminal.
LEMMA TerminalUntouched ==
  ASSUME CoreInv, LocksHeld, Agreement, Next,
         NEW x \in DOMAIN order_states, is_terminal(order_states[x])
  PROVE  order_states'[x] = order_states[x]
<1>1. PICK t \in Threads : Receive(t) \/ Enter(t) \/ Continue(t)
  BY DEF Next
<1>2. CASE UNCHANGED order_states
  BY <1>2
<1>3. CASE SubmitRejected(t) \/ SubmitAccepted(t)
  BY <1>3 DEF SubmitRejected, SubmitAccepted, Insert
<1>4. CASE ApplyTrade(t) \/ ApplyLastTrade(t)
  <2>1. pc[t] = "apply" /\ Apply(matched[t][1])
    BY <1>4 DEF ApplyTrade, ApplyLastTrade
  <2>2. PICK order, c, id, trade, hit : AtFirst(t, order, c, id, trade, hit)
    BY DEF AtFirst
  <2>3. /\ IsOpen(order_states[id]) /\ IsOpen(order_states[hit])
        /\ \A y \in DOMAIN order_states :
             y \notin {id, hit} => order_states'[y] = order_states[y]
    BY <2>1, <2>2, FirstTradeApplied
  <2>4. x \notin {id, hit}
    BY <2>3 DEF IsOpen
  <2> QED BY <2>3, <2>4
<1>5. CASE CancelDone(t) \/ ReplaceAbandoned(t) \/ ReplaceCommitted(t)
  <2>1. PICK id : id = req[t].order_id
    OBVIOUS
  <2>2. pc[t] \in {"pull", "cancel", "replace"}
    BY <1>5 DEF CancelDone, ReplaceAbandoned, ReplaceCommitted
  <2>3. ~is_terminal(order_states[id])
    BY <2>1, <2>2, AmendCall
  <2>4. \E new : order_states' = [order_states EXCEPT ![id] = new]
    BY <1>5, <2>1 DEF CancelDone, ReplaceAbandoned, ReplaceCommitted, MarkCancelled
  <2> QED BY <2>3, <2>4
<1> QED BY <1>1, <1>2, <1>3, <1>4, <1>5
        DEF Receive, ReceiveOrder, ReceiveAmend, shared, Enter, AmendRefused, AmendStarted,
            Continue, MatchOne, MatchedNothing, MatchedSome, Pull

\* A Filled, Cancelled or Rejected order never changes again: no late fill,
\* cancel or replace reaches it.
THEOREM TerminalIsFinalAlways ==
  ASSUME NamesOwnSymbol
  PROVE  Spec => TerminalIsFinal
<1>1. IndInv /\ Agreement /\ [Next]_vars =>
        [\A id \in DOMAIN order_states :
           is_terminal(order_states[id]) => order_states'[id] = order_states[id]]_vars
  BY TerminalUntouched DEF IndInv
<1> QED BY <1>1, IndInvAlways, AgreementAlways, PTL DEF Spec, TerminalIsFinal
=============================================================================
