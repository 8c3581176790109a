---------------------------- MODULE Market_proofs ----------------------------
(***************************************************************************)
(* What the exchange amounts to, for every set of symbols, prices,         *)
(* quantities and threads, every RiskContext and any number of orders,     *)
(* when every cancel and replace names its order's own symbol.             *)
(*                                                                         *)
(* It implements the market: every step of Exchange.tla is a step of       *)
(* Market.tla or changes nothing that the market sees.  PriorityInv is     *)
(* shown to be an invariant first, the actions one at a time; then each    *)
(* action is mapped.                                                       *)
(*                                                                         *)
(* And its calls are functions: the steps of a call leave on its symbol    *)
(* what the function of Matching.tla gives.  Each action is shown to land  *)
(* where the rest of its call still leads to what was promised (Lands).    *)
(***************************************************************************)
EXTENDS Priority, ExchangeCalls, BookAgreement_proofs, Matching_proofs

-----------------------------------------------------------------------------
(* Queues in order.                                                        *)

\* A queue in order, by itself.
QueueInOrder(queue, order) ==
  \A i, j \in DOMAIN queue : i < j => <<queue[i].order_id, queue[j].order_id>> \in order

\* A side stays in order when it gets a queue in order.
LEMMA ReplacedInOrder ==
  ASSUME NEW levels, NEW order, InOrder(levels, order), NEW price, NEW queue,
         QueueInOrder(queue, order)
  PROVE  InOrder(StoreQueue(levels, price, queue), order)
<1> PICK side : side = StoreQueue(levels, price, queue)
  OBVIOUS
<1>1. LevelReplaced(levels, price, queue, side)
  BY StoreQueueIs
<1>2. InOrder(side, order)
  <2> SUFFICES ASSUME NEW p \in DOMAIN side, NEW i \in DOMAIN side[p],
                      NEW j \in DOMAIN side[p], i < j
               PROVE  <<side[p][i].order_id, side[p][j].order_id>> \in order
    BY DEF InOrder
  <2>1. CASE p = price
    BY <1>1, <2>1 DEF LevelReplaced, QueueInOrder
  <2>2. CASE p # price
    <3>1. p \in DOMAIN levels /\ side[p] = levels[p]
      BY <1>1, <2>2 DEF LevelReplaced
    <3> QED BY <3>1 DEF InOrder
  <2> QED BY <2>1, <2>2
<1> QED BY <1>2

\* A match keeps the order of what rests.
LEMMA TakeFrontInOrder ==
  ASSUME NEW E, NEW levels, Tidy(levels, E), NEW order, InOrder(levels, order),
         NEW price \in DOMAIN levels, NEW traded
  PROVE  InOrder(TakeFront(levels, price, traded), order)
<1>1. PICK before, tail, less :
        /\ before = levels[price] /\ tail = Tail(before)
        /\ less = [before EXCEPT ![1].quantity = @ - traded]
  OBVIOUS
<1>2. before \in Seq(E) /\ before # <<>> /\ QueueInOrder(before, order)
  BY <1>1 DEF Tidy, InOrder, QueueInOrder
<1>3. /\ Len(before) \in Nat /\ DOMAIN before = 1..Len(before)
      /\ DOMAIN tail = 1..(Len(before) - 1)
      /\ \A i \in 1..(Len(before) - 1) : tail[i] = before[i + 1]
  BY <1>1, <1>2
<1>4. QueueInOrder(tail, order)
  <2> SUFFICES ASSUME NEW i \in DOMAIN tail, NEW j \in DOMAIN tail, i < j
               PROVE  <<tail[i].order_id, tail[j].order_id>> \in order
    BY DEF QueueInOrder
  <2>1. /\ i + 1 \in DOMAIN before /\ j + 1 \in DOMAIN before /\ i + 1 < j + 1
        /\ tail[i] = before[i + 1] /\ tail[j] = before[j + 1]
    BY <1>3
  <2> QED BY <1>2, <2>1 DEF QueueInOrder
<1>5. QueueInOrder(less, order)
  <2>1. DOMAIN less = DOMAIN before
    BY <1>1
  <2>2. \A i \in DOMAIN before : less[i].order_id = before[i].order_id
    BY <1>1
  <2> QED BY <1>2, <2>1, <2>2 DEF QueueInOrder
<1> QED BY <1>1, <1>4, <1>5, ReplacedInOrder DEF TakeFront

\* So does taking an order away.
LEMMA CancelInOrder ==
  ASSUME NEW E, NEW levels, Tidy(levels, E), NEW order, InOrder(levels, order),
         NEW price, NEW id
  PROVE  InOrder(CancelFromLevel(levels, price, id), order)
<1>1. CASE ~IsQueued(levels, price, id)
  BY <1>1 DEF CancelFromLevel
<1>2. CASE IsQueued(levels, price, id)
  <2>1. PICK before, first, queue :
          /\ before = levels[price]
          /\ first = CHOOSE i \in DOMAIN before :
                       /\ before[i].order_id = id
                       /\ \A j \in 1..(i - 1) : before[j].order_id # id
          /\ queue = RemoveAt(before, first)
    OBVIOUS
  <2>2. CancelFromLevel(levels, price, id) = StoreQueue(levels, price, queue)
    BY <1>2, <2>1 DEF CancelFromLevel
  <2>3. before \in Seq(E) /\ QueueInOrder(before, order)
    BY <1>2, <2>1 DEF IsQueued, Tidy, InOrder, QueueInOrder
  <2>4. first \in DOMAIN before
    <3> DEFINE Mine == {i \in DOMAIN before : before[i].order_id = id}
    <3>1. Mine \in SUBSET Nat /\ Mine # {}
      BY <1>2, <2>1, <2>3 DEF IsQueued
    <3>2. PICK i \in Mine : \A m \in Mine : i <= m
      BY <3>1, LeastNatural
    <3>3. \A j \in 1..(i - 1) : before[j].order_id # id
      BY <2>3, <3>2
    <3> QED BY <2>1, <3>2, <3>3
  <2>5. /\ Len(before) \in Nat /\ DOMAIN before = 1..Len(before) /\ first \in Nat
        /\ DOMAIN queue = 1..(Len(before) - 1)
        /\ \A i \in 1..(Len(before) - 1) :
             queue[i] = IF i < first THEN before[i] ELSE before[i + 1]
    <3>1. Len(before) \in Nat /\ DOMAIN before = 1..Len(before) /\ first \in Nat
      BY <2>3, <2>4
    <3>2. queue = RemoveAt(before, first)
      BY <2>1
    <3>3. /\ queue \in Seq(E) /\ Len(queue) = Len(before) - 1
          /\ \A i \in 1..(Len(before) - 1) :
               queue[i] = IF i < first THEN before[i] ELSE before[i + 1]
      BY <2>3, <2>4, <3>2, RemoveAtIs
    <3>4. DOMAIN queue = 1..(Len(before) - 1)
      BY <3>3
    <3> QED BY <3>1, <3>3, <3>4
  <2>6. QueueInOrder(queue, order)
    <3> SUFFICES ASSUME NEW i \in DOMAIN queue, NEW j \in DOMAIN queue, i < j
                 PROVE  <<queue[i].order_id, queue[j].order_id>> \in order
      BY DEF QueueInOrder
    <3>1. PICK k \in DOMAIN before, l \in DOMAIN before :
            k < l /\ queue[i] = before[k] /\ queue[j] = before[l]
      <4>1. CASE j < first
        BY <2>5, <4>1
      <4>2. CASE i < first /\ ~(j < first)
        <5>1. i \in DOMAIN before /\ j + 1 \in DOMAIN before /\ i < j + 1
          BY <2>5
        <5> QED BY <2>5, <4>2, <5>1
      <4>3. CASE ~(i < first)
        <5>1. /\ i + 1 \in DOMAIN before /\ j + 1 \in DOMAIN before /\ i + 1 < j + 1
              /\ ~(j < first)
          BY <2>5, <4>3
        <5> QED BY <2>5, <4>3, <5>1
      <4> QED BY <4>1, <4>2, <4>3
    <3> QED BY <2>3, <3>1 DEF QueueInOrder
  <2> QED BY <2>2, <2>6, ReplacedInOrder
<1> QED BY <1>1, <1>2

\* An order that is behind all others may go to the end of a queue.
LEMMA RestInOrder ==
  ASSUME NEW E, NEW levels, Tidy(levels, E), NEW content, Holds(levels, content),
         NEW order, InOrder(levels, order), NEW price, NEW entry,
         \A x \in DOMAIN content : <<x, entry.order_id>> \in order
  PROVE  InOrder(Rest(levels, price, entry), order)
<1>1. PICK before, queue : before = QueueAt(levels, price) /\ queue = Append(before, entry)
  OBVIOUS
<1>2. before \in Seq(E \cup {entry}) /\ QueueInOrder(before, order)
  <2>1. CASE price \in DOMAIN levels
    <3>1. before \in Seq(E)
      BY <1>1, <2>1 DEF QueueAt, Tidy
    <3> QED BY <1>1, <2>1, <3>1, SeqInLarger DEF QueueAt, InOrder, QueueInOrder
  <2>2. CASE price \notin DOMAIN levels
    BY <1>1, <2>2 DEF QueueAt, QueueInOrder
  <2> QED BY <2>1, <2>2
<1>3. \A i \in DOMAIN before : <<before[i].order_id, entry.order_id>> \in order
  <2>1. \A i \in DOMAIN before : before[i].order_id \in DOMAIN content
    BY <1>1 DEF QueueAt, Holds
  <2> QED BY <2>1
<1>4. PICK n \in Nat : /\ DOMAIN before = 1..n /\ DOMAIN queue = 1..(n + 1)
                       /\ queue[n + 1] = entry
                       /\ \A i \in 1..n : queue[i] = before[i]
  <2>1. /\ queue \in Seq(E \cup {entry}) /\ Len(queue) = Len(before) + 1
        /\ \A i \in 1..Len(before) : queue[i] = before[i]
        /\ queue[Len(before) + 1] = entry
    BY <1>1, <1>2, AppendProperties
  <2>2. Len(before) \in Nat /\ DOMAIN before = 1..Len(before)
    BY <1>2
  <2>3. DOMAIN queue = 1..(Len(before) + 1)
    BY <2>1
  <2> QED BY <2>1, <2>2, <2>3
<1>5. QueueInOrder(queue, order)
  <2> SUFFICES ASSUME NEW i \in DOMAIN queue, NEW j \in DOMAIN queue, i < j
               PROVE  <<queue[i].order_id, queue[j].order_id>> \in order
    BY DEF QueueInOrder
  <2>1. i \in 1..n
    BY <1>4
  <2>2. CASE j = n + 1
    BY <1>3, <1>4, <2>1, <2>2
  <2>3. CASE j # n + 1
    BY <1>2, <1>4, <2>1, <2>3 DEF QueueInOrder
  <2> QED BY <2>2, <2>3
<1>6. queue # <<>>
  BY <1>4
<1>7. Rest(levels, price, entry) = StoreQueue(levels, price, queue)
  BY <1>1, <1>6 DEF Rest, StoreQueue
<1> QED BY <1>5, <1>7, ReplacedInOrder

\* What rests stays in order when the order of what rests is kept.
LEMMA StaysInOrder ==
  ASSUME NEW levels, NEW content, Holds(levels, content),
         NEW order, NEW new, InOrder(levels, order),
         \A x, y \in DOMAIN content : <<x, y>> \in order => <<x, y>> \in new
  PROVE  InOrder(levels, new)
BY DEF InOrder, Holds

-----------------------------------------------------------------------------
(* A step of one thread, seen from the other symbols.                      *)

\* Live orders of symbols outside C keep their order of arrival.
AheadKept(C) ==
  \A x, y \in DOMAIN order_states :
    /\ order_states[x].symbol \notin C /\ ~is_terminal(order_states[x])
    /\ order_states[y].symbol \notin C /\ ~is_terminal(order_states[y])
    /\ <<x, y>> \in ahead
    => <<x, y>> \in ahead'

\* What rests on a side is live and belongs there.
LEMMA ContentLive ==
  ASSUME NEW s, NEW sd, NEW x \in DOMAIN Content(s, sd)
  PROVE  /\ x \in DOMAIN order_states /\ Belongs(x, s, sd) /\ order_states[x].symbol = s
         /\ IsOpen(order_states[x]) /\ ~is_terminal(order_states[x])
         /\ Resting(x) > 0
<1>1. x \in RestingOn(s, sd)
  BY DEF Content
<1>2. x \in DOMAIN order_states /\ Belongs(x, s, sd) /\ Resting(x) > 0
  BY <1>1 DEF RestingOn
<1>3. IsOpen(order_states[x])
  BY <1>2 DEF Resting
<1> QED BY <1>2, <1>3 DEF Belongs, IsOpen

\* Queues of another symbol stay in order.
LEMMA OtherQueues ==
  ASSUME Agreement, NEW t \in Threads, NEW C, StaysIn(t, C), AheadKept(C),
         NEW r \in Registered \ C, QueuesInOrder(r)
  PROVE  QueuesInOrder(r)'
<1> SUFFICES ASSUME NEW sd \in Side PROVE InOrder(books'[r][sd], ahead')
  BY DEF QueuesInOrder
<1>1. PICK levels, content : levels = books[r][sd] /\ content = Content(r, sd)
  OBVIOUS
<1>2. books'[r][sd] = levels
  BY <1>1 DEF StaysIn
<1>3. Holds(levels, content)
  BY <1>1 DEF Agreement, BooksHold
<1>4. \A x \in DOMAIN content :
        /\ x \in DOMAIN order_states /\ order_states[x].symbol = r
        /\ ~is_terminal(order_states[x])
  BY <1>1, ContentLive
<1>5. PICK old, new : old = ahead /\ new = ahead'
  OBVIOUS
<1>6. \A x, y \in DOMAIN content : <<x, y>> \in old => <<x, y>> \in new
  BY <1>4, <1>5 DEF AheadKept
<1>7. InOrder(levels, old)
  BY <1>1, <1>5 DEF QueuesInOrder
<1>8. InOrder(levels, new)
  BY <1>3, <1>6, <1>7, StaysInOrder
<1> QED BY <1>2, <1>5, <1>8

\* The calls of the other threads keep price and time.
LEMMA OtherCallsInOrder ==
  ASSUME CoreInv, LocksHeld, Agreement, StatesKept, NEW t \in Threads, NEW C,
         StaysIn(t, C), AheadKept(C), NEW u \in Threads \ {t}, CallInOrder(u)
  PROVE  CallInOrder(u)'
<1>1. LocalsStay(u)
  BY DEF StaysIn
<1>2. ASSUME pc[u] \in {"pull", "cancel", "replace"} PROVE M!Settled(snap[u].symbol)'
  <2>1. PICK s : s = snap[u].symbol
    OBVIOUS
  <2>2. s \notin C /\ snap'[u].symbol = s
    BY <1>1, <1>2, <2>1, WorksElsewhere DEF LocksHeld, LockHeld, InCall, LocalsStay
  <2>3. \A x \in DOMAIN order_states' : order_states'[x].symbol = s =>
          x \in DOMAIN order_states /\ order_states'[x] = order_states[x]
    BY <2>2 DEF StaysIn
  <2>4. M!Settled(s)
    BY <1>2, <2>1 DEF CallInOrder
  <2>5. M!Settled(s)'
    BY <2>3, <2>4
       DEF M!Settled, M!OpenOrders, M!IsOpen, M!is_terminal, M!remaining_quantity
  <2> QED BY <2>2, <2>5
          DEF M!Settled, M!OpenOrders, M!IsOpen, M!is_terminal, M!remaining_quantity
<1>3. ASSUME pc[u] \in {"match", "apply"}
      PROVE  LastInLine(u)' /\ \A i \in DOMAIN matched'[u] : HitBest(u, i)' /\ HitWhole(u, i)'
  <2>1. PICK c, id, sd : /\ c = incoming[u].symbol /\ id = incoming[u].order_id
                         /\ sd = Opposite(incoming[u].side)
    OBVIOUS
  <2>2. c \notin C
    BY <1>3, <2>1, WorksElsewhere DEF LocksHeld, LockHeld, InCall
  <2>3. /\ id \in DOMAIN order_states /\ order_states[id].symbol = c
        /\ ~is_terminal(order_states[id])
        /\ \A i \in DOMAIN matched[u] : Covered(u, i)
    BY <1>3, <2>1 DEF Agreement, CallOK, CallCovered, CoreInv, HandlerOK, Belongs
  <2>4. \A x \in DOMAIN order_states' : order_states'[x].symbol = c =>
          x \in DOMAIN order_states /\ order_states'[x] = order_states[x]
    BY <2>2 DEF StaysIn
  <2>5. LastInLine(u) /\ \A i \in DOMAIN matched[u] : HitBest(u, i) /\ HitWhole(u, i)
    BY <1>3 DEF CallInOrder
  <2>6. LastInLine(u)'
    <3> SUFFICES ASSUME NEW x \in DOMAIN order_states' \ {id},
                        order_states'[x].symbol = c, ~is_terminal(order_states'[x])
                 PROVE  <<x, id>> \in ahead'
      BY <1>1, <2>1 DEF LastInLine, LocalsStay, is_terminal
    <3>1. x \in DOMAIN order_states /\ order_states'[x] = order_states[x]
      BY <2>4
    <3>2. <<x, id>> \in ahead
      BY <2>1, <2>5, <3>1 DEF LastInLine
    <3> QED BY <2>2, <2>3, <3>1, <3>2 DEF AheadKept
  <2>7. ASSUME NEW i \in DOMAIN matched[u]
        PROVE  /\ Hit(u, i)' = Hit(u, i) /\ Hit(u, i) \in DOMAIN order_states
               /\ order_states'[Hit(u, i)] = order_states[Hit(u, i)]
               /\ order_states[Hit(u, i)].symbol = c /\ ~is_terminal(order_states[Hit(u, i)])
    <3>1. Belongs(Hit(u, i), c, sd)
      BY <1>3, <2>1, <2>3, HitsOnSymbol
    <3>2. order_states'[Hit(u, i)] = order_states[Hit(u, i)]
      BY <2>2, <3>1, RecordStays DEF Belongs
    <3>3. ~is_terminal(order_states[Hit(u, i)])
      BY <2>3 DEF Covered
    <3> QED BY <1>1, <3>1, <3>2, <3>3 DEF Hit, HitBy, LocalsStay, Belongs
  <2>8. ASSUME NEW i \in DOMAIN matched[u] PROVE HitWhole(u, i)'
    BY <1>1, <2>5, <2>7 DEF HitWhole, LocalsStay, remaining_quantity
  <2>9. ASSUME NEW i \in DOMAIN matched[u] PROVE HitBest(u, i)'
    <3>1. PICK h : h = Hit(u, i)
      OBVIOUS
    <3>2. /\ Hit(u, i)' = h /\ h \in DOMAIN order_states /\ order_states[h].symbol = c
          /\ order_states'[h] = order_states[h] /\ ~is_terminal(order_states[h])
      BY <2>7, <3>1
    <3>3. HitBest(u, i)
      BY <2>5
    <3>4. ASSUME NEW x \in Rivals(u, i)' PROVE Before(h, x)'
      <4>1. x \in DOMAIN order_states /\ order_states'[x] = order_states[x]
        BY <1>1, <2>1, <2>4, <3>4 DEF Rivals, Belongs, LocalsStay
      <4>2. \A j \in 1..i : Hit(u, j)' = Hit(u, j)
        BY <1>1 DEF Hit, HitBy, LocalsStay
      <4>3. x \in Rivals(u, i)
        BY <1>1, <3>4, <4>1, <4>2
           DEF Rivals, Belongs, LocalsStay, IsOpen, is_terminal, remaining_quantity
      <4>4. Before(h, x)
        BY <3>1, <3>3, <4>3 DEF HitBest
      <4>5. order_states[x].symbol = c /\ ~is_terminal(order_states[x])
        BY <2>1, <4>3 DEF Rivals, Belongs, IsOpen
      <4> QED BY <2>2, <3>2, <4>1, <4>4, <4>5 DEF Before, AheadKept
    <3> QED BY <1>1, <3>1, <3>2, <3>3, <3>4 DEF HitBest, LocalsStay
  <2> QED BY <1>1, <2>6, <2>8, <2>9 DEF LocalsStay
<1>4. pc[u] = "submit" =>
        req'[u].order.quantity \in Quantities /\ req'[u].order.order_id \in 1..MaxOrders
  BY <1>1 DEF CallInOrder, LocalsStay
<1> QED BY <1>1, <1>2, <1>3, <1>4 DEF CallInOrder, LocalsStay

\* What has to be shown of a step, given where it stays: the queues and the
\* call of its own symbol.
LEMMA PriorityStep ==
  ASSUME CoreInv, LocksHeld, Agreement, PriorityInv, StatesKept, NEW t \in Threads, NEW C,
         StaysIn(t, C), AheadKept(C),
         \A r \in Registered \cap C : QueuesInOrder(r)',
         CallInOrder(t)'
  PROVE  PriorityInv'
<1>1. \A r \in Registered : QueuesInOrder(r)'
  BY OtherQueues DEF PriorityInv
<1>2. \A u \in Threads : CallInOrder(u)'
  BY OtherCallsInOrder DEF PriorityInv
<1> QED BY <1>1, <1>2 DEF PriorityInv

-----------------------------------------------------------------------------
(* Where the steps stay.                                                   *)

\* The symbol of a message is a symbol, and its mutex is free or its handler's.
LEMMA StepSymbol ==
  ASSUME CoreInv, LocksHeld, NEW t \in Threads, Enter(t) \/ Continue(t),
         NEW c, c = MessageSymbol(req[t])
  PROVE  c \in Symbols /\ symbol_mutexes[c] \in {NoThread, t}
<1>1. CASE Enter(t)
  <2>1. SymbolFree(t) /\ pc[t] \in {"submit", "amend"}
    BY <1>1 DEF Enter, SubmitRejected, SubmitAccepted, AmendRefused, AmendStarted
  <2>2. CASE pc[t] = "submit"
    BY <2>1, <2>2, SubmittedOrder
       DEF SymbolFree, MessageSymbol, CoreInv, HandlerOK, Order
  <2>3. CASE pc[t] = "amend"
    BY <2>1, <2>3 DEF SymbolFree, MessageSymbol, CoreInv, HandlerOK, Message
  <2> QED BY <2>1, <2>2, <2>3
<1>2. CASE Continue(t)
  <2>1. pc[t] \in InCall
    BY <1>2 DEF Continue, MatchOne, MatchedNothing, MatchedSome, ApplyTrade, ApplyLastTrade,
                Pull, CancelDone, ReplaceAbandoned, ReplaceCommitted, InCall
  <2> QED BY <2>1 DEF LocksHeld, LockHeld
<1> QED BY <1>1, <1>2

\* A step writes the locals of its own thread only.
LEMMA OthersLocalsStay ==
  ASSUME CoreInv, NEW t \in Threads, Enter(t) \/ Continue(t), NEW u \in Threads \ {t}
  PROVE  LocalsStay(u)
<1>1. /\ pc'[u] = pc[u] /\ req'[u] = req[u] /\ snap'[u] = snap[u]
  BY DEF Enter, SubmitRejected, SubmitAccepted, AmendRefused, AmendStarted,
         Continue, MatchOne, MatchedNothing, MatchedSome, ApplyTrade, ApplyLastTrade,
         Pull, CancelDone, ReplaceAbandoned, ReplaceCommitted, Return, Goto,
         CoreInv, TypeOK, ThreadsTypeOK
<1>2. incoming'[u] = incoming[u] /\ matched'[u] = matched[u]
  BY DEF Enter, SubmitRejected, SubmitAccepted, AmendRefused, AmendStarted,
         Continue, MatchOne, MatchedNothing, MatchedSome, ApplyTrade, ApplyLastTrade,
         Pull, CancelDone, ReplaceAbandoned, ReplaceCommitted, Return, Goto,
         CoreInv, TypeOK, ThreadsTypeOK
<1> QED BY <1>1, <1>2 DEF LocalsStay

\* A step takes or releases no mutex but its symbol's.
LEMMA OneMutexMoves ==
  ASSUME NEW t, Enter(t) \/ Continue(t), NEW c, c = MessageSymbol(req[t])
  PROVE  \/ symbol_mutexes' = symbol_mutexes
         \/ \E holder : symbol_mutexes' = [symbol_mutexes EXCEPT ![c] = holder]
BY DEF Enter, SubmitRejected, SubmitAccepted, AmendRefused, AmendStarted,
       Continue, MatchOne, MatchedNothing, MatchedSome, ApplyTrade, ApplyLastTrade,
       Pull, CancelDone, ReplaceAbandoned, ReplaceCommitted, Return, Lock

\* A step moves no book but its symbol's.
LEMMA OneBookMoves ==
  ASSUME CoreInv, LocksHeld, NEW t \in Threads, Enter(t) \/ Continue(t),
         NEW c, c = MessageSymbol(req[t]), NEW r \in Registered \ {c}
  PROVE  books'[r] = books[r]
<1>1. CASE UNCHANGED books
  BY <1>1
<1>2. CASE MatchOne(t) \/ MatchedNothing(t) \/ MatchedSome(t)
  <2>1. pc[t] = "match"
    BY <1>2 DEF MatchOne, MatchedNothing, MatchedSome
  <2>2. incoming[t].symbol = c
    BY <2>1 DEF LocksHeld, LockHeld
  <2> QED BY <1>2, <2>2
          DEF MatchOne, MatchedNothing, MatchedSome, RestRemainder, CoreInv, TypeOK, BooksTypeOK
<1>3. CASE Pull(t)
  <2>1. snap[t].symbol = c
    BY <1>3 DEF Pull, LocksHeld, LockHeld
  <2> QED BY <1>3, <2>1 DEF Pull, CoreInv, TypeOK, BooksTypeOK
<1> QED BY <1>1, <1>2, <1>3
        DEF Enter, SubmitRejected, SubmitAccepted, AmendRefused, AmendStarted, Continue,
            ApplyTrade, ApplyLastTrade, CancelDone, ReplaceAbandoned, ReplaceCommitted

\* A step of a handler concerns the symbol of its message alone.
LEMMA StepStays ==
  ASSUME CoreInv, LocksHeld, Agreement, NEW t \in Threads, Enter(t) \/ Continue(t),
         NEW c, c = MessageSymbol(req[t])
  PROVE  c \in Symbols /\ StatesKept /\ StaysIn(t, {c})
<1>1. c \in Symbols /\ symbol_mutexes[c] \in {NoThread, t}
  BY StepSymbol
<1>2. StatesKept
  BY StepKeepsStates
<1>3. RecordsMoveOn(c)
  <2>1. CASE SubmitRejected(t) \/ SubmitAccepted(t)
    BY <2>1, Submission DEF SubmitRejected, SubmitAccepted
  <2>2. CASE ApplyTrade(t) \/ ApplyLastTrade(t)
    <3>1. pc[t] = "apply" /\ Apply(matched[t][1])
      BY <2>2 DEF ApplyTrade, ApplyLastTrade
    <3>2. PICK order, s, id, trade, x : AtFirst(t, order, s, id, trade, x)
      BY DEF AtFirst
    <3>3. s = c
      BY <3>1, <3>2 DEF AtFirst, LocksHeld, LockHeld
    <3> QED BY <3>1, <3>2, <3>3, FirstTradeApplied
  <2>3. CASE CancelDone(t) \/ ReplaceAbandoned(t) \/ ReplaceCommitted(t)
    <3>1. PICK id : id = req[t].order_id
      OBVIOUS
    <3>2. pc[t] \in {"pull", "cancel", "replace"}
      BY <2>3 DEF CancelDone, ReplaceAbandoned, ReplaceCommitted
    <3>3. id \in DOMAIN order_states /\ order_states[id].symbol = c
      BY <3>1, <3>2, AmendCall DEF Belongs
    <3>4. PICK new : order_states' = [order_states EXCEPT ![id] = new]
      BY <2>3, <3>1 DEF CancelDone, ReplaceAbandoned, ReplaceCommitted, MarkCancelled
    <3> QED BY <1>2, <3>3, <3>4 DEF RecordsMoveOn, StatesKept
  <2>4. CASE UNCHANGED order_states
    BY <2>4 DEF RecordsMoveOn
  <2> QED BY <2>1, <2>2, <2>3, <2>4
          DEF Enter, AmendRefused, AmendStarted, Continue, MatchOne, MatchedNothing,
              MatchedSome, Pull
<1>4. pc[t] \in InCall => MessageSymbol(req[t]) = c
  OBVIOUS
<1>5. /\ \A u \in Threads \ {t} : LocalsStay(u)
      /\ \A r \in Registered \ {c} : books'[r] = books[r]
      /\ \/ symbol_mutexes' = symbol_mutexes
         \/ \E holder : symbol_mutexes' = [symbol_mutexes EXCEPT ![c] = holder]
  BY OthersLocalsStay, OneBookMoves, OneMutexMoves
<1> QED BY <1>1, <1>2, <1>3, <1>5, StaysOnSymbol DEF Agreement

\* A step that starts no call leaves the order of arrival alone.
LEMMA AheadUnmoved ==
  ASSUME UNCHANGED ahead, NEW C
  PROVE  AheadKept(C)
BY DEF AheadKept

\* An order that arrives goes behind the live orders of its symbol, and the
\* others stay as they were.
LEMMA Requeued ==
  ASSUME NEW id, NEW c, ahead' = Requeue(ahead, order_states, id, c)
  PROVE  /\ \A x, y \in DOMAIN order_states \ {id} :
              /\ ~is_terminal(order_states[x]) /\ ~is_terminal(order_states[y])
              /\ <<x, y>> \in ahead
              => <<x, y>> \in ahead'
         /\ \A x \in DOMAIN order_states \ {id} :
              ~is_terminal(order_states[x]) /\ order_states[x].symbol = c =>
                <<x, id>> \in ahead'
BY DEF Requeue

-----------------------------------------------------------------------------
(* A symbol that nobody works on is settled.                               *)

\* What rests of an order is in the queue at its price.
LEMMA RestsAtPrice ==
  ASSUME Agreement, NEW s \in Registered, NEW sd \in Side, NEW x \in RestingOn(s, sd),
         NEW levels, levels = books[s][sd], NEW p, p = order_states[x].price
  PROVE  p \in DOMAIN levels /\ \E i \in DOMAIN levels[p] : levels[p][i].order_id = x
<1>1. PICK content : content = Content(s, sd)
  OBVIOUS
<1>2. Holds(levels, content)
  BY <1>1 DEF Agreement, BooksHold
<1>3. x \in DOMAIN content /\ content[x][1] = p
  BY <1>1 DEF Content
<1>4. PICK q \in DOMAIN levels : \E i \in DOMAIN levels[q] : levels[q][i].order_id = x
  BY <1>2, <1>3 DEF Holds
<1>5. PICK i \in DOMAIN levels[q] : levels[q][i].order_id = x
  BY <1>4
<1>6. content[x] = <<q, levels[q][i].quantity>>
  BY <1>2, <1>5 DEF Holds
<1>7. q = p
  BY <1>3, <1>6
<1> QED BY <1>5, <1>7

\* An open order of a symbol that nobody works on rests.
LEMMA OpenRests ==
  ASSUME CoreInv, NEW s, symbol_mutexes[s] = NoThread, NEW sd \in Side,
         NEW x \in M!OpenOrders(s, sd)
  PROVE  s \in Registered /\ x \in RestingOn(s, sd)
<1>1. x \in DOMAIN order_states /\ Belongs(x, s, sd) /\ IsOpen(order_states[x])
  BY DEF M!OpenOrders, M!IsOpen, M!is_terminal, M!remaining_quantity,
         Belongs, IsOpen, is_terminal, remaining_quantity
<1>2. s \in Registered
  BY <1>1 DEF CoreInv, LiveRegistered, IsOpen, Belongs
<1>3. Resting(x) = remaining_quantity(order_states[x])
  BY <1>1, RestingFree DEF Belongs
<1> QED BY <1>1, <1>2, <1>3 DEF RestingOn, IsOpen

\* Its bids are below its asks, since the books are never crossed.
LEMMA FreeIsSettled ==
  ASSUME CoreInv, Agreement, NoCross, NEW s, symbol_mutexes[s] = NoThread
  PROVE  M!Settled(s)
<1> SUFFICES ASSUME NEW b \in M!OpenOrders(s, "Buy"), NEW a \in M!OpenOrders(s, "Sell")
             PROVE  order_states[b].price < order_states[a].price
  BY DEF M!Settled
<1>1. "Buy" \in Side /\ "Sell" \in Side
  BY DEF Side
<1>2. s \in Registered /\ b \in RestingOn(s, "Buy") /\ a \in RestingOn(s, "Sell")
  BY <1>1, OpenRests
<1>3. order_states[b].price \in DOMAIN books[s]["Buy"]
  BY <1>1, <1>2, RestsAtPrice
<1>4. order_states[a].price \in DOMAIN books[s]["Sell"]
  BY <1>1, <1>2, RestsAtPrice
<1> QED BY <1>2, <1>3, <1>4 DEF NoCross

\* Whether a symbol is settled is told by its orders.
LEMMA StillSettled ==
  ASSUME UNCHANGED order_states, NEW s, M!Settled(s)
  PROVE  M!Settled(s)'
BY DEF M!Settled, M!OpenOrders, M!IsOpen, M!is_terminal, M!remaining_quantity

-----------------------------------------------------------------------------
(* Submitting, cancelling and replacing.                                   *)

\* A handler that returns has nothing left to keep.
LEMMA ReturnedInOrder ==
  ASSUME CoreInv, NEW t \in Threads, Return(t)
  PROVE  CallInOrder(t)'
<1>1. pc'[t] = "idle"
  BY DEF Return, Goto, CoreInv, TypeOK, ThreadsTypeOK
<1> QED BY <1>1 DEF CallInOrder

\* Queues that do not move are in order.
LEMMA UnmovedQueues ==
  ASSUME PriorityInv, NEW r \in Registered, UNCHANGED books, UNCHANGED ahead
  PROVE  QueuesInOrder(r)'
BY DEF PriorityInv, QueuesInOrder, InOrder

\* The arrival of a message.
LEMMA ReceivePriority ==
  ASSUME CoreInv, LocksHeld, Agreement, PriorityInv, NEW t \in Threads, Receive(t)
  PROVE  PriorityInv'
<1>1. /\ UNCHANGED <<order_states, symbol_mutexes, books, ahead, snap, incoming, matched>>
      /\ pc[t] = "idle"
      /\ \E m \in {"submit", "amend"} : pc' = [pc EXCEPT ![t] = m]
      /\ \E m : req' = [req EXCEPT ![t] = m]
  BY DEF Receive, ReceiveOrder, ReceiveAmend, Goto, shared
<1>2. /\ \A u \in Threads \ {t} : LocalsStay(u)
      /\ pc'[t] \in {"submit", "amend"}
  BY <1>1 DEF LocalsStay, CoreInv, TypeOK, ThreadsTypeOK
<1>3. \A r \in Symbols : symbol_mutexes[r] # t
  BY <1>1, HoldsOneMutex DEF Agreement, InCall
<1>4. StaysIn(t, {})
  BY <1>1, <1>2, <1>3 DEF StaysIn
<1>5. CallInOrder(t)'
  <2> SUFFICES ASSUME pc'[t] = "submit"
               PROVE  req'[t].order.quantity \in Quantities
                        /\ req'[t].order.order_id \in 1..MaxOrders
    BY <1>2 DEF CallInOrder
  <2>1. PICK sym \in Symbols, side \in Side, price \in Prices, quantity \in Quantities :
          ReceiveOrder(t, sym, side, price, quantity)
    BY DEF Receive, ReceiveAmend, Goto, CoreInv, TypeOK, ThreadsTypeOK
  <2>2. /\ req'[t].order.quantity = quantity /\ req'[t].order.order_id = next_order_id
        /\ next_order_id <= MaxOrders
    BY <2>1 DEF ReceiveOrder, CoreInv, TypeOK, ThreadsTypeOK
  <2> QED BY <2>2, MaxOrdersAssumption DEF CoreInv, TypeOK, OmsTypeOK, OrderId
<1>6. StatesKept
  BY <1>1, UnchangedKept
<1>7. AheadKept({})
  BY <1>1, AheadUnmoved
<1> QED BY <1>4, <1>5, <1>6, <1>7, PriorityStep

\* A step that returns and leaves the books and the order of arrival alone.
LEMMA ReturnPriority ==
  ASSUME CoreInv, LocksHeld, Agreement, PriorityInv, NEW t \in Threads,
         Enter(t) \/ Continue(t), Return(t), UNCHANGED books, UNCHANGED ahead
  PROVE  PriorityInv'
<1>1. PICK c : c = MessageSymbol(req[t])
  OBVIOUS
<1>2. StatesKept /\ StaysIn(t, {c})
  BY <1>1, StepStays
<1>3. AheadKept({c})
  BY AheadUnmoved
<1>4. CallInOrder(t)'
  BY ReturnedInOrder
<1>5. \A r \in Registered \cap {c} : QueuesInOrder(r)'
  BY UnmovedQueues
<1> QED BY <1>2, <1>3, <1>4, <1>5, PriorityStep

\* The handler takes the mutex of a settled symbol.
LEMMA AmendStartedPriority ==
  ASSUME CoreInv, LocksHeld, Agreement, NoCross, PriorityInv, NEW t \in Threads,
         AmendStarted(t)
  PROVE  PriorityInv'
<1>1. PICK c, id : c = MessageSymbol(req[t]) /\ id = req[t].order_id
  OBVIOUS
<1>2. /\ pc[t] = "amend" /\ symbol_mutexes[c] = NoThread
      /\ snap' = [snap EXCEPT ![t] = order_states[id]]
      /\ pc' = [pc EXCEPT ![t] = "pull"]
      /\ UNCHANGED <<order_states, books, ahead>>
  BY <1>1 DEF AmendStarted, SymbolFree, Goto
<1>3. StatesKept /\ StaysIn(t, {c})
  BY <1>1, StepStays DEF Enter
<1>4. order_states[id].symbol = c
  BY <1>1, <1>2 DEF LocksHeld, LockHeld, MessageSymbol, CoreInv, HandlerOK
<1>5. pc'[t] = "pull" /\ snap'[t].symbol = c
  BY <1>2, <1>4 DEF CoreInv, TypeOK, ThreadsTypeOK
<1>6. M!Settled(c)
  BY <1>2, FreeIsSettled
<1>7. M!Settled(c)'
  BY <1>2, <1>6, StillSettled
<1>8. CallInOrder(t)'
  BY <1>5, <1>7 DEF CallInOrder, M!Settled, M!OpenOrders, M!IsOpen, M!is_terminal,
                    M!remaining_quantity
<1>9. \A r \in Registered \cap {c} : QueuesInOrder(r)'
  BY <1>2, UnmovedQueues
<1> QED BY <1>2, <1>3, <1>8, <1>9, AheadUnmoved, PriorityStep

\* The queues of a symbol are in order when one side moved and is in order.
LEMMA MovedQueues ==
  ASSUME PriorityInv, NEW c, NEW sd, NEW new, SideMoved(c, sd, new),
         InOrder(new, ahead), UNCHANGED ahead
  PROVE  QueuesInOrder(c)'
BY DEF PriorityInv, QueuesInOrder, InOrder, SideMoved

\* The order leaves its queue.
LEMMA PullPriority ==
  ASSUME CoreInv, LocksHeld, Agreement, PriorityInv, NEW t \in Threads, Pull(t)
  PROVE  PriorityInv'
<1>1. PICK c, sd, price, id, new :
        /\ c = snap[t].symbol /\ sd = snap[t].side
        /\ price = snap[t].price /\ id = req[t].order_id
        /\ new = CancelFromLevel(books[c][sd], price, id)
  OBVIOUS
<1>2. /\ pc[t] = "pull" /\ books' = [books EXCEPT ![c][sd] = new]
      /\ pc' = [pc EXCEPT ![t] = IF req[t].kind = "F" THEN "cancel" ELSE "replace"]
      /\ UNCHANGED <<order_states, snap, ahead>>
  BY <1>1 DEF Pull, Goto
<1>3. c \in Registered /\ sd \in Side /\ c = MessageSymbol(req[t])
  BY <1>1, <1>2, AmendCall
<1>4. StatesKept /\ StaysIn(t, {c})
  BY <1>3, StepStays DEF Continue
<1>5. SideMoved(c, sd, new)
  BY <1>2, <1>3, ExceptMoves
<1>6. InOrder(new, ahead)
  <2>1. PICK E, levels, order :
          E = Booked(c, sd) /\ levels = books[c][sd] /\ order = ahead
    OBVIOUS
  <2>2. Tidy(levels, E) /\ InOrder(levels, order)
    BY <1>3, <2>1 DEF CoreInv, BooksTidy, PriorityInv, QueuesInOrder
  <2>3. InOrder(CancelFromLevel(levels, price, id), order)
    BY <2>2, CancelInOrder
  <2> QED BY <1>1, <2>1, <2>3
<1>7. QueuesInOrder(c)'
  BY <1>2, <1>5, <1>6, MovedQueues
<1>8. CallInOrder(t)'
  <2>1. pc'[t] \in {"cancel", "replace"} /\ snap'[t].symbol = c
    BY <1>1, <1>2 DEF CoreInv, TypeOK, ThreadsTypeOK
  <2>2. M!Settled(c)
    BY <1>1, <1>2 DEF PriorityInv, CallInOrder
  <2>3. M!Settled(c)'
    BY <1>2, <2>2, StillSettled
  <2> QED BY <2>1, <2>3 DEF CallInOrder, M!Settled, M!OpenOrders, M!IsOpen, M!is_terminal,
                           M!remaining_quantity
<1> QED BY <1>2, <1>4, <1>7, <1>8, AheadUnmoved, PriorityStep

\* The queues of a symbol whose order id goes to the end of the line, and is in
\* no queue, stay in order.
LEMMA RequeuedQueues ==
  ASSUME Agreement, PriorityInv, NEW c \in Registered, NEW id, UNCHANGED books,
         ahead' = Requeue(ahead, order_states, id, c),
         \A sd \in Side : id \notin RestingOn(c, sd)
  PROVE  QueuesInOrder(c)'
<1> SUFFICES ASSUME NEW sd \in Side PROVE InOrder(books'[c][sd], ahead')
  BY DEF QueuesInOrder
<1>1. PICK levels, content, old, new :
        /\ levels = books[c][sd] /\ content = Content(c, sd)
        /\ old = ahead /\ new = ahead'
  OBVIOUS
<1>2. Holds(levels, content) /\ InOrder(levels, old)
  BY <1>1 DEF Agreement, BooksHold, PriorityInv, QueuesInOrder
<1>3. \A x \in DOMAIN content :
        x \in DOMAIN order_states /\ x # id /\ ~is_terminal(order_states[x])
  <2>1. \A x \in DOMAIN content : x \in DOMAIN order_states /\ ~is_terminal(order_states[x])
    BY <1>1, ContentLive
  <2>2. \A x \in DOMAIN content : x \in RestingOn(c, sd)
    BY <1>1 DEF Content
  <2> QED BY <2>1, <2>2
<1>4. \A x, y \in DOMAIN content : <<x, y>> \in old => <<x, y>> \in new
  BY <1>1, <1>3, Requeued
<1>5. InOrder(levels, new)
  BY <1>2, <1>4, StaysInOrder
<1> QED BY <1>1, <1>5

\* A call that has matched nothing yet has its order at the end of the line.
LEMMA CallStarts ==
  ASSUME CoreInv, NEW t \in Threads, NEW id, NEW c,
         ahead' = Requeue(ahead, order_states, id, c),
         pc'[t] = "match", matched'[t] = <<>>,
         incoming'[t].order_id = id, incoming'[t].symbol = c,
         id \in DOMAIN order_states => order_states[id].symbol = c,
         \A x \in DOMAIN order_states' \ {id} :
           x \in DOMAIN order_states /\ order_states'[x] = order_states[x]
  PROVE  CallInOrder(t)' /\ AheadKept({c})
<1>1. LastInLine(t)'
  <2> SUFFICES ASSUME NEW x \in DOMAIN order_states' \ {id},
                      order_states'[x].symbol = c, ~is_terminal(order_states'[x])
               PROVE  <<x, id>> \in ahead'
    BY DEF LastInLine, is_terminal
  <2>1. /\ x \in DOMAIN order_states \ {id} /\ ~is_terminal(order_states[x])
        /\ order_states[x].symbol = c
    OBVIOUS
  <2> QED BY <2>1, Requeued
<1>2. \A i \in DOMAIN matched'[t] : FALSE
  OBVIOUS
<1>3. AheadKept({c})
  <2> SUFFICES ASSUME NEW x \in DOMAIN order_states, NEW y \in DOMAIN order_states,
                      order_states[x].symbol # c, ~is_terminal(order_states[x]),
                      order_states[y].symbol # c, ~is_terminal(order_states[y]),
                      <<x, y>> \in ahead
               PROVE  <<x, y>> \in ahead'
    BY DEF AheadKept
  <2>1. x # id /\ y # id
    OBVIOUS
  <2> QED BY <2>1, Requeued
<1> QED BY <1>1, <1>2, <1>3 DEF CallInOrder

\* An accepted order is the last in line.
LEMMA SubmitAcceptedPriority ==
  ASSUME CoreInv, LocksHeld, Agreement, PriorityInv, NEW t \in Threads, SubmitAccepted(t)
  PROVE  PriorityInv'
<1>1. PICK order, id, c : order = req[t].order /\ id = order.order_id /\ c = order.symbol
  OBVIOUS
<1>2. /\ pc[t] = "submit" /\ c \in Registered
      /\ Insert(id, NewOrderState(order, "New"))
      /\ ahead' = Requeue(ahead, order_states, id, c)
      /\ incoming' = [incoming EXCEPT ![t] = order]
      /\ pc' = [pc EXCEPT ![t] = "match"]
      /\ UNCHANGED <<books, matched>>
  BY <1>1 DEF SubmitAccepted, Goto, Acceptable
<1>3. /\ c = MessageSymbol(req[t]) /\ id \notin DOMAIN order_states
      /\ DOMAIN order_states' = DOMAIN order_states \cup {id}
      /\ \A x \in DOMAIN order_states : order_states'[x] = order_states[x]
  BY <1>1, <1>2, Submission
<1>4. StatesKept /\ StaysIn(t, {c})
  BY <1>3, StepStays DEF Enter
<1>5. /\ pc'[t] = "match" /\ matched'[t] = <<>>
      /\ incoming'[t].order_id = id /\ incoming'[t].symbol = c
  BY <1>1, <1>2 DEF CoreInv, TypeOK, ThreadsTypeOK, Agreement, CallOK, MatchedInCall
<1>6. CallInOrder(t)' /\ AheadKept({c})
  BY <1>2, <1>3, <1>5, CallStarts
<1>7. \A sd \in Side : id \notin RestingOn(c, sd)
  BY <1>3 DEF RestingOn
<1>8. QueuesInOrder(c)'
  BY <1>2, <1>7, RequeuedQueues
<1> QED BY <1>4, <1>6, <1>8, PriorityStep

\* A replaced order goes back to the end of the line.
LEMMA ReplaceCommittedPriority ==
  ASSUME CoreInv, LocksHeld, Agreement, PriorityInv, NEW t \in Threads, ReplaceCommitted(t)
  PROVE  PriorityInv'
<1>1. PICK id, c : id = req[t].order_id /\ c = snap[t].symbol
  OBVIOUS
<1>2. /\ pc[t] = "replace"
      /\ \E new : order_states' = [order_states EXCEPT ![id] = new]
      /\ ahead' = Requeue(ahead, order_states, id, c)
      /\ incoming' = [incoming EXCEPT ![t] = Revised(t)]
      /\ pc' = [pc EXCEPT ![t] = "match"]
      /\ UNCHANGED <<books, matched>>
  BY <1>1 DEF ReplaceCommitted, Goto
<1>3. /\ c \in Registered /\ c = MessageSymbol(req[t]) /\ symbol_mutexes[c] = t
      /\ id \in DOMAIN order_states /\ order_states[id].symbol = c /\ matched[t] = <<>>
  BY <1>1, <1>2, AmendCall DEF Belongs
<1>4. StatesKept /\ StaysIn(t, {c})
  BY <1>3, StepStays DEF Continue
<1>5. /\ pc'[t] = "match" /\ matched'[t] = <<>>
      /\ incoming'[t].order_id = id /\ incoming'[t].symbol = c
  BY <1>1, <1>2, <1>3 DEF CoreInv, TypeOK, ThreadsTypeOK, Revised
<1>6. \A x \in DOMAIN order_states' \ {id} :
        x \in DOMAIN order_states /\ order_states'[x] = order_states[x]
  BY <1>2
<1>7. CallInOrder(t)' /\ AheadKept({c})
  BY <1>2, <1>3, <1>5, <1>6, CallStarts
<1>8. \A sd \in Side : id \notin RestingOn(c, sd)
  <2>1. Resting(id) = IF IsOpen(order_states[id]) THEN RestsDuring(t, id) ELSE 0
    BY <1>3, RestingHeld
  <2>2. RestsDuring(t, id) = 0
    BY <1>1, <1>2 DEF RestsDuring
  <2> QED BY <2>1, <2>2 DEF RestingOn
<1>9. QueuesInOrder(c)'
  BY <1>2, <1>3, <1>8, RequeuedQueues
<1> QED BY <1>4, <1>7, <1>9, PriorityStep

-----------------------------------------------------------------------------
(* Matching.                                                               *)

\* The order of a call in match_orders does not rest yet.
LEMMA MatchingRestsNot ==
  ASSUME CoreInv, LocksHeld, Agreement, NEW t \in Threads, pc[t] = "match",
         NEW id, id = incoming[t].order_id, NEW s, NEW sd
  PROVE  id \notin RestingOn(s, sd)
<1>1. /\ symbol_mutexes[incoming[t].symbol] = t /\ id \in DOMAIN order_states
      /\ order_states[id].symbol = incoming[t].symbol
  BY MatchCall DEF Belongs
<1>2. Resting(id) = IF IsOpen(order_states[id]) THEN RestsDuring(t, id) ELSE 0
  BY <1>1, RestingHeld
<1>3. RestsDuring(t, id) = 0
  BY DEF RestsDuring
<1> QED BY <1>2, <1>3 DEF RestingOn

\* The remainder goes to the end of its queue, behind orders that came before.
LEMMA RemainderInOrder ==
  ASSUME CoreInv, LocksHeld, Agreement, PriorityInv, NEW t \in Threads, pc[t] = "match",
         RestRemainder(incoming[t]), UNCHANGED ahead, NEW c, c = incoming[t].symbol
  PROVE  QueuesInOrder(c)'
<1>1. PICK order, id, sd, entry, new :
        /\ order = incoming[t] /\ id = order.order_id /\ sd = order.side
        /\ entry = [order_id |-> id, quantity |-> order.quantity]
        /\ new = Rest(books[c][sd], order.price, entry)
  OBVIOUS
<1>2. c \in Registered /\ sd \in Side
  BY <1>1, MatchCall
<1>3. CASE order.quantity > 0
  <2>1. books' = [books EXCEPT ![c][sd] = new]
    BY <1>1, <1>3 DEF RestRemainder
  <2>2. SideMoved(c, sd, new)
    BY <1>2, <2>1, ExceptMoves
  <2>3. PICK E, levels, content, arrival :
          /\ E = Booked(c, sd) /\ levels = books[c][sd] /\ content = Content(c, sd)
          /\ arrival = ahead
    OBVIOUS
  <2>4. Tidy(levels, E) /\ Holds(levels, content) /\ InOrder(levels, arrival)
    BY <1>2, <2>3
       DEF CoreInv, BooksTidy, Agreement, BooksHold, PriorityInv, QueuesInOrder
  <2>5. ASSUME NEW x \in DOMAIN content PROVE <<x, entry.order_id>> \in arrival
    <3>1. x \in DOMAIN order_states /\ order_states[x].symbol = c /\ ~is_terminal(order_states[x])
      BY <2>3, ContentLive
    <3>2. x # id
      <4>1. x \in RestingOn(c, sd)
        BY <2>3 DEF Content
      <4> QED BY <1>1, <4>1, MatchingRestsNot
    <3>3. LastInLine(t)
      BY DEF PriorityInv, CallInOrder
    <3>4. <<x, id>> \in ahead
      BY <1>1, <3>1, <3>2, <3>3 DEF LastInLine
    <3> QED BY <1>1, <2>3, <3>4
  <2>6. InOrder(Rest(levels, order.price, entry), arrival)
    BY <2>4, <2>5, RestInOrder
  <2> QED BY <1>1, <2>2, <2>3, <2>6, MovedQueues
<1>4. CASE ~(order.quantity > 0)
  <2>1. UNCHANGED books
    BY <1>1, <1>4 DEF RestRemainder
  <2> QED BY <1>2, <2>1, UnmovedQueues
<1> QED BY <1>3, <1>4

\* A call without a trade ends with its order at rest.
LEMMA MatchedNothingPriority ==
  ASSUME CoreInv, LocksHeld, Agreement, PriorityInv, NEW t \in Threads, MatchedNothing(t)
  PROVE  PriorityInv'
<1>1. PICK c : c = incoming[t].symbol
  OBVIOUS
<1>2. pc[t] = "match" /\ RestRemainder(incoming[t]) /\ Return(t) /\ UNCHANGED ahead
  BY DEF MatchedNothing
<1>3. c = MessageSymbol(req[t])
  BY <1>1, <1>2, MatchCall
<1>4. StatesKept /\ StaysIn(t, {c})
  BY <1>3, StepStays DEF Continue
<1>5. QueuesInOrder(c)'
  BY <1>1, <1>2, RemainderInOrder
<1> QED BY <1>2, <1>4, <1>5, ReturnedInOrder, AheadUnmoved, PriorityStep

\* A call with trades goes on to apply them.
LEMMA MatchedSomePriority ==
  ASSUME CoreInv, LocksHeld, Agreement, PriorityInv, NEW t \in Threads, MatchedSome(t)
  PROVE  PriorityInv'
<1>1. PICK c : c = incoming[t].symbol
  OBVIOUS
<1>2. /\ pc[t] = "match" /\ RestRemainder(incoming[t])
      /\ pc' = [pc EXCEPT ![t] = "apply"]
      /\ UNCHANGED <<ahead, order_states, incoming, matched>>
  BY DEF MatchedSome, Goto
<1>3. c = MessageSymbol(req[t])
  BY <1>1, <1>2, MatchCall
<1>4. StatesKept /\ StaysIn(t, {c})
  BY <1>3, StepStays DEF Continue
<1>5. QueuesInOrder(c)'
  BY <1>1, <1>2, RemainderInOrder
<1>6. CallInOrder(t)'
  <2>1. pc'[t] = "apply"
    BY <1>2 DEF CoreInv, TypeOK, ThreadsTypeOK
  <2>2. LastInLine(t) /\ \A i \in DOMAIN matched[t] : HitBest(t, i) /\ HitWhole(t, i)
    BY <1>2 DEF PriorityInv, CallInOrder
  <2>3. LastInLine(t)'
    BY <1>2, <2>2 DEF LastInLine, is_terminal
  <2>4. \A i : Hit(t, i)' = Hit(t, i)
    BY <1>2 DEF Hit, HitBy
  <2>5. ASSUME NEW i \in DOMAIN matched[t] PROVE HitBest(t, i)' /\ HitWhole(t, i)'
    <3>1. Rivals(t, i)' = Rivals(t, i)
      BY <1>2, <2>4 DEF Rivals, Belongs, IsOpen, is_terminal, remaining_quantity
    <3>2. HitBest(t, i)'
      BY <1>2, <2>2, <2>4, <3>1 DEF HitBest, Before
    <3>3. HitWhole(t, i)'
      BY <1>2, <2>2, <2>4 DEF HitWhole, remaining_quantity
    <3> QED BY <3>2, <3>3
  <2> QED BY <1>2, <2>1, <2>3, <2>5 DEF CallInOrder
<1> QED BY <1>2, <1>4, <1>5, <1>6, AheadUnmoved, PriorityStep

\* The front order of the best level goes before every other open order of its
\* side that the call has not hit.
LEMMA FrontIsBest ==
  ASSUME CoreInv, LocksHeld, Agreement, PriorityInv, NEW t \in Threads, pc[t] = "match",
         NEW order, NEW c, NEW side, NEW levels, NEW best, NEW front, NEW x,
         AtFront(t, order, c, side, levels, best, front, x),
         order.quantity > 0, CanMatch(order),
         NEW y \in DOMAIN order_states, Belongs(y, c, side), IsOpen(order_states[y]),
         TradesOf(t, y) = {}, y # x
  PROVE  Before(x, y)
<1>a. /\ order = incoming[t] /\ c = order.symbol
      /\ side = Opposite(order.side) /\ levels = Against(order)
      /\ best = Best(side, levels) /\ front = levels[best][1] /\ x = front.order_id
  BY DEF AtFront
<1>1. /\ side \in Side /\ side # order.side /\ levels = books[c][side]
      /\ Tidy(levels, Booked(c, side)) /\ best \in DOMAIN levels
      /\ x \in DOMAIN order_states /\ Belongs(x, c, side)
      /\ order_states[x].price = best
  BY FrontUntouched
<1>2. /\ c \in Registered /\ symbol_mutexes[c] = t
      /\ Belongs(order.order_id, c, order.side)
  BY <1>a, MatchCall
<1>3. y # order.order_id /\ order_states[y].symbol = c
  BY <1>1, <1>2 DEF Belongs
<1>4. Resting(y) > 0
  <2>1. Resting(y) = IF IsOpen(order_states[y]) THEN RestsDuring(t, y) ELSE 0
    BY <1>2, <1>3, RestingHeld
  <2>2. RestsDuring(t, y) = remaining_quantity(order_states[y]) - Taken(t, y)
    BY <1>a, <1>3 DEF RestsDuring
  <2>3. Taken(t, y) = 0 /\ remaining_quantity(order_states[y]) \in Int
    BY TakenNone, RemainingIsInt
  <2> QED BY <2>1, <2>2, <2>3 DEF IsOpen
<1>5. PICK p : p = order_states[y].price
  OBVIOUS
<1>6. p \in DOMAIN levels /\ \E i \in DOMAIN levels[p] : levels[p][i].order_id = y
  <2>1. y \in RestingOn(c, side)
    BY <1>4 DEF RestingOn
  <2> QED BY <1>1, <1>2, <1>5, <2>1, RestsAtPrice
<1>7. AtLeastAsGood(side, best, p)
  <2>1. DOMAIN levels \subseteq Prices /\ DOMAIN levels # {}
    BY <1>1 DEF Tidy
  <2> QED BY <1>a, <1>1, <1>6, <2>1, BestIsALevel
<1>8. ASSUME p = best PROVE <<x, y>> \in ahead
  <2>1. PICK i \in DOMAIN levels[best] : levels[best][i].order_id = y
    BY <1>6, <1>8
  <2>2. levels[best] \in Seq(Booked(c, side)) /\ levels[best] # <<>>
    BY <1>1 DEF Tidy
  <2>3. 1 \in DOMAIN levels[best] /\ levels[best][1].order_id = x /\ 1 < i
    BY <1>a, <2>1, <2>2
  <2>4. InOrder(levels, ahead)
    BY <1>1, <1>2 DEF PriorityInv, QueuesInOrder
  <2> QED BY <1>1, <2>1, <2>3, <2>4 DEF InOrder
<1> QED BY <1>1, <1>5, <1>7, <1>8 DEF Before, Belongs

\* A match hits the best order that is left, and all shares of those before it.
LEMMA MatchOnePriority ==
  ASSUME CoreInv, LocksHeld, Agreement, PriorityInv, NEW t \in Threads, MatchOne(t)
  PROVE  PriorityInv'
<1>1. PICK order, c, side, levels, best, front, x, traded, trade :
        /\ order = incoming[t] /\ c = order.symbol
        /\ side = Opposite(order.side) /\ levels = Against(order)
        /\ best = Best(side, levels) /\ front = levels[best][1] /\ x = front.order_id
        /\ traded = IF order.quantity <= front.quantity
                      THEN order.quantity ELSE front.quantity
        /\ trade = NewTrade(order, x, best, traded)
  OBVIOUS
<1>a. order = incoming[t] /\ c = order.symbol /\ side = Opposite(order.side)
  BY <1>1
<1>b. AtFront(t, order, c, side, levels, best, front, x)
  BY <1>1 DEF AtFront
<1>2. /\ pc[t] = "match" /\ CanMatch(order) /\ order.quantity > 0
      /\ matched' = [matched EXCEPT ![t] = Append(@, trade)]
      /\ incoming' = [incoming EXCEPT ![t].quantity = @ - traded]
      /\ books' = [books EXCEPT ![c][side] = TakeFront(@, best, traded)]
      /\ UNCHANGED <<order_states, ahead, pc>>
  BY <1>1 DEF MatchOne, CanMatch
<1>3. /\ order \in Order /\ c \in Registered /\ c = MessageSymbol(req[t])
      /\ HitsOnce(t) /\ matched[t] \in Seq(PairTrade)
  BY <1>a, <1>2, MatchCall
<1>4. /\ side \in Side /\ levels = books[c][side] /\ Tidy(levels, Booked(c, side))
      /\ best \in DOMAIN levels /\ Belongs(x, c, side) /\ order_states[x].price = best
  BY <1>b, <1>2, FrontUntouched
<1>5. AtLeastAsGood(side, best, order.price)
  BY <1>1, <1>2 DEF CanMatch
<1>6. PICK n \in Nat : n = Len(matched[t]) /\ DOMAIN matched[t] = 1..n
  BY <1>3
<1>7. /\ DOMAIN matched'[t] = 1..(n + 1) /\ Len(matched'[t]) = n + 1
      /\ matched'[t][n + 1] = trade
      /\ \A i \in 1..n : matched'[t][i] = matched[t][i]
  <2>1. matched'[t] = Append(matched[t], trade)
    BY <1>2 DEF CoreInv, TypeOK, ThreadsTypeOK
  <2>2. matched[t] \in Seq(PairTrade \cup {trade})
    BY <1>3, SeqInLarger
  <2> QED BY <1>6, <2>1, <2>2, AppendProperties
<1>8. /\ incoming'[t].order_id = order.order_id /\ incoming'[t].symbol = c
      /\ incoming'[t].side = order.side /\ incoming'[t].price = order.price
  <2>1. incoming'[t] = [order EXCEPT !.quantity = @ - traded]
    BY <1>a, <1>2 DEF CoreInv, TypeOK, ThreadsTypeOK
  <2> QED BY <1>a, <1>3, <2>1 DEF Order
<1>9. /\ \A i \in 1..n : Hit(t, i)' = Hit(t, i)
      /\ Hit(t, n + 1)' = x
  <2>1. \A i \in 1..n : Hit(t, i)' = Hit(t, i)
    BY <1>a, <1>7, <1>8 DEF Hit, HitBy
  <2>2. /\ trade.buy_order_id = IF order.side = "Buy" THEN order.order_id ELSE x
        /\ trade.sell_order_id = IF order.side = "Buy" THEN x ELSE order.order_id
    BY <1>1 DEF NewTrade
  <2>3. Hit(t, n + 1)' = x
    BY <1>7, <1>8, <2>2 DEF Hit, HitBy
  <2> QED BY <2>1, <2>3
<1>10. LastInLine(t) /\ \A i \in DOMAIN matched[t] : HitBest(t, i) /\ HitWhole(t, i)
  BY <1>2 DEF PriorityInv, CallInOrder
<1>11. LastInLine(t)'
  BY <1>a, <1>2, <1>8, <1>10 DEF LastInLine, is_terminal
<1>12. ASSUME NEW i \in 1..n PROVE HitBest(t, i)'
  <2>1. Rivals(t, i)' \subseteq Rivals(t, i)
    <3>1. \A j \in 1..i : Hit(t, j)' = Hit(t, j)
      BY <1>6, <1>9
    <3> QED BY <1>a, <1>2, <1>8, <3>1
            DEF Rivals, Belongs, IsOpen, is_terminal, remaining_quantity
  <2>2. HitBest(t, i) /\ Hit(t, i)' = Hit(t, i)
    BY <1>6, <1>9, <1>10
  <2> QED BY <1>a, <1>2, <1>8, <2>1, <2>2 DEF HitBest, Before
<1>13. HitBest(t, n + 1)'
  <2>1. ASSUME NEW y \in Rivals(t, n + 1)' PROVE Before(x, y)
    <3>1. /\ y \in DOMAIN order_states /\ Belongs(y, c, side) /\ IsOpen(order_states[y])
          /\ \A j \in 1..(n + 1) : y # Hit(t, j)'
      BY <1>a, <1>2, <1>8, <2>1 DEF Rivals, Belongs, IsOpen, is_terminal, remaining_quantity
    <3>2. y # x
      BY <1>6, <1>9, <3>1
    <3>3. TradesOf(t, y) = {}
      <4>1. \A i \in 1..n : Hit(t, i) # y
        BY <1>6, <1>9, <3>1
      <4> QED BY <1>6, <4>1 DEF TradesOf
    <3> QED BY <1>b, <1>2, <3>1, <3>2, <3>3, FrontIsBest
  <2> QED BY <1>a, <1>2, <1>4, <1>5, <1>8, <1>9, <2>1 DEF HitBest, Before
<1>14. ASSUME NEW i \in 1..n PROVE HitWhole(t, i)'
  <2>1. matched[t][i].quantity = remaining_quantity(order_states[Hit(t, i)])
    BY <1>a, <1>2, <1>3, <1>6 DEF HitsOnce
  <2> QED BY <1>2, <1>7, <1>9, <2>1 DEF HitWhole, remaining_quantity
<1>15. HitWhole(t, n + 1)'
  BY <1>7 DEF HitWhole
<1>16. CallInOrder(t)'
  <2>1. \A i \in DOMAIN matched'[t] : HitBest(t, i)' /\ HitWhole(t, i)'
    BY <1>7, <1>12, <1>13, <1>14, <1>15
  <2> QED BY <1>2, <1>11, <2>1 DEF CallInOrder
<1>17. QueuesInOrder(c)'
  <2>1. PICK new : new = TakeFront(levels, best, traded)
    OBVIOUS
  <2>2. books' = [books EXCEPT ![c][side] = new]
    BY <1>2, <1>4, <2>1
  <2>3. SideMoved(c, side, new)
    BY <1>3, <1>4, <2>2, ExceptMoves
  <2>4. PICK E, arrival : E = Booked(c, side) /\ arrival = ahead
    OBVIOUS
  <2>5. Tidy(levels, E) /\ InOrder(levels, arrival)
    BY <1>3, <1>4, <2>4 DEF PriorityInv, QueuesInOrder
  <2>6. InOrder(TakeFront(levels, best, traded), arrival)
    BY <1>4, <2>5, TakeFrontInOrder
  <2> QED BY <1>2, <2>1, <2>3, <2>4, <2>6, MovedQueues
<1>18. StatesKept /\ StaysIn(t, {c})
  BY <1>3, StepStays DEF Continue
<1> QED BY <1>2, <1>16, <1>17, <1>18, AheadUnmoved, PriorityStep

-----------------------------------------------------------------------------
(* Applying.                                                               *)

\* What is left of a call once its first trade is applied keeps price and time:
\* the order that trade hit is closed, for only the last one may leave shares.
LEMMA ApplyTradePriority ==
  ASSUME CoreInv, LocksHeld, Agreement, PriorityInv, NEW t \in Threads, ApplyTrade(t)
  PROVE  PriorityInv'
<1>1. PICK order, c, id, trade, x : AtFirst(t, order, c, id, trade, x)
  BY DEF AtFirst
<1>a. /\ order = incoming[t] /\ c = order.symbol /\ id = order.order_id
      /\ trade = matched[t][1] /\ x = Hit(t, 1)
  BY <1>1 DEF AtFirst
<1>2. /\ pc[t] = "apply" /\ Apply(matched[t][1]) /\ Len(matched[t]) > 1
      /\ matched' = [matched EXCEPT ![t] = Tail(@)]
      /\ UNCHANGED <<books, ahead, pc, incoming>>
  BY DEF ApplyTrade
<1>3. /\ DOMAIN order_states' = DOMAIN order_states
      /\ id \in DOMAIN order_states /\ x \in DOMAIN order_states /\ x # id
      /\ IsOpen(order_states[id]) /\ IsOpen(order_states[x])
      /\ \A y \in DOMAIN order_states :
           y \notin {id, x} => order_states'[y] = order_states[y]
      /\ \A y \in {id, x} :
           /\ remaining_quantity(order_states'[y])
                = remaining_quantity(order_states[y]) - trade.quantity
           /\ remaining_quantity(order_states[y]) \in Int
           /\ is_terminal(order_states'[y]) <=> remaining_quantity(order_states'[y]) = 0
  BY <1>1, <1>2, FirstTradeApplied
<1>4. /\ c \in Registered /\ c = MessageSymbol(req[t]) /\ order.side \in Side
      /\ Belongs(id, c, order.side)
      /\ \A i \in DOMAIN matched[t] : Covered(t, i)
      /\ HitsOnce(t) /\ matched[t] \in Seq(PairTrade)
  BY <1>a, <1>2, MatchCall
<1>5. StatesKept /\ StaysIn(t, {c})
  BY <1>4, StepStays DEF Continue
<1>6. PICK n \in Nat : n = Len(matched[t]) /\ n > 1 /\ DOMAIN matched[t] = 1..n
  BY <1>2, <1>4
<1>7. /\ DOMAIN matched'[t] = 1..(n - 1) /\ Len(matched'[t]) = n - 1
      /\ \A i \in 1..(n - 1) : matched'[t][i] = matched[t][i + 1]
  <2>1. matched'[t] = Tail(matched[t])
    BY <1>2 DEF CoreInv, TypeOK, ThreadsTypeOK
  <2> QED BY <1>4, <1>6, <2>1
<1>8. \A i \in 1..(n - 1) : Hit(t, i)' = Hit(t, i + 1) /\ i + 1 \in 1..n /\ i + 1 # 1
  BY <1>2, <1>7 DEF Hit, HitBy
<1>9. \A i \in 2..n : /\ Hit(t, i) \in DOMAIN order_states
                      /\ order_states'[Hit(t, i)] = order_states[Hit(t, i)]
  <2> SUFFICES ASSUME NEW i \in 2..n
               PROVE  Hit(t, i) \in DOMAIN order_states /\ Hit(t, i) # id /\ Hit(t, i) # x
    BY <1>3
  <2>1. i \in DOMAIN matched[t] /\ i # 1 /\ 1 \in DOMAIN matched[t]
    BY <1>6
  <2>2. Covered(t, i)
    BY <1>4, <2>1
  <2>3. Belongs(Hit(t, i), incoming[t].symbol, Opposite(incoming[t].side))
    BY <1>2, <2>1, <2>2, HitsOnSymbol
  <2>4. Belongs(Hit(t, i), c, Opposite(order.side))
    BY <1>a, <2>3
  <2>5. Hit(t, i) # x
    BY <1>a, <1>4, <2>1 DEF HitsOnce
  <2> QED BY <1>4, <2>4, <2>5 DEF Belongs, Opposite, Side
<1>10. LastInLine(t) /\ \A i \in 1..n : HitBest(t, i) /\ HitWhole(t, i)
  BY <1>2, <1>6 DEF PriorityInv, CallInOrder
<1>11. LastInLine(t)'
  <2> SUFFICES ASSUME NEW y \in DOMAIN order_states' \ {id},
                      order_states'[y].symbol = c, ~is_terminal(order_states'[y])
               PROVE  <<y, id>> \in ahead
    BY <1>a, <1>2 DEF LastInLine, is_terminal
  <2>1. order_states[y].symbol = c /\ ~is_terminal(order_states[y])
    BY <1>3, <1>5 DEF StatesKept, IsOpen
  <2> QED BY <1>a, <1>3, <1>10, <2>1 DEF LastInLine
<1>12. ~IsOpen(order_states'[x])
  <2>1. trade.quantity = remaining_quantity(order_states[x])
    BY <1>a, <1>6, <1>10 DEF HitWhole
  <2> QED BY <1>3, <2>1 DEF IsOpen
<1>13. ASSUME NEW i \in 1..(n - 1) PROVE HitBest(t, i)'
  <2>1. PICK h, k : h = Hit(t, k) /\ k = i + 1
    OBVIOUS
  <2>2. /\ Hit(t, i)' = h /\ k \in 2..n /\ h \in DOMAIN order_states
        /\ order_states'[h] = order_states[h] /\ HitBest(t, k)
    BY <1>6, <1>8, <1>9, <1>10, <2>1
  <2>3. ASSUME NEW y \in Rivals(t, i)' PROVE Before(h, y)'
    <3>1. /\ y \in DOMAIN order_states
          /\ order_states'[y].symbol = c /\ order_states'[y].side = Opposite(order.side)
          /\ IsOpen(order_states'[y])
          /\ \A j \in 1..i : y # Hit(t, j)'
      BY <1>a, <1>2, <1>3, <2>3 DEF Rivals, Belongs, IsOpen, is_terminal, remaining_quantity
    <3>2. Belongs(y, c, Opposite(order.side))
      BY <1>5, <3>1 DEF StatesKept, Belongs
    <3>3. y # x /\ y # id
      BY <1>4, <1>12, <3>1, <3>2 DEF Belongs, Opposite, Side
    <3>4. order_states'[y] = order_states[y]
      BY <1>3, <3>1, <3>3
    <3>5. \A j \in 1..k : y # Hit(t, j)
      <4> SUFFICES ASSUME NEW j \in 1..k PROVE y # Hit(t, j)
        OBVIOUS
      <4>1. CASE j = 1
        BY <1>a, <3>3, <4>1
      <4>2. CASE j # 1
        <5>1. PICK l \in 1..i : l + 1 = j /\ l \in 1..(n - 1)
          <6>1. j - 1 \in 1..i /\ (j - 1) + 1 = j /\ j - 1 \in 1..(n - 1)
            BY <1>6, <2>1, <4>2
          <6> QED BY <6>1
        <5> QED BY <1>8, <3>1, <5>1
      <4> QED BY <4>1, <4>2
    <3>6. y \in Rivals(t, k)
      BY <1>a, <3>1, <3>2, <3>4, <3>5 DEF Rivals
    <3>7. Before(h, y)
      BY <2>1, <2>2, <3>6 DEF HitBest
    <3> QED BY <1>2, <2>2, <3>4, <3>7 DEF Before
  <2> QED BY <1>2, <2>1, <2>2, <2>3 DEF HitBest
<1>14. ASSUME NEW i \in 1..(n - 1) PROVE HitWhole(t, i)'
  <2>1. PICK k : k = i + 1
    OBVIOUS
  <2>2. /\ k \in 2..n /\ matched'[t][i] = matched[t][k] /\ Hit(t, i)' = Hit(t, k)
        /\ order_states'[Hit(t, k)] = order_states[Hit(t, k)] /\ HitWhole(t, k)
        /\ (i < n - 1 => k < n)
    BY <1>6, <1>7, <1>8, <1>9, <1>10, <2>1
  <2> QED BY <1>6, <1>7, <2>2 DEF HitWhole, remaining_quantity
<1>15. CallInOrder(t)'
  BY <1>2, <1>7, <1>11, <1>13, <1>14 DEF CallInOrder
<1>16. QueuesInOrder(c)'
  BY <1>2, <1>4, UnmovedQueues
<1> QED BY <1>2, <1>5, <1>15, <1>16, AheadUnmoved, PriorityStep

-----------------------------------------------------------------------------
(* The invariant.                                                          *)

\* At the start nothing rests and no handler is under way.
LEMMA InitPriority == Init => PriorityInv
<1> SUFFICES ASSUME Init PROVE PriorityInv
  OBVIOUS
<1>1. pc = [t \in Threads |-> "idle"]
      /\ books = [s \in Registered |-> [sd \in Side |-> NoLevels]]
  BY DEF Init
<1>2. ASSUME NEW s \in Registered PROVE QueuesInOrder(s)
  BY <1>1 DEF QueuesInOrder, InOrder, NoLevels
<1>3. ASSUME NEW t \in Threads PROVE CallInOrder(t)
  BY <1>1 DEF CallInOrder
<1> QED BY <1>2, <1>3 DEF PriorityInv

\* A step that changes nothing keeps price and time.
LEMMA StutterPriority ==
  ASSUME PriorityInv, UNCHANGED vars
  PROVE  PriorityInv'
<1>1. UNCHANGED <<order_states, books, ahead, pc, req, snap, incoming, matched>>
  BY DEF vars, shared, locals
<1>2. \A s \in Registered : QueuesInOrder(s)'
  BY <1>1, UnmovedQueues
<1>3. ASSUME NEW t \in Threads PROVE CallInOrder(t)'
  <2>1. \A i : Hit(t, i)' = Hit(t, i)
    BY <1>1 DEF Hit, HitBy
  <2>2. \A i : Rivals(t, i)' = Rivals(t, i)
    BY <1>1, <2>1 DEF Rivals, Belongs, IsOpen, is_terminal, remaining_quantity
  <2>3. \A x, y : Before(x, y)' <=> Before(x, y)
    BY <1>1 DEF Before
  <2>4. \A i : HitBest(t, i) => HitBest(t, i)'
    BY <1>1, <2>1, <2>2, <2>3 DEF HitBest
  <2>5. \A i : HitWhole(t, i) => HitWhole(t, i)'
    BY <1>1, <2>1 DEF HitWhole, remaining_quantity
  <2>6. LastInLine(t) => LastInLine(t)'
    BY <1>1 DEF LastInLine, is_terminal
  <2>7. \A s : M!Settled(s) => M!Settled(s)'
    BY <1>1, StillSettled
  <2>8. CallInOrder(t)
    BY DEF PriorityInv
  <2> QED BY <1>1, <2>4, <2>5, <2>6, <2>7, <2>8 DEF CallInOrder
<1> QED BY <1>2, <1>3 DEF PriorityInv

\* Every step keeps price and time.
LEMMA NextPriority ==
  ASSUME CoreInv, LocksHeld, Agreement, NoCross, PriorityInv, Next
  PROVE  PriorityInv'
<1>1. PICK t \in Threads : Receive(t) \/ Enter(t) \/ Continue(t)
  BY DEF Next
<1>2. CASE Receive(t)
  BY <1>2, ReceivePriority
<1>3. CASE Enter(t)
  <2>1. CASE SubmitRejected(t) \/ AmendRefused(t)
    <3>1. Return(t) /\ UNCHANGED <<books, ahead>>
      BY <2>1 DEF SubmitRejected, AmendRefused
    <3> QED BY <1>3, <3>1, ReturnPriority
  <2>2. CASE SubmitAccepted(t) \/ AmendStarted(t)
    BY <2>2, SubmitAcceptedPriority, AmendStartedPriority
  <2> QED BY <1>3, <2>1, <2>2 DEF Enter
<1>4. CASE Continue(t)
  <2>1. CASE MatchOne(t) \/ MatchedNothing(t) \/ MatchedSome(t)
    BY <2>1, MatchOnePriority, MatchedNothingPriority, MatchedSomePriority
  <2>2. CASE ApplyTrade(t) \/ Pull(t) \/ ReplaceCommitted(t)
    BY <2>2, ApplyTradePriority, PullPriority, ReplaceCommittedPriority
  <2>3. CASE ApplyLastTrade(t) \/ CancelDone(t) \/ ReplaceAbandoned(t)
    <3>1. Return(t) /\ UNCHANGED <<books, ahead>>
      BY <2>3 DEF ApplyLastTrade, CancelDone, ReplaceAbandoned
    <3> QED BY <1>4, <3>1, ReturnPriority
  <2> QED BY <1>4, <2>1, <2>2, <2>3 DEF Continue
<1> QED BY <1>1, <1>2, <1>3, <1>4

\* Queues stand in order of arrival, a call hits the best order there is each
\* time, and a request finds its symbol settled, whatever other threads do.
THEOREM PriorityInvAlways ==
  ASSUME NamesOwnSymbol
  PROVE  Spec => []PriorityInv
<1>1. IndInv => CoreInv /\ LocksHeld
  BY DEF IndInv
<1>2. IndInv /\ Agreement /\ NoCross /\ PriorityInv /\ [Next]_vars => PriorityInv'
  BY <1>1, NextPriority, StutterPriority
<1> QED BY InitPriority, <1>2, IndInvAlways, AgreementAlways, NoCrossAlways, PTL DEF Spec

-----------------------------------------------------------------------------
(* The refinement.                                                         *)

\* The exchange starts as the market starts: no order, no trade.
LEMMA InitMarket == Init => M!Init
<1> SUFFICES ASSUME Init PROVE M!Init
  OBVIOUS
<1>1. order_states = <<>> /\ trades = <<>> /\ ahead = {}
  BY DEF Init
<1>2. TapeOf(trades) = <<>>
  BY <1>1 DEF TapeOf
<1> QED BY <1>1, <1>2 DEF M!Init

\* What the market does not see of a step.
LEMMA Unseen ==
  ASSUME UNCHANGED <<order_states, trades, ahead>>
  PROVE  UNCHANGED M!vars
<1>1. TapeOf(trades)' = TapeOf(trades)
  BY DEF TapeOf
<1> QED BY <1>1 DEF M!vars

\* The operators of the market are those of the exchange.
LEMMA SameVocabulary ==
  /\ \A st : /\ M!remaining_quantity(st) = remaining_quantity(st)
             /\ M!is_terminal(st) <=> is_terminal(st)
             /\ M!IsOpen(st) <=> IsOpen(st)
  /\ \A id, c : M!Requeue(ahead, order_states, id, c) = Requeue(ahead, order_states, id, c)
<1>1. \A st : /\ M!remaining_quantity(st) = remaining_quantity(st)
              /\ M!is_terminal(st) <=> is_terminal(st)
              /\ M!IsOpen(st) <=> IsOpen(st)
  BY DEF M!IsOpen, M!is_terminal, M!remaining_quantity, IsOpen, is_terminal,
         remaining_quantity
<1>2. \A id, c : M!Requeue(ahead, order_states, id, c) = Requeue(ahead, order_states, id, c)
  BY DEF M!Requeue, Requeue, M!is_terminal, is_terminal
<1> QED BY <1>1, <1>2

\* A submission is recorded as the market records a request.
LEMMA SubmissionMarket ==
  ASSUME CoreInv, PriorityInv, NEW t \in Threads, pc[t] = "submit",
         NEW status \in {"New", "Rejected"},
         Insert(req[t].order.order_id, NewOrderState(req[t].order, status))
  PROVE  \E id \in 1..MaxOrders, request \in M!Requests :
           /\ id = req[t].order.order_id /\ request.symbol = req[t].order.symbol
           /\ id \notin DOMAIN order_states
           /\ M!Record(id, M!NewOrderState(request, status))
<1>1. PICK order, id : order = req[t].order /\ id = order.order_id
  OBVIOUS
<1>2. order \in Order /\ id \notin DOMAIN order_states
  BY <1>1, Submission
<1>3. order.quantity \in Quantities /\ id \in 1..MaxOrders
  BY <1>1 DEF PriorityInv, CallInOrder
<1>4. PICK request : request = [symbol |-> order.symbol, side |-> order.side,
                                price |-> order.price, quantity |-> order.quantity]
  OBVIOUS
<1>5. request \in M!Requests
  BY <1>2, <1>3, <1>4 DEF M!Requests, Order, Side, M!Side
<1>6. M!NewOrderState(request, status) = NewOrderState(order, status)
  BY <1>4 DEF M!NewOrderState, NewOrderState
<1>7. M!Record(id, NewOrderState(order, status))
  BY <1>1, <1>2 DEF Insert, M!Record
<1> QED BY <1>1, <1>2, <1>3, <1>4, <1>5, <1>6, <1>7

\* A tape to which nothing is added.
LEMMA TapeStays ==
  ASSUME UNCHANGED trades
  PROVE  TapeOf(trades)' = TapeOf(trades)
BY DEF TapeOf

\* A submission that is rejected is a rejection of the market.
LEMMA SubmitRejectedMarket ==
  ASSUME CoreInv, PriorityInv, NEW t \in Threads, SubmitRejected(t)
  PROVE  M!Next
<1>1. /\ pc[t] = "submit" /\ UNCHANGED <<trades, ahead>>
      /\ Insert(req[t].order.order_id, NewOrderState(req[t].order, "Rejected"))
  BY DEF SubmitRejected
<1>2. PICK id \in 1..MaxOrders, request \in M!Requests :
        /\ id \notin DOMAIN order_states
        /\ M!Record(id, M!NewOrderState(request, "Rejected"))
  BY <1>1, SubmissionMarket
<1>3. M!Reject(id, request)
  BY <1>1, <1>2, TapeStays DEF M!Reject
<1> QED BY <1>2, <1>3 DEF M!Next

\* One that is accepted finds its symbol settled: its mutex was free.
LEMMA SubmitAcceptedMarket ==
  ASSUME CoreInv, Agreement, NoCross, PriorityInv, NEW t \in Threads, SubmitAccepted(t)
  PROVE  M!Next
<1>1. PICK order : order = req[t].order
  OBVIOUS
<1>2. /\ pc[t] = "submit" /\ UNCHANGED trades /\ SymbolFree(t)
      /\ Insert(order.order_id, NewOrderState(order, "New"))
      /\ ahead' = Requeue(ahead, order_states, order.order_id, order.symbol)
  BY <1>1 DEF SubmitAccepted
<1>3. PICK id \in 1..MaxOrders, request \in M!Requests :
        /\ id = order.order_id /\ request.symbol = order.symbol
        /\ id \notin DOMAIN order_states
        /\ M!Record(id, M!NewOrderState(request, "New"))
  BY <1>1, <1>2, SubmissionMarket
<1>4. symbol_mutexes[request.symbol] = NoThread
  BY <1>1, <1>2, <1>3, Submission DEF SymbolFree
<1>5. M!Settled(request.symbol)
  BY <1>4, FreeIsSettled
<1>6. ahead' = M!Requeue(ahead, order_states, id, request.symbol)
  BY <1>2, <1>3, SameVocabulary
<1>7. M!Accept(id, request)
  BY <1>2, <1>3, <1>5, <1>6, TapeStays DEF M!Accept
<1> QED BY <1>3, <1>7 DEF M!Next

\* An order is cancelled, by a cancel or by a replace that is abandoned, on a
\* symbol that is still settled: the call has changed no order before.
LEMMA CancelMarket ==
  ASSUME CoreInv, LocksHeld, Agreement, PriorityInv, NEW t \in Threads,
         pc[t] \in {"cancel", "replace"}, MarkCancelled(req[t].order_id),
         UNCHANGED <<trades, ahead>>
  PROVE  M!Next
<1>1. PICK id : id = req[t].order_id
  OBVIOUS
<1>2. /\ id \in DOMAIN order_states /\ ~is_terminal(order_states[id])
      /\ order_states[id].symbol = snap[t].symbol
  BY <1>1, AmendCall
<1>3. M!Settled(order_states[id].symbol)
  BY <1>2 DEF PriorityInv, CallInOrder
<1>4. order_states' = [order_states EXCEPT ![id].order_status = "Cancelled"]
  BY <1>1 DEF MarkCancelled
<1>5. M!Cancel(id)
  BY <1>2, <1>3, <1>4, TapeStays, SameVocabulary DEF M!Cancel
<1> QED BY <1>2, <1>5 DEF M!Next

\* A replace that is committed gives the order its new terms and the last
\* place among the live orders.
LEMMA ReplaceCommittedMarket ==
  ASSUME CoreInv, LocksHeld, Agreement, PriorityInv, NEW t \in Threads,
         ReplaceCommitted(t)
  PROVE  M!Next
<1>1. PICK id, c, price, quantity :
        /\ id = req[t].order_id /\ c = snap[t].symbol
        /\ price = req[t].price /\ quantity = req[t].quantity
  OBVIOUS
<1>2. /\ pc[t] = "replace" /\ Replaceable(Revised(t)) /\ UNCHANGED trades
      /\ order_states' = [order_states EXCEPT ![id] = Renewed(@, price, quantity)]
      /\ ahead' = Requeue(ahead, order_states, id, c)
  BY <1>1 DEF ReplaceCommitted
<1>3. /\ id \in DOMAIN order_states /\ ~is_terminal(order_states[id])
      /\ order_states[id].symbol = c /\ order_states[id] \in OrderStates
      /\ snap[t] = order_states[id] /\ req[t] \in Message
  BY <1>1, <1>2, AmendCall
<1>4. req[t].kind = "G"
  BY <1>2 DEF CoreInv, HandlerOK
<1>5. price \in Prices /\ quantity \in Quantities /\ quantity \in Int
  BY <1>1, <1>3, <1>4, QuantitiesAssumption DEF Message
<1>6. quantity > order_states[id].filled_quantity
  BY <1>1, <1>2, <1>3, <1>5 DEF Replaceable, Revised, OrderStates
<1>7. M!Settled(c)
  BY <1>1, <1>2 DEF PriorityInv, CallInOrder
<1>8. order_states' = [order_states EXCEPT ![id].price             = price,
                                           ![id].original_quantity = quantity,
                                           ![id].order_status      = "New"]
  BY <1>2, <1>3 DEF Renewed, OrderStates
<1>9. M!Replace(id, price, quantity)
  BY <1>2, <1>3, <1>6, <1>7, <1>8, TapeStays, SameVocabulary DEF M!Replace
<1> QED BY <1>3, <1>5, <1>9 DEF M!Next

\* The smaller of two numbers.
LEMMA LeastOfTwo ==
  ASSUME NEW own \in Int, NEW left \in Int, NEW least \in {own, left},
         least <= own, least <= left
  PROVE  (CHOOSE q \in {own, left} : \A p \in {own, left} : q <= p) = least
<1>1. \A q \in {own, left} : (\A p \in {own, left} : q <= p) => q = least
  OBVIOUS
<1>2. \A p \in {own, left} : least <= p
  OBVIOUS
<1> QED BY <1>1, <1>2

\* A fill is recorded as the market records it.
LEMMA FilledIs ==
  ASSUME NEW st \in OrderStates, NEW quantity \in Int
  PROVE  AfterFill(st, quantity) = M!Filled(st, quantity)
<1>1. st.original_quantity \in Int /\ st.filled_quantity \in Int
  BY DEF OrderStates
<1>2. st.original_quantity - (st.filled_quantity + quantity) = 0
        <=> M!remaining_quantity(st) = quantity
  BY <1>1 DEF M!remaining_quantity
<1> QED BY <1>2 DEF AfterFill, M!Filled

\* The tape grows by what the market sees of a trade.
LEMMA TapeGrows ==
  ASSUME trades \in Seq(Trade), NEW trade \in Trade, trades' = Append(trades, trade)
  PROVE  TapeOf(trades)' = Append(TapeOf(trades),
           [buy_order_id  |-> trade.buy_order_id,
            sell_order_id |-> trade.sell_order_id,
            price         |-> trade.price,
            quantity      |-> trade.quantity])
<1> DEFINE Seen(record) == [buy_order_id  |-> record.buy_order_id,
                            sell_order_id |-> record.sell_order_id,
                            price         |-> record.price,
                            quantity      |-> record.quantity]
<1> DEFINE S == {Seen(record) : record \in Trade}
<1>1. PICK n \in Nat : n = Len(trades) /\ DOMAIN trades = 1..n
  OBVIOUS
<1>2. /\ DOMAIN trades' = 1..(n + 1) /\ trades'[n + 1] = trade
      /\ \A i \in 1..n : trades'[i] = trades[i] /\ trades[i] \in Trade
  BY <1>1, AppendProperties
<1>3. TapeOf(trades) = [i \in 1..n |-> Seen(trades[i])]
  BY <1>1 DEF TapeOf
<1>4. TapeOf(trades)' = [i \in 1..(n + 1) |-> Seen(trades'[i])]
  BY <1>2 DEF TapeOf
<1>5. TapeOf(trades) \in Seq(S) /\ Len(TapeOf(trades)) = n
  BY <1>2, <1>3
<1>6. Seen(trade) \in S
  OBVIOUS
<1> HIDE DEF Seen, S
<1>7. PICK grown : grown = Append(TapeOf(trades), Seen(trade))
  OBVIOUS
<1>8. /\ grown \in Seq(S) /\ Len(grown) = n + 1 /\ grown[n + 1] = Seen(trade)
      /\ \A i \in 1..n : grown[i] = TapeOf(trades)[i]
  BY <1>5, <1>6, <1>7, AppendProperties
<1>9. grown = [i \in 1..(n + 1) |-> grown[i]]
  BY <1>8
<1>10. \A i \in 1..(n + 1) : grown[i] = Seen(trades'[i])
  BY <1>2, <1>3, <1>8
<1>11. TapeOf(trades)' = grown
  BY <1>4, <1>9, <1>10
<1> QED BY <1>7, <1>11 DEF Seen

\* The first trade of a call is for as many shares as both orders have left.
LEMMA FirstTradeQuantity ==
  ASSUME CoreInv, LocksHeld, Agreement, PriorityInv, NEW t \in Threads, pc[t] = "apply",
         Apply(matched[t][1]),
         NEW order, NEW c, NEW id, NEW trade, NEW x, AtFirst(t, order, c, id, trade, x),
         NEW own, own = remaining_quantity(order_states[id]),
         NEW left, left = remaining_quantity(order_states[x])
  PROVE  /\ own \in Int /\ left \in Int /\ trade.quantity \in {own, left}
         /\ trade.quantity <= own /\ trade.quantity <= left
<1>a. /\ order = incoming[t] /\ c = order.symbol /\ id = order.order_id
      /\ trade = matched[t][1] /\ x = Hit(t, 1)
  BY DEF AtFirst
<1>1. /\ own \in Int /\ left \in Int /\ trade.quantity \in Int
      /\ own - trade.quantity >= 0 /\ left - trade.quantity >= 0
      /\ order.quantity \in Int /\ 0 <= order.quantity
      /\ id \in DOMAIN order_states
  BY FirstTradeApplied
<1>2. HitsOnce(t) /\ AddsUp(t) /\ matched[t] \in Seq(PairTrade) /\ matched[t] # <<>>
  BY MatchCall DEF CoreInv, HandlerOK
<1>3. PICK n \in Nat : n = Len(matched[t]) /\ DOMAIN matched[t] = 1..n
  BY <1>2
<1>4. n > 0
  BY <1>2, <1>3
<1>5. CASE n = 1
  <2>1. order.quantity = own - trade.quantity
    BY <1>a, <1>1, <1>2, <1>3, <1>5, AddsUpTo
  <2>2. order.quantity > 0 => trade.quantity = left
    BY <1>a, <1>2, <1>3, <1>5 DEF HitsOnce
  <2> QED BY <1>1, <2>1, <2>2
<1>6. CASE n > 1
  <2>1. HitWhole(t, 1)
    BY <1>3, <1>6 DEF PriorityInv, CallInOrder
  <2>2. trade.quantity = left
    BY <1>a, <1>3, <1>6, <2>1 DEF HitWhole
  <2> QED BY <1>1, <2>2
<1> QED BY <1>4, <1>5, <1>6

\* The order that it hit had priority, and came before the call's own.
LEMMA FirstTradePriority ==
  ASSUME CoreInv, LocksHeld, Agreement, PriorityInv, NEW t \in Threads, pc[t] = "apply",
         Apply(matched[t][1]),
         NEW order, NEW c, NEW id, NEW trade, NEW x, AtFirst(t, order, c, id, trade, x)
  PROVE  /\ <<x, id>> \in ahead /\ M!HasPriority(x)
         /\ AtLeastAsGood(Opposite(order.side), order_states[x].price, order.price)
<1>a. /\ order = incoming[t] /\ c = order.symbol /\ id = order.order_id
      /\ trade = matched[t][1] /\ x = Hit(t, 1)
  BY DEF AtFirst
<1>1. matched[t] # <<>> /\ matched[t] \in Seq(Trade)
  BY DEF CoreInv, HandlerOK, TypeOK, ThreadsTypeOK
<1>2. 1 \in DOMAIN matched[t]
  BY <1>1
<1>3. LastInLine(t) /\ HitBest(t, 1)
  BY <1>2 DEF PriorityInv, CallInOrder
<1>4. /\ x \in DOMAIN order_states /\ x # id /\ order_states[x].symbol = c
      /\ Belongs(x, c, Opposite(order.side)) /\ ~is_terminal(order_states[x])
  BY FirstTradeApplied DEF IsOpen
<1>5. <<x, id>> \in ahead
  BY <1>a, <1>3, <1>4 DEF LastInLine
<1>6. M!HasPriority(x)
  <2> SUFFICES ASSUME NEW y \in M!OpenOrders(order_states[x].symbol, order_states[x].side),
                      y # x
               PROVE  Before(x, y)
    BY DEF M!HasPriority, Before, M!AtLeastAsGood, AtLeastAsGood
  <2>1. /\ y \in DOMAIN order_states /\ IsOpen(order_states[y])
        /\ Belongs(y, c, Opposite(order.side))
    BY <1>4, SameVocabulary DEF M!OpenOrders, Belongs
  <2>2. y \in Rivals(t, 1)
    BY <1>a, <2>1 DEF Rivals
  <2> QED BY <1>a, <1>3, <2>2 DEF HitBest
<1> QED BY <1>a, <1>3, <1>5, <1>6 DEF HitBest

\* A trade that is applied is a fill: the call's order takes the one it hit.
LEMMA ApplyMarket ==
  ASSUME CoreInv, LocksHeld, Agreement, PriorityInv, NEW t \in Threads, pc[t] = "apply",
         Apply(matched[t][1]), UNCHANGED ahead
  PROVE  M!Next
<1>1. PICK order, c, id, trade, x : AtFirst(t, order, c, id, trade, x)
  BY DEF AtFirst
<1>a. /\ order = incoming[t] /\ c = order.symbol /\ id = order.order_id
      /\ trade = matched[t][1] /\ x = Hit(t, 1)
  BY <1>1 DEF AtFirst
<1>2. matched[t] # <<>> /\ matched[t] \in Seq(PairTrade) /\ trades \in Seq(Trade)
  BY DEF CoreInv, HandlerOK, TypeOK, OmsTypeOK, TradesTidy
<1>3. 1 \in DOMAIN matched[t] /\ trade \in PairTrade /\ trade \in Trade
  BY <1>a, <1>2 DEF PairTrade
<1>4. /\ order.side \in Side /\ Belongs(id, c, order.side)
      /\ order_states[id].price = order.price /\ order.price \in Prices
      /\ Covered(t, 1)
  BY <1>a, <1>3, MatchCall
<1>5. /\ id \in DOMAIN order_states /\ x \in DOMAIN order_states /\ x # id
      /\ Belongs(x, c, Opposite(order.side))
      /\ IsOpen(order_states[id]) /\ IsOpen(order_states[x])
      /\ DOMAIN order_states' = DOMAIN order_states
  BY <1>1, FirstTradeApplied
<1>6. /\ order_states[id].side = order.side
      /\ order_states[x].side = Opposite(order.side)
  BY <1>4, <1>5 DEF Belongs
<1>7. /\ OwnOf(order, trade) = id /\ HitBy(order, trade) = x
      /\ trade.price = order_states[x].price
  BY <1>a, <1>4 DEF Covered, Hit
<1>8. PICK buy, sell : /\ buy = (IF order_states[id].side = "Buy" THEN id ELSE x)
                       /\ sell = (IF order_states[id].side = "Buy" THEN x ELSE id)
  OBVIOUS
<1>9. trade.buy_order_id = buy /\ trade.sell_order_id = sell
  BY <1>6, <1>7, <1>8 DEF OwnOf, HitBy
<1>10. /\ <<x, id>> \in ahead /\ M!HasPriority(x)
       /\ AtLeastAsGood(Opposite(order.side), order_states[x].price, order.price)
  BY <1>1, FirstTradePriority
<1>11. order_states[buy].price >= order_states[sell].price
  <2>1. order_states[x].price \in Int /\ order.price \in Int
    BY <1>4, <1>5, RemainingIsInt, PricesAssumption DEF OrderStates
  <2> QED BY <1>4, <1>6, <1>8, <1>10, <2>1 DEF AtLeastAsGood, Opposite, Side
<1>12. PICK own, left : /\ own = remaining_quantity(order_states[id])
                        /\ left = remaining_quantity(order_states[x])
  OBVIOUS
<1>13. PICK quantity : quantity = CHOOSE q \in {own, left} : \A p \in {own, left} : q <= p
  OBVIOUS
<1>14. quantity = trade.quantity /\ quantity \in Int
  <2>1. /\ own \in Int /\ left \in Int /\ trade.quantity \in {own, left}
        /\ trade.quantity <= own /\ trade.quantity <= left
    BY <1>1, <1>12, FirstTradeQuantity
  <2> QED BY <1>13, <2>1, LeastOfTwo
<1>15. \A y \in DOMAIN order_states :
         order_states'[y] = IF y \in {id, x} THEN M!Filled(order_states[y], quantity)
                                             ELSE order_states[y]
  <2>1. {trade.buy_order_id, trade.sell_order_id} = {id, x}
    BY <1>8, <1>9
  <2>2. \A y \in DOMAIN order_states :
          order_states'[y] = IF y \in {id, x} THEN AfterFill(order_states[y], quantity)
                                              ELSE order_states[y]
    BY <1>a, <1>3, <1>14, <2>1, ApplyKept DEF CoreInv, TypeOK
  <2>3. \A y \in {id, x} : order_states[y] \in OrderStates
    BY <1>5, RemainingIsInt
  <2> QED BY <1>14, <2>2, <2>3, FilledIs
<1>16. order_states' = [order_states EXCEPT ![id] = M!Filled(@, quantity),
                                            ![x]  = M!Filled(@, quantity)]
  <2>1. order_states' = [y \in DOMAIN order_states |-> order_states'[y]]
    BY <1>5 DEF Apply
  <2> QED BY <1>5, <1>15, <2>1
<1>17. TapeOf(trades)' = Append(TapeOf(trades), [buy_order_id  |-> buy,
                                                 sell_order_id |-> sell,
                                                 price         |-> order_states[x].price,
                                                 quantity      |-> quantity])
  <2>1. trades' = Append(trades, trade)
    BY <1>a DEF Apply
  <2> QED BY <1>2, <1>3, <1>7, <1>9, <1>14, <2>1, TapeGrows
<1>18. /\ M!IsOpen(order_states[id]) /\ M!IsOpen(order_states[x])
       /\ order_states[id].side # order_states[x].side
       /\ own = M!remaining_quantity(order_states[id])
       /\ left = M!remaining_quantity(order_states[x])
  BY <1>4, <1>5, <1>6, <1>12, SameVocabulary DEF Opposite, Side
<1>19. M!Fill(id, x)
  BY <1>8, <1>10, <1>11, <1>13, <1>16, <1>17, <1>18 DEF M!Fill
<1> QED BY <1>5, <1>19 DEF M!Next, M!FillSome

\* Every step of the exchange is a step of the market or one that it does not see.
LEMMA StepMarket ==
  ASSUME CoreInv, LocksHeld, Agreement, NoCross, PriorityInv, [Next]_vars
  PROVE  [M!Next]_(M!vars)
<1>1. CASE UNCHANGED vars
  BY <1>1, Unseen DEF vars, shared
<1>2. CASE Next
  <2>1. PICK t \in Threads : Receive(t) \/ Enter(t) \/ Continue(t)
    BY <1>2 DEF Next
  <2>2. CASE Receive(t)
    <3>1. UNCHANGED <<order_states, trades, ahead>>
      BY <2>2 DEF Receive, ReceiveOrder, ReceiveAmend, shared
    <3> QED BY <3>1, Unseen
  <2>3. CASE SubmitRejected(t) \/ SubmitAccepted(t)
    BY <2>3, SubmitRejectedMarket, SubmitAcceptedMarket
  <2>4. CASE AmendRefused(t) \/ AmendStarted(t) \/ Pull(t)
    <3>1. UNCHANGED <<order_states, trades, ahead>>
      BY <2>4 DEF AmendRefused, AmendStarted, Pull
    <3> QED BY <3>1, Unseen
  <2>5. CASE MatchOne(t) \/ MatchedNothing(t) \/ MatchedSome(t)
    <3>1. UNCHANGED <<order_states, trades, ahead>>
      BY <2>5 DEF MatchOne, MatchedNothing, MatchedSome
    <3> QED BY <3>1, Unseen
  <2>6. CASE ApplyTrade(t) \/ ApplyLastTrade(t)
    BY <2>6, ApplyMarket DEF ApplyTrade, ApplyLastTrade
  <2>7. CASE CancelDone(t) \/ ReplaceAbandoned(t)
    BY <2>7, CancelMarket DEF CancelDone, ReplaceAbandoned
  <2>8. CASE ReplaceCommitted(t)
    BY <2>8, ReplaceCommittedMarket
  <2> QED BY <2>1, <2>2, <2>3, <2>4, <2>5, <2>6, <2>7, <2>8 DEF Enter, Continue
<1> QED BY <1>1, <1>2

\* The threads, locks and books implement a market that serves one request at
\* a time per symbol in price-time priority.
THEOREM ImplementsMarketAlways ==
  ASSUME NamesOwnSymbol
  PROVE  Spec => ImplementsMarket
<1>1. IndInv => CoreInv /\ LocksHeld
  BY DEF IndInv
<1>2. IndInv /\ Agreement /\ NoCross /\ PriorityInv /\ [Next]_vars => [M!Next]_(M!vars)
  BY <1>1, StepMarket
<1> QED BY InitMarket, <1>2, IndInvAlways, AgreementAlways, NoCrossAlways, PriorityInvAlways,
        PTL DEF Spec, ImplementsMarket, M!Spec

-----------------------------------------------------------------------------
(* The calls are functions.                                                *)

\* Whatever a step of t does to its own symbol, it leaves the orders and the
\* book of another one alone.
LEMMA PartElsewhere ==
  ASSUME CoreInv, StatesKept, NEW t, NEW c, StaysIn(t, {c}), NEW r \in Symbols \ {c}
  PROVE  PartOf(r)' = PartOf(r)
<1>1. OrdersAt(r)' = OrdersAt(r)
  <2>1. ASSUME NEW x, x \in OrdersAt(r)' PROVE x \in OrdersAt(r)
    BY <2>1 DEF OrdersAt, StaysIn
  <2>2. ASSUME NEW x, x \in OrdersAt(r) PROVE x \in OrdersAt(r)'
    BY <2>2 DEF OrdersAt, StatesKept
  <2> QED BY <2>1, <2>2
<1>2. \A x \in OrdersAt(r) : order_states'[x] = order_states[x]
  BY RecordStays DEF OrdersAt
<1>3. [id \in OrdersAt(r)' |-> order_states'[id]] = [id \in OrdersAt(r) |-> order_states[id]]
  BY <1>1, <1>2
<1>4. \A u \in Registered \cap {r} : books'[u] = books[u]
  BY DEF StaysIn
<1>5. [u \in Registered \cap {r} |-> books'[u]] = [u \in Registered \cap {r} |-> books[u]]
  BY <1>4
<1> QED BY <1>3, <1>5 DEF PartOf

\* When a call's locals, its symbol's part and its book stay, so does what is
\* still to become of the part.
LEMMA ComingStays ==
  ASSUME NEW u, LocalsStay(u), NEW r, r = MessageSymbol(req[u]),
         PartOf(r)' = PartOf(r),
         pc[u] = "match" => Against(incoming[u])' = Against(incoming[u])
  PROVE  Coming(u)' = Coming(u)
<1>1. /\ pc'[u] = pc[u] /\ req'[u] = req[u] /\ snap'[u] = snap[u]
      /\ incoming'[u] = incoming[u] /\ matched'[u] = matched[u]
  BY DEF LocalsStay
<1>2. PICK part : part = PartOf(r)
  OBVIOUS
<1>3. PartOf(MessageSymbol(req[u])) = part /\ PartOf(MessageSymbol(req[u]))' = part
  BY <1>1, <1>2 DEF MessageSymbol
<1>4. FillsOf(u)' = FillsOf(u)
  BY <1>1 DEF FillsOf, Hit, HitBy
<1>5. Outcome(u)' = Outcome(u)
  BY <1>1, <1>3 DEF Outcome
<1>6. Revised(u)' = Revised(u)
  BY <1>1 DEF Revised
<1>7. Replaceable(Revised(u))' = Replaceable(Revised(u))
  BY <1>6 DEF Replaceable
<1>8. pc[u] = "match" => RunOf(u)' = RunOf(u)
  BY <1>1, <1>4 DEF RunOf
<1>9. CASE pc[u] = "match"
  <2>1. Coming(u) = Ended(part, TermsOf(incoming[u]), LoopEnd(TermsOf(incoming[u]), RunOf(u)))
    BY <1>3, <1>9 DEF Coming
  <2>2. Coming(u)' = Ended(part, TermsOf(incoming'[u]),
                           LoopEnd(TermsOf(incoming'[u]), RunOf(u)'))
    BY <1>1, <1>3, <1>9 DEF Coming
  <2> QED BY <1>1, <1>8, <1>9, <2>1, <2>2
<1>10. CASE pc[u] # "match"
  BY <1>1, <1>3, <1>4, <1>5, <1>6, <1>7, <1>10 DEF Coming, Renewed
<1> QED BY <1>9, <1>10

\* Where a step of t leaves its symbol: in the middle of a call that is on its
\* way to what was promised, or with just that.
Lands(t, c) ==
  \/ /\ pc'[t] \in InCall /\ symbol_mutexes'[c] = t
     /\ MessageSymbol(req[t])' = c /\ promised'[c] = Coming(t)'
  \/ pc'[t] \notin InCall /\ promised'[c] = PartOf(c)'

\* It is all that has to be shown of the step.
LEMMA CallsStep ==
  ASSUME CoreInv, LocksHeld, Agreement, CallsInv, NEW t \in Threads,
         Enter(t) \/ Continue(t), NEW c, c = MessageSymbol(req[t]),
         NEW given,
         promised' = promised \/ promised' = [promised EXCEPT ![c] = given],
         Lands(t, c)
  PROVE  CallsInv'
<1>1. c \in Symbols /\ StatesKept /\ StaysIn(t, {c})
  BY StepStays
<1>2. /\ promised' = [s \in Symbols |-> promised'[s]]
      /\ \A r \in Symbols \ {c} : promised'[r] = promised[r]
  <2>1. promised = [s \in Symbols |-> promised[s]]
    BY DEF CallsInv
  <2> QED BY <1>1, <2>1
<1>3. \A r \in Symbols \ {c} : PartOf(r)' = PartOf(r)
  BY <1>1, PartElsewhere
<1>4. t # NoThread
  BY ThreadsAssumption
<1>5. CallsAreFunctions'
  <2> SUFFICES ASSUME NEW r \in Symbols, symbol_mutexes'[r] = NoThread
               PROVE  promised'[r] = PartOf(r)'
    BY DEF CallsAreFunctions
  <2>1. CASE r = c
    BY <1>4, <2>1 DEF Lands
  <2>2. CASE r # c
    <3>1. symbol_mutexes[r] = NoThread
      BY <1>1, <2>2 DEF StaysIn
    <3>2. promised[r] = PartOf(r)
      BY <3>1 DEF CallsInv, CallsAreFunctions
    <3> QED BY <1>2, <1>3, <2>2, <3>2
  <2> QED BY <2>1, <2>2
<1>6. ASSUME NEW u \in Threads, pc'[u] \in InCall
      PROVE  promised'[MessageSymbol(req[u])'] = Coming(u)'
  <2>1. CASE u = t
    BY <1>6, <2>1 DEF Lands
  <2>2. CASE u # t
    <3>1. LocalsStay(u)
      BY <1>1, <2>2 DEF StaysIn
    <3>2. pc[u] \in InCall /\ MessageSymbol(req[u])' = MessageSymbol(req[u])
      BY <1>6, <3>1 DEF LocalsStay, MessageSymbol
    <3>3. PICK r : r = MessageSymbol(req[u])
      OBVIOUS
    <3>4. r \in Symbols \ {c}
      BY <1>1, <2>2, <3>2, <3>3, WorksElsewhere
    <3>5. promised'[r] = Coming(u) /\ PartOf(r)' = PartOf(r)
      BY <1>2, <1>3, <3>2, <3>3, <3>4 DEF CallsInv
    <3>6. pc[u] = "match" => Against(incoming[u])' = Against(incoming[u])
      <4> SUFFICES ASSUME pc[u] = "match" PROVE Against(incoming[u])' = Against(incoming[u])
        OBVIOUS
      <4>1. incoming[u].symbol = r /\ r \in Registered
        BY <3>2, <3>3 DEF LocksHeld, LockHeld, CoreInv, HandlerOK
      <4>2. books'[r] = books[r]
        BY <1>1, <3>4, <4>1 DEF StaysIn
      <4> QED BY <3>1, <4>1, <4>2 DEF Against, LocalsStay
    <3>7. Coming(u)' = Coming(u)
      BY <3>1, <3>3, <3>5, <3>6, ComingStays
    <3> QED BY <3>2, <3>3, <3>5, <3>7
  <2> QED BY <2>1, <2>2
<1> QED BY <1>2, <1>5, <1>6 DEF CallsInv

\* A message that arrives changes nothing that was promised.
LEMMA ReceiveCalls ==
  ASSUME CoreInv, CallsInv, NEW t \in Threads, Receive(t), UNCHANGED promised
  PROVE  CallsInv'
<1>1. /\ UNCHANGED <<symbol_mutexes, order_states, books, promised>>
      /\ pc'[t] \notin InCall
      /\ \A u \in Threads \ {t} : LocalsStay(u)
  BY DEF Receive, ReceiveOrder, ReceiveAmend, Goto, LocalsStay, shared, InCall,
         CoreInv, TypeOK, ThreadsTypeOK
<1>2. \A r : PartOf(r)' = PartOf(r)
  BY <1>1 DEF PartOf, OrdersAt
<1>3. CallsAreFunctions'
  BY <1>1, <1>2 DEF CallsInv, CallsAreFunctions
<1>4. ASSUME NEW u \in Threads, pc'[u] \in InCall
      PROVE  promised'[MessageSymbol(req[u])'] = Coming(u)'
  <2>1. LocalsStay(u)
    BY <1>1, <1>4
  <2>2. pc[u] \in InCall /\ MessageSymbol(req[u])' = MessageSymbol(req[u])
    BY <1>4, <2>1 DEF LocalsStay, MessageSymbol
  <2>3. Against(incoming[u])' = Against(incoming[u])
    BY <1>1, <2>1 DEF Against, LocalsStay
  <2>4. Coming(u)' = Coming(u)
    BY <1>2, <2>1, <2>3, ComingStays
  <2> QED BY <1>1, <2>2, <2>4 DEF CallsInv
<1>5. promised' = [s \in Symbols |-> promised'[s]]
  BY <1>1 DEF CallsInv
<1> QED BY <1>3, <1>4, <1>5 DEF CallsInv

\* Nor does a step that changes nothing.
LEMMA StutterCalls ==
  ASSUME CallsInv, UNCHANGED <<vars, promised>>
  PROVE  CallsInv'
<1>1. UNCHANGED <<symbol_mutexes, order_states, books, pc, req, snap, incoming, matched, promised>>
  BY DEF vars, shared, locals
<1>2. \A r : PartOf(r)' = PartOf(r)
  BY <1>1 DEF PartOf, OrdersAt
<1>3. CallsAreFunctions'
  BY <1>1, <1>2 DEF CallsInv, CallsAreFunctions
<1>4. ASSUME NEW u \in Threads, pc'[u] \in InCall
      PROVE  promised'[MessageSymbol(req[u])'] = Coming(u)'
  <2>1. LocalsStay(u)
    BY <1>1 DEF LocalsStay
  <2>2. pc[u] \in InCall /\ MessageSymbol(req[u])' = MessageSymbol(req[u])
    BY <1>4, <2>1 DEF LocalsStay, MessageSymbol
  <2>3. Against(incoming[u])' = Against(incoming[u])
    BY <1>1 DEF Against
  <2>4. Coming(u)' = Coming(u)
    BY <1>2, <2>1, <2>3, ComingStays
  <2> QED BY <1>1, <2>2, <2>4 DEF CallsInv
<1>5. promised' = [s \in Symbols |-> promised'[s]]
  BY <1>1 DEF CallsInv
<1> QED BY <1>3, <1>4, <1>5 DEF CallsInv

-----------------------------------------------------------------------------
(* A symbol's part as the functions of Matching see it.                    *)

\* A symbol's part, its orders' records and its book.
PartIs(part, c, old, bks) ==
  /\ part = [order_states |-> old, books |-> bks]
  /\ DOMAIN old = OrdersAt(c) /\ old \in [OrdersAt(c) -> OrderStates]
  /\ \A x \in OrdersAt(c) : old[x] = order_states[x]
  /\ bks = [u \in Registered \cap {c} |-> books[u]]

\* A symbol's part holds its orders, as the OMS has them, and its book.
LEMMA PartHolds ==
  ASSUME CoreInv, NEW c \in Symbols, NEW part, part = PartOf(c)
  PROVE  PartIs(part, c, part.order_states, part.books)
<1>1. \A x \in OrdersAt(c) : order_states[x] \in OrderStates
  BY DEF OrdersAt, CoreInv, TypeOK, OmsTypeOK
<1> QED BY <1>1 DEF PartOf, PartIs

\* The three updates of a record of orders and books, in full.
LEMMA WithStateIs ==
  ASSUME NEW old, NEW bks, NEW id, NEW st
  PROVE  WithState([order_states |-> old, books |-> bks], id, st)
           = [order_states |-> [x \in DOMAIN old \cup {id} |-> IF x = id THEN st ELSE old[x]],
              books |-> bks]
<1> DEFINE ex == [order_states |-> old, books |-> bks]
<1> DEFINE upd == [x \in DOMAIN old \cup {id} |-> IF x = id THEN st ELSE old[x]]
<1>1. ex.order_states = old
  OBVIOUS
<1>2. WithState(ex, id, st) = [ex EXCEPT !.order_states = upd]
  BY <1>1, Zenon DEF WithState
<1> HIDE DEF upd
<1>3. [ex EXCEPT !.order_states = upd] = [order_states |-> upd, books |-> bks]
  OBVIOUS
<1> QED BY <1>2, <1>3 DEF upd

\* The same of an order that is marked cancelled.
LEMMA MarkedIs ==
  ASSUME NEW old, NEW bks, NEW id
  PROVE  Marked([order_states |-> old, books |-> bks], id)
           = [order_states |-> [old EXCEPT ![id].order_status = "Cancelled"], books |-> bks]
<1> DEFINE ex == [order_states |-> old, books |-> bks]
<1> DEFINE upd == [old EXCEPT ![id].order_status = "Cancelled"]
<1>1. ex.order_states = old
  OBVIOUS
<1>2. Marked(ex, id) = [ex EXCEPT !.order_states = upd]
  BY <1>1, Zenon DEF Marked
<1> HIDE DEF upd
<1>3. [ex EXCEPT !.order_states = upd] = [order_states |-> upd, books |-> bks]
  OBVIOUS
<1> QED BY <1>2, <1>3 DEF upd

\* The books of Pulled.
PulledBooks(bks, st, id) ==
  [bks EXCEPT ![st.symbol][st.side] = CancelFromLevel(@, st.price, id)]

\* The same of an order that is taken off its book.
LEMMA PulledIs ==
  ASSUME NEW old, NEW bks, NEW id, NEW st, st = old[id]
  PROVE  Pulled([order_states |-> old, books |-> bks], id)
           = [order_states |-> old, books |-> PulledBooks(bks, st, id)]
<1> DEFINE ex == [order_states |-> old, books |-> bks]
<1>1. ex.order_states = old /\ ex.books = bks
  OBVIOUS
<1>2. Pulled(ex, id) = [ex EXCEPT !.books = PulledBooks(bks, st, id)]
  BY <1>1, Zenon DEF Pulled, PulledBooks
<1>3. [ex EXCEPT !.books = PulledBooks(bks, st, id)] = [order_states |-> old, books |-> PulledBooks(bks, st, id)]
  OBVIOUS
<1> QED BY <1>2, <1>3

\* The record of one order is written, and no book moves.
LEMMA PartWith ==
  ASSUME CoreInv, NEW c \in Symbols, NEW part, part = PartOf(c), NEW id, NEW st,
         id \in DOMAIN order_states => order_states[id].symbol = c,
         st.symbol = c,
         DOMAIN order_states' = DOMAIN order_states \cup {id},
         order_states'[id] = st,
         \A x \in DOMAIN order_states : x # id => order_states'[x] = order_states[x],
         UNCHANGED books
  PROVE  PartOf(c)' = WithState(part, id, st)
<1>1. OrdersAt(c)' = OrdersAt(c) \cup {id}
  <2>1. ASSUME NEW x, x \in OrdersAt(c)' PROVE x \in OrdersAt(c) \cup {id}
    BY <2>1 DEF OrdersAt
  <2>2. ASSUME NEW x, x \in OrdersAt(c) \cup {id} PROVE x \in OrdersAt(c)'
    BY <2>2 DEF OrdersAt
  <2> QED BY <2>1, <2>2
<1>2. PICK old, bks : PartIs(part, c, old, bks)
  BY PartHolds
<1>3. /\ part = [order_states |-> old, books |-> bks]
      /\ DOMAIN old = OrdersAt(c)
      /\ \A x \in OrdersAt(c) : old[x] = order_states[x]
      /\ bks = [u \in Registered \cap {c} |-> books[u]]
  BY <1>2 DEF PartIs
<1>4. \A x \in OrdersAt(c) : x \in DOMAIN order_states
  BY DEF OrdersAt
<1>5. [x \in OrdersAt(c)' |-> order_states'[x]]
        = [x \in DOMAIN old \cup {id} |-> IF x = id THEN st ELSE old[x]]
  BY <1>1, <1>3, <1>4
<1>6. PartOf(c)' = [order_states |-> [x \in DOMAIN old \cup {id} |->
                                        IF x = id THEN st ELSE old[x]],
                    books |-> bks]
  BY <1>3, <1>5 DEF PartOf
<1>7. WithState(part, id, st)
        = [order_states |-> [x \in DOMAIN old \cup {id} |-> IF x = id THEN st ELSE old[x]],
           books |-> bks]
  <2>1. part = [order_states |-> old, books |-> bks]
    BY <1>3
  <2> QED BY <2>1, WithStateIs
<1> QED BY <1>6, <1>7

\* An order of the symbol is marked cancelled.
LEMMA PartMarked ==
  ASSUME CoreInv, NEW c \in Symbols, NEW part, part = PartOf(c),
         NEW id \in DOMAIN order_states, order_states[id].symbol = c,
         MarkCancelled(id), UNCHANGED books
  PROVE  PartOf(c)' = Marked(part, id)
<1>1. PICK st : st = [order_states[id] EXCEPT !.order_status = "Cancelled"]
  OBVIOUS
<1>2. order_states[id] \in OrderStates
  BY DEF CoreInv, TypeOK, OmsTypeOK
<1>3. st.symbol = c
  BY <1>1, <1>2 DEF OrderStates
<1>4. order_states' = [order_states EXCEPT ![id] = st]
  BY <1>1, Zenon DEF MarkCancelled
<1>5. /\ DOMAIN order_states' = DOMAIN order_states \cup {id}
      /\ order_states'[id] = st
      /\ \A x \in DOMAIN order_states : x # id => order_states'[x] = order_states[x]
  BY <1>4
<1>6. PartOf(c)' = WithState(part, id, st)
  BY <1>3, <1>5, PartWith
<1>7. PICK old, bks : PartIs(part, c, old, bks)
  BY PartHolds
<1>8. id \in OrdersAt(c)
  BY DEF OrdersAt
<1>9. /\ part = [order_states |-> old, books |-> bks]
      /\ DOMAIN old = OrdersAt(c) /\ old[id] = order_states[id]
  BY <1>7, <1>8 DEF PartIs
<1>10. [x \in DOMAIN old \cup {id} |-> IF x = id THEN st ELSE old[x]]
         = [old EXCEPT ![id].order_status = "Cancelled"]
  <2>1. DOMAIN old \cup {id} = DOMAIN old
    BY <1>8, <1>9
  <2>2. st = [old[id] EXCEPT !.order_status = "Cancelled"]
    BY <1>1, <1>9
  <2>3. [old EXCEPT ![id].order_status = "Cancelled"]
          = [x \in DOMAIN old |-> IF x = id THEN st ELSE old[x]]
    BY <2>2
  <2> QED BY <2>1, <2>3
<1>11. part = [order_states |-> old, books |-> bks]
  BY <1>9
<1>12. WithState(part, id, st) = Marked(part, id)
  <2>1. WithState(part, id, st)
          = [order_states |-> [x \in DOMAIN old \cup {id} |-> IF x = id THEN st ELSE old[x]],
             books |-> bks]
    BY <1>11, WithStateIs
  <2>2. Marked(part, id)
          = [order_states |-> [old EXCEPT ![id].order_status = "Cancelled"], books |-> bks]
    BY <1>11, MarkedIs
  <2> QED BY <1>10, <2>1, <2>2
<1> QED BY <1>6, <1>12

\* An order is taken off the book of symbol c.
TakesOff(c, st, id) ==
  books' = [books EXCEPT ![c][st.side] = CancelFromLevel(@, st.price, id)]

\* A symbol's part without the order on its book.
LEMMA PartPulled ==
  ASSUME CoreInv, NEW c \in Registered, c \in Symbols, NEW part, part = PartOf(c),
         NEW id \in DOMAIN order_states, NEW st, st = order_states[id],
         st.symbol = c, st.side \in Side,
         TakesOff(c, st, id),
         UNCHANGED order_states
  PROVE  PartOf(c)' = Pulled(part, id)
<1>1. PICK old, bks : PartIs(part, c, old, bks)
  BY PartHolds
<1>2. id \in OrdersAt(c)
  BY DEF OrdersAt
<1>3. /\ part = [order_states |-> old, books |-> bks]
      /\ old[id] = st
      /\ bks = [u \in Registered \cap {c} |-> books[u]]
  BY <1>1, <1>2 DEF PartIs
<1>4. Registered \cap {c} = {c}
  OBVIOUS
<1>5. PICK new : new = [books[c] EXCEPT ![st.side] = CancelFromLevel(@, st.price, id)]
  OBVIOUS
<1>6. DOMAIN books = Registered
  BY DEF CoreInv, TypeOK, BooksTypeOK
<1>7. books'[c] = new
  BY <1>5, <1>6 DEF TakesOff
<1>8. PartOf(c)' = [order_states |-> old, books |-> [u \in {c} |-> new]]
  <2>1. OrdersAt(c)' = OrdersAt(c)
    BY DEF OrdersAt
  <2>3. old = [x \in OrdersAt(c)' |-> order_states'[x]]
    BY <1>1, <2>1 DEF PartIs
  <2>2. [u \in Registered \cap {c} |-> books'[u]] = [u \in {c} |-> new]
    BY <1>4, <1>7
  <2> QED BY <2>2, <2>3 DEF PartOf
<1>9. PulledBooks(bks, st, id) = [u \in {c} |-> new]
  <2>1. bks = [u \in {c} |-> books[c]]
    BY <1>3, <1>4
  <2> QED BY <1>5, <2>1 DEF PulledBooks
<1>10. Pulled(part, id) = [order_states |-> old, books |-> PulledBooks(bks, st, id)]
  BY <1>3, PulledIs
<1> QED BY <1>8, <1>9, <1>10

\* The books of a part of one symbol, and what it becomes when match_orders ends.
OneBook(c, book) == [u \in {c} |-> book]

EndedWith(states, c, book, order, run) ==
  [order_states |-> Applied(states, order.order_id, run.fills),
   books        |-> OneBook(c, AfterMatch(book, order, run))]

\* Ended, of a symbol's part.
LEMMA PartEnded ==
  ASSUME NEW c, NEW part, NEW book, part.books = OneBook(c, book),
         NEW order, order.symbol = c, NEW run
  PROVE  Ended(part, order, run) = EndedWith(part.order_states, c, book, order, run)
<1>1. [part.books EXCEPT ![c] = AfterMatch(@, order, run)]
        = OneBook(c, AfterMatch(book, order, run))
  BY DEF OneBook
<1> QED BY <1>1 DEF Ended, EndedWith

\* The book of a part.
LEMMA PartBook ==
  ASSUME NEW c \in Registered, NEW part, part = PartOf(c)
  PROVE  part.books = OneBook(c, books[c])
<1>1. Registered \cap {c} = {c}
  OBVIOUS
<1>2. [u \in Registered \cap {c} |-> books[u]] = [u \in {c} |-> books[c]]
  BY <1>1
<1> QED BY <1>2 DEF PartOf, OneBook

-----------------------------------------------------------------------------
(* match_orders on its way, as a run.                                      *)

\* Whatever rests has shares.
LEMMA SharesRest ==
  ASSUME CoreInv, Agreement, NEW s \in Registered, NEW sd \in Side
  PROVE  Tidy(books[s][sd], EntriesOf(OrderId))
<1>1. PICK levels : levels = books[s][sd]
  OBVIOUS
<1>2. Tidy(levels, Booked(s, sd)) /\ Holds(levels, Content(s, sd))
  BY <1>1 DEF CoreInv, BooksTidy, Agreement, BooksHold
<1>3. ASSUME NEW p \in DOMAIN levels, NEW i \in DOMAIN levels[p]
      PROVE  levels[p][i] \in EntriesOf(OrderId)
  <2>1. PICK e : e = levels[p][i]
    OBVIOUS
  <2>2. e \in Entry
    <3>1. levels[p] \in Seq(Booked(s, sd))
      BY <1>2 DEF Tidy
    <3>2. levels[p][i] \in Booked(s, sd)
      BY <3>1
    <3> QED BY <2>1, <3>2 DEF Booked
  <2>3. e.order_id \in RestingOn(s, sd) /\ Content(s, sd)[e.order_id] = <<p, e.quantity>>
    BY <1>2, <2>1 DEF Holds, Content
  <2>4. Resting(e.order_id) = e.quantity /\ Resting(e.order_id) > 0
    BY <2>3 DEF Content, RestingOn
  <2> QED BY <2>1, <2>2, <2>4 DEF Entry, EntriesOf, Shares
<1>4. ASSUME NEW p \in DOMAIN levels PROVE levels[p] \in Seq(EntriesOf(OrderId))
  <2>1. levels[p] \in Seq(Booked(s, sd))
    BY <1>2 DEF Tidy
  <2> QED BY <1>3, <2>1
<1> QED BY <1>1, <1>2, <1>4 DEF Tidy

\* The fills of a call, one by one.
LEMMA FillsSound ==
  ASSUME CoreInv, LocksHeld, Agreement, NEW t \in Threads, pc[t] \in {"match", "apply"}
  PROVE  /\ FillsOf(t) \in Seq(FillsFrom(OrderId))
         /\ Len(FillsOf(t)) = Len(matched[t])
<1>1. matched[t] \in Seq(PairTrade) /\ \A i \in DOMAIN matched[t] : Covered(t, i)
  BY MatchCall
<1>2. PICK n \in Nat : n = Len(matched[t]) /\ DOMAIN matched[t] = 1..n
  BY <1>1
<1>3. ASSUME NEW i \in 1..n
      PROVE  [order_id |-> Hit(t, i), quantity |-> matched[t][i].quantity,
              price    |-> matched[t][i].price] \in FillsFrom(OrderId)
  <2>1. i \in DOMAIN matched[t] /\ Covered(t, i)
    BY <1>1, <1>2
  <2>2. matched[t][i] \in Trade /\ Hit(t, i) \in DOMAIN order_states
    BY <2>1, HitsOnSymbol
  <2>3. Hit(t, i) \in OrderId
    BY <2>2 DEF CoreInv, TypeOK, OmsTypeOK, OrderId
  <2>4. /\ matched[t][i].quantity \in Int /\ matched[t][i].price \in Prices
        /\ 0 < matched[t][i].quantity
    BY <2>1, <2>2 DEF Covered, Trade
  <2> QED BY <2>3, <2>4 DEF FillsFrom, Shares
<1>4. FillsOf(t) = [i \in 1..n |->
                      [order_id |-> Hit(t, i), quantity |-> matched[t][i].quantity,
                       price    |-> matched[t][i].price]]
  BY <1>2 DEF FillsOf
<1> QED BY <1>2, <1>3, <1>4

\* Where the loop is.
LEMMA RunSound ==
  ASSUME CoreInv, LocksHeld, Agreement, NEW t \in Threads, pc[t] = "match"
  PROVE  RunOf(t) \in RunsOf(OrderId)
<1>1. /\ incoming[t].quantity \in Int /\ incoming[t].side \in Side
      /\ incoming[t].symbol \in Registered
  BY MatchCall
<1>2. Opposite(incoming[t].side) \in Side
  BY <1>1 DEF Opposite, Side
<1>3. Against(incoming[t]) \in SidesOf(OrderId)
  BY <1>1, <1>2, SharesRest, SideIsTidy DEF Against
<1>4. FillsOf(t) \in Seq(FillsFrom(OrderId))
  BY FillsSound
<1> QED BY <1>1, <1>3, <1>4 DEF RunOf, RunsOf

\* The loop goes on in the one as in the other.
LEMMA GoesOnToo ==
  ASSUME NEW t
  PROVE  CanMatch(incoming[t]) <=> GoesOn(TermsOf(incoming[t]), RunOf(t))
BY DEF CanMatch, GoesOn, BestFor, TermsOf, RunOf

\* A trade that is made is one more fill.
LEMMA FillsGrow ==
  ASSUME NEW t, matched[t] \in Seq(PairTrade), FillsOf(t) \in Seq(FillsFrom(OrderId)),
         NEW trade, matched'[t] = Append(matched[t], trade),
         incoming'[t].side = incoming[t].side,
         NEW fill \in FillsFrom(OrderId),
         fill = [order_id |-> HitBy(incoming[t], trade), quantity |-> trade.quantity,
                 price    |-> trade.price]
  PROVE  FillsOf(t)' = Append(FillsOf(t), fill)
<1> DEFINE Seen(record) == [order_id |-> HitBy(incoming[t], record),
                            quantity |-> record.quantity, price |-> record.price]
<1>1. PICK n \in Nat : n = Len(matched[t]) /\ DOMAIN matched[t] = 1..n
  OBVIOUS
<1>2. /\ DOMAIN matched'[t] = 1..(n + 1) /\ matched'[t][n + 1] = trade
      /\ \A i \in 1..n : matched'[t][i] = matched[t][i]
  <2>1. PICK q, p : q = matched[t] /\ p = matched'[t]
    OBVIOUS
  <2>2. q \in Seq(PairTrade) /\ Len(q) = n /\ p = Append(q, trade)
    BY <1>1, <2>1
  <2>3. /\ DOMAIN p = 1..(n + 1) /\ p[n + 1] = trade
        /\ \A i \in 1..n : p[i] = q[i]
    BY <2>2
  <2> QED BY <2>1, <2>3
<1>3. FillsOf(t) = [i \in 1..n |-> Seen(matched[t][i])]
  BY <1>1 DEF FillsOf, Hit
<1>4. \A i : Hit(t, i)' = HitBy(incoming[t], matched'[t][i])
  BY DEF Hit, HitBy
<1>5. FillsOf(t)' = [i \in 1..(n + 1) |-> Seen(matched'[t][i])]
  BY <1>2, <1>4 DEF FillsOf
<1>6. Len(FillsOf(t)) = n
  BY <1>3
<1>7. Seen(trade) = fill
  OBVIOUS
<1> HIDE DEF Seen
<1>8. PICK grown : grown = Append(FillsOf(t), fill)
  OBVIOUS
<1>9. /\ grown \in Seq(FillsFrom(OrderId)) /\ Len(grown) = n + 1 /\ grown[n + 1] = fill
      /\ \A i \in 1..n : grown[i] = FillsOf(t)[i]
  BY <1>6, <1>8, AppendProperties
<1>10. grown = [i \in 1..(n + 1) |-> grown[i]]
  BY <1>9
<1>11. \A i \in 1..(n + 1) : grown[i] = Seen(matched'[t][i])
  BY <1>2, <1>3, <1>7, <1>9
<1> QED BY <1>5, <1>8, <1>10, <1>11

\* A trade that is applied is the first fill.
LEMMA FillsShrink ==
  ASSUME NEW t, matched[t] \in Seq(PairTrade), matched[t] # <<>>,
         FillsOf(t) \in Seq(FillsFrom(OrderId)),
         matched'[t] = Tail(matched[t]), UNCHANGED incoming
  PROVE  FillsOf(t)' = Tail(FillsOf(t))
<1> DEFINE Seen(record) == [order_id |-> HitBy(incoming[t], record),
                            quantity |-> record.quantity, price |-> record.price]
<1>1. PICK n \in Nat : n = Len(matched[t]) /\ DOMAIN matched[t] = 1..n
  OBVIOUS
<1>2. n > 0
  BY <1>1
<1>3. /\ DOMAIN matched'[t] = 1..(n - 1)
      /\ \A i \in 1..(n - 1) : matched'[t][i] = matched[t][i + 1]
  <2>1. PICK q, p : q = matched[t] /\ p = matched'[t]
    OBVIOUS
  <2>2. q \in Seq(PairTrade) /\ Len(q) = n /\ p = Tail(q) /\ q # <<>>
    BY <1>1, <2>1
  <2>3. DOMAIN p = 1..(n - 1) /\ \A i \in 1..(n - 1) : p[i] = q[i + 1]
    BY <1>2, <2>2
  <2> QED BY <2>1, <2>3
<1>4. FillsOf(t) = [i \in 1..n |-> Seen(matched[t][i])]
  BY <1>1 DEF FillsOf, Hit
<1>5. \A i : Hit(t, i)' = HitBy(incoming[t], matched'[t][i])
  BY DEF Hit, HitBy
<1>6. FillsOf(t)' = [i \in 1..(n - 1) |-> Seen(matched'[t][i])]
  BY <1>3, <1>5 DEF FillsOf
<1>7. Len(FillsOf(t)) = n
  BY <1>4
<1> HIDE DEF Seen
<1>8. PICK fills, rest : fills = FillsOf(t) /\ rest = Tail(FillsOf(t))
  OBVIOUS
<1>9. /\ rest \in Seq(FillsFrom(OrderId)) /\ Len(rest) = n - 1
      /\ \A i \in 1..(n - 1) : rest[i] = fills[i + 1]
  BY <1>2, <1>7, <1>8
<1>10. rest = [i \in 1..(n - 1) |-> rest[i]]
  BY <1>9
<1>11. \A i \in 1..(n - 1) : rest[i] = Seen(matched'[t][i])
  BY <1>2, <1>3, <1>4, <1>8, <1>9
<1> QED BY <1>6, <1>8, <1>10, <1>11

\* One iteration of match_orders is one turn.
LEMMA MatchOneTurns ==
  ASSUME CoreInv, LocksHeld, Agreement, NEW t \in Threads, MatchOne(t),
         NEW order, order = incoming[t]
  PROVE  /\ TermsOf(incoming[t])' = TermsOf(order)
         /\ RunOf(t)' = Turn(TermsOf(order), RunOf(t))
<1>1. PICK c, side, levels, best, front :
        /\ c = order.symbol /\ side = Opposite(order.side)
        /\ levels = Against(order) /\ best = Best(side, levels)
        /\ front = levels[best][1]
  OBVIOUS
<1>2. PICK traded, x : traded = Lesser(order.quantity, front.quantity) /\ x = front.order_id
  OBVIOUS
<1>3. /\ pc[t] = "match" /\ CanMatch(order)
      /\ matched' = [matched EXCEPT ![t] = Append(@, NewTrade(order, x, best, traded))]
      /\ incoming' = [incoming EXCEPT ![t].quantity = @ - traded]
      /\ books' = [books EXCEPT ![c][side] = TakeFront(@, best, traded)]
  BY <1>1, <1>2 DEF MatchOne, Lesser
<1>4. /\ order \in Order /\ order.quantity \in Int /\ order.side \in Side /\ c \in Registered
      /\ matched[t] \in Seq(PairTrade)
  BY <1>1, <1>3, MatchCall
<1>5. RunOf(t) \in RunsOf(OrderId) /\ FillsOf(t) \in Seq(FillsFrom(OrderId))
  BY <1>3, RunSound, FillsSound
<1>6. GoesOn(TermsOf(order), RunOf(t))
  BY <1>3, GoesOnToo
<1>7. /\ levels = books[c][side] /\ side \in Side /\ side # order.side
  BY <1>1, <1>4 DEF Against, Opposite, Side
<1>8. PICK run, terms : run = RunOf(t) /\ terms = TermsOf(order)
  OBVIOUS
<1>9. /\ run.levels = levels /\ run.left = order.quantity /\ run.fills = FillsOf(t)
      /\ terms.side = order.side /\ BestFor(terms, run) = best
  BY <1>1, <1>8 DEF RunOf, TermsOf, BestFor
<1>10. PICK trade, fill : /\ trade = NewTrade(order, x, best, traded)
                          /\ fill = [order_id |-> x, quantity |-> traded, price |-> best]
  OBVIOUS
<1>11. Turn(terms, run) = [levels |-> TakeFront(levels, best, traded),
                           left   |-> order.quantity - traded,
                           fills  |-> Append(FillsOf(t), fill)]
  BY <1>1, <1>2, <1>9, <1>10, Zenon DEF Turn
<1>12. /\ incoming[t] = [order_id |-> order.order_id, symbol |-> order.symbol,
                         side |-> order.side, price |-> order.price,
                         quantity |-> order.quantity]
       /\ incoming'[t] = [order EXCEPT !.quantity = @ - traded]
  <2>1. DOMAIN incoming = Threads
    BY DEF CoreInv, TypeOK, ThreadsTypeOK
  <2> QED BY <1>3, <1>4, <2>1 DEF Order
<1>13. incoming'[t] = [order_id |-> order.order_id, symbol |-> order.symbol,
                       side |-> order.side, price |-> order.price,
                       quantity |-> order.quantity - traded]
  BY <1>12
<1>14. TermsOf(incoming[t])' = TermsOf(order)
  BY <1>13 DEF TermsOf
<1>15. matched'[t] = Append(matched[t], trade)
  <2>1. DOMAIN matched = Threads
    BY DEF CoreInv, TypeOK, ThreadsTypeOK
  <2> QED BY <1>3, <1>10, <2>1
<1>16. HitBy(order, trade) = x /\ trade.quantity = traded /\ trade.price = best
  BY <1>4, <1>10 DEF HitBy, NewTrade, Side
<1>17. fill \in FillsFrom(OrderId)
  <2>1. Turn(terms, run) \in RunsOf(OrderId)
    <3>1. terms.side \in Side
      BY <1>4, <1>9
    <3> QED BY <1>5, <1>6, <1>8, <3>1, TurnOK
  <2>2. PICK fills : fills = Append(FillsOf(t), fill)
    OBVIOUS
  <2>3. fills \in Seq(FillsFrom(OrderId))
    BY <1>11, <2>1, <2>2 DEF RunsOf
  <2>4. PICK n \in Nat : n = Len(FillsOf(t))
    BY <1>5
  <2>5. fills[n + 1] = fill /\ n + 1 \in DOMAIN fills
    BY <1>5, <2>2, <2>4
  <2> QED BY <2>3, <2>5
<1>18. FillsOf(t)' = Append(FillsOf(t), fill)
  <2>1. incoming'[t].side = incoming[t].side
    BY <1>12, <1>13
  <2>2. fill = [order_id |-> HitBy(incoming[t], trade), quantity |-> trade.quantity,
                price |-> trade.price]
    BY <1>10, <1>16
  <2> QED BY <1>4, <1>5, <1>15, <1>17, <2>1, <2>2, FillsGrow
<1>19. Against(incoming[t])' = TakeFront(levels, best, traded)
  <2>1. books'[c][side] = TakeFront(books[c][side], best, traded)
    BY <1>3, <1>4, <1>7 DEF CoreInv, TypeOK, BooksTypeOK
  <2>2. incoming'[t].symbol = c /\ incoming'[t].side = order.side
    BY <1>1, <1>13
  <2> QED BY <1>1, <1>7, <2>1, <2>2 DEF Against
<1>20. RunOf(t)' = [levels |-> TakeFront(levels, best, traded),
                    left   |-> order.quantity - traded,
                    fills  |-> Append(FillsOf(t), fill)]
  <2>1. incoming'[t].quantity = order.quantity - traded
    BY <1>13
  <2> QED BY <1>18, <1>19, <2>1, Zenon DEF RunOf
<1> QED BY <1>8, <1>11, <1>14, <1>20

\* What process_order does when the loop has ended.
LEMMA RemainderIs ==
  ASSUME CoreInv, LocksHeld, Agreement, NEW t \in Threads, pc[t] = "match",
         NEW order, order = incoming[t], NEW c, c = order.symbol, RestRemainder(order)
  PROVE  books'[c] = AfterMatch(books[c], TermsOf(order), RunOf(t))
<1>1. order.side \in Side /\ c \in Registered
  BY MatchCall
<1>2. PICK book, run, terms, side :
        book = books[c] /\ run = RunOf(t) /\ terms = TermsOf(order) /\ side = order.side
  OBVIOUS
<1>3. /\ run.levels = book[Opposite(side)] /\ run.left = order.quantity
      /\ terms.side = side /\ terms.price = order.price
      /\ terms.order_id = order.order_id
  BY <1>2 DEF RunOf, Against, TermsOf
<1>4. DOMAIN books = Registered /\ book = [sd \in Side |-> book[sd]]
  BY <1>1, <1>2 DEF CoreInv, TypeOK, BooksTypeOK
<1>5. [book EXCEPT ![Opposite(side)] = book[Opposite(side)]] = book
  BY <1>4
<1>6. PICK rested : rested = Rest(book[side], order.price,
                                  [order_id |-> order.order_id, quantity |-> order.quantity])
  OBVIOUS
<1>7. AfterMatch(book, terms, run)
        = IF order.quantity > 0 THEN [book EXCEPT ![side] = rested] ELSE book
  BY <1>3, <1>5, <1>6 DEF AfterMatch
<1>8. books'[c] = IF order.quantity > 0 THEN [book EXCEPT ![side] = rested] ELSE book
  <2>1. CASE order.quantity > 0
    <3>1. books' = [books EXCEPT ![c][side] = rested]
      BY <1>2, <1>6, <2>1 DEF RestRemainder
    <3>2. books'[c] = [book EXCEPT ![side] = rested]
      BY <1>1, <1>2, <1>4, <3>1
    <3> QED BY <2>1, <3>2
  <2>2. CASE ~(order.quantity > 0)
    BY <1>2, <2>2 DEF RestRemainder
  <2> QED BY <2>1, <2>2
<1> QED BY <1>2, <1>7, <1>8

\* A fill is recorded as apply_trade records it.
LEMMA AddFillIs ==
  ASSUME NEW st \in OrderStates, NEW quantity \in Int
  PROVE  AfterFill(st, quantity) = AddFill(st, quantity)
<1>1. st.original_quantity \in Int /\ st.filled_quantity \in Int
  BY DEF OrderStates
<1>2. st.original_quantity - (st.filled_quantity + quantity) = 0
        <=> remaining_quantity(st) = quantity
  BY <1>1 DEF remaining_quantity
<1> QED BY <1>2 DEF AfterFill, AddFill

\* Both orders of a fill get it, in whatever order.
LEMMA BothAre ==
  ASSUME NEW states, states \in [DOMAIN states -> OrderStates],
         NEW id \in DOMAIN states, NEW x \in DOMAIN states, x # id,
         NEW fill, fill.order_id = x, NEW quantity \in Int, fill.quantity = quantity
  PROVE  Both(states, id, fill)
           = [y \in DOMAIN states |-> IF y \in {id, x} THEN AddFill(states[y], quantity)
                                                       ELSE states[y]]
<1>1. PICK one : one = Filled(states, id, quantity)
  OBVIOUS
<1>2. /\ DOMAIN one = DOMAIN states
      /\ \A y \in DOMAIN states : one[y] = IF y = id THEN AddFill(states[y], quantity)
                                                     ELSE states[y]
  BY <1>1 DEF Filled
<1>3. PICK two : two = Filled(one, x, quantity)
  OBVIOUS
<1>4. /\ two = [y \in DOMAIN one |-> two[y]] /\ DOMAIN two = DOMAIN one
      /\ \A y \in DOMAIN one : two[y] = IF y = x THEN AddFill(one[y], quantity)
                                                 ELSE one[y]
  BY <1>3 DEF Filled
<1>5. \A y \in DOMAIN states :
        two[y] = IF y \in {id, x} THEN AddFill(states[y], quantity) ELSE states[y]
  BY <1>2, <1>4
<1>6. Both(states, id, fill) = two
  BY <1>1, <1>3 DEF Both
<1> QED BY <1>2, <1>4, <1>5, <1>6

\* apply_trade of the call's first trade is its first fill.
LEMMA PartApplied ==
  ASSUME CoreInv, LocksHeld, Agreement, NEW t \in Threads, pc[t] = "apply",
         Apply(matched[t][1]), UNCHANGED books,
         NEW order, NEW c, NEW id, NEW trade, NEW x, AtFirst(t, order, c, id, trade, x),
         NEW part, part = PartOf(c)
  PROVE  PartOf(c)' = [order_states |-> Both(part.order_states, id, FillsOf(t)[1]),
                       books        |-> part.books]
<1>a. /\ order = incoming[t] /\ c = order.symbol /\ id = order.order_id
      /\ trade = matched[t][1] /\ x = Hit(t, 1)
  BY DEF AtFirst
<1>1. /\ id \in DOMAIN order_states /\ x \in DOMAIN order_states /\ x # id
      /\ order_states[id].symbol = c /\ order_states[x].symbol = c
      /\ StatesKept /\ RecordsMoveOn(c) /\ DOMAIN order_states' = DOMAIN order_states
      /\ trade.quantity \in Int
  BY FirstTradeApplied
<1>2. c \in Symbols /\ c \in Registered /\ order.side \in Side
      /\ matched[t] \in Seq(PairTrade)
      /\ \A i \in DOMAIN matched[t] : Covered(t, i)
  BY <1>a, MatchCall
<1>3. matched[t] # <<>>
  BY DEF CoreInv, HandlerOK
<1>4. 1 \in DOMAIN matched[t] /\ trade \in PairTrade /\ Covered(t, 1)
  BY <1>a, <1>2, <1>3
<1>5. {trade.buy_order_id, trade.sell_order_id} = {id, x}
  BY <1>a, <1>2, <1>4 DEF Covered, OwnOf, Hit, HitBy
<1>6. \A y \in DOMAIN order_states :
        order_states'[y] = IF y \in {id, x} THEN AfterFill(order_states[y], trade.quantity)
                                            ELSE order_states[y]
  BY <1>4, <1>5, <1>a, ApplyKept DEF CoreInv, TypeOK
<1>7. PICK fill : fill = FillsOf(t)[1]
  OBVIOUS
<1>8. fill.order_id = x /\ fill.quantity = trade.quantity
  BY <1>a, <1>4, <1>7 DEF FillsOf
<1>9. PICK old, bks : PartIs(part, c, old, bks)
  BY <1>2, PartHolds
<1>10. /\ part = [order_states |-> old, books |-> bks]
       /\ DOMAIN old = OrdersAt(c) /\ old \in [OrdersAt(c) -> OrderStates]
       /\ \A y \in OrdersAt(c) : old[y] = order_states[y]
       /\ bks = [u \in Registered \cap {c} |-> books[u]]
  BY <1>9 DEF PartIs
<1>11. id \in OrdersAt(c) /\ x \in OrdersAt(c)
  BY <1>1 DEF OrdersAt
<1>12. OrdersAt(c)' = OrdersAt(c)
  <2>1. \A y \in DOMAIN order_states : order_states'[y].symbol = order_states[y].symbol
    BY <1>1 DEF StatesKept
  <2> QED BY <1>1, <2>1 DEF OrdersAt
<1>13. Both(old, id, fill)
         = [y \in DOMAIN old |-> IF y \in {id, x} THEN AddFill(old[y], trade.quantity)
                                                  ELSE old[y]]
  <2>1. old \in [DOMAIN old -> OrderStates] /\ id \in DOMAIN old /\ x \in DOMAIN old
    BY <1>10, <1>11
  <2> QED BY <1>1, <1>8, <2>1, BothAre
<1>14. ASSUME NEW y \in OrdersAt(c)
       PROVE  order_states'[y] = IF y \in {id, x} THEN AddFill(old[y], trade.quantity)
                                                  ELSE old[y]
  <2>1. y \in DOMAIN order_states /\ old[y] = order_states[y] /\ old[y] \in OrderStates
    BY <1>10 DEF OrdersAt
  <2>2. AfterFill(old[y], trade.quantity) = AddFill(old[y], trade.quantity)
    BY <1>1, <2>1, AddFillIs
  <2> QED BY <1>6, <2>1, <2>2
<1>15. [y \in OrdersAt(c)' |-> order_states'[y]] = Both(old, id, fill)
  BY <1>10, <1>12, <1>13, <1>14
<1>16. PartOf(c)' = [order_states |-> Both(old, id, fill), books |-> bks]
  BY <1>10, <1>15 DEF PartOf
<1> QED BY <1>7, <1>10, <1>16

\* A book with one of its sides replaced.
WithSide(book, side, levels) == [book EXCEPT ![side] = levels]

\* What process_order makes of a book does not depend on the levels that
\* match_orders works on, which are the run's.
LEMMA AfterMatchSame ==
  ASSUME NEW book, NEW order, NEW levels, NEW run, NEW other,
         other = WithSide(book, Opposite(order.side), levels)
  PROVE  AfterMatch(other, order, run) = AfterMatch(book, order, run)
<1>1. [other EXCEPT ![Opposite(order.side)] = run.levels]
        = [book EXCEPT ![Opposite(order.side)] = run.levels]
  BY DEF WithSide
<1> QED BY <1>1 DEF AfterMatch

-----------------------------------------------------------------------------
(* Where each step of match_orders and apply_trade lands.                  *)

\* What is to become of a part in the middle of match_orders.
LEMMA ComingMatch ==
  ASSUME NEW t, pc[t] = "match"
  PROVE  Coming(t) = Ended(PartOf(MessageSymbol(req[t])), TermsOf(incoming[t]),
                           LoopEnd(TermsOf(incoming[t]), RunOf(t)))
BY DEF Coming

\* The same in the middle of apply_trade.
LEMMA ComingApply ==
  ASSUME NEW t, pc[t] = "apply", NEW part, part = PartOf(MessageSymbol(req[t])),
         NEW id, id = incoming[t].order_id
  PROVE  Coming(t) = [order_states |-> Applied(part.order_states, id, FillsOf(t)),
                      books        |-> part.books]
<1>1. Coming(t) = [part EXCEPT !.order_states = Applied(@, id, FillsOf(t))]
  BY Zenon DEF Coming
<1>2. PICK old, bks : part = [order_states |-> old, books |-> bks]
  BY DEF PartOf
<1>3. PICK new : new = Applied(old, id, FillsOf(t))
  OBVIOUS
<1>4. [part EXCEPT !.order_states = new] = [order_states |-> new, books |-> bks]
  BY <1>2
<1>5. part.order_states = old /\ part.books = bks
  BY <1>2
<1> QED BY <1>1, <1>3, <1>4, <1>5

\* An iteration of match_orders does not move where the call will end.
LEMMA MatchOneLands ==
  ASSUME CoreInv, LocksHeld, Agreement, CallsInv, NEW t \in Threads, MatchOne(t),
         UNCHANGED promised, NEW c, c = MessageSymbol(req[t])
  PROVE  Lands(t, c)
<1>1. PICK order, side, best, traded :
        /\ order = incoming[t] /\ side = Opposite(order.side)
        /\ best = Best(side, Against(order))
        /\ traded = Lesser(order.quantity, Against(order)[best][1].quantity)
  OBVIOUS
<1>2. /\ pc[t] = "match" /\ CanMatch(order)
      /\ books' = [books EXCEPT ![order.symbol][side] = TakeFront(@, best, traded)]
      /\ UNCHANGED <<symbol_mutexes, order_states, pc, req>>
  BY <1>1 DEF MatchOne, Lesser
<1>3. /\ order.symbol = c /\ c \in Registered /\ order.side \in Side
      /\ symbol_mutexes[c] = t
  BY <1>1, <1>2, MatchCall
<1>4. PICK terms, run, part : /\ terms = TermsOf(order) /\ run = RunOf(t)
                              /\ part = PartOf(c)
  OBVIOUS
<1>5. PICK next, after : next = RunOf(t)' /\ after = PartOf(c)'
  OBVIOUS
<1>6. run \in RunsOf(OrderId) /\ GoesOn(terms, run)
  BY <1>1, <1>2, <1>4, RunSound, GoesOnToo
<1>7. TermsOf(incoming[t])' = terms /\ next = Turn(terms, run)
  BY <1>1, <1>4, <1>5, MatchOneTurns
<1>8. terms.side = order.side /\ terms.symbol = c
  BY <1>3, <1>4 DEF TermsOf
<1>9. LoopEnd(terms, next) = LoopEnd(terms, run)
  BY <1>3, <1>6, <1>7, <1>8, EndGoesOn
<1>10. PICK end : end = LoopEnd(terms, run)
  OBVIOUS
<1>11. PICK book, other : book = books[c] /\ other = books'[c]
  OBVIOUS
<1>12. /\ part.books = OneBook(c, book) /\ after.books = OneBook(c, other)
       /\ after.order_states = part.order_states
  <2>1. part.books = OneBook(c, book)
    BY <1>3, <1>4, <1>11, PartBook
  <2>2. after = [order_states |-> [id \in OrdersAt(c) |-> order_states[id]],
                 books |-> [u \in Registered \cap {c} |-> books'[u]]]
    BY <1>2, <1>5 DEF PartOf, OrdersAt
  <2>3. Registered \cap {c} = {c}
    BY <1>3
  <2>4. [u \in Registered \cap {c} |-> books'[u]] = OneBook(c, other)
    BY <1>11, <2>3 DEF OneBook
  <2> QED BY <1>4, <2>1, <2>2, <2>4 DEF PartOf
<1>a. PICK levels : levels = TakeFront(books[c][side], best, traded)
  OBVIOUS
<1>13. other = WithSide(book, Opposite(terms.side), levels)
  <2>1. DOMAIN books = Registered
    BY DEF CoreInv, TypeOK, BooksTypeOK
  <2>3. books' = [books EXCEPT ![c][side] = levels]
    BY <1>2, <1>3, <1>a
  <2>4. other = WithSide(book, side, levels)
    BY <1>3, <1>11, <2>1, <2>3 DEF WithSide
  <2>5. Opposite(terms.side) = side
    BY <1>1, <1>8
  <2> QED BY <2>4, <2>5
<1>14. AfterMatch(other, terms, end) = AfterMatch(book, terms, end)
  BY <1>13, AfterMatchSame
<1>15. Ended(after, terms, end) = Ended(part, terms, end)
  <2>1. Ended(after, terms, end) = EndedWith(after.order_states, c, other, terms, end)
    BY <1>8, <1>12, PartEnded
  <2>2. Ended(part, terms, end) = EndedWith(part.order_states, c, book, terms, end)
    BY <1>8, <1>12, PartEnded
  <2> QED BY <1>12, <1>14, <2>1, <2>2 DEF EndedWith
<1>16. promised[c] = Ended(part, terms, end)
  BY <1>1, <1>2, <1>4, <1>10, ComingMatch DEF CallsInv, InCall
<1>17. Coming(t)' = Ended(after, terms, end)
  <2>1. pc'[t] = "match" /\ MessageSymbol(req[t])' = c
    BY <1>2 DEF MessageSymbol
  <2>2. Coming(t)' = Ended(PartOf(MessageSymbol(req[t]))', TermsOf(incoming[t])',
                           LoopEnd(TermsOf(incoming[t])', RunOf(t)'))
    BY <2>1, Zenon DEF Coming
  <2>3. PartOf(MessageSymbol(req[t]))' = after
    BY <1>5, <2>1 DEF PartOf, OrdersAt
  <2> QED BY <1>5, <1>7, <1>9, <1>10, <2>2, <2>3
<1> QED BY <1>2, <1>3, <1>15, <1>16, <1>17 DEF Lands, InCall, MessageSymbol

\* What process_order leaves of a symbol's part, before its trades are applied.
LEMMA PartRested ==
  ASSUME CoreInv, LocksHeld, Agreement, NEW t \in Threads, pc[t] = "match",
         NEW order, order = incoming[t], NEW c, c = MessageSymbol(req[t]),
         RestRemainder(order), UNCHANGED order_states, NEW part, part = PartOf(c)
  PROVE  PartOf(c)' = [order_states |-> part.order_states,
                       books |-> OneBook(c, AfterMatch(books[c], TermsOf(order), RunOf(t)))]
<1>1. order.symbol = c /\ c \in Registered
  BY MatchCall
<1>2. PICK other : other = AfterMatch(books[c], TermsOf(order), RunOf(t))
  OBVIOUS
<1>3. books'[c] = other
  BY <1>1, <1>2, RemainderIs
<1>4. [u \in Registered \cap {c} |-> books'[u]] = OneBook(c, other)
  <2>1. Registered \cap {c} = {c}
    BY <1>1
  <2> QED BY <1>3, <2>1 DEF OneBook
<1>5. PartOf(c)' = [order_states |-> [id \in OrdersAt(c) |-> order_states[id]],
                    books |-> [u \in Registered \cap {c} |-> books'[u]]]
  BY DEF PartOf, OrdersAt
<1> QED BY <1>2, <1>4, <1>5 DEF PartOf

\* What was promised of a loop that has ended.
LEMMA MatchedPromised ==
  ASSUME CoreInv, LocksHeld, Agreement, CallsInv, NEW t \in Threads, pc[t] = "match",
         NEW order, order = incoming[t], ~CanMatch(order),
         NEW c, c = MessageSymbol(req[t]), NEW part, part = PartOf(c)
  PROVE  promised[c]
           = [order_states |-> Applied(part.order_states, order.order_id, FillsOf(t)),
              books |-> OneBook(c, AfterMatch(books[c], TermsOf(order), RunOf(t)))]
<1>1. order.symbol = c /\ c \in Registered /\ order.side \in Side
  BY MatchCall
<1>2. PICK terms, run, book : terms = TermsOf(order) /\ run = RunOf(t) /\ book = books[c]
  OBVIOUS
<1>3. run \in RunsOf(OrderId) /\ ~GoesOn(terms, run)
  BY <1>2, RunSound, GoesOnToo
<1>4. /\ terms.side = order.side /\ terms.symbol = c /\ terms.order_id = order.order_id
      /\ run.fills = FillsOf(t)
  BY <1>1, <1>2 DEF TermsOf, RunOf
<1>5. LoopEnd(terms, run) = run
  BY <1>1, <1>3, <1>4, EndIsHere
<1>6. promised[c] = Ended(part, terms, run)
  BY <1>2, <1>5, ComingMatch DEF CallsInv, InCall
<1>7. part.books = OneBook(c, book)
  BY <1>1, <1>2, PartBook
<1>8. Ended(part, terms, run) = EndedWith(part.order_states, c, book, terms, run)
  BY <1>4, <1>7, PartEnded
<1> QED BY <1>2, <1>4, <1>6, <1>8 DEF EndedWith

\* A call without trades ends where match_orders does.
LEMMA MatchedNothingLands ==
  ASSUME CoreInv, LocksHeld, Agreement, CallsInv, NEW t \in Threads, MatchedNothing(t),
         UNCHANGED promised, NEW c, c = MessageSymbol(req[t])
  PROVE  Lands(t, c)
<1>1. PICK order, part, id : order = incoming[t] /\ part = PartOf(c) /\ id = order.order_id
  OBVIOUS
<1>2. /\ pc[t] = "match" /\ ~CanMatch(order) /\ matched[t] = <<>> /\ RestRemainder(order)
      /\ Return(t) /\ UNCHANGED order_states
  BY <1>1 DEF MatchedNothing
<1>3. c \in Symbols
  BY <1>2, MatchCall
<1>4. PICK fills : fills = FillsOf(t)
  OBVIOUS
<1>5. fills \in Seq(FillsFrom(OrderId)) /\ Len(fills) = 0
  BY <1>2, <1>4, FillsSound
<1>6. part.order_states \in [DOMAIN part.order_states -> OrderStates]
  BY <1>1, <1>3, PartHolds DEF PartIs
<1>7. Applied(part.order_states, id, fills) = part.order_states
  BY <1>5, <1>6, AppliedNothing
<1>8. pc'[t] = "idle"
  BY <1>2, <1>3, ReturnedIdle
<1>9. promised[c] = PartOf(c)'
  <2>1. promised[c]
           = [order_states |-> Applied(part.order_states, id, fills),
              books |-> OneBook(c, AfterMatch(books[c], TermsOf(order), RunOf(t)))]
    BY <1>1, <1>2, <1>4, MatchedPromised
  <2>2. PartOf(c)' = [order_states |-> part.order_states,
              books |-> OneBook(c, AfterMatch(books[c], TermsOf(order), RunOf(t)))]
    BY <1>1, <1>2, PartRested
  <2> QED BY <1>7, <2>1, <2>2
<1> QED BY <1>8, <1>9 DEF Lands, InCall

\* A call with trades has its book done and its fills to come.
LEMMA MatchedSomeLands ==
  ASSUME CoreInv, LocksHeld, Agreement, CallsInv, NEW t \in Threads, MatchedSome(t),
         UNCHANGED promised, NEW c, c = MessageSymbol(req[t])
  PROVE  Lands(t, c)
<1>1. PICK order, part, id : order = incoming[t] /\ part = PartOf(c) /\ id = order.order_id
  OBVIOUS
<1>2. /\ pc[t] = "match" /\ ~CanMatch(order) /\ RestRemainder(order)
      /\ pc' = [pc EXCEPT ![t] = "apply"]
      /\ UNCHANGED <<symbol_mutexes, order_states, req, incoming, matched>>
  BY <1>1 DEF MatchedSome, Goto
<1>3. symbol_mutexes[c] = t
  BY <1>2, MatchCall
<1>4. pc'[t] = "apply"
  BY <1>2 DEF CoreInv, TypeOK, ThreadsTypeOK
<1>5. MessageSymbol(req[t])' = c
  BY <1>2 DEF MessageSymbol
<1>6. PICK fills, after, bks :
        /\ fills = FillsOf(t) /\ after = PartOf(c)'
        /\ bks = OneBook(c, AfterMatch(books[c], TermsOf(order), RunOf(t)))
  OBVIOUS
<1>7. promised[c] = [order_states |-> Applied(part.order_states, id, fills), books |-> bks]
  BY <1>1, <1>2, <1>6, MatchedPromised
<1>8. after = [order_states |-> part.order_states, books |-> bks]
  BY <1>1, <1>2, <1>6, PartRested
<1>9. FillsOf(t)' = fills
  BY <1>2, <1>6 DEF FillsOf, Hit, HitBy
<1>10. Coming(t)' = [after EXCEPT !.order_states = Applied(@, id, fills)]
  <2>1. PartOf(MessageSymbol(req[t]))' = after
    BY <1>5, <1>6 DEF PartOf, OrdersAt
  <2>2. Coming(t)' = [PartOf(MessageSymbol(req[t]))' EXCEPT
                        !.order_states = Applied(@, incoming'[t].order_id, FillsOf(t)')]
    BY <1>4, Zenon DEF Coming
  <2>3. incoming'[t].order_id = id
    BY <1>1, <1>2
  <2> QED BY <1>9, <2>1, <2>2, <2>3
<1>11. PICK new : new = Applied(part.order_states, id, fills)
  OBVIOUS
<1>12. Coming(t)' = [order_states |-> new, books |-> bks]
  BY <1>8, <1>10, <1>11
<1> QED BY <1>2, <1>3, <1>4, <1>5, <1>7, <1>11, <1>12 DEF Lands, InCall

\* What is left to apply, once the first fill is.
\* What was promised is the part with these fills applied.
PartLeft(c, id, fills) ==
  \E after, bks :
    /\ after \in [DOMAIN after -> OrderStates]
    /\ PartOf(c)' = [order_states |-> after, books |-> bks]
    /\ promised[c] = [order_states |-> Applied(after, id, fills), books |-> bks]

\* The book is done, and the first of the fills is.
LEMMA ApplyLeft ==
  ASSUME CoreInv, LocksHeld, Agreement, CallsInv, NEW t \in Threads, pc[t] = "apply",
         Apply(matched[t][1]), UNCHANGED books,
         NEW order, order = incoming[t], NEW c, c = MessageSymbol(req[t]),
         NEW id, id = order.order_id, NEW fills, fills = FillsOf(t)
  PROVE  PartLeft(c, id, Tail(fills))
<1>1. PICK trade, x : trade = matched[t][1] /\ x = Hit(t, 1)
  OBVIOUS
<1>2. order.symbol = c /\ c \in Symbols
  BY MatchCall
<1>3. AtFirst(t, order, c, id, trade, x)
  BY <1>1, <1>2 DEF AtFirst
<1>4. PICK part : part = PartOf(c)
  OBVIOUS
<1>5. PICK old, bks : old = part.order_states /\ bks = part.books
  OBVIOUS
<1>6. old \in [DOMAIN old -> OrderStates]
  BY <1>2, <1>4, <1>5, PartHolds DEF PartIs
<1>0. PICK ids : ids = OrderId
  OBVIOUS
<1>7. fills \in Seq(FillsFrom(ids)) /\ fills # <<>>
  <2>1. matched[t] # <<>> /\ matched[t] \in Seq(PairTrade)
    BY DEF CoreInv, HandlerOK, TradesTidy
  <2>2. Len(matched[t]) # 0
    BY <2>1
  <2>3. fills \in Seq(FillsFrom(OrderId)) /\ Len(fills) = Len(matched[t])
    BY FillsSound
  <2> QED BY <1>0, <2>2, <2>3
<1>8. PICK next : next = Both(old, id, fills[1])
  OBVIOUS
<1>9. /\ next \in [DOMAIN old -> OrderStates]
      /\ Applied(old, id, fills) = Applied(next, id, Tail(fills))
  BY <1>6, <1>7, <1>8, AppliedGoesOn
<1>10. PartOf(c)' = [order_states |-> next, books |-> bks]
  BY <1>3, <1>4, <1>5, <1>8, PartApplied
<1>11. promised[c] = [order_states |-> Applied(old, id, fills), books |-> bks]
  BY <1>4, <1>5, ComingApply DEF CallsInv, InCall
<1>12. next \in [DOMAIN next -> OrderStates]
  BY <1>9
<1> QED BY <1>9, <1>10, <1>11, <1>12 DEF PartLeft

\* A trade that is applied is one fill less to come.
LEMMA ApplyTradeLands ==
  ASSUME CoreInv, LocksHeld, Agreement, CallsInv, NEW t \in Threads, ApplyTrade(t),
         UNCHANGED promised, NEW c, c = MessageSymbol(req[t])
  PROVE  Lands(t, c)
<1>1. PICK order, id, fills : order = incoming[t] /\ id = order.order_id /\ fills = FillsOf(t)
  OBVIOUS
<1>2. /\ pc[t] = "apply" /\ Apply(matched[t][1])
      /\ matched' = [matched EXCEPT ![t] = Tail(@)]
      /\ UNCHANGED <<symbol_mutexes, books, pc, req, incoming>>
  BY DEF ApplyTrade
<1>3. symbol_mutexes[c] = t /\ matched[t] \in Seq(PairTrade) /\ matched[t] # <<>>
  BY <1>2, MatchCall DEF CoreInv, HandlerOK
<1>4. matched'[t] = Tail(matched[t])
  BY <1>2 DEF CoreInv, TypeOK, ThreadsTypeOK
<1>5. fills \in Seq(FillsFrom(OrderId))
  BY <1>1, <1>2, FillsSound
<1>6. FillsOf(t)' = Tail(fills)
  BY <1>1, <1>2, <1>3, <1>4, <1>5, FillsShrink
<1>a. PartLeft(c, id, Tail(fills))
  BY <1>1, <1>2, ApplyLeft
<1>7. PICK after, bks :
        /\ PartOf(c)' = [order_states |-> after, books |-> bks]
        /\ promised[c] = [order_states |-> Applied(after, id, Tail(fills)), books |-> bks]
  BY <1>a DEF PartLeft
<1>8. PICK part, new : part = PartOf(c)' /\ new = Applied(after, id, Tail(fills))
  OBVIOUS
<1>9. Coming(t)' = [part EXCEPT !.order_states = Applied(@, id, Tail(fills))]
  <2>1. PartOf(MessageSymbol(req[t]))' = part
    BY <1>2, <1>8 DEF PartOf, OrdersAt, MessageSymbol
  <2>2. Coming(t)' = [PartOf(MessageSymbol(req[t]))' EXCEPT
                        !.order_states = Applied(@, incoming'[t].order_id, FillsOf(t)')]
    BY <1>2, Zenon DEF Coming
  <2>3. incoming'[t].order_id = id
    BY <1>1, <1>2
  <2> QED BY <1>6, <2>1, <2>2, <2>3
<1>10. Coming(t)' = [order_states |-> new, books |-> bks]
  BY <1>7, <1>8, <1>9
<1> QED BY <1>2, <1>3, <1>7, <1>8, <1>10 DEF Lands, InCall, MessageSymbol

\* With the last one the call has made what it should.
LEMMA ApplyLastTradeLands ==
  ASSUME CoreInv, LocksHeld, Agreement, CallsInv, NEW t \in Threads, ApplyLastTrade(t),
         UNCHANGED promised, NEW c, c = MessageSymbol(req[t])
  PROVE  Lands(t, c)
<1>1. PICK order, id, fills : order = incoming[t] /\ id = order.order_id /\ fills = FillsOf(t)
  OBVIOUS
<1>2. /\ pc[t] = "apply" /\ Apply(matched[t][1]) /\ Len(matched[t]) = 1
      /\ Return(t) /\ UNCHANGED books
  BY DEF ApplyLastTrade
<1>3. c \in Symbols
  BY <1>2, MatchCall
<1>4. fills \in Seq(FillsFrom(OrderId)) /\ Len(fills) = 1
  BY <1>1, <1>2, FillsSound
<1>5. PICK rest : rest = Tail(fills)
  OBVIOUS
<1>6. rest \in Seq(FillsFrom(OrderId)) /\ Len(rest) = 0
  <2>1. fills # <<>>
    <3>1. matched[t] # <<>> /\ matched[t] \in Seq(PairTrade)
      BY <1>2 DEF CoreInv, HandlerOK, TradesTidy
    <3>2. Len(matched[t]) # 0
      BY <3>1
    <3>3. fills \in Seq(FillsFrom(OrderId)) /\ Len(fills) = Len(matched[t])
      BY <1>1, <1>2, FillsSound
    <3> QED BY <3>2, <3>3
  <2>2. rest \in Seq(FillsFrom(OrderId)) /\ Len(rest) = Len(fills) - 1
    BY <1>4, <1>5, <2>1
  <2> QED BY <1>4, <2>2
<1>a. PartLeft(c, id, rest)
  <2>1. PartLeft(c, id, Tail(fills))
    BY <1>1, <1>2, ApplyLeft
  <2> QED BY <1>5, <2>1
<1>7. PICK after, bks :
        /\ after \in [DOMAIN after -> OrderStates]
        /\ PartOf(c)' = [order_states |-> after, books |-> bks]
        /\ promised[c] = [order_states |-> Applied(after, id, rest), books |-> bks]
  BY <1>a DEF PartLeft
<1>8. Applied(after, id, rest) = after
  BY <1>6, <1>7, AppliedNothing
<1>9. pc'[t] = "idle"
  BY <1>2, <1>3, ReturnedIdle
<1> QED BY <1>7, <1>8, <1>9 DEF Lands, InCall

-----------------------------------------------------------------------------
(* Where the other steps land.                                             *)

\* A call that matches an order from the start is the rest of Process.
LEMMA CallBegins ==
  ASSUME CoreInv, Agreement, NEW t \in Threads,
         NEW order \in Order, NEW c \in Registered, order.symbol = c,
         pc'[t] = "match", incoming'[t] = order, matched'[t] = <<>>,
         MessageSymbol(req[t])' = c, UNCHANGED books,
         NEW ex, PartOf(c)' = ex, ex.books = OneBook(c, books[c])
  PROVE  Process(ex, order).ex = Coming(t)'
<1>1. order.side \in Side /\ order.quantity \in Int
  BY DEF Order
<1>2. PICK levels, terms, ids :
        /\ levels = books[c][Opposite(order.side)] /\ terms = TermsOf(order)
        /\ ids = OrderId
  OBVIOUS
<1>3. levels = ex.books[order.symbol][Opposite(order.side)]
  BY <1>2 DEF OneBook
<1>4. Tidy(levels, EntriesOf(ids))
  <2>1. Opposite(order.side) \in Side
    BY <1>1 DEF Opposite, Side
  <2> QED BY <1>2, <2>1, SharesRest
<1>5. ids \in SUBSET OrderId
  BY <1>2
<1>6. Process(ex, order).ex = Ended(ex, terms, LoopEnd(terms, Begun(order, levels)))
  BY <1>1, <1>2, <1>3, <1>4, <1>5, ProcessEnds
<1>7. FillsOf(t)' = <<>>
  BY DEF FillsOf
<1>8. RunOf(t)' = Begun(order, levels)
  <2>1. Against(incoming[t])' = levels
    BY <1>2 DEF Against
  <2> QED BY <1>7, <2>1 DEF RunOf, Begun
<1>9. Coming(t)' = Ended(PartOf(MessageSymbol(req[t]))', TermsOf(incoming[t])',
                         LoopEnd(TermsOf(incoming[t])', RunOf(t)'))
  BY Zenon DEF Coming
<1>10. TermsOf(incoming[t])' = terms
  BY <1>2 DEF TermsOf
<1>11. PartOf(MessageSymbol(req[t]))' = ex
  BY DEF PartOf, OrdersAt
<1> QED BY <1>6, <1>8, <1>9, <1>10, <1>11

\* The books of a part are not moved by a record.
LEMMA BooksOfWith ==
  ASSUME NEW c \in Registered, NEW part, part = PartOf(c), NEW id, NEW st
  PROVE  WithState(part, id, st).books = OneBook(c, books[c])
<1>1. PICK old, bks : part = [order_states |-> old, books |-> bks]
  BY DEF PartOf
<1>2. bks = OneBook(c, books[c])
  <2>1. part.books = OneBook(c, books[c])
    BY PartBook
  <2> QED BY <1>1, <2>1
<1>3. WithState(part, id, st).books = bks
  <2>1. WithState(part, id, st)
          = [order_states |-> [x \in DOMAIN old \cup {id} |-> IF x = id THEN st ELSE old[x]],
             books |-> bks]
    BY <1>1, WithStateIs
  <2> QED BY <2>1
<1> QED BY <1>2, <1>3

\* What the call of a submission makes of its symbol's part.
LEMMA SubmitOutcome ==
  ASSUME CoreInv, NEW t \in Threads, pc[t] = "submit", NEW order, order = req[t].order,
         NEW id, id = order.order_id, NEW c, c = MessageSymbol(req[t]),
         NEW part, part = PartOf(c)
  PROVE  /\ c = order.symbol
         /\ ~Acceptable(order) =>
              Outcome(t) = WithState(part, id, NewOrderState(order, "Rejected"))
         /\ Acceptable(order) =>
              Outcome(t) = Process(WithState(part, id, NewOrderState(order, "New")), order).ex
<1>1. req[t].kind = "D"
  BY DEF CoreInv, HandlerOK
<1>2. c = order.symbol
  BY <1>1 DEF MessageSymbol
<1>3. Outcome(t) = submit_order(part, risk_ctx, order).ex
  BY <1>1, Zenon DEF Outcome
<1>4. DOMAIN part.books = Registered \cap {c}
  BY DEF PartOf
<1>5. Acceptable(order) <=> order.symbol \in DOMAIN part.books /\ Approved(risk_ctx, order)
  BY <1>2, <1>4 DEF Acceptable
<1>6. \A ex : NoTrades(ex).ex = ex
  BY DEF NoTrades
<1> QED BY <1>2, <1>3, <1>5, <1>6 DEF submit_order

\* A rejected order is recorded, as submit_order records it.
LEMMA SubmitRejectedLands ==
  ASSUME CoreInv, LocksHeld, Agreement, CallsInv, NEW t \in Threads, SubmitRejected(t),
         NEW c, c = MessageSymbol(req[t]),
         promised' = [promised EXCEPT ![c] = Outcome(t)]
  PROVE  Lands(t, c)
<1>1. PICK order, id, part, st :
        /\ order = req[t].order /\ id = order.order_id /\ part = PartOf(c)
        /\ st = NewOrderState(order, "Rejected")
  OBVIOUS
<1>2. /\ pc[t] = "submit" /\ ~Acceptable(order) /\ Return(t) /\ UNCHANGED books
      /\ Insert(id, st)
  BY <1>1 DEF SubmitRejected
<1>3. /\ c = order.symbol /\ c \in Symbols
      /\ id \notin DOMAIN order_states
      /\ DOMAIN order_states' = DOMAIN order_states \cup {id}
      /\ order_states'[id] = st
      /\ \A x \in DOMAIN order_states : order_states'[x] = order_states[x]
  BY <1>1, <1>2, Submission
<1>4. st.symbol = c
  BY <1>1, <1>3 DEF NewOrderState
<1>5. PartOf(c)' = WithState(part, id, st)
  BY <1>1, <1>2, <1>3, <1>4, PartWith
<1>6. Outcome(t) = WithState(part, id, st)
  BY <1>1, <1>2, SubmitOutcome
<1>7. promised'[c] = Outcome(t)
  BY <1>3 DEF CallsInv
<1>8. pc'[t] = "idle"
  BY <1>2, <1>3, ReturnedIdle
<1> QED BY <1>5, <1>6, <1>7, <1>8 DEF Lands, InCall

\* An accepted order is recorded and has process_order to come.
LEMMA SubmitAcceptedLands ==
  ASSUME CoreInv, LocksHeld, Agreement, CallsInv, NEW t \in Threads, SubmitAccepted(t),
         NEW c, c = MessageSymbol(req[t]),
         promised' = [promised EXCEPT ![c] = Outcome(t)]
  PROVE  Lands(t, c)
<1>1. PICK order, id, part, st :
        /\ order = req[t].order /\ id = order.order_id /\ part = PartOf(c)
        /\ st = NewOrderState(order, "New")
  OBVIOUS
<1>2. /\ pc[t] = "submit" /\ Acceptable(order) /\ Insert(id, st)
      /\ symbol_mutexes' = [symbol_mutexes EXCEPT ![c] = t]
      /\ incoming' = [incoming EXCEPT ![t] = order]
      /\ pc' = [pc EXCEPT ![t] = "match"]
      /\ UNCHANGED <<books, req, matched>>
  BY <1>1 DEF SubmitAccepted, Lock, Goto
<1>3. /\ order \in Order /\ c = order.symbol /\ c \in Symbols
      /\ id \notin DOMAIN order_states
      /\ DOMAIN order_states' = DOMAIN order_states \cup {id}
      /\ order_states'[id] = st
      /\ \A x \in DOMAIN order_states : order_states'[x] = order_states[x]
  BY <1>1, <1>2, Submission
<1>4. st.symbol = c /\ c \in Registered
  BY <1>1, <1>2, <1>3 DEF NewOrderState, Acceptable
<1>5. PICK ex : ex = WithState(part, id, st)
  OBVIOUS
<1>6. PartOf(c)' = ex
  <2>1. PartOf(c)' = WithState(part, id, st)
    BY <1>1, <1>2, <1>3, <1>4, PartWith
  <2> QED BY <1>5, <2>1
<1>7. Outcome(t) = Process(ex, order).ex
  BY <1>1, <1>2, <1>5, SubmitOutcome
<1>8. promised'[c] = Outcome(t)
  BY <1>3 DEF CallsInv
<1>9. /\ pc'[t] = "match" /\ incoming'[t] = order /\ matched'[t] = <<>>
      /\ symbol_mutexes'[c] = t /\ MessageSymbol(req[t])' = c
  BY <1>2, <1>3 DEF CoreInv, TypeOK, ThreadsTypeOK, MessageSymbol, Agreement, CallOK,
                    MatchedInCall
<1>10. ex.books = OneBook(c, books[c])
  BY <1>1, <1>4, <1>5, BooksOfWith
<1>11. Process(ex, order).ex = Coming(t)'
  BY <1>2, <1>3, <1>4, <1>6, <1>9, <1>10, CallBegins
<1> QED BY <1>7, <1>8, <1>9, <1>11 DEF Lands, InCall

\* What the call of a cancel or a replace finds in its symbol's part.
LEMMA AmendPart ==
  ASSUME CoreInv, NEW id \in DOMAIN order_states, NEW c \in Symbols,
         order_states[id].symbol = c, NEW part, part = PartOf(c)
  PROVE  /\ id \in DOMAIN part.order_states
         /\ part.order_states[id] = order_states[id]
         /\ CanAmend(part, id) <=> ~is_terminal(order_states[id])
<1>1. id \in OrdersAt(c)
  BY DEF OrdersAt
<1>2. PartIs(part, c, part.order_states, part.books)
  BY PartHolds
<1> QED BY <1>1, <1>2 DEF PartIs, CanAmend

\* A refused cancel or replace changes nothing, as its function says.
LEMMA AmendRefusedLands ==
  ASSUME CoreInv, LocksHeld, Agreement, CallsInv, NEW t \in Threads, AmendRefused(t),
         NEW c, c = MessageSymbol(req[t]),
         promised' = [promised EXCEPT ![c] = Outcome(t)]
  PROVE  Lands(t, c)
<1>1. PICK id, part : id = req[t].order_id /\ part = PartOf(c)
  OBVIOUS
<1>2. /\ pc[t] = "amend" /\ is_terminal(order_states[id]) /\ Return(t)
      /\ UNCHANGED <<order_states, books>>
  BY <1>1 DEF AmendRefused, MayAmend
<1>3. /\ req[t] \in Message /\ req[t].kind # "D" /\ id \in DOMAIN order_states
      /\ c \in Symbols /\ order_states[id].symbol = c
  BY <1>1, <1>2 DEF CoreInv, HandlerOK, LocksHeld, LockHeld, Message, MessageSymbol
<1>4. ~CanAmend(part, id)
  BY <1>1, <1>2, <1>3, AmendPart
<1>5. cancel_order(part, id) = part
  BY <1>4 DEF cancel_order
<1>6. modify_order(part, risk_ctx, id, req[t].price, req[t].quantity).ex = part
  BY <1>4 DEF modify_order, NoTrades
<1>7. Outcome(t) = part
  BY <1>1, <1>3, <1>5, <1>6 DEF Outcome
<1>8. promised'[c] = Outcome(t)
  BY <1>3 DEF CallsInv
<1>9. PartOf(c)' = part
  BY <1>1, <1>2 DEF PartOf, OrdersAt
<1>10. pc'[t] = "idle"
  BY <1>2, <1>3, ReturnedIdle
<1> QED BY <1>7, <1>8, <1>9, <1>10 DEF Lands, InCall

\* A cancel or replace that starts has all of it to come.
LEMMA AmendStartedLands ==
  ASSUME CoreInv, LocksHeld, Agreement, CallsInv, NEW t \in Threads, AmendStarted(t),
         NEW c, c = MessageSymbol(req[t]),
         promised' = [promised EXCEPT ![c] = Outcome(t)]
  PROVE  Lands(t, c)
<1>1. /\ pc[t] = "amend" /\ pc' = [pc EXCEPT ![t] = "pull"]
      /\ symbol_mutexes' = [symbol_mutexes EXCEPT ![c] = t]
      /\ UNCHANGED <<order_states, books, req>>
  BY DEF AmendStarted, Lock, Goto
<1>2. c \in Symbols
  BY <1>1 DEF CoreInv, HandlerOK, Message, MessageSymbol
<1>3. pc'[t] = "pull" /\ symbol_mutexes'[c] = t /\ MessageSymbol(req[t])' = c
  BY <1>1, <1>2 DEF CoreInv, TypeOK, ThreadsTypeOK, MessageSymbol
<1>4. \A s : PartOf(s)' = PartOf(s)
  BY <1>1 DEF PartOf, OrdersAt
<1>5. Coming(t)' = Outcome(t)'
  BY <1>3, Zenon DEF Coming
<1>6. Outcome(t)' = Outcome(t)
  BY <1>1, <1>4 DEF Outcome, MessageSymbol
<1>7. promised'[c] = Outcome(t)
  BY <1>2 DEF CallsInv
<1> QED BY <1>3, <1>5, <1>6, <1>7 DEF Lands, InCall

\* cancel_order leaves the order marked, once it is off its book.
LEMMA CancelledIsMarked ==
  ASSUME NEW ex, NEW id
  PROVE  Cancelled(ex, id) = Marked(Pulled(ex, id), id)
BY Zenon DEF Cancelled, Marked

\* What the call of a cancel or a replace makes of its symbol's part.
LEMMA AmendOutcome ==
  ASSUME CoreInv, LocksHeld, Agreement, NEW t \in Threads, pc[t] = "pull",
         NEW c, c = MessageSymbol(req[t]), NEW id, id = req[t].order_id,
         NEW part, part = PartOf(c), NEW pulled, pulled = Pulled(part, id)
  PROVE  Outcome(t)
           = IF req[t].kind = "G" /\ Replaceable(Revised(t))
               THEN Process(WithState(pulled, id,
                                      Renewed(snap[t], req[t].price, req[t].quantity)),
                            Revised(t)).ex
               ELSE Marked(pulled, id)
<1>1. /\ c = snap[t].symbol /\ c \in Symbols
      /\ req[t] \in Message /\ req[t].kind # "D"
      /\ id \in DOMAIN order_states /\ Belongs(id, c, snap[t].side)
      /\ snap[t] = order_states[id] /\ ~is_terminal(order_states[id])
  BY AmendCall
<1>2. PICK st, price, quantity :
        st = snap[t] /\ price = req[t].price /\ quantity = req[t].quantity
  OBVIOUS
<1>3. part.order_states[id] = st /\ CanAmend(part, id)
  BY <1>1, <1>2, AmendPart DEF Belongs
<1>4. cancel_order(part, id) = Marked(pulled, id)
  BY <1>3, CancelledIsMarked DEF cancel_order
<1>5. PICK revised, renewed : revised = Revised(t) /\ renewed = Renewed(st, price, quantity)
  OBVIOUS
<1>6. /\ revised = [order_id |-> id, symbol |-> st.symbol, side |-> st.side,
                    price |-> price, quantity |-> quantity - st.filled_quantity]
      /\ renewed = [st EXCEPT !.price = price, !.original_quantity = quantity,
                              !.order_status = "New"]
  BY <1>2, <1>5 DEF Revised, Renewed
<1>7. Replaced(part, risk_ctx, id, price, quantity)
        = IF revised.quantity > 0 /\ Approved(risk_ctx, revised)
            THEN Process(WithState(pulled, id, renewed), revised)
            ELSE NoTrades(Cancelled(part, id))
  BY <1>3, <1>6, Zenon DEF Replaced
<1>8. modify_order(part, risk_ctx, id, price, quantity)
        = Replaced(part, risk_ctx, id, price, quantity)
  BY <1>3 DEF modify_order
<1>9. NoTrades(Cancelled(part, id)).ex = Marked(pulled, id)
  BY CancelledIsMarked DEF NoTrades
<1>10. CASE req[t].kind = "G"
  <2>1. Outcome(t) = modify_order(part, risk_ctx, id, price, quantity).ex
    BY <1>2, <1>10 DEF Outcome
  <2> QED BY <1>2, <1>5, <1>7, <1>8, <1>9, <1>10, <2>1 DEF Replaceable
<1>11. CASE req[t].kind # "G"
  <2>1. req[t].kind = "F"
    BY <1>1, <1>11 DEF Message
  <2>2. Outcome(t) = cancel_order(part, id)
    BY <2>1 DEF Outcome
  <2> QED BY <1>4, <1>11, <2>2
<1> QED BY <1>10, <1>11

\* With the order off its book the rest of the call is to come.
LEMMA PullLands ==
  ASSUME CoreInv, LocksHeld, Agreement, CallsInv, NEW t \in Threads, Pull(t),
         UNCHANGED promised, NEW c, c = MessageSymbol(req[t])
  PROVE  Lands(t, c)
<1>1. PICK id, part, st, pulled : /\ id = req[t].order_id /\ part = PartOf(c)
                                  /\ st = snap[t] /\ pulled = Pulled(part, id)
  OBVIOUS
<1>2. /\ pc[t] = "pull"
      /\ books' = [books EXCEPT ![st.symbol][st.side] = CancelFromLevel(@, st.price, id)]
      /\ pc' = [pc EXCEPT ![t] = IF req[t].kind = "F" THEN "cancel" ELSE "replace"]
      /\ UNCHANGED <<symbol_mutexes, order_states, req, snap>>
  BY <1>1 DEF Pull, Goto
<1>3. /\ c = st.symbol /\ c \in Symbols /\ c \in Registered /\ st.side \in Side
      /\ req[t] \in Message /\ req[t].kind # "D" /\ symbol_mutexes[c] = t
      /\ id \in DOMAIN order_states /\ st = order_states[id]
  BY <1>1, <1>2, AmendCall
<1>4. TakesOff(c, st, id)
  BY <1>2, <1>3 DEF TakesOff
<1>5. PartOf(c)' = pulled
  <2>1. PartOf(c)' = Pulled(part, id)
    BY <1>1, <1>2, <1>3, <1>4, PartPulled
  <2> QED BY <1>1, <2>1
<1>6. pc'[t] = IF req[t].kind = "F" THEN "cancel" ELSE "replace"
  BY <1>2 DEF CoreInv, TypeOK, ThreadsTypeOK
<1>7. MessageSymbol(req[t])' = c /\ Revised(t)' = Revised(t)
  BY <1>2 DEF MessageSymbol, Revised
<1>8. PartOf(MessageSymbol(req[t]))' = pulled
  BY <1>5, <1>7 DEF PartOf, OrdersAt
<1>9. promised[c] = Outcome(t)
  BY <1>2 DEF CallsInv, InCall, Coming
<1>10. req[t].kind \in {"F", "G"}
  BY <1>3 DEF Message
<1>11. Replaceable(Revised(t))' <=> Replaceable(Revised(t))
  BY <1>7 DEF Replaceable
<1>12. Outcome(t) = Coming(t)'
  <2>1. CASE req[t].kind = "G" /\ Replaceable(Revised(t))
    <3>1. pc'[t] = "replace" /\ Replaceable(Revised(t))'
      BY <1>6, <1>11, <2>1
    <3>2. Coming(t)' = Process(WithState(PartOf(MessageSymbol(req[t]))', req'[t].order_id,
                                         Renewed(snap'[t], req'[t].price, req'[t].quantity)),
                               Revised(t)').ex
      BY <3>1 DEF Coming, Renewed
    <3>3. Coming(t)' = Process(WithState(pulled, id,
                                         Renewed(snap[t], req[t].price, req[t].quantity)),
                               Revised(t)).ex
      BY <1>1, <1>2, <1>7, <1>8, <3>2
    <3> QED BY <1>1, <1>2, <2>1, <3>3, AmendOutcome
  <2>2. CASE ~(req[t].kind = "G" /\ Replaceable(Revised(t)))
    <3>1. pc'[t] = "cancel" \/ (pc'[t] = "replace" /\ ~Replaceable(Revised(t))')
      BY <1>6, <1>10, <1>11, <2>2
    <3>2. Coming(t)' = Marked(PartOf(MessageSymbol(req[t]))', req'[t].order_id)
      BY <3>1 DEF Coming
    <3>3. Coming(t)' = Marked(pulled, id)
      BY <1>1, <1>2, <1>8, <3>2
    <3> QED BY <1>1, <1>2, <2>2, <3>3, AmendOutcome
  <2> QED BY <2>1, <2>2
<1>13. pc'[t] \in InCall /\ symbol_mutexes'[c] = t
  BY <1>2, <1>3, <1>6 DEF InCall
<1> QED BY <1>7, <1>9, <1>12, <1>13 DEF Lands

\* A call that ends by marking the order cancelled.
LEMMA CancelledLands ==
  ASSUME CoreInv, LocksHeld, Agreement, CallsInv, NEW t \in Threads,
         pc[t] = "cancel" \/ (pc[t] = "replace" /\ ~Replaceable(Revised(t))),
         MarkCancelled(req[t].order_id), Return(t), UNCHANGED books,
         UNCHANGED promised, NEW c, c = MessageSymbol(req[t])
  PROVE  Lands(t, c)
<1>1. PICK id, part : id = req[t].order_id /\ part = PartOf(c)
  OBVIOUS
<1>2. c \in Symbols /\ id \in DOMAIN order_states /\ order_states[id].symbol = c
  BY <1>1, AmendCall DEF Belongs
<1>3. PartOf(c)' = Marked(part, id)
  BY <1>1, <1>2, PartMarked
<1>4. Coming(t) = Marked(part, id)
  BY <1>1 DEF Coming
<1>5. promised[c] = Coming(t)
  BY DEF CallsInv, InCall
<1>6. pc'[t] = "idle"
  BY <1>2, ReturnedIdle
<1> QED BY <1>3, <1>4, <1>5, <1>6 DEF Lands, InCall

\* A replaced order has its new terms and process_order to come.
LEMMA ReplaceCommittedLands ==
  ASSUME CoreInv, LocksHeld, Agreement, CallsInv, NEW t \in Threads, ReplaceCommitted(t),
         UNCHANGED promised, NEW c, c = MessageSymbol(req[t])
  PROVE  Lands(t, c)
<1>1. PICK id, part, st, revised, price, quantity :
        /\ id = req[t].order_id /\ part = PartOf(c) /\ revised = Revised(t)
        /\ price = req[t].price /\ quantity = req[t].quantity
        /\ st = Renewed(order_states[id], price, quantity)
  OBVIOUS
<1>2. /\ pc[t] = "replace" /\ Replaceable(revised)
      /\ order_states' = [order_states EXCEPT ![id] = st]
      /\ incoming' = [incoming EXCEPT ![t] = revised]
      /\ pc' = [pc EXCEPT ![t] = "match"]
      /\ UNCHANGED <<symbol_mutexes, books, req, matched>>
  BY <1>1 DEF ReplaceCommitted, Goto
<1>3. /\ c = snap[t].symbol /\ c \in Symbols /\ c \in Registered
      /\ symbol_mutexes[c] = t
      /\ id \in DOMAIN order_states /\ order_states[id].symbol = c
      /\ snap[t] = order_states[id] /\ order_states[id] \in OrderStates
      /\ req[t] \in Message /\ req[t].kind = "G" /\ matched[t] = <<>>
  <2>1. req[t].kind = "G"
    BY <1>2 DEF CoreInv, HandlerOK
  <2> QED BY <1>1, <1>2, <2>1, AmendCall DEF Belongs
<1>4. st.symbol = c
  BY <1>1, <1>3 DEF Renewed, OrderStates
<1>5. /\ DOMAIN order_states' = DOMAIN order_states \cup {id}
      /\ order_states'[id] = st
      /\ \A x \in DOMAIN order_states : x # id => order_states'[x] = order_states[x]
  BY <1>2, <1>3
<1>6. PICK ex : ex = WithState(part, id, st)
  OBVIOUS
<1>7. PartOf(c)' = ex
  <2>1. PartOf(c)' = WithState(part, id, st)
    BY <1>1, <1>2, <1>3, <1>4, <1>5, PartWith
  <2> QED BY <1>6, <2>1
<1>8. promised[c] = Process(ex, revised).ex
  <2>1. promised[c] = Coming(t)
    BY <1>2 DEF CallsInv, InCall
  <2>2. Coming(t) = Process(WithState(part, id, Renewed(snap[t], price, quantity)),
                            revised).ex
    BY <1>1, <1>2, Zenon DEF Coming
  <2> QED BY <1>1, <1>3, <1>6, <2>1, <2>2
<1>9. /\ pc'[t] = "match" /\ incoming'[t] = revised /\ matched'[t] = <<>>
      /\ symbol_mutexes'[c] = t /\ MessageSymbol(req[t])' = c
  BY <1>2, <1>3 DEF CoreInv, TypeOK, ThreadsTypeOK, MessageSymbol
<1>10. revised \in Order /\ revised.symbol = c
  <2>1. price \in Prices /\ quantity \in Int /\ id \in OrderId
    BY <1>1, <1>3, QuantitiesAssumption DEF Message
  <2>2. PICK old : old = snap[t]
    OBVIOUS
  <2>3. old.symbol = c /\ old.side \in Side /\ old.filled_quantity \in Int
    BY <1>3, <2>2 DEF OrderStates
  <2>4. revised = [order_id |-> id, symbol |-> old.symbol, side |-> old.side,
                   price |-> price, quantity |-> quantity - old.filled_quantity]
    BY <1>1, <2>2 DEF Revised
  <2> QED BY <1>3, <2>1, <2>3, <2>4 DEF Order
<1>11. ex.books = OneBook(c, books[c])
  <2>1. WithState(part, id, st).books = OneBook(c, books[c])
    BY <1>1, <1>3, BooksOfWith
  <2> QED BY <1>6, <2>1
<1>12. Process(ex, revised).ex = Coming(t)'
  BY <1>2, <1>3, <1>7, <1>9, <1>10, <1>11, CallBegins
<1> QED BY <1>8, <1>9, <1>12 DEF Lands, InCall

-----------------------------------------------------------------------------
(* Every step.                                                             *)

\* Whatever a handler does, it lands.
LEMMA StepLands ==
  ASSUME CoreInv, LocksHeld, Agreement, CallsInv, NEW t \in Threads,
         NEW c, c = MessageSymbol(req[t]),
         \/ Enter(t) /\ promised' = [promised EXCEPT ![c] = Outcome(t)]
         \/ Continue(t) /\ UNCHANGED promised
  PROVE  Lands(t, c)
<1>1. CASE Enter(t) /\ promised' = [promised EXCEPT ![c] = Outcome(t)]
  BY <1>1, SubmitRejectedLands, SubmitAcceptedLands, AmendRefusedLands, AmendStartedLands
     DEF Enter
<1>2. CASE Continue(t) /\ UNCHANGED promised
  <2>1. CASE CancelDone(t) \/ ReplaceAbandoned(t)
    BY <1>2, <2>1, CancelledLands DEF CancelDone, ReplaceAbandoned
  <2> QED BY <1>2, <2>1, MatchOneLands, MatchedNothingLands, MatchedSomeLands,
             ApplyTradeLands, ApplyLastTradeLands, PullLands, ReplaceCommittedLands
          DEF Continue
<1> QED BY <1>1, <1>2

\* Every step of every thread keeps it.
LEMMA NextCalls ==
  ASSUME CoreInv, LocksHeld, Agreement, CallsInv, [CallsNext]_<<vars, promised>>
  PROVE  CallsInv'
<1>1. CASE UNCHANGED <<vars, promised>>
  BY <1>1, StutterCalls
<1>2. CASE CallsNext
  <2>1. PICK t \in Threads :
          \/ Receive(t) /\ UNCHANGED promised
          \/ Enter(t) /\ promised' = [promised EXCEPT ![MessageSymbol(req[t])] = Outcome(t)]
          \/ Continue(t) /\ UNCHANGED promised
    BY <1>2 DEF CallsNext
  <2>2. CASE Receive(t) /\ UNCHANGED promised
    BY <2>2, ReceiveCalls
  <2>3. CASE ~(Receive(t) /\ UNCHANGED promised)
    <3>1. PICK c, given : c = MessageSymbol(req[t]) /\ given = Outcome(t)
      OBVIOUS
    <3>2. \/ Enter(t) /\ promised' = [promised EXCEPT ![c] = given]
          \/ Continue(t) /\ UNCHANGED promised
      BY <2>1, <2>3, <3>1
    <3>3. Lands(t, c)
      BY <3>1, <3>2, StepLands
    <3> QED BY <3>1, <3>2, <3>3, CallsStep
  <2> QED BY <2>2, <2>3
<1> QED BY <1>1, <1>2

\* Before the first call nothing was promised but what there is.
LEMMA InitCalls == CallsInit => CallsInv
<1> SUFFICES ASSUME CallsInit PROVE CallsInv
  OBVIOUS
<1>1. /\ promised = [s \in Symbols |-> PartOf(s)]
      /\ \A t \in Threads : pc[t] = "idle"
  BY DEF CallsInit, Init
<1>2. CallsAreFunctions
  BY <1>1 DEF CallsAreFunctions
<1>3. promised = [s \in Symbols |-> promised[s]]
  BY <1>1
<1> QED BY <1>1, <1>2, <1>3 DEF CallsInv, InCall

\* A call on its way will end where its function says it does: CallsInv is an
\* invariant, when clients name their orders' own symbols.
THEOREM CallsInvAlways ==
  ASSUME NamesOwnSymbol
  PROVE  CallsSpec => []CallsInv
<1>1. CallsSpec => Spec
  <2>1. CallsInit => Init
    BY DEF CallsInit
  <2>2. [CallsNext]_<<vars, promised>> => [Next]_vars
    BY DEF CallsNext, Next
  <2> QED BY <2>1, <2>2, PTL DEF CallsSpec, Spec
<1>2. IndInv /\ Agreement /\ CallsInv /\ [CallsNext]_<<vars, promised>> => CallsInv'
  BY NextCalls DEF IndInv
<1> QED BY <1>1, <1>2, InitCalls, IndInvAlways, AgreementAlways, PTL DEF CallsSpec

\* The many steps of submit_order, cancel_order and modify_order, with any
\* number of handler threads at work on other symbols, add up to one function
\* of the symbol's orders and book each.
THEOREM CallsAreFunctionsAlways ==
  ASSUME NamesOwnSymbol
  PROVE  CallsSpec => []CallsAreFunctions
<1>1. CallsInv => CallsAreFunctions
  BY DEF CallsInv
<1> QED BY <1>1, CallsInvAlways, PTL
=============================================================================
