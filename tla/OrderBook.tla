------------------------------ MODULE OrderBook ------------------------------
(***************************************************************************)
(* One side of an order book (include/matching/order_book.h,               *)
(* src/matching/order_book.cpp) as a value, and the operations on it.      *)
(*                                                                         *)
(* bids and asks are std::map<Price, std::deque<Order>>.  A side is here a *)
(* function `levels` whose domain is the set of prices that have a level   *)
(* and whose value at a price is that level's queue.  A level that is      *)
(* present with an empty queue differs from an absent one, as in the code, *)
(* where front() of an empty deque is undefined.  Of an Order in a queue   *)
(* only the id and the shares left are kept: its price is the level's, its *)
(* side and symbol are the book's.                                         *)
(***************************************************************************)
EXTENDS OrderState, SequencesExt

Entry == [order_id : OrderId, quantity : Int]

\* A side of a book on which nothing rests.
NoLevels == [p \in {} |-> <<>>]

IsLevels(levels) ==
  /\ DOMAIN levels \subseteq Prices
  /\ levels \in [DOMAIN levels -> Seq(Entry)]

\* Levels whose entries all come from E, none of them empty.
Tidy(levels, E) ==
  /\ DOMAIN levels \subseteq Prices
  /\ levels \in [DOMAIN levels -> Seq(E)]
  /\ \A p \in DOMAIN levels : levels[p] # <<>>

\* The levels hold each order of `content`, a function from ids to pairs of
\* price and shares, in one place, and nothing else.
Holds(levels, content) ==
  /\ \A p \in DOMAIN levels : \A i \in DOMAIN levels[p] :
       /\ levels[p][i].order_id \in DOMAIN content
       /\ content[levels[p][i].order_id] = <<p, levels[p][i].quantity>>
  /\ \A p \in DOMAIN levels : \A i, j \in DOMAIN levels[p] :
       levels[p][i].order_id = levels[p][j].order_id => i = j
  /\ \A id \in DOMAIN content : \E p \in DOMAIN levels : \E i \in DOMAIN levels[p] :
       levels[p][i].order_id = id

\* match_book.begin(): std::greater orders bids, std::less orders asks.
Best(side, levels) ==
  CHOOSE p \in DOMAIN levels :
    \A q \in DOMAIN levels : AtLeastAsGood(side, p, q)

SetLevel(levels, price, queue) ==
  [p \in DOMAIN levels \cup {price} |-> IF p = price THEN queue ELSE levels[p]]

DropLevel(levels, price) == [p \in DOMAIN levels \ {price} |-> levels[p]]

\* Plausible defect: an emptied level is left in the map.
StoreQueue_KeepsEmpty(levels, price, queue) == SetLevel(levels, price, queue)

\* A level is erased as soon as its queue is empty.
StoreQueue(levels, price, queue) ==
  IF queue = <<>> THEN DropLevel(levels, price)
                  ELSE SetLevel(levels, price, queue)

\* levels[price], which operator[] creates empty when it is absent.
QueueAt(levels, price) == IF price \in DOMAIN levels THEN levels[price] ELSE <<>>

\* Plausible defect: the remainder jumps the queue.
Rest_Front(levels, price, entry) ==
  SetLevel(levels, price, <<entry>> \o QueueAt(levels, price))

\* bids[incoming.price].push_back(incoming), and likewise for asks.
Rest(levels, price, entry) ==
  SetLevel(levels, price, Append(QueueAt(levels, price), entry))

\* Plausible defect: the resting order is popped even when shares are left.
TakeFront_AlwaysPops(levels, price, traded) ==
  StoreQueue(levels, price, Tail(levels[price]))

\* The front order of the level loses `traded` shares and leaves at zero.
TakeFront(levels, price, traded) ==
  LET queue == levels[price]
  IN  IF queue[1].quantity = traded
        THEN StoreQueue(levels, price, Tail(queue))
        ELSE StoreQueue(levels, price, [queue EXCEPT ![1].quantity = @ - traded])

IsQueued(levels, price, id) ==
  /\ price \in DOMAIN levels
  /\ \E i \in DOMAIN levels[price] : levels[price][i].order_id = id

\* OrderBook::cancel_order: the first entry with this id at this price.
CancelFromLevel(levels, price, id) ==
  IF ~IsQueued(levels, price, id)
    THEN levels
    ELSE LET queue == levels[price]
             first == CHOOSE i \in DOMAIN queue :
                        /\ queue[i].order_id = id
                        /\ \A j \in 1..(i - 1) : queue[j].order_id # id
         IN  StoreQueue(levels, price, RemoveAt(queue, first))
=============================================================================
