--------------------------- MODULE Operators_proofs ---------------------------
(***************************************************************************)
(* What the operators the models are built from return and preserve.       *)
(* OrderBook: the operations on one side of a book, for every finite set   *)
(* of prices.  RiskEngine: check_order approves an order when all eight    *)
(* checks do, and goes on approving it as it loses shares, for every       *)
(* RiskContext with whole numbers for limits and every order with a price  *)
(* that is not negative.                                                   *)
(***************************************************************************)
EXTENDS OrderBook, RiskEngine, FiniteSetTheorems, SequenceTheorems, NaturalsInduction,
        WellFoundedInduction, TLAPS

NatLess == {p \in Nat \X Nat : p[1] < p[2]}

\* Every non-empty set of naturals has a least element.
LEMMA LeastNatural ==
  ASSUME NEW T \in SUBSET Nat, T # {}
  PROVE  \E n \in T : \A m \in T : n <= m
<1>1. IsWellFoundedOn(NatLess, Nat)
  BY NatLessThanWellFounded DEF NatLess, OpToRel, IsWellFoundedOn
<1>2. PICK n \in T : \A m \in T : ~ (<<m, n>> \in NatLess)
  BY <1>1, WFMin
<1>3. ASSUME NEW m \in T PROVE n <= m
  <2>1. <<m, n>> \in Nat \X Nat /\ <<m, n>>[1] = m /\ <<m, n>>[2] = n
    OBVIOUS
  <2>2. ~ (m < n)
    BY <1>2, <2>1 DEF NatLess
  <2> QED BY <2>2
<1> QED BY <1>3

\* A finite non-empty set of prices has a best one for either side.
LEMMA BestPriceExists ==
  ASSUME NEW side \in Side,
         NEW S0 \in SUBSET Int, IsFiniteSet(S0), S0 # {}
  PROVE  \E p \in S0 : \A q \in S0 : AtLeastAsGood(side, p, q)
<1> DEFINE HasBest(S) == \E p \in S : \A q \in S : AtLeastAsGood(side, p, q)
           Bad == {n \in Nat : \E S \in SUBSET Int :
                     /\ IsFiniteSet(S) /\ S # {} /\ Cardinality(S) = n /\ ~HasBest(S)}
<1>1. Bad = {}
  <2> SUFFICES ASSUME Bad # {} PROVE FALSE
    OBVIOUS
  <2>1. PICK n \in Bad : \A m \in Bad : n <= m
    BY LeastNatural
  <2>2. PICK S \in SUBSET Int :
          /\ IsFiniteSet(S) /\ S # {} /\ Cardinality(S) = n /\ ~HasBest(S)
    BY <2>1
  <2>3. PICK x \in S : TRUE
    BY <2>2
  <2> DEFINE R == S \ {x}
  <2>4. IsFiniteSet(R) /\ Cardinality(R) = n - 1 /\ R \in SUBSET Int
    BY <2>2, <2>3, FS_RemoveElement
  <2>5. CASE R = {}
    <3>1. S = {x}
      BY <2>3, <2>5
    <3>2. AtLeastAsGood(side, x, x)
      BY <2>2, <2>3 DEF AtLeastAsGood
    <3> QED BY <3>1, <3>2, <2>2
  <2>6. CASE R # {}
    <3>1. n - 1 \in Nat
      BY <2>4, FS_CardinalityType
    <3>2. n - 1 \notin Bad
      BY <2>1, <3>1
    <3>3. HasBest(R)
      BY <3>1, <3>2, <2>4, <2>6
    <3>4. PICK p \in R : \A q \in R : AtLeastAsGood(side, p, q)
      BY <3>3
    <3>5. p \in Int /\ x \in Int /\ R \subseteq Int
      BY <2>2, <2>3, <3>4
    <3>6. S = R \cup {x}
      BY <2>3
    <3>7. CASE AtLeastAsGood(side, p, x)
      BY <3>4, <3>6, <3>7, <2>2
    <3>8. CASE ~AtLeastAsGood(side, p, x)
      <4>1. \A q \in R : AtLeastAsGood(side, x, q)
        BY <3>4, <3>5, <3>8 DEF AtLeastAsGood, Side
      <4>2. AtLeastAsGood(side, x, x)
        BY <3>5 DEF AtLeastAsGood
      <4> QED BY <4>1, <4>2, <3>6, <2>2, <2>3
    <3> QED BY <3>7, <3>8
  <2> QED BY <2>5, <2>6
<1>2. Cardinality(S0) \in Nat
  BY FS_CardinalityType
<1>3. Cardinality(S0) \notin Bad
  BY <1>1
<1>4. HasBest(S0)
  BY <1>2, <1>3
<1> QED BY <1>4

-----------------------------------------------------------------------------
\* The best price of a side that has a level is the price of a level.
LEMMA BestIsALevel ==
  ASSUME NEW levels, DOMAIN levels \subseteq Prices, DOMAIN levels # {}, NEW side \in Side
  PROVE  /\ Best(side, levels) \in DOMAIN levels
         /\ \A q \in DOMAIN levels : AtLeastAsGood(side, Best(side, levels), q)
<1>1. DOMAIN levels \in SUBSET Int /\ IsFiniteSet(DOMAIN levels)
  BY PricesAssumption, FS_Subset
<1>2. \E p \in DOMAIN levels : \A q \in DOMAIN levels : AtLeastAsGood(side, p, q)
  BY <1>1, BestPriceExists
<1> QED BY <1>2 DEF Best

\* A tidy side stays tidy when more entries are allowed.
LEMMA TidyInLarger ==
  ASSUME NEW E, NEW F, E \subseteq F, NEW levels, Tidy(levels, E)
  PROVE  Tidy(levels, F)
<1>1. ASSUME NEW q \in Seq(E) PROVE q \in Seq(F)
  BY \A i \in 1..Len(q) : q[i] \in F
<1>2. levels \in [DOMAIN levels -> Seq(F)]
  BY <1>1 DEF Tidy
<1> QED BY <1>2 DEF Tidy

\* Giving a level a non-empty queue of allowed entries keeps a side tidy.
LEMMA SetLevelTidy ==
  ASSUME NEW E, NEW levels, Tidy(levels, E), NEW price \in Prices,
         NEW queue \in Seq(E), queue # <<>>
  PROVE  Tidy(SetLevel(levels, price, queue), E)
<1> DEFINE new == SetLevel(levels, price, queue)
<1>1. DOMAIN new = DOMAIN levels \cup {price}
  BY DEF SetLevel
<1>2. \A p \in DOMAIN new : new[p] \in Seq(E) /\ new[p] # <<>>
  BY DEF SetLevel, Tidy
<1>3. new \in [DOMAIN new -> Seq(E)]
  BY <1>2 DEF SetLevel
<1> QED BY <1>1, <1>2, <1>3 DEF Tidy

\* So does erasing a level.
LEMMA DropLevelTidy ==
  ASSUME NEW E, NEW levels, Tidy(levels, E), NEW price
  PROVE  Tidy(DropLevel(levels, price), E)
<1> DEFINE new == DropLevel(levels, price)
<1>1. DOMAIN new = DOMAIN levels \ {price}
  BY DEF DropLevel
<1>2. \A p \in DOMAIN new : new[p] \in Seq(E) /\ new[p] # <<>>
  BY DEF DropLevel, Tidy
<1>3. new \in [DOMAIN new -> Seq(E)]
  BY <1>2 DEF DropLevel
<1> QED BY <1>1, <1>2, <1>3 DEF Tidy

\* Storing a queue never leaves an empty level behind.
LEMMA StoreQueueTidy ==
  ASSUME NEW E, NEW levels, Tidy(levels, E), NEW price \in Prices, NEW queue \in Seq(E)
  PROVE  Tidy(StoreQueue(levels, price, queue), E)
BY SetLevelTidy, DropLevelTidy DEF StoreQueue

\* Resting a remainder keeps a side tidy, whether or not its level exists.
LEMMA RestTidy ==
  ASSUME NEW E, NEW levels, Tidy(levels, E), NEW price \in Prices, NEW entry \in E
  PROVE  Tidy(Rest(levels, price, entry), E)
<1> DEFINE queue == Append(QueueAt(levels, price), entry)
<1>1. QueueAt(levels, price) \in Seq(E)
  BY DEF QueueAt, Tidy
<1>2. queue \in Seq(E) /\ queue # <<>>
  BY <1>1, AppendProperties
<1>3. Tidy(SetLevel(levels, price, queue), E)
  BY <1>2, SetLevelTidy
<1> QED BY <1>3 DEF Rest

\* What is left of the front order of a level.
FrontLeft(levels, price, traded) ==
  [order_id |-> levels[price][1].order_id, quantity |-> levels[price][1].quantity - traded]

\* Filling the front order keeps a side tidy, also when it empties the level.
LEMMA TakeFrontTidy ==
  ASSUME NEW E, NEW levels, Tidy(levels, E), NEW price \in DOMAIN levels, NEW traded \in Int,
         E \subseteq Entry,
         levels[price][1].quantity # traded => FrontLeft(levels, price, traded) \in E
  PROVE  Tidy(TakeFront(levels, price, traded), E)
<1> DEFINE queue == levels[price]
<1>1. queue \in Seq(E) /\ queue # <<>> /\ price \in Prices
  BY DEF Tidy
<1>2. 1 \in DOMAIN queue /\ queue[1] \in E
  BY <1>1
<1>3. Tail(queue) \in Seq(E)
  BY <1>1
<1>4. ASSUME queue[1].quantity # traded
      PROVE  [queue EXCEPT ![1].quantity = @ - traded] \in Seq(E)
  <2>1. queue[1] \in Entry /\ queue[1].quantity - traded \in Int
    BY <1>2 DEF Entry
  <2>2. [queue[1] EXCEPT !.quantity = @ - traded] = FrontLeft(levels, price, traded)
    BY <2>1 DEF Entry, FrontLeft
  <2>3. [queue[1] EXCEPT !.quantity = @ - traded] \in E
    BY <2>2, <1>4
  <2>4. [queue EXCEPT ![1] = [queue[1] EXCEPT !.quantity = @ - traded]] \in Seq(E)
    BY <1>1, <1>2, <2>3, ExceptSeq
  <2> QED BY <2>4
<1> QED BY <1>1, <1>3, <1>4, StoreQueueTidy DEF TakeFront

\* Cancelling keeps a side tidy, whether or not the order still rests there.
LEMMA CancelFromLevelTidy ==
  ASSUME NEW E, NEW levels, Tidy(levels, E), NEW price \in Prices, NEW id
  PROVE  Tidy(CancelFromLevel(levels, price, id), E)
<1>1. CASE ~IsQueued(levels, price, id)
  BY <1>1 DEF CancelFromLevel
<1>2. CASE IsQueued(levels, price, id)
  <2> DEFINE queue == levels[price]
             Mine  == {i \in DOMAIN queue : queue[i].order_id = id}
             first == CHOOSE i \in DOMAIN queue :
                        /\ queue[i].order_id = id
                        /\ \A j \in 1..(i - 1) : queue[j].order_id # id
  <2>1. queue \in Seq(E) /\ DOMAIN queue = 1..Len(queue) /\ Len(queue) \in Nat
    BY <1>2 DEF IsQueued, Tidy
  <2>2. Mine \in SUBSET Nat /\ Mine # {}
    BY <1>2, <2>1 DEF IsQueued
  <2>3. PICK i \in Mine : \A m \in Mine : i <= m
    BY <2>2, LeastNatural
  <2>4. \A j \in 1..(i - 1) : queue[j].order_id # id
    BY <2>1, <2>3
  <2>5. first \in DOMAIN queue
    BY <2>3, <2>4
  <2> HIDE DEF first, queue
  <2>6. /\ SubSeq(queue, 1, first - 1) \in Seq(E)
        /\ SubSeq(queue, first + 1, Len(queue)) \in Seq(E)
    <3>1. first \in Int /\ first - 1 \in Int /\ first + 1 \in Int /\ Len(queue) \in Int
      BY <2>1, <2>5
    <3>2. \A j \in 1..(first - 1) : queue[j] \in E
      BY <2>1, <2>5
    <3>3. \A j \in (first + 1)..Len(queue) : queue[j] \in E
      BY <2>1, <2>5
    <3>4. SubSeq(queue, 1, first - 1) \in Seq(E)
      BY <3>1, <3>2, SubSeqProperties
    <3>5. SubSeq(queue, first + 1, Len(queue)) \in Seq(E)
      BY <3>1, <3>3, SubSeqProperties
    <3> QED BY <3>4, <3>5
  <2>7. RemoveAt(queue, first) \in Seq(E)
    BY <2>6, ConcatProperties DEF RemoveAt
  <2>8. Tidy(StoreQueue(levels, price, RemoveAt(queue, first)), E)
    BY <2>7, StoreQueueTidy
  <2> QED BY <1>2, <2>8 DEF CancelFromLevel, first, queue
<1> QED BY <1>1, <1>2

-----------------------------------------------------------------------------
(* What a side holds, as a function from ids to prices and shares.         *)

\* The levels of `side` are `levels` with `queue` at a price.
LevelReplaced(levels, price, queue, side) ==
  /\ \A p : p \in DOMAIN side <=>
       IF p = price THEN queue # <<>> ELSE p \in DOMAIN levels
  /\ \A p \in DOMAIN side : side[p] = IF p = price THEN queue ELSE levels[p]

\* `content` is `old` with the orders at a price replaced by those of `queue`.
ContentReplaced(old, price, queue, content) ==
  /\ \A i \in DOMAIN queue :
       /\ queue[i].order_id \in DOMAIN content
       /\ content[queue[i].order_id] = <<price, queue[i].quantity>>
  /\ \A i, j \in DOMAIN queue : queue[i].order_id = queue[j].order_id => i = j
  /\ \A id \in DOMAIN old : old[id][1] # price =>
       id \in DOMAIN content /\ content[id] = old[id]
  /\ \A id \in DOMAIN content :
       \/ id \in DOMAIN old /\ old[id][1] # price
       \/ \E i \in DOMAIN queue : queue[i].order_id = id

\* Storing a queue changes that level only, and erases it if it is empty.
LEMMA StoreQueueIs ==
  ASSUME NEW levels, NEW price, NEW queue
  PROVE  LevelReplaced(levels, price, queue, StoreQueue(levels, price, queue))
BY DEF StoreQueue, SetLevel, DropLevel, LevelReplaced

\* When one level gets another queue, the side holds what the other levels held
\* and what is in the queue.
LEMMA HoldsReplaced ==
  ASSUME NEW levels, NEW old, Holds(levels, old), NEW price, NEW queue,
         NEW side, NEW content,
         LevelReplaced(levels, price, queue, side),
         ContentReplaced(old, price, queue, content)
  PROVE  Holds(side, content)
<1> USE DEF LevelReplaced, ContentReplaced
<1>1. ASSUME NEW p \in DOMAIN side, NEW i \in DOMAIN side[p]
      PROVE  /\ side[p][i].order_id \in DOMAIN content
             /\ content[side[p][i].order_id] = <<p, side[p][i].quantity>>
  <2>1. CASE p = price
    BY <2>1
  <2>2. CASE p # price
    <3>1. p \in DOMAIN levels /\ side[p] = levels[p]
      BY <2>2
    <3>2. /\ side[p][i].order_id \in DOMAIN old
          /\ old[side[p][i].order_id] = <<p, side[p][i].quantity>>
      BY <3>1 DEF Holds
    <3>3. old[side[p][i].order_id][1] = p
      BY <3>2
    <3> QED BY <2>2, <3>2, <3>3
  <2> QED BY <2>1, <2>2
<1>2. ASSUME NEW p \in DOMAIN side, NEW i \in DOMAIN side[p], NEW j \in DOMAIN side[p],
             side[p][i].order_id = side[p][j].order_id
      PROVE  i = j
  <2>1. CASE p = price
    BY <1>2, <2>1
  <2>2. CASE p # price
    BY <1>2, <2>2 DEF Holds
  <2> QED BY <2>1, <2>2
<1>3. ASSUME NEW id \in DOMAIN content
      PROVE  \E p \in DOMAIN side : \E i \in DOMAIN side[p] : side[p][i].order_id = id
  <2>1. CASE id \in DOMAIN old /\ old[id][1] # price
    <3>1. PICK p \in DOMAIN levels : \E i \in DOMAIN levels[p] : levels[p][i].order_id = id
      BY <2>1 DEF Holds
    <3>2. PICK i \in DOMAIN levels[p] : levels[p][i].order_id = id
      BY <3>1
    <3>3. old[id] = <<p, levels[p][i].quantity>>
      BY <3>2 DEF Holds
    <3>4. p # price
      BY <2>1, <3>3
    <3> QED BY <3>2, <3>4
  <2>2. CASE \E i \in DOMAIN queue : queue[i].order_id = id
    <3>1. queue # <<>>
      <4>1. DOMAIN <<>> = {}
        OBVIOUS
      <4> QED BY <2>2, <4>1
    <3> QED BY <2>2, <3>1
  <2> QED BY <2>1, <2>2
<1> QED BY <1>1, <1>2, <1>3 DEF Holds

\* An order that comes to rest is added to what the side holds.
LEMMA HoldsRest ==
  ASSUME NEW E, NEW levels, Tidy(levels, E), NEW old, Holds(levels, old),
         NEW price \in Prices, NEW entry, entry.order_id \notin DOMAIN old,
         NEW content,
         content = [x \in DOMAIN old \cup {entry.order_id} |->
                      IF x = entry.order_id THEN <<price, entry.quantity>> ELSE old[x]]
  PROVE  Holds(Rest(levels, price, entry), content)
<1> DEFINE before == QueueAt(levels, price)
           queue  == Append(before, entry)
           side   == Rest(levels, price, entry)
<1>1. before \in Seq(E)
  BY DEF QueueAt, Tidy
<1>2. /\ Len(before) \in Nat /\ DOMAIN before = 1..Len(before)
      /\ DOMAIN queue = 1..(Len(before) + 1)
      /\ queue[Len(before) + 1] = entry
      /\ \A i \in 1..Len(before) : queue[i] = before[i]
  <2>1. before \in Seq(E \cup {entry})
    BY <1>1, \A i \in 1..Len(before) : before[i] \in E
  <2> QED BY <2>1, AppendProperties
<1>3. \A i \in DOMAIN before :
        /\ before[i].order_id \in DOMAIN old
        /\ old[before[i].order_id] = <<price, before[i].quantity>>
  BY DEF QueueAt, Holds
<1>4. \A i, j \in DOMAIN before : before[i].order_id = before[j].order_id => i = j
  BY DEF QueueAt, Holds
<1>5. queue # <<>>
  BY <1>2
<1>6. LevelReplaced(levels, price, queue, side)
  BY <1>5 DEF Rest, SetLevel, LevelReplaced
<1>7. ASSUME NEW id \in DOMAIN old, old[id][1] = price
      PROVE  \E i \in DOMAIN before : before[i].order_id = id
  <2>1. PICK p \in DOMAIN levels : \E i \in DOMAIN levels[p] : levels[p][i].order_id = id
    BY DEF Holds
  <2>2. PICK i \in DOMAIN levels[p] : levels[p][i].order_id = id
    BY <2>1
  <2>3. old[id] = <<p, levels[p][i].quantity>>
    BY <2>2 DEF Holds
  <2>4. p = price
    BY <1>7, <2>3
  <2> QED BY <2>2, <2>4 DEF QueueAt
<1> HIDE DEF before, queue, side
<1>8. ContentReplaced(old, price, queue, content)
  <2>1. \A i \in DOMAIN queue :
          /\ queue[i].order_id \in DOMAIN content
          /\ content[queue[i].order_id] = <<price, queue[i].quantity>>
    BY <1>2, <1>3
  <2>2. \A i, j \in DOMAIN queue : queue[i].order_id = queue[j].order_id => i = j
    BY <1>2, <1>3, <1>4
  <2>3. \A id \in DOMAIN content :
          \/ id \in DOMAIN old /\ old[id][1] # price
          \/ \E i \in DOMAIN queue : queue[i].order_id = id
    BY <1>2, <1>7
  <2>4. \A id \in DOMAIN old : old[id][1] # price =>
          id \in DOMAIN content /\ content[id] = old[id]
    OBVIOUS
  <2> QED BY <2>1, <2>2, <2>3, <2>4, Zenon DEF ContentReplaced
<1>9. Holds(side, content)
  BY <1>6, <1>8, HoldsReplaced
<1> QED BY <1>9 DEF side

\* The orders at the price of a level are those of its queue.
LEMMA HeldAtLevel ==
  ASSUME NEW levels, NEW old, Holds(levels, old), NEW price \in DOMAIN levels
  PROVE  /\ \A i \in DOMAIN levels[price] :
              /\ levels[price][i].order_id \in DOMAIN old
              /\ old[levels[price][i].order_id] = <<price, levels[price][i].quantity>>
         /\ \A i, j \in DOMAIN levels[price] :
              levels[price][i].order_id = levels[price][j].order_id => i = j
         /\ \A id \in DOMAIN old : old[id][1] = price =>
              \E i \in DOMAIN levels[price] : levels[price][i].order_id = id
<1>1. ASSUME NEW id \in DOMAIN old, old[id][1] = price
      PROVE  \E i \in DOMAIN levels[price] : levels[price][i].order_id = id
  <2>1. PICK p \in DOMAIN levels : \E i \in DOMAIN levels[p] : levels[p][i].order_id = id
    BY DEF Holds
  <2>2. PICK i \in DOMAIN levels[p] : levels[p][i].order_id = id
    BY <2>1
  <2>3. old[id] = <<p, levels[p][i].quantity>>
    BY <2>2 DEF Holds
  <2>4. p = price
    BY <1>1, <2>3
  <2> QED BY <2>2, <2>4
<1> QED BY <1>1 DEF Holds

\* A front order that gives all its shares is no longer held.
LEMMA HoldsFrontGone ==
  ASSUME NEW E, NEW levels, Tidy(levels, E), NEW old, Holds(levels, old),
         NEW price \in DOMAIN levels, NEW traded,
         levels[price][1].quantity = traded,
         NEW content,
         content = [x \in DOMAIN old \ {levels[price][1].order_id} |-> old[x]]
  PROVE  Holds(TakeFront(levels, price, traded), content)
<1> DEFINE before == levels[price]
           queue  == Tail(before)
<1>1. before \in Seq(E) /\ before # <<>>
  BY DEF Tidy
<1>2. /\ Len(before) \in Nat /\ Len(before) > 0 /\ DOMAIN before = 1..Len(before)
      /\ DOMAIN queue = 1..(Len(before) - 1)
      /\ \A i \in 1..(Len(before) - 1) : queue[i] = before[i + 1]
  BY <1>1
<1>3. /\ \A i \in DOMAIN before :
           /\ before[i].order_id \in DOMAIN old
           /\ old[before[i].order_id] = <<price, before[i].quantity>>
      /\ \A i, j \in DOMAIN before : before[i].order_id = before[j].order_id => i = j
      /\ \A id \in DOMAIN old : old[id][1] = price =>
           \E i \in DOMAIN before : before[i].order_id = id
  BY HeldAtLevel
<1>4. TakeFront(levels, price, traded) = StoreQueue(levels, price, queue)
  BY DEF TakeFront
<1> HIDE DEF before, queue
<1>5. ContentReplaced(old, price, queue, content)
  <2>1. DOMAIN content = DOMAIN old \ {before[1].order_id}
    BY DEF before
  <2>2. \A id \in DOMAIN content : content[id] = old[id]
    BY <2>1
  <2>3. \A i \in DOMAIN queue :
          /\ queue[i].order_id \in DOMAIN content
          /\ content[queue[i].order_id] = <<price, queue[i].quantity>>
    <3> SUFFICES ASSUME NEW i \in DOMAIN queue
                 PROVE  /\ queue[i].order_id \in DOMAIN content
                        /\ content[queue[i].order_id] = <<price, queue[i].quantity>>
      OBVIOUS
    <3>1. queue[i] = before[i + 1] /\ i + 1 \in DOMAIN before /\ 1 \in DOMAIN before
            /\ i + 1 # 1
      BY <1>2
    <3>2. queue[i].order_id \in DOMAIN content
      BY <1>3, <2>1, <3>1
    <3> QED BY <1>3, <2>2, <3>1, <3>2
  <2>4. ASSUME NEW i \in DOMAIN queue, NEW j \in DOMAIN queue,
               queue[i].order_id = queue[j].order_id
        PROVE  i = j
    <3>1. i + 1 \in DOMAIN before /\ j + 1 \in DOMAIN before
            /\ queue[i] = before[i + 1] /\ queue[j] = before[j + 1]
            /\ i \in Int /\ j \in Int
      BY <1>2
    <3>2. i + 1 = j + 1
      BY <1>3, <2>4, <3>1
    <3> QED BY <3>1, <3>2
  <2>5. ASSUME NEW id \in DOMAIN old, old[id][1] # price
        PROVE  id \in DOMAIN content /\ content[id] = old[id]
    <3>1. old[before[1].order_id][1] = price
      BY <1>2, <1>3
    <3> QED BY <2>1, <2>2, <2>5, <3>1
  <2>6. ASSUME NEW id \in DOMAIN content, old[id][1] = price
        PROVE  \E i \in DOMAIN queue : queue[i].order_id = id
    <3>1. PICK i \in DOMAIN before : before[i].order_id = id
      BY <1>3, <2>1, <2>6
    <3>2. i # 1
      BY <2>1, <3>1
    <3>3. i - 1 \in DOMAIN queue /\ queue[i - 1] = before[i]
      <4>1. i \in Nat /\ i - 1 \in 1..(Len(before) - 1) /\ (i - 1) + 1 = i
        BY <1>2, <3>2
      <4> QED BY <1>2, <4>1
    <3> QED BY <3>1, <3>3
  <2> QED BY <2>1, <2>3, <2>4, <2>5, <2>6 DEF ContentReplaced
<1> QED BY <1>4, <1>5, StoreQueueIs, HoldsReplaced

\* A front order that gives some of its shares is held for the rest of them.
LEMMA HoldsFrontLess ==
  ASSUME NEW E, E \subseteq Entry, NEW levels, Tidy(levels, E),
         NEW old, Holds(levels, old),
         NEW price \in DOMAIN levels, NEW traded \in Int,
         levels[price][1].quantity # traded,
         NEW content,
         content = [x \in DOMAIN old |->
                      IF x = levels[price][1].order_id
                        THEN <<price, levels[price][1].quantity - traded>> ELSE old[x]]
  PROVE  Holds(TakeFront(levels, price, traded), content)
<1> DEFINE before == levels[price]
           queue  == [before EXCEPT ![1].quantity = @ - traded]
<1>1. before \in Seq(E) /\ before # <<>>
  BY DEF Tidy
<1>2. /\ DOMAIN before = 1..Len(before) /\ 1 \in DOMAIN before
      /\ DOMAIN queue = DOMAIN before
      /\ before[1] \in Entry
      /\ queue[1] = [before[1] EXCEPT !.quantity = @ - traded]
      /\ \A i \in DOMAIN before : i # 1 => queue[i] = before[i]
  BY <1>1
<1>3. /\ \A i \in DOMAIN before :
           /\ before[i].order_id \in DOMAIN old
           /\ old[before[i].order_id] = <<price, before[i].quantity>>
      /\ \A i, j \in DOMAIN before : before[i].order_id = before[j].order_id => i = j
      /\ \A id \in DOMAIN old : old[id][1] = price =>
           \E i \in DOMAIN before : before[i].order_id = id
  BY HeldAtLevel
<1>4. TakeFront(levels, price, traded) = StoreQueue(levels, price, queue)
  BY DEF TakeFront
<1>5. /\ DOMAIN content = DOMAIN old
      /\ \A x \in DOMAIN old :
           content[x] = IF x = before[1].order_id
                          THEN <<price, before[1].quantity - traded>> ELSE old[x]
  OBVIOUS
<1> HIDE DEF before, queue
<1>6. /\ queue[1].order_id = before[1].order_id
      /\ queue[1].quantity = before[1].quantity - traded
  BY <1>2 DEF Entry
<1>7. ContentReplaced(old, price, queue, content)
  <2>1. \A i \in DOMAIN before : queue[i].order_id = before[i].order_id
    BY <1>2, <1>6
  <2>2. \A i \in DOMAIN queue :
          /\ queue[i].order_id \in DOMAIN content
          /\ content[queue[i].order_id] = <<price, queue[i].quantity>>
    <3> SUFFICES ASSUME NEW i \in DOMAIN before
                 PROVE  /\ queue[i].order_id \in DOMAIN content
                        /\ content[queue[i].order_id] = <<price, queue[i].quantity>>
      BY <1>2
    <3>1. CASE i = 1
      <4>1. before[1].order_id \in DOMAIN old
        BY <1>2, <1>3
      <4>2. content[before[1].order_id] = <<price, before[1].quantity - traded>>
        BY <1>5, <4>1
      <4> QED BY <1>5, <1>6, <3>1, <4>1, <4>2
    <3>2. CASE i # 1
      <4>1. queue[i] = before[i] /\ before[i].order_id \in DOMAIN old
        BY <1>2, <1>3, <3>2
      <4>2. before[i].order_id # before[1].order_id
        BY <1>2, <1>3, <3>2
      <4>3. content[before[i].order_id] = old[before[i].order_id]
        BY <1>5, <4>1, <4>2
      <4> QED BY <1>3, <1>5, <4>1, <4>3
    <3> QED BY <3>1, <3>2
  <2>3. \A i, j \in DOMAIN queue : queue[i].order_id = queue[j].order_id => i = j
    BY <1>2, <1>3, <2>1
  <2>4. ASSUME NEW id \in DOMAIN old, old[id][1] # price
        PROVE  id \in DOMAIN content /\ content[id] = old[id]
    <3>1. old[before[1].order_id][1] = price
      BY <1>2, <1>3
    <3> QED BY <1>5, <2>4, <3>1
  <2>5. \A id \in DOMAIN content :
          \/ id \in DOMAIN old /\ old[id][1] # price
          \/ \E i \in DOMAIN queue : queue[i].order_id = id
    BY <1>2, <1>3, <1>5, <2>1
  <2> QED BY <2>2, <2>3, <2>4, <2>5 DEF ContentReplaced
<1> QED BY <1>4, <1>7, StoreQueueIs, HoldsReplaced

\* A queue without its element at `first`.
LEMMA RemoveAtIs ==
  ASSUME NEW E, NEW q \in Seq(E), NEW first \in DOMAIN q
  PROVE  /\ RemoveAt(q, first) \in Seq(E)
         /\ Len(RemoveAt(q, first)) = Len(q) - 1
         /\ \A i \in 1..(Len(q) - 1) :
              RemoveAt(q, first)[i] = IF i < first THEN q[i] ELSE q[i + 1]
<1> DEFINE front == SubSeq(q, 1, first - 1)
           back  == SubSeq(q, first + 1, Len(q))
<1>1. first \in 1..Len(q) /\ Len(q) \in Nat
  OBVIOUS
<1>2. /\ front \in Seq(E) /\ Len(front) = first - 1
      /\ \A i \in 1..(first - 1) : front[i] = q[i]
  BY <1>1, SubSeqProperties
<1>3. /\ back \in Seq(E) /\ Len(back) = Len(q) - first
      /\ \A i \in 1..(Len(q) - first) : back[i] = q[first + i]
  BY <1>1, SubSeqProperties
<1>4. RemoveAt(q, first) = front \o back
  BY DEF RemoveAt
<1> HIDE DEF front, back
<1> DEFINE both == front \o back
<1>5. /\ both \in Seq(E)
      /\ Len(both) = Len(front) + Len(back)
      /\ \A i \in 1..(Len(front) + Len(back)) :
           both[i] = IF i <= Len(front) THEN front[i] ELSE back[i - Len(front)]
  BY <1>2, <1>3, ConcatProperties
<1>6. RemoveAt(q, first) = both
  BY <1>4
<1> HIDE DEF both
<1>7. first \in Int /\ Len(front) + Len(back) = Len(q) - 1
  BY <1>1, <1>2, <1>3
<1>8. ASSUME NEW i \in 1..(Len(q) - 1)
      PROVE  both[i] = IF i < first THEN q[i] ELSE q[i + 1]
  <2>1. CASE i < first
    <3>1. i \in 1..(first - 1) /\ i <= Len(front)
      BY <1>1, <1>2, <2>1
    <3> QED BY <1>2, <1>5, <1>7, <2>1, <3>1
  <2>2. CASE ~ (i < first)
    <3>1. i - Len(front) \in 1..(Len(q) - first) /\ ~ (i <= Len(front))
      BY <1>1, <1>2, <2>2
    <3>2. first + (i - Len(front)) = i + 1
      BY <1>1, <1>2, <2>2
    <3>3. both[i] = back[i - Len(front)]
      BY <1>5, <1>7, <3>1
    <3> QED BY <1>3, <2>2, <3>1, <3>2, <3>3
  <2> QED BY <2>1, <2>2
<1> QED BY <1>5, <1>6, <1>7, <1>8

\* A cancelled order is no longer held, and no other order is touched.
LEMMA HoldsCancel ==
  ASSUME NEW E, NEW levels, Tidy(levels, E), NEW old, Holds(levels, old),
         NEW price, NEW id, id \in DOMAIN old => old[id][1] = price,
         NEW content, content = [x \in DOMAIN old \ {id} |-> old[x]]
  PROVE  Holds(CancelFromLevel(levels, price, id), content)
<1>1. CASE ~IsQueued(levels, price, id)
  <2>1. id \notin DOMAIN old
    <3> SUFFICES ASSUME id \in DOMAIN old PROVE FALSE
      OBVIOUS
    <3>1. PICK p \in DOMAIN levels : \E i \in DOMAIN levels[p] : levels[p][i].order_id = id
      BY DEF Holds
    <3>2. PICK i \in DOMAIN levels[p] : levels[p][i].order_id = id
      BY <3>1
    <3>3. old[id] = <<p, levels[p][i].quantity>>
      BY <3>2 DEF Holds
    <3>4. p = price
      BY <3>3
    <3> QED BY <1>1, <3>2, <3>4 DEF IsQueued
  <2>2. DOMAIN content = DOMAIN old /\ \A x \in DOMAIN old : content[x] = old[x]
    BY <2>1
  <2>3. CancelFromLevel(levels, price, id) = levels
    BY <1>1 DEF CancelFromLevel
  <2> QED BY <2>2, <2>3 DEF Holds
<1>2. CASE IsQueued(levels, price, id)
  <2> DEFINE before == levels[price]
             Mine   == {i \in DOMAIN before : before[i].order_id = id}
             first  == CHOOSE i \in DOMAIN before :
                         /\ before[i].order_id = id
                         /\ \A j \in 1..(i - 1) : before[j].order_id # id
             queue  == RemoveAt(before, first)
  <2>1. before \in Seq(E) /\ DOMAIN before = 1..Len(before) /\ Len(before) \in Nat
    BY <1>2 DEF IsQueued, Tidy
  <2>2. first \in DOMAIN before /\ before[first].order_id = id
    <3>1. Mine \in SUBSET Nat /\ Mine # {}
      BY <1>2, <2>1 DEF IsQueued
    <3>2. PICK i \in Mine : \A m \in Mine : i <= m
      BY <3>1, LeastNatural
    <3>3. \A j \in 1..(i - 1) : before[j].order_id # id
      BY <2>1, <3>2
    <3> QED BY <3>2, <3>3
  <2>3. /\ \A i \in DOMAIN before :
             /\ before[i].order_id \in DOMAIN old
             /\ old[before[i].order_id] = <<price, before[i].quantity>>
        /\ \A i, j \in DOMAIN before : before[i].order_id = before[j].order_id => i = j
        /\ \A x \in DOMAIN old : old[x][1] = price =>
             \E i \in DOMAIN before : before[i].order_id = x
    BY <1>2, HeldAtLevel DEF IsQueued
  <2>4. CancelFromLevel(levels, price, id) = StoreQueue(levels, price, queue)
    BY <1>2 DEF CancelFromLevel
  <2> HIDE DEF first, before
  <2>5. /\ queue \in Seq(E) /\ Len(queue) = Len(before) - 1
        /\ \A i \in 1..(Len(before) - 1) :
             queue[i] = IF i < first THEN before[i] ELSE before[i + 1]
    BY <2>1, <2>2, RemoveAtIs
  <2>6. DOMAIN queue = 1..(Len(before) - 1)
    BY <2>5
  <2> HIDE DEF queue
  <2> DEFINE Was(i) == IF i < first THEN i ELSE i + 1
  <2>7. \A i \in DOMAIN queue :
          Was(i) \in DOMAIN before /\ Was(i) # first /\ queue[i] = before[Was(i)]
    BY <2>1, <2>2, <2>5, <2>6
  <2>8. \A i, j \in DOMAIN queue : Was(i) = Was(j) => i = j
    BY <2>1, <2>2, <2>6
  <2>9. \A i \in DOMAIN before : i # first => \E j \in DOMAIN queue : Was(j) = i
    <3> SUFFICES ASSUME NEW i \in DOMAIN before, i # first
                 PROVE  \E j \in DOMAIN queue : Was(j) = i
      OBVIOUS
    <3>1. CASE i < first
      BY <2>1, <2>2, <2>6, <3>1
    <3>2. CASE i > first
      <4>1. i - 1 \in DOMAIN queue /\ ~ (i - 1 < first) /\ (i - 1) + 1 = i
        BY <2>1, <2>2, <2>6, <3>2
      <4> QED BY <4>1
    <3> QED BY <2>1, <2>2, <3>1, <3>2
  <2> HIDE DEF Was
  <2>10. ContentReplaced(old, price, queue, content)
    <3>1. /\ DOMAIN content = DOMAIN old \ {id}
          /\ \A x \in DOMAIN content : content[x] = old[x]
      OBVIOUS
    <3>2. \A i \in DOMAIN queue :
            /\ queue[i].order_id \in DOMAIN content
            /\ content[queue[i].order_id] = <<price, queue[i].quantity>>
      BY <2>2, <2>3, <2>7, <3>1
    <3>3. \A i, j \in DOMAIN queue : queue[i].order_id = queue[j].order_id => i = j
      BY <2>3, <2>7, <2>8
    <3>4. \A x \in DOMAIN old : old[x][1] # price =>
            x \in DOMAIN content /\ content[x] = old[x]
      BY <2>2, <2>3, <3>1
    <3>5. ASSUME NEW x \in DOMAIN content, old[x][1] = price
          PROVE  \E i \in DOMAIN queue : queue[i].order_id = x
      <4>1. PICK i \in DOMAIN before : before[i].order_id = x
        BY <2>3, <3>1, <3>5
      <4>2. i # first
        BY <2>2, <3>1, <4>1
      <4> QED BY <2>7, <2>9, <4>1, <4>2
    <3> QED BY <3>1, <3>2, <3>3, <3>4, <3>5 DEF ContentReplaced
  <2>11. LevelReplaced(levels, price, queue, StoreQueue(levels, price, queue))
    BY StoreQueueIs
  <2> QED BY <2>4, <2>10, <2>11, HoldsReplaced
<1> QED BY <1>1, <1>2

-----------------------------------------------------------------------------
(* RiskEngine: what check_order approves.                                  *)

\* The values of a map from symbols are all in S.
MapsInto(map, S) == \A s \in DOMAIN map : map[s] \in S

\* Limits are numbers, and no percentage is negative.
WellFormed(c) ==
  /\ c.available_margin \in Int
  /\ MapsInto(c.var_percentage, Nat) /\ MapsInto(c.elm_percentage, Nat)
  /\ MapsInto(c.upper_circuit_limit, Int) /\ MapsInto(c.lower_circuit_limit, Int)
  /\ c.max_notional_per_order \in Int /\ c.max_notional_per_account \in Int
  /\ c.max_qty_per_order \in Int /\ c.max_qty_per_account \in Int
  /\ MapsInto(c.max_notional_per_symbol, Int) /\ MapsInto(c.max_qty_per_symbol, Int)

AllChecks(c, o) ==
  /\ check_circuit_limits(c, o) /\ check_margin(c, o)
  /\ check_notional_per_order(c, o) /\ check_notional_per_symbol(c, o)
  /\ check_notional_per_account(c, o)
  /\ check_qty_per_order(c, o) /\ check_qty_per_symbol(c, o)
  /\ check_qty_per_account(c, o)

\* An order is approved when all eight checks approve it: whichever check is
\* the first to reject, its reason is not "None".
LEMMA ApprovedIsAllChecks ==
  ASSUME NEW c, NEW o
  PROVE  Approved(c, o) <=> AllChecks(c, o)
<1> DEFINE failed == {i \in 1..8 : ~Checks(c, o)[i][1]}
<1>1. AllChecks(c, o) <=> failed = {}
  <2>1. AllChecks(c, o) <=> \A i \in 1..8 : Checks(c, o)[i][1]
    BY DEF AllChecks, Checks
  <2> QED BY <2>1
<1>2. \A i \in 1..8 : Checks(c, o)[i][2] # "None"
  BY DEF Checks
<1>3. ASSUME failed # {} PROVE \E i \in failed : \A j \in failed : i <= j
  <2>1. failed \subseteq 1..8
    OBVIOUS
  <2> HIDE DEF failed
  <2> DEFINE Least(i) == i \in failed /\ \A j \in failed : i <= j
  <2>2. \A j \in failed : j \in {1, 2, 3, 4, 5, 6, 7, 8}
    BY <2>1
  <2>3. Least(1) \/ Least(2) \/ Least(3) \/ Least(4) \/ Least(5) \/ Least(6)
          \/ Least(7) \/ Least(8)
    BY <1>3, <2>2
  <2> QED BY <2>3
<1>4. CASE failed = {}
  BY <1>1, <1>4 DEF Approved, check_order
<1>5. CASE failed # {}
  <2>1. PICK i \in 1..8 : i = CHOOSE k \in failed : \A j \in failed : k <= j
    BY <1>3, <1>5
  <2>2. check_order(c, o) = Checks(c, o)[i][2]
    BY <1>5, <2>1 DEF check_order
  <2> QED BY <1>1, <1>2, <1>5, <2>2 DEF Approved
<1> QED BY <1>4, <1>5

\* A product grows with its factor.
LEMMA ProductMonotone ==
  ASSUME NEW k \in Nat, NEW a \in Int, NEW b \in Int, a <= b
  PROVE  k * a \in Int /\ k * b \in Int /\ k * a <= k * b
<1>1. b - a \in Nat
  OBVIOUS
<1>2. k * (b - a) \in Nat
  BY <1>1
<1>3. k * (b - a) = k * b - k * a
  OBVIOUS
<1> QED BY <1>2, <1>3

\* Losing shares never makes an order fail a check it passed.
LEMMA FewerSharesPass ==
  ASSUME NEW c, WellFormed(c), NEW o, NEW p,
         o.price \in Nat, o.quantity \in Int, p.quantity \in Int,
         p.symbol = o.symbol, p.price = o.price, p.quantity <= o.quantity,
         Approved(c, o)
  PROVE  Approved(c, p)
<1>1. AllChecks(c, o)
  BY ApprovedIsAllChecks
<1>2. /\ notional(p) \in Int /\ notional(o) \in Int
      /\ notional(p) <= notional(o)
  BY ProductMonotone DEF notional
<1>3. check_circuit_limits(c, p)
  BY <1>1 DEF AllChecks, check_circuit_limits
<1>4. check_margin(c, p)
  <2> DEFINE s == o.symbol
             k == c.var_percentage[s] + c.elm_percentage[s]
  <2> SUFFICES ASSUME s \in DOMAIN c.var_percentage, s \in DOMAIN c.elm_percentage
               PROVE  notional(p) * k <= 100 * c.available_margin
    BY <1>2 DEF check_margin, WellFormed, MapsInto
  <2>1. k \in Nat
    BY DEF WellFormed, MapsInto
  <2>2. notional(o) * k <= 100 * c.available_margin
    <3>1. notional(o) * k \in Int
      BY <1>2, <2>1
    <3> QED BY <1>1, <3>1 DEF AllChecks, check_margin, WellFormed
  <2> HIDE DEF k
  <2>3. k * notional(p) <= k * notional(o)
    BY <1>2, <2>1, ProductMonotone
  <2>4. notional(p) * k \in Int /\ notional(o) * k \in Int
    BY <1>2, <2>1
  <2>5. notional(p) * k = k * notional(p) /\ notional(o) * k = k * notional(o)
    BY <1>2, <2>1
  <2> QED BY <2>2, <2>3, <2>4, <2>5 DEF WellFormed
<1>5. /\ check_notional_per_order(c, p) /\ check_notional_per_symbol(c, p)
      /\ check_notional_per_account(c, p)
  BY <1>1, <1>2 DEF AllChecks, check_notional_per_order, check_notional_per_symbol,
     check_notional_per_account, NoLimit, WellFormed, MapsInto
<1>6. /\ check_qty_per_order(c, p) /\ check_qty_per_symbol(c, p)
      /\ check_qty_per_account(c, p)
  BY <1>1 DEF AllChecks, check_qty_per_order, check_qty_per_symbol,
     check_qty_per_account, NoLimit, WellFormed, MapsInto
<1> QED BY <1>3, <1>4, <1>5, <1>6, ApprovedIsAllChecks DEF AllChecks

-----------------------------------------------------------------------------
(* Sequences of messages of any kind.                                      *)

\* A sequence that grows by one message stays a sequence, one longer.
LEMMA AppendIsSequence ==
  ASSUME NEW log, log \in Seq(Range(log)), NEW m
  PROVE  /\ Append(log, m) \in Seq(Range(Append(log, m)))
         /\ Len(log) \in Nat /\ Len(Append(log, m)) = Len(log) + 1
<1> DEFINE All == Range(log) \cup {m}
           longer == Append(log, m)
<1>1. log \in Seq(All) /\ m \in All
  <2>1. \A i \in 1..Len(log) : log[i] \in Range(log)  BY DEF Range
  <2> QED  BY <2>1, SMT
<1>2. longer \in Seq(All) /\ Len(longer) = Len(log) + 1 /\ Len(log) \in Nat
  BY <1>1, SMT
<1>3. \A i \in DOMAIN longer : longer[i] \in Range(longer)
  BY DEF Range
<1>4. longer \in Seq(Range(longer))
  <2> HIDE DEF longer
  <2>1. longer = [i \in 1..Len(longer) |-> longer[i]]  BY <1>2, SMT
  <2>2. DOMAIN longer = 1..Len(longer) /\ Len(longer) \in Nat  BY <1>2, SMT
  <2> QED  BY <1>3, <2>1, <2>2, SMT
<1> QED  BY <1>2, <1>4

\* So does one that loses its first message, one shorter.
LEMMA TailIsSequence ==
  ASSUME NEW log, log \in Seq(Range(log)), log # <<>>
  PROVE  /\ Tail(log) \in Seq(Range(Tail(log)))
         /\ Len(log) \in Nat \ {0} /\ DOMAIN log = 1..Len(log)
         /\ DOMAIN Tail(log) = 1..(Len(log) - 1)
         /\ \A i \in DOMAIN Tail(log) : Tail(log)[i] = log[i + 1]
         /\ Head(log) = log[1]
<1> DEFINE shorter == Tail(log)
<1>1. Len(log) \in Nat \ {0} /\ DOMAIN log = 1..Len(log)
  BY EmptySeq
<1>2. /\ shorter \in Seq(Range(log)) /\ Len(shorter) = Len(log) - 1
      /\ \A i \in 1..Len(shorter) : shorter[i] = log[i + 1]
  BY <1>1, SMT
<1>3. DOMAIN shorter = 1..(Len(log) - 1)
  BY <1>2
<1>4. shorter \in Seq(Range(shorter))
  <2>1. \A i \in DOMAIN shorter : shorter[i] \in Range(shorter)
    BY DEF Range
  <2> HIDE DEF shorter
  <2>2. shorter = [i \in 1..Len(shorter) |-> shorter[i]]
    BY <1>2, SMT
  <2>3. DOMAIN shorter = 1..Len(shorter) /\ Len(shorter) \in Nat
    BY <1>2, SMT
  <2> QED BY <2>1, <2>2, <2>3, SMT
<1> QED BY <1>1, <1>2, <1>3, <1>4

-----------------------------------------------------------------------------
(* Sums.                                                                   *)

\* total[i] is the sum of the first i of n numbers q.
SumsUp(total, n, q) ==
  total = [i \in 0..n |-> IF i = 0 THEN 0 ELSE total[i - 1] + q[i]]

\* The first n numbers of q and r are the same.
SameUpTo(n, q, r) == \A i \in 1..n : r[i] = q[i]

\* There are such totals, by the least number of terms for which there are none.
LEMMA SumsExist ==
  ASSUME NEW n \in Nat, NEW q, \A i \in 1..n : q[i] \in Int
  PROVE  \E total \in [0..n -> Int] : SumsUp(total, n, q)
<1> DEFINE P(k) == \E total \in [0..k -> Int] : SumsUp(total, k, q)
<1> DEFINE Bad == {k \in 0..n : ~P(k)}
<1>1. CASE Bad = {}
  BY <1>1
<1>2. CASE Bad # {}
  <2>0. Bad \in SUBSET Nat
    OBVIOUS
  <2> HIDE DEF P
  <2>1. PICK k \in Bad : \A j \in Bad : k <= j
    BY <1>2, <2>0, LeastNatural
  <2> USE DEF P
  <2>2. k # 0
    <3>1. SumsUp([i \in 0..0 |-> 0], 0, q)
      BY DEF SumsUp
    <3>2. P(0)
      BY <3>1
    <3> QED BY <2>1, <3>2
  <2>3. PICK j \in 0..n : j = k - 1
    BY <2>1, <2>2
  <2>4. PICK total \in [0..j -> Int] : SumsUp(total, j, q)
    BY <2>1, <2>3
  <2>5. PICK new : new = [i \in 0..k |-> IF i = k THEN total[j] + q[k] ELSE total[i]]
    OBVIOUS
  <2>6. new \in [0..k -> Int]
    BY <2>1, <2>2, <2>3, <2>4, <2>5
  <2>7. SumsUp(new, k, q)
    <3>1. \A i \in 0..k : new[i] = IF i = 0 THEN 0 ELSE new[i - 1] + q[i]
      <4> SUFFICES ASSUME NEW i \in 0..k
                   PROVE  new[i] = IF i = 0 THEN 0 ELSE new[i - 1] + q[i]
        OBVIOUS
      <4>1. CASE i = k
        BY <2>1, <2>2, <2>3, <2>5, <4>1
      <4>2. CASE i # k
        <5>1. total[i] = IF i = 0 THEN 0 ELSE total[i - 1] + q[i]
          BY <2>1, <2>3, <2>4, <4>2 DEF SumsUp
        <5> QED BY <2>1, <2>3, <2>5, <4>2, <5>1
      <4> QED BY <4>1, <4>2
    <3> QED BY <2>6, <3>1 DEF SumsUp
  <2> QED BY <2>1, <2>6, <2>7
<1> QED BY <1>1, <1>2

\* Totals of the same first n numbers agree so far, by the least place where
\* they do not.
LEMMA SumsAgree ==
  ASSUME NEW n \in Nat, NEW m \in Nat, n <= m, NEW q, NEW r,
         SameUpTo(n, q, r),
         NEW f, SumsUp(f, n, q), NEW g, SumsUp(g, m, r)
  PROVE  f[n] = g[n]
<1> SUFFICES \A i \in 0..n : f[i] = g[i]
  OBVIOUS
<1> DEFINE Bad == {i \in 0..n : f[i] # g[i]}
<1> SUFFICES ASSUME Bad # {} PROVE FALSE
  OBVIOUS
<1>1. Bad \in SUBSET Nat
  OBVIOUS
<1>2. PICK k \in Bad : \A j \in Bad : k <= j
  BY <1>1, LeastNatural
<1>3. f[0] = 0 /\ g[0] = 0
  BY DEF SumsUp
<1>4. k # 0 /\ k - 1 \in 0..n /\ k - 1 \notin Bad /\ k \in 1..n
  BY <1>2, <1>3
<1>5. f[k] = f[k - 1] + q[k] /\ g[k] = g[k - 1] + r[k]
  BY <1>4 DEF SumsUp
<1> QED BY <1>2, <1>4, <1>5 DEF SameUpTo

\* A list of numbers that are all 0 comes to 0.
LEMMA NothingSumsToZero ==
  ASSUME NEW n \in Nat, NEW q, \A i \in 1..n : q[i] = 0, NEW f, SumsUp(f, n, q)
  PROVE  f[n] = 0
<1> PICK g : g = [i \in 0..n |-> 0]
  OBVIOUS
<1>1. SumsUp(g, n, q)
  BY DEF SumsUp
<1>2. SameUpTo(n, q, q) /\ n <= n
  BY DEF SameUpTo
<1>3. f[n] = g[n]
  BY <1>1, <1>2, SumsAgree
<1> QED BY <1>3
=============================================================================
