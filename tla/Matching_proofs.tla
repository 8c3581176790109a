---------------------------- MODULE Matching_proofs ----------------------------
(***************************************************************************)
(* Lemmas about the calls of Matching.tla: what match_orders, apply_trade  *)
(* and the OMS calls make of a book and of the order states, and that a    *)
(* submit and a cancel leave each side of a book holding just the orders   *)
(* that are open, with the shares they have left.                          *)
(***************************************************************************)
EXTENDS Matching, Operators_proofs

-----------------------------------------------------------------------------
(* Recursion over 0..N, from the least number.                             *)

\* What holds at 0 and at the successor of each place holds up to N.
LEMMA Inductive ==
  ASSUME NEW N \in Nat, NEW T, 0 \in T, \A n \in 1..N : n - 1 \in T => n \in T
  PROVE  0..N \subseteq T
<1> DEFINE Bad == {n \in 0..N : n \notin T}
<1> SUFFICES ASSUME Bad # {} PROVE FALSE
  OBVIOUS
<1>1. Bad \in SUBSET Nat
  OBVIOUS
<1>2. PICK k \in Bad : \A j \in Bad : k <= j
  BY <1>1, LeastNatural
<1>3. k \in 1..N /\ k - 1 \in 0..N /\ k - 1 \notin Bad
  BY <1>2
<1> QED BY <1>2, <1>3

\* f starts at `start` and goes on by the steps.
Follows(f, N, start, step) ==
  f = [n \in 0..N |-> IF n = 0 THEN start ELSE step[n][f[n - 1]]]

\* A recursive definition whose steps stay in S has a value.
LEMMA RecursionExists ==
  ASSUME NEW N \in Nat, NEW S, NEW start \in S, NEW step \in [1..N -> [S -> S]]
  PROVE  \E f \in [0..N -> S] : Follows(f, N, start, step)
<1> DEFINE T == {k \in 0..N : \E f \in [0..k -> S] : Follows(f, k, start, step)}
<1>1. 0 \in T
  <2>1. [n \in 0..0 |-> start] \in [0..0 -> S]
    OBVIOUS
  <2>2. Follows([n \in 0..0 |-> start], 0, start, step)
    BY DEF Follows
  <2> QED BY <2>1, <2>2
<1>2. ASSUME NEW k \in 1..N, k - 1 \in T
      PROVE  k \in T
  <2>1. PICK j \in 0..N : j = k - 1
    OBVIOUS
  <2>2. PICK f \in [0..j -> S] : Follows(f, j, start, step)
    BY <1>2, <2>1
  <2>3. PICK g : g = [n \in 0..k |-> IF n = k THEN step[k][f[j]] ELSE f[n]]
    OBVIOUS
  <2>4. step[k][f[j]] \in S
    <3>1. f[j] \in S /\ step[k] \in [S -> S]
      BY <2>2
    <3> QED BY <3>1
  <2>5. g \in [0..k -> S]
    BY <2>1, <2>2, <2>3, <2>4
  <2>6. \A n \in 0..k : g[n] = IF n = 0 THEN start ELSE step[n][g[n - 1]]
    <3> SUFFICES ASSUME NEW n \in 0..k
                 PROVE  g[n] = IF n = 0 THEN start ELSE step[n][g[n - 1]]
      OBVIOUS
    <3>1. CASE n = k
      BY <2>1, <2>3, <3>1
    <3>2. CASE n # k
      <4>1. f[n] = IF n = 0 THEN start ELSE step[n][f[n - 1]]
        BY <2>1, <2>2, <3>2 DEF Follows
      <4>2. g[n] = f[n] /\ (n # 0 => g[n - 1] = f[n - 1])
        BY <2>1, <2>3, <3>2
      <4> QED BY <4>1, <4>2
    <3> QED BY <3>1, <3>2
  <2> QED BY <2>5, <2>6 DEF Follows
<1>3. 0..N \subseteq T
  <2> HIDE DEF T
  <2> QED BY <1>1, <1>2, Inductive
<1>4. N \in T
  BY <1>3
<1> QED BY <1>4

-----------------------------------------------------------------------------
(* Sums, as Summed has them.                                               *)

\* Numbers, of which the first n can be added up.
Numbers(q, n) == \A i \in 1..n : q[i] \in Int

\* Summed is the last of the totals.
LEMMA SummedIs ==
  ASSUME NEW n \in Nat, NEW q, Numbers(q, n)
  PROVE  \E total \in [0..n -> Int] : SumsUp(total, n, q) /\ Summed(q, n) = total[n]
<1>1. PICK total \in [0..n -> Int] : SumsUp(total, n, q)
  BY SumsExist DEF Numbers
<1>2. total = [i \in 0..n |-> IF i = 0 THEN 0 ELSE total[i - 1] + q[i]]
  BY <1>1 DEF SumsUp
<1>3. PICK t : t = CHOOSE f : f = [i \in 0..n |-> IF i = 0 THEN 0 ELSE f[i - 1] + q[i]]
  OBVIOUS
<1>4. t = [i \in 0..n |-> IF i = 0 THEN 0 ELSE t[i - 1] + q[i]]
  BY <1>2, <1>3, Zenon
<1>5. Summed(q, n) = t[n]
  BY <1>3, Zenon DEF Summed
<1>6. SumsUp(t, n, q)
  BY <1>4 DEF SumsUp
<1>7. SameUpTo(n, q, q) /\ n <= n
  BY DEF SameUpTo
<1>8. t[n] = total[n]
  BY <1>1, <1>6, <1>7, SumsAgree
<1> QED BY <1>1, <1>5, <1>8

\* A sum of the same numbers is the same.
LEMMA SummedSame ==
  ASSUME NEW n \in Nat, NEW q, NEW r, Numbers(q, n), SameUpTo(n, q, r)
  PROVE  Summed(r, n) = Summed(q, n) /\ Summed(q, n) \in Int
<1>1. Numbers(r, n)
  BY DEF Numbers, SameUpTo
<1>2. PICK f \in [0..n -> Int] : SumsUp(f, n, q) /\ Summed(q, n) = f[n]
  BY SummedIs
<1>3. PICK g \in [0..n -> Int] : SumsUp(g, n, r) /\ Summed(r, n) = g[n]
  BY <1>1, SummedIs
<1>4. f[n] = g[n]
  <2>1. n <= n
    OBVIOUS
  <2> QED BY <2>1, <1>2, <1>3, SumsAgree
<1> QED BY <1>2, <1>3, <1>4

\* The sum of no numbers, and of one more.
LEMMA SummedStep ==
  ASSUME NEW n \in Nat, NEW q, Numbers(q, n)
  PROVE  /\ Summed(q, 0) = 0 /\ Summed(q, n) \in Int
         /\ n # 0 => Summed(q, n - 1) \in Int /\ Summed(q, n) = Summed(q, n - 1) + q[n]
<1>1. PICK f \in [0..n -> Int] : SumsUp(f, n, q) /\ Summed(q, n) = f[n]
  BY SummedIs
<1>2. Summed(q, 0) = 0
  <2>1. PICK z \in Nat : z = 0
    OBVIOUS
  <2>2. Numbers(q, z)
    BY <2>1 DEF Numbers
  <2>3. PICK g \in [0..z -> Int] : SumsUp(g, z, q) /\ Summed(q, z) = g[z]
    BY <2>2, SummedIs
  <2> QED BY <2>1, <2>3 DEF SumsUp
<1>3. ASSUME n # 0 PROVE Summed(q, n - 1) \in Int /\ Summed(q, n) = Summed(q, n - 1) + q[n]
  <2>1. PICK m \in Nat : m = n - 1
    BY <1>3
  <2>2. Numbers(q, m) /\ SameUpTo(m, q, q) /\ m <= n
    BY <2>1 DEF Numbers, SameUpTo
  <2>3. PICK g \in [0..m -> Int] : SumsUp(g, m, q) /\ Summed(q, m) = g[m]
    BY <2>2, SummedIs
  <2>4. g[m] = f[m]
    BY <2>2, <2>3, <1>1, SumsAgree
  <2>5. f[n] = f[m] + q[n]
    BY <1>1, <1>3, <2>1 DEF SumsUp
  <2> QED BY <1>1, <2>1, <2>3, <2>4, <2>5
<1> QED BY <1>1, <1>2, <1>3

\* Numbers that are all 0 add up to 0.
LEMMA SummedZero ==
  ASSUME NEW n \in Nat, NEW q, \A i \in 1..n : q[i] = 0
  PROVE  Summed(q, n) = 0
<1>1. Numbers(q, n)
  BY DEF Numbers
<1>2. PICK f \in [0..n -> Int] : SumsUp(f, n, q) /\ Summed(q, n) = f[n]
  BY <1>1, SummedIs
<1> QED BY <1>2, NothingSumsToZero

\* One of the numbers becomes another.
LEMMA SummedChange ==
  ASSUME NEW n \in Nat, NEW q, NEW r, Numbers(q, n), Numbers(r, n), NEW k \in 1..n,
         \A i \in 1..n : i # k => r[i] = q[i]
  PROVE  Summed(r, n) = Summed(q, n) - q[k] + r[k]
<1> DEFINE T == {m \in 0..n : Summed(r, m) = IF m < k THEN Summed(q, m)
                                             ELSE Summed(q, m) - q[k] + r[k]}
<1>1. 0 \in T
  BY SummedStep
<1>2. ASSUME NEW m \in 1..n, m - 1 \in T
      PROVE  m \in T
  <2>1. m \in Nat /\ m # 0 /\ Numbers(q, m) /\ Numbers(r, m)
    BY DEF Numbers
  <2>2. /\ Summed(q, m - 1) \in Int /\ Summed(q, m) = Summed(q, m - 1) + q[m]
        /\ Summed(r, m - 1) \in Int /\ Summed(r, m) = Summed(r, m - 1) + r[m]
    BY <2>1, SummedStep
  <2>3. q[m] \in Int /\ r[m] \in Int /\ q[k] \in Int /\ r[k] \in Int
    BY DEF Numbers
  <2>4. Summed(r, m - 1) = IF m - 1 < k THEN Summed(q, m - 1)
                           ELSE Summed(q, m - 1) - q[k] + r[k]
    BY <1>2
  <2>5. CASE m = k
    BY <2>2, <2>3, <2>4, <2>5
  <2>6. CASE m # k
    <3>1. r[m] = q[m]
      BY <2>6
    <3>2. m - 1 < k <=> m < k
      BY <2>6
    <3> QED BY <2>2, <2>3, <2>4, <3>1, <3>2
  <2> QED BY <2>5, <2>6
<1>3. 0..n \subseteq T
  <2> HIDE DEF T
  <2> QED BY <1>1, <1>2, Inductive
<1> QED BY <1>3

\* Numbers r that begin with the m numbers q and go on with the n numbers p.
GoesOnWith(q, m, p, n, r) ==
  /\ \A i \in 1..m : r[i] = q[i]
  /\ \A j \in 1..n : r[m + j] = p[j]

\* The sum of one list after another.
LEMMA SummedBoth ==
  ASSUME NEW m \in Nat, NEW n \in Nat, NEW q, NEW p, NEW r, Numbers(q, m), Numbers(p, n),
         GoesOnWith(q, m, p, n, r)
  PROVE  Summed(r, m + n) = Summed(q, m) + Summed(p, n)
<1>1. Numbers(r, m + n)
  <2> SUFFICES ASSUME NEW i \in 1..(m + n) PROVE r[i] \in Int
    BY DEF Numbers
  <2>1. CASE i <= m
    BY <2>1 DEF Numbers, GoesOnWith
  <2>2. CASE ~(i <= m)
    <3>1. PICK j \in 1..n : i = m + j
      BY <2>2
    <3> QED BY <3>1 DEF Numbers, GoesOnWith
  <2> QED BY <2>1, <2>2
<1> DEFINE T == {k \in 0..n : Summed(r, m + k) = Summed(q, m) + Summed(p, k)}
<1>2. 0 \in T
  <2>1. SameUpTo(m, q, r)
    BY DEF SameUpTo, GoesOnWith
  <2>2. Summed(r, m) = Summed(q, m) /\ Summed(q, m) \in Int /\ Summed(p, 0) = 0
    BY <2>1, SummedSame, SummedStep
  <2>3. m + 0 = m
    OBVIOUS
  <2> QED BY <2>2, <2>3
<1>3. ASSUME NEW k \in 1..n, k - 1 \in T
      PROVE  k \in T
  <2>1. PICK i \in Nat : i = m + k
    OBVIOUS
  <2>2. i # 0 /\ Numbers(r, i) /\ k \in Nat /\ k # 0 /\ Numbers(p, k)
    BY <1>1, <2>1 DEF Numbers
  <2>3. /\ Summed(r, i - 1) \in Int /\ Summed(r, i) = Summed(r, i - 1) + r[i]
        /\ Summed(p, k - 1) \in Int /\ Summed(p, k) = Summed(p, k - 1) + p[k]
        /\ Summed(q, m) \in Int
    BY <2>2, SummedStep
  <2>4. r[i] = p[k] /\ p[k] \in Int
    BY <2>1 DEF GoesOnWith, Numbers
  <2>5. i - 1 = m + (k - 1)
    BY <2>1
  <2>6. Summed(r, i - 1) = Summed(q, m) + Summed(p, k - 1)
    BY <1>3, <2>5
  <2>7. Summed(r, i) = Summed(q, m) + Summed(p, k)
    BY <2>3, <2>4, <2>6
  <2> QED BY <2>1, <2>7
<1>4. 0..n \subseteq T
  <2> HIDE DEF T
  <2> QED BY <1>2, <1>3, Inductive
<1> QED BY <1>4

\* Twice as many numbers, added up in pairs.
LEMMA SummedPairs ==
  ASSUME NEW n \in Nat, NEW q, NEW r, Numbers(q, n), Numbers(r, 2 * n),
         \A i \in 1..n : q[i] = r[2 * i - 1] + r[2 * i]
  PROVE  Summed(r, 2 * n) = Summed(q, n)
<1> DEFINE T == {k \in 0..n : Summed(r, 2 * k) = Summed(q, k)}
<1>1. 0 \in T
  <2>1. 2 * 0 = 0 /\ 2 * n \in Nat
    OBVIOUS
  <2>2. Summed(r, 0) = 0 /\ Summed(q, 0) = 0
    BY <2>1, SummedStep
  <2> QED BY <2>1, <2>2
<1>2. ASSUME NEW k \in 1..n, k - 1 \in T
      PROVE  k \in T
  <2>1. PICK i \in Nat, j \in Nat : i = 2 * k /\ j = 2 * k - 1
    OBVIOUS
  <2>2. /\ i \in 1..(2 * n) /\ j \in 1..(2 * n) /\ j = i - 1 /\ i # 0 /\ j # 0
        /\ j - 1 = 2 * (k - 1)
    BY <2>1
  <2>3. Numbers(r, i) /\ Numbers(r, j) /\ k \in Nat /\ k # 0 /\ Numbers(q, k)
    BY <2>2 DEF Numbers
  <2>4. /\ Summed(r, i) = Summed(r, j) + r[i]
        /\ Summed(r, j) = Summed(r, j - 1) + r[j] /\ Summed(r, j - 1) \in Int
        /\ Summed(q, k) = Summed(q, k - 1) + q[k]
    BY <2>2, <2>3, SummedStep
  <2>5. Summed(r, j - 1) = Summed(q, k - 1)
    BY <1>2, <2>2
  <2>6. q[k] = r[j] + r[i] /\ r[j] \in Int /\ r[i] \in Int
    BY <2>1, <2>2 DEF Numbers
  <2> QED BY <2>1, <2>4, <2>5, <2>6
<1>3. 0..n \subseteq T
  <2> HIDE DEF T
  <2> QED BY <1>1, <1>2, Inductive
<1> QED BY <1>3

-----------------------------------------------------------------------------
(* match_orders.                                                           *)

\* The fills that orders can give, the sides and the states of the loop made of
\* their entries.
FillsFrom(ids) == [order_id : ids, quantity : Shares, price : Prices]

SidesOf(ids) ==
  {levels \in UNION {[D -> Seq(EntriesOf(ids))] : D \in SUBSET Prices} :
     \A p \in DOMAIN levels : levels[p] # <<>>}

RunsOf(ids) == [levels : SidesOf(ids), left : Int, fills : Seq(FillsFrom(ids))]

\* The sides of a book as a set.
LEMMA SideIsTidy ==
  ASSUME NEW ids, NEW levels
  PROVE  levels \in SidesOf(ids) <=> Tidy(levels, EntriesOf(ids))
<1>1. ASSUME levels \in SidesOf(ids) PROVE Tidy(levels, EntriesOf(ids))
  <2>1. PICK D \in SUBSET Prices : levels \in [D -> Seq(EntriesOf(ids))]
    BY <1>1 DEF SidesOf
  <2>2. DOMAIN levels = D
    BY <2>1
  <2> QED BY <1>1, <2>1, <2>2 DEF SidesOf, Tidy
<1>2. ASSUME Tidy(levels, EntriesOf(ids)) PROVE levels \in SidesOf(ids)
  BY <1>2 DEF SidesOf, Tidy
<1> QED BY <1>1, <1>2

\* A turn of the loop takes from an order that rests.
LEMMA TurnOK ==
  ASSUME NEW ids \in SUBSET OrderId, NEW order, order.side \in Side,
         NEW run \in RunsOf(ids), GoesOn(order, run)
  PROVE  Turn(order, run) \in RunsOf(ids)
<1> DEFINE side    == Opposite(order.side)
           best    == BestFor(order, run)
           resting == run.levels[best][1]
           traded  == Lesser(run.left, resting.quantity)
<1>1. /\ side \in Side /\ Tidy(run.levels, EntriesOf(ids))
      /\ run.left \in Int /\ run.fills \in Seq(FillsFrom(ids))
  BY SideIsTidy DEF RunsOf, Opposite, Side
<1>2. best \in DOMAIN run.levels /\ best \in Prices
  BY <1>1, BestIsALevel DEF GoesOn, BestFor, Tidy
<1>3. resting \in EntriesOf(ids)
  <2>1. run.levels[best] \in Seq(EntriesOf(ids)) /\ run.levels[best] # <<>>
    BY <1>1, <1>2 DEF Tidy
  <2> QED BY <2>1
<1>4. /\ traded \in Shares /\ resting.quantity \in Int
      /\ resting.quantity # traded => resting.quantity - traded \in Shares
  BY <1>1, <1>3 DEF Lesser, EntriesOf, Shares, GoesOn
<1>5. TakeFront(run.levels, best, traded) \in SidesOf(ids)
  <2>1. EntriesOf(ids) \subseteq Entry
    BY DEF EntriesOf, Entry, Shares
  <2>2. resting.quantity # traded => FrontLeft(run.levels, best, traded) \in EntriesOf(ids)
    BY <1>3, <1>4 DEF EntriesOf, FrontLeft
  <2>3. traded \in Int
    BY <1>4 DEF Shares
  <2>4. Tidy(TakeFront(run.levels, best, traded), EntriesOf(ids))
    BY <1>1, <1>2, <2>1, <2>2, <2>3, TakeFrontTidy
  <2> QED BY <2>4, SideIsTidy
<1>6. run.left - traded \in Int
  BY <1>1, <1>4 DEF Shares
<1>7. Append(run.fills, [order_id |-> resting.order_id, quantity |-> traded,
                         price |-> best]) \in Seq(FillsFrom(ids))
  <2>1. [order_id |-> resting.order_id, quantity |-> traded, price |-> best]
          \in FillsFrom(ids)
    BY <1>2, <1>3, <1>4 DEF FillsFrom, EntriesOf
  <2> QED BY <1>1, <2>1
<1> QED BY <1>5, <1>6, <1>7 DEF Turn, RunsOf

\* A side of a book holds finitely many orders.
LEMMA QueuedIsFinite ==
  ASSUME NEW E, NEW levels, Tidy(levels, E)
  PROVE  IsFiniteSet(Queued(levels)) /\ MostTurns(levels) \in Nat
<1> DEFINE At(p) == {p} \X DOMAIN levels[p]
           All == {At(p) : p \in DOMAIN levels}
<1>1. IsFiniteSet(DOMAIN levels)
  BY PricesAssumption, FS_Subset DEF Tidy
<1>2. IsFiniteSet(All)
  <2>1. PICK f : f = [p \in DOMAIN levels |-> At(p)]
    OBVIOUS
  <2>2. f \in [DOMAIN levels -> All]
    BY <2>1
  <2>3. \A T \in All : \E p \in DOMAIN levels : f[p] = T
    BY <2>1
  <2> HIDE DEF All
  <2>4. f \in Surjection(DOMAIN levels, All)
    BY <2>2, <2>3 DEF Surjection
  <2> QED BY <1>1, <2>4, FS_Surjection
<1>3. \A T \in All : IsFiniteSet(T)
  <2> SUFFICES ASSUME NEW p \in DOMAIN levels PROVE IsFiniteSet(At(p))
    OBVIOUS
  <2>1. IsFiniteSet({p})
    BY FS_Singleton
  <2>2. levels[p] \in Seq(E)
    BY DEF Tidy
  <2>3. DOMAIN levels[p] = 1..Len(levels[p]) /\ Len(levels[p]) \in Int
    BY <2>2
  <2>4. IsFiniteSet(DOMAIN levels[p])
    BY <2>3, FS_Interval
  <2> QED BY <2>1, <2>4, FS_Product
<1>4. IsFiniteSet(UNION All)
  <2> HIDE DEF All
  <2> QED BY <1>2, <1>3, FS_UNION
<1> QED BY <1>4, FS_CardinalityType DEF Queued, MostTurns

\* One turn of the loop, or none when it has ended.
TurnFrom(order, run) == IF GoesOn(order, run) THEN Turn(order, run) ELSE run

\* Where the loop is after each turn.
LEMMA RunsAre ==
  ASSUME NEW ids \in SUBSET OrderId, NEW order, order.side \in Side,
         NEW run \in RunsOf(ids), NEW N \in Nat, NEW f, f = Runs(order, run, N)
  PROVE  /\ f \in [0..N -> RunsOf(ids)]
         /\ f = [n \in 0..N |-> IF n = 0 THEN run ELSE TurnFrom(order, f[n - 1])]
<1> DEFINE After(now) == TurnFrom(order, now)
<1>0. \A now \in RunsOf(ids) : TurnFrom(order, now) \in RunsOf(ids)
  BY TurnOK DEF TurnFrom
<1>1. PICK step : step = [n \in 1..N |-> [now \in RunsOf(ids) |-> After(now)]]
  OBVIOUS
<1>2. step \in [1..N -> [RunsOf(ids) -> RunsOf(ids)]]
  BY <1>0, <1>1
<1>3. PICK g \in [0..N -> RunsOf(ids)] : Follows(g, N, run, step)
  BY <1>2, RecursionExists
<1>4. g = [n \in 0..N |-> IF n = 0 THEN run ELSE After(g[n - 1])]
  <2>1. \A n \in 1..N : step[n][g[n - 1]] = After(g[n - 1])
    BY <1>1, <1>3
  <2>2. g = [n \in 0..N |-> IF n = 0 THEN run ELSE step[n][g[n - 1]]]
    BY <1>3 DEF Follows
  <2> HIDE DEF After
  <2>3. \A n \in 0..N : n # 0 => n \in 1..N
    OBVIOUS
  <2> QED BY <2>1, <2>2, <2>3
<1>5. f = [n \in 0..N |-> IF n = 0 THEN run ELSE After(f[n - 1])]
  BY <1>4, Zenon DEF Runs, TurnFrom
<1>6. f \in [0..N -> RunsOf(ids)]
  <2> DEFINE T == {n \in 0..N : f[n] \in RunsOf(ids)}
  <2>1. 0 \in T
    <3>1. 0 \in 0..N
      OBVIOUS
    <3>2. f[0] = run
      BY <1>5, <3>1
    <3> QED BY <3>1, <3>2
  <2>2. ASSUME NEW n \in 1..N, n - 1 \in T PROVE n \in T
    <3>1. n \in 0..N /\ n # 0 /\ f[n - 1] \in RunsOf(ids)
      BY <2>2
    <3>2. f[n] = TurnFrom(order, f[n - 1])
      BY <1>5, <3>1
    <3> QED BY <1>0, <3>1, <3>2
  <2>3. 0..N \subseteq T
    <3> HIDE DEF T
    <3> QED BY <2>1, <2>2, Inductive
  <2>4. DOMAIN f = 0..N /\ f = [n \in DOMAIN f |-> f[n]]
    BY <1>5
  <2> QED BY <2>3, <2>4
<1> QED BY <1>5, <1>6

\* The loop begins with nothing filled.
LEMMA BegunOK ==
  ASSUME NEW ids \in SUBSET OrderId, NEW order, order.quantity \in Int,
         NEW levels, Tidy(levels, EntriesOf(ids))
  PROVE  Begun(order, levels) \in RunsOf(ids)
BY SideIsTidy DEF Begun, RunsOf

\* match_orders ends with a side of a book and fills from the orders on it.
LEMMA MatchedOK ==
  ASSUME NEW ids \in SUBSET OrderId, NEW order, order.side \in Side,
         order.quantity \in Int, NEW levels, Tidy(levels, EntriesOf(ids))
  PROVE  match_orders(order, levels) \in RunsOf(ids)
<1>1. PICK run : run = Begun(order, levels)
  OBVIOUS
<1>2. run \in RunsOf(ids) /\ run.levels = levels
  BY <1>1, BegunOK DEF Begun
<1>3. PICK N, f : N = MostTurns(levels) /\ f = Runs(order, run, N)
  OBVIOUS
<1>4. N \in Nat
  BY <1>3, QueuedIsFinite
<1>5. f \in [0..N -> RunsOf(ids)]
  BY <1>2, <1>3, <1>4, RunsAre
<1> QED BY <1>1, <1>2, <1>3, <1>4, <1>5 DEF match_orders, LoopEnd

\* One turn is the first of the turns that are left.
LEMMA RunsGoOn ==
  ASSUME NEW ids \in SUBSET OrderId, NEW order, order.side \in Side,
         NEW run \in RunsOf(ids), NEW next, next = TurnFrom(order, run), NEW N \in Nat
  PROVE  Runs(order, run, N + 1)[N + 1] = Runs(order, next, N)[N]
<1>1. next \in RunsOf(ids)
  BY TurnOK DEF TurnFrom
<1>2. PICK M \in Nat : M = N + 1
  OBVIOUS
<1>3. PICK f, g : f = Runs(order, run, M) /\ g = Runs(order, next, N)
  OBVIOUS
<1> DEFINE After(now) == TurnFrom(order, now)
<1>4. f = [n \in 0..M |-> IF n = 0 THEN run ELSE After(f[n - 1])]
  BY <1>3, RunsAre
<1>5. g = [n \in 0..N |-> IF n = 0 THEN next ELSE After(g[n - 1])]
  BY <1>1, <1>3, RunsAre
<1>6. next = After(run)
  OBVIOUS
<1> DEFINE T == {n \in 0..N : f[n + 1] = g[n]}
<1>7. 0 \in T
  <2>1. 0 \in 0..N /\ 0 \in 0..M /\ 1 \in 0..M /\ 1 - 1 = 0 /\ 0 + 1 = 1
    BY <1>2
  <2>2. f[0] = run /\ f[1] = After(f[0])
    BY <1>4, <2>1
  <2>3. g[0] = next
    BY <1>5, <2>1
  <2> QED BY <1>6, <2>1, <2>2, <2>3
<1>8. ASSUME NEW n \in 1..N, n - 1 \in T PROVE n \in T
  <2>1. n \in 0..N /\ n + 1 \in 0..M /\ n + 1 # 0 /\ (n + 1) - 1 = n /\ n # 0
        /\ (n - 1) + 1 = n
    BY <1>2
  <2>2. f[n] = g[n - 1]
    BY <1>8, <2>1
  <2>3. f[n + 1] = After(f[n])
    BY <1>4, <2>1
  <2>4. g[n] = After(g[n - 1])
    BY <1>5, <2>1
  <2> QED BY <2>1, <2>2, <2>3, <2>4
<1>9. N \in T
  <2>1. 0..N \subseteq T
    <3> HIDE DEF T
    <3> QED BY <1>7, <1>8, Inductive
  <2> QED BY <2>1
<1> QED BY <1>2, <1>3, <1>9

\* A loop that has ended stays where it is.
LEMMA RunsEnd ==
  ASSUME NEW ids \in SUBSET OrderId, NEW order, order.side \in Side,
         NEW run \in RunsOf(ids), ~GoesOn(order, run), NEW N \in Nat
  PROVE  Runs(order, run, N)[N] = run
<1>1. PICK f : f = Runs(order, run, N)
  OBVIOUS
<1>2. f = [n \in 0..N |-> IF n = 0 THEN run ELSE TurnFrom(order, f[n - 1])]
  BY <1>1, RunsAre
<1> DEFINE T == {n \in 0..N : f[n] = run}
<1>3. 0 \in T
  <2>1. 0 \in 0..N
    OBVIOUS
  <2> QED BY <1>2, <2>1
<1>4. ASSUME NEW n \in 1..N, n - 1 \in T PROVE n \in T
  <2>1. n \in 0..N /\ n # 0 /\ f[n - 1] = run
    BY <1>4
  <2>2. f[n] = TurnFrom(order, run)
    BY <1>2, <2>1
  <2> QED BY <2>1, <2>2 DEF TurnFrom
<1>5. N \in T
  <2>1. 0..N \subseteq T
    <3> HIDE DEF T
    <3> QED BY <1>3, <1>4, Inductive
  <2> QED BY <2>1
<1> QED BY <1>1, <1>5

\* An order that gives all its shares is the only one to leave the side.
LEMMA FrontLeaves ==
  ASSUME NEW E, NEW levels, Tidy(levels, E), NEW best \in DOMAIN levels, NEW traded,
         levels[best][1].quantity = traded
  PROVE  \E place \in Queued(levels) :
           Queued(TakeFront(levels, best, traded)) = Queued(levels) \ {place}
<1>1. PICK before, queue : before = levels[best] /\ queue = Tail(before)
  OBVIOUS
<1>2. before \in Seq(E) /\ before # <<>>
  BY <1>1 DEF Tidy
<1>3. PICK n \in Nat : n = Len(before)
  BY <1>2
<1>4. n > 0 /\ DOMAIN before = 1..n /\ queue \in Seq(E) /\ DOMAIN queue = 1..(n - 1)
  BY <1>1, <1>2, <1>3
<1>5. queue = <<>> => n = 1
  BY <1>4
<1>6. PICK side : side = TakeFront(levels, best, traded)
  OBVIOUS
<1>7. LevelReplaced(levels, best, queue, side)
  BY <1>1, <1>6, StoreQueueIs DEF TakeFront
<1>8. PICK place : place = <<best, n>>
  OBVIOUS
<1>9. place \in Queued(levels)
  BY <1>1, <1>3, <1>4, <1>8 DEF Queued
<1>10. \A p, i : <<p, i>> \in Queued(levels) <=> p \in DOMAIN levels /\ i \in DOMAIN levels[p]
  BY DEF Queued
<1>11. \A p, i : <<p, i>> \in Queued(side) <=> p \in DOMAIN side /\ i \in DOMAIN side[p]
  BY DEF Queued
<1>12. ASSUME NEW p, NEW i
       PROVE  <<p, i>> \in Queued(side) <=> <<p, i>> \in Queued(levels) /\ <<p, i>> # place
  <2>1. CASE p = best
    <3>1. <<p, i>> \in Queued(levels) <=> i \in 1..n
      BY <1>1, <1>4, <1>10, <2>1
    <3>2. <<p, i>> \in Queued(side) <=> i \in 1..(n - 1)
      <4>1. CASE queue = <<>>
        <5>1. p \notin DOMAIN side /\ n = 1
          BY <1>5, <1>7, <2>1, <4>1 DEF LevelReplaced
        <5> QED BY <1>11, <5>1
      <4>2. CASE queue # <<>>
        <5>1. p \in DOMAIN side /\ side[p] = queue
          BY <1>7, <2>1, <4>2 DEF LevelReplaced
        <5> QED BY <1>4, <1>11, <5>1
      <4> QED BY <4>1, <4>2
    <3>3. <<p, i>> # place <=> i # n
      BY <1>8, <2>1
    <3>4. i \in 1..(n - 1) <=> i \in 1..n /\ i # n
      OBVIOUS
    <3> QED BY <3>1, <3>2, <3>3, <3>4
  <2>2. CASE p # best
    <3>1. p \in DOMAIN side <=> p \in DOMAIN levels
      BY <1>7, <2>2 DEF LevelReplaced
    <3>2. p \in DOMAIN side => side[p] = levels[p]
      BY <1>7, <2>2 DEF LevelReplaced
    <3>3. <<p, i>> # place
      BY <1>8, <2>2
    <3> QED BY <1>10, <1>11, <3>1, <3>2, <3>3
  <2> QED BY <2>1, <2>2
<1>13. \A x \in Queued(side) : x = <<x[1], x[2]>>
  BY DEF Queued
<1>14. \A x \in Queued(levels) : x = <<x[1], x[2]>>
  BY DEF Queued
<1>15. \A x : x \in Queued(side) <=> x \in Queued(levels) \ {place}
  <2> SUFFICES ASSUME NEW x PROVE x \in Queued(side) <=> x \in Queued(levels) \ {place}
    OBVIOUS
  <2>1. CASE x = <<x[1], x[2]>>
    BY <1>12, <2>1
  <2>2. CASE x # <<x[1], x[2]>>
    BY <1>13, <1>14, <2>2
  <2> QED BY <2>1, <2>2
<1> QED BY <1>6, <1>9, <1>15

\* Each turn but the last takes an order off the side.
LEMMA TurnTakes ==
  ASSUME NEW ids \in SUBSET OrderId, NEW order, order.side \in Side,
         NEW run \in RunsOf(ids), GoesOn(order, run),
         NEW next, next = Turn(order, run)
  PROVE  /\ next \in RunsOf(ids)
         /\ MostTurns(run.levels) \in Nat \ {0}
         /\ \/ ~GoesOn(order, next)
            \/ MostTurns(next.levels) = MostTurns(run.levels) - 1
<1>1. next \in RunsOf(ids)
  BY TurnOK
<1>2. PICK best : best = BestFor(order, run)
  OBVIOUS
<1>3. PICK resting : resting = run.levels[best][1]
  OBVIOUS
<1>4. PICK traded : traded = Lesser(run.left, resting.quantity)
  OBVIOUS
<1>5. Opposite(order.side) \in Side /\ Tidy(run.levels, EntriesOf(ids)) /\ run.left \in Int
  BY SideIsTidy DEF RunsOf, Opposite, Side
<1>6. best \in DOMAIN run.levels
  BY <1>2, <1>5, BestIsALevel DEF GoesOn, BestFor, Tidy
<1>7. run.levels[best] \in Seq(EntriesOf(ids)) /\ run.levels[best] # <<>>
  BY <1>5, <1>6 DEF Tidy
<1>8. 1 \in DOMAIN run.levels[best]
  BY <1>7
<1>9. next.levels = TakeFront(run.levels, best, traded) /\ next.left = run.left - traded
  BY <1>2, <1>3, <1>4 DEF Turn
<1>10. IsFiniteSet(Queued(run.levels)) /\ MostTurns(run.levels) \in Nat
  BY <1>5, QueuedIsFinite
<1>11. <<best, 1>> \in Queued(run.levels)
  BY <1>6, <1>8 DEF Queued
<1>12. MostTurns(run.levels) # 0
  <2>1. Queued(run.levels) # {}
    BY <1>11
  <2> QED BY <1>10, <2>1, FS_EmptySet DEF MostTurns
<1>13. CASE traded = resting.quantity
  <2>1. PICK place \in Queued(run.levels) : Queued(next.levels) = Queued(run.levels) \ {place}
    BY <1>3, <1>5, <1>6, <1>9, <1>13, FrontLeaves
  <2>2. Cardinality(Queued(run.levels) \ {place}) = Cardinality(Queued(run.levels)) - 1
    BY <1>10, FS_RemoveElement
  <2> QED BY <1>1, <1>10, <1>12, <2>1, <2>2 DEF MostTurns
<1>14. CASE traded # resting.quantity
  <2>1. traded = run.left
    BY <1>4, <1>14 DEF Lesser
  <2>2. next.left = 0
    BY <1>5, <1>9, <2>1
  <2> QED BY <1>1, <1>10, <1>12, <2>2 DEF GoesOn
<1> QED BY <1>13, <1>14

\* So the loop ends where it would have ended before the turn.
LEMMA EndGoesOn ==
  ASSUME NEW ids \in SUBSET OrderId, NEW order, order.side \in Side,
         NEW run \in RunsOf(ids), GoesOn(order, run)
  PROVE  LoopEnd(order, Turn(order, run)) = LoopEnd(order, run)
<1>1. PICK next : next = Turn(order, run)
  OBVIOUS
<1>2. PICK N, M : N = MostTurns(run.levels) /\ M = MostTurns(next.levels)
  OBVIOUS
<1>3. next \in RunsOf(ids) /\ N \in Nat \ {0} /\ (~GoesOn(order, next) \/ M = N - 1)
  BY <1>1, <1>2, TurnTakes
<1>4. M \in Nat
  <2>1. Tidy(next.levels, EntriesOf(ids))
    BY <1>3, SideIsTidy DEF RunsOf
  <2> QED BY <1>2, <2>1, QueuedIsFinite
<1>5. PICK k \in Nat : N = k + 1
  <2>1. N - 1 \in Nat /\ N = (N - 1) + 1
    BY <1>3
  <2> QED BY <2>1
<1>6. Runs(order, run, k + 1)[k + 1] = Runs(order, next, k)[k]
  <2>1. next = TurnFrom(order, run)
    BY <1>1 DEF TurnFrom
  <2> QED BY <2>1, RunsGoOn
<1>7. LoopEnd(order, run) = Runs(order, next, k)[k]
  BY <1>2, <1>5, <1>6 DEF LoopEnd
<1>8. LoopEnd(order, next) = Runs(order, next, M)[M]
  BY <1>2 DEF LoopEnd
<1>9. CASE GoesOn(order, next)
  <2>1. M = k
    BY <1>3, <1>4, <1>5, <1>9
  <2> QED BY <1>1, <1>7, <1>8, <2>1
<1>10. CASE ~GoesOn(order, next)
  <2>1. Runs(order, next, M)[M] = next
    BY <1>3, <1>4, <1>10, RunsEnd
  <2>2. Runs(order, next, k)[k] = next
    BY <1>3, <1>10, RunsEnd
  <2> QED BY <1>1, <1>7, <1>8, <2>1, <2>2
<1> QED BY <1>9, <1>10

\* A loop that does not go on ends where it is.
LEMMA EndIsHere ==
  ASSUME NEW ids \in SUBSET OrderId, NEW order, order.side \in Side,
         NEW run \in RunsOf(ids), ~GoesOn(order, run)
  PROVE  LoopEnd(order, run) = run
<1>1. PICK N : N = MostTurns(run.levels)
  OBVIOUS
<1>2. N \in Nat
  <2>1. Tidy(run.levels, EntriesOf(ids))
    BY SideIsTidy DEF RunsOf
  <2> QED BY <1>1, <2>1, QueuedIsFinite
<1>3. Runs(order, run, N)[N] = run
  BY <1>2, RunsEnd
<1> QED BY <1>1, <1>3 DEF LoopEnd

\* How many shares the order still has is not read from the order.
LEMMA FinishByTerms ==
  ASSUME NEW ids \in SUBSET OrderId, NEW order, order.side \in Side,
         NEW run \in RunsOf(ids)
  PROVE  LoopEnd(TermsOf(order), run) = LoopEnd(order, run)
<1>1. PICK terms : terms = TermsOf(order)
  OBVIOUS
<1>2. /\ terms.side = order.side /\ terms.price = order.price
      /\ terms.side \in Side
  BY <1>1 DEF TermsOf
<1>3. \A now : GoesOn(terms, now) <=> GoesOn(order, now)
  BY <1>2 DEF GoesOn, BestFor
<1>4. \A now : Turn(terms, now) = Turn(order, now)
  BY <1>2 DEF Turn, BestFor
<1>5. PICK N : N = MostTurns(run.levels)
  OBVIOUS
<1>6. N \in Nat
  <2>1. Tidy(run.levels, EntriesOf(ids))
    BY SideIsTidy DEF RunsOf
  <2> QED BY <1>5, <2>1, QueuedIsFinite
<1>7. PICK f, g : f = Runs(order, run, N) /\ g = Runs(terms, run, N)
  OBVIOUS
<1> DEFINE After(now) == TurnFrom(order, now)
<1>8. f = [n \in 0..N |-> IF n = 0 THEN run ELSE After(f[n - 1])]
  BY <1>6, <1>7, RunsAre
<1>9. g = [n \in 0..N |-> IF n = 0 THEN run ELSE After(g[n - 1])]
  <2>1. g = [n \in 0..N |-> IF n = 0 THEN run ELSE TurnFrom(terms, g[n - 1])]
    BY <1>2, <1>6, <1>7, RunsAre
  <2>2. \A now : TurnFrom(terms, now) = TurnFrom(order, now)
    BY <1>3, <1>4 DEF TurnFrom
  <2> QED BY <2>1, <2>2
<1> DEFINE T == {n \in 0..N : f[n] = g[n]}
<1>10. 0 \in T
  <2>1. 0 \in 0..N
    BY <1>6
  <2> QED BY <1>8, <1>9, <2>1
<1>11. ASSUME NEW n \in 1..N, n - 1 \in T PROVE n \in T
  <2>1. n \in 0..N /\ n # 0 /\ f[n - 1] = g[n - 1]
    BY <1>6, <1>11
  <2> QED BY <1>8, <1>9, <2>1
<1>12. N \in T
  <2>1. 0..N \subseteq T
    <3> HIDE DEF T
    <3> QED BY <1>6, <1>10, <1>11, Inductive
  <2> QED BY <1>6, <2>1
<1> QED BY <1>1, <1>5, <1>7, <1>12 DEF LoopEnd

-----------------------------------------------------------------------------
(* apply_trade.                                                            *)

\* The orders whose states a call on order `id` with these fills may change.
Touched(id, fills) == {id} \cup {fills[n].order_id : n \in DOMAIN fills}

\* States that only fills of the orders in `hit` have changed.
FilledOn(states, hit) ==
  {after \in [DOMAIN states -> OrderStates] :
     \A id \in DOMAIN states :
       /\ SameTerms(after[id], states[id])
       /\ after[id].original_quantity = states[id].original_quantity
       /\ after[id] = states[id] \/ id \in hit}

\* A fill changes how much of an order is filled, and its status.
LEMMA AddFillOK ==
  ASSUME NEW st \in OrderStates, NEW quantity \in Int
  PROVE  /\ AddFill(st, quantity) \in OrderStates /\ SameTerms(AddFill(st, quantity), st)
         /\ AddFill(st, quantity).original_quantity = st.original_quantity
<1>1. PICK status : status = IF remaining_quantity(st) = quantity THEN "Filled"
                                                                ELSE "Partial_Filled"
  OBVIOUS
<1>2. status \in OrderStatus
  BY <1>1 DEF OrderStatus
<1>3. PICK more : more = [st EXCEPT !.filled_quantity = @ + quantity]
  OBVIOUS
<1>4. /\ more \in OrderStates /\ SameTerms(more, st)
      /\ more.original_quantity = st.original_quantity
  BY <1>3 DEF OrderStates, SameTerms
<1>5. AddFill(st, quantity) = [more EXCEPT !.order_status = status]
  BY <1>1, <1>3, Zenon DEF AddFill
<1> QED BY <1>2, <1>4, <1>5 DEF OrderStates, SameTerms

\* Applying a fill to one of its orders.
LEMMA FilledOK ==
  ASSUME NEW states, NEW hit, NEW old \in FilledOn(states, hit), NEW id \in hit,
         NEW quantity \in Int
  PROVE  Filled(old, id, quantity) \in FilledOn(states, hit)
<1>1. \A z \in DOMAIN states :
        /\ old[z] \in OrderStates
        /\ SameTerms(old[z], states[z])
        /\ old[z].original_quantity = states[z].original_quantity
        /\ old[z] = states[z] \/ z \in hit
  BY DEF FilledOn
<1>2. PICK new : new = Filled(old, id, quantity)
  OBVIOUS
<1>3. DOMAIN new = DOMAIN states
      /\ \A z \in DOMAIN states : new[z] = IF z = id THEN AddFill(old[z], quantity) ELSE old[z]
  BY <1>2 DEF FilledOn, Filled
<1>4. new = [z \in DOMAIN states |-> new[z]]
  BY <1>2 DEF FilledOn, Filled
<1>5. \A z \in DOMAIN states :
        /\ new[z] \in OrderStates
        /\ SameTerms(new[z], states[z])
        /\ new[z].original_quantity = states[z].original_quantity
        /\ new[z] = states[z] \/ z \in hit
  BY <1>1, <1>3, AddFillOK DEF SameTerms
<1>6. new \in FilledOn(states, hit)
  BY <1>4, <1>5 DEF FilledOn
<1> QED BY <1>2, <1>6

\* f has the states after each of the fills.
AppliedBy(f, states, id, fills) ==
  f = [n \in 0..Len(fills) |->
         IF n = 0 THEN states
         ELSE Filled(Filled(f[n - 1], id, fills[n].quantity),
                     fills[n].order_id, fills[n].quantity)]

\* What the fills of a call make of the states, one after the other.
LEMMA AppliedRuns ==
  ASSUME NEW states, states \in [DOMAIN states -> OrderStates], NEW id,
         NEW ids, NEW fills \in Seq(FillsFrom(ids))
  PROVE  \E f : /\ AppliedBy(f, states, id, fills)
               /\ \A n \in 0..Len(fills) : f[n] \in FilledOn(states, Touched(id, fills))
               /\ Applied(states, id, fills) = f[Len(fills)]
<1> DEFINE S == FilledOn(states, Touched(id, fills))
           Both(old, fill) == Filled(Filled(old, id, fill.quantity),
                                     fill.order_id, fill.quantity)
<1>1. PICK N \in Nat : N = Len(fills)
  OBVIOUS
<1>2. \A n \in 1..N : fills[n] \in FillsFrom(ids)
  BY <1>1
<1>3. states \in S
  BY DEF FilledOn, SameTerms
<1>4. ASSUME NEW n \in 1..N, NEW old \in S
      PROVE  Both(old, fills[n]) \in S
  <2>1. /\ fills[n].quantity \in Int
        /\ id \in Touched(id, fills) /\ fills[n].order_id \in Touched(id, fills)
    BY <1>1, <1>2 DEF FillsFrom, Touched, Shares
  <2>2. Filled(old, id, fills[n].quantity) \in S
    BY <2>1, FilledOK
  <2> QED BY <2>1, <2>2, FilledOK
<1>5. PICK step : step = [n \in 1..N |-> [old \in S |-> Both(old, fills[n])]]
  OBVIOUS
<1>6. step \in [1..N -> [S -> S]]
  <2> HIDE DEF S, Both
  <2> QED BY <1>4, <1>5
<1>7. PICK g \in [0..N -> S] : Follows(g, N, states, step)
  <2> HIDE DEF S
  <2> QED BY <1>1, <1>3, <1>6, RecursionExists
<1>8. g = [n \in 0..N |-> IF n = 0 THEN states ELSE Both(g[n - 1], fills[n])]
  <2> HIDE DEF S, Both
  <2>1. \A n \in 1..N : step[n][g[n - 1]] = Both(g[n - 1], fills[n])
    BY <1>1, <1>5, <1>7
  <2>2. g = [n \in 0..N |-> IF n = 0 THEN states ELSE step[n][g[n - 1]]]
    BY <1>7 DEF Follows
  <2>3. \A n \in 0..N : n # 0 => n \in 1..N
    BY <1>1
  <2> QED BY <2>1, <2>2, <2>3
<1>9. PICK f : f = CHOOSE h : h = [n \in 0..N |-> IF n = 0 THEN states
                                                  ELSE Both(h[n - 1], fills[n])]
  OBVIOUS
<1>10. f = [n \in 0..N |-> IF n = 0 THEN states ELSE Both(f[n - 1], fills[n])]
  <2> HIDE DEF Both
  <2> QED BY <1>8, <1>9, Zenon
<1>11. Applied(states, id, fills) = f[N]
  BY <1>1, <1>9, Zenon DEF Applied
<1>12. \A n \in 0..N : f[n] \in S
  <2> DEFINE T == {n \in 0..N : f[n] \in S}
  <2> HIDE DEF S, Both
  <2>1. 0 \in T
    BY <1>1, <1>3, <1>10
  <2>2. ASSUME NEW n \in 1..N, n - 1 \in T PROVE n \in T
    <3>1. f[n] = Both(f[n - 1], fills[n]) /\ f[n - 1] \in S
      BY <1>1, <1>10, <2>2
    <3> QED BY <3>1, <1>4
  <2>3. 0..N \subseteq T
    <3> HIDE DEF T
    <3> QED BY <1>1, <2>1, <2>2, Inductive
  <2> QED BY <1>1, <2>3
<1>13. AppliedBy(f, states, id, fills)
  BY <1>1, <1>10, Zenon DEF AppliedBy
<1> QED BY <1>1, <1>11, <1>12, <1>13

\* The states that are left are ones that only fills of the orders hit have changed.
LEMMA AppliedAre ==
  ASSUME NEW states, states \in [DOMAIN states -> OrderStates], NEW id,
         NEW ids, NEW fills \in Seq(FillsFrom(ids))
  PROVE  Applied(states, id, fills) \in FilledOn(states, Touched(id, fills))
<1>1. PICK N \in Nat : N = Len(fills)
  OBVIOUS
<1>2. PICK S : S = FilledOn(states, Touched(id, fills))
  OBVIOUS
<1>3. PICK f : /\ AppliedBy(f, states, id, fills) /\ \A n \in 0..N : f[n] \in S
               /\ Applied(states, id, fills) = f[N]
  BY <1>1, <1>2, AppliedRuns
<1>4. N \in 0..N
  OBVIOUS
<1> QED BY <1>2, <1>3, <1>4

\* Applying starts from the states as they were, so no fills change nothing.
LEMMA AppliedStarts ==
  ASSUME NEW states, states \in [DOMAIN states -> OrderStates], NEW id,
         NEW ids, NEW fills \in Seq(FillsFrom(ids)), NEW N \in Nat, N = Len(fills)
  PROVE  N = 0 => Applied(states, id, fills) = states
<1>1. PICK S : S = FilledOn(states, Touched(id, fills))
  OBVIOUS
<1>2. PICK f : /\ AppliedBy(f, states, id, fills) /\ \A n \in 0..N : f[n] \in S
               /\ Applied(states, id, fills) = f[N]
  BY <1>1, AppliedRuns
<1>3. f[0] = states
  <2>1. 0 \in 0..N
    OBVIOUS
  <2> QED BY <1>2, <2>1 DEF AppliedBy
<1> QED BY <1>2, <1>3

\* The same, of the fills themselves.
LEMMA AppliedNothing ==
  ASSUME NEW states, states \in [DOMAIN states -> OrderStates], NEW id,
         NEW ids, NEW fills \in Seq(FillsFrom(ids)), Len(fills) = 0
  PROVE  Applied(states, id, fills) = states
<1>1. PICK N \in Nat : N = Len(fills)
  OBVIOUS
<1>2. N = 0 => Applied(states, id, fills) = states
  BY <1>1, AppliedStarts
<1> QED BY <1>1, <1>2

\* A fill applied to both its orders.
Both(states, id, fill) ==
  Filled(Filled(states, id, fill.quantity), fill.order_id, fill.quantity)

\* The first fill is applied before the rest.
LEMMA AppliedGoesOn ==
  ASSUME NEW states, states \in [DOMAIN states -> OrderStates], NEW id,
         NEW ids, NEW fills \in Seq(FillsFrom(ids)), fills # <<>>,
         NEW next, next = Both(states, id, fills[1])
  PROVE  /\ next \in [DOMAIN states -> OrderStates]
         /\ Applied(states, id, fills) = Applied(next, id, Tail(fills))
<1>1. PICK M \in Nat : M = Len(fills)
  OBVIOUS
<1>2. PICK N \in Nat : M = N + 1
  <2>1. M # 0
    BY <1>1
  <2>2. M - 1 \in Nat /\ M = (M - 1) + 1
    BY <2>1
  <2> QED BY <2>2
<1>3. PICK rest : rest = Tail(fills)
  OBVIOUS
<1>4. /\ rest \in Seq(FillsFrom(ids)) /\ Len(rest) = N
      /\ \A i \in 1..N : rest[i] = fills[i + 1]
  <2>1. Len(fills) = N + 1
    BY <1>1, <1>2
  <2>2. rest \in Seq(FillsFrom(ids)) /\ Len(rest) = Len(fills) - 1
    BY <1>3, <2>1
  <2>3. \A i \in 1..(Len(fills) - 1) : rest[i] = fills[i + 1]
    BY <1>3, <2>1
  <2> QED BY <2>1, <2>2, <2>3
<1>5. next \in [DOMAIN states -> OrderStates]
  <2>1. PICK S : S = FilledOn(states, Touched(id, fills))
    OBVIOUS
  <2>2. states \in S
    BY <2>1 DEF FilledOn, SameTerms
  <2>3. 1 \in DOMAIN fills /\ fills[1] \in FillsFrom(ids)
    BY <1>1, <1>2
  <2>4. /\ fills[1].quantity \in Int
        /\ id \in Touched(id, fills) /\ fills[1].order_id \in Touched(id, fills)
    BY <2>3 DEF FillsFrom, Touched, Shares
  <2>5. Filled(states, id, fills[1].quantity) \in S
    BY <2>1, <2>2, <2>4, FilledOK
  <2>6. next \in S
    BY <2>1, <2>4, <2>5, FilledOK DEF Both
  <2> QED BY <2>1, <2>6 DEF FilledOn
<1>a. PICK S, R : /\ S = FilledOn(states, Touched(id, fills))
                  /\ R = FilledOn(next, Touched(id, rest))
  OBVIOUS
<1>6. PICK f : /\ AppliedBy(f, states, id, fills) /\ \A n \in 0..M : f[n] \in S
               /\ Applied(states, id, fills) = f[M]
  BY <1>1, <1>a, AppliedRuns
<1>7. PICK g : /\ AppliedBy(g, next, id, rest) /\ \A n \in 0..N : g[n] \in R
               /\ Applied(next, id, rest) = g[N]
  <2>1. DOMAIN next = DOMAIN states
    BY <1>5
  <2>2. next \in [DOMAIN next -> OrderStates]
    BY <1>5, <2>1
  <2>3. rest \in Seq(FillsFrom(ids)) /\ N = Len(rest)
    BY <1>4
  <2> QED BY <1>a, <2>2, <2>3, AppliedRuns
<1>8. f = [n \in 0..M |-> IF n = 0 THEN states ELSE Both(f[n - 1], id, fills[n])]
  BY <1>1, <1>6 DEF AppliedBy, Both
<1>9. g = [n \in 0..N |-> IF n = 0 THEN next ELSE Both(g[n - 1], id, rest[n])]
  BY <1>4, <1>7 DEF AppliedBy, Both
<1> DEFINE T == {n \in 0..N : f[n + 1] = g[n]}
<1>10. 0 \in T
  <2>1. 0 \in 0..N /\ 0 \in 0..M /\ 1 \in 0..M /\ 1 - 1 = 0 /\ 0 + 1 = 1
    BY <1>2
  <2>2. f[0] = states /\ f[1] = Both(f[0], id, fills[1])
    BY <1>8, <2>1
  <2>3. g[0] = next
    BY <1>9, <2>1
  <2> QED BY <2>1, <2>2, <2>3
<1>11. ASSUME NEW n \in 1..N, n - 1 \in T PROVE n \in T
  <2>1. n \in 0..N /\ n # 0 /\ n \in Nat
    OBVIOUS
  <2>a. n + 1 \in 0..M /\ n + 1 # 0
    BY <1>2, <2>1
  <2>b. (n + 1) - 1 = n /\ (n - 1) + 1 = n
    BY <2>1
  <2>2. f[n] = g[n - 1]
    BY <1>11, <2>b
  <2>3. f[n + 1] = Both(f[n], id, fills[n + 1])
    BY <1>8, <2>a, <2>b
  <2>4. g[n] = Both(g[n - 1], id, rest[n])
    BY <1>9, <2>1
  <2>5. rest[n] = fills[n + 1]
    BY <1>4
  <2> QED BY <2>1, <2>2, <2>3, <2>4, <2>5
<1>12. N \in T
  <2>1. 0..N \subseteq T
    <3> HIDE DEF T
    <3> QED BY <1>10, <1>11, Inductive
  <2> QED BY <2>1
<1> QED BY <1>1, <1>2, <1>3, <1>4, <1>5, <1>6, <1>7, <1>12

\* Where the loop ends, and not how many shares the order came with, decides.
LEMMA EndedByTerms ==
  ASSUME NEW ex, NEW order, NEW run
  PROVE  Ended(ex, TermsOf(order), run) = Ended(ex, order, run)
<1>1. PICK terms : terms = TermsOf(order)
  OBVIOUS
<1>2. /\ terms.order_id = order.order_id /\ terms.symbol = order.symbol
      /\ terms.side = order.side /\ terms.price = order.price
  BY <1>1 DEF TermsOf
<1>3. \A book : AfterMatch(book, terms, run) = AfterMatch(book, order, run)
  BY <1>2 DEF AfterMatch
<1> QED BY <1>1, <1>2, <1>3 DEF Ended

\* process_order and the trades of its call, with the loop as it stands at first.
LEMMA ProcessEnds ==
  ASSUME NEW ex, NEW order, NEW ids \in SUBSET OrderId, order.side \in Side,
         order.quantity \in Int,
         NEW levels, levels = ex.books[order.symbol][Opposite(order.side)],
         Tidy(levels, EntriesOf(ids)),
         NEW terms, terms = TermsOf(order)
  PROVE  Process(ex, order).ex = Ended(ex, terms, LoopEnd(terms, Begun(order, levels)))
<1>1. PICK run : run = Begun(order, levels)
  OBVIOUS
<1>2. run \in RunsOf(ids)
  BY <1>1, BegunOK
<1>3. PICK end : end = LoopEnd(order, run)
  OBVIOUS
<1>4. LoopEnd(terms, run) = end
  BY <1>2, <1>3, FinishByTerms
<1>5. match_orders(order, levels) = end
  BY <1>1, <1>3 DEF match_orders
<1>6. Process(ex, order).ex = Ended(ex, order, end)
  BY <1>5 DEF Process, Ended
<1> QED BY <1>1, <1>4, <1>6, EndedByTerms

\* How much of an order is filled; of one that nobody knows, nothing.
FilledIn(states, x) == IF x \in DOMAIN states THEN states[x].filled_quantity ELSE 0

\* What a fill in a call on order `id` trades of order x, and what all of them do.
Traded(fill, id, x) ==
  (IF id = x THEN fill.quantity ELSE 0) + (IF fill.order_id = x THEN fill.quantity ELSE 0)

TradedOf(fills, id, x) ==
  Summed([n \in DOMAIN fills |-> Traded(fills[n], id, x)], Len(fills))

\* What a fill trades is a whole number of shares.
LEMMA TradedIsNumber ==
  ASSUME NEW ids, NEW fills \in Seq(FillsFrom(ids)), NEW id, NEW x
  PROVE  /\ Len(fills) \in Nat /\ DOMAIN fills = 1..Len(fills)
         /\ \A n \in 1..Len(fills) :
              /\ fills[n] \in FillsFrom(ids) /\ fills[n].quantity \in Int
              /\ Traded(fills[n], id, x) \in Int
<1>1. \A n \in 1..Len(fills) : fills[n] \in FillsFrom(ids)
  OBVIOUS
<1>2. \A n \in 1..Len(fills) : fills[n].quantity \in Int
  BY <1>1 DEF FillsFrom, Shares
<1> QED BY <1>1, <1>2 DEF Traded

\* A fill adds its shares to what is filled of its order, and of no other.
LEMMA FilledAdds ==
  ASSUME NEW states, NEW hit, NEW old \in FilledOn(states, hit), NEW id \in DOMAIN states,
         NEW quantity \in Int, NEW x
  PROVE  /\ FilledIn(old, x) \in Int
         /\ FilledIn(Filled(old, id, quantity), x) =
              FilledIn(old, x) + (IF id = x THEN quantity ELSE 0)
<1>1. DOMAIN old = DOMAIN states /\ \A z \in DOMAIN states : old[z] \in OrderStates
  BY DEF FilledOn
<1>2. PICK new : new = Filled(old, id, quantity)
  OBVIOUS
<1>3. DOMAIN new = DOMAIN states
      /\ \A z \in DOMAIN states : new[z] = IF z = id THEN AddFill(old[z], quantity) ELSE old[z]
  BY <1>1, <1>2 DEF Filled
<1>4. ASSUME NEW st \in OrderStates
      PROVE  AddFill(st, quantity).filled_quantity = st.filled_quantity + quantity
             /\ st.filled_quantity \in Int
  BY DEF AddFill, OrderStates
<1>5. CASE x \in DOMAIN states
  <2>1. old[x] \in OrderStates
    BY <1>1, <1>5
  <2>2. old[x].filled_quantity \in Int
        /\ AddFill(old[x], quantity).filled_quantity = old[x].filled_quantity + quantity
    BY <1>4, <2>1
  <2> QED BY <1>1, <1>2, <1>3, <1>5, <2>2 DEF FilledIn
<1>6. CASE x \notin DOMAIN states
  BY <1>1, <1>2, <1>3, <1>6 DEF FilledIn
<1> QED BY <1>5, <1>6

\* The fills of a call add what they trade of an order to what is filled of it.
LEMMA AppliedAdds ==
  ASSUME NEW states, states \in [DOMAIN states -> OrderStates], NEW id \in DOMAIN states,
         NEW ids, ids \subseteq DOMAIN states, NEW fills \in Seq(FillsFrom(ids)), NEW x
  PROVE  FilledIn(Applied(states, id, fills), x) = FilledIn(states, x) + TradedOf(fills, id, x)
<1>1. PICK N \in Nat : N = Len(fills)
  OBVIOUS
<1>2. PICK S : S = FilledOn(states, Touched(id, fills))
  OBVIOUS
<1>3. PICK f : /\ AppliedBy(f, states, id, fills) /\ \A n \in 0..N : f[n] \in S
               /\ Applied(states, id, fills) = f[N]
  BY <1>1, <1>2, AppliedRuns
<1>4. PICK q : q = [n \in 1..N |-> Traded(fills[n], id, x)]
  OBVIOUS
<1>5. DOMAIN fills = 1..N /\ Numbers(q, N)
      /\ \A n \in 1..N : fills[n] \in FillsFrom(ids) /\ fills[n].quantity \in Int
  BY <1>1, <1>4, TradedIsNumber DEF Numbers
<1>6. TradedOf(fills, id, x) = Summed(q, N)
  BY <1>1, <1>4, <1>5 DEF TradedOf
<1>7. f[0] = states /\ \A n \in 1..N :
        f[n] = Filled(Filled(f[n - 1], id, fills[n].quantity),
                      fills[n].order_id, fills[n].quantity)
  BY <1>1, <1>3 DEF AppliedBy
<1> DEFINE T == {n \in 0..N : FilledIn(f[n], x) = FilledIn(states, x) + Summed(q, n)}
<1>8. FilledIn(states, x) \in Int
  BY DEF FilledIn, OrderStates
<1>9. 0 \in T
  BY <1>1, <1>5, <1>7, <1>8, SummedStep
<1>10. ASSUME NEW n \in 1..N, n - 1 \in T
       PROVE  n \in T
  <2>1. PICK old, mid, now, k, z : /\ old = f[n - 1] /\ mid = Filled(old, id, k)
                                   /\ now = Filled(mid, z, k)
                                   /\ k = fills[n].quantity /\ z = fills[n].order_id
    OBVIOUS
  <2>2. k \in Int /\ z \in DOMAIN states /\ id \in Touched(id, fills) /\ z \in Touched(id, fills)
    BY <1>5, <2>1 DEF FillsFrom, Touched
  <2>3. old \in FilledOn(states, Touched(id, fills))
    BY <1>2, <1>3, <2>1
  <2>4. mid \in FilledOn(states, Touched(id, fills))
    BY <2>1, <2>2, <2>3, FilledOK
  <2>5. FilledIn(old, x) \in Int
        /\ FilledIn(mid, x) = FilledIn(old, x) + (IF id = x THEN k ELSE 0)
    BY <2>1, <2>2, <2>3, FilledAdds
  <2>6. FilledIn(now, x) = FilledIn(mid, x) + (IF z = x THEN k ELSE 0)
    BY <2>1, <2>2, <2>4, FilledAdds
  <2>7. q[n] = (IF id = x THEN k ELSE 0) + (IF z = x THEN k ELSE 0)
    BY <1>4, <2>1 DEF Traded
  <2>8. FilledIn(now, x) = FilledIn(old, x) + q[n]
    BY <2>2, <2>5, <2>6, <2>7
  <2>9. f[n] = now /\ q[n] \in Int
    BY <1>5, <1>7, <2>1 DEF Numbers
  <2>10. n \in Nat /\ n # 0 /\ Numbers(q, n)
    BY <1>5 DEF Numbers
  <2>11. Summed(q, n - 1) \in Int /\ Summed(q, n) = Summed(q, n - 1) + q[n]
    BY <2>10, SummedStep
  <2>12. FilledIn(old, x) = FilledIn(states, x) + Summed(q, n - 1)
    BY <1>10, <2>1
  <2> QED BY <1>8, <2>8, <2>9, <2>11, <2>12
<1>11. 0..N \subseteq T
  <2> HIDE DEF T
  <2> QED BY <1>9, <1>10, Inductive
<1> QED BY <1>1, <1>3, <1>6, <1>11

-----------------------------------------------------------------------------
(* The calls.                                                              *)

\* What IsExchange says, for the provers to take apart.
LEMMA SidesFollow ==
  ASSUME NEW before, NEW after, DOMAIN after = DOMAIN before,
         \A id \in DOMAIN before :
           after[id].symbol = before[id].symbol /\ after[id].side = before[id].side,
         NEW s, NEW sd
  PROVE  OrdersOn(after, s, sd) = OrdersOn(before, s, sd)
  BY DEF OrdersOn

\* process_order and the trades that are applied after it.
LEMMA ProcessOK ==
  ASSUME NEW R, NEW ex, IsExchange(ex, R), NEW order,
         order.symbol \in R, order.side \in Side, order.price \in Prices,
         order.quantity \in Int,
         order.order_id \in OrdersOn(ex.order_states, order.symbol, order.side),
         NEW call, call = Process(ex, order)
  PROVE  /\ IsExchange(call.ex, R)
         /\ call.ex.order_states \in
              FilledOn(ex.order_states, Touched(order.order_id, call.trades))
         /\ call.trades \in
              Seq(FillsFrom(OrdersOn(ex.order_states, order.symbol, Opposite(order.side))))
<1> DEFINE s      == order.symbol
           side   == order.side
           other  == Opposite(side)
           states == ex.order_states
           ids(sd) == OrdersOn(states, s, sd)
<1>1. /\ states \in [DOMAIN states -> OrderStates] /\ DOMAIN states \subseteq OrderId
      /\ ex.books = [r \in R |-> [sd \in Side |-> ex.books[r][sd]]]
      /\ \A r \in R, sd \in Side : Tidy(ex.books[r][sd], EntriesOf(OrdersOn(states, r, sd)))
      /\ \A id \in DOMAIN states : ~is_terminal(states[id]) => states[id].symbol \in R
  BY DEF IsExchange
<1>2. other \in Side /\ other # side /\ Side = {side, other}
  BY DEF Opposite, Side
<1>3. PICK run : run = match_orders(order, ex.books[s][other])
  OBVIOUS
<1>4. ids(other) \in SUBSET OrderId /\ Tidy(ex.books[s][other], EntriesOf(ids(other)))
  BY <1>1, <1>2 DEF OrdersOn
<1>5. run \in RunsOf(ids(other))
  BY <1>3, <1>4, MatchedOK
<1>6. /\ Tidy(run.levels, EntriesOf(ids(other))) /\ run.left \in Int
      /\ run.fills \in Seq(FillsFrom(ids(other)))
  BY <1>5, SideIsTidy DEF RunsOf
<1>7. PICK after : after = Applied(states, order.order_id, run.fills)
  OBVIOUS
<1>8. after \in FilledOn(states, Touched(order.order_id, run.fills))
  BY <1>1, <1>6, <1>7, AppliedAre
<1>9. PICK book : book = AfterMatch(ex.books[s], order, run)
  OBVIOUS
<1>10. /\ book = [sd \in Side |-> book[sd]]
       /\ \A sd \in Side : Tidy(book[sd], EntriesOf(ids(sd)))
  <2>1. ex.books[s] = [sd \in Side |-> ex.books[s][sd]]
    BY <1>1
  <2>2. PICK hit : hit = [ex.books[s] EXCEPT ![other] = run.levels]
    OBVIOUS
  <2>3. /\ hit = [sd \in Side |-> hit[sd]]
        /\ hit[other] = run.levels /\ hit[side] = ex.books[s][side]
    BY <1>2, <2>1, <2>2
  <2>4. Tidy(hit[side], EntriesOf(ids(side))) /\ Tidy(hit[other], EntriesOf(ids(other)))
    BY <1>1, <1>6, <2>3
  <2>5. CASE run.left > 0
    <3>1. PICK entry : entry = [order_id |-> order.order_id, quantity |-> run.left]
      OBVIOUS
    <3>2. entry \in EntriesOf(ids(side))
      BY <1>6, <2>5, <3>1 DEF EntriesOf, Shares
    <3>3. book = [hit EXCEPT ![side] = Rest(hit[side], order.price, entry)]
      BY <1>9, <2>2, <2>5, <3>1 DEF AfterMatch
    <3>4. Tidy(Rest(hit[side], order.price, entry), EntriesOf(ids(side)))
      BY <2>4, <3>2, RestTidy
    <3>5. /\ book = [sd \in Side |-> book[sd]] /\ book[other] = hit[other]
          /\ book[side] = Rest(hit[side], order.price, entry)
      BY <1>2, <2>3, <3>3
    <3> QED BY <1>2, <2>4, <3>4, <3>5
  <2>6. CASE ~(run.left > 0)
    <3>1. book = hit
      BY <1>9, <2>2, <2>6 DEF AfterMatch
    <3> QED BY <1>2, <2>3, <2>4, <3>1
  <2> QED BY <2>5, <2>6
<1>11. /\ call.trades = run.fills
       /\ call.ex = [order_states |-> after, books |-> [ex.books EXCEPT ![s] = book]]
  BY <1>3, <1>7, <1>9 DEF Process
<1>12. DOMAIN after = DOMAIN states /\ after \in [DOMAIN after -> OrderStates]
       /\ \A id \in DOMAIN states :
            after[id].symbol = states[id].symbol /\ after[id].side = states[id].side
  BY <1>8 DEF FilledOn, SameTerms
<1>13. IsExchange(call.ex, R)
  <2>1. call.ex = [order_states |-> call.ex.order_states, books |-> call.ex.books]
        /\ call.ex.order_states = after
        /\ call.ex.books = [ex.books EXCEPT ![s] = book]
    BY <1>11
  <2>2. /\ call.ex.books = [r \in R |-> [sd \in Side |-> call.ex.books[r][sd]]]
        /\ \A r \in R, sd \in Side :
             call.ex.books[r][sd] = IF r = s THEN book[sd] ELSE ex.books[r][sd]
    <3>1. PICK books : books = call.ex.books
      OBVIOUS
    <3>2. PICK old : old = ex.books
      OBVIOUS
    <3>3. old = [r \in R |-> old[r]] /\ books = [old EXCEPT ![s] = book]
      BY <1>1, <2>1, <3>1, <3>2
    <3>4. \A r \in R : books[r] = IF r = s THEN book ELSE old[r]
      BY <3>3
    <3>5. \A r \in R : books[r] = [sd \in Side |-> books[r][sd]]
      BY <1>1, <1>10, <3>2, <3>4
    <3>6. books = [r \in R |-> [sd \in Side |-> books[r][sd]]]
      BY <3>3, <3>5
    <3> QED BY <3>1, <3>2, <3>4, <3>6
  <2>3. \A r \in R, sd \in Side :
          Tidy(call.ex.books[r][sd], EntriesOf(OrdersOn(after, r, sd)))
    <3> SUFFICES ASSUME NEW r \in R, NEW sd \in Side
                 PROVE  Tidy(call.ex.books[r][sd], EntriesOf(OrdersOn(after, r, sd)))
      OBVIOUS
    <3>1. OrdersOn(after, r, sd) = OrdersOn(states, r, sd)
      BY <1>12, SidesFollow
    <3> QED BY <1>1, <1>10, <2>2, <3>1
  <2>4. \A id \in DOMAIN after : ~is_terminal(after[id]) => after[id].symbol \in R
    <3> SUFFICES ASSUME NEW id \in DOMAIN after, ~is_terminal(after[id])
                 PROVE  after[id].symbol \in R
      OBVIOUS
    <3>1. after[id] = states[id] \/ id \in Touched(order.order_id, run.fills)
      BY <1>8, <1>12 DEF FilledOn
    <3>2. \A n \in DOMAIN run.fills : run.fills[n].order_id \in ids(other)
      <4>1. PICK fills, on : fills = run.fills /\ on = ids(other)
        OBVIOUS
      <4>2. fills \in Seq(FillsFrom(on))
        BY <1>6, <4>1
      <4>3. \A n \in DOMAIN fills : fills[n] \in FillsFrom(on)
        BY <4>2
      <4> QED BY <4>1, <4>3 DEF FillsFrom
    <3>3. \A x \in Touched(order.order_id, run.fills) : states[x].symbol = s
      BY <3>2 DEF Touched, OrdersOn
    <3> QED BY <1>1, <1>12, <3>1, <3>3
  <2> QED BY <1>1, <1>12, <2>1, <2>2, <2>3, <2>4 DEF IsExchange
<1> QED BY <1>6, <1>8, <1>11, <1>13

\* What a call on order `id` may do to the exchange: it keeps the exchange in
\* order, it forgets no order, its fills are of orders that were there, and it
\* changes no other order.
CallKeeps(R, ex, call, id, new_ids) ==
  /\ IsExchange(call.ex, R)
  /\ DOMAIN call.ex.order_states = DOMAIN ex.order_states \cup new_ids
  /\ call.trades \in Seq(FillsFrom(DOMAIN ex.order_states))
  /\ \A x \in DOMAIN ex.order_states \ Touched(id, call.trades) :
       call.ex.order_states[x] = ex.order_states[x]

\* Fills of some orders are fills of more.
LEMMA MoreFills ==
  ASSUME NEW ids, NEW more, ids \subseteq more, NEW fills \in Seq(FillsFrom(ids))
  PROVE  fills \in Seq(FillsFrom(more))
<1>1. FillsFrom(ids) \subseteq FillsFrom(more)
  BY DEF FillsFrom
<1>2. \A i \in 1..Len(fills) : fills[i] \in FillsFrom(more)
  BY <1>1
<1> QED BY <1>2

\* A state is recorded for a new order, or one of the same symbol and side for
\* one that is known; when it is live, its symbol has a book.
LEMMA WithStateOK ==
  ASSUME NEW R, NEW ex, IsExchange(ex, R), NEW id \in OrderId, NEW st \in OrderStates,
         ~is_terminal(st) => st.symbol \in R,
         id \in DOMAIN ex.order_states =>
           /\ st.symbol = ex.order_states[id].symbol
           /\ st.side = ex.order_states[id].side,
         NEW new, new = WithState(ex, id, st)
  PROVE  /\ IsExchange(new, R) /\ new.books = ex.books
         /\ new.order_states = [x \in DOMAIN ex.order_states \cup {id} |->
                                  IF x = id THEN st ELSE ex.order_states[x]]
<1>1. /\ ex = [order_states |-> ex.order_states, books |-> ex.books]
      /\ ex.order_states \in [DOMAIN ex.order_states -> OrderStates]
      /\ DOMAIN ex.order_states \subseteq OrderId
      /\ ex.books = [s \in R |-> [sd \in Side |-> ex.books[s][sd]]]
      /\ \A s \in R, sd \in Side :
           Tidy(ex.books[s][sd], EntriesOf(OrdersOn(ex.order_states, s, sd)))
      /\ \A x \in DOMAIN ex.order_states :
           ~is_terminal(ex.order_states[x]) => ex.order_states[x].symbol \in R
  BY DEF IsExchange
<1>2. PICK states, after :
        /\ states = ex.order_states
        /\ after = [x \in DOMAIN states \cup {id} |-> IF x = id THEN st ELSE states[x]]
  OBVIOUS
<1>3. new = [order_states |-> after, books |-> ex.books]
  BY <1>1, <1>2 DEF WithState
<1>4. after \in [DOMAIN after -> OrderStates] /\ DOMAIN after \subseteq OrderId
  BY <1>1, <1>2
<1>5. \A s \in R, sd \in Side : Tidy(ex.books[s][sd], EntriesOf(OrdersOn(after, s, sd)))
  <2> SUFFICES ASSUME NEW s \in R, NEW sd \in Side
               PROVE  Tidy(ex.books[s][sd], EntriesOf(OrdersOn(after, s, sd)))
    OBVIOUS
  <2>1. OrdersOn(states, s, sd) \subseteq OrdersOn(after, s, sd)
    BY <1>2 DEF OrdersOn
  <2>2. EntriesOf(OrdersOn(states, s, sd)) \subseteq EntriesOf(OrdersOn(after, s, sd))
    BY <2>1 DEF EntriesOf
  <2>3. Tidy(ex.books[s][sd], EntriesOf(OrdersOn(states, s, sd)))
    BY <1>1, <1>2
  <2> QED BY <2>2, <2>3, TidyInLarger
<1>6. \A x \in DOMAIN after : ~is_terminal(after[x]) => after[x].symbol \in R
  BY <1>1, <1>2
<1>7. new.order_states = after /\ new.books = ex.books
      /\ new = [order_states |-> new.order_states, books |-> new.books]
  BY <1>3
<1>8. IsExchange(new, R)
  <2>1. new.books = [s \in R |-> [sd \in Side |-> new.books[s][sd]]]
    BY <1>1, <1>7
  <2>2. \A s \in R, sd \in Side :
          Tidy(new.books[s][sd], EntriesOf(OrdersOn(new.order_states, s, sd)))
    BY <1>5, <1>7
  <2> QED BY <1>4, <1>6, <1>7, <2>1, <2>2 DEF IsExchange
<1> QED BY <1>2, <1>7, <1>8

\* Taking an order off its book.
LEMMA PulledOK ==
  ASSUME NEW R, NEW ex, IsExchange(ex, R), NEW id \in DOMAIN ex.order_states,
         NEW new, new = Pulled(ex, id)
  PROVE  IsExchange(new, R) /\ new.order_states = ex.order_states
<1> DEFINE st == ex.order_states[id]
<1>1. /\ ex = [order_states |-> ex.order_states, books |-> ex.books]
      /\ ex.order_states \in [DOMAIN ex.order_states -> OrderStates]
      /\ DOMAIN ex.order_states \subseteq OrderId
      /\ ex.books = [s \in R |-> [sd \in Side |-> ex.books[s][sd]]]
      /\ \A s \in R, sd \in Side :
           Tidy(ex.books[s][sd], EntriesOf(OrdersOn(ex.order_states, s, sd)))
      /\ \A x \in DOMAIN ex.order_states :
           ~is_terminal(ex.order_states[x]) => ex.order_states[x].symbol \in R
  BY DEF IsExchange
<1>2. st.side \in Side /\ st.price \in Prices
  BY <1>1 DEF OrderStates
<1>3. PICK books : books = [ex.books EXCEPT ![st.symbol][st.side] =
                              CancelFromLevel(@, st.price, id)]
  OBVIOUS
<1>4. new = [order_states |-> ex.order_states, books |-> books]
  BY <1>1, <1>3 DEF Pulled
<1>5. CASE st.symbol \notin R
  <2>1. books = ex.books
    BY <1>1, <1>3, <1>5
  <2> QED BY <1>1, <1>4, <2>1 DEF IsExchange
<1>6. CASE st.symbol \in R
  <2>1. PICK side : side = CancelFromLevel(ex.books[st.symbol][st.side], st.price, id)
    OBVIOUS
  <2>2. Tidy(side, EntriesOf(OrdersOn(ex.order_states, st.symbol, st.side)))
    BY <1>1, <1>2, <1>6, <2>1, CancelFromLevelTidy
  <2>3. /\ books = [s \in R |-> [sd \in Side |-> books[s][sd]]]
        /\ \A s \in R, sd \in Side :
             books[s][sd] = IF s = st.symbol /\ sd = st.side THEN side ELSE ex.books[s][sd]
    <3>1. PICK mine : mine = [ex.books[st.symbol] EXCEPT ![st.side] = side]
      OBVIOUS
    <3>2. books = [ex.books EXCEPT ![st.symbol] = mine]
      BY <1>3, <2>1, <3>1
    <3>3. mine = [sd \in Side |-> IF sd = st.side THEN side ELSE ex.books[st.symbol][sd]]
      BY <1>1, <1>2, <1>6, <3>1
    <3> QED BY <1>1, <1>6, <3>2, <3>3
  <2>4. \A s \in R, sd \in Side :
          Tidy(books[s][sd], EntriesOf(OrdersOn(ex.order_states, s, sd)))
    BY <1>1, <2>2, <2>3
  <2> QED BY <1>1, <1>4, <2>3, <2>4 DEF IsExchange
<1> QED BY <1>5, <1>6

\* cancel_order's way out, which modify_order shares.
LEMMA CancelledIs ==
  ASSUME NEW R, NEW ex, IsExchange(ex, R), NEW id \in DOMAIN ex.order_states,
         NEW new, new = Cancelled(ex, id)
  PROVE  /\ IsExchange(new, R) /\ DOMAIN new.order_states = DOMAIN ex.order_states
         /\ \A x \in DOMAIN ex.order_states \ {id} :
              new.order_states[x] = ex.order_states[x]
         /\ new.order_states[id] = [ex.order_states[id] EXCEPT !.order_status = "Cancelled"]
<1>1. PICK off : off = Pulled(ex, id)
  OBVIOUS
<1>2. IsExchange(off, R) /\ off.order_states = ex.order_states
  BY <1>1, PulledOK
<1>3. PICK st : st = [off.order_states[id] EXCEPT !.order_status = "Cancelled"]
  OBVIOUS
<1>4. /\ st \in OrderStates /\ is_terminal(st)
      /\ st.symbol = off.order_states[id].symbol /\ st.side = off.order_states[id].side
      /\ id \in OrderId
  BY <1>2, <1>3 DEF IsExchange, OrderStates, OrderStatus, is_terminal
<1>5. PICK other : other = WithState(off, id, st)
  OBVIOUS
<1>6. IsExchange(other, R) /\ other.books = off.books
      /\ other.order_states = [x \in DOMAIN off.order_states \cup {id} |->
                                 IF x = id THEN st ELSE off.order_states[x]]
  BY <1>2, <1>4, <1>5, WithStateOK
<1>7. off = [order_states |-> off.order_states, books |-> off.books]
      /\ other = [order_states |-> other.order_states, books |-> other.books]
      /\ off.order_states = [x \in DOMAIN off.order_states |-> off.order_states[x]]
  BY <1>2, <1>6 DEF IsExchange
<1>8. PICK states : states = [off.order_states EXCEPT ![id].order_status = "Cancelled"]
  OBVIOUS
<1>9. states = other.order_states
  BY <1>2, <1>3, <1>6, <1>7, <1>8
<1>10. new = [order_states |-> states, books |-> off.books]
  BY <1>1, <1>7, <1>8 DEF Cancelled
<1>11. new = other
  BY <1>6, <1>7, <1>9, <1>10
<1>12. new.order_states[id] = st
  BY <1>2, <1>6, <1>11
<1> QED BY <1>2, <1>3, <1>6, <1>11, <1>12

\* It keeps the exchange in order and changes no other order.
LEMMA CancelledOK ==
  ASSUME NEW R, NEW ex, IsExchange(ex, R), NEW id \in DOMAIN ex.order_states,
         NEW new, new = Cancelled(ex, id)
  PROVE  /\ IsExchange(new, R) /\ DOMAIN new.order_states = DOMAIN ex.order_states
         /\ \A x \in DOMAIN ex.order_states \ {id} :
              new.order_states[x] = ex.order_states[x]
<1>1. /\ IsExchange(new, R) /\ DOMAIN new.order_states = DOMAIN ex.order_states
      /\ \A x \in DOMAIN ex.order_states \ {id} :
           new.order_states[x] = ex.order_states[x]
      /\ new.order_states[id] = [ex.order_states[id] EXCEPT !.order_status = "Cancelled"]
  BY CancelledIs
<1> QED BY <1>1

\* An order that is submitted trades with the other side of its symbol, keeps what
\* its message asks for, and so does every order there was.
SubmitDone(ex, call, order) ==
  /\ call.trades \in Seq(FillsFrom(
       OrdersOn(ex.order_states, order.symbol, Opposite(order.side))))
  /\ SameTerms(call.ex.order_states[order.order_id], order)
  /\ \A x \in DOMAIN ex.order_states :
       SameTerms(call.ex.order_states[x], ex.order_states[x])

\* submit_order, of an order the OMS does not know.
LEMMA SubmitIs ==
  ASSUME NEW R, NEW ex, IsExchange(ex, R), NEW ctx, NEW order, IsOrder(order),
         order.order_id \notin DOMAIN ex.order_states,
         NEW call, call = submit_order(ex, ctx, order)
  PROVE  CallKeeps(R, ex, call, order.order_id, {order.order_id}) /\ SubmitDone(ex, call, order)
<1> USE DEF IsOrder
<1>1. DOMAIN ex.books = R
  BY DEF IsExchange
<1>2. ASSUME NEW status \in OrderStatus
      PROVE  /\ NewOrderState(order, status) \in OrderStates
             /\ NewOrderState(order, status).symbol = order.symbol
             /\ NewOrderState(order, status).side = order.side
             /\ SameTerms(NewOrderState(order, status), order)
             /\ NewOrderState(order, status).order_status = status
  BY DEF NewOrderState, OrderStates, SameTerms
<1>3. CASE order.symbol \in R /\ Approved(ctx, order)
  <2>1. PICK with : with = WithState(ex, order.order_id, NewOrderState(order, "New"))
    OBVIOUS
  <2>2. PICK st : st = NewOrderState(order, "New")
    OBVIOUS
  <2>3. /\ st \in OrderStates /\ st.symbol = order.symbol /\ st.side = order.side
        /\ SameTerms(st, order)
    BY <1>2, <2>2 DEF OrderStatus
  <2>4. IsExchange(with, R) /\ with.order_states =
          [x \in DOMAIN ex.order_states \cup {order.order_id} |->
             IF x = order.order_id THEN st ELSE ex.order_states[x]]
    BY <1>3, <2>1, <2>2, <2>3, WithStateOK
  <2>5. order.order_id \in OrdersOn(with.order_states, order.symbol, order.side)
    BY <2>3, <2>4 DEF OrdersOn
  <2>6. call = Process(with, order)
    BY <1>1, <1>3, <2>1 DEF submit_order
  <2>7. /\ IsExchange(call.ex, R)
        /\ call.ex.order_states \in
             FilledOn(with.order_states, Touched(order.order_id, call.trades))
        /\ call.trades \in Seq(FillsFrom(
             OrdersOn(with.order_states, order.symbol, Opposite(order.side))))
    BY <1>3, <2>4, <2>5, <2>6, ProcessOK
  <2>8. DOMAIN call.ex.order_states = DOMAIN ex.order_states \cup {order.order_id}
    BY <2>4, <2>7 DEF FilledOn
  <2>9. OrdersOn(with.order_states, order.symbol, Opposite(order.side))
          \subseteq DOMAIN ex.order_states
    BY <2>3, <2>4 DEF OrdersOn, Opposite, Side
  <2>10. \A x \in DOMAIN ex.order_states \ Touched(order.order_id, call.trades) :
           call.ex.order_states[x] = ex.order_states[x]
    <3>1. PICK old, now, hit : /\ old = with.order_states /\ now = call.ex.order_states
                               /\ hit = Touched(order.order_id, call.trades)
      OBVIOUS
    <3>2. order.order_id \in hit
      BY <3>1 DEF Touched
    <3>3. \A x \in DOMAIN old : now[x] = old[x] \/ x \in hit
      BY <2>7, <3>1 DEF FilledOn
    <3> QED BY <2>4, <3>1, <3>2, <3>3
  <2>11. call.trades \in Seq(FillsFrom(
           OrdersOn(ex.order_states, order.symbol, Opposite(order.side))))
    <3>1. OrdersOn(with.order_states, order.symbol, Opposite(order.side))
            \subseteq OrdersOn(ex.order_states, order.symbol, Opposite(order.side))
      BY <2>3, <2>4 DEF OrdersOn, Opposite, Side
    <3> QED BY <2>7, <3>1, MoreFills
  <2>12. /\ SameTerms(call.ex.order_states[order.order_id], order)
         /\ \A x \in DOMAIN ex.order_states :
              SameTerms(call.ex.order_states[x], ex.order_states[x])
    <3>1. PICK old, now : old = with.order_states /\ now = call.ex.order_states
      OBVIOUS
    <3>2. \A x \in DOMAIN old : SameTerms(now[x], old[x])
      BY <2>7, <3>1 DEF FilledOn
    <3>3. old = [x \in DOMAIN ex.order_states \cup {order.order_id} |->
                   IF x = order.order_id THEN st ELSE ex.order_states[x]]
      BY <2>4, <3>1
    <3>4. SameTerms(now[order.order_id], st)
      BY <3>2, <3>3
    <3>5. SameTerms(now[order.order_id], order)
      BY <2>3, <3>4 DEF SameTerms
    <3>6. \A x \in DOMAIN ex.order_states : SameTerms(now[x], ex.order_states[x])
      BY <3>2, <3>3
    <3> QED BY <3>1, <3>5, <3>6
  <2>13. CallKeeps(R, ex, call, order.order_id, {order.order_id})
    BY <2>7, <2>8, <2>9, <2>10, MoreFills DEF CallKeeps
  <2> QED BY <2>11, <2>12, <2>13 DEF SubmitDone
<1>4. CASE ~(order.symbol \in R /\ Approved(ctx, order))
  <2>1. PICK st, with : st = NewOrderState(order, "Rejected")
                        /\ with = WithState(ex, order.order_id, st)
    OBVIOUS
  <2>2. st \in OrderStates /\ is_terminal(st) /\ SameTerms(st, order)
    BY <1>2, <2>1 DEF OrderStatus, is_terminal
  <2>3. IsExchange(with, R) /\ with.order_states =
          [x \in DOMAIN ex.order_states \cup {order.order_id} |->
             IF x = order.order_id THEN st ELSE ex.order_states[x]]
    BY <2>1, <2>2, WithStateOK
  <2>4. call = [ex |-> with, trades |-> <<>>]
    BY <1>1, <1>4, <2>1 DEF submit_order, NoTrades
  <2>5. CallKeeps(R, ex, call, order.order_id, {order.order_id})
    BY <2>3, <2>4 DEF CallKeeps, Touched
  <2>6. SubmitDone(ex, call, order)
    BY <2>2, <2>3, <2>4 DEF SubmitDone, SameTerms
  <2> QED BY <2>5, <2>6
<1> QED BY <1>3, <1>4

\* So it keeps the exchange in order.
LEMMA SubmitOK ==
  ASSUME NEW R, NEW ex, IsExchange(ex, R), NEW ctx, NEW order, IsOrder(order),
         order.order_id \notin DOMAIN ex.order_states,
         NEW call, call = submit_order(ex, ctx, order)
  PROVE  CallKeeps(R, ex, call, order.order_id, {order.order_id})
<1>1. CallKeeps(R, ex, call, order.order_id, {order.order_id}) /\ SubmitDone(ex, call, order)
  BY SubmitIs
<1> QED BY <1>1

\* cancel_order.
LEMMA CancelOK ==
  ASSUME NEW R, NEW ex, IsExchange(ex, R), NEW id, NEW new, new = cancel_order(ex, id)
  PROVE  /\ IsExchange(new, R) /\ DOMAIN new.order_states = DOMAIN ex.order_states
         /\ \A x \in DOMAIN ex.order_states \ {id} :
              new.order_states[x] = ex.order_states[x]
  BY CancelledOK DEF cancel_order, CanAmend

\* modify_order.
LEMMA ModifyOK ==
  ASSUME NEW R, NEW ex, IsExchange(ex, R), NEW ctx, NEW id, NEW price \in Prices,
         NEW quantity \in Int,
         NEW call, call = modify_order(ex, ctx, id, price, quantity)
  PROVE  CallKeeps(R, ex, call, id, {})
<1> DEFINE st == ex.order_states[id]
<1>1. CASE ~CanAmend(ex, id)
  <2>1. call = [ex |-> ex, trades |-> <<>>]
    BY <1>1 DEF modify_order, NoTrades
  <2> QED BY <2>1 DEF CallKeeps
<1>2. CASE CanAmend(ex, id)
  <2>1. /\ id \in DOMAIN ex.order_states /\ id \in OrderId /\ st \in OrderStates
        /\ st.symbol \in R
    BY <1>2 DEF CanAmend, IsExchange
  <2>2. PICK revised : revised =
          [order_id |-> id, symbol |-> st.symbol, side |-> st.side,
           price |-> price, quantity |-> quantity - st.filled_quantity]
    OBVIOUS
  <2>3. PICK renewed : renewed = [st EXCEPT !.price = price, !.original_quantity = quantity,
                                            !.order_status = "New"]
    OBVIOUS
  <2>4. PICK off, with : off = Pulled(ex, id) /\ with = WithState(off, id, renewed)
    OBVIOUS
  <2>5. IsExchange(off, R) /\ off.order_states = ex.order_states
    BY <2>1, <2>4, PulledOK
  <2>6. renewed \in OrderStates /\ renewed.symbol = st.symbol /\ renewed.side = st.side
    BY <2>1, <2>3 DEF OrderStates, OrderStatus
  <2>7. IsExchange(with, R) /\ with.order_states =
          [x \in DOMAIN ex.order_states \cup {id} |->
             IF x = id THEN renewed ELSE ex.order_states[x]]
    BY <2>1, <2>4, <2>5, <2>6, WithStateOK
  <2>8. CASE revised.quantity > 0 /\ Approved(ctx, revised)
    <3>1. call = Process(with, revised)
      BY <1>2, <2>2, <2>3, <2>4, <2>8 DEF modify_order, Replaced
    <3>2. /\ revised.symbol \in R /\ revised.side \in Side /\ revised.price \in Prices
          /\ revised.quantity \in Int
      BY <2>1, <2>2 DEF OrderStates
    <3>3. revised.order_id \in OrdersOn(with.order_states, revised.symbol, revised.side)
      BY <2>1, <2>2, <2>6, <2>7 DEF OrdersOn
    <3>4. /\ IsExchange(call.ex, R)
          /\ call.ex.order_states \in
               FilledOn(with.order_states, Touched(revised.order_id, call.trades))
          /\ call.trades \in Seq(FillsFrom(
               OrdersOn(with.order_states, revised.symbol, Opposite(revised.side))))
      BY <2>7, <3>1, <3>2, <3>3, ProcessOK
    <3>5. DOMAIN call.ex.order_states = DOMAIN ex.order_states
      BY <2>1, <2>7, <3>4 DEF FilledOn
    <3>6. OrdersOn(with.order_states, revised.symbol, Opposite(revised.side))
            \subseteq DOMAIN ex.order_states
      BY <2>1, <2>7 DEF OrdersOn
    <3>7. \A x \in DOMAIN ex.order_states \ Touched(id, call.trades) :
            call.ex.order_states[x] = ex.order_states[x]
      BY <2>2, <2>7, <3>4 DEF FilledOn, Touched
    <3> QED BY <3>4, <3>5, <3>6, <3>7, MoreFills DEF CallKeeps
  <2>9. CASE ~(revised.quantity > 0 /\ Approved(ctx, revised))
    <3>1. PICK new : new = Cancelled(ex, id)
      OBVIOUS
    <3>2. call = [ex |-> new, trades |-> <<>>]
      BY <1>2, <2>2, <2>9, <3>1 DEF modify_order, Replaced, NoTrades
    <3> QED BY <2>1, <3>1, <3>2, CancelledOK DEF CallKeeps, Touched
  <2> QED BY <2>8, <2>9
<1> QED BY <1>1, <1>2
-----------------------------------------------------------------------------
(* What the calls fill.                                                    *)

\* No fills trade nothing.
LEMMA NoFillsNoShares ==
  ASSUME NEW id, NEW x
  PROVE  TradedOf(<<>>, id, x) = 0
<1>0. PICK n \in Nat : n = 0
  OBVIOUS
<1>1. PICK q : q = [i \in DOMAIN <<>> |-> Traded(<<>>[i], id, x)]
  OBVIOUS
<1>2. Summed(q, n) = 0
  BY <1>0, SummedZero
<1>3. Len(<<>>) = n
  BY <1>0
<1> QED BY <1>0, <1>1, <1>2, <1>3, Zenon DEF TradedOf

\* process_order, and apply_trade for each trade.
LEMMA ProcessAdds ==
  ASSUME NEW R, NEW ex, IsExchange(ex, R), NEW order,
         order.symbol \in R, order.side \in Side, order.quantity \in Int,
         order.order_id \in DOMAIN ex.order_states,
         NEW call, call = Process(ex, order), NEW x
  PROVE  FilledIn(call.ex.order_states, x) =
           FilledIn(ex.order_states, x) + TradedOf(call.trades, order.order_id, x)
<1> DEFINE states == ex.order_states
           other  == Opposite(order.side)
           ids    == OrdersOn(states, order.symbol, other)
<1>1. /\ states \in [DOMAIN states -> OrderStates] /\ DOMAIN states \subseteq OrderId
      /\ \A r \in R, sd \in Side : Tidy(ex.books[r][sd], EntriesOf(OrdersOn(states, r, sd)))
  BY DEF IsExchange
<1>2. other \in Side
  BY DEF Opposite, Side
<1>3. PICK run : run = match_orders(order, ex.books[order.symbol][other])
  OBVIOUS
<1>4. ids \in SUBSET OrderId /\ Tidy(ex.books[order.symbol][other], EntriesOf(ids))
  BY <1>1, <1>2 DEF OrdersOn
<1>5. run \in RunsOf(ids)
  BY <1>3, <1>4, MatchedOK
<1>6. PICK fills : fills = run.fills
  OBVIOUS
<1>7. fills \in Seq(FillsFrom(ids)) /\ ids \subseteq DOMAIN states
  BY <1>5, <1>6 DEF RunsOf, OrdersOn
<1>8. call.trades = fills /\ call.ex.order_states = Applied(states, order.order_id, fills)
  BY <1>3, <1>6 DEF Process
<1>9. PICK id \in DOMAIN states : id = order.order_id
  OBVIOUS
<1>10. FilledIn(Applied(states, id, fills), x) = FilledIn(states, x) + TradedOf(fills, id, x)
  <2> HIDE DEF ids
  <2> QED BY <1>1, <1>7, AppliedAdds
<1> QED BY <1>8, <1>9, <1>10

\* submit_order: each of its trades fills both its orders.
LEMMA SubmitAdds ==
  ASSUME NEW R, NEW ex, IsExchange(ex, R), NEW ctx, NEW order, IsOrder(order),
         order.order_id \notin DOMAIN ex.order_states,
         NEW call, call = submit_order(ex, ctx, order), NEW x
  PROVE  FilledIn(call.ex.order_states, x) =
           FilledIn(ex.order_states, x) + TradedOf(call.trades, order.order_id, x)
<1> USE DEF IsOrder
<1>1. DOMAIN ex.books = R /\ ex.order_states \in [DOMAIN ex.order_states -> OrderStates]
  BY DEF IsExchange
<1>2. ASSUME NEW status \in OrderStatus, NEW with,
             with = WithState(ex, order.order_id, NewOrderState(order, status)),
             is_terminal(NewOrderState(order, status)) \/ order.symbol \in R
      PROVE  /\ IsExchange(with, R) /\ order.order_id \in DOMAIN with.order_states
             /\ FilledIn(with.order_states, x) = FilledIn(ex.order_states, x)
             /\ FilledIn(ex.order_states, x) \in Int
  <2>1. PICK st : st = NewOrderState(order, status)
    OBVIOUS
  <2>2. st \in OrderStates /\ st.symbol = order.symbol /\ st.filled_quantity = 0
    BY <2>1 DEF NewOrderState, OrderStates
  <2>3. IsExchange(with, R) /\ with.order_states =
          [y \in DOMAIN ex.order_states \cup {order.order_id} |->
             IF y = order.order_id THEN st ELSE ex.order_states[y]]
    BY <1>2, <2>1, <2>2, WithStateOK
  <2>4. FilledIn(with.order_states, x) = FilledIn(ex.order_states, x)
    BY <2>2, <2>3 DEF FilledIn
  <2>5. FilledIn(ex.order_states, x) \in Int
    BY <1>1 DEF FilledIn, OrderStates
  <2> QED BY <2>3, <2>4, <2>5
<1>3. CASE order.symbol \in R /\ Approved(ctx, order)
  <2>0. PICK status \in OrderStatus : status = "New"
    BY DEF OrderStatus
  <2>1. PICK with : with = WithState(ex, order.order_id, NewOrderState(order, status))
    OBVIOUS
  <2>2. IsExchange(with, R) /\ order.order_id \in DOMAIN with.order_states
        /\ FilledIn(with.order_states, x) = FilledIn(ex.order_states, x)
    BY <1>2, <1>3, <2>1
  <2>3. call = Process(with, order)
    BY <1>1, <1>3, <2>0, <2>1 DEF submit_order
  <2> QED BY <1>3, <2>2, <2>3, ProcessAdds
<1>4. CASE ~(order.symbol \in R /\ Approved(ctx, order))
  <2>0. PICK status \in OrderStatus : status = "Rejected"
    BY DEF OrderStatus
  <2>1. PICK with : with = WithState(ex, order.order_id, NewOrderState(order, status))
    OBVIOUS
  <2>2. is_terminal(NewOrderState(order, status))
    BY <2>0 DEF is_terminal, NewOrderState
  <2>3. FilledIn(with.order_states, x) = FilledIn(ex.order_states, x)
        /\ FilledIn(ex.order_states, x) \in Int
    BY <1>2, <2>1, <2>2
  <2>4. call.ex = with /\ call.trades = <<>>
    BY <1>1, <1>4, <2>0, <2>1 DEF submit_order, NoTrades
  <2> QED BY <2>3, <2>4, NoFillsNoShares
<1> QED BY <1>3, <1>4

\* An order that leaves its book keeps what was filled of it.
LEMMA CancelledAdds ==
  ASSUME NEW R, NEW ex, IsExchange(ex, R), NEW id \in DOMAIN ex.order_states,
         NEW new, new = Cancelled(ex, id), NEW x
  PROVE  FilledIn(new.order_states, x) = FilledIn(ex.order_states, x)
         /\ FilledIn(ex.order_states, x) \in Int
<1>1. /\ DOMAIN new.order_states = DOMAIN ex.order_states
      /\ \A y \in DOMAIN ex.order_states \ {id} : new.order_states[y] = ex.order_states[y]
      /\ new.order_states[id] = [ex.order_states[id] EXCEPT !.order_status = "Cancelled"]
  BY CancelledIs
<1>2. \A y \in DOMAIN ex.order_states :
        ex.order_states[y] \in OrderStates /\ ex.order_states[y].filled_quantity \in Int
  BY DEF IsExchange, OrderStates
<1>3. new.order_states[id].filled_quantity = ex.order_states[id].filled_quantity
  BY <1>1, <1>2 DEF OrderStates
<1>4. CASE x = id
  BY <1>1, <1>2, <1>3, <1>4 DEF FilledIn
<1>5. CASE x # id
  BY <1>1, <1>2, <1>5 DEF FilledIn
<1> QED BY <1>4, <1>5

\* cancel_order fills nothing.
LEMMA CancelAdds ==
  ASSUME NEW R, NEW ex, IsExchange(ex, R), NEW id, NEW new, new = cancel_order(ex, id),
         NEW x
  PROVE  FilledIn(new.order_states, x) = FilledIn(ex.order_states, x)
<1>1. CASE CanAmend(ex, id)
  <2>1. id \in DOMAIN ex.order_states /\ new = Cancelled(ex, id)
    BY <1>1 DEF CanAmend, cancel_order
  <2> QED BY <2>1, CancelledAdds
<1>2. CASE ~CanAmend(ex, id)
  BY <1>2 DEF cancel_order
<1> QED BY <1>1, <1>2

\* The call that replaces an order of the exchange ex, and what it asks for.
Amended(R, ex, ctx, id, price, quantity, call) ==
  /\ IsExchange(ex, R) /\ price \in Prices /\ quantity \in Int
  /\ call = modify_order(ex, ctx, id, price, quantity)

\* modify_order: what was filled stays, and each of its trades fills both its orders.
LEMMA ModifyAdds ==
  ASSUME NEW R, NEW ex, NEW ctx, NEW id, NEW price, NEW quantity, NEW call,
         Amended(R, ex, ctx, id, price, quantity, call), NEW x
  PROVE  FilledIn(call.ex.order_states, x) =
           FilledIn(ex.order_states, x) + TradedOf(call.trades, id, x)
<1>a. /\ IsExchange(ex, R) /\ price \in Prices /\ quantity \in Int
      /\ call = modify_order(ex, ctx, id, price, quantity)
  BY DEF Amended
<1> USE <1>a
<1> DEFINE st == ex.order_states[id]
<1>0. FilledIn(ex.order_states, x) \in Int
  BY DEF IsExchange, FilledIn, OrderStates
<1>1. CASE ~CanAmend(ex, id)
  <2>1. call.ex = ex /\ call.trades = <<>>
    BY <1>1 DEF modify_order, NoTrades
  <2> QED BY <1>0, <2>1, NoFillsNoShares
<1>2. CASE CanAmend(ex, id)
  <2>1. /\ id \in DOMAIN ex.order_states /\ id \in OrderId /\ st \in OrderStates
        /\ st.symbol \in R
    BY <1>2 DEF CanAmend, IsExchange
  <2>2. PICK revised : revised =
          [order_id |-> id, symbol |-> st.symbol, side |-> st.side,
           price |-> price, quantity |-> quantity - st.filled_quantity]
    OBVIOUS
  <2>3. PICK renewed : renewed = [st EXCEPT !.price = price, !.original_quantity = quantity,
                                            !.order_status = "New"]
    OBVIOUS
  <2>4. PICK off, with : off = Pulled(ex, id) /\ with = WithState(off, id, renewed)
    OBVIOUS
  <2>5. IsExchange(off, R) /\ off.order_states = ex.order_states
    BY <2>1, <2>4, PulledOK
  <2>6. /\ renewed \in OrderStates /\ renewed.symbol = st.symbol /\ renewed.side = st.side
        /\ renewed.filled_quantity = st.filled_quantity
    BY <2>1, <2>3 DEF OrderStates, OrderStatus
  <2>7. IsExchange(with, R) /\ with.order_states =
          [y \in DOMAIN ex.order_states \cup {id} |->
             IF y = id THEN renewed ELSE ex.order_states[y]]
    BY <2>1, <2>4, <2>5, <2>6, WithStateOK
  <2>8. FilledIn(with.order_states, x) = FilledIn(ex.order_states, x)
        /\ id \in DOMAIN with.order_states
    BY <2>1, <2>6, <2>7 DEF FilledIn
  <2>9. CASE revised.quantity > 0 /\ Approved(ctx, revised)
    <3>1. call = Process(with, revised)
      BY <1>2, <2>2, <2>3, <2>4, <2>9 DEF modify_order, Replaced
    <3>2. /\ revised.symbol \in R /\ revised.side \in Side /\ revised.quantity \in Int
          /\ revised.order_id \in DOMAIN with.order_states /\ revised.order_id = id
      BY <2>1, <2>2, <2>8 DEF OrderStates
    <3>3. FilledIn(call.ex.order_states, x) =
            FilledIn(with.order_states, x) + TradedOf(call.trades, revised.order_id, x)
      BY <2>7, <3>1, <3>2, ProcessAdds
    <3> QED BY <2>8, <3>2, <3>3
  <2>10. CASE ~(revised.quantity > 0 /\ Approved(ctx, revised))
    <3>1. PICK new : new = Cancelled(ex, id)
      OBVIOUS
    <3>2. call.ex = new /\ call.trades = <<>>
      BY <1>2, <2>2, <2>10, <3>1 DEF modify_order, Replaced, NoTrades
    <3> QED BY <1>0, <2>1, <3>1, <3>2, CancelledAdds, NoFillsNoShares
  <2> QED BY <2>9, <2>10
<1> QED BY <1>1, <1>2

-----------------------------------------------------------------------------
(* The books hold what is open.                                            *)

\* One more fill is applied after the others.
LEMMA AppliedAppends ==
  ASSUME NEW states, states \in [DOMAIN states -> OrderStates], NEW id,
         NEW ids, NEW fills \in Seq(FillsFrom(ids)), NEW fill \in FillsFrom(ids)
  PROVE  Applied(states, id, Append(fills, fill)) = Both(Applied(states, id, fills), id, fill)
<1>0. PICK more : more = Append(fills, fill)
  OBVIOUS
<1>1. PICK N \in Nat : N = Len(fills)
  OBVIOUS
<1>2. /\ more \in Seq(FillsFrom(ids)) /\ Len(more) = N + 1 /\ more[N + 1] = fill
      /\ \A n \in 1..N : more[n] = fills[n]
  BY <1>0, <1>1
<1>3. ASSUME NEW list \in Seq(FillsFrom(ids)), NEW L \in Nat, L = Len(list)
      PROVE  \E f : AppliedBy(f, states, id, list) /\ Applied(states, id, list) = f[L]
  <2>1. PICK S : S = FilledOn(states, Touched(id, list))
    OBVIOUS
  <2>2. PICK f : /\ AppliedBy(f, states, id, list) /\ \A n \in 0..L : f[n] \in S
                 /\ Applied(states, id, list) = f[L]
    BY <1>3, <2>1, AppliedRuns
  <2> QED BY <2>2
<1>4. PICK f : AppliedBy(f, states, id, fills) /\ Applied(states, id, fills) = f[N]
  BY <1>1, <1>3
<1>5. PICK M \in Nat : M = N + 1
  OBVIOUS
<1>6. PICK g : AppliedBy(g, states, id, more) /\ Applied(states, id, more) = g[M]
  <2>1. M = Len(more) /\ more \in Seq(FillsFrom(ids))
    BY <1>2, <1>5
  <2> QED BY <1>3, <2>1
<1>7. f = [n \in 0..N |-> IF n = 0 THEN states ELSE Both(f[n - 1], id, fills[n])]
  BY <1>1, <1>4 DEF AppliedBy, Both
<1>8. g = [n \in 0..M |-> IF n = 0 THEN states ELSE Both(g[n - 1], id, more[n])]
  BY <1>2, <1>5, <1>6 DEF AppliedBy, Both
<1> DEFINE T == {n \in 0..N : g[n] = f[n]}
<1>9. 0 \in T
  BY <1>5, <1>7, <1>8
<1>10. ASSUME NEW n \in 1..N, n - 1 \in T PROVE n \in T
  <2>1. n \in 0..N /\ n # 0 /\ n \in 0..M /\ g[n - 1] = f[n - 1]
    BY <1>5, <1>10
  <2>2. f[n] = Both(f[n - 1], id, fills[n])
    BY <1>7, <2>1
  <2>3. g[n] = Both(g[n - 1], id, more[n])
    BY <1>8, <2>1
  <2> QED BY <1>2, <2>1, <2>2, <2>3
<1>11. N \in T
  <2>1. 0..N \subseteq T
    <3> HIDE DEF T
    <3> QED BY <1>9, <1>10, Inductive
  <2> QED BY <2>1
<1>12. g[M] = Both(g[N], id, more[M])
  <2>1. M \in 0..M /\ M # 0 /\ M - 1 = N
    BY <1>5
  <2> QED BY <1>8, <2>1
<1> QED BY <1>0, <1>2, <1>4, <1>5, <1>6, <1>11, <1>12

\* A fill of no more than an open order's shares leaves it open for the rest.
LEMMA AddFillOpen ==
  ASSUME NEW st \in OrderStates, IsOpen(st), NEW quantity \in Shares,
         quantity <= remaining_quantity(st),
         NEW new, new = AddFill(st, quantity)
  PROVE  /\ remaining_quantity(new) = remaining_quantity(st) - quantity
         /\ remaining_quantity(new) \in Int
         /\ IsOpen(new) <=> remaining_quantity(new) > 0
<1>1. PICK status : status = IF remaining_quantity(st) = quantity THEN "Filled"
                                                                ELSE "Partial_Filled"
  OBVIOUS
<1>2. PICK more : more = [st EXCEPT !.filled_quantity = @ + quantity]
  OBVIOUS
<1>3. new = [more EXCEPT !.order_status = status]
  BY <1>1, <1>2, Zenon DEF AddFill
<1>4. /\ more \in OrderStates /\ more.filled_quantity = st.filled_quantity + quantity
      /\ more.original_quantity = st.original_quantity
  BY <1>2 DEF OrderStates, Shares
<1>5. /\ new.filled_quantity = st.filled_quantity + quantity
      /\ new.original_quantity = st.original_quantity /\ new.order_status = status
  BY <1>3, <1>4 DEF OrderStates
<1>6. st.filled_quantity \in Int /\ st.original_quantity \in Int /\ quantity \in Int
  BY DEF OrderStates, Shares
<1> QED BY <1>1, <1>5, <1>6 DEF IsOpen, is_terminal, remaining_quantity

\* What a fill of two orders makes of them, and of the others.
LEMMA BothFilled ==
  ASSUME NEW states, states \in [DOMAIN states -> OrderStates], NEW id \in DOMAIN states,
         NEW fill, fill.order_id \in DOMAIN states \ {id}, fill.quantity \in Int,
         NEW after, after = Both(states, id, fill)
  PROVE  /\ DOMAIN after = DOMAIN states
         /\ \A x \in DOMAIN states :
              after[x] = IF x \in {id, fill.order_id} THEN AddFill(states[x], fill.quantity)
                                                      ELSE states[x]
<1>1. PICK mid : mid = Filled(states, id, fill.quantity)
  OBVIOUS
<1>2. mid = [states EXCEPT ![id] = AddFill(states[id], fill.quantity)]
  BY <1>1 DEF Filled
<1>3. after = [mid EXCEPT ![fill.order_id] = AddFill(mid[fill.order_id], fill.quantity)]
  BY <1>1 DEF Both, Filled
<1> QED BY <1>2, <1>3

-----------------------------------------------------------------------------
(* What the books hold.                                                    *)

\* The orders of a side that can still trade are those the provers see.
LEMMA OpenOnIs ==
  ASSUME NEW states, NEW s, NEW sd, NEW open, open = OpenOn(states, s, sd)
  PROVE  /\ \A x : x \in DOMAIN open <=>
              /\ x \in DOMAIN states /\ states[x].symbol = s /\ states[x].side = sd
              /\ IsOpen(states[x])
         /\ open = [x \in DOMAIN open |-> <<states[x].price, remaining_quantity(states[x])>>]
  BY DEF OpenOn, OrdersOn

\* When the loop is at `run` the other side holds what is open there, and the order
\* can trade on just when it has shares left.
LoopMirrors(states, order, run) ==
  LET now == Applied(states, order.order_id, run.fills)
  IN  /\ Holds(run.levels, OpenOn(now, order.symbol, Opposite(order.side)))
      /\ remaining_quantity(now[order.order_id]) = run.left
      /\ IsOpen(now[order.order_id]) <=> run.left > 0

\* A turn of the loop takes from the front order what its state loses.
LEMMA TurnMirrors ==
  ASSUME NEW states, states \in [DOMAIN states -> OrderStates], DOMAIN states \subseteq OrderId,
         NEW order, order.side \in Side,
         order.order_id \in OrdersOn(states, order.symbol, order.side),
         NEW ids, ids = OrdersOn(states, order.symbol, Opposite(order.side)),
         NEW run \in RunsOf(ids), LoopMirrors(states, order, run), GoesOn(order, run),
         NEW next, next = Turn(order, run)
  PROVE  LoopMirrors(states, order, next)
<1>1. PICK id, s, other : /\ id = order.order_id /\ s = order.symbol
                          /\ other = Opposite(order.side)
  OBVIOUS
<1>2. PICK now : now = Applied(states, id, run.fills)
  OBVIOUS
<1>3. /\ other \in Side /\ other # order.side /\ ids \in SUBSET OrderId /\ ids \subseteq DOMAIN states
      /\ id \in DOMAIN states /\ id \notin ids
  BY <1>1 DEF OrdersOn, Opposite, Side
<1>4. /\ Tidy(run.levels, EntriesOf(ids)) /\ run.left \in Int
      /\ run.fills \in Seq(FillsFrom(ids))
  BY SideIsTidy DEF RunsOf
<1>5. now \in FilledOn(states, Touched(id, run.fills))
  BY <1>2, <1>4, AppliedAre
<1>6. /\ now \in [DOMAIN now -> OrderStates] /\ DOMAIN now = DOMAIN states
      /\ \A x \in DOMAIN states : SameTerms(now[x], states[x])
  BY <1>5 DEF FilledOn
<1>7. PICK old : old = OpenOn(now, s, other)
  OBVIOUS
<1>8. /\ Holds(run.levels, old) /\ remaining_quantity(now[id]) = run.left
      /\ IsOpen(now[id]) /\ run.left > 0
  BY <1>1, <1>2, <1>7 DEF LoopMirrors, GoesOn
<1>9. PICK best : best = BestFor(order, run)
  OBVIOUS
<1>10. best \in DOMAIN run.levels
  BY <1>1, <1>3, <1>4, <1>9, BestIsALevel DEF GoesOn, BestFor, Tidy
<1>11. PICK resting : resting = run.levels[best][1]
  OBVIOUS
<1>12. 1 \in DOMAIN run.levels[best] /\ resting \in EntriesOf(ids) /\ best \in Prices
  <2>1. run.levels[best] \in Seq(EntriesOf(ids)) /\ run.levels[best] # <<>> /\ best \in Prices
    BY <1>4, <1>10 DEF Tidy
  <2> QED BY <1>11, <2>1
<1>13. PICK z, k : z = resting.order_id /\ k = Lesser(run.left, resting.quantity)
  OBVIOUS
<1>14. /\ z \in ids /\ resting.quantity \in Shares /\ k \in Shares
       /\ k <= run.left /\ k <= resting.quantity
  BY <1>4, <1>8, <1>12, <1>13 DEF EntriesOf, Shares, Lesser
<1>15. z \in DOMAIN old /\ old[z] = <<best, resting.quantity>>
  BY <1>8, <1>10, <1>11, <1>12, <1>13 DEF Holds
<1>16. /\ \A x : x \in DOMAIN old <=>
            x \in DOMAIN now /\ now[x].symbol = s /\ now[x].side = other /\ IsOpen(now[x])
       /\ old = [x \in DOMAIN old |-> <<now[x].price, remaining_quantity(now[x])>>]
  BY <1>7, OpenOnIs
<1>17. IsOpen(now[z]) /\ remaining_quantity(now[z]) = resting.quantity /\ now[z].price = best
  BY <1>15, <1>16
<1>18. PICK fill : fill = [order_id |-> z, quantity |-> k, price |-> best]
  OBVIOUS
<1>19. /\ next.levels = TakeFront(run.levels, best, k) /\ next.left = run.left - k
       /\ next.fills = Append(run.fills, fill)
  BY <1>9, <1>11, <1>13, <1>18 DEF Turn
<1>20. PICK after : after = Applied(states, id, next.fills)
  OBVIOUS
<1>21. after = Both(now, id, fill)
  <2>1. fill \in FillsFrom(ids)
    BY <1>12, <1>14, <1>18 DEF FillsFrom
  <2>2. PICK fills : fills = run.fills
    OBVIOUS
  <2>3. Applied(states, id, Append(fills, fill)) = Both(Applied(states, id, fills), id, fill)
    <3>1. fills \in Seq(FillsFrom(ids))
      BY <1>4, <2>2
    <3> QED BY <2>1, <3>1, AppliedAppends
  <2> QED BY <1>2, <1>19, <1>20, <2>2, <2>3
<1>22. /\ DOMAIN after = DOMAIN now /\ after[z] = AddFill(now[z], k)
       /\ after[id] = AddFill(now[id], k)
       /\ \A x \in DOMAIN now \ {id, z} : after[x] = now[x]
  <2>1. id \in DOMAIN now /\ fill.order_id \in DOMAIN now \ {id} /\ fill.quantity \in Int
    BY <1>3, <1>6, <1>14, <1>18 DEF Shares
  <2>2. /\ DOMAIN after = DOMAIN now
        /\ \A x \in DOMAIN now :
             after[x] = IF x \in {id, fill.order_id} THEN AddFill(now[x], fill.quantity)
                                                     ELSE now[x]
    BY <1>6, <1>21, <2>1, BothFilled
  <2> QED BY <1>18, <2>1, <2>2
<1>23. /\ remaining_quantity(after[z]) = resting.quantity - k
       /\ IsOpen(after[z]) <=> resting.quantity - k > 0
       /\ SameTerms(after[z], now[z])
  <2>1. now[z] \in OrderStates /\ k \in Int
    BY <1>3, <1>6, <1>14 DEF Shares
  <2>2. PICK new : new = AddFill(now[z], k)
    OBVIOUS
  <2>3. remaining_quantity(new) = remaining_quantity(now[z]) - k
        /\ (IsOpen(new) <=> remaining_quantity(new) > 0)
    BY <1>14, <1>17, <2>1, <2>2, AddFillOpen
  <2>4. SameTerms(new, now[z])
    BY <2>1, <2>2, AddFillOK
  <2> QED BY <1>17, <1>22, <2>2, <2>3, <2>4
<1>24. /\ remaining_quantity(after[id]) = next.left
       /\ IsOpen(after[id]) <=> next.left > 0
       /\ SameTerms(after[id], now[id])
  <2>1. now[id] \in OrderStates /\ k \in Int
    BY <1>3, <1>6, <1>14 DEF Shares
  <2>2. PICK new : new = AddFill(now[id], k)
    OBVIOUS
  <2>3. remaining_quantity(new) = remaining_quantity(now[id]) - k
        /\ (IsOpen(new) <=> remaining_quantity(new) > 0)
    BY <1>8, <1>14, <2>1, <2>2, AddFillOpen
  <2>4. SameTerms(new, now[id])
    BY <2>1, <2>2, AddFillOK
  <2> QED BY <1>8, <1>19, <1>22, <2>2, <2>3, <2>4
<1>25. PICK new : new = OpenOn(after, s, other)
  OBVIOUS
<1>26. /\ \A x : x \in DOMAIN new <=>
            /\ x \in DOMAIN after /\ after[x].symbol = s /\ after[x].side = other
            /\ IsOpen(after[x])
       /\ new = [x \in DOMAIN new |-> <<after[x].price, remaining_quantity(after[x])>>]
  BY <1>25, OpenOnIs
<1>27. now[id].side # other /\ id # z
  BY <1>1, <1>3, <1>6, <1>14 DEF SameTerms, OrdersOn
<1>28. Holds(next.levels, new)
  <2>1. CASE resting.quantity = k
    <3>1. \A x : x \in DOMAIN new <=> x \in DOMAIN old \ {z}
      BY <1>14, <1>16, <1>22, <1>23, <1>24, <1>26, <1>27, <2>1 DEF SameTerms, Shares
    <3>2. \A x \in DOMAIN new : new[x] = old[x]
      BY <1>16, <1>22, <1>24, <1>26, <1>27, <3>1 DEF SameTerms
    <3>3. new = [x \in DOMAIN old \ {z} |-> old[x]]
      BY <1>26, <3>1, <3>2
    <3>4. z = run.levels[best][1].order_id /\ run.levels[best][1].quantity = k
      BY <1>11, <1>13, <2>1
    <3>5. new = [x \in DOMAIN old \ {run.levels[best][1].order_id} |-> old[x]]
      BY <3>3, <3>4
    <3>6. Holds(TakeFront(run.levels, best, k), new)
      BY <1>4, <1>8, <1>10, <3>4, <3>5, HoldsFrontGone
    <3> QED BY <1>19, <3>6
  <2>2. CASE resting.quantity # k
    <3>1. resting.quantity - k > 0 /\ k \in Int
      BY <1>14, <2>2 DEF Shares
    <3>2. \A x : x \in DOMAIN new <=> x \in DOMAIN old
      BY <1>16, <1>17, <1>22, <1>23, <1>24, <1>26, <1>27, <3>1 DEF SameTerms
    <3>3. new[z] = <<best, resting.quantity - k>>
      BY <1>15, <1>17, <1>23, <1>26, <3>2 DEF SameTerms
    <3>4. \A x \in DOMAIN new : new[x] = IF x = z THEN <<best, resting.quantity - k>> ELSE old[x]
      BY <1>16, <1>22, <1>24, <1>26, <1>27, <3>2, <3>3 DEF SameTerms
    <3>5. new = [x \in DOMAIN old |->
                   IF x = z THEN <<best, resting.quantity - k>> ELSE old[x]]
      BY <1>26, <3>2, <3>4
    <3>6. EntriesOf(ids) \subseteq Entry
      BY <1>3 DEF EntriesOf, Entry, Shares
    <3> QED BY <1>4, <1>8, <1>10, <1>11, <1>13, <1>19, <2>2, <3>1, <3>5, <3>6, HoldsFrontLess
  <2> QED BY <2>1, <2>2
<1> QED BY <1>1, <1>20, <1>24, <1>25, <1>28 DEF LoopMirrors

\* What is held besides order id.
Besides(content, id) == [x \in DOMAIN content \ {id} |-> content[x]]

\* An order that is not yet in the books may trade for all its shares, and the books
\* hold what is open besides it.
AboutToMatch(R, ex, order) ==
  LET states == ex.order_states
      id     == order.order_id
  IN  /\ IsExchange(ex, R) /\ order.symbol \in R /\ order.side \in Side
      /\ order.price \in Prices /\ order.quantity \in Int
      /\ id \in OrdersOn(states, order.symbol, order.side)
      /\ states[id].price = order.price /\ ~is_terminal(states[id])
      /\ remaining_quantity(states[id]) = order.quantity
      /\ \A s \in R, sd \in Side :
           Holds(ex.books[s][sd], Besides(OpenOn(states, s, sd), id))

\* So it is when the loop ends.
LEMMA MatchMirrors ==
  ASSUME NEW R, NEW ex, NEW order, AboutToMatch(R, ex, order),
         NEW run, run = match_orders(order, ex.books[order.symbol][Opposite(order.side)]),
         NEW ids, ids = OrdersOn(ex.order_states, order.symbol, Opposite(order.side))
  PROVE  run \in RunsOf(ids) /\ LoopMirrors(ex.order_states, order, run)
<1>1. PICK states, id, s, other, levels :
        /\ states = ex.order_states /\ id = order.order_id /\ s = order.symbol
        /\ other = Opposite(order.side) /\ levels = ex.books[s][other]
  OBVIOUS
<1>2. /\ states \in [DOMAIN states -> OrderStates] /\ DOMAIN states \subseteq OrderId
      /\ s \in R /\ order.side \in Side /\ other \in Side /\ other # order.side
      /\ Tidy(levels, EntriesOf(ids)) /\ ids \in SUBSET OrderId
      /\ order.quantity \in Int /\ id \in OrdersOn(states, order.symbol, order.side)
  BY <1>1 DEF AboutToMatch, IsExchange, OrdersOn, Opposite, Side
<1>3. PICK begun : begun = Begun(order, levels)
  OBVIOUS
<1>4. begun \in RunsOf(ids)
  BY <1>2, <1>3, BegunOK
<1>5. LoopMirrors(states, order, begun)
  <2>1. begun.levels = levels /\ begun.left = order.quantity /\ begun.fills = <<>>
    BY <1>3 DEF Begun
  <2>2. Applied(states, id, begun.fills) = states
    <3>1. begun.fills \in Seq(FillsFrom(ids)) /\ Len(begun.fills) = 0
      BY <2>1
    <3> QED BY <1>2, <3>1, AppliedNothing
  <2>3. /\ remaining_quantity(states[id]) = begun.left
        /\ IsOpen(states[id]) <=> begun.left > 0
    BY <1>1, <2>1 DEF AboutToMatch, IsOpen
  <2>4. PICK open : open = OpenOn(states, s, other)
    OBVIOUS
  <2>5. /\ id \notin DOMAIN open
        /\ open = [x \in DOMAIN open |-> <<states[x].price, remaining_quantity(states[x])>>]
    BY <1>2, <2>4, OpenOnIs DEF OrdersOn
  <2>6. Holds(levels, Besides(open, id))
    BY <1>1, <1>2, <2>4 DEF AboutToMatch
  <2>7. Besides(open, id) = open
    BY <2>5 DEF Besides
  <2> QED BY <1>1, <2>1, <2>2, <2>3, <2>4, <2>6, <2>7 DEF LoopMirrors
<1>6. PICK N, f : N = MostTurns(levels) /\ f = Runs(order, begun, N)
  OBVIOUS
<1>7. N \in Nat
  BY <1>2, <1>6, QueuedIsFinite
<1>8. /\ f \in [0..N -> RunsOf(ids)]
      /\ f = [n \in 0..N |-> IF n = 0 THEN begun ELSE TurnFrom(order, f[n - 1])]
  BY <1>2, <1>4, <1>6, <1>7, RunsAre
<1>9. run = f[N]
  <2>1. begun.levels = levels
    BY <1>3 DEF Begun
  <2> QED BY <1>1, <1>3, <1>6, <2>1 DEF match_orders, LoopEnd
<1> DEFINE T == {n \in 0..N : LoopMirrors(states, order, f[n])}
<1>10. 0 \in T
  BY <1>5, <1>7, <1>8
<1>11. ASSUME NEW n \in 1..N, n - 1 \in T PROVE n \in T
  <2>1. PICK old, new : old = f[n - 1] /\ new = f[n]
    OBVIOUS
  <2>2. n \in 0..N /\ n - 1 \in 0..N /\ n # 0
    BY <1>7
  <2>3. old \in RunsOf(ids) /\ LoopMirrors(states, order, old) /\ new = TurnFrom(order, old)
    BY <1>8, <1>11, <2>1, <2>2
  <2>4. CASE GoesOn(order, old)
    <3>1. new = Turn(order, old)
      BY <2>3, <2>4 DEF TurnFrom
    <3>2. ids = OrdersOn(states, order.symbol, Opposite(order.side))
      BY <1>1
    <3>3. LoopMirrors(states, order, new)
      BY <1>1, <1>2, <2>3, <2>4, <3>1, <3>2, TurnMirrors
    <3> QED BY <2>1, <2>2, <3>3
  <2>5. CASE ~GoesOn(order, old)
    BY <2>1, <2>2, <2>3, <2>5 DEF TurnFrom
  <2> QED BY <2>4, <2>5
<1>12. N \in T
  <2>1. 0..N \subseteq T
    <3> HIDE DEF T
    <3> QED BY <1>7, <1>10, <1>11, Inductive
  <2> QED BY <1>7, <2>1
<1> QED BY <1>1, <1>7, <1>8, <1>9, <1>12

\* What process_order makes of each side of the books.
SidesAfter(ex, order, run, books) ==
  \A s \in DOMAIN ex.books, sd \in Side :
    books[s][sd] =
      IF s # order.symbol THEN ex.books[s][sd]
      ELSE IF sd # order.side THEN run.levels
      ELSE IF run.left > 0
        THEN Rest(ex.books[s][sd], order.price,
                  [order_id |-> order.order_id, quantity |-> run.left])
      ELSE ex.books[s][sd]

\* process_order changes the sides of the order's symbol.
LEMMA SidesAfterAre ==
  ASSUME NEW R, NEW ex, IsExchange(ex, R), NEW order, order.side \in Side,
         order.symbol \in R, NEW run, NEW books,
         books = [ex.books EXCEPT ![order.symbol] = AfterMatch(ex.books[order.symbol], order, run)]
  PROVE  SidesAfter(ex, order, run, books) /\ DOMAIN books = DOMAIN ex.books /\ DOMAIN ex.books = R
<1>1. PICK s, side, other, old, book :
        /\ s = order.symbol /\ side = order.side /\ other = Opposite(side)
        /\ old = ex.books /\ book = AfterMatch(ex.books[s], order, run)
  OBVIOUS
<1>2. other \in Side /\ other # side /\ Side = {side, other}
  BY <1>1 DEF Opposite, Side
<1>3. old = [r \in R |-> [sd \in Side |-> old[r][sd]]]
  BY <1>1 DEF IsExchange
<1>4. DOMAIN books = R /\ \A r \in R : books[r] = IF r = s THEN book ELSE old[r]
  BY <1>1, <1>3
<1>5. PICK hit : hit = [old[s] EXCEPT ![other] = run.levels]
  OBVIOUS
<1>6. /\ hit = [sd \in Side |-> hit[sd]]
      /\ hit[other] = run.levels /\ hit[side] = old[s][side]
  BY <1>1, <1>2, <1>3, <1>5
<1>a. ASSUME book[other] = run.levels,
             book[side] = IF run.left > 0
                            THEN Rest(ex.books[s][side], order.price,
                                      [order_id |-> order.order_id, quantity |-> run.left])
                            ELSE ex.books[s][side]
      PROVE  SidesAfter(ex, order, run, books) /\ DOMAIN books = DOMAIN ex.books
             /\ DOMAIN ex.books = R
  <2>1. DOMAIN ex.books = R
    BY <1>1, <1>3
  <2>2. ASSUME NEW r \in R, NEW sd \in Side
        PROVE  books[r][sd] =
                 IF r # s THEN ex.books[r][sd]
                 ELSE IF sd # side THEN run.levels
                 ELSE IF run.left > 0
                   THEN Rest(ex.books[r][sd], order.price,
                             [order_id |-> order.order_id, quantity |-> run.left])
                 ELSE ex.books[r][sd]
    <3>1. CASE r # s
      BY <1>1, <1>4, <3>1
    <3>2. CASE r = s /\ sd = other
      BY <1>2, <1>4, <1>a, <3>2
    <3>3. CASE r = s /\ sd = side
      BY <1>4, <1>a, <3>3
    <3> QED BY <1>2, <3>1, <3>2, <3>3
  <2> QED BY <1>1, <1>4, <2>1, <2>2 DEF SidesAfter
<1>7. CASE run.left > 0
  <2>1. PICK queue : queue = Rest(hit[side], order.price,
                               [order_id |-> order.order_id, quantity |-> run.left])
    OBVIOUS
  <2>2. book = [hit EXCEPT ![side] = queue]
    BY <1>1, <1>5, <1>7, <2>1 DEF AfterMatch
  <2>3. book[other] = run.levels /\ book[side] = queue
    BY <1>2, <1>6, <2>2
  <2> QED BY <1>1, <1>6, <1>7, <1>a, <2>1, <2>3
<1>8. CASE ~(run.left > 0)
  <2>1. book = hit
    BY <1>1, <1>5, <1>8 DEF AfterMatch
  <2> QED BY <1>1, <1>6, <1>8, <1>a, <2>1
<1> QED BY <1>7, <1>8

\* When process_order has ended and its trades are applied, the books hold what is
\* open.
LEMMA ProcessMirrors ==
  ASSUME NEW R, NEW ex, NEW order, AboutToMatch(R, ex, order),
         NEW call, call = Process(ex, order)
  PROVE  BooksMirror(call.ex)
<1>1. PICK states, id, s, side, other, ids :
        /\ states = ex.order_states /\ id = order.order_id /\ s = order.symbol
        /\ side = order.side /\ other = Opposite(side) /\ ids = OrdersOn(states, s, other)
  OBVIOUS
<1>2. /\ states \in [DOMAIN states -> OrderStates] /\ s \in R /\ order.price \in Prices
      /\ other \in Side /\ other # side /\ Side = {side, other} /\ order.quantity \in Int
      /\ id \in OrdersOn(states, s, side) /\ states[id].price = order.price
      /\ IsExchange(ex, R) /\ order.side \in Side /\ order.symbol \in R
  BY <1>1 DEF AboutToMatch, IsExchange, Opposite, Side
<1>3. PICK run : run = match_orders(order, ex.books[s][other])
  OBVIOUS
<1>4. run \in RunsOf(ids) /\ LoopMirrors(states, order, run)
  BY <1>1, <1>3, MatchMirrors
<1>5. run.left \in Int /\ run.fills \in Seq(FillsFrom(ids))
  BY <1>4 DEF RunsOf
<1>6. PICK after, books : /\ after = Applied(states, id, run.fills)
                          /\ books = [ex.books EXCEPT ![s] = AfterMatch(ex.books[s], order, run)]
  OBVIOUS
<1>7. call.ex = [order_states |-> after, books |-> books]
  BY <1>1, <1>3, <1>6 DEF Process
<1>8. /\ SidesAfter(ex, order, run, books) /\ DOMAIN books = DOMAIN ex.books
      /\ DOMAIN ex.books = R
  BY <1>1, <1>2, <1>6, SidesAfterAre
<1>9. after \in FilledOn(states, Touched(id, run.fills))
  BY <1>2, <1>5, <1>6, AppliedAre
<1>10. DOMAIN after = DOMAIN states
       /\ \A x \in DOMAIN states : SameTerms(after[x], states[x])
                                   /\ (after[x] = states[x] \/ x \in {id} \cup ids)
  <2>1. \A n \in DOMAIN run.fills : run.fills[n].order_id \in ids
    <3>1. PICK fills : fills = run.fills
      OBVIOUS
    <3>2. \A n \in DOMAIN fills : fills[n] \in FillsFrom(ids)
      BY <1>5, <3>1
    <3> QED BY <3>1, <3>2 DEF FillsFrom
  <2>2. Touched(id, run.fills) \subseteq {id} \cup ids
    BY <2>1 DEF Touched
  <2> QED BY <1>9, <2>2 DEF FilledOn
<1>11. IsOpen(after[id]) <=> run.left > 0
  BY <1>1, <1>4, <1>6 DEF LoopMirrors
<1>12. remaining_quantity(after[id]) = run.left
  BY <1>1, <1>4, <1>6 DEF LoopMirrors
<1>13. ASSUME NEW r \in R, NEW sd \in Side
       PROVE  Holds(books[r][sd], OpenOn(after, r, sd))
  <2>1. PICK open, new, besides :
          /\ open = OpenOn(states, r, sd) /\ new = OpenOn(after, r, sd)
          /\ besides = [x \in DOMAIN open \ {id} |-> open[x]]
    OBVIOUS
  <2>a. besides = Besides(OpenOn(states, r, sd), id)
    BY <2>1 DEF Besides
  <2>2. /\ \A x : x \in DOMAIN open <=>
             x \in DOMAIN states /\ states[x].symbol = r /\ states[x].side = sd /\ IsOpen(states[x])
        /\ open = [x \in DOMAIN open |-> <<states[x].price, remaining_quantity(states[x])>>]
    BY <2>1, OpenOnIs
  <2>3. /\ \A x : x \in DOMAIN new <=>
             x \in DOMAIN after /\ after[x].symbol = r /\ after[x].side = sd /\ IsOpen(after[x])
        /\ new = [x \in DOMAIN new |-> <<after[x].price, remaining_quantity(after[x])>>]
    BY <2>1, OpenOnIs
  <2>4. Holds(ex.books[r][sd], besides)
    BY <1>1, <2>a DEF AboutToMatch
  <2>5. CASE r = s /\ sd = other
    <3>1. books[r][sd] = run.levels
      BY <1>1, <1>2, <1>8, <2>5 DEF SidesAfter
    <3> QED BY <1>1, <1>4, <1>6, <2>5, <3>1 DEF LoopMirrors
  <2>6. CASE ~(r = s /\ sd = other)
    <3>1. \A x \in DOMAIN states : states[x].symbol = r /\ states[x].side = sd /\ x # id =>
            after[x] = states[x]
      BY <1>1, <1>10, <2>6 DEF OrdersOn
    <3>2. \A x : x # id => (x \in DOMAIN new <=> x \in DOMAIN besides)
      BY <1>10, <2>1, <2>2, <2>3, <3>1 DEF SameTerms
    <3>3. \A x \in DOMAIN new \ {id} : new[x] = besides[x]
      BY <1>10, <2>1, <2>2, <2>3, <3>1, <3>2
    <3>4. id \in DOMAIN states /\ states[id].symbol = s /\ states[id].side = side
      BY <1>2 DEF OrdersOn
    <3>5. id \in DOMAIN new <=> r = s /\ sd = side /\ run.left > 0
      BY <1>10, <1>11, <2>3, <3>4 DEF SameTerms
    <3>6. id \notin DOMAIN besides
      BY <2>1
    <3>7. CASE r = s /\ sd = side /\ run.left > 0
      <4>1. PICK entry : entry = [order_id |-> id, quantity |-> run.left]
        OBVIOUS
      <4>2. books[r][sd] = Rest(ex.books[r][sd], order.price, entry)
        BY <1>1, <1>8, <3>7, <4>1 DEF SidesAfter
      <4>3. new[id] = <<order.price, run.left>>
        BY <1>2, <1>10, <1>12, <2>3, <3>4, <3>5, <3>7 DEF SameTerms
      <4>4. new = [x \in DOMAIN besides \cup {entry.order_id} |->
                     IF x = entry.order_id THEN <<order.price, entry.quantity>> ELSE besides[x]]
        <5>1. DOMAIN new = DOMAIN besides \cup {id}
          BY <3>2, <3>5, <3>7
        <5>2. \A x \in DOMAIN new : new[x] = IF x = id THEN <<order.price, run.left>> ELSE besides[x]
          BY <3>3, <4>3
        <5>3. new = [x \in DOMAIN besides \cup {id} |->
                       IF x = id THEN <<order.price, run.left>> ELSE besides[x]]
          BY <2>3, <5>1, <5>2
        <5> QED BY <4>1, <5>3
      <4>5. PICK E : E = EntriesOf(OrdersOn(ex.order_states, r, sd))
        OBVIOUS
      <4>6. Tidy(ex.books[r][sd], E)
        BY <1>2, <4>5 DEF IsExchange
      <4>7. PICK levels : levels = ex.books[r][sd]
        OBVIOUS
      <4>8. Holds(Rest(levels, order.price, entry), new)
        <5>1. entry.order_id \notin DOMAIN besides
          BY <3>6, <4>1
        <5> QED BY <1>2, <2>4, <4>4, <4>6, <4>7, <5>1, HoldsRest
      <4> QED BY <2>1, <4>2, <4>7, <4>8
    <3>8. CASE ~(r = s /\ sd = side /\ run.left > 0)
      <4>1. books[r][sd] = ex.books[r][sd]
        BY <1>1, <1>2, <1>8, <2>6, <3>8 DEF SidesAfter
      <4>2. DOMAIN new = DOMAIN besides
        BY <3>2, <3>5, <3>6, <3>8
      <4>3. new = besides
        BY <2>1, <2>3, <3>3, <3>5, <3>8, <4>2
      <4> QED BY <2>1, <2>4, <4>1, <4>3
    <3> QED BY <3>7, <3>8
  <2> QED BY <2>5, <2>6
<1> QED BY <1>7, <1>8, <1>13 DEF BooksMirror

-----------------------------------------------------------------------------
(* Shares are only lost.                                                   *)

\* Numbers that are not negative add up to one.
LEMMA SummedNat ==
  ASSUME NEW N \in Nat, NEW q, \A i \in 1..N : q[i] \in Nat
  PROVE  Summed(q, N) \in Nat
<1> DEFINE T == {n \in 0..N : Summed(q, n) \in Nat}
<1>1. ASSUME NEW n \in 0..N PROVE Numbers(q, n) /\ n \in Nat
  BY DEF Numbers
<1>2. 0 \in T
  <2>1. 0 \in 0..N
    OBVIOUS
  <2>2. Summed(q, 0) = 0
    BY <1>1, <2>1, SummedStep
  <2> QED BY <2>1, <2>2
<1>3. ASSUME NEW n \in 1..N, n - 1 \in T PROVE n \in T
  <2>1. n \in 0..N /\ n # 0 /\ Summed(q, n - 1) \in Nat /\ q[n] \in Nat
    BY <1>3
  <2>2. Summed(q, n) = Summed(q, n - 1) + q[n]
    BY <1>1, <2>1, SummedStep
  <2> QED BY <2>1, <2>2
<1>4. 0..N \subseteq T
  <2> HIDE DEF T
  <2> QED BY <1>2, <1>3, Inductive
<1> QED BY <1>4

\* What a call trades of an order is not negative.
LEMMA TradedIsNat ==
  ASSUME NEW ids, NEW fills \in Seq(FillsFrom(ids)), NEW id, NEW x
  PROVE  TradedOf(fills, id, x) \in Nat
<1>1. PICK N \in Nat : N = Len(fills)
  OBVIOUS
<1>2. PICK q : q = [n \in 1..N |-> Traded(fills[n], id, x)]
  OBVIOUS
<1>3. DOMAIN fills = 1..N /\ \A n \in 1..N : fills[n] \in FillsFrom(ids)
  BY <1>1
<1>4. \A n \in 1..N : q[n] \in Nat
  BY <1>2, <1>3 DEF Traded, FillsFrom, Shares
<1>5. TradedOf(fills, id, x) = Summed(q, N)
  BY <1>1, <1>2, <1>3 DEF TradedOf
<1> QED BY <1>4, <1>5, SummedNat

\* No order has gained shares to trade.
NoMoreShares(after, before) ==
  \A x \in DOMAIN before : remaining_quantity(after[x]) <= remaining_quantity(before[x])

\* None does by process_order.
LEMMA ProcessTakes ==
  ASSUME NEW R, NEW ex, IsExchange(ex, R), NEW order,
         order.symbol \in R, order.side \in Side, order.price \in Prices,
         order.quantity \in Int,
         order.order_id \in OrdersOn(ex.order_states, order.symbol, order.side),
         NEW call, call = Process(ex, order)
  PROVE  NoMoreShares(call.ex.order_states, ex.order_states)
<1>1. PICK before, after : before = ex.order_states /\ after = call.ex.order_states
  OBVIOUS
<1>2. /\ after \in FilledOn(before, Touched(order.order_id, call.trades))
      /\ call.trades \in
           Seq(FillsFrom(OrdersOn(before, order.symbol, Opposite(order.side))))
  BY <1>1, ProcessOK
<1>3. before \in [DOMAIN before -> OrderStates] /\ after \in [DOMAIN before -> OrderStates]
      /\ \A x \in DOMAIN before : after[x].original_quantity = before[x].original_quantity
  BY <1>1, <1>2 DEF IsExchange, FilledOn
<1>4. ASSUME NEW x \in DOMAIN before
      PROVE  remaining_quantity(after[x]) <= remaining_quantity(before[x])
  <2>1. PICK more : more = TradedOf(call.trades, order.order_id, x)
    OBVIOUS
  <2>2. more \in Nat
    BY <1>2, <2>1, TradedIsNat
  <2>3. order.order_id \in DOMAIN ex.order_states
    BY DEF OrdersOn
  <2>4. FilledIn(call.ex.order_states, x) = FilledIn(ex.order_states, x)
                                              + TradedOf(call.trades, order.order_id, x)
    BY <2>3, ProcessAdds
  <2>5. after[x].filled_quantity = before[x].filled_quantity + more
    BY <1>1, <1>3, <2>1, <2>4 DEF FilledIn
  <2>6. /\ before[x].filled_quantity \in Int /\ before[x].original_quantity \in Int
        /\ after[x].original_quantity = before[x].original_quantity
    BY <1>3 DEF OrderStates
  <2> QED BY <2>2, <2>5, <2>6 DEF remaining_quantity
<1> QED BY <1>1, <1>4 DEF NoMoreShares

-----------------------------------------------------------------------------
(* The calls that clients make.                                            *)

\* Order id was added with this state.
Added(new, old, id, st) ==
  /\ id \notin DOMAIN old /\ DOMAIN new = DOMAIN old \cup {id}
  /\ new[id] = st /\ \A x \in DOMAIN old : new[x] = old[x]

\* What is open besides a new order is what was open before it.
LEMMA OpenBesides ==
  ASSUME NEW old, NEW id, NEW st, NEW new, Added(new, old, id, st),
         NEW s, NEW sd
  PROVE  /\ Besides(OpenOn(new, s, sd), id) = OpenOn(old, s, sd)
         /\ is_terminal(st) => OpenOn(new, s, sd) = OpenOn(old, s, sd)
<1>1. PICK before, open, besides :
        /\ before = OpenOn(old, s, sd) /\ open = OpenOn(new, s, sd)
        /\ besides = [x \in DOMAIN open \ {id} |-> open[x]]
  OBVIOUS
<1>2. /\ \A x : x \in DOMAIN open <=>
           x \in DOMAIN new /\ new[x].symbol = s /\ new[x].side = sd /\ IsOpen(new[x])
      /\ open = [x \in DOMAIN open |-> <<new[x].price, remaining_quantity(new[x])>>]
  BY <1>1, OpenOnIs
<1>3. /\ \A x : x \in DOMAIN before <=>
           x \in DOMAIN old /\ old[x].symbol = s /\ old[x].side = sd /\ IsOpen(old[x])
      /\ before = [x \in DOMAIN before |-> <<old[x].price, remaining_quantity(old[x])>>]
  BY <1>1, OpenOnIs
<1>4. DOMAIN new = DOMAIN old \cup {id} /\ new[id] = st
      /\ \A x \in DOMAIN old : new[x] = old[x] /\ x # id
  BY DEF Added
<1>5. DOMAIN besides = DOMAIN before
  <2>1. \A x : x \in DOMAIN besides <=> x \in DOMAIN open /\ x # id
    BY <1>1
  <2>2. \A x : x \in DOMAIN besides <=> x \in DOMAIN before
    BY <1>2, <1>3, <1>4, <2>1
  <2> QED BY <2>2
<1>6. \A x \in DOMAIN before : besides[x] = before[x]
  BY <1>1, <1>2, <1>3, <1>4, <1>5
<1>7. besides = before
  BY <1>1, <1>3, <1>5, <1>6
<1>8. is_terminal(st) => id \notin DOMAIN open
  BY <1>2, <1>4 DEF IsOpen
<1>9. id \notin DOMAIN open => besides = open
  BY <1>1, <1>2
<1> QED BY <1>1, <1>7, <1>8, <1>9 DEF Besides

\* submit_order of a new order, of which what is left is no more than it asked for.
LEMMA SubmitMirrors ==
  ASSUME NEW R, NEW ex, IsExchange(ex, R), BooksMirror(ex), NEW ctx, NEW order, IsOrder(order),
         order.order_id \notin DOMAIN ex.order_states,
         NEW call, call = submit_order(ex, ctx, order)
  PROVE  /\ BooksMirror(call.ex) /\ NoMoreShares(call.ex.order_states, ex.order_states)
         /\ remaining_quantity(call.ex.order_states[order.order_id]) <= order.quantity
<1> USE DEF IsOrder
<1>1. DOMAIN ex.books = R /\ ex.order_states \in [DOMAIN ex.order_states -> OrderStates]
  BY DEF IsExchange
<1>2. PICK id, old : id = order.order_id /\ old = ex.order_states
  OBVIOUS
<1>3. ASSUME NEW status \in OrderStatus, NEW st, st = NewOrderState(order, status),
             NEW with, with = WithState(ex, id, st), is_terminal(st) \/ order.symbol \in R
      PROVE  /\ IsExchange(with, R) /\ with.books = ex.books
             /\ Added(with.order_states, old, id, st)
             /\ st \in OrderStates /\ SameTerms(st, order)
             /\ st.order_status = status /\ remaining_quantity(st) = order.quantity
  <2>1. /\ st \in OrderStates /\ SameTerms(st, order) /\ st.order_status = status
        /\ st.original_quantity = order.quantity /\ st.filled_quantity = 0
        /\ st.symbol = order.symbol
    BY <1>3 DEF NewOrderState, OrderStates, SameTerms
  <2>2. remaining_quantity(st) = order.quantity
    BY <2>1 DEF remaining_quantity
  <2>3. /\ IsExchange(with, R) /\ with.books = ex.books
        /\ with.order_states = [x \in DOMAIN ex.order_states \cup {id} |->
                                  IF x = id THEN st ELSE ex.order_states[x]]
    BY <1>2, <1>3, <2>1, WithStateOK
  <2>4. Added(with.order_states, old, id, st)
    BY <1>2, <2>3 DEF Added
  <2> QED BY <2>1, <2>2, <2>3, <2>4
<1>4. CASE order.symbol \in R /\ Approved(ctx, order)
  <2>0. PICK status \in OrderStatus : status = "New"
    BY DEF OrderStatus
  <2>1. PICK st, with : st = NewOrderState(order, status) /\ with = WithState(ex, id, st)
    OBVIOUS
  <2>2. PICK new : new = with.order_states
    OBVIOUS
  <2>3. /\ IsExchange(with, R) /\ with.books = ex.books
        /\ Added(new, old, id, st)
        /\ st \in OrderStates /\ SameTerms(st, order)
        /\ st.order_status = status /\ remaining_quantity(st) = order.quantity
    BY <1>3, <1>4, <2>1, <2>2
  <2>4. call = Process(with, order)
    BY <1>1, <1>2, <1>4, <2>0, <2>1 DEF submit_order
  <2>5. id \in OrdersOn(new, order.symbol, order.side) /\ new[id] = st
    BY <2>3 DEF OrdersOn, SameTerms, Added
  <2>6. AboutToMatch(R, with, order)
    <3>1. ASSUME NEW s \in R, NEW sd \in Side
          PROVE  Holds(with.books[s][sd], Besides(OpenOn(new, s, sd), id))
      <4>1. Besides(OpenOn(new, s, sd), id) = OpenOn(old, s, sd)
        BY <2>3, OpenBesides
      <4>2. Holds(ex.books[s][sd], OpenOn(old, s, sd))
        BY <1>1, <1>2 DEF BooksMirror
      <4> QED BY <2>3, <4>1, <4>2
    <3>2. ~is_terminal(st) /\ st.price = order.price
      BY <2>0, <2>3 DEF is_terminal, SameTerms
    <3> QED BY <1>2, <1>4, <2>2, <2>3, <2>5, <3>1, <3>2 DEF AboutToMatch
  <2>7. BooksMirror(call.ex)
    BY <2>4, <2>6, ProcessMirrors
  <2>8. NoMoreShares(call.ex.order_states, new)
    BY <1>2, <1>4, <2>2, <2>3, <2>4, <2>5, ProcessTakes
  <2>9. /\ DOMAIN new = DOMAIN old \cup {id}
        /\ \A x \in DOMAIN old : new[x] = old[x]
    BY <2>3 DEF Added
  <2> QED BY <1>2, <2>3, <2>5, <2>7, <2>8, <2>9 DEF NoMoreShares
<1>5. CASE ~(order.symbol \in R /\ Approved(ctx, order))
  <2>0. PICK status \in OrderStatus : status = "Rejected"
    BY DEF OrderStatus
  <2>1. PICK st, with : st = NewOrderState(order, status) /\ with = WithState(ex, id, st)
    OBVIOUS
  <2>2. PICK new : new = with.order_states
    OBVIOUS
  <2>3. is_terminal(st)
    BY <2>0, <2>1 DEF is_terminal, NewOrderState
  <2>4. /\ IsExchange(with, R) /\ with.books = ex.books
        /\ Added(new, old, id, st)
        /\ remaining_quantity(st) = order.quantity
    BY <1>3, <2>1, <2>2, <2>3
  <2>5. call.ex = with
    BY <1>1, <1>2, <1>5, <2>0, <2>1 DEF submit_order, NoTrades
  <2>6. BooksMirror(with)
    <3>1. ASSUME NEW s \in R, NEW sd \in Side
          PROVE  Holds(with.books[s][sd], OpenOn(new, s, sd))
      <4>1. OpenOn(new, s, sd) = OpenOn(old, s, sd)
        BY <2>3, <2>4, OpenBesides
      <4>2. Holds(ex.books[s][sd], OpenOn(old, s, sd))
        BY <1>1, <1>2 DEF BooksMirror
      <4> QED BY <2>4, <4>1, <4>2
    <3> QED BY <1>1, <2>2, <2>4, <3>1 DEF BooksMirror
  <2>7. /\ DOMAIN new = DOMAIN old \cup {id} /\ new[id] = st
        /\ \A x \in DOMAIN old : new[x] = old[x]
    BY <2>4 DEF Added
  <2>8. \A x \in DOMAIN old : remaining_quantity(old[x]) \in Int
    BY <1>1, <1>2 DEF OrderStates, remaining_quantity
  <2> QED BY <1>2, <2>2, <2>4, <2>5, <2>6, <2>7, <2>8 DEF NoMoreShares
<1> QED BY <1>4, <1>5

\* cancel_order.
LEMMA CancelMirrors ==
  ASSUME NEW R, NEW ex, IsExchange(ex, R), BooksMirror(ex), NEW id,
         NEW new, new = cancel_order(ex, id)
  PROVE  BooksMirror(new) /\ NoMoreShares(new.order_states, ex.order_states)
<1>1. /\ ex = [order_states |-> ex.order_states, books |-> ex.books]
      /\ ex.order_states \in [DOMAIN ex.order_states -> OrderStates]
      /\ DOMAIN ex.books = R
      /\ ex.books = [s \in R |-> [sd \in Side |-> ex.books[s][sd]]]
  BY DEF IsExchange
<1>2. \A x \in DOMAIN ex.order_states : remaining_quantity(ex.order_states[x]) \in Int
  BY <1>1 DEF OrderStates, remaining_quantity
<1>3. CASE ~CanAmend(ex, id)
  BY <1>2, <1>3 DEF cancel_order, NoMoreShares
<1>4. CASE CanAmend(ex, id)
  <2>1. id \in DOMAIN ex.order_states /\ ~is_terminal(ex.order_states[id]) /\ new = Cancelled(ex, id)
    BY <1>4 DEF CanAmend, cancel_order
  <2>2. PICK old, after, st : old = ex.order_states /\ after = new.order_states /\ st = old[id]
    OBVIOUS
  <2>3. /\ DOMAIN after = DOMAIN old
        /\ \A x \in DOMAIN old \ {id} : after[x] = old[x]
        /\ after[id] = [old[id] EXCEPT !.order_status = "Cancelled"]
    BY <2>1, <2>2, CancelledIs
  <2>4. /\ st \in OrderStates /\ st.symbol \in R /\ st.side \in Side /\ id \in DOMAIN old
    BY <2>1, <2>2, <1>1 DEF IsExchange, OrderStates
  <2>5. is_terminal(after[id]) /\ remaining_quantity(after[id]) = remaining_quantity(old[id])
    BY <2>2, <2>3, <2>4 DEF is_terminal, remaining_quantity, OrderStates
  <2>6. NoMoreShares(after, old)
    BY <1>2, <2>2, <2>3, <2>5 DEF NoMoreShares
  <2>7. PICK books : books = [ex.books EXCEPT ![st.symbol][st.side] =
                                CancelFromLevel(@, st.price, id)]
    OBVIOUS
  <2>8. new.books = books
    BY <1>1, <2>1, <2>2, <2>7 DEF Cancelled, Pulled
  <2>9. /\ DOMAIN books = R
        /\ \A s \in R, sd \in Side :
             books[s][sd] = IF s = st.symbol /\ sd = st.side
                              THEN CancelFromLevel(ex.books[s][sd], st.price, id)
                              ELSE ex.books[s][sd]
    <3>1. PICK levels, mine : levels = CancelFromLevel(ex.books[st.symbol][st.side], st.price, id)
                              /\ mine = [ex.books[st.symbol] EXCEPT ![st.side] = levels]
      OBVIOUS
    <3>2. books = [ex.books EXCEPT ![st.symbol] = mine]
      BY <2>7, <3>1
    <3>3. mine = [sd \in Side |-> IF sd = st.side THEN levels ELSE ex.books[st.symbol][sd]]
      BY <1>1, <2>4, <3>1
    <3> QED BY <1>1, <2>4, <3>1, <3>2, <3>3
  <2>10. ASSUME NEW s \in R, NEW sd \in Side
         PROVE  Holds(books[s][sd], OpenOn(after, s, sd))
    <3>1. PICK open, now, levels : /\ open = OpenOn(old, s, sd) /\ now = OpenOn(after, s, sd)
                                   /\ levels = ex.books[s][sd]
      OBVIOUS
    <3>2. /\ \A x : x \in DOMAIN open <=>
               x \in DOMAIN old /\ old[x].symbol = s /\ old[x].side = sd /\ IsOpen(old[x])
          /\ open = [x \in DOMAIN open |-> <<old[x].price, remaining_quantity(old[x])>>]
      BY <3>1, OpenOnIs
    <3>3. /\ \A x : x \in DOMAIN now <=>
               x \in DOMAIN after /\ after[x].symbol = s /\ after[x].side = sd /\ IsOpen(after[x])
          /\ now = [x \in DOMAIN now |-> <<after[x].price, remaining_quantity(after[x])>>]
      BY <3>1, OpenOnIs
    <3>4. id \notin DOMAIN now
      BY <2>5, <3>3 DEF IsOpen
    <3>5. DOMAIN now = DOMAIN open \ {id}
      <4>1. \A x : x \in DOMAIN now <=> x \in DOMAIN open /\ x # id
        BY <2>3, <3>2, <3>3, <3>4
      <4> QED BY <4>1
    <3>6. \A x \in DOMAIN now : now[x] = open[x]
      BY <2>3, <3>2, <3>3, <3>5
    <3>7. now = [x \in DOMAIN open \ {id} |-> open[x]]
      BY <3>3, <3>5, <3>6
    <3>8. Holds(levels, open)
      BY <1>1, <2>2, <3>1 DEF BooksMirror
    <3>9. CASE s = st.symbol /\ sd = st.side
      <4>1. PICK E, price : E = EntriesOf(OrdersOn(old, s, sd)) /\ price = st.price
        OBVIOUS
      <4>2. Tidy(levels, E)
        BY <2>2, <3>1, <4>1 DEF IsExchange
      <4>3. id \in DOMAIN open => open[id][1] = price
        BY <2>2, <3>2, <4>1
      <4>4. Holds(CancelFromLevel(levels, price, id), now)
        BY <3>7, <3>8, <4>2, <4>3, HoldsCancel
      <4> QED BY <2>9, <3>1, <3>9, <4>1, <4>4
    <3>10. CASE ~(s = st.symbol /\ sd = st.side)
      <4>1. id \notin DOMAIN open
        BY <2>2, <3>2, <3>10
      <4>2. now = open
        BY <3>2, <3>7, <4>1
      <4> QED BY <2>9, <3>1, <3>8, <3>10, <4>2
    <3> QED BY <3>9, <3>10
  <2>11. BooksMirror(new)
    BY <2>2, <2>8, <2>9, <2>10 DEF BooksMirror
  <2> QED BY <2>2, <2>6, <2>11
<1> QED BY <1>3, <1>4

-----------------------------------------------------------------------------
(* Sums of numbers in another order.                                       *)

\* Each of the n numbers a, zeros aside, is at most that one of the m numbers b to
\* which f sends it, and no two are sent to one.
SentTo(a, n, b, m, f) ==
  /\ \A i \in 1..n : a[i] # 0 => f[i] \in 1..m /\ a[i] <= b[f[i]]
  /\ \A i, j \in 1..n : a[i] # 0 /\ a[j] # 0 /\ f[i] = f[j] => i = j

\* So they do not add up to more, by how many there are.
LEMMA SummedBelow ==
  ASSUME NEW N \in Nat, NEW a, Numbers(a, N), NEW m \in Nat, NEW b \in [1..m -> Nat],
         NEW f, SentTo(a, N, b, m, f)
  PROVE  Summed(a, N) <= Summed(b, m)
<1> DEFINE Below(n, c) == \A i \in 1..n : a[i] # 0 => a[i] <= c[f[i]]
           T == {n \in 0..N : \A c \in [1..m -> Nat] : Below(n, c) => Summed(a, n) <= Summed(c, m)}
<1>1. \A i \in 1..N : (a[i] # 0 => f[i] \in 1..m) /\ a[i] \in Int
  BY DEF SentTo, Numbers
<1>2. ASSUME NEW c \in [1..m -> Nat] PROVE Numbers(c, m) /\ Summed(c, m) \in Nat
  BY SummedNat DEF Numbers
<1>3. ASSUME NEW n \in 0..N PROVE Numbers(a, n) /\ n \in Nat
  BY DEF Numbers
<1>4. 0 \in T
  <2>1. 0 \in 0..N
    OBVIOUS
  <2>2. Summed(a, 0) = 0
    BY <1>3, <2>1, SummedStep
  <2>3. \A c \in [1..m -> Nat] : Summed(a, 0) <= Summed(c, m)
    BY <1>2, <2>2
  <2> QED BY <2>1, <2>3
<1>5. ASSUME NEW n \in 1..N, n - 1 \in T PROVE n \in T
  <2>1. n \in 0..N /\ n - 1 \in 0..N /\ n # 0
    OBVIOUS
  <2>2. Summed(a, n - 1) \in Int /\ Summed(a, n) = Summed(a, n - 1) + a[n]
    BY <1>3, <2>1, SummedStep
  <2>3. ASSUME NEW c, c \in [1..m -> Nat], Below(n, c), a[n] # 0
        PROVE  Summed(a, n) <= Summed(c, m)
    <3>1. PICK k \in 1..m : k = f[n]
      BY <1>1, <2>3
    <3>2. PICK d : d = [c EXCEPT ![k] = 0]
      OBVIOUS
    <3>3. d \in [1..m -> Nat] /\ d[k] = 0 /\ \A i \in 1..m : i # k => d[i] = c[i]
      BY <2>3, <3>2
    <3>4. Below(n - 1, d)
      <4> SUFFICES ASSUME NEW i \in 1..(n - 1), a[i] # 0 PROVE a[i] <= d[f[i]]
        OBVIOUS
      <4>1. i \in 1..N /\ i \in 1..n /\ i # n /\ n \in 1..N
        OBVIOUS
      <4>2. f[i] \in 1..m /\ f[i] # k
        BY <1>1, <2>3, <3>1, <4>1 DEF SentTo
      <4>3. a[i] <= c[f[i]]
        BY <2>3, <4>1
      <4> QED BY <3>3, <4>2, <4>3
    <3>5. Summed(a, n - 1) <= Summed(d, m)
      BY <1>5, <3>3, <3>4
    <3>6. Summed(d, m) = Summed(c, m) - c[k] + d[k]
      <4>1. Numbers(c, m) /\ Numbers(d, m)
        BY <1>2, <2>3, <3>3
      <4>2. \A i \in 1..m : i # k => d[i] = c[i]
        BY <3>3
      <4>3. k \in 1..m /\ m \in Nat
        BY <3>1
      <4> QED BY <4>1, <4>2, <4>3, SummedChange
    <3>7. a[n] <= c[k] /\ c[k] \in Nat /\ a[n] \in Int
      BY <1>1, <2>3, <3>1
    <3>8. Summed(c, m) \in Nat /\ Summed(d, m) \in Nat
      BY <1>2, <2>3, <3>3
    <3>9. d[k] = 0
      BY <3>3
    <3> QED BY <2>2, <3>5, <3>6, <3>7, <3>8, <3>9
  <2>4. ASSUME NEW c, c \in [1..m -> Nat], Below(n, c), a[n] = 0
        PROVE  Summed(a, n) <= Summed(c, m)
    <3>1. Below(n - 1, c)
      BY <2>4
    <3>2. Summed(a, n - 1) <= Summed(c, m)
      BY <1>5, <2>4, <3>1
    <3> QED BY <2>2, <2>4, <3>2
  <2>5. ASSUME NEW c, c \in [1..m -> Nat], Below(n, c) PROVE Summed(a, n) <= Summed(c, m)
    BY <2>3, <2>4, <2>5
  <2> QED BY <2>1, <2>5
<1>6. 0..N \subseteq T
  <2> HIDE DEF T
  <2> QED BY <1>4, <1>5, Inductive
<1>7. N \in T /\ Below(N, b)
  BY <1>6 DEF SentTo
<1> QED BY <1>7

\* SetToSeq lists each element of a finite set once.
LEMMA ListedOnce ==
  ASSUME NEW S, IsFiniteSet(S), NEW listed, listed = SetToSeq(S)
  PROVE  \E n \in Nat : /\ listed \in [1..n -> S] /\ Len(listed) = n
                        /\ \A i, j \in 1..n : listed[i] = listed[j] => i = j
                        /\ \A x \in S : \E i \in 1..n : listed[i] = x
<1>1. PICK n \in Nat : n = Cardinality(S)
  BY FS_CardinalityType
<1>2. PICK g : g \in Bijection(1..n, S)
  BY <1>1, FS_CardinalityType DEF ExistsBijection
<1>3. g \in [1..n -> S] /\ IsInjective(g)
  BY <1>2 DEF Bijection, Injection
<1>4. listed \in [1..n -> S] /\ IsInjective(listed)
  <2>1. listed = CHOOSE f \in [1..n -> S] : IsInjective(f)
    BY <1>1 DEF SetToSeq
  <2> QED BY <1>3, <2>1
<1>5. listed \in Injection(1..n, S)
  BY <1>4 DEF Injection
<1>6. listed \in Surjection(1..n, S)
  <2>1. Cardinality(1..n) = n
    BY FS_Interval
  <2> QED BY <1>1, <1>5, <2>1, FS_Injection
<1>7. Len(listed) = n
  BY <1>4
<1> QED BY <1>4, <1>6, <1>7 DEF Surjection, IsInjective
=============================================================================
