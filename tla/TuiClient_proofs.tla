--------------------------- MODULE TuiClient_proofs ---------------------------
(***************************************************************************)
(* For any number of terminal clients, all of which pre-populate the books *)
(* under the same ClOrdIDs and may be started again, and for any orders    *)
(* and cancels, what theorems show of the client program and of the        *)
(* acceptor it talks to:                                                   *)
(*   - everything a client keeps, sends and is sent is of its type;        *)
(*   - the tape a client shows is the acceptor's trades, in order, as far  *)
(*     as it was told of them;                                             *)
(*   - the acceptor's two maps agree but on orders that were sent under    *)
(*     one ClOrdID, of which the youngest has it;                          *)
(*   - what a client shows of an order that has its ClOrdID for itself is  *)
(*     the order, as soon as the last report about it has arrived;         *)
(*   - the depth a client shows is never short of what rests of such       *)
(*     orders, and is just that where it shows no stale entry.             *)
(***************************************************************************)
EXTENDS TuiClient, Matching_proofs


-----------------------------------------------------------------------------
(* The maps.                                                               *)

\* The maps after an order has been given a name.
NamedMaps(before, after, cl, id) ==
  /\ after.clordid_map = Put(before.clordid_map, cl, id)
  /\ after.orderid_to_clordid_map = Put(before.orderid_to_clordid_map, id, cl)

-----------------------------------------------------------------------------
(* What a client prints of the reports it gets.                            *)

\* f has what is printed after each of the first n reports.
Printed(f, rs, n) ==
  f = [i \in 0..n |-> IF i = 0 THEN <<>>
                      ELSE IF IsPrint(rs[i]) THEN Append(f[i - 1], TradePrint(rs[i]))
                      ELSE f[i - 1]]

\* Those of the first n reports that are printed are prints of the tape.
Printable(rs, n) == \A i \in 1..n : IsPrint(rs[i]) => TradePrint(rs[i]) \in Tape

\* What is printed is the last of what is printed after each report.
LEMMA PrintsRun ==
  ASSUME NEW n \in Nat, NEW rs, Printable(rs, n)
  PROVE  \E f \in [0..n -> Seq(Tape)] : Printed(f, rs, n) /\ Prints(rs, n) = f[n]
<1> DEFINE S == Seq(Tape)
           More(old, r) == IF IsPrint(r) THEN Append(old, TradePrint(r)) ELSE old
<1>1. PICK start : start = <<>>
  OBVIOUS
<1>2. start \in S
  BY <1>1
<1>3. ASSUME NEW i \in 1..n, NEW old \in S PROVE More(old, rs[i]) \in S
  BY DEF Printable
<1>4. PICK step : step = [i \in 1..n |-> [old \in S |-> More(old, rs[i])]]
  OBVIOUS
<1>5. step \in [1..n -> [S -> S]]
  <2> HIDE DEF S, More
  <2> QED BY <1>3, <1>4
<1>6. PICK g \in [0..n -> S] : Follows(g, n, start, step)
  <2> HIDE DEF S
  <2> QED BY <1>2, <1>5, RecursionExists
<1>7. g = [i \in 0..n |-> IF i = 0 THEN start ELSE More(g[i - 1], rs[i])]
  <2> HIDE DEF S, More
  <2>1. \A i \in 1..n : step[i][g[i - 1]] = More(g[i - 1], rs[i])
    BY <1>4, <1>6
  <2>2. g = [i \in 0..n |-> IF i = 0 THEN start ELSE step[i][g[i - 1]]]
    BY <1>6 DEF Follows
  <2>3. \A i \in 0..n : i # 0 => i \in 1..n
    OBVIOUS
  <2> QED BY <2>1, <2>2, <2>3
<1>8. Printed(g, rs, n)
  BY <1>1, <1>7, Zenon DEF Printed
<1>9. PICK f : f = CHOOSE h : h = [i \in 0..n |->
                     IF i = 0 THEN <<>>
                     ELSE IF IsPrint(rs[i]) THEN Append(h[i - 1], TradePrint(rs[i]))
                     ELSE h[i - 1]]
  OBVIOUS
<1>10. Printed(f, rs, n)
  BY <1>8, <1>9, Zenon DEF Printed
<1>11. f = [i \in 0..n |-> IF i = 0 THEN start ELSE More(f[i - 1], rs[i])]
  BY <1>1, <1>10, Zenon DEF Printed
<1>12. \A i \in 0..n : f[i] \in S
  <2> DEFINE T == {i \in 0..n : f[i] \in S}
  <2> HIDE DEF S, More
  <2>1. 0 \in T
    BY <1>2, <1>11
  <2>2. ASSUME NEW i \in 1..n, i - 1 \in T PROVE i \in T
    <3>1. f[i] = More(f[i - 1], rs[i]) /\ f[i - 1] \in S
      BY <1>11, <2>2
    <3> QED BY <3>1, <1>3
  <2>3. 0..n \subseteq T
    <3> HIDE DEF T
    <3> QED BY <2>1, <2>2, Inductive
  <2> QED BY <2>3
<1>13. f \in [0..n -> S]
  <2> HIDE DEF S, More
  <2> QED BY <1>11, <1>12
<1>14. Prints(rs, n) = f[n]
  BY <1>9, Zenon DEF Prints
<1> QED BY <1>10, <1>13, <1>14

SameAt(i, f, g) == f[i] = g[i]

\* Of reports that agree up to a place the same is printed up to there.
LEMMA PrintedAgree ==
  ASSUME NEW n \in Nat, NEW m \in Nat, NEW rs, NEW qs, NEW f, NEW g,
         Printed(f, rs, n), Printed(g, qs, m), m <= n, SameUpTo(m, rs, qs)
  PROVE  SameAt(m, f, g)
<1> DEFINE T == {i \in 0..m : f[i] = g[i]}
<1>1. 0 \in T
  BY DEF Printed
<1>2. ASSUME NEW i \in 1..m, i - 1 \in T PROVE i \in T
  <2>1. i \in 0..m /\ i \in 0..n /\ i # 0 /\ rs[i] = qs[i] /\ f[i - 1] = g[i - 1]
    BY <1>2 DEF SameUpTo
  <2>2. f[i] = IF IsPrint(rs[i]) THEN Append(f[i - 1], TradePrint(rs[i])) ELSE f[i - 1]
    BY <2>1 DEF Printed
  <2>3. g[i] = IF IsPrint(qs[i]) THEN Append(g[i - 1], TradePrint(qs[i])) ELSE g[i - 1]
    BY <2>1 DEF Printed
  <2> QED BY <2>1, <2>2, <2>3
<1>3. 0..m \subseteq T
  <2> HIDE DEF T
  <2> QED BY <1>1, <1>2, Inductive
<1> QED BY <1>3 DEF SameAt

\* What one more report adds.
LEMMA PrintsStep ==
  ASSUME NEW n \in Nat, NEW rs, Printable(rs, n)
  PROVE  /\ Prints(rs, 0) = <<>> /\ Prints(rs, n) \in Seq(Tape)
         /\ n # 0 =>
              /\ Prints(rs, n - 1) \in Seq(Tape)
              /\ Prints(rs, n) = IF IsPrint(rs[n])
                                   THEN Append(Prints(rs, n - 1), TradePrint(rs[n]))
                                   ELSE Prints(rs, n - 1)
<1>1. PICK f \in [0..n -> Seq(Tape)] : Printed(f, rs, n) /\ Prints(rs, n) = f[n]
  BY PrintsRun
<1>2. Prints(rs, 0) = <<>>
  <2>1. PICK z \in Nat : z = 0
    OBVIOUS
  <2>2. Printable(rs, z)
    BY <2>1 DEF Printable
  <2>3. PICK g \in [0..z -> Seq(Tape)] : Printed(g, rs, z) /\ Prints(rs, z) = g[z]
    BY <2>2, PrintsRun
  <2> QED BY <2>1, <2>3 DEF Printed
<1>3. ASSUME n # 0
      PROVE  /\ Prints(rs, n - 1) \in Seq(Tape)
             /\ Prints(rs, n) = IF IsPrint(rs[n])
                                  THEN Append(Prints(rs, n - 1), TradePrint(rs[n]))
                                  ELSE Prints(rs, n - 1)
  <2>1. PICK m \in Nat : m = n - 1
    BY <1>3
  <2>2. Printable(rs, m)
    BY <2>1 DEF Printable
  <2>3. PICK g \in [0..m -> Seq(Tape)] : Printed(g, rs, m) /\ Prints(rs, m) = g[m]
    BY <2>2, PrintsRun
  <2>4. f[m] = g[m]
    <3>1. m <= n /\ SameUpTo(m, rs, rs)
      BY <2>1 DEF SameUpTo
    <3>2. Printed(f, rs, n) /\ Printed(g, rs, m)
      BY <1>1, <2>3
    <3>3. SameAt(m, f, g)
      BY <3>1, <3>2, PrintedAgree
    <3> QED BY <3>3 DEF SameAt
  <2>5. f[n] = IF IsPrint(rs[n]) THEN Append(f[m], TradePrint(rs[n])) ELSE f[m]
    <3>1. n \in 0..n /\ n # 0
      BY <1>3
    <3>2. \A i \in 0..n : i # 0 =>
            f[i] = IF IsPrint(rs[i]) THEN Append(f[i - 1], TradePrint(rs[i])) ELSE f[i - 1]
      BY <1>1, Zenon DEF Printed
    <3> QED BY <2>1, <3>1, <3>2, Zenon
  <2> QED BY <1>1, <2>1, <2>3, <2>4, <2>5
<1> QED BY <1>1, <1>2, <1>3

\* The same is printed of the same reports.
LEMMA PrintsSame ==
  ASSUME NEW n \in Nat, NEW rs, Printable(rs, n), NEW qs, SameUpTo(n, rs, qs)
  PROVE  Prints(qs, n) = Prints(rs, n)
<1>1. Printable(qs, n)
  BY DEF Printable, SameUpTo
<1>2. PICK f \in [0..n -> Seq(Tape)] : Printed(f, rs, n) /\ Prints(rs, n) = f[n]
  BY PrintsRun
<1>3. PICK g \in [0..n -> Seq(Tape)] : Printed(g, qs, n) /\ Prints(qs, n) = g[n]
  BY <1>1, PrintsRun
<1>4. f[n] = g[n]
  <2>1. n <= n
    OBVIOUS
  <2>2. SameAt(n, f, g)
    BY <2>1, <1>2, <1>3, PrintedAgree
  <2> QED BY <2>2 DEF SameAt
<1> QED BY <1>2, <1>3, <1>4

ComesLast(s, t, e) == Append(s \o t, e) = s \o Append(t, e)

\* What is appended to the second of two sequences comes at the end of both.
LEMMA AppendAfter ==
  ASSUME NEW S, NEW s, NEW t, NEW e, s \in Seq(S), t \in Seq(S), e \in S
  PROVE  ComesLast(s, t, e)
<1>1. s \o t \in Seq(S) /\ <<e>> \in Seq(S)
  OBVIOUS
<1>2. Append(s \o t, e) = (s \o t) \o <<e>>
  BY <1>1, AppendIsConcat
<1>3. Append(t, e) = t \o <<e>>
  BY AppendIsConcat
<1> QED BY <1>1, <1>2, <1>3, ConcatAssociative DEF ComesLast

\* Of one list of reports after another both prints, one after the other.
LEMMA PrintsBoth ==
  ASSUME NEW m \in Nat, NEW n \in Nat, NEW ps, NEW qs, NEW rs,
         Printable(ps, m), Printable(qs, n), GoesOnWith(ps, m, qs, n, rs)
  PROVE  Prints(rs, m + n) = Prints(ps, m) \o Prints(qs, n)
<1> DEFINE T == {k \in 0..n : Prints(rs, m + k) = Prints(ps, m) \o Prints(qs, k)}
<1>1. PICK first : first = Prints(ps, m)
  OBVIOUS
<1>2. first \in Seq(Tape)
  BY <1>1, PrintsStep
<1>3. 0 \in T
  <2>1. Prints(rs, m) = Prints(ps, m)
    <3>1. SameUpTo(m, ps, rs)
      BY DEF GoesOnWith, SameUpTo
    <3> QED BY <3>1, PrintsSame
  <2>2. Prints(qs, 0) = <<>>
    BY PrintsStep
  <2>3. first \o <<>> = first
    BY <1>2, ConcatEmptySeq
  <2>4. m + 0 = m /\ 0 \in 0..n
    OBVIOUS
  <2> QED BY <1>1, <2>1, <2>2, <2>3, <2>4, Zenon
<1>4. ASSUME NEW k \in 1..n, k - 1 \in T PROVE k \in T
  <2>1. PICK b \in Nat : b = m + k
    OBVIOUS
  <2>2. k \in Nat /\ k # 0 /\ b # 0 /\ b - 1 = m + (k - 1)
    BY <2>1
  <2>3. Printable(qs, k)
    BY DEF Printable
  <2>4. Printable(rs, b)
    <3> SUFFICES ASSUME NEW i \in 1..b, IsPrint(rs[i]) PROVE TradePrint(rs[i]) \in Tape
      BY DEF Printable
    <3>1. CASE i \in 1..m
      BY <3>1 DEF GoesOnWith, Printable
    <3>2. CASE i \notin 1..m
      <4>1. PICK j \in 1..n : i = m + j
        <5>1. i - m \in 1..n /\ i = m + (i - m)
          BY <2>1, <3>2
        <5> QED BY <5>1
      <4>2. rs[i] = qs[j]
        BY <4>1 DEF GoesOnWith
      <4> QED BY <4>2 DEF Printable
    <3> QED BY <3>1, <3>2
  <2>5. rs[b] = qs[k]
    BY <2>1 DEF GoesOnWith
  <2>6. PICK second, now : second = Prints(qs, k - 1) /\ now = Prints(qs, k)
    OBVIOUS
  <2>7. /\ second \in Seq(Tape)
        /\ now = IF IsPrint(qs[k]) THEN Append(second, TradePrint(qs[k])) ELSE second
    BY <2>2, <2>3, <2>6, PrintsStep
  <2>8. Prints(rs, b) = IF IsPrint(rs[b]) THEN Append(Prints(rs, b - 1), TradePrint(rs[b]))
                        ELSE Prints(rs, b - 1)
    BY <2>2, <2>4, PrintsStep
  <2>9. Prints(rs, b - 1) = first \o second
    BY <1>1, <1>4, <2>2, <2>6
  <2>10. Prints(rs, b) = first \o now
    <3>1. CASE ~IsPrint(qs[k])
      BY <2>5, <2>7, <2>8, <2>9, <3>1
    <3>2. CASE IsPrint(qs[k])
      <4>1. PICK e : e = TradePrint(qs[k])
        OBVIOUS
      <4>2. e \in Tape
        BY <2>3, <2>2, <3>2, <4>1 DEF Printable
      <4>a. second \in Seq(Tape)
        BY <2>7
      <4>3. Append(first \o second, e) = first \o Append(second, e)
        <5>1. ComesLast(first, second, e)
          BY <1>2, <4>a, <4>2, AppendAfter
        <5> QED BY <5>1, Zenon DEF ComesLast
      <4> QED BY <2>5, <2>7, <2>8, <2>9, <3>2, <4>1, <4>3
    <3> QED BY <3>1, <3>2
  <2> QED BY <1>1, <2>1, <2>6, <2>10
<1>5. 0..n \subseteq T
  <2> HIDE DEF T
  <2> QED BY <1>3, <1>4, Inductive
<1> QED BY <1>5

-----------------------------------------------------------------------------
(* What a request does.                                                    *)

\* The two reports on a trade.
OwnReport(a, cl, id, f) ==
  FillReport(cl, id, f.quantity, f.price, a.ex.order_states[id])

OtherReport(a, f) ==
  FillReport(a.orderid_to_clordid_map[f.order_id], f.order_id, f.quantity, f.price,
             a.ex.order_states[f.order_id])

\* Each trade is reported on twice, one trade after another.
InPairs(a, cl, id, made, rs) ==
  /\ Len(rs) = 2 * Len(made) /\ DOMAIN rs = 1..(2 * Len(made))
  /\ \A i \in 1..Len(made) :
       rs[2 * i - 1] = OwnReport(a, cl, id, made[i]) /\ rs[2 * i] = OtherReport(a, made[i])
  /\ \A n \in DOMAIN rs : \E i \in 1..Len(made) : n = 2 * i - 1 \/ n = 2 * i

\* The reports on fills are so.
LEMMA FillReportsAre ==
  ASSUME NEW a, NEW cl, NEW id, NEW ids, NEW made \in Seq(FillsFrom(ids)),
         NEW rs, rs = FillReports(a, cl, id, made),
         NEW S, \A f \in FillsFrom(ids) : OwnReport(a, cl, id, f) \in S /\ OtherReport(a, f) \in S
  PROVE  rs \in Seq(S) /\ InPairs(a, cl, id, made, rs)
<1>1. PICK N \in Nat : N = Len(made)
  OBVIOUS
<1>2. PICK M \in Nat : M = 2 * N
  OBVIOUS
<1>3. /\ DOMAIN rs = 1..M /\ rs = [n \in DOMAIN rs |-> rs[n]]
      /\ \A n \in 1..M : rs[n] = IF n % 2 = 1 THEN OwnReport(a, cl, id, made[(n + 1) \div 2])
                                 ELSE OtherReport(a, made[(n + 1) \div 2])
  BY <1>1, <1>2, Zenon DEF FillReports, OwnReport, OtherReport
<1>4. \A i \in 1..N : made[i] \in FillsFrom(ids)
  BY <1>1
<1>5. ASSUME NEW n \in 1..M
      PROVE  rs[n] \in S /\ \E i \in 1..N : n = 2 * i - 1 \/ n = 2 * i
  <2>1. PICK k : k = (n + 1) \div 2
    OBVIOUS
  <2>2. k \in 1..N /\ (n = 2 * k - 1 \/ n = 2 * k)
    BY <1>2, <2>1
  <2>3. rs[n] = IF n % 2 = 1 THEN OwnReport(a, cl, id, made[k]) ELSE OtherReport(a, made[k])
    BY <1>3, <2>1, Zenon
  <2> QED BY <1>4, <2>2, <2>3
<1>6. rs \in Seq(S) /\ Len(rs) = M
  <2>1. rs = [n \in 1..M |-> rs[n]] /\ \A n \in 1..M : rs[n] \in S
    BY <1>3, <1>5
  <2> QED BY <2>1
<1>7. ASSUME NEW i \in 1..N
      PROVE  rs[2 * i - 1] = OwnReport(a, cl, id, made[i]) /\ rs[2 * i] = OtherReport(a, made[i])
  <2>1. PICK j \in 1..M, k \in 1..M : j = 2 * i - 1 /\ k = 2 * i
    <3>1. 2 * i - 1 \in 1..M /\ 2 * i \in 1..M
      BY <1>2
    <3> QED BY <3>1
  <2>2. (j + 1) \div 2 = i /\ j % 2 = 1 /\ (k + 1) \div 2 = i /\ k % 2 # 1
    BY <2>1
  <2>3. rs[j] = IF j % 2 = 1 THEN OwnReport(a, cl, id, made[(j + 1) \div 2])
                ELSE OtherReport(a, made[(j + 1) \div 2])
    BY <1>3, Zenon
  <2>4. rs[k] = IF k % 2 = 1 THEN OwnReport(a, cl, id, made[(k + 1) \div 2])
                ELSE OtherReport(a, made[(k + 1) \div 2])
    BY <1>3, Zenon
  <2>5. rs[j] = OwnReport(a, cl, id, made[i])
    BY <2>2, <2>3, Zenon
  <2>6. rs[k] = OtherReport(a, made[i])
    BY <2>2, <2>4, Zenon
  <2> QED BY <2>1, <2>5, <2>6
<1> QED BY <1>1, <1>2, <1>3, <1>5, <1>6, <1>7 DEF InPairs

\* The states of the orders before and after a request on order `id`: fills are of
\* orders on the other side, and what was asked for stays.
StatesFollow(old, new, id, made) ==
  /\ DOMAIN new = DOMAIN old \cup {id}
  /\ made \in Seq(FillsFrom(OrdersOn(old, new[id].symbol, Opposite(new[id].side))))
  /\ \A x \in DOMAIN old :
       SameTerms(new[x], old[x]) /\ (new[x] = old[x] \/ x \in Touched(id, made))

\* A new order has the next OrderId and is what its message asks for; a cancel is
\* of the order of the ClOrdID it names, and trades nothing.
Orders(a, m, id, answer) ==
  \/ /\ m.kind = "D" /\ id = a.next_order_id /\ answer.app.next_order_id = id + 1
     /\ SameTerms(answer.app.ex.order_states[id], m.order)
  \/ /\ m.kind = "F" /\ m.orig \in DOMAIN a.clordid_map /\ id = a.clordid_map[m.orig]
     /\ answer.app.next_order_id = a.next_order_id /\ answer.trades = <<>>

\* A request that is answered names its order; the first report is the answer.
Outcome(a, m, id, exec_type, answer) ==
  /\ AppOK(answer.app) /\ NamedMaps(a, answer.app, m.cl, id)
  /\ exec_type \in {"New", "Rejected", "Cancelled"}
  /\ StatesFollow(a.ex.order_states, answer.app.ex.order_states, id, answer.trades)
  /\ answer.reports =
       <<Answer(m.cl, id, exec_type, answer.app.ex.order_states[id])>>
         \o FillReports(answer.app, m.cl, id, answer.trades)
  /\ Orders(a, m, id, answer)

\* NewOrderSingle.
LEMMA NewOrderIs ==
  ASSUME NEW a, AppOK(a), NEW m, m.kind = "D", m.order \in Asks,
         NEW answer, answer = NewOrderSingle(a, risk_ctx, m.cl, m.order)
  PROVE  \E id, exec_type : Outcome(a, m, id, exec_type, answer)
<1>1. PICK id : id = a.next_order_id
  OBVIOUS
<1>2. PICK order : order = WithId(m.order, id)
  OBVIOUS
<1>3. PICK call : call = submit_order(a.ex, risk_ctx, order)
  OBVIOUS
<1>4. /\ id \in OrderId /\ IsExchange(a.ex, Registered) /\ DOMAIN a.ex.order_states = 1..(id - 1)
      /\ a.clordid_map \in [DOMAIN a.clordid_map -> 1..(id - 1)]
      /\ a.orderid_to_clordid_map \in [1..(id - 1) -> DOMAIN a.clordid_map]
  BY <1>1 DEF AppOK
<1>5. /\ order.order_id = id /\ IsOrder(order) /\ id \notin DOMAIN a.ex.order_states
      /\ order.symbol = m.order.symbol /\ order.side = m.order.side /\ order.price = m.order.price
  BY <1>2, <1>4 DEF WithId, Asks, IsOrder, OrderId
<1>6. CallKeeps(Registered, a.ex, call, id, {id}) /\ SubmitDone(a.ex, call, order)
  <2>1. CallKeeps(Registered, a.ex, call, order.order_id, {order.order_id})
        /\ SubmitDone(a.ex, call, order)
    BY <1>3, <1>4, <1>5, SubmitIs
  <2> QED BY <1>5, <2>1
<1>7. PICK names : names = Put(a.clordid_map, m.cl, id)
  OBVIOUS
<1>8. PICK back : back = Put(a.orderid_to_clordid_map, id, m.cl)
  OBVIOUS
<1>9. answer.app = [next_order_id |-> id + 1, clordid_map |-> names,
                    orderid_to_clordid_map |-> back, ex |-> call.ex]
  <2>1. a = [next_order_id |-> a.next_order_id, clordid_map |-> a.clordid_map,
             orderid_to_clordid_map |-> a.orderid_to_clordid_map, ex |-> a.ex]
    BY DEF AppOK
  <2>2. PICK named : named = Named(a, m.cl, id)
    OBVIOUS
  <2>3. named = [next_order_id |-> a.next_order_id, clordid_map |-> names,
                 orderid_to_clordid_map |-> back, ex |-> a.ex]
    BY <1>7, <1>8, <2>1, <2>2 DEF Named
  <2>4. answer.app = [named EXCEPT !.next_order_id = id + 1, !.ex = call.ex]
    BY <1>1, <1>2, <1>3, <2>2 DEF NewOrderSingle
  <2> QED BY <2>3, <2>4
<1>10. AppOK(answer.app)
  <2>1. names \in [DOMAIN names -> 1..id] /\ back \in [1..id -> DOMAIN names]
    <3>1. 1..id = 1..(id - 1) \cup {id}
      BY <1>4 DEF OrderId
    <3> QED BY <1>4, <1>7, <1>8, <3>1 DEF Put
  <2>2. id + 1 \in OrderId /\ (id + 1) - 1 = id
    BY <1>4 DEF OrderId
  <2>3. IsExchange(call.ex, Registered) /\ DOMAIN call.ex.order_states = 1..id
    BY <1>4, <1>6 DEF CallKeeps, OrderId
  <2>4. PICK b : b = answer.app
    OBVIOUS
  <2>5. /\ b.next_order_id = id + 1 /\ b.clordid_map = names
        /\ b.orderid_to_clordid_map = back /\ b.ex = call.ex
        /\ b = [next_order_id |-> b.next_order_id, clordid_map |-> b.clordid_map,
                orderid_to_clordid_map |-> b.orderid_to_clordid_map, ex |-> b.ex]
    BY <1>9, <2>4
  <2> QED BY <2>1, <2>2, <2>3, <2>4, <2>5 DEF AppOK
<1>11. PICK st : st = answer.app.ex.order_states[id]
  OBVIOUS
<1>12. PICK exec_type : exec_type = IF st.order_status = "Rejected" THEN "Rejected" ELSE "New"
  OBVIOUS
<1>13. /\ answer.trades = call.trades
       /\ answer.reports = <<Answer(m.cl, id, exec_type, st)>>
                             \o FillReports(answer.app, m.cl, id, answer.trades)
  <2>1. answer.app.ex = call.ex
    BY <1>9
  <2> QED BY <1>1, <1>2, <1>3, <1>11, <1>12, <2>1, Zenon DEF NewOrderSingle, Ack
<1>14. StatesFollow(a.ex.order_states, answer.app.ex.order_states, id, answer.trades)
       /\ SameTerms(st, m.order)
  BY <1>5, <1>6, <1>9, <1>11, <1>13 DEF StatesFollow, CallKeeps, SubmitDone, SameTerms
<1>15. NamedMaps(a, answer.app, m.cl, id) /\ answer.app.next_order_id = id + 1
  BY <1>7, <1>8, <1>9 DEF NamedMaps
<1>16. exec_type \in {"New", "Rejected", "Cancelled"}
  BY <1>12
<1>17. Orders(a, m, id, answer)
  BY <1>1, <1>11, <1>14, <1>15 DEF Orders
<1>18. Outcome(a, m, id, exec_type, answer)
  BY <1>10, <1>11, <1>13, <1>14, <1>15, <1>16, <1>17 DEF Outcome
<1> QED BY <1>18

\* OrderCancelRequest, for an order that was given a ClOrdID.
LEMMA CancelRequestIs ==
  ASSUME NEW a, AppOK(a), NEW m, m.kind = "F", m.orig \in DOMAIN a.clordid_map,
         NEW answer, answer = Amend(a, risk_ctx, a.clordid_map[m.orig], m)
  PROVE  answer = Unanswered(a) \/ \E id, exec_type : Outcome(a, m, id, exec_type, answer)
<1>1. PICK id : id = a.clordid_map[m.orig]
  OBVIOUS
<1>2. PICK next : next = a.next_order_id
  OBVIOUS
<1>3. /\ next \in OrderId /\ IsExchange(a.ex, Registered) /\ DOMAIN a.ex.order_states = 1..(next - 1)
      /\ a.clordid_map \in [DOMAIN a.clordid_map -> 1..(next - 1)]
      /\ a.orderid_to_clordid_map \in [1..(next - 1) -> DOMAIN a.clordid_map]
      /\ id \in 1..(next - 1)
  BY <1>1, <1>2 DEF AppOK
<1>4. CASE ~CanAmend(a.ex, id)
  BY <1>1, <1>4 DEF Amend
<1>5. CASE CanAmend(a.ex, id)
  <2>1. PICK ex : ex = cancel_order(a.ex, id)
    OBVIOUS
  <2>2. ex = Cancelled(a.ex, id)
    BY <1>5, <2>1 DEF cancel_order
  <2>3. /\ IsExchange(ex, Registered) /\ DOMAIN ex.order_states = DOMAIN a.ex.order_states
        /\ \A x \in DOMAIN a.ex.order_states \ {id} :
             ex.order_states[x] = a.ex.order_states[x]
        /\ ex.order_states[id] = [a.ex.order_states[id] EXCEPT !.order_status = "Cancelled"]
    <3>1. PICK old : old = a.ex
      OBVIOUS
    <3>2. id \in DOMAIN old.order_states /\ IsExchange(old, Registered) /\ ex = Cancelled(old, id)
      BY <1>3, <2>2, <3>1
    <3>3. /\ IsExchange(ex, Registered) /\ DOMAIN ex.order_states = DOMAIN old.order_states
          /\ \A x \in DOMAIN old.order_states \ {id} :
               ex.order_states[x] = old.order_states[x]
          /\ ex.order_states[id] = [old.order_states[id] EXCEPT !.order_status = "Cancelled"]
      BY <3>2, CancelledIs
    <3> QED BY <3>1, <3>3
  <2>4. PICK names : names = Put(a.clordid_map, m.cl, id)
    OBVIOUS
  <2>5. PICK back : back = Put(a.orderid_to_clordid_map, id, m.cl)
    OBVIOUS
  <2>6. PICK after : after = [Named(a, m.cl, id) EXCEPT !.ex = ex]
    OBVIOUS
  <2>7. after = [next_order_id |-> next, clordid_map |-> names,
                 orderid_to_clordid_map |-> back, ex |-> ex]
    <3>1. a = [next_order_id |-> a.next_order_id, clordid_map |-> a.clordid_map,
               orderid_to_clordid_map |-> a.orderid_to_clordid_map, ex |-> a.ex]
      BY DEF AppOK
    <3>2. PICK named : named = Named(a, m.cl, id)
      OBVIOUS
    <3>3. named = [next_order_id |-> next, clordid_map |-> names,
                   orderid_to_clordid_map |-> back, ex |-> a.ex]
      BY <1>2, <2>4, <2>5, <3>1, <3>2 DEF Named
    <3>4. after = [named EXCEPT !.ex = ex]
      BY <2>6, <3>2
    <3> QED BY <3>3, <3>4
  <2>8. PICK call : call = NoTrades(ex)
    OBVIOUS
  <2>9. call.ex = ex /\ call.trades = <<>>
    BY <2>8 DEF NoTrades
  <2>10. answer = [app |-> after,
                   reports |-> <<Answer(m.cl, id, "Cancelled", ex.order_states[id])>>
                                 \o FillReports(after, m.cl, id, <<>>),
                   trades |-> <<>>]
    <3>1. answer = [app |-> [Named(a, m.cl, id) EXCEPT !.ex = call.ex],
                    reports |-> <<Answer(m.cl, id, IF m.kind = "F" THEN "Cancelled" ELSE "Replace",
                                         call.ex.order_states[id])>>
                                  \o FillReports([Named(a, m.cl, id) EXCEPT !.ex = call.ex],
                                                 m.cl, id, call.trades),
                    trades |-> call.trades]
      BY <1>1, <1>5, <2>1, <2>8, Zenon DEF Amend
    <3> QED BY <2>6, <2>9, <3>1, Zenon
  <2>11. PICK now : now = answer.app
    OBVIOUS
  <2>12. /\ now = after /\ answer.trades = <<>>
         /\ answer.reports = <<Answer(m.cl, id, "Cancelled", ex.order_states[id])>>
                               \o FillReports(after, m.cl, id, <<>>)
    BY <2>10, <2>11
  <2>13. AppOK(now)
    <3>1. names \in [DOMAIN names -> 1..(next - 1)] /\ back \in [1..(next - 1) -> DOMAIN names]
      BY <1>3, <2>4, <2>5 DEF Put
    <3>2. /\ now.next_order_id = next /\ now.clordid_map = names
          /\ now.orderid_to_clordid_map = back /\ now.ex = ex
          /\ now = [next_order_id |-> now.next_order_id, clordid_map |-> now.clordid_map,
                    orderid_to_clordid_map |-> now.orderid_to_clordid_map, ex |-> now.ex]
      BY <2>7, <2>12
    <3> QED BY <1>3, <2>3, <3>1, <3>2 DEF AppOK
  <2>14. now.ex = ex /\ now.next_order_id = a.next_order_id
    BY <1>2, <2>7, <2>12
  <2>15. StatesFollow(a.ex.order_states, ex.order_states, id, answer.trades)
    <3>1. DOMAIN ex.order_states = DOMAIN a.ex.order_states \cup {id}
      BY <1>3, <2>3
    <3>2. ASSUME NEW x \in DOMAIN a.ex.order_states
          PROVE  /\ SameTerms(ex.order_states[x], a.ex.order_states[x])
                 /\ ex.order_states[x] = a.ex.order_states[x] \/ x \in Touched(id, answer.trades)
      <4>1. CASE x # id
        BY <2>3, <4>1 DEF SameTerms
      <4>2. CASE x = id
        <5>1. a.ex.order_states[id] \in OrderStates
          BY <1>3, <4>2 DEF IsExchange
        <5> QED BY <2>3, <4>2, <5>1 DEF SameTerms, Touched, OrderStates
      <4> QED BY <4>1, <4>2
    <3>3. answer.trades \in Seq(FillsFrom(OrdersOn(a.ex.order_states,
            ex.order_states[id].symbol, Opposite(ex.order_states[id].side))))
      BY <2>12
    <3> QED BY <3>1, <3>2, <3>3 DEF StatesFollow
  <2>16. NamedMaps(a, now, m.cl, id)
    BY <2>4, <2>5, <2>7, <2>12 DEF NamedMaps
  <2>17. Orders(a, m, id, answer)
    BY <1>1, <2>11, <2>12, <2>14 DEF Orders
  <2>18. PICK exec_type : exec_type = "Cancelled"
    OBVIOUS
  <2>19. exec_type \in {"New", "Rejected", "Cancelled"}
    BY <2>18
  <2>20. answer.reports = <<Answer(m.cl, id, exec_type, now.ex.order_states[id])>>
                            \o FillReports(now, m.cl, id, answer.trades)
    BY <2>12, <2>14, <2>18, Zenon
  <2>21. Outcome(a, m, id, exec_type, answer)
    BY <2>11, <2>13, <2>14, <2>15, <2>16, <2>17, <2>19, <2>20 DEF Outcome
  <2> QED BY <2>21
<1> QED BY <1>4, <1>5

\* So a request gets no answer and changes nothing, or has an outcome.
LEMMA HandledIs ==
  ASSUME NEW a, AppOK(a), NEW m, RequestOK(m), NEW answer, answer = Handled(a, risk_ctx, m)
  PROVE  answer = Unanswered(a) \/ \E id, exec_type : Outcome(a, m, id, exec_type, answer)
<1>1. CASE m.kind = "D" /\ m.order \in Asks
  <2>1. answer = NewOrderSingle(a, risk_ctx, m.cl, m.order)
    BY <1>1 DEF Handled
  <2> QED BY <1>1, <2>1, NewOrderIs
<1>2. CASE m.kind = "F"
  <2>1. CASE m.orig \in DOMAIN a.clordid_map
    <3>1. answer = Amend(a, risk_ctx, a.clordid_map[m.orig], m)
      BY <1>2, <2>1 DEF Handled
    <3> QED BY <1>2, <2>1, <3>1, CancelRequestIs
  <2>2. CASE m.orig \notin DOMAIN a.clordid_map
    BY <1>2, <2>2 DEF Handled
  <2> QED BY <2>1, <2>2
<1> QED BY <1>1, <1>2 DEF RequestOK

-----------------------------------------------------------------------------
(* The types of what a request makes.                                      *)

\* The trades a request makes, as the tape has them.
TapeOf(made) == [i \in DOMAIN made |-> [shares |-> made[i].quantity, px |-> made[i].price]]

\* They are prints of the tape.
LEMMA TapeOfOK ==
  ASSUME NEW ids, NEW made \in Seq(FillsFrom(ids))
  PROVE  TapeOf(made) \in Seq(Tape) /\ Len(TapeOf(made)) = Len(made)
<1>1. PICK N \in Nat : N = Len(made)
  OBVIOUS
<1>2. PICK t : t = TapeOf(made)
  OBVIOUS
<1>3. t = [i \in 1..N |-> t[i]] /\ \A i \in 1..N : t[i] \in Tape
  <2>1. DOMAIN made = 1..N /\ \A i \in 1..N : made[i] \in FillsFrom(ids)
    BY <1>1
  <2>2. t = [i \in 1..N |-> [shares |-> made[i].quantity, px |-> made[i].price]]
    BY <1>2, <2>1 DEF TapeOf
  <2>3. ASSUME NEW i \in 1..N PROVE [shares |-> made[i].quantity, px |-> made[i].price] \in Tape
    <3>1. PICK f : f = made[i]
      OBVIOUS
    <3>2. f \in FillsFrom(ids)
      BY <2>1, <3>1
    <3>3. f.quantity \in Shares /\ f.price \in Prices
      BY <3>2 DEF FillsFrom
    <3> QED BY <3>1, <3>3 DEF Tape
  <2> QED BY <2>2, <2>3
<1>4. t \in Seq(Tape) /\ Len(t) = N
  BY <1>3
<1> QED BY <1>1, <1>2, <1>4

\* What reports say of an order.
LEMMA ViewOK ==
  ASSUME NEW st \in OrderStates
  PROVE  View(st) \in Views /\ SameTerms(View(st), st)
BY DEF View, Views, OrderStates, remaining_quantity, SameTerms

\* Reports on orders with these names.
LEMMA ReportOK ==
  ASSUME NEW names, NEW cl \in names, NEW id \in OrderId, NEW st \in OrderStates
  PROVE  /\ \A exec_type \in {"New", "Rejected", "Cancelled"} :
              Answer(cl, id, exec_type, st) \in ReportsOn(names)
         /\ \A shares \in Shares, px \in Prices :
              FillReport(cl, id, shares, px, st) \in ReportsOn(names)
<1>1. View(st) \in Views
  BY ViewOK
<1>2. PICK v \in Views : v = View(st)
  BY <1>1
<1>3. ASSUME NEW exec_type \in {"New", "Rejected", "Cancelled"}
      PROVE  Answer(cl, id, exec_type, st) \in ReportsOn(names)
  <2>1. Answer(cl, id, exec_type, st)
          = [order_id |-> id, cl |-> cl, exec_type |-> exec_type, shares |-> 0, px |-> 0,
             view |-> v]
    BY <1>2 DEF Answer, ExecutionReport
  <2> QED BY <2>1 DEF ReportsOn
<1>4. ASSUME NEW shares \in Shares, NEW px \in Prices
      PROVE  FillReport(cl, id, shares, px, st) \in ReportsOn(names)
  <2>1. PICK exec_type : exec_type = IF st.order_status = "Filled" THEN "Fill" ELSE "PartialFill"
    OBVIOUS
  <2>2. exec_type \in {"Fill", "PartialFill"}
    BY <2>1
  <2>3. FillReport(cl, id, shares, px, st)
          = [order_id |-> id, cl |-> cl, exec_type |-> exec_type, shares |-> shares,
             px |-> px, view |-> v]
    BY <1>2, <2>1 DEF FillReport, ExecutionReport
  <2> QED BY <2>2, <2>3 DEF ReportsOn
<1> QED BY <1>3, <1>4

\* The first of these reports is the answer, the others are on the trades.
Reported(now, cl, id, exec_type, made, reports, on_fills) ==
  LET names == DOMAIN now.clordid_map
      first == Answer(cl, id, exec_type, now.ex.order_states[id])
  IN  /\ reports = <<first>> \o on_fills /\ first \in ReportsOn(names)
      /\ on_fills \in Seq(ReportsOn(names)) /\ InPairs(now, cl, id, made, on_fills)
      /\ reports \in Seq(ReportsOn(names))

\* That is what an answered request reports.
LEMMA OutcomeReports ==
  ASSUME NEW a, AppOK(a), NEW m, NEW id, NEW exec_type, NEW answer,
         Outcome(a, m, id, exec_type, answer)
  PROVE  /\ \E rs : Reported(answer.app, m.cl, id, exec_type, answer.trades, answer.reports, rs)
         /\ answer.trades \in Seq(FillsFrom(DOMAIN a.ex.order_states))
<1>1. PICK now : now = answer.app
  OBVIOUS
<1>2. PICK names : names = DOMAIN now.clordid_map
  OBVIOUS
<1>3. /\ AppOK(now) /\ NamedMaps(a, now, m.cl, id)
      /\ exec_type \in {"New", "Rejected", "Cancelled"}
      /\ StatesFollow(a.ex.order_states, now.ex.order_states, id, answer.trades)
      /\ answer.reports = <<Answer(m.cl, id, exec_type, now.ex.order_states[id])>>
                            \o FillReports(now, m.cl, id, answer.trades)
  BY <1>1 DEF Outcome
<1>4. /\ m.cl \in names /\ id \in DOMAIN now.ex.order_states
      /\ DOMAIN a.ex.order_states \subseteq DOMAIN now.ex.order_states
  BY <1>2, <1>3 DEF NamedMaps, Put, StatesFollow
<1>5. /\ \A x \in DOMAIN now.ex.order_states :
           /\ x \in OrderId /\ now.ex.order_states[x] \in OrderStates
           /\ now.orderid_to_clordid_map[x] \in names
  BY <1>2, <1>3 DEF AppOK, IsExchange
<1>6. PICK ids : ids = DOMAIN a.ex.order_states
  OBVIOUS
<1>7. PICK made : made = answer.trades
  OBVIOUS
<1>8. made \in Seq(FillsFrom(ids))
  <2>1. PICK some : some = OrdersOn(a.ex.order_states, now.ex.order_states[id].symbol,
                                    Opposite(now.ex.order_states[id].side))
    OBVIOUS
  <2>2. some \subseteq ids /\ made \in Seq(FillsFrom(some))
    BY <1>3, <1>6, <1>7, <2>1 DEF StatesFollow, OrdersOn
  <2> QED BY <2>2, MoreFills
<1>9. PICK S : S = ReportsOn(names)
  OBVIOUS
<1>10. ASSUME NEW f \in FillsFrom(ids)
       PROVE  OwnReport(now, m.cl, id, f) \in S /\ OtherReport(now, f) \in S
  <2>1. f.quantity \in Shares /\ f.price \in Prices /\ f.order_id \in DOMAIN now.ex.order_states
    BY <1>4, <1>6 DEF FillsFrom
  <2>2. ASSUME NEW x \in DOMAIN now.ex.order_states, NEW cl \in names
        PROVE  FillReport(cl, x, f.quantity, f.price, now.ex.order_states[x]) \in S
    <3>1. PICK st : st = now.ex.order_states[x]
      OBVIOUS
    <3>2. st \in OrderStates /\ x \in OrderId
      BY <1>5, <3>1
    <3>3. \A shares \in Shares, px \in Prices : FillReport(cl, x, shares, px, st) \in ReportsOn(names)
      BY <3>2, ReportOK
    <3> QED BY <1>9, <2>1, <3>1, <3>3
  <2> QED BY <1>4, <1>5, <2>1, <2>2 DEF OwnReport, OtherReport
<1>11. PICK rs : rs = FillReports(now, m.cl, id, made)
  OBVIOUS
<1>12. rs \in Seq(S) /\ InPairs(now, m.cl, id, made, rs)
  BY <1>8, <1>10, <1>11, FillReportsAre
<1>13. PICK first : first = Answer(m.cl, id, exec_type, now.ex.order_states[id])
  OBVIOUS
<1>14. first \in S
  <2>1. PICK st : st = now.ex.order_states[id]
    OBVIOUS
  <2>2. st \in OrderStates /\ id \in OrderId
    BY <1>4, <1>5, <2>1
  <2>3. \A e \in {"New", "Rejected", "Cancelled"} : Answer(m.cl, id, e, st) \in ReportsOn(names)
    BY <1>4, <2>2, ReportOK
  <2> QED BY <1>3, <1>9, <1>13, <2>1, <2>3
<1>15. answer.reports = <<first>> \o rs
  BY <1>3, <1>7, <1>11, <1>13
<1>16. <<first>> \in Seq(S)
  BY <1>14
<1>17. answer.reports \in Seq(S)
  <2>1. <<first>> \o rs \in Seq(S)
    BY <1>12, <1>16, ConcatProperties
  <2> QED BY <1>15, <2>1
<1>18. Reported(now, m.cl, id, exec_type, made, answer.reports, rs)
  BY <1>2, <1>9, <1>12, <1>13, <1>14, <1>15, <1>17, Zenon DEF Reported
<1> QED BY <1>1, <1>6, <1>7, <1>8, <1>18

\* Reports on orders with some names are reports on orders with more.
LEMMA MoreNames ==
  ASSUME NEW names, NEW more, names \subseteq more, NEW rs \in Seq(ReportsOn(names))
  PROVE  rs \in Seq(ReportsOn(more))
<1>1. ReportsOn(names) \subseteq ReportsOn(more)
  BY DEF ReportsOn
<1>2. \A i \in 1..Len(rs) : rs[i] \in ReportsOn(more)
  BY <1>1
<1> QED BY <1>2

\* Whether or not it is answered, a request keeps the types.
LEMMA HandledOK ==
  ASSUME NEW a, AppOK(a), NEW m, RequestOK(m), NEW answer, answer = Handled(a, risk_ctx, m)
  PROVE  /\ AppOK(answer.app) /\ DOMAIN a.clordid_map \subseteq DOMAIN answer.app.clordid_map
         /\ answer.reports \in Seq(ReportsOn(DOMAIN answer.app.clordid_map))
         /\ TapeOf(answer.trades) \in Seq(Tape)
         /\ a.next_order_id <= answer.app.next_order_id
<1>1. CASE answer = Unanswered(a)
  <2>1. answer.app = a /\ answer.reports = <<>> /\ answer.trades = <<>>
    BY <1>1 DEF Unanswered
  <2>2. answer.trades \in Seq(FillsFrom({}))
    BY <2>1
  <2>3. TapeOf(answer.trades) \in Seq(Tape)
    BY <2>2, TapeOfOK
  <2>4. a.next_order_id <= a.next_order_id
    BY DEF AppOK, OrderId
  <2> QED BY <2>1, <2>3, <2>4
<1>2. ASSUME NEW id, NEW exec_type, Outcome(a, m, id, exec_type, answer)
      PROVE  /\ AppOK(answer.app) /\ DOMAIN a.clordid_map \subseteq DOMAIN answer.app.clordid_map
             /\ answer.reports \in Seq(ReportsOn(DOMAIN answer.app.clordid_map))
             /\ TapeOf(answer.trades) \in Seq(Tape)
             /\ a.next_order_id <= answer.app.next_order_id
  <2>1. /\ \E rs : Reported(answer.app, m.cl, id, exec_type, answer.trades, answer.reports, rs)
        /\ answer.trades \in Seq(FillsFrom(DOMAIN a.ex.order_states))
    BY <1>2, OutcomeReports
  <2>2. answer.reports \in Seq(ReportsOn(DOMAIN answer.app.clordid_map))
    BY <2>1 DEF Reported
  <2>3. TapeOf(answer.trades) \in Seq(Tape)
    BY <2>1, TapeOfOK
  <2>4. a.next_order_id <= answer.app.next_order_id
    BY <1>2 DEF Outcome, Orders, AppOK, OrderId
  <2> QED BY <1>2, <2>2, <2>3, <2>4 DEF Outcome, NamedMaps, Put
<1>3. answer = Unanswered(a) \/ \E id, exec_type : Outcome(a, m, id, exec_type, answer)
  BY HandledIs
<1> QED BY <1>1, <1>2, <1>3

-----------------------------------------------------------------------------
(* The types.                                                              *)

RequestsOK(q) == q \in Seq(Range(q)) /\ \A i \in DOMAIN q : RequestOK(q[i])

\* A request joins those on their way.
LEMMA RequestsGrow ==
  ASSUME NEW q, RequestsOK(q), NEW m, RequestOK(m)
  PROVE  RequestsOK(Append(q, m))
<1>1. PICK longer : longer = Append(q, m)
  OBVIOUS
<1>2. q \in Seq(Range(q)) /\ \A i \in DOMAIN q : RequestOK(q[i])
  BY DEF RequestsOK
<1>3. /\ longer \in Seq(Range(longer))
      /\ Len(q) \in Nat /\ Len(longer) = Len(q) + 1
  BY <1>1, <1>2, AppendIsSequence
<1>4. /\ DOMAIN q = 1..Len(q) /\ DOMAIN longer = 1..(Len(q) + 1)
      /\ longer[Len(q) + 1] = m /\ \A i \in DOMAIN q : longer[i] = q[i]
  <2>1. q \in Seq(Range(q) \cup {m}) /\ m \in Range(q) \cup {m}
    BY <1>2
  <2> QED BY <1>1, <1>3, <2>1, AppendProperties
<1>5. ASSUME NEW i \in DOMAIN longer PROVE RequestOK(longer[i])
  <2>1. CASE i \in DOMAIN q
    BY <1>2, <1>4, <2>1
  <2>2. CASE i \notin DOMAIN q
    <3>1. i = Len(q) + 1
      BY <1>3, <1>4, <2>2
    <3> QED BY <1>4, <3>1
  <2> QED BY <2>1, <2>2
<1>6. RequestsOK(longer)
  BY <1>3, <1>5 DEF RequestsOK
<1> QED BY <1>1, <1>6

\* The first of them leaves.
LEMMA RequestsShrink ==
  ASSUME NEW q, RequestsOK(q), q # <<>>
  PROVE  RequestsOK(Tail(q)) /\ RequestOK(Head(q))
<1>1. PICK shorter : shorter = Tail(q)
  OBVIOUS
<1>2. q \in Seq(Range(q)) /\ \A i \in DOMAIN q : RequestOK(q[i])
  BY DEF RequestsOK
<1>3. /\ shorter \in Seq(Range(shorter))
      /\ Len(q) \in Nat \ {0} /\ DOMAIN q = 1..Len(q)
      /\ DOMAIN shorter = 1..(Len(q) - 1)
      /\ \A i \in DOMAIN shorter : shorter[i] = q[i + 1]
      /\ Head(q) = q[1]
  BY <1>1, <1>2, TailIsSequence
<1>4. ASSUME NEW i \in DOMAIN shorter PROVE RequestOK(shorter[i])
  <2>1. i + 1 \in DOMAIN q /\ shorter[i] = q[i + 1]
    BY <1>3
  <2> QED BY <1>2, <2>1
<1>5. RequestsOK(shorter)
  BY <1>3, <1>4 DEF RequestsOK
<1> QED BY <1>1, <1>2, <1>3, <1>5

\* Client d and its session stay as they are.
ClientSame(d) ==
  /\ to_exchange'[d] = to_exchange[d] /\ to_client'[d] = to_client[d]
  /\ orders'[d] = orders[d] /\ trades'[d] = trades[d]
  /\ unwritten'[d] = unwritten[d] /\ joined'[d] = joined[d]
  /\ d \in active_sessions' <=> d \in active_sessions

\* Such a client is still of its type when the acceptor does nothing.
LEMMA ClientStays ==
  ASSUME NEW d, ClientOK(d), ClientSame(d), app' = app, executed' = executed
  PROVE  ClientOK(d)'
BY DEF ClientOK, ClientSame

\* What TypeOK says that is not of one client alone.
Fields ==
  /\ AppOK(app) /\ active_sessions \subseteq Clients /\ executed \in Seq(Tape)
  /\ DOMAIN to_exchange = Clients /\ DOMAIN to_client = Clients
  /\ DOMAIN orders = Clients /\ DOMAIN trades = Clients
  /\ DOMAIN unwritten = Clients /\ DOMAIN joined = Clients
  /\ bg_order_seq \in [Clients -> Nat \ {0}] /\ user_order_seq \in [Clients -> Nat \ {0}]
  /\ typed \in [users : Nat, cancels : Nat, starts : [Clients -> Nat]]

\* TypeOK is what Fields leaves out, of each client, with Fields.
LEMMA TypeIs == TypeOK <=> Fields /\ \A c \in Clients : ClientOK(c)
BY DEF TypeOK, Fields

\* A started client.
LEMMA StartType ==
  ASSUME TypeOK, NEW c \in Clients, Start(c)
  PROVE  TypeOK'
<1>1. Fields /\ \A d \in Clients : ClientOK(d)
  BY TypeIs
<1>2. app.next_order_id \in OrderId /\ Len(executed) \in Nat
  BY <1>1 DEF Fields, AppOK
<1>3. /\ app' = app /\ executed' = executed /\ UNCHANGED <<to_exchange, to_client, unwritten>>
      /\ orders' = [orders EXCEPT ![c] = <<>>] /\ trades' = [trades EXCEPT ![c] = <<>>]
      /\ joined' = [joined EXCEPT ![c] = [order |-> app.next_order_id,
                                          trade |-> Len(executed) + 1]]
      /\ active_sessions' = active_sessions \cup {c}
      /\ bg_order_seq' = [bg_order_seq EXCEPT ![c] = 1]
      /\ user_order_seq' = [user_order_seq EXCEPT ![c] = 1]
  BY DEF Start
<1>4. typed' \in [users : Nat, cancels : Nat, starts : [Clients -> Nat]]
  <2>1. PICK starts : starts = [typed.starts EXCEPT ![c] = @ + 1]
    OBVIOUS
  <2>2. starts \in [Clients -> Nat]
    BY <1>1, <2>1 DEF Fields
  <2>3. typed' = [typed EXCEPT !.starts = starts]
    BY <2>1 DEF Start
  <2> QED BY <1>1, <2>2, <2>3 DEF Fields
<1>5. Fields'
  BY <1>1, <1>3, <1>4 DEF Fields
<1>6. ASSUME NEW d \in Clients PROVE ClientOK(d)'
  <2>1. CASE d # c
    <3>1. ClientSame(d)
      BY <1>1, <1>3, <2>1 DEF ClientSame, Fields
    <3> QED BY <1>1, <1>3, <3>1, ClientStays
  <2>2. CASE d = c
    <3>1. /\ orders'[c] = <<>> /\ trades'[c] = <<>> /\ c \in active_sessions'
          /\ joined'[c] = [order |-> app.next_order_id, trade |-> Len(executed) + 1]
      BY <1>1, <1>3 DEF Fields
    <3>2. ClientOK(c)
      BY <1>1
    <3>3. <<>> \in [DOMAIN <<>> -> Entries] /\ <<>> \in Seq(Tape)
      OBVIOUS
    <3> QED BY <1>2, <1>3, <2>2, <3>1, <3>2, <3>3 DEF ClientOK
  <2> QED BY <2>1, <2>2
<1> QED BY <1>5, <1>6 DEF TypeOK, Fields

\* A client that quits.
LEMMA QuitType ==
  ASSUME TypeOK, NEW c \in Clients, Quit(c)
  PROVE  TypeOK'
<1>1. Fields /\ \A d \in Clients : ClientOK(d)
  BY TypeIs
<1>2. /\ UNCHANGED <<app, executed, to_exchange, orders, trades, unwritten, counters>>
      /\ active_sessions' = active_sessions \ {c}
      /\ to_client' = [to_client EXCEPT ![c] = <<>>]
  BY DEF Quit
<1>3. Fields'
  BY <1>1, <1>2 DEF Fields, counters
<1>4. ASSUME NEW d \in Clients PROVE ClientOK(d)'
  <2>1. CASE d # c
    <3>1. ClientSame(d)
      BY <1>1, <1>2, <2>1 DEF ClientSame, Fields, counters
    <3> QED BY <1>1, <1>2, <3>1, ClientStays
  <2>2. CASE d = c
    <3>1. to_client'[c] = <<>>
      BY <1>1, <1>2 DEF Fields
    <3>2. ClientOK(c)
      BY <1>1
    <3>3. <<>> \in Seq(ReportsOn(DOMAIN app.clordid_map))
      OBVIOUS
    <3> QED BY <1>2, <2>2, <3>1, <3>2, <3>3 DEF ClientOK, counters
  <2> QED BY <2>1, <2>2
<1> QED BY <1>3, <1>4 DEF TypeOK, Fields

\* A request is sent; what else changes is the sender's.
SentBy(c, m) ==
  /\ Send(c, m) /\ UNCHANGED <<acceptor, to_client, orders, trades, joined>>
  /\ RequestOK(m)
  /\ \/ unwritten' = unwritten
     \/ /\ m.kind = "D" /\ m.order \in Asks
        /\ unwritten' = [unwritten EXCEPT ![c] = <<m.cl, m.order>>]

\* The types after a request is sent.
LEMMA SentType ==
  ASSUME TypeOK, NEW c \in Clients, NEW m, SentBy(c, m),
         bg_order_seq' \in [Clients -> Nat \ {0}], user_order_seq' \in [Clients -> Nat \ {0}],
         typed' \in [users : Nat, cancels : Nat, starts : [Clients -> Nat]]
  PROVE  TypeOK'
<1>1. Fields /\ \A d \in Clients : ClientOK(d)
  BY TypeIs
<1>2. /\ UNCHANGED <<app, active_sessions, executed, to_client, orders, trades, joined>>
      /\ to_exchange' = [to_exchange EXCEPT ![c] = Append(@, m)] /\ RequestOK(m)
      /\ \/ unwritten' = unwritten
         \/ /\ m.order \in Asks
            /\ unwritten' = [unwritten EXCEPT ![c] = <<m.cl, m.order>>]
  BY DEF SentBy, Send, acceptor
<1>3. Fields'
  BY <1>1, <1>2 DEF Fields
<1>4. ASSUME NEW d \in Clients PROVE ClientOK(d)'
  <2>1. CASE d # c
    <3>1. ClientSame(d)
      BY <1>1, <1>2, <2>1 DEF ClientSame, Fields
    <3> QED BY <1>1, <1>2, <3>1, ClientStays
  <2>2. CASE d = c
    <3>1. PICK q : q = to_exchange[c]
      OBVIOUS
    <3>2. PICK longer : longer = Append(q, m)
      OBVIOUS
    <3>3. ClientOK(c) /\ RequestsOK(q)
      BY <1>1, <3>1 DEF ClientOK, RequestsOK
    <3>4. RequestsOK(longer)
      BY <1>2, <3>2, <3>3, RequestsGrow
    <3>5. to_exchange'[c] = longer
      BY <1>1, <1>2, <3>1, <3>2 DEF Fields
    <3>6. PICK pending : pending = unwritten'[c]
      OBVIOUS
    <3>7. pending # <<>> => pending = <<pending[1], pending[2]>> /\ pending[2] \in Asks
      <4>1. CASE unwritten' = unwritten
        BY <3>3, <3>6, <4>1 DEF ClientOK
      <4>2. CASE m.order \in Asks /\ unwritten' = [unwritten EXCEPT ![c] = <<m.cl, m.order>>]
        <5>1. pending = <<m.cl, m.order>>
          BY <1>1, <3>6, <4>2 DEF Fields
        <5> QED BY <4>2, <5>1
      <4> QED BY <1>2, <4>1, <4>2
    <3>8. /\ to_exchange'[c] \in Seq(Range(to_exchange'[c]))
          /\ \A i \in DOMAIN to_exchange'[c] : RequestOK(to_exchange'[c][i])
      BY <3>4, <3>5 DEF RequestsOK
    <3> QED BY <1>2, <2>2, <3>3, <3>6, <3>7, <3>8 DEF ClientOK
  <2> QED BY <2>1, <2>2
<1> QED BY <1>3, <1>4 DEF TypeOK, Fields

\* Orders and cancels are sent.
LEMMA SubmitType ==
  ASSUME TypeOK, NEW c \in Clients,
         submit_bg_order(c) \/ submit_user_order(c) \/ RequestCancel(c)
  PROVE  TypeOK'
<1>1. Fields /\ \A d \in Clients : ClientOK(d)
  BY TypeIs
<1>2. CASE submit_bg_order(c)
  <2>1. PICK seq : seq = bg_order_seq[c]
    OBVIOUS
  <2>2. PICK order : order = BgOrders[seq]
    OBVIOUS
  <2>3. PICK m : m = [kind |-> "D", cl |-> BgId(seq), order |-> order]
    OBVIOUS
  <2>4. /\ Send(c, m) /\ seq <= Len(BgOrders)
        /\ bg_order_seq' = [bg_order_seq EXCEPT ![c] = seq + 1]
        /\ unwritten' = [unwritten EXCEPT ![c] = <<BgId(seq), order>>]
        /\ UNCHANGED <<acceptor, to_client, orders, trades, user_order_seq, typed, joined>>
    BY <1>2, <2>1, <2>2, <2>3 DEF submit_bg_order, Ask
  <2>5. seq \in Nat \ {0} /\ BgOrders \in Seq(Asks)
    BY <1>1, <2>1, ClientBgOrdersAssumption DEF Fields
  <2>6. order \in Asks
    <3>1. \A i \in 1..Len(BgOrders) : BgOrders[i] \in Asks
      BY <2>5
    <3>2. seq \in 1..Len(BgOrders)
      BY <2>4, <2>5
    <3> QED BY <2>2, <3>1, <3>2
  <2>7. m.kind = "D" /\ m.order = order /\ m.cl = BgId(seq) /\ RequestOK(m)
    BY <2>3, <2>6 DEF RequestOK
  <2>8. SentBy(c, m)
    BY <2>4, <2>6, <2>7 DEF SentBy
  <2>9. /\ bg_order_seq' \in [Clients -> Nat \ {0}] /\ user_order_seq' \in [Clients -> Nat \ {0}]
        /\ typed' \in [users : Nat, cancels : Nat, starts : [Clients -> Nat]]
    BY <1>1, <2>4, <2>5 DEF Fields
  <2> QED BY <2>8, <2>9, SentType
<1>3. CASE submit_user_order(c)
  <2>1. PICK order \in Typable :
          Send(c, [kind |-> "D", cl |-> UserId(c, user_order_seq[c]), order |-> order])
    BY <1>3 DEF submit_user_order, Ask
  <2>2. PICK m : m = [kind |-> "D", cl |-> UserId(c, user_order_seq[c]), order |-> order]
    OBVIOUS
  <2>3. order \in Asks
    BY <2>1, ClientQuantitiesAssumption DEF Typable, Asks
  <2>4. RequestOK(m)
    BY <2>2, <2>3 DEF RequestOK
  <2>5. /\ user_order_seq' = [user_order_seq EXCEPT ![c] = @ + 1]
        /\ typed' = [typed EXCEPT !.users = @ + 1]
        /\ UNCHANGED <<acceptor, to_client, orders, trades, unwritten, bg_order_seq, joined>>
    BY <1>3 DEF submit_user_order
  <2>6. SentBy(c, m)
    BY <2>1, <2>2, <2>4, <2>5 DEF SentBy
  <2>7. /\ bg_order_seq' \in [Clients -> Nat \ {0}] /\ user_order_seq' \in [Clients -> Nat \ {0}]
        /\ typed' \in [users : Nat, cancels : Nat, starts : [Clients -> Nat]]
    <3>1. typed \in [users : Nat, cancels : Nat, starts : [Clients -> Nat]]
      BY <1>1 DEF Fields
    <3>2. typed' = [typed EXCEPT !.users = @ + 1]
      BY <2>5
    <3>3. typed' \in [users : Nat, cancels : Nat, starts : [Clients -> Nat]]
      BY <3>1, <3>2
    <3>4. user_order_seq \in [Clients -> Nat \ {0}] /\ bg_order_seq \in [Clients -> Nat \ {0}]
      BY <1>1 DEF Fields
    <3>5. user_order_seq' = [user_order_seq EXCEPT ![c] = @ + 1] /\ bg_order_seq' = bg_order_seq
      BY <2>5
    <3>6. user_order_seq' \in [Clients -> Nat \ {0}]
      BY <3>4, <3>5
    <3> QED BY <3>3, <3>4, <3>5, <3>6
  <2> QED BY <2>6, <2>7, SentType
<1>4. CASE RequestCancel(c)
  <2>1. PICK cl \in DOMAIN orders[c] :
          Send(c, [kind |-> "F", cl |-> CancelId(cl), orig |-> cl])
    BY <1>4 DEF RequestCancel
  <2>2. PICK m : m = [kind |-> "F", cl |-> CancelId(cl), orig |-> cl]
    OBVIOUS
  <2>3. RequestOK(m)
    BY <2>2 DEF RequestOK
  <2>4. /\ typed' = [typed EXCEPT !.cancels = @ + 1]
        /\ UNCHANGED <<acceptor, to_client, orders, trades, unwritten, bg_order_seq,
                       user_order_seq, joined>>
    BY <1>4 DEF RequestCancel
  <2>5. SentBy(c, m)
    BY <2>1, <2>2, <2>3, <2>4 DEF SentBy
  <2>6. /\ bg_order_seq' \in [Clients -> Nat \ {0}] /\ user_order_seq' \in [Clients -> Nat \ {0}]
        /\ typed' \in [users : Nat, cancels : Nat, starts : [Clients -> Nat]]
    <3>1. typed \in [users : Nat, cancels : Nat, starts : [Clients -> Nat]]
      BY <1>1 DEF Fields
    <3>2. typed' = [typed EXCEPT !.cancels = @ + 1]
      BY <2>4
    <3>3. typed' \in [users : Nat, cancels : Nat, starts : [Clients -> Nat]]
      BY <3>1, <3>2
    <3> QED BY <1>1, <2>4, <3>3 DEF Fields
  <2> QED BY <2>5, <2>6, SentType
<1> QED BY <1>2, <1>3, <1>4

\* One more entry, or another in the place of one.
LEMMA PutEntry ==
  ASSUME NEW entries, entries \in [DOMAIN entries -> Entries], NEW cl, NEW e \in Entries,
         NEW after, after = Put(entries, cl, e)
  PROVE  after \in [DOMAIN after -> Entries]
BY DEF Put

\* The entry of an order sent is stored.
LEMMA StoreType ==
  ASSUME TypeOK, NEW c \in Clients, StorePending(c)
  PROVE  TypeOK'
<1>1. Fields /\ \A d \in Clients : ClientOK(d)
  BY TypeIs
<1>2. PICK o : o = unwritten[c][2]
  OBVIOUS
<1>3. PICK entry : entry = OrderEntry(o.symbol, o.side, o.price, o.quantity, "Pending")
  OBVIOUS
<1>4. PICK cl : cl = unwritten[c][1]
  OBVIOUS
<1>5. PICK stored : stored = Put(orders[c], cl, entry)
  OBVIOUS
<1>6. /\ UNCHANGED <<acceptor, to_exchange, to_client, trades, counters>> /\ unwritten[c] # <<>>
      /\ orders' = [orders EXCEPT ![c] = Put(@, cl, entry)]
      /\ unwritten' = [unwritten EXCEPT ![c] = <<>>]
  BY <1>2, <1>3, <1>4, Zenon DEF StorePending
<1>7. ClientOK(c) /\ orders'[c] = stored /\ unwritten'[c] = <<>>
  BY <1>1, <1>5, <1>6 DEF Fields
<1>8. entry \in Entries
  <2>1. o \in Asks
    BY <1>2, <1>6, <1>7 DEF ClientOK
  <2> QED BY <1>3, <2>1 DEF OrderEntry, Entries, Asks, ShownStatus
<1>9. stored \in [DOMAIN stored -> Entries]
  <2>1. PICK entries : entries = orders[c]
    OBVIOUS
  <2>2. entries \in [DOMAIN entries -> Entries] /\ stored = Put(entries, cl, entry)
    BY <1>5, <1>7, <2>1 DEF ClientOK
  <2> QED BY <1>8, <2>2, PutEntry
<1>10. Fields'
  BY <1>1, <1>6 DEF Fields, acceptor, counters
<1>11. ASSUME NEW d \in Clients PROVE ClientOK(d)'
  <2>1. CASE d # c
    <3>1. ClientSame(d) /\ app' = app /\ executed' = executed
      BY <1>1, <1>6, <2>1 DEF ClientSame, Fields, acceptor, counters
    <3> QED BY <1>1, <3>1, ClientStays
  <2>2. CASE d = c
    <3>1. UNCHANGED <<app, active_sessions, executed, to_exchange, to_client, trades, joined>>
      BY <1>6 DEF acceptor, counters
    <3> QED BY <1>7, <1>9, <2>2, <3>1 DEF ClientOK
  <2> QED BY <2>1, <2>2
<1> QED BY <1>10, <1>11 DEF TypeOK, Fields

\* The first request of client c is served.
Served(c, answer) ==
  /\ to_exchange[c] # <<>> /\ answer = Handled(app, risk_ctx, Head(to_exchange[c]))
  /\ app' = answer.app
  /\ to_client' = [d \in Clients |->
       to_client[d] \o IF d \in active_sessions THEN answer.reports ELSE <<>>]
  /\ executed' = executed \o TapeOf(answer.trades)
  /\ to_exchange' = [to_exchange EXCEPT ![c] = Tail(@)]
  /\ UNCHANGED <<active_sessions, orders, trades, unwritten, counters>>

\* Serving a message is to give one answer.
LEMMA ServeIs ==
  ASSUME NEW c \in Clients, Serve(c)
  PROVE  \E answer : Served(c, answer)
<1>1. PICK answer \in {Handled(app, risk_ctx, Head(to_exchange[c]))} :
        /\ app' = answer.app
        /\ to_client' = [x \in Clients |->
             to_client[x] \o IF x \in Targets(c) THEN answer.reports ELSE <<>>]
        /\ executed' = executed \o [i \in DOMAIN answer.trades |->
                                    [shares |-> answer.trades[i].quantity,
                                     px     |-> answer.trades[i].price]]
  BY Zenon DEF Serve
<1>2. Served(c, answer)
  BY <1>1, Zenon DEF Serve, Served, Targets, TapeOf
<1> QED BY <1>2

\* The types after a request is served.
LEMMA ServeType ==
  ASSUME TypeOK, NEW c \in Clients, Serve(c)
  PROVE  TypeOK'
<1>1. Fields /\ \A d \in Clients : ClientOK(d)
  BY TypeIs
<1>2. PICK answer : Served(c, answer)
  BY ServeIs
<1>3. PICK q : q = to_exchange[c]
  OBVIOUS
<1>4. PICK m : m = Head(q)
  OBVIOUS
<1>5. RequestsOK(q) /\ q # <<>>
  BY <1>1, <1>2, <1>3 DEF ClientOK, RequestsOK, Served
<1>6. RequestsOK(Tail(q)) /\ RequestOK(m)
  BY <1>4, <1>5, RequestsShrink
<1>7. /\ answer = Handled(app, risk_ctx, m) /\ app' = answer.app
      /\ executed' = executed \o TapeOf(answer.trades)
      /\ \A d \in Clients : to_client'[d]
           = to_client[d] \o IF d \in active_sessions THEN answer.reports ELSE <<>>
      /\ DOMAIN to_client' = Clients
      /\ UNCHANGED <<active_sessions, orders, trades, unwritten>>
      /\ UNCHANGED <<bg_order_seq, user_order_seq, typed, joined>>
  BY <1>2, <1>3, <1>4 DEF Served, counters
<1>8. /\ DOMAIN to_exchange' = Clients /\ to_exchange'[c] = Tail(q)
      /\ \A d \in Clients \ {c} : to_exchange'[d] = to_exchange[d]
  BY <1>1, <1>2, <1>3 DEF Served, Fields
<1>9. PICK names : names = DOMAIN answer.app.clordid_map
  OBVIOUS
<1>10. /\ AppOK(answer.app) /\ DOMAIN app.clordid_map \subseteq names
       /\ answer.reports \in Seq(ReportsOn(names))
       /\ TapeOf(answer.trades) \in Seq(Tape)
  <2>1. PICK a : a = app
    OBVIOUS
  <2>2. AppOK(a) /\ answer = Handled(a, risk_ctx, m)
    BY <1>1, <1>7, <2>1 DEF Fields
  <2>3. /\ AppOK(answer.app) /\ DOMAIN a.clordid_map \subseteq DOMAIN answer.app.clordid_map
        /\ answer.reports \in Seq(ReportsOn(DOMAIN answer.app.clordid_map))
        /\ TapeOf(answer.trades) \in Seq(Tape)
        /\ a.next_order_id <= answer.app.next_order_id
    BY <1>6, <2>2, HandledOK
  <2> QED BY <1>9, <2>1, <2>3
<1>11. executed' \in Seq(Tape) /\ Len(executed) \in Nat /\ Len(executed') \in Nat
       /\ Len(executed) <= Len(executed')
  <2>1. PICK more : more = TapeOf(answer.trades)
    OBVIOUS
  <2>2. executed \in Seq(Tape) /\ more \in Seq(Tape) /\ executed' = executed \o more
    BY <1>1, <1>7, <1>10, <2>1 DEF Fields
  <2>3. executed \o more \in Seq(Tape) /\ Len(executed \o more) = Len(executed) + Len(more)
    BY <2>2, ConcatProperties
  <2>4. Len(executed) \in Nat /\ Len(more) \in Nat
    BY <2>2
  <2> QED BY <2>2, <2>3, <2>4
<1>12. Fields'
  BY <1>1, <1>7, <1>8, <1>10, <1>11 DEF Fields
<1>13. ASSUME NEW d \in Clients PROVE ClientOK(d)'
  <2>1. ClientOK(d)
    BY <1>1
  <2>2. RequestsOK(to_exchange'[d])
    <3>1. CASE d = c
      BY <1>6, <1>8, <3>1
    <3>2. CASE d # c
      <4>1. RequestsOK(to_exchange[d])
        BY <2>1 DEF ClientOK, RequestsOK
      <4> QED BY <1>8, <3>2, <4>1
    <3> QED BY <3>1, <3>2
  <2>3. PICK S : S = ReportsOn(names)
    OBVIOUS
  <2>4. PICK more : more = IF d \in active_sessions THEN answer.reports ELSE <<>>
    OBVIOUS
  <2>5. to_client[d] \in Seq(S) /\ more \in Seq(S)
    <3>1. to_client[d] \in Seq(ReportsOn(names))
      BY <1>10, <2>1, MoreNames DEF ClientOK
    <3>2. more \in Seq(S)
      BY <1>10, <2>3, <2>4
    <3> QED BY <2>3, <3>1, <3>2
  <2>6. to_client'[d] = to_client[d] \o more
    BY <1>7, <2>4
  <2>7. to_client'[d] \in Seq(ReportsOn(names))
    <3>1. to_client[d] \o more \in Seq(S)
      BY <2>5, ConcatProperties
    <3> QED BY <2>3, <2>6, <3>1
  <2>8. d \notin active_sessions => to_client'[d] = <<>>
    BY <2>1, <2>4, <2>6 DEF ClientOK
  <2>9. joined[d].trade \in 1..(Len(executed') + 1)
    BY <1>11, <2>1 DEF ClientOK
  <2> QED BY <1>7, <1>9, <2>1, <2>2, <2>7, <2>8, <2>9 DEF ClientOK, RequestsOK
<1> QED BY <1>12, <1>13 DEF TypeOK, Fields

\* What a report makes of the entries, and what is printed of it.
LEMMA TrackedOK ==
  ASSUME NEW names, NEW r \in ReportsOn(names),
         NEW entries, entries \in [DOMAIN entries -> Entries],
         NEW after, after = Tracked(entries, r)
  PROVE  /\ after \in [DOMAIN after -> Entries]
         /\ IsPrint(r) => TradePrint(r) \in Tape
<1>1. PICK v : v = r.view
  OBVIOUS
<1>2. v \in Views
  BY <1>1 DEF ReportsOn
<1>3. PICK old : old = IF r.cl \in DOMAIN entries THEN entries[r.cl]
                       ELSE OrderEntry(v.symbol, v.side, v.price, v.leaves, "")
  OBVIOUS
<1>4. PICK e : e = [old EXCEPT !.leaves_qty = v.leaves, !.status = Shown(v.status)]
  OBVIOUS
<1>5. Shown(v.status) \in ShownStatus /\ v.leaves \in Int
  BY <1>2 DEF Shown, ShownStatus, Finished, Views, OrderStatus
<1>6. /\ old = [symbol |-> old.symbol, side |-> old.side, price |-> old.price,
                leaves_qty |-> old.leaves_qty, status |-> old.status]
      /\ old.symbol \in Symbols /\ old.side \in Side /\ old.price \in Prices
  <2>1. CASE r.cl \in DOMAIN entries
    <3>1. old \in Entries
      BY <1>3, <2>1
    <3> QED BY <3>1 DEF Entries
  <2>2. CASE r.cl \notin DOMAIN entries
    <3>1. old = OrderEntry(v.symbol, v.side, v.price, v.leaves, "")
      BY <1>3, <2>2
    <3> QED BY <1>2, <3>1 DEF OrderEntry, Views
  <2> QED BY <2>1, <2>2
<1>7. e \in Entries
  <2>1. e = [symbol |-> old.symbol, side |-> old.side, price |-> old.price,
             leaves_qty |-> v.leaves, status |-> Shown(v.status)]
    BY <1>4, <1>6
  <2> QED BY <1>5, <1>6, <2>1 DEF Entries
<1>8. after = Put(entries, r.cl, e)
  BY <1>1, <1>3, <1>4, Zenon DEF Tracked
<1>9. after \in [DOMAIN after -> Entries]
  BY <1>7, <1>8, PutEntry
<1>10. ASSUME IsPrint(r) PROVE TradePrint(r) \in Tape
  <2>1. r.exec_type \in {"Fill", "PartialFill"}
    BY <1>10 DEF IsPrint
  <2>2. r.shares \in Shares /\ r.px \in Prices
    BY <2>1 DEF ReportsOn
  <2> QED BY <2>2 DEF TradePrint, Tape
<1> QED BY <1>9, <1>10

\* The types after a report is handled.
LEMMA HandleType ==
  ASSUME TypeOK, NEW c \in Clients, handle_message(c)
  PROVE  TypeOK'
<1>1. Fields /\ \A d \in Clients : ClientOK(d)
  BY TypeIs
<1>2. PICK q : q = to_client[c]
  OBVIOUS
<1>3. PICK r : r = Head(q)
  OBVIOUS
<1>4. PICK after : after = Tracked(orders[c], r)
  OBVIOUS
<1>5. PICK prints : prints = IF IsPrint(r) THEN Append(trades[c], TradePrint(r)) ELSE trades[c]
  OBVIOUS
<1>6. PICK names : names = DOMAIN app.clordid_map
  OBVIOUS
<1>7. /\ UNCHANGED <<acceptor, to_exchange, unwritten, counters>> /\ c \in active_sessions
      /\ q # <<>> /\ q \in Seq(ReportsOn(names)) /\ trades[c] \in Seq(Tape)
      /\ orders[c] \in [DOMAIN orders[c] -> Entries] /\ ClientOK(c)
  BY <1>1, <1>2, <1>6 DEF handle_message, ClientOK
<1>8. /\ DOMAIN orders' = Clients /\ DOMAIN trades' = Clients /\ DOMAIN to_client' = Clients
      /\ orders'[c] = after /\ trades'[c] = prints /\ to_client'[c] = Tail(q)
      /\ \A d \in Clients \ {c} :
           orders'[d] = orders[d] /\ trades'[d] = trades[d] /\ to_client'[d] = to_client[d]
  <2>1. /\ orders' = [orders EXCEPT ![c] = Tracked(@, r)]
        /\ trades' = [trades EXCEPT ![c] = IF IsPrint(r) THEN Append(@, TradePrint(r)) ELSE @]
        /\ to_client' = [to_client EXCEPT ![c] = Tail(@)]
    BY <1>2, <1>3, Zenon DEF handle_message
  <2> QED BY <1>1, <1>2, <1>4, <1>5, <2>1 DEF Fields
<1>9. r \in ReportsOn(names) /\ Tail(q) \in Seq(ReportsOn(names))
  BY <1>3, <1>7, HeadTailProperties
<1>10. after \in [DOMAIN after -> Entries] /\ (IsPrint(r) => TradePrint(r) \in Tape)
  <2>1. PICK entries : entries = orders[c]
    OBVIOUS
  <2>2. entries \in [DOMAIN entries -> Entries] /\ after = Tracked(entries, r)
    BY <1>4, <1>7, <2>1
  <2> QED BY <1>9, <2>2, TrackedOK
<1>11. prints \in Seq(Tape)
  BY <1>5, <1>7, <1>10
<1>12. Fields'
  BY <1>1, <1>7, <1>8 DEF Fields, acceptor, counters
<1>13. ASSUME NEW d \in Clients PROVE ClientOK(d)'
  <2>1. UNCHANGED <<app, active_sessions, executed, to_exchange, unwritten, joined>>
    BY <1>7 DEF acceptor, counters
  <2>2. CASE d # c
    <3>1. ClientSame(d)
      BY <1>8, <2>1, <2>2 DEF ClientSame
    <3> QED BY <1>1, <2>1, <3>1, ClientStays
  <2>3. CASE d = c
    BY <1>6, <1>7, <1>8, <1>9, <1>10, <1>11, <2>1, <2>3 DEF ClientOK
  <2> QED BY <2>2, <2>3
<1> QED BY <1>12, <1>13 DEF TypeOK, Fields

\* The types at the start.
LEMMA TypeInit == Init => TypeOK
<1> SUFFICES ASSUME Init PROVE TypeOK
  OBVIOUS
<1>1. PICK ex : ex = EmptyExchange(Registered)
  OBVIOUS
<1>2. /\ ex.order_states = <<>> /\ ex = [order_states |-> ex.order_states, books |-> ex.books]
      /\ ex.books = [s \in Registered |-> [sd \in Side |-> NoLevels]]
  BY <1>1 DEF EmptyExchange
<1>3. IsExchange(ex, Registered)
  <2>1. ASSUME NEW s \in Registered, NEW sd \in Side, NEW S
        PROVE  Tidy(ex.books[s][sd], S) /\ ex.books[s][sd] = NoLevels
    BY <1>2 DEF Tidy, NoLevels
  <2>2. ex.books = [s \in Registered |-> [sd \in Side |-> ex.books[s][sd]]]
    BY <1>2
  <2>3. DOMAIN ex.order_states = {} /\ ex.order_states \in [DOMAIN ex.order_states -> OrderStates]
    BY <1>2
  <2> QED BY <1>2, <2>1, <2>2, <2>3 DEF IsExchange
<1>4. app = [next_order_id |-> 1, clordid_map |-> <<>>, orderid_to_clordid_map |-> <<>>,
             ex |-> ex]
  BY <1>1 DEF Init, NewApp
<1>5. AppOK(app)
  <2>1. PICK none : none = 1..(app.next_order_id - 1)
    OBVIOUS
  <2>2. none = {} /\ app.next_order_id \in OrderId
    BY <1>4, <2>1 DEF OrderId
  <2>3. /\ app.clordid_map = <<>> /\ app.orderid_to_clordid_map = <<>> /\ app.ex = ex
        /\ app = [next_order_id |-> app.next_order_id, clordid_map |-> app.clordid_map,
                  orderid_to_clordid_map |-> app.orderid_to_clordid_map, ex |-> app.ex]
    BY <1>4
  <2>4. DOMAIN app.ex.order_states = {}
    BY <1>2, <2>3
  <2>5. /\ app.clordid_map \in [DOMAIN app.clordid_map -> none]
        /\ app.orderid_to_clordid_map \in [none -> DOMAIN app.clordid_map]
    BY <2>2, <2>3
  <2> QED BY <1>3, <2>1, <2>2, <2>3, <2>4, <2>5 DEF AppOK
<1>6. executed = <<>> /\ executed \in Seq(Tape) /\ Len(executed) = 0
  BY DEF Init
<1>7. ASSUME NEW c \in Clients PROVE ClientOK(c)
  <2>1. /\ to_exchange[c] = <<>> /\ to_client[c] = <<>> /\ orders[c] = <<>> /\ trades[c] = <<>>
        /\ unwritten[c] = <<>> /\ joined[c].order = 1 /\ joined[c].trade = 1
    BY DEF Init
  <2>2. /\ <<>> \in Seq(Range(<<>>)) /\ DOMAIN <<>> = {} /\ <<>> \in [DOMAIN <<>> -> Entries]
        /\ <<>> \in Seq(Tape) /\ <<>> \in Seq(ReportsOn(DOMAIN app.clordid_map))
    OBVIOUS
  <2> QED BY <1>6, <2>1, <2>2 DEF ClientOK, OrderId
<1>8. Fields
  BY <1>5, <1>6 DEF Fields, Init
<1> QED BY <1>7, <1>8, TypeIs

\* Every step keeps the types.
LEMMA TypeStep ==
  ASSUME TypeOK, [Next]_vars
  PROVE  TypeOK'
<1>1. CASE UNCHANGED vars
  <2>1. Fields /\ \A d \in Clients : ClientOK(d)
    BY TypeIs
  <2>2. UNCHANGED <<app, active_sessions, executed, to_exchange, to_client, orders, trades>>
        /\ UNCHANGED <<unwritten, bg_order_seq, user_order_seq, typed, joined>>
    BY <1>1 DEF vars, acceptor, counters
  <2>3. Fields'
    BY <2>1, <2>2 DEF Fields
  <2>4. ASSUME NEW d \in Clients PROVE ClientOK(d)'
    <3>1. ClientSame(d)
      BY <2>2 DEF ClientSame
    <3> QED BY <2>1, <2>2, <3>1, ClientStays
  <2> QED BY <2>3, <2>4 DEF TypeOK, Fields
<1>2. ASSUME NEW c \in Clients, Command(c) \/ Serve(c) \/ handle_message(c)
      PROVE  TypeOK'
  BY <1>2, StartType, QuitType, SubmitType, StoreType, ServeType, HandleType DEF Command
<1> QED BY <1>1, <1>2 DEF Next

\* Every variable keeps its type: whatever clients type and in whatever order their
\* threads and the acceptor act, the acceptor's exchange stays in order, its maps
\* have exactly the ids given (exchange_application.cpp:192 finds what it looks for),
\* answers have no shares and reports on trades have some, and the screen shows
\* only statuses it knows (status_map of fix_tui_client.py).
THEOREM TypeOKAlways == Spec => []TypeOK
<1>1. TypeOK /\ [Next]_vars => TypeOK'
  BY TypeStep
<1> QED BY <1>1, TypeInit, PTL DEF Spec

-----------------------------------------------------------------------------
(* The tape.                                                               *)

\* What is printed of all these reports.
PrintsOf(rs) == Prints(rs, Len(rs))

\* What is printed of reports of their type is of the tape.
LEMMA ReportsPrintable ==
  ASSUME NEW names, NEW rs, rs \in Seq(ReportsOn(names)), NEW n \in 0..Len(rs)
  PROVE  Printable(rs, n) /\ n \in Nat
<1>1. ASSUME NEW r \in ReportsOn(names), IsPrint(r) PROVE TradePrint(r) \in Tape
  <2>1. r.exec_type \in {"Fill", "PartialFill"}
    BY <1>1 DEF IsPrint
  <2>2. r.shares \in Shares /\ r.px \in Prices
    BY <2>1 DEF ReportsOn
  <2> QED BY <2>2 DEF TradePrint, Tape
<1>2. \A i \in 1..n : rs[i] \in ReportsOn(names)
  OBVIOUS
<1> QED BY <1>1, <1>2 DEF Printable

\* rs is ps and then qs.
Chained(rs, ps, qs) == rs = ps \o qs

\* What is printed of one list of reports after another.
LEMMA PrintsConcat ==
  ASSUME NEW names, NEW ps, ps \in Seq(ReportsOn(names)), NEW qs, qs \in Seq(ReportsOn(names)),
         NEW rs, Chained(rs, ps, qs)
  PROVE  /\ PrintsOf(rs) = PrintsOf(ps) \o PrintsOf(qs)
         /\ PrintsOf(ps) \in Seq(Tape) /\ PrintsOf(qs) \in Seq(Tape)
<1>1. PICK m \in Nat, n \in Nat : m = Len(ps) /\ n = Len(qs)
  OBVIOUS
<1>2. Printable(ps, m) /\ Printable(qs, n)
  <2>1. m \in 0..Len(ps) /\ n \in 0..Len(qs)
    BY <1>1
  <2> QED BY <2>1, ReportsPrintable
<1>3. GoesOnWith(ps, m, qs, n, rs) /\ Len(rs) = m + n
  BY <1>1 DEF GoesOnWith, Chained
<1>4. Prints(rs, m + n) = Prints(ps, m) \o Prints(qs, n)
  BY <1>2, <1>3, PrintsBoth
<1>5. Prints(ps, m) \in Seq(Tape) /\ Prints(qs, n) \in Seq(Tape)
  BY <1>2, PrintsStep
<1> QED BY <1>1, <1>3, <1>4, <1>5, Zenon DEF PrintsOf

\* What is printed of one report.
LEMMA PrintsOne ==
  ASSUME NEW names, NEW r \in ReportsOn(names)
  PROVE  PrintsOf(<<r>>) = IF IsPrint(r) THEN <<TradePrint(r)>> ELSE <<>>
<1>1. PICK rs : rs = <<r>>
  OBVIOUS
<1>2. PICK n \in Nat : n = 1
  OBVIOUS
<1>3. rs \in Seq(ReportsOn(names)) /\ n \in 0..Len(rs) /\ Len(rs) = n /\ rs[n] = r
  BY <1>1, <1>2
<1>4. Printable(rs, n)
  BY <1>3, ReportsPrintable
<1>5. /\ Prints(rs, 0) = <<>>
      /\ Prints(rs, n) = IF IsPrint(rs[n]) THEN Append(Prints(rs, n - 1), TradePrint(rs[n]))
                         ELSE Prints(rs, n - 1)
  <2>1. n # 0
    BY <1>2
  <2> QED BY <1>4, <2>1, PrintsStep
<1>6. n - 1 = 0
  BY <1>2
<1>7. Prints(rs, n - 1) = <<>>
  BY <1>5, <1>6, Zenon
<1>8. PICK e : e = TradePrint(r)
  OBVIOUS
<1>9. Append(<<>>, e) = <<e>>
  OBVIOUS
<1> QED BY <1>1, <1>3, <1>5, <1>7, <1>8, <1>9, Zenon DEF PrintsOf

\* The first report, then the others.
LEMMA PrintsHead ==
  ASSUME NEW names, NEW q, q \in Seq(ReportsOn(names)), q # <<>>
  PROVE  /\ PrintsOf(q) = PrintsOf(<<Head(q)>>) \o PrintsOf(Tail(q))
         /\ PrintsOf(<<Head(q)>>) \in Seq(Tape) /\ PrintsOf(Tail(q)) \in Seq(Tape)
<1>1. PICK S : S = ReportsOn(names)
  OBVIOUS
<1>2. PICK first : first = <<Head(q)>>
  OBVIOUS
<1>3. PICK rest : rest = Tail(q)
  OBVIOUS
<1>4. first \in Seq(S) /\ rest \in Seq(S) /\ q = first \o rest
  BY <1>1, <1>2, <1>3
<1>5. /\ PrintsOf(q) = PrintsOf(first) \o PrintsOf(rest)
      /\ PrintsOf(first) \in Seq(Tape) /\ PrintsOf(rest) \in Seq(Tape)
  <2>1. first \in Seq(ReportsOn(names)) /\ rest \in Seq(ReportsOn(names))
    BY <1>1, <1>4
  <2>2. Chained(q, first, rest)
    BY <1>4 DEF Chained
  <2> QED BY <2>1, <2>2, PrintsConcat
<1> QED BY <1>2, <1>3, <1>5

\* An answer is not printed.
LEMMA AnswerIsNoPrint ==
  ASSUME NEW cl, NEW id, NEW st, NEW exec_type \in {"New", "Rejected", "Cancelled"}
  PROVE  ~IsPrint(Answer(cl, id, exec_type, st))
BY DEF IsPrint, Answer, ExecutionReport

OnePrinted(own, other, f) ==
  LET print == [shares |-> f.quantity, px |-> f.price]
  IN  /\ TradePrint(own) = print /\ TradePrint(other) = print
      /\ IsPrint(own) <=> ~IsPrint(other)

\* Of the two reports on a trade one is printed: the two orders are on opposite
\* sides, and a trade has shares.
LEMMA PairPrints ==
  ASSUME NEW now, NEW old, NEW cl, NEW id, NEW made,
         StatesFollow(old, now.ex.order_states, id, made),
         now.ex.order_states[id].side \in Side, NEW i \in 1..Len(made),
         NEW own, own = OwnReport(now, cl, id, made[i]),
         NEW other, other = OtherReport(now, made[i])
  PROVE  OnePrinted(own, other, made[i])
<1>1. PICK new : new = now.ex.order_states
  OBVIOUS
<1>2. PICK f : f = made[i]
  OBVIOUS
<1>3. /\ f \in FillsFrom(OrdersOn(old, new[id].symbol, Opposite(new[id].side)))
      /\ \A x \in DOMAIN old : SameTerms(new[x], old[x])
  BY <1>1, <1>2 DEF StatesFollow
<1>4. f.order_id \in DOMAIN old /\ old[f.order_id].side = Opposite(new[id].side)
      /\ f.quantity \in Shares
  BY <1>3 DEF FillsFrom, OrdersOn
<1>5. new[f.order_id].side = Opposite(new[id].side)
  BY <1>3, <1>4 DEF SameTerms
<1>6. own = OwnReport(now, cl, id, f)
  BY <1>2
<1>7. other = OtherReport(now, f)
  BY <1>2
<1>8. /\ own.shares = f.quantity /\ own.px = f.price /\ own.exec_type \in {"Fill", "PartialFill"}
      /\ own.view.side = new[id].side
  BY <1>1, <1>6 DEF OwnReport, FillReport, ExecutionReport, View
<1>9. /\ other.shares = f.quantity /\ other.px = f.price
      /\ other.exec_type \in {"Fill", "PartialFill"} /\ other.view.side = new[f.order_id].side
  BY <1>1, <1>7 DEF OtherReport, FillReport, ExecutionReport, View
<1>10. f.quantity > 0
  BY <1>4 DEF Shares
<1>11. IsPrint(own) <=> new[id].side = "Buy"
  BY <1>8, <1>10 DEF IsPrint
<1>12. IsPrint(other) <=> new[f.order_id].side = "Buy"
  BY <1>9, <1>10 DEF IsPrint
<1>13. IsPrint(own) <=> ~IsPrint(other)
  BY <1>1, <1>5, <1>11, <1>12 DEF Opposite, Side
<1>14. TradePrint(own) = [shares |-> f.quantity, px |-> f.price]
       /\ TradePrint(other) = [shares |-> f.quantity, px |-> f.price]
  BY <1>8, <1>9 DEF TradePrint
<1> QED BY <1>2, <1>13, <1>14 DEF OnePrinted

\* One more trade of the tape.
LEMMA TapeGrows ==
  ASSUME NEW t, t \in Seq(Tape), NEW k \in 1..Len(t)
  PROVE  /\ SubSeq(t, 1, k - 1) \in Seq(Tape) /\ SubSeq(t, 1, 0) = <<>>
         /\ SubSeq(t, 1, k) = Append(SubSeq(t, 1, k - 1), t[k])
<1>1. PICK before : before = SubSeq(t, 1, k - 1)
  OBVIOUS
<1>2. before \in Seq(Tape) /\ t[k] \in Tape
  BY <1>1
<1>3. SubSeq(t, 1, k) = before \o <<t[k]>>
  <2>1. 1 \in 1..Len(t) /\ k \in 1..Len(t)
    OBVIOUS
  <2> QED BY <1>1, <2>1, SubSeqRecursiveSecond
<1>4. Append(before, t[k]) = before \o <<t[k]>>
  BY <1>2, AppendIsConcat
<1> QED BY <1>1, <1>2, <1>3, <1>4

\* The reports on some trades, printed, are the trades.
LEMMA FillsPrint ==
  ASSUME NEW now, NEW old, NEW cl, NEW id, NEW made, NEW rs, NEW names,
         StatesFollow(old, now.ex.order_states, id, made),
         now.ex.order_states[id].side \in Side,
         InPairs(now, cl, id, made, rs), rs \in Seq(ReportsOn(names))
  PROVE  PrintsOf(rs) = TapeOf(made)
<1>1. PICK N \in Nat : N = Len(made)
  BY DEF StatesFollow
<1>2. PICK t : t = TapeOf(made)
  OBVIOUS
<1>3. t \in Seq(Tape) /\ Len(t) = N
  <2>1. PICK ids : ids = OrdersOn(old, now.ex.order_states[id].symbol,
                                  Opposite(now.ex.order_states[id].side))
    OBVIOUS
  <2>2. made \in Seq(FillsFrom(ids))
    BY <2>1 DEF StatesFollow
  <2>3. TapeOf(made) \in Seq(Tape) /\ Len(TapeOf(made)) = Len(made)
    BY <2>2, TapeOfOK
  <2> QED BY <1>1, <1>2, <2>3
<1>4. Len(rs) = 2 * N
  BY <1>1 DEF InPairs
<1> DEFINE T == {k \in 0..N : Prints(rs, 2 * k) = SubSeq(t, 1, k)}
<1>5. 0 \in T
  <2>1. PICK z \in Nat : z = 0
    OBVIOUS
  <2>2. Printable(rs, z)
    BY <2>1 DEF Printable
  <2>3. Prints(rs, 0) = <<>>
    BY <2>2, PrintsStep
  <2>4. SubSeq(t, 1, 0) = <<>>
    BY SubSeqEmpty
  <2>5. 2 * 0 = 0 /\ 0 \in 0..N
    OBVIOUS
  <2> QED BY <2>3, <2>4, <2>5, Zenon
<1>6. ASSUME NEW k \in 1..N, k - 1 \in T PROVE k \in T
  <2>1. PICK j \in Nat, n \in Nat : j = 2 * k - 1 /\ n = 2 * k
    <3>1. 2 * k - 1 \in Nat /\ 2 * k \in Nat
      OBVIOUS
    <3> QED BY <3>1
  <2>2. j # 0 /\ n # 0 /\ n - 1 = j /\ j - 1 = 2 * (k - 1) /\ k \in 0..N
        /\ j \in 0..Len(rs) /\ n \in 0..Len(rs)
    BY <1>4, <2>1
  <2>3. Printable(rs, j) /\ Printable(rs, n)
    BY <2>2, ReportsPrintable
  <2>4. PICK before : before = SubSeq(t, 1, k - 1)
    OBVIOUS
  <2>5. Prints(rs, j - 1) = before
    BY <1>6, <2>2, <2>4
  <2>6. Prints(rs, j) = IF IsPrint(rs[j]) THEN Append(Prints(rs, j - 1), TradePrint(rs[j]))
                        ELSE Prints(rs, j - 1)
    BY <2>2, <2>3, PrintsStep
  <2>7. Prints(rs, n) = IF IsPrint(rs[n]) THEN Append(Prints(rs, n - 1), TradePrint(rs[n]))
                        ELSE Prints(rs, n - 1)
    BY <2>2, <2>3, PrintsStep
  <2>8. rs[j] = OwnReport(now, cl, id, made[k]) /\ rs[n] = OtherReport(now, made[k])
    BY <1>1, <2>1 DEF InPairs
  <2>9. PICK print : print = [shares |-> made[k].quantity, px |-> made[k].price]
    OBVIOUS
  <2>10. /\ TradePrint(rs[j]) = print /\ TradePrint(rs[n]) = print
         /\ IsPrint(rs[j]) <=> ~IsPrint(rs[n])
    <3>1. k \in 1..Len(made)
      BY <1>1
    <3>2. PICK own : own = OwnReport(now, cl, id, made[k])
      OBVIOUS
    <3>3. PICK other : other = OtherReport(now, made[k])
      OBVIOUS
    <3>4. OnePrinted(own, other, made[k])
      BY <3>1, <3>2, <3>3, PairPrints
    <3> QED BY <2>8, <2>9, <3>2, <3>3, <3>4 DEF OnePrinted
  <2>11. Prints(rs, n) = Append(before, print)
    BY <2>2, <2>5, <2>6, <2>7, <2>10, Zenon
  <2>12. SubSeq(t, 1, k) = Append(before, t[k])
    <3>1. k \in 1..Len(t)
      BY <1>3
    <3> QED BY <1>3, <2>4, <3>1, TapeGrows
  <2>13. t[k] = print
    <3>1. k \in DOMAIN made
      BY <1>1 DEF StatesFollow
    <3> QED BY <1>2, <2>9, <3>1 DEF TapeOf
  <2> QED BY <2>1, <2>2, <2>11, <2>12, <2>13, Zenon
<1>7. N \in T
  <2>1. 0..N \subseteq T
    <3>1. N \in Nat
      BY <1>1
    <3> HIDE DEF T
    <3>2. \A k \in 1..N : k - 1 \in T => k \in T
      BY <1>6
    <3> QED BY <1>5, <3>1, <3>2, Inductive
  <2>2. N \in 0..N
    BY <1>1
  <2> HIDE DEF T
  <2> QED BY <2>1, <2>2, Zenon
<1>8. SubSeq(t, 1, N) = t
  BY <1>3, SubSeqFull
<1> QED BY <1>2, <1>4, <1>7, <1>8, Zenon DEF PrintsOf

\* What a request reports, printed, is what it trades.
LEMMA ServedPrints ==
  ASSUME NEW a, AppOK(a), NEW m, RequestOK(m), NEW answer, answer = Handled(a, risk_ctx, m)
  PROVE  PrintsOf(answer.reports) = TapeOf(answer.trades)
<1>1. CASE answer = Unanswered(a)
  <2>1. answer.reports = <<>> /\ answer.trades = <<>>
    BY <1>1 DEF Unanswered
  <2>2. PICK none : none = <<>>
    OBVIOUS
  <2>a. PICK z \in Nat : z = 0
    OBVIOUS
  <2>3. Printable(none, z)
    BY <2>a DEF Printable
  <2>4. Prints(none, 0) = <<>>
    BY <2>a, <2>3, PrintsStep
  <2>5. Len(none) = 0 /\ TapeOf(none) = <<>>
    BY <2>2 DEF TapeOf
  <2> QED BY <2>1, <2>2, <2>4, <2>5, Zenon DEF PrintsOf
<1>2. ASSUME NEW id, NEW exec_type, Outcome(a, m, id, exec_type, answer)
      PROVE  PrintsOf(answer.reports) = TapeOf(answer.trades)
  <2>1. PICK now : now = answer.app
    OBVIOUS
  <2>2. PICK made, reports : made = answer.trades /\ reports = answer.reports
    OBVIOUS
  <2>3. \E rs : Reported(answer.app, m.cl, id, exec_type, answer.trades, answer.reports, rs)
    BY <1>2, OutcomeReports
  <2>4. PICK rs : Reported(now, m.cl, id, exec_type, made, reports, rs)
    BY <2>1, <2>2, <2>3
  <2>5. PICK names : names = DOMAIN now.clordid_map
    OBVIOUS
  <2>6. PICK first : first = Answer(m.cl, id, exec_type, now.ex.order_states[id])
    OBVIOUS
  <2>7. /\ reports = <<first>> \o rs /\ first \in ReportsOn(names)
        /\ rs \in Seq(ReportsOn(names)) /\ InPairs(now, m.cl, id, made, rs)
    BY <2>4, <2>5, <2>6 DEF Reported
  <2>8. PICK one : one = <<first>>
    OBVIOUS
  <2>9. one \in Seq(ReportsOn(names)) /\ Chained(reports, one, rs)
    BY <2>7, <2>8 DEF Chained
  <2>10. PrintsOf(reports) = PrintsOf(one) \o PrintsOf(rs) /\ PrintsOf(rs) \in Seq(Tape)
    BY <2>7, <2>9, PrintsConcat
  <2>11. PrintsOf(one) = <<>>
    <3>1. exec_type \in {"New", "Rejected", "Cancelled"}
      BY <1>2 DEF Outcome
    <3>2. ~IsPrint(first)
      BY <2>6, <3>1, AnswerIsNoPrint
    <3> QED BY <2>7, <2>8, <3>2, PrintsOne
  <2>12. PrintsOf(rs) = TapeOf(made)
    <3>1. PICK old : old = a.ex.order_states
      OBVIOUS
    <3>2. StatesFollow(old, now.ex.order_states, id, made) /\ AppOK(now)
      BY <1>2, <2>1, <2>2, <3>1 DEF Outcome
    <3>3. now.ex.order_states[id].side \in Side
      <4>1. id \in DOMAIN now.ex.order_states
        BY <3>2 DEF StatesFollow
      <4>2. now.ex.order_states[id] \in OrderStates
        BY <3>2, <4>1 DEF AppOK, IsExchange
      <4> QED BY <4>2 DEF OrderStates
    <3> QED BY <2>7, <3>2, <3>3, FillsPrint
  <2>13. PICK printed : printed = PrintsOf(rs)
    OBVIOUS
  <2>14. <<>> \o printed = printed
    BY <2>10, <2>13, ConcatEmptySeq
  <2> QED BY <2>2, <2>10, <2>11, <2>12, <2>13, <2>14, Zenon
<1>3. answer = Unanswered(a) \/ \E id, exec_type : Outcome(a, m, id, exec_type, answer)
  BY HandledIs
<1> QED BY <1>1, <1>2, <1>3

\* What client d printed, and the prints on their way to it, are the tape since it
\* logged on.
Taped(d) ==
  trades[d] \o PrintsOf(to_client[d]) = SubSeq(executed, joined[d].trade, Len(executed))

\* The tapes are right when each of them is.
LEMMA TapeIs == TapeIsTrades <=> \A d \in active_sessions : Taped(d)
BY DEF TapeIsTrades, Taped, PrintsOf

\* Nothing is printed of no reports.
LEMMA NothingPrints == PrintsOf(<<>>) = <<>>
<1>1. PICK none : none = <<>>
  OBVIOUS
<1>2. PICK z \in Nat : z = 0
  OBVIOUS
<1>3. Printable(none, z)
  BY <1>2 DEF Printable
<1>4. Prints(none, 0) = <<>>
  BY <1>2, <1>3, PrintsStep
<1>5. Len(none) = 0
  BY <1>1
<1> QED BY <1>1, <1>4, <1>5, Zenon DEF PrintsOf

\* The tape stays when no trade is made and nothing is printed.
LEMMA TapeStays ==
  ASSUME TapeIsTrades, UNCHANGED <<to_client, trades, executed>>,
         \A d \in active_sessions' : d \in active_sessions /\ joined'[d] = joined[d]
  PROVE  TapeIsTrades'
BY DEF TapeIsTrades

\* A client that logs on has nothing printed and nothing on its way.
LEMMA StartTape ==
  ASSUME TypeOK, TapeIsTrades, NEW c \in Clients, Start(c)
  PROVE  TapeIsTrades'
<1>1. Fields /\ ClientOK(c)
  BY TypeIs
<1>2. /\ c \notin active_sessions /\ UNCHANGED <<executed, to_client>>
      /\ trades' = [trades EXCEPT ![c] = <<>>]
      /\ joined' = [joined EXCEPT ![c] = [order |-> app.next_order_id,
                                          trade |-> Len(executed) + 1]]
      /\ active_sessions' = active_sessions \cup {c}
  BY DEF Start
<1>3. ASSUME NEW d \in active_sessions' PROVE Taped(d)'
  <2>1. CASE d # c
    <3>1. d \in active_sessions /\ trades'[d] = trades[d] /\ joined'[d] = joined[d]
      BY <1>1, <1>2, <1>3, <2>1 DEF Fields
    <3>2. Taped(d)
      BY <3>1, TapeIs
    <3> QED BY <1>2, <3>1, <3>2 DEF Taped
  <2>2. CASE d = c
    <3>1. trades'[c] = <<>> /\ joined'[c].trade = Len(executed) + 1 /\ to_client'[c] = <<>>
      BY <1>1, <1>2 DEF Fields, ClientOK
    <3>2. SubSeq(executed, Len(executed) + 1, Len(executed)) = <<>>
      BY <1>1 DEF Fields
    <3>3. <<>> \o <<>> = <<>>
      OBVIOUS
    <3>4. PrintsOf(to_client'[c]) = <<>>
      BY <3>1, NothingPrints
    <3>5. trades'[c] \o PrintsOf(to_client'[c]) = <<>>
      BY <3>1, <3>3, <3>4, Zenon
    <3>6. SubSeq(executed', joined'[c].trade, Len(executed')) = <<>>
      BY <1>2, <3>1, <3>2
    <3> QED BY <2>2, <3>5, <3>6 DEF Taped
  <2> QED BY <2>1, <2>2
<1> QED BY <1>3 DEF TapeIsTrades, Taped, PrintsOf

\* The part of a tape from place j on.
LEMMA FromPlace ==
  ASSUME NEW t, t \in Seq(Tape), NEW n \in Nat, n = Len(t), NEW j \in Nat \ {0}, j <= n + 1,
         NEW s, s = SubSeq(t, j, n)
  PROVE  /\ s \in Seq(Tape) /\ Len(s) = n - j + 1
         /\ \A i \in 1..(n - j + 1) : s[i] = t[j + i - 1]
<1>1. ASSUME NEW i \in j..n PROVE t[i] \in Tape
  <2>1. i \in 1..Len(t)
    OBVIOUS
  <2> QED BY <2>1, ElementOfSeq
<1>2. j \in Int /\ n \in Int
  OBVIOUS
<1>3. /\ SubSeq(t, j, n) \in Seq(Tape)
      /\ Len(SubSeq(t, j, n)) = IF j <= n THEN n - j + 1 ELSE 0
      /\ \A i \in 1 .. n - j + 1 : SubSeq(t, j, n)[i] = t[j + i - 1]
  BY <1>1, <1>2, SubSeqProperties
<1>4. /\ s \in Seq(Tape) /\ Len(s) = IF j <= n THEN n - j + 1 ELSE 0
      /\ \A i \in 1 .. n - j + 1 : s[i] = t[j + i - 1]
  BY <1>3, Zenon
<1> QED BY <1>4

\* The elements of two sequences put one after the other.
LEMMA Joined ==
  ASSUME NEW p \in Seq(Tape), NEW more \in Seq(Tape), NEW b, Chained(b, p, more),
         NEW l \in Nat, l = Len(p), NEW n \in Nat, n = Len(more)
  PROVE  /\ b \in Seq(Tape) /\ Len(b) = l + n
         /\ \A i \in 1..(l + n) : b[i] = IF i <= l THEN p[i] ELSE more[i - l]
<1>1. b \in Seq(Tape) /\ Len(b) = l + n
  BY DEF Chained
<1>2. ASSUME NEW i \in 1..(l + n) PROVE b[i] = IF i <= l THEN p[i] ELSE more[i - l]
  BY <1>1 DEF Chained
<1> QED BY <1>1, <1>2

\* The later part of a tape that grows.
LEMMA SubTape ==
  ASSUME NEW tape, tape \in Seq(Tape), NEW more, more \in Seq(Tape),
         NEW j \in 1..(Len(tape) + 1), NEW after, Chained(after, tape, more)
  PROVE  SubSeq(after, j, Len(after)) = SubSeq(tape, j, Len(tape)) \o more
<1>1. PICK m \in Nat, n \in Nat : m = Len(tape) /\ n = Len(more)
  OBVIOUS
<1>2. /\ after \in Seq(Tape) /\ Len(after) = m + n
      /\ \A i \in 1..m : after[i] = tape[i]
      /\ \A i \in 1..n : after[m + i] = more[i]
  BY <1>1 DEF Chained
<1>3. PICK k \in Nat : j = k + 1 /\ k <= m /\ j \in Nat \ {0} /\ j <= m + 1
  <2>1. j \in 1..(m + 1)
    BY <1>1
  <2>2. j - 1 \in Nat /\ j = (j - 1) + 1 /\ j - 1 <= m /\ j \in Nat \ {0} /\ j <= m + 1
    BY <2>1
  <2> QED BY <2>2
<1>4. PICK last \in Nat : last = m + n
  OBVIOUS
<1>5. PICK s : s = SubSeq(after, j, last)
  OBVIOUS
<1>6. PICK p : p = SubSeq(tape, j, m)
  OBVIOUS
<1>7. /\ s \in Seq(Tape) /\ Len(s) = last - j + 1
      /\ \A i \in 1..(last - j + 1) : s[i] = after[j + i - 1]
  BY <1>2, <1>3, <1>4, <1>5, FromPlace
<1>8. /\ p \in Seq(Tape) /\ Len(p) = m - j + 1
      /\ \A i \in 1..(m - j + 1) : p[i] = tape[j + i - 1]
  BY <1>1, <1>3, <1>6, FromPlace
<1>9. PICK b : b = p \o more
  OBVIOUS
<1>10. PICK l \in Nat : l = m - k /\ l = m - j + 1 /\ last - j + 1 = l + n
  <2>1. m - k \in Nat /\ m - k = m - j + 1 /\ last - j + 1 = (m - k) + n
    BY <1>3, <1>4
  <2> QED BY <2>1
<1>11. /\ b \in Seq(Tape) /\ Len(b) = l + n
       /\ \A i \in 1..(l + n) : b[i] = IF i <= l THEN p[i] ELSE more[i - l]
  <2>1. Chained(b, p, more)
    BY <1>9 DEF Chained
  <2>2. Len(p) = l /\ Len(more) = n
    BY <1>1, <1>8, <1>10
  <2>3. p \in Seq(Tape) /\ more \in Seq(Tape) /\ l \in Nat /\ n \in Nat
    BY <1>1, <1>8, <1>10
  <2> QED BY <2>1, <2>2, <2>3, Joined
<1>12. ASSUME NEW i \in 1..(l + n) PROVE s[i] = b[i]
  <2>1. s[i] = after[k + i]
    <3>1. j + i - 1 = k + i
      BY <1>3
    <3> QED BY <1>7, <1>10, <3>1
  <2>2. CASE i <= l
    <3>1. i \in 1..l /\ k + i \in 1..m /\ j + i - 1 = k + i
      BY <1>3, <1>10, <2>2
    <3> QED BY <1>2, <1>8, <1>10, <1>11, <2>1, <2>2, <3>1
  <2>3. CASE ~(i <= l)
    <3>1. PICK e \in 1..n : e = i - l
      <4>1. i - l \in 1..n
        BY <2>3
      <4> QED BY <4>1
    <3>2. k + i = m + e
      BY <1>3, <1>10, <3>1
    <3> QED BY <1>2, <1>11, <2>1, <2>3, <3>1, <3>2
  <2> QED BY <2>2, <2>3
<1>13. s = b
  <2>1. Len(s) = Len(b) /\ \A i \in 1..Len(s) : s[i] = b[i]
    BY <1>7, <1>10, <1>11, <1>12
  <2> QED BY <1>7, <1>11, <2>1, SeqEqual
<1> QED BY <1>1, <1>2, <1>4, <1>5, <1>6, <1>9, <1>13, Zenon

\* Serving a request adds what it trades to the tape, and sends each client the
\* prints of it.
LEMMA ServeTape ==
  ASSUME TypeOK, TapeIsTrades, NEW c \in Clients, Serve(c)
  PROVE  TapeIsTrades'
<1>1. Fields /\ \A d \in Clients : ClientOK(d)
  BY TypeIs
<1>2. PICK answer : Served(c, answer)
  BY ServeIs
<1>3. PICK m : m = Head(to_exchange[c])
  OBVIOUS
<1>4. RequestOK(m)
  <2>1. PICK q : q = to_exchange[c]
    OBVIOUS
  <2>2. RequestsOK(q) /\ q # <<>>
    BY <1>1, <1>2, <2>1 DEF ClientOK, RequestsOK, Served
  <2> QED BY <1>3, <2>1, <2>2, RequestsShrink
<1>5. PICK a : a = app
  OBVIOUS
<1>6. /\ AppOK(a) /\ answer = Handled(a, risk_ctx, m) /\ app' = answer.app
      /\ executed' = executed \o TapeOf(answer.trades)
      /\ \A d \in Clients : to_client'[d]
           = to_client[d] \o IF d \in active_sessions THEN answer.reports ELSE <<>>
      /\ UNCHANGED <<active_sessions, trades, joined>>
  BY <1>1, <1>2, <1>3, <1>5 DEF Served, counters, Fields
<1>7. PICK names : names = DOMAIN answer.app.clordid_map
  OBVIOUS
<1>8. /\ DOMAIN a.clordid_map \subseteq names
      /\ answer.reports \in Seq(ReportsOn(names)) /\ TapeOf(answer.trades) \in Seq(Tape)
  <2>1. /\ AppOK(answer.app) /\ DOMAIN a.clordid_map \subseteq DOMAIN answer.app.clordid_map
        /\ answer.reports \in Seq(ReportsOn(DOMAIN answer.app.clordid_map))
        /\ TapeOf(answer.trades) \in Seq(Tape)
        /\ a.next_order_id <= answer.app.next_order_id
    BY <1>4, <1>6, HandledOK
  <2> QED BY <1>7, <2>1
<1>9. PrintsOf(answer.reports) = TapeOf(answer.trades)
  BY <1>4, <1>6, ServedPrints
<1>10. ASSUME NEW d \in active_sessions PROVE Taped(d)'
  <2>1. d \in Clients /\ ClientOK(d) /\ Taped(d)
    BY <1>1, TapeIs DEF Fields
  <2>2. PICK q : q = to_client[d]
    OBVIOUS
  <2>3. PICK rs : rs = answer.reports
    OBVIOUS
  <2>4. PICK more : more = TapeOf(answer.trades)
    OBVIOUS
  <2>5. PICK j : j = joined[d].trade
    OBVIOUS
  <2>6. PICK printed : printed = trades[d]
    OBVIOUS
  <2>7. PICK tape : tape = executed
    OBVIOUS
  <2>8. /\ q \in Seq(ReportsOn(names)) /\ rs \in Seq(ReportsOn(names))
    <3>1. q \in Seq(ReportsOn(DOMAIN a.clordid_map))
      BY <1>5, <2>1, <2>2 DEF ClientOK
    <3> QED BY <1>8, <2>3, <3>1, MoreNames
  <2>9. PICK both : both = q \o rs
    OBVIOUS
  <2>10. Chained(both, q, rs) /\ to_client'[d] = both
    BY <1>6, <1>10, <2>1, <2>2, <2>3, <2>9 DEF Chained
  <2>11. PrintsOf(both) = PrintsOf(q) \o PrintsOf(rs) /\ PrintsOf(q) \in Seq(Tape)
    BY <2>8, <2>10, PrintsConcat
  <2>12. PICK old : old = PrintsOf(q)
    OBVIOUS
  <2>13. PrintsOf(both) = old \o more
    BY <1>9, <2>3, <2>4, <2>11, <2>12
  <2>14. PICK after : after = executed'
    OBVIOUS
  <2>15. SubSeq(after, j, Len(after)) = SubSeq(tape, j, Len(tape)) \o more
    <3>1. /\ tape \in Seq(Tape) /\ more \in Seq(Tape) /\ j \in 1..(Len(tape) + 1)
          /\ Chained(after, tape, more)
      BY <1>1, <1>6, <1>8, <2>1, <2>4, <2>5, <2>7, <2>14 DEF Fields, ClientOK, Chained
    <3> QED BY <3>1, SubTape
  <2>16. printed \o old = SubSeq(tape, j, Len(tape))
    BY <2>1, <2>2, <2>5, <2>6, <2>7, <2>12 DEF Taped
  <2>17. (printed \o old) \o more = printed \o (old \o more)
    <3>1. printed \in Seq(Tape) /\ old \in Seq(Tape) /\ more \in Seq(Tape)
      BY <1>8, <2>1, <2>4, <2>6, <2>11, <2>12 DEF ClientOK
    <3> QED BY <3>1, ConcatAssociative
  <2>18. printed \o PrintsOf(both) = SubSeq(after, j, Len(after))
    BY <2>13, <2>15, <2>16, <2>17, Zenon
  <2>19. trades'[d] = printed /\ joined'[d].trade = j
    BY <1>6, <2>5, <2>6
  <2> QED BY <2>10, <2>14, <2>18, <2>19, Zenon DEF Taped
<1> QED BY <1>6, <1>10 DEF TapeIsTrades, Taped, PrintsOf

\* A report that is handled is printed or not.
LEMMA HandleTape ==
  ASSUME TypeOK, TapeIsTrades, NEW c \in Clients, handle_message(c)
  PROVE  TapeIsTrades'
<1>1. Fields /\ ClientOK(c)
  BY TypeIs
<1>2. PICK q : q = to_client[c]
  OBVIOUS
<1>3. PICK r : r = Head(q)
  OBVIOUS
<1>4. PICK printed : printed = trades[c]
  OBVIOUS
<1>5. PICK prints : prints = IF IsPrint(r) THEN Append(printed, TradePrint(r)) ELSE printed
  OBVIOUS
<1>6. PICK names : names = DOMAIN app.clordid_map
  OBVIOUS
<1>7. /\ UNCHANGED <<app, executed, active_sessions, joined>> /\ c \in active_sessions
      /\ q # <<>> /\ q \in Seq(ReportsOn(names)) /\ printed \in Seq(Tape)
  BY <1>1, <1>2, <1>4, <1>6 DEF handle_message, ClientOK, acceptor, counters
<1>8. /\ trades'[c] = prints /\ to_client'[c] = Tail(q)
      /\ \A d \in Clients \ {c} : trades'[d] = trades[d] /\ to_client'[d] = to_client[d]
  <2>1. /\ trades' = [trades EXCEPT ![c] = IF IsPrint(r) THEN Append(@, TradePrint(r)) ELSE @]
        /\ to_client' = [to_client EXCEPT ![c] = Tail(@)]
    BY <1>2, <1>3, Zenon DEF handle_message
  <2> QED BY <1>1, <1>2, <1>4, <1>5, <2>1 DEF Fields
<1>9. PICK rest : rest = PrintsOf(Tail(q))
  OBVIOUS
<1>10. PICK one : one = PrintsOf(<<r>>)
  OBVIOUS
<1>11. PrintsOf(q) = one \o rest /\ one \in Seq(Tape) /\ rest \in Seq(Tape)
  BY <1>3, <1>7, <1>9, <1>10, PrintsHead
<1>12. prints = printed \o one
  <2>1. r \in ReportsOn(names)
    BY <1>3, <1>7, HeadTailProperties
  <2>2. one = IF IsPrint(r) THEN <<TradePrint(r)>> ELSE <<>>
    BY <1>10, <2>1, PrintsOne
  <2>3. CASE IsPrint(r)
    <3>1. PICK e : e = TradePrint(r)
      OBVIOUS
    <3>2. one = <<e>>
      BY <2>2, <2>3, <3>1
    <3>3. e \in Tape
      <4>1. \A i \in 1..Len(one) : one[i] \in Tape
        BY <1>11
      <4>2. 1 \in 1..Len(one) /\ one[1] = e
        BY <3>2
      <4> QED BY <4>1, <4>2
    <3>4. Append(printed, e) = printed \o <<e>>
      BY <1>7, <3>3, AppendIsConcat
    <3> QED BY <1>5, <2>3, <3>1, <3>2, <3>4, Zenon
  <2>4. CASE ~IsPrint(r)
    <3>1. printed \o <<>> = printed
      BY <1>7, ConcatEmptySeq
    <3> QED BY <1>5, <2>2, <2>4, <3>1, Zenon
  <2> QED BY <2>3, <2>4
<1>13. ASSUME NEW d \in active_sessions PROVE Taped(d)'
  <2>1. d \in Clients /\ Taped(d)
    BY <1>1, TapeIs DEF Fields
  <2>2. CASE d # c
    <3>1. trades'[d] = trades[d] /\ to_client'[d] = to_client[d]
      BY <1>8, <2>1, <2>2
    <3> QED BY <1>7, <2>1, <3>1 DEF Taped
  <2>3. CASE d = c
    <3>1. (printed \o one) \o rest = printed \o (one \o rest)
      BY <1>7, <1>11, ConcatAssociative
    <3>2. trades'[c] \o PrintsOf(to_client'[c]) = trades[c] \o PrintsOf(to_client[c])
      BY <1>2, <1>4, <1>8, <1>9, <1>11, <1>12, <3>1, Zenon
    <3> QED BY <1>7, <2>1, <2>3, <3>2 DEF Taped
  <2> QED BY <2>2, <2>3
<1> QED BY <1>7, <1>13 DEF TapeIsTrades, Taped, PrintsOf

\* Every step keeps the tape.
LEMMA TapeStep ==
  ASSUME TypeOK, TapeIsTrades, [Next]_vars
  PROVE  TapeIsTrades'
<1>1. CASE UNCHANGED vars
  BY <1>1, TapeStays DEF vars, acceptor, counters
<1>2. ASSUME NEW c \in Clients,
             submit_bg_order(c) \/ submit_user_order(c) \/ RequestCancel(c) \/ StorePending(c)
      PROVE  TapeIsTrades'
  <2>1. UNCHANGED <<to_client, trades, executed, active_sessions, joined>>
    BY <1>2 DEF submit_bg_order, submit_user_order, RequestCancel, StorePending, acceptor, counters
  <2> QED BY <2>1, TapeStays
<1>3. ASSUME NEW c \in Clients, Quit(c)
      PROVE  TapeIsTrades'
  <2>1. Fields
    BY TypeIs
  <2>2. /\ UNCHANGED <<executed, trades, joined>> /\ active_sessions' = active_sessions \ {c}
        /\ to_client' = [to_client EXCEPT ![c] = <<>>]
    BY <1>3 DEF Quit, counters
  <2>3. ASSUME NEW d \in active_sessions' PROVE Taped(d)'
    <3>1. d \in active_sessions /\ to_client'[d] = to_client[d]
      BY <2>1, <2>2 DEF Fields
    <3>2. Taped(d)
      BY <3>1, TapeIs
    <3> QED BY <2>2, <3>1, <3>2 DEF Taped
  <2> QED BY <2>3 DEF TapeIsTrades, Taped, PrintsOf
<1>4. ASSUME NEW c \in Clients, Command(c) \/ Serve(c) \/ handle_message(c)
      PROVE  TapeIsTrades'
  BY <1>2, <1>3, <1>4, StartTape, ServeTape, HandleTape DEF Command
<1> QED BY <1>1, <1>4 DEF Next

\* A client prints each trade made since it logged on once and in the order of the
\* trades (the trade tape of handle_message): of the two reports on a trade, which
\* every client gets, it takes the buyer's, and there always is exactly one.
THEOREM TapeIsTradesAlways == Spec => []TapeIsTrades
<1>1. Init => TapeIsTrades
  BY DEF Init, TapeIsTrades
<1>2. TypeOK /\ TapeIsTrades /\ [Next]_vars => TapeIsTrades'
  BY TapeStep
<1> QED BY <1>1, <1>2, TypeOKAlways, PTL DEF Spec


-----------------------------------------------------------------------------
(* Requests come and go.                                                   *)

\* A request that is on its way.
OnItsWay(m) == \E d \in Clients : \E i \in DOMAIN to_exchange[d] : to_exchange[d][i] = m

\* A name is in use when it is taken or an order is on its way with it.
LEMMA InUseIs ==
  \A cl : InUse(cl) <=> \/ cl \in DOMAIN app.clordid_map
                        \/ \E x : OnItsWay(x) /\ x.kind = "D" /\ x.cl = cl
BY DEF InUse, OnItsWay

\* Client c sends m at the end of its queue; the maps stay.
Sent(c, m) ==
  /\ to_exchange' = [to_exchange EXCEPT ![c] = Append(@, m)]
  /\ app' = app

\* The requests on their way are those of before and m.
LEMMA SentQueues ==
  ASSUME TypeOK, NEW c \in Clients, NEW m, Sent(c, m)
  PROVE  /\ Len(to_exchange[c]) \in Nat
         /\ DOMAIN to_exchange[c] = 1..Len(to_exchange[c])
         /\ DOMAIN to_exchange'[c] = 1..(Len(to_exchange[c]) + 1)
         /\ to_exchange'[c][Len(to_exchange[c]) + 1] = m
         /\ \A i \in DOMAIN to_exchange[c] : to_exchange'[c][i] = to_exchange[c][i]
         /\ \A d \in Clients \ {c} : to_exchange'[d] = to_exchange[d]
<1>1. /\ DOMAIN to_exchange = Clients
      /\ \A d \in Clients : to_exchange[d] \in Seq(Range(to_exchange[d]))
  BY TypeIs DEF Fields, ClientOK
<1>2. PICK q : q = to_exchange[c]
  OBVIOUS
<1>3. PICK longer : longer = Append(q, m)
  OBVIOUS
<1>4. /\ DOMAIN to_exchange' = Clients /\ to_exchange'[c] = longer
      /\ \A d \in Clients \ {c} : to_exchange'[d] = to_exchange[d]
  BY <1>1, <1>2, <1>3 DEF Sent
<1>5. q \in Seq(Range(q))
  BY <1>1, <1>2
<1>6. /\ longer \in Seq(Range(longer))
      /\ Len(q) \in Nat /\ Len(longer) = Len(q) + 1
  BY <1>3, <1>5, AppendIsSequence
<1>7. /\ DOMAIN q = 1..Len(q) /\ DOMAIN longer = 1..(Len(q) + 1)
      /\ longer[Len(q) + 1] = m /\ \A i \in DOMAIN q : longer[i] = q[i]
  <2>1. q \in Seq(Range(q) \cup {m}) /\ m \in Range(q) \cup {m}
    BY <1>5
  <2> QED BY <1>3, <1>6, <2>1, AppendProperties
<1> QED BY <1>1, <1>2, <1>4, <1>6, <1>7

\* The same, wherever they are.
LEMMA SentOnly ==
  ASSUME TypeOK, NEW c \in Clients, NEW m, Sent(c, m)
  PROVE  \A x : OnItsWay(x)' <=> OnItsWay(x) \/ x = m
<1>1. PICK n : n = Len(to_exchange[c])
  OBVIOUS
<1>2. /\ n \in Nat /\ DOMAIN to_exchange[c] = 1..n /\ DOMAIN to_exchange'[c] = 1..(n + 1)
      /\ to_exchange'[c][n + 1] = m
      /\ \A i \in DOMAIN to_exchange[c] : to_exchange'[c][i] = to_exchange[c][i]
      /\ \A d \in Clients \ {c} : to_exchange'[d] = to_exchange[d]
  BY <1>1, SentQueues
<1>3. \A x : OnItsWay(x)' => OnItsWay(x) \/ x = m
  BY <1>2 DEF OnItsWay
<1>4. OnItsWay(m)'
  BY <1>2 DEF OnItsWay
<1>5. ASSUME NEW x, OnItsWay(x) PROVE OnItsWay(x)'
  <2>1. PICK d, i : /\ d \in Clients /\ i \in DOMAIN to_exchange[d]
                  /\ to_exchange[d][i] = x
    BY <1>5 DEF OnItsWay
  <2>2. i \in DOMAIN to_exchange'[d] /\ to_exchange'[d][i] = x
    BY <1>2, <2>1
  <2> QED BY <2>1, <2>2 DEF OnItsWay
<1> QED BY <1>3, <1>4, <1>5

\* Client c sends an order, of its own program or of its user, and may have to
\* store it.
AskSent(c, m) ==
  /\ Sent(c, m) /\ m.kind = "D" /\ m.cl[1] # "CNL"
  /\ \/ m.cl[1] = "BG" /\ user_order_seq' = user_order_seq
     \/ /\ m.cl = UserId(c, user_order_seq[c])
        /\ user_order_seq' = [user_order_seq EXCEPT ![c] = @ + 1]
  /\ reused' = IF InUse(m.cl) THEN reused \cup {m.cl} ELSE reused
  /\ unwritten' = unwritten \/ unwritten' = [unwritten EXCEPT ![c] = <<m.cl, m.order>>]
  /\ c \in active_sessions /\ typed'.starts = typed.starts
  /\ UNCHANGED <<active_sessions, to_client, orders, joined>>

\* That is how pre_populate_books and a user submit orders.
LEMMA AskIs ==
  ASSUME TypeOK, NEW c \in Clients, submit_bg_order(c) \/ submit_user_order(c)
  PROVE  \E m : AskSent(c, m)
<1>1. CASE submit_bg_order(c)
  <2>1. PICK m : m = [kind |-> "D", cl |-> BgId(bg_order_seq[c]),
                      order |-> BgOrders[bg_order_seq[c]]]
    OBVIOUS
  <2>2. /\ m.kind = "D" /\ m.cl = BgId(bg_order_seq[c])
        /\ m.order = BgOrders[bg_order_seq[c]]
    BY <2>1
  <2>3. Ask(c, m.cl, m.order) /\ unwritten' = [unwritten EXCEPT ![c] = <<m.cl, m.order>>]
    BY <1>1, <2>2, Zenon DEF submit_bg_order
  <2>4. m = [kind |-> "D", cl |-> m.cl, order |-> m.order]
    BY <2>1, <2>2
  <2>5. /\ to_exchange' = [to_exchange EXCEPT ![c] = Append(@, m)]
        /\ reused' = IF InUse(m.cl) THEN reused \cup {m.cl} ELSE reused
    BY <2>3, <2>4, Zenon DEF Ask, Send
  <2>6. m.cl[1] = "BG"
    BY <2>2 DEF BgId
  <2>7. UNCHANGED <<app, active_sessions, user_order_seq, typed, to_client, orders, joined>>
        /\ c \in active_sessions
    BY <1>1 DEF submit_bg_order, acceptor
  <2> QED BY <2>2, <2>3, <2>5, <2>6, <2>7 DEF AskSent, Sent
<1>2. CASE submit_user_order(c)
  <2>1. PICK order : Ask(c, UserId(c, user_order_seq[c]), order)
    BY <1>2 DEF submit_user_order
  <2>2. PICK m : m = [kind |-> "D", cl |-> UserId(c, user_order_seq[c]), order |-> order]
    OBVIOUS
  <2>3. /\ m.kind = "D" /\ m.cl = UserId(c, user_order_seq[c]) /\ m.order = order
    BY <2>2
  <2>4. /\ to_exchange' = [to_exchange EXCEPT ![c] = Append(@, m)]
        /\ reused' = IF InUse(m.cl) THEN reused \cup {m.cl} ELSE reused
    BY <2>1, <2>2, <2>3, Zenon DEF Ask, Send
  <2>5. m.cl[1] = "USR"
    BY <2>3 DEF UserId
  <2>6. /\ UNCHANGED <<app, active_sessions, to_client, orders, unwritten, joined>>
        /\ c \in active_sessions /\ typed' = [typed EXCEPT !.users = @ + 1]
        /\ user_order_seq' = [user_order_seq EXCEPT ![c] = @ + 1]
    BY <1>2 DEF submit_user_order, Commanding, acceptor
  <2>7. typed'.starts = typed.starts
    <3>1. typed \in [users : Nat, cancels : Nat, starts : [Clients -> Nat]]
      BY TypeIs DEF Fields
    <3> QED BY <2>6, <3>1
  <2> QED BY <2>3, <2>4, <2>5, <2>6, <2>7 DEF AskSent, Sent
<1> QED BY <1>1, <1>2

\* Client c sends a cancel.
CancelSent(c, m) ==
  /\ Sent(c, m) /\ m.kind = "F" /\ m.cl = CancelId(m.orig)
  /\ typed'.starts = typed.starts
  /\ UNCHANGED <<active_sessions, to_client, orders, unwritten, user_order_seq, joined, reused>>

\* That is what a user has it do.
LEMMA CancelIs ==
  ASSUME TypeOK, NEW c \in Clients, RequestCancel(c)
  PROVE  \E m : CancelSent(c, m)
<1>1. PICK cl : Send(c, [kind |-> "F", cl |-> CancelId(cl), orig |-> cl])
  BY DEF RequestCancel
<1>2. PICK m : m = [kind |-> "F", cl |-> CancelId(cl), orig |-> cl]
  OBVIOUS
<1>3. m.kind = "F" /\ m.cl = CancelId(m.orig)
  BY <1>2
<1>4. /\ UNCHANGED <<app, active_sessions, to_client, orders, unwritten, user_order_seq,
                     joined, reused>>
      /\ typed' = [typed EXCEPT !.cancels = @ + 1]
  BY DEF RequestCancel, acceptor
<1>5. Sent(c, m)
  BY <1>1, <1>2, <1>4, Zenon DEF Send, Sent
<1>6. typed'.starts = typed.starts
  <2>1. typed \in [users : Nat, cancels : Nat, starts : [Clients -> Nat]]
    BY TypeIs DEF Fields
  <2> QED BY <1>4, <2>1
<1> QED BY <1>3, <1>4, <1>5, <1>6 DEF CancelSent

\* Where the request at place i of client d was before client c's first was
\* served.
Was(c, d, i) == IF d = c THEN i + 1 ELSE i

\* The requests still on their way are those of before without the first of c.
LEMMA ServedQueues ==
  ASSUME TypeOK, NEW c \in Clients, to_exchange[c] # <<>>,
         to_exchange' = [to_exchange EXCEPT ![c] = Tail(@)]
  PROVE  /\ 1 \in DOMAIN to_exchange[c] /\ Head(to_exchange[c]) = to_exchange[c][1]
         /\ \A d \in Clients : \A i \in DOMAIN to_exchange'[d] :
              /\ Was(c, d, i) \in DOMAIN to_exchange[d]
              /\ to_exchange'[d][i] = to_exchange[d][Was(c, d, i)]
              /\ ~(d = c /\ Was(c, d, i) = 1)
              /\ \A j \in DOMAIN to_exchange'[d] : Was(c, d, i) = Was(c, d, j) => i = j
<1>1. /\ DOMAIN to_exchange = Clients
      /\ \A d \in Clients : to_exchange[d] \in Seq(Range(to_exchange[d]))
  BY TypeIs DEF Fields, ClientOK
<1>2. PICK q : q = to_exchange[c]
  OBVIOUS
<1>3. PICK shorter : shorter = Tail(q)
  OBVIOUS
<1>4. /\ shorter \in Seq(Range(shorter))
      /\ Len(q) \in Nat \ {0} /\ DOMAIN q = 1..Len(q)
      /\ DOMAIN shorter = 1..(Len(q) - 1)
      /\ \A i \in DOMAIN shorter : shorter[i] = q[i + 1]
      /\ Head(q) = q[1]
  BY <1>1, <1>2, <1>3, TailIsSequence
<1>5. /\ DOMAIN to_exchange' = Clients /\ to_exchange'[c] = shorter
      /\ \A d \in Clients \ {c} : to_exchange'[d] = to_exchange[d]
  BY <1>1, <1>2, <1>3
<1>7. 1 \in DOMAIN to_exchange[c] /\ Head(to_exchange[c]) = to_exchange[c][1]
  BY <1>2, <1>4
<1>8. ASSUME NEW d \in Clients, NEW i \in DOMAIN to_exchange'[d]
      PROVE  /\ Was(c, d, i) \in DOMAIN to_exchange[d]
             /\ to_exchange'[d][i] = to_exchange[d][Was(c, d, i)]
             /\ ~(d = c /\ Was(c, d, i) = 1)
             /\ \A j \in DOMAIN to_exchange'[d] : Was(c, d, i) = Was(c, d, j) => i = j
  <2>1. CASE d = c
    BY <1>2, <1>4, <1>5, <1>8, <2>1 DEF Was
  <2>2. CASE d # c
    BY <1>5, <1>8, <2>2 DEF Was
  <2> QED BY <2>1, <2>2
<1> QED BY <1>7, <1>8

\* Requests but the one that is served are still on their way.
LEMMA OthersWait ==
  ASSUME TypeOK, NEW c \in Clients, to_exchange[c] # <<>>,
         to_exchange' = [to_exchange EXCEPT ![c] = Tail(@)]
  PROVE  \A d \in Clients : \A i \in DOMAIN to_exchange[d] :
           ~(d = c /\ i = 1) =>
             \E j \in DOMAIN to_exchange'[d] : to_exchange'[d][j] = to_exchange[d][i]
<1> SUFFICES ASSUME NEW d \in Clients, NEW i \in DOMAIN to_exchange[d], ~(d = c /\ i = 1)
             PROVE  \E j \in DOMAIN to_exchange'[d] : to_exchange'[d][j] = to_exchange[d][i]
  OBVIOUS
<1>1. PICK q, shorter : q = to_exchange[c] /\ shorter = Tail(q)
  OBVIOUS
<1>2. q \in Seq(Range(q)) /\ q # <<>> /\ DOMAIN to_exchange = Clients
  BY <1>1, TypeIs DEF Fields, ClientOK
<1>3. /\ Len(q) \in Nat \ {0} /\ DOMAIN q = 1..Len(q)
      /\ DOMAIN shorter = 1..(Len(q) - 1)
      /\ \A k \in DOMAIN shorter : shorter[k] = q[k + 1]
  BY <1>1, <1>2, TailIsSequence
<1>4. to_exchange'[c] = shorter /\ (d # c => to_exchange'[d] = to_exchange[d])
  BY <1>1, <1>2
<1>5. CASE d # c
  BY <1>4, <1>5
<1>6. CASE d = c
  <2>1. i - 1 \in DOMAIN shorter /\ (i - 1) + 1 = i
    BY <1>1, <1>3, <1>6
  <2> QED BY <1>1, <1>3, <1>4, <1>6, <2>1
<1> QED BY <1>5, <1>6

\* The request m that is served, client c's first, was on its way; the others
\* still are.
LEMMA ServedOnly ==
  ASSUME TypeOK, NEW c \in Clients, Serve(c), NEW m, m = Head(to_exchange[c])
  PROVE  /\ 1 \in DOMAIN to_exchange[c] /\ to_exchange[c][1] = m
         /\ OnItsWay(m) /\ RequestOK(m)
         /\ \A x : OnItsWay(x)' => OnItsWay(x)
         /\ \A x : OnItsWay(x) => OnItsWay(x)' \/ x = m
<1>1. to_exchange[c] # <<>> /\ to_exchange' = [to_exchange EXCEPT ![c] = Tail(@)]
  BY DEF Serve
<1>2. 1 \in DOMAIN to_exchange[c] /\ to_exchange[c][1] = m
  BY <1>1, ServedQueues
<1>3. \A d \in Clients : \A i \in DOMAIN to_exchange'[d] :
        /\ Was(c, d, i) \in DOMAIN to_exchange[d]
        /\ to_exchange'[d][i] = to_exchange[d][Was(c, d, i)]
        /\ ~(d = c /\ Was(c, d, i) = 1)
        /\ \A j \in DOMAIN to_exchange'[d] : Was(c, d, i) = Was(c, d, j) => i = j
  BY <1>1, ServedQueues
<1>4. \A d \in Clients : \A i \in DOMAIN to_exchange[d] :
        ~(d = c /\ i = 1) =>
          \E j \in DOMAIN to_exchange'[d] : to_exchange'[d][j] = to_exchange[d][i]
  BY <1>1, OthersWait
<1>5. RequestOK(m)
  BY <1>2, TypeIs DEF ClientOK
<1>6. ASSUME NEW x, OnItsWay(x) PROVE OnItsWay(x)' \/ x = m
  <2>1. PICK d \in Clients : \E i \in DOMAIN to_exchange[d] : to_exchange[d][i] = x
    BY <1>6 DEF OnItsWay
  <2>2. PICK i \in DOMAIN to_exchange[d] : to_exchange[d][i] = x
    BY <2>1
  <2>3. CASE d = c /\ i = 1
    BY <1>2, <2>2, <2>3
  <2>4. CASE ~(d = c /\ i = 1)
    BY <1>4, <2>2, <2>4 DEF OnItsWay
  <2> QED BY <2>3, <2>4
<1> QED BY <1>2, <1>3, <1>5, <1>6 DEF OnItsWay

-----------------------------------------------------------------------------
(* Names and steps that leave the maps alone.                              *)

\* A cancel's name is made from the same order's.
LEMMA SameOrigin ==
  ASSUME NEW cl
  PROVE  Of(CancelId(cl)) = Of(cl) /\ CancelId(cl)[1] = "CNL" /\ CancelId(cl)[3] = cl
BY DEF CancelId, Of

\* What UserNamesSole says, of requests wherever they are.
UsersNumbered ==
  /\ \A c \in Clients : typed.starts[c] = 0 => c \notin active_sessions /\ user_order_seq[c] = 1
  /\ \A name \in DOMAIN app.clordid_map : Numbered(name)
  /\ \A x : OnItsWay(x) /\ x.kind = "D" => Numbered(x.cl)
  /\ \A name \in reused : name[1] = "BG"

\* It says no more, now or after a step.
LEMMA UsersAre == UserNamesSole => (MaxStarts <= 1 => UsersNumbered)
BY DEF UserNamesSole, UsersNumbered, OnItsWay

\* The same after a step.
LEMMA UsersAreThen ==
  ASSUME MaxStarts <= 1 => UsersNumbered'
  PROVE  UserNamesSole'
<1>1. ASSUME MaxStarts <= 1, NEW d \in Clients, NEW i \in DOMAIN to_exchange'[d], NEW x,
             x = to_exchange'[d][i], x.kind = "D"
      PROVE  Numbered(x.cl)'
  BY <1>1 DEF UsersNumbered, OnItsWay
<1> QED BY <1>1 DEF UserNamesSole, UsersNumbered, Numbered

\* The acceptor and the requests on their way stay as they are.
LEMMA NamesLeftAlone ==
  ASSUME NamesInv, UserNamesSole', UNCHANGED <<app, to_exchange, reused>>
  PROVE  NamesInv'
<1>1. \A name : Sole(name)' <=> Sole(name)
  BY DEF Sole
<1>2. OrderNamesFresh'
  BY <1>1 DEF NamesInv, OrderNamesFresh
<1>3. CancelNamesFollow'
  BY <1>1 DEF NamesInv, CancelNamesFollow
<1>4. MapsAgree'
  BY <1>1 DEF NamesInv, MapsAgree
<1> QED BY <1>2, <1>3, <1>4 DEF NamesInv

\* A client that is started for the first time has numbered nothing yet.
LEMMA StartNames ==
  ASSUME TypeOK, NamesInv, NEW c \in Clients, Start(c)
  PROVE  NamesInv'
<1>1. /\ UNCHANGED <<app, to_exchange, reused>>
      /\ active_sessions' = active_sessions \cup {c} /\ typed.starts[c] < MaxStarts
      /\ user_order_seq' = [user_order_seq EXCEPT ![c] = 1]
      /\ typed' = [typed EXCEPT !.starts[c] = @ + 1]
  BY DEF Start
<1>2. /\ user_order_seq \in [Clients -> Nat \ {0}]
      /\ typed \in [users : Nat, cancels : Nat, starts : [Clients -> Nat]]
  BY TypeIs DEF Fields
<1>3. UserNamesSole'
  <2> SUFFICES ASSUME MaxStarts <= 1 PROVE UsersNumbered'
    BY UsersAreThen
  <2>1. typed.starts \in [Clients -> Nat]
    BY <1>2
  <2>2. typed.starts[c] = 0
    BY <1>1, <2>1, ClientStartsAssumption
  <2>3. user_order_seq' = user_order_seq
    BY <1>1, <1>2, <2>2 DEF NamesInv, UserNamesSole
  <2>4. \A name : Numbered(name)' <=> Numbered(name)
    BY <2>3 DEF Numbered
  <2>5. \A d \in Clients : d # c => typed'.starts[d] = typed.starts[d]
    BY <1>1, <1>2
  <2>6. typed'.starts[c] = 1
    BY <1>1, <1>2, <2>2
  <2>7. \A d \in Clients : typed'.starts[d] = 0 =>
          d \notin active_sessions' /\ user_order_seq'[d] = 1
    BY <1>1, <2>3, <2>5, <2>6 DEF NamesInv, UserNamesSole
  <2>8. \A x : OnItsWay(x)' <=> OnItsWay(x)
    BY <1>1 DEF OnItsWay
  <2> QED BY <1>1, <2>4, <2>7, <2>8, UsersAre DEF NamesInv, UsersNumbered
<1> QED BY <1>1, <1>3, NamesLeftAlone

\* Nothing the maps rest on changes when a client quits, or stores what it was
\* told or has sent.
LEMMA ClientNames ==
  ASSUME NamesInv, NEW c \in Clients, Quit(c) \/ StorePending(c) \/ handle_message(c)
  PROVE  NamesInv'
<1>1. /\ UNCHANGED <<app, to_exchange, user_order_seq, typed, reused>>
      /\ active_sessions' \subseteq active_sessions
  BY DEF Quit, StorePending, handle_message, acceptor, counters
<1>2. UserNamesSole'
  BY <1>1 DEF NamesInv, UserNamesSole, Numbered
<1> QED BY <1>1, <1>2, NamesLeftAlone

-----------------------------------------------------------------------------
(* Requests are sent.                                                      *)

\* An order is sent: under a name that is in use, which then is not of it alone, or
\* under a fresh one.
LEMMA AskFresh ==
  ASSUME TypeOK, NamesInv, NEW c \in Clients, NEW m, AskSent(c, m)
  PROVE  OrderNamesFresh' /\ CancelNamesFollow' /\ MapsAgree'
<1>1. PICK n : n = Len(to_exchange[c])
  OBVIOUS
<1>2. /\ n \in Nat /\ DOMAIN to_exchange[c] = 1..n /\ DOMAIN to_exchange'[c] = 1..(n + 1)
      /\ to_exchange'[c][n + 1] = m
      /\ \A i \in DOMAIN to_exchange[c] : to_exchange'[c][i] = to_exchange[c][i]
      /\ \A d \in Clients \ {c} : to_exchange'[d] = to_exchange[d]
  BY <1>1, SentQueues DEF AskSent
<1>3. /\ app' = app /\ m.kind = "D" /\ m.cl[1] # "CNL"
      /\ reused' = IF InUse(m.cl) THEN reused \cup {m.cl} ELSE reused
  BY DEF AskSent, Sent
<1>4. \A d \in Clients : \A i \in DOMAIN to_exchange'[d] :
        \/ d = c /\ i = n + 1 /\ to_exchange'[d][i] = m
        \/ i \in DOMAIN to_exchange[d] /\ to_exchange'[d][i] = to_exchange[d][i]
             /\ ~(d = c /\ i = n + 1)
  BY <1>2
<1>5. \A name : Sole(name)' => Sole(name)
  BY <1>3 DEF Sole
<1>6. Sole(m.cl)' => ~InUse(m.cl)
  BY <1>3 DEF Sole, Of
<1>7. Sole(m.cl)' => /\ m.cl \notin DOMAIN app.clordid_map
                     /\ \A d \in Clients : \A i \in DOMAIN to_exchange[d] :
                          to_exchange[d][i].kind = "D" => to_exchange[d][i].cl # m.cl
  BY <1>6 DEF InUse
<1>8. OrderNamesFresh'
  <2> SUFFICES ASSUME NEW d \in Clients, NEW i \in DOMAIN to_exchange'[d],
                      to_exchange'[d][i].kind = "D",
                      NEW name, name = to_exchange'[d][i].cl
               PROVE  /\ name[1] # "CNL"
                      /\ Sole(name)' =>
                           /\ name \notin DOMAIN app'.clordid_map
                           /\ \A e \in Clients : \A j \in DOMAIN to_exchange'[e] :
                                to_exchange'[e][j].kind = "D" /\ to_exchange'[e][j].cl = name
                                  => e = d /\ j = i
    BY DEF OrderNamesFresh
  <2>1. CASE d = c /\ i = n + 1 /\ to_exchange'[d][i] = m
    <3>1. name = m.cl
      BY <2>1
    <3>2. ASSUME Sole(name)', NEW e \in Clients, NEW j \in DOMAIN to_exchange'[e],
                 to_exchange'[e][j].kind = "D", to_exchange'[e][j].cl = name
          PROVE  e = d /\ j = i
      <4>1. CASE j \in DOMAIN to_exchange[e] /\ to_exchange'[e][j] = to_exchange[e][j]
        BY <1>7, <3>1, <3>2, <4>1
      <4> QED BY <1>4, <2>1, <4>1
    <3>3. Sole(name)' => name \notin DOMAIN app'.clordid_map
      BY <1>3, <1>7, <3>1
    <3> QED BY <1>3, <3>1, <3>2, <3>3
  <2>2. CASE i \in DOMAIN to_exchange[d] /\ to_exchange'[d][i] = to_exchange[d][i]
               /\ ~(d = c /\ i = n + 1)
    <3>1. /\ name[1] # "CNL"
          /\ Sole(name) =>
               /\ name \notin DOMAIN app.clordid_map
               /\ \A e \in Clients : \A j \in DOMAIN to_exchange[e] :
                    to_exchange[e][j].kind = "D" /\ to_exchange[e][j].cl = name
                      => e = d /\ j = i
      BY <2>2 DEF NamesInv, OrderNamesFresh
    <3>2. Sole(name)' => name # m.cl
      BY <1>7, <2>2
    <3>3. ASSUME Sole(name)', NEW e \in Clients, NEW j \in DOMAIN to_exchange'[e],
                 to_exchange'[e][j].kind = "D", to_exchange'[e][j].cl = name
          PROVE  e = d /\ j = i
      <4>1. CASE e = c /\ j = n + 1 /\ to_exchange'[e][j] = m
        BY <3>2, <3>3, <4>1
      <4>2. CASE j \in DOMAIN to_exchange[e] /\ to_exchange'[e][j] = to_exchange[e][j]
        BY <1>5, <3>1, <3>3, <4>2
      <4> QED BY <1>4, <4>1, <4>2
    <3> QED BY <1>3, <1>5, <3>1, <3>3
  <2> QED BY <1>4, <2>1, <2>2
<1>9. CancelNamesFollow'
  BY <1>3, <1>4, <1>5 DEF NamesInv, CancelNamesFollow
<1>10. MapsAgree'
  BY <1>3, <1>5 DEF NamesInv, MapsAgree
<1> QED BY <1>8, <1>9, <1>10

\* The name of a user's order is beyond the numbers used, so it is not in use.
LEMMA AskNumbered ==
  ASSUME TypeOK, NamesInv, NEW c \in Clients, NEW m, AskSent(c, m)
  PROVE  UserNamesSole'
<1> SUFFICES ASSUME MaxStarts <= 1 PROVE UsersNumbered'
  BY UsersAreThen
<1>1. /\ app' = app /\ m.kind = "D" /\ Sent(c, m) /\ c \in active_sessions
      /\ reused' = IF InUse(m.cl) THEN reused \cup {m.cl} ELSE reused
      /\ typed'.starts = typed.starts /\ active_sessions' = active_sessions
  BY DEF AskSent, Sent
<1>2. user_order_seq \in [Clients -> Nat \ {0}]
  BY TypeIs DEF Fields
<1>3. /\ \A d \in Clients : typed.starts[d] = 0 => d \notin active_sessions /\ user_order_seq[d] = 1
      /\ \A name \in DOMAIN app.clordid_map : Numbered(name)
      /\ \A x : OnItsWay(x) /\ x.kind = "D" => Numbered(x.cl)
      /\ \A name \in reused : name[1] = "BG"
  BY UsersAre DEF NamesInv, UsersNumbered
<1>4. \A x : OnItsWay(x)' <=> OnItsWay(x) \/ x = m
  BY <1>1, SentOnly
<1>5. /\ \A d \in Clients : d # c => user_order_seq'[d] = user_order_seq[d]
      /\ \A name : Numbered(name) => Numbered(name)'
      /\ Numbered(m.cl)' /\ \A name \in reused' : name[1] = "BG"
  <2>1. CASE m.cl[1] = "BG" /\ user_order_seq' = user_order_seq
    BY <1>1, <1>3, <2>1 DEF Numbered
  <2>2. CASE /\ m.cl = UserId(c, user_order_seq[c])
             /\ user_order_seq' = [user_order_seq EXCEPT ![c] = @ + 1]
    <3>1. m.cl[1] = "USR" /\ m.cl[2] = c /\ m.cl[3] = user_order_seq[c]
      BY <2>2 DEF UserId
    <3>2. ~Numbered(m.cl)
      BY <1>2, <3>1 DEF Numbered
    <3>3. ~InUse(m.cl)
      BY <1>3, <3>2, InUseIs
    <3>4. Numbered(m.cl)'
      BY <1>2, <2>2, <3>1 DEF Numbered
    <3>5. ASSUME NEW name, Numbered(name) PROVE Numbered(name)'
      BY <1>2, <2>2, <3>5 DEF Numbered
    <3> QED BY <1>1, <1>2, <1>3, <2>2, <3>3, <3>4, <3>5
  <2> QED BY <2>1, <2>2 DEF AskSent
<1>6. \A x : OnItsWay(x)' /\ x.kind = "D" => Numbered(x.cl)'
  BY <1>3, <1>4, <1>5
<1>7. \A d \in Clients : typed'.starts[d] = 0 =>
        d \notin active_sessions' /\ user_order_seq'[d] = 1
  BY <1>1, <1>3, <1>5
<1>8. \A name \in DOMAIN app'.clordid_map : Numbered(name)'
  BY <1>1, <1>3, <1>5
<1> QED BY <1>5, <1>6, <1>7, <1>8 DEF UsersNumbered

\* A cancel is sent.
LEMMA CancelNames ==
  ASSUME TypeOK, NamesInv, NEW c \in Clients, NEW m, CancelSent(c, m)
  PROVE  NamesInv'
<1>1. PICK n : n = Len(to_exchange[c])
  OBVIOUS
<1>2. /\ n \in Nat /\ DOMAIN to_exchange[c] = 1..n /\ DOMAIN to_exchange'[c] = 1..(n + 1)
      /\ to_exchange'[c][n + 1] = m
      /\ \A i \in DOMAIN to_exchange[c] : to_exchange'[c][i] = to_exchange[c][i]
      /\ \A d \in Clients \ {c} : to_exchange'[d] = to_exchange[d]
  BY <1>1, SentQueues DEF CancelSent
<1>3. /\ app' = app /\ m.kind = "F" /\ m.cl = CancelId(m.orig)
      /\ typed'.starts = typed.starts /\ UNCHANGED <<active_sessions, user_order_seq, reused>>
  BY DEF CancelSent, Sent
<1>4. \A d \in Clients : \A i \in DOMAIN to_exchange'[d] :
        \/ to_exchange'[d][i] = m
        \/ i \in DOMAIN to_exchange[d] /\ to_exchange'[d][i] = to_exchange[d][i]
  BY <1>2
<1>5. \A d \in Clients : \A i \in DOMAIN to_exchange'[d] : to_exchange'[d][i].kind = "D" =>
        i \in DOMAIN to_exchange[d] /\ to_exchange'[d][i] = to_exchange[d][i]
  BY <1>3, <1>4
<1>6. \A name : (Sole(name)' <=> Sole(name)) /\ (Numbered(name)' <=> Numbered(name))
  BY <1>3 DEF Sole, Numbered
<1>7. OrderNamesFresh'
  BY <1>3, <1>5, <1>6 DEF NamesInv, OrderNamesFresh
<1>8. CancelNamesFollow'
  BY <1>3, <1>4, <1>6 DEF NamesInv, CancelNamesFollow
<1>9. MapsAgree'
  BY <1>3, <1>6 DEF NamesInv, MapsAgree
<1>10. UserNamesSole'
  BY <1>3, <1>5, <1>6 DEF NamesInv, UserNamesSole
<1> QED BY <1>7, <1>8, <1>9, <1>10 DEF NamesInv

-----------------------------------------------------------------------------
(* Requests are served.                                                    *)

\* What serving request m on order id does to the maps.
NamesServed(m, id) ==
  /\ NamedMaps(app, app', m.cl, id)
  /\ \/ /\ m.kind = "D" /\ id = app.next_order_id /\ m.cl[1] # "CNL"
        /\ Sole(m.cl) => m.cl \notin DOMAIN app.clordid_map
     \/ /\ m.kind = "F" /\ m.cl = CancelId(m.orig)
        /\ m.orig \in DOMAIN app.clordid_map /\ id = app.clordid_map[m.orig]

\* That is what an outcome does.
LEMMA OutcomeNames ==
  ASSUME NamesInv, NEW m, OnItsWay(m), NEW id, NEW exec_type, NEW answer,
         Outcome(app, m, id, exec_type, answer), app' = answer.app
  PROVE  NamesServed(m, id)
<1>1. NamedMaps(app, app', m.cl, id) /\ Orders(app, m, id, answer)
  BY DEF Outcome
<1>2. PICK d \in Clients : \E i \in DOMAIN to_exchange[d] : to_exchange[d][i] = m
  BY DEF OnItsWay
<1>3. PICK i \in DOMAIN to_exchange[d] : to_exchange[d][i] = m
  BY <1>2
<1>4. m.kind = "D" =>
        m.cl[1] # "CNL" /\ (Sole(m.cl) => m.cl \notin DOMAIN app.clordid_map)
  BY <1>3 DEF NamesInv, OrderNamesFresh
<1>5. m.kind # "D" => m.cl = CancelId(m.orig)
  BY <1>3 DEF NamesInv, CancelNamesFollow
<1> QED BY <1>1, <1>4, <1>5 DEF NamesServed, Orders

\* A request gets no answer and changes nothing, or names its order.
LEMMA ServedNames ==
  ASSUME TypeOK, NamesInv, NEW c \in Clients, Serve(c), NEW m, m = Head(to_exchange[c])
  PROVE  /\ app' = Handled(app, risk_ctx, m).app
         /\ UNCHANGED <<active_sessions, orders, unwritten, user_order_seq, typed, joined, reused>>
         /\ (app' = app /\ m.kind = "F") \/ \E id : NamesServed(m, id)
<1>1. PICK answer : Served(c, answer)
  BY ServeIs
<1>2. /\ answer = Handled(app, risk_ctx, m) /\ app' = answer.app /\ AppOK(app)
      /\ UNCHANGED <<active_sessions, orders, unwritten, user_order_seq, typed, joined, reused>>
  BY <1>1, TypeIs DEF Served, Fields, counters, Serve
<1>3. OnItsWay(m) /\ RequestOK(m)
  BY ServedOnly
<1>4. CASE m.kind = "D"
  <2>1. answer = NewOrderSingle(app, risk_ctx, m.cl, m.order) /\ m.order \in Asks
    BY <1>2, <1>3, <1>4 DEF Handled, RequestOK
  <2>2. PICK id, exec_type : Outcome(app, m, id, exec_type, answer)
    BY <1>2, <1>4, <2>1, NewOrderIs
  <2>3. NamesServed(m, id)
    BY <1>2, <1>3, <2>2, OutcomeNames
  <2> QED BY <1>2, <2>3
<1>5. CASE m.kind # "D"
  <2>1. m.kind = "F"
    BY <1>3, <1>5 DEF RequestOK
  <2>2. CASE answer = Unanswered(app)
    BY <1>2, <2>1, <2>2 DEF Unanswered
  <2>3. CASE \E id, exec_type : Outcome(app, m, id, exec_type, answer)
    <3>1. PICK id, exec_type : Outcome(app, m, id, exec_type, answer)
      BY <2>3
    <3>2. NamesServed(m, id)
      BY <1>2, <1>3, <3>1, OutcomeNames
    <3> QED BY <1>2, <3>2
  <2> QED BY <1>2, <1>3, <2>2, <2>3, HandledIs
<1> QED BY <1>4, <1>5

\* A name that was taken stands for the same order or, if several were sent under
\* it, for a younger one.
LEMMA ServedMaps ==
  ASSUME TypeOK, NamesInv, NEW m, NEW id, NamesServed(m, id)
  PROVE  /\ id \in Nat
         /\ DOMAIN app'.clordid_map = DOMAIN app.clordid_map \cup {m.cl}
         /\ app'.clordid_map[m.cl] = id
         /\ \A x \in DOMAIN app.clordid_map :
              /\ app.clordid_map[x] \in Nat /\ app.clordid_map[x] <= app'.clordid_map[x]
              /\ x # m.cl \/ Sole(x) => app'.clordid_map[x] = app.clordid_map[x]
         /\ DOMAIN app'.orderid_to_clordid_map = DOMAIN app.orderid_to_clordid_map \cup {id}
         /\ app'.orderid_to_clordid_map[id] = m.cl
         /\ \A x \in DOMAIN app.orderid_to_clordid_map : x # id =>
              app'.orderid_to_clordid_map[x] = app.orderid_to_clordid_map[x]
<1>1. PICK names : names = app.clordid_map
  OBVIOUS
<1>2. PICK next : next = app.next_order_id
  OBVIOUS
<1>3. next \in Nat /\ names \in [DOMAIN names -> 1..(next - 1)]
  BY <1>1, <1>2, TypeIs DEF Fields, AppOK, OrderId
<1>4. /\ DOMAIN app'.clordid_map = DOMAIN names \cup {m.cl}
      /\ app'.clordid_map[m.cl] = id
      /\ \A x \in DOMAIN names : x # m.cl => app'.clordid_map[x] = names[x]
      /\ DOMAIN app'.orderid_to_clordid_map = DOMAIN app.orderid_to_clordid_map \cup {id}
      /\ app'.orderid_to_clordid_map[id] = m.cl
      /\ \A x \in DOMAIN app.orderid_to_clordid_map : x # id =>
           app'.orderid_to_clordid_map[x] = app.orderid_to_clordid_map[x]
  BY <1>1 DEF NamesServed, NamedMaps, Put
<1>5. /\ id \in Nat
      /\ m.cl \in DOMAIN names => names[m.cl] <= id /\ (Sole(m.cl) => names[m.cl] = id)
  <2>1. CASE /\ m.kind = "D" /\ id = app.next_order_id
             /\ Sole(m.cl) => m.cl \notin DOMAIN app.clordid_map
    BY <1>1, <1>2, <1>3, <2>1
  <2>2. CASE /\ m.cl = CancelId(m.orig)
             /\ m.orig \in DOMAIN app.clordid_map /\ id = app.clordid_map[m.orig]
    <3>1. m.cl[1] = "CNL" /\ m.cl[3] = m.orig
      BY <2>2, SameOrigin
    <3>2. id \in Nat
      BY <1>1, <1>3, <2>2
    <3>3. ASSUME m.cl \in DOMAIN names
          PROVE  names[m.cl] <= id /\ (Sole(m.cl) => names[m.cl] = id)
      BY <1>1, <2>2, <3>1, <3>3 DEF NamesInv, CancelNamesFollow
    <3> QED BY <3>2, <3>3
  <2> QED BY <2>1, <2>2 DEF NamesServed
<1>6. ASSUME NEW x \in DOMAIN names
      PROVE  /\ names[x] \in Nat /\ names[x] <= app'.clordid_map[x]
             /\ x # m.cl \/ Sole(x) => app'.clordid_map[x] = names[x]
  <2>1. names[x] \in Nat
    BY <1>3
  <2>2. CASE x = m.cl
    BY <1>4, <1>5, <2>1, <2>2
  <2>3. CASE x # m.cl
    BY <1>4, <2>1, <2>3
  <2> QED BY <2>2, <2>3, <2>1
<1> QED BY <1>1, <1>4, <1>5, <1>6

\* The orders still on their way are as fresh as they were.
LEMMA ServeFresh ==
  ASSUME TypeOK, NamesInv, NEW c \in Clients, Serve(c), NEW m, m = Head(to_exchange[c]),
         DOMAIN app'.clordid_map \subseteq DOMAIN app.clordid_map \cup {m.cl}
  PROVE  OrderNamesFresh'
<1>1. /\ to_exchange[c] # <<>> /\ to_exchange' = [to_exchange EXCEPT ![c] = Tail(@)]
      /\ reused' = reused
  BY DEF Serve
<1>2. \A d \in Clients : \A i \in DOMAIN to_exchange'[d] :
        /\ Was(c, d, i) \in DOMAIN to_exchange[d]
        /\ to_exchange'[d][i] = to_exchange[d][Was(c, d, i)]
        /\ ~(d = c /\ Was(c, d, i) = 1)
        /\ \A j \in DOMAIN to_exchange'[d] : Was(c, d, i) = Was(c, d, j) => i = j
  BY <1>1, ServedQueues
<1>3. 1 \in DOMAIN to_exchange[c] /\ to_exchange[c][1] = m /\ RequestOK(m)
  BY ServedOnly
<1>4. m.kind # "D" => m.cl = CancelId(m.orig)
  BY <1>3 DEF NamesInv, CancelNamesFollow
<1>5. \A name : Sole(name)' <=> Sole(name)
  BY <1>1 DEF Sole
<1> SUFFICES ASSUME NEW d \in Clients, NEW i \in DOMAIN to_exchange'[d],
                    to_exchange'[d][i].kind = "D",
                    NEW name, name = to_exchange'[d][i].cl
             PROVE  /\ name[1] # "CNL"
                    /\ Sole(name) =>
                         /\ name \notin DOMAIN app'.clordid_map
                         /\ \A e \in Clients : \A j \in DOMAIN to_exchange'[e] :
                              to_exchange'[e][j].kind = "D" /\ to_exchange'[e][j].cl = name
                                => e = d /\ j = i
  BY <1>5 DEF OrderNamesFresh
<1>6. PICK k \in DOMAIN to_exchange[d] :
        k = Was(c, d, i) /\ to_exchange'[d][i] = to_exchange[d][k] /\ ~(d = c /\ k = 1)
  BY <1>2
<1>7. /\ name[1] # "CNL"
      /\ Sole(name) =>
           /\ name \notin DOMAIN app.clordid_map
           /\ \A e \in Clients : \A j \in DOMAIN to_exchange[e] :
                to_exchange[e][j].kind = "D" /\ to_exchange[e][j].cl = name => e = d /\ j = k
  BY <1>6 DEF NamesInv, OrderNamesFresh
<1>8. ASSUME Sole(name) PROVE name # m.cl
  <2>1. CASE m.kind = "D"
    BY <1>3, <1>6, <1>7, <1>8, <2>1
  <2>2. CASE m.kind # "D"
    <3>1. m.cl[1] = "CNL"
      BY <1>4, <2>2, SameOrigin
    <3> QED BY <1>7, <3>1
  <2> QED BY <2>1, <2>2
<1>9. ASSUME Sole(name), NEW e \in Clients, NEW j \in DOMAIN to_exchange'[e],
             to_exchange'[e][j].kind = "D", to_exchange'[e][j].cl = name
      PROVE  e = d /\ j = i
  <2>1. /\ Was(c, e, j) \in DOMAIN to_exchange[e]
        /\ to_exchange'[e][j] = to_exchange[e][Was(c, e, j)]
    BY <1>2
  <2>2. e = d /\ Was(c, e, j) = k
    BY <1>7, <1>9, <2>1
  <2> QED BY <1>2, <1>6, <2>2
<1> QED BY <1>7, <1>8, <1>9

\* The names cancels brought follow those they were made from.
LEMMA ServeFollow ==
  ASSUME TypeOK, NamesInv, NEW m, NEW id, NamesServed(m, id), reused' = reused,
         \A x : OnItsWay(x)' => OnItsWay(x)
  PROVE  CancelNamesFollow'
<1>1. /\ id \in Nat
      /\ DOMAIN app'.clordid_map = DOMAIN app.clordid_map \cup {m.cl}
      /\ app'.clordid_map[m.cl] = id
      /\ \A x \in DOMAIN app.clordid_map :
           /\ app.clordid_map[x] \in Nat /\ app.clordid_map[x] <= app'.clordid_map[x]
           /\ x # m.cl \/ Sole(x) => app'.clordid_map[x] = app.clordid_map[x]
  BY ServedMaps
<1>2. \A name : Sole(name)' <=> Sole(name)
  BY DEF Sole
<1>3. \A d \in Clients : \A i \in DOMAIN to_exchange'[d] : to_exchange'[d][i].kind # "D" =>
        to_exchange'[d][i].kind = "F"
          /\ to_exchange'[d][i].cl = CancelId(to_exchange'[d][i].orig)
  <2>1. ASSUME NEW d \in Clients, NEW i \in DOMAIN to_exchange'[d], NEW x,
               x = to_exchange'[d][i], x.kind # "D"
        PROVE  x.kind = "F" /\ x.cl = CancelId(x.orig)
    <3>1. OnItsWay(x)
      BY <2>1 DEF OnItsWay
    <3> QED BY <2>1, <3>1 DEF NamesInv, CancelNamesFollow, OnItsWay
  <2> QED BY <2>1
<1>4. ASSUME NEW name \in DOMAIN app'.clordid_map, name[1] = "CNL"
      PROVE  /\ name = CancelId(name[3]) /\ name[3] \in DOMAIN app'.clordid_map
             /\ app'.clordid_map[name] <= app'.clordid_map[name[3]]
             /\ Sole(name) => app'.clordid_map[name] = app'.clordid_map[name[3]]
  <2>1. CASE name = m.cl
    <3>1. /\ m.cl = CancelId(m.orig) /\ m.orig \in DOMAIN app.clordid_map
          /\ id = app.clordid_map[m.orig]
      BY <1>4, <2>1 DEF NamesServed
    <3>2. name[3] = m.orig
      BY <2>1, <3>1, SameOrigin
    <3>3. app'.clordid_map[m.orig] = id
      <4>1. CASE m.orig = m.cl
        BY <1>1, <4>1
      <4>2. CASE m.orig # m.cl
        BY <1>1, <3>1, <4>2
      <4> QED BY <4>1, <4>2
    <3> QED BY <1>1, <2>1, <3>1, <3>2, <3>3
  <2>2. CASE name # m.cl
    <3>1. PICK old : old = name[3]
      OBVIOUS
    <3>2. /\ name \in DOMAIN app.clordid_map
          /\ name = CancelId(old) /\ old \in DOMAIN app.clordid_map
          /\ app.clordid_map[name] <= app.clordid_map[old]
          /\ Sole(name) => app.clordid_map[name] = app.clordid_map[old]
      BY <1>1, <1>4, <2>2, <3>1 DEF NamesInv, CancelNamesFollow
    <3>3. app'.clordid_map[name] = app.clordid_map[name]
      BY <1>1, <2>2, <3>2
    <3>4. /\ app.clordid_map[name] \in Nat /\ app.clordid_map[old] \in Nat
          /\ app.clordid_map[old] <= app'.clordid_map[old]
      BY <1>1, <3>2
    <3>5. Sole(name) => Sole(old)
      BY <3>2, SameOrigin DEF Sole
    <3>6. app'.clordid_map[old] \in Nat
      <4>1. CASE old = m.cl
        BY <1>1, <4>1
      <4>2. CASE old # m.cl
        BY <1>1, <3>2, <3>4, <4>2
      <4> QED BY <4>1, <4>2
    <3>7. app'.clordid_map[name] <= app'.clordid_map[old]
      BY <3>2, <3>3, <3>4, <3>6
    <3>8. Sole(name) => app'.clordid_map[name] = app'.clordid_map[old]
      BY <1>1, <3>2, <3>3, <3>5
    <3> QED BY <1>1, <3>1, <3>2, <3>7, <3>8
  <2> QED BY <2>1, <2>2
<1> QED BY <1>2, <1>3, <1>4 DEF CancelNamesFollow

\* The order served has its name; an order that lost this name to it is older and
\* had the name in common with another.
LEMMA ServeAgree ==
  ASSUME TypeOK, NamesInv, NEW m, NEW id, NamesServed(m, id), reused' = reused
  PROVE  MapsAgree'
<1>1. /\ id \in Nat
      /\ DOMAIN app'.clordid_map = DOMAIN app.clordid_map \cup {m.cl}
      /\ app'.clordid_map[m.cl] = id
      /\ \A x \in DOMAIN app.clordid_map :
           /\ app.clordid_map[x] \in Nat /\ app.clordid_map[x] <= app'.clordid_map[x]
           /\ x # m.cl \/ Sole(x) => app'.clordid_map[x] = app.clordid_map[x]
      /\ DOMAIN app'.orderid_to_clordid_map = DOMAIN app.orderid_to_clordid_map \cup {id}
      /\ app'.orderid_to_clordid_map[id] = m.cl
      /\ \A x \in DOMAIN app.orderid_to_clordid_map : x # id =>
           app'.orderid_to_clordid_map[x] = app.orderid_to_clordid_map[x]
  BY ServedMaps
<1>2. \A name : Sole(name)' <=> Sole(name)
  BY DEF Sole
<1>3. \A x \in DOMAIN app.orderid_to_clordid_map : x \in Nat
  BY TypeIs DEF Fields, AppOK, OrderId
<1>4. ASSUME NEW x \in DOMAIN app'.orderid_to_clordid_map, NEW cl,
             cl = app'.orderid_to_clordid_map[x]
      PROVE  /\ cl \in DOMAIN app'.clordid_map /\ x <= app'.clordid_map[cl]
             /\ Sole(cl) => app'.clordid_map[cl] = x
  <2>1. CASE x = id
    BY <1>1, <1>4, <2>1
  <2>2. CASE x # id
    <3>1. x \in DOMAIN app.orderid_to_clordid_map /\ cl = app.orderid_to_clordid_map[x]
      BY <1>1, <1>4, <2>2
    <3>2. /\ cl \in DOMAIN app.clordid_map /\ x <= app.clordid_map[cl]
          /\ Sole(cl) => app.clordid_map[cl] = x
      BY <3>1 DEF NamesInv, MapsAgree
    <3>3. /\ app.clordid_map[cl] \in Nat /\ app.clordid_map[cl] <= app'.clordid_map[cl]
          /\ Sole(cl) => app'.clordid_map[cl] = app.clordid_map[cl]
      BY <1>1, <3>2
    <3>4. app'.clordid_map[cl] \in Nat
      <4>1. CASE cl = m.cl
        BY <1>1, <4>1
      <4>2. CASE cl # m.cl
        BY <1>1, <3>2, <3>3, <4>2
      <4> QED BY <4>1, <4>2
    <3>5. x <= app'.clordid_map[cl]
      BY <1>3, <3>1, <3>2, <3>3, <3>4
    <3> QED BY <1>1, <3>2, <3>3, <3>5
  <2> QED BY <2>1, <2>2
<1> QED BY <1>2, <1>4 DEF MapsAgree

\* Serving a request keeps the names in order.
LEMMA ServeNames ==
  ASSUME TypeOK, NamesInv, NEW c \in Clients, Serve(c)
  PROVE  NamesInv'
<1>1. PICK m : m = Head(to_exchange[c])
  OBVIOUS
<1>2. /\ UNCHANGED <<active_sessions, user_order_seq, typed, reused>>
      /\ (app' = app /\ m.kind = "F") \/ \E id : NamesServed(m, id)
  BY <1>1, ServedNames
<1>3. OnItsWay(m) /\ RequestOK(m) /\ \A x : OnItsWay(x)' => OnItsWay(x)
  BY <1>1, ServedOnly
<1>4. CancelNamesFollow' /\ MapsAgree'
      /\ DOMAIN app'.clordid_map \subseteq DOMAIN app.clordid_map \cup {m.cl}
  <2>1. CASE app' = app
    <3>1. \A name : Sole(name)' <=> Sole(name)
      BY <1>2 DEF Sole
    <3>2. MapsAgree'
      BY <2>1, <3>1 DEF NamesInv, MapsAgree
    <3>3. \A d \in Clients : \A i \in DOMAIN to_exchange'[d] : to_exchange'[d][i].kind # "D" =>
            to_exchange'[d][i].kind = "F"
              /\ to_exchange'[d][i].cl = CancelId(to_exchange'[d][i].orig)
      <4>1. ASSUME NEW d \in Clients, NEW i \in DOMAIN to_exchange'[d], NEW x,
                   x = to_exchange'[d][i], x.kind # "D"
            PROVE  x.kind = "F" /\ x.cl = CancelId(x.orig)
        <5>1. OnItsWay(x)
          BY <1>3, <4>1 DEF OnItsWay
        <5> QED BY <4>1, <5>1 DEF NamesInv, CancelNamesFollow, OnItsWay
      <4> QED BY <4>1
    <3>4. CancelNamesFollow'
      BY <2>1, <3>1, <3>3 DEF NamesInv, CancelNamesFollow
    <3> QED BY <2>1, <3>2, <3>4
  <2>2. CASE \E id : NamesServed(m, id)
    <3>1. PICK id : NamesServed(m, id)
      BY <2>2
    <3>2. CancelNamesFollow' /\ MapsAgree'
      BY <1>2, <1>3, <3>1, ServeFollow, ServeAgree
    <3>3. DOMAIN app'.clordid_map = DOMAIN app.clordid_map \cup {m.cl}
      BY <3>1, ServedMaps
    <3> QED BY <3>2, <3>3
  <2> QED BY <1>2, <2>1, <2>2
<1>5. OrderNamesFresh'
  BY <1>1, <1>4, ServeFresh
<1>6. UserNamesSole'
  <2> SUFFICES ASSUME MaxStarts <= 1 PROVE UsersNumbered'
    BY UsersAreThen
  <2>1. /\ \A d \in Clients : typed.starts[d] = 0 => d \notin active_sessions /\ user_order_seq[d] = 1
        /\ \A name \in DOMAIN app.clordid_map : Numbered(name)
        /\ \A x : OnItsWay(x) /\ x.kind = "D" => Numbered(x.cl)
        /\ \A name \in reused : name[1] = "BG"
    BY UsersAre DEF NamesInv, UsersNumbered
  <2>2. \A name : Numbered(name)' <=> Numbered(name)
    BY <1>2 DEF Numbered
  <2>3. Numbered(m.cl)
    <3>1. CASE m.kind = "D"
      BY <1>3, <2>1, <3>1
    <3>2. CASE m.kind # "D"
      <4>1. m.cl = CancelId(m.orig)
        BY <1>3, <3>2 DEF NamesInv, CancelNamesFollow, OnItsWay
      <4>2. m.cl[1] = "CNL"
        BY <4>1, SameOrigin
      <4> QED BY <4>2 DEF Numbered
    <3> QED BY <3>1, <3>2
  <2>4. \A x : OnItsWay(x)' /\ x.kind = "D" => Numbered(x.cl)'
    BY <1>3, <2>1, <2>2
  <2>5. \A name \in DOMAIN app'.clordid_map : Numbered(name)'
    BY <1>4, <2>1, <2>2, <2>3
  <2> QED BY <1>2, <2>1, <2>4, <2>5 DEF UsersNumbered
<1> QED BY <1>4, <1>5, <1>6 DEF NamesInv

-----------------------------------------------------------------------------
(* Every step.                                                             *)

\* Every step keeps the names in order.
LEMMA NamesStep ==
  ASSUME TypeOK, NamesInv, [Next]_vars
  PROVE  NamesInv'
<1>1. CASE UNCHANGED vars
  <2>1. UNCHANGED <<app, active_sessions, to_exchange, user_order_seq, typed, reused>>
    BY <1>1 DEF vars, acceptor, counters
  <2>2. UserNamesSole'
    BY <2>1 DEF NamesInv, UserNamesSole, Numbered
  <2> QED BY <2>1, <2>2, NamesLeftAlone
<1>2. ASSUME NEW c \in Clients, Command(c) \/ Serve(c) \/ handle_message(c)
      PROVE  NamesInv'
  <2>1. CASE submit_bg_order(c) \/ submit_user_order(c)
    <3>1. PICK m : AskSent(c, m)
      BY <2>1, AskIs
    <3>2. OrderNamesFresh' /\ CancelNamesFollow' /\ MapsAgree'
      BY <3>1, AskFresh
    <3>3. UserNamesSole'
      BY <3>1, AskNumbered
    <3> QED BY <3>2, <3>3 DEF NamesInv
  <2>2. CASE RequestCancel(c)
    <3>1. PICK m : CancelSent(c, m)
      BY <2>2, CancelIs
    <3> QED BY <3>1, CancelNames
  <2> QED BY <1>2, <2>1, <2>2, StartNames, ClientNames, ServeNames DEF Command
<1> QED BY <1>1, <1>2 DEF Next

\* At the start there are no names.
LEMMA NamesInit == Init => NamesInv
<1> SUFFICES ASSUME Init PROVE NamesInv
  OBVIOUS
<1>1. app.clordid_map = <<>> /\ app.orderid_to_clordid_map = <<>>
  BY DEF Init, NewApp
<1>2. \A c \in Clients : to_exchange[c] = <<>> /\ DOMAIN to_exchange[c] = {}
  BY DEF Init
<1>3. DOMAIN app.clordid_map = {} /\ DOMAIN app.orderid_to_clordid_map = {}
  BY <1>1
<1>4. UserNamesSole
  BY <1>2, <1>3 DEF Init, UserNamesSole
<1> QED BY <1>2, <1>3, <1>4 DEF NamesInv, OrderNamesFresh, CancelNamesFollow, MapsAgree

\* The ClOrdIDs clients make up (submit_bg_order, submit_user_order and cancel
\* of fix_tui_client.py), however many clients pre-populate the books and are
\* started again: those of orders on their way are fresh, and those of cancels
\* stand for one order with the ids they were made from, unless several orders
\* were sent under one; and while each client is started once, these are orders
\* of pre_populate_books.
THEOREM NamesInvAlways == Spec => []NamesInv
<1>1. Init => TypeOK /\ NamesInv
  BY TypeInit, NamesInit
<1>2. TypeOK /\ NamesInv /\ [Next]_vars => (TypeOK /\ NamesInv)'
  BY TypeStep, NamesStep
<1> QED BY <1>1, <1>2, PTL DEF Spec

\* What holds of the "Bidirectional ClOrdID <-> OrderID State Mapping": following
\* an order to its ClOrdID and back gives the order, or a younger one that was
\* sent under the same ClOrdID.
THEOREM MapsAgreeAlways == Spec => []MapsAgree
<1>1. NamesInv => MapsAgree
  BY DEF NamesInv
<1> QED BY <1>1, NamesInvAlways, PTL


-----------------------------------------------------------------------------
(* What the clients know of the orders.                                    *)

\* What TrackInv says of what client d has yet to store, and of client d.
PendingTrue(d) == unwritten[d] # <<>> => NameTrue(unwritten[d][1], unwritten[d][2])

UpToDate(d) ==
  /\ \A i \in DOMAIN to_client[d] : ReportTrue(to_client[d][i])
  /\ \A cl \in DOMAIN orders[d] : NameTrue(cl, orders[d][cl])
  /\ PendingTrue(d)
  /\ d \in active_sessions => \A id \in DOMAIN app.ex.order_states : Current(d, id)

\* The tracking is right when that of each client is.
LEMMA TrackIs == TrackInv <=> \A d \in Clients : UpToDate(d)
BY DEF TrackInv, UpToDate, PendingTrue

\* What is true of a name stays so.
NamesHold == \A cl, terms : NameTrue(cl, terms) => NameTrue(cl, terms)'

\* What an entry has to do with its order when the acceptor does nothing.
LEMMA SettledStays ==
  ASSUME NEW d, NEW id, app' = app, orders'[d] = orders[d], joined'[d] = joined[d],
         reused \subseteq reused'
  PROVE  Settled(d, id) => Settled(d, id)'
BY DEF Settled, Sole

\* The same of what is current.
LEMMA CurrentStays ==
  ASSUME NEW d, NEW id, app' = app, orders'[d] = orders[d], joined'[d] = joined[d],
         to_client'[d] = to_client[d], reused \subseteq reused'
  PROVE  Current(d, id) => Current(d, id)'
<1>1. Settled(d, id) => Settled(d, id)'
  BY SettledStays
<1>2. Coming(d, id)' = Coming(d, id)
  BY DEF Coming
<1> QED BY <1>1, <1>2 DEF Current

\* Nothing new is known of client d's reports and entries.
Keeps(d) ==
  /\ to_client'[d] = to_client[d] /\ orders'[d] = orders[d] /\ joined'[d] = joined[d]
  /\ d \in active_sessions' => d \in active_sessions

\* Such a client is as up to date as it was when the acceptor does nothing.
LEMMA UpToDateStays ==
  ASSUME NEW d, UpToDate(d), NamesHold, app' = app, reused \subseteq reused', Keeps(d),
         unwritten'[d] = unwritten[d] \/ PendingTrue(d)'
  PROVE  UpToDate(d)'
<1>1. /\ to_client'[d] = to_client[d] /\ orders'[d] = orders[d] /\ joined'[d] = joined[d]
      /\ d \in active_sessions' => d \in active_sessions
  BY DEF Keeps
<1>2. \A id : Current(d, id) => Current(d, id)'
  BY <1>1, CurrentStays
<1>3. \A r : ReportTrue(r) => ReportTrue(r)'
  BY DEF ReportTrue, Sole
<1>4. \A i \in DOMAIN to_client[d] : ReportTrue(to_client[d][i])
  BY DEF UpToDate
<1>5. (\A i \in DOMAIN to_client[d] : ReportTrue(to_client[d][i]))'
  BY <1>1, <1>3, <1>4
<1>6. (\A cl \in DOMAIN orders[d] : NameTrue(cl, orders[d][cl]))'
  BY <1>1 DEF UpToDate, NamesHold
<1>7. PendingTrue(d)'
  BY <1>1 DEF UpToDate, PendingTrue, NamesHold
<1>8. (d \in active_sessions => \A id \in DOMAIN app.ex.order_states : Current(d, id))'
  BY <1>1, <1>2 DEF UpToDate
<1> QED BY <1>5, <1>6, <1>7, <1>8 DEF UpToDate

\* Names stay true when the acceptor does nothing, the orders on their way still are,
\* and one that is sent has a fresh name or is not the only one of its name.
LEMMA NamesStay ==
  ASSUME NamesInv, app' = app, reused \subseteq reused',
         \A x : OnItsWay(x) /\ x.kind = "D" => OnItsWay(x)',
         \A x : OnItsWay(x)' /\ x.kind = "D" =>
           OnItsWay(x) \/ ~InUse(x.cl) \/ ~Sole(x.cl)'
  PROVE  NamesHold
<1>1. ASSUME NEW cl, NEW terms, NameTrue(cl, terms) PROVE NameTrue(cl, terms)'
  <2>1. InUse(cl) /\ (Sole(cl)' => Sole(cl))
    BY <1>1 DEF NameTrue, Sole
  <2>2. InUse(cl)'
    <3>1. cl \in DOMAIN app.clordid_map \/ \E x : OnItsWay(x) /\ x.kind = "D" /\ x.cl = cl
      BY <2>1, InUseIs
    <3>2. cl \in DOMAIN app'.clordid_map \/ \E x : OnItsWay(x)' /\ x.kind = "D" /\ x.cl = cl
      BY <3>1
    <3> QED BY <3>2 DEF InUse, OnItsWay
  <2>3. ASSUME Sole(cl)', NEW d \in Clients, NEW i \in DOMAIN to_exchange'[d],
               to_exchange'[d][i].kind = "D", to_exchange'[d][i].cl = cl
        PROVE  SameTerms(terms, to_exchange'[d][i].order)
    <3>1. PICK m : m = to_exchange'[d][i]
      OBVIOUS
    <3>2. OnItsWay(m)' /\ m.kind = "D" /\ m.cl = cl
      BY <2>3, <3>1 DEF OnItsWay
    <3>3. ~Sole(m.cl)' => ~Sole(cl)'
      BY <3>2 DEF Sole
    <3>4. InUse(m.cl)
      BY <2>1, <3>2
    <3>5. OnItsWay(m)
      BY <2>3, <3>2, <3>3, <3>4
    <3> QED BY <1>1, <2>1, <2>3, <3>1, <3>2, <3>5 DEF OnItsWay, NameTrue
  <2>4. Sole(cl)' /\ cl \in DOMAIN app.clordid_map =>
          SameTerms(terms, app.ex.order_states[app.clordid_map[cl]])
    BY <1>1, <2>1 DEF NameTrue
  <2> QED BY <2>2, <2>3, <2>4 DEF NameTrue
<1> QED BY <1>1 DEF NamesHold

\* A client that logs on has seen no order yet.
LEMMA StartTrack ==
  ASSUME TypeOK, NamesInv, TrackInv, NEW c \in Clients, Start(c)
  PROVE  TrackInv'
<1>1. Fields /\ \A d \in Clients : ClientOK(d) /\ UpToDate(d)
  BY TypeIs, TrackIs
<1>2. /\ UNCHANGED <<app, to_exchange, to_client, unwritten, reused>> /\ c \notin active_sessions
      /\ orders' = [orders EXCEPT ![c] = <<>>]
      /\ joined' = [joined EXCEPT ![c] = [order |-> app.next_order_id,
                                          trade |-> Len(executed) + 1]]
      /\ active_sessions' = active_sessions \cup {c}
  BY DEF Start
<1>3. NamesHold
  <2>1. \A x : OnItsWay(x)' <=> OnItsWay(x)
    BY <1>2 DEF OnItsWay
  <2> QED BY <1>2, <2>1, NamesStay
<1>4. ASSUME NEW d \in Clients PROVE UpToDate(d)'
  <2>1. CASE d # c
    <3>1. Keeps(d)
      BY <1>1, <1>2, <2>1 DEF Keeps, Fields
    <3> QED BY <1>1, <1>2, <1>3, <3>1, UpToDateStays
  <2>2. CASE d = c
    <3>1. orders'[c] = <<>> /\ joined'[c].order = app.next_order_id /\ to_client'[c] = <<>>
      BY <1>1, <1>2 DEF Fields, ClientOK
    <3>2. DOMAIN orders'[c] = {} /\ DOMAIN to_client'[c] = {}
      BY <3>1
    <3>3. PendingTrue(c)'
      BY <1>1, <1>2, <1>3 DEF PendingTrue, UpToDate, NamesHold
    <3>4. ASSUME NEW id \in DOMAIN app.ex.order_states PROVE Current(c, id)'
      <4>1. id < joined'[c].order
        BY <1>1, <3>1 DEF Fields, AppOK, OrderId
      <4>2. Settled(c, id)'
        BY <3>2, <4>1 DEF Settled
      <4>3. Coming(c, id)' = {}
        BY <3>2 DEF Coming
      <4> QED BY <4>2, <4>3 DEF Current
    <3> QED BY <1>2, <2>2, <3>2, <3>3, <3>4 DEF UpToDate
  <2> QED BY <2>1, <2>2
<1> QED BY <1>4 DEF TrackInv, UpToDate, PendingTrue

\* What a client knew when it quits need not be so any more.
LEMMA QuitTrack ==
  ASSUME TypeOK, NamesInv, TrackInv, NEW c \in Clients, Quit(c)
  PROVE  TrackInv'
<1>1. Fields /\ \A d \in Clients : UpToDate(d)
  BY TypeIs, TrackIs
<1>2. /\ UNCHANGED <<app, to_exchange, orders, unwritten, joined, reused>>
      /\ active_sessions' = active_sessions \ {c}
      /\ to_client' = [to_client EXCEPT ![c] = <<>>]
  BY DEF Quit, counters
<1>3. NamesHold
  <2>1. \A x : OnItsWay(x)' <=> OnItsWay(x)
    BY <1>2 DEF OnItsWay
  <2> QED BY <1>2, <2>1, NamesStay
<1>4. ASSUME NEW d \in Clients PROVE UpToDate(d)'
  <2>1. CASE d # c
    <3>1. Keeps(d)
      BY <1>1, <1>2, <2>1 DEF Keeps, Fields
    <3> QED BY <1>1, <1>2, <1>3, <3>1, UpToDateStays
  <2>2. CASE d = c
    <3>1. to_client'[c] = <<>> /\ c \notin active_sessions'
      BY <1>1, <1>2 DEF Fields
    <3>2. DOMAIN to_client'[c] = {}
      BY <3>1
    <3>3. PendingTrue(c)'
      BY <1>1, <1>2, <1>3 DEF PendingTrue, UpToDate, NamesHold
    <3>4. (\A cl \in DOMAIN orders[c] : NameTrue(cl, orders[c][cl]))'
      BY <1>1, <1>2, <1>3 DEF UpToDate, NamesHold
    <3> QED BY <2>2, <3>1, <3>2, <3>3, <3>4 DEF UpToDate
  <2> QED BY <2>1, <2>2
<1> QED BY <1>4 DEF TrackInv, UpToDate, PendingTrue

\* An order is sent: the name it may be stored under is fresh, or not its alone.
LEMMA AskTrack ==
  ASSUME TypeOK, NamesInv, TrackInv, NEW c \in Clients, NEW m, AskSent(c, m)
  PROVE  TrackInv'
<1>1. Fields /\ \A d \in Clients : UpToDate(d)
  BY TypeIs, TrackIs
<1>2. /\ app' = app /\ m.kind = "D" /\ m.cl[1] # "CNL" /\ Sent(c, m)
      /\ reused' = IF InUse(m.cl) THEN reused \cup {m.cl} ELSE reused
      /\ unwritten' = unwritten \/ unwritten' = [unwritten EXCEPT ![c] = <<m.cl, m.order>>]
      /\ UNCHANGED <<active_sessions, to_client, orders, joined>>
  BY DEF AskSent, Sent
<1>3. reused \subseteq reused' /\ (~InUse(m.cl) \/ ~Sole(m.cl)')
  BY <1>2 DEF Sole, Of
<1>4. \A x : OnItsWay(x)' <=> OnItsWay(x) \/ x = m
  BY <1>2, SentOnly
<1>5. NamesHold
  <2>1. \A x : OnItsWay(x) /\ x.kind = "D" => OnItsWay(x)'
    BY <1>4
  <2>2. ASSUME NEW x, OnItsWay(x)', x.kind = "D"
        PROVE  OnItsWay(x) \/ ~InUse(x.cl) \/ ~Sole(x.cl)'
    <3>1. CASE x = m
      <4>1. ~Sole(m.cl)' => ~Sole(x.cl)'
        BY <3>1 DEF Sole
      <4> QED BY <1>3, <3>1, <4>1
    <3> QED BY <1>4, <2>2, <3>1
  <2> QED BY <1>2, <1>3, <2>1, <2>2, NamesStay
<1>6. NameTrue(m.cl, m.order)'
  <2>1. InUse(m.cl)'
    BY <1>2, <1>4 DEF InUse, OnItsWay
  <2>2. ASSUME Sole(m.cl)', NEW d \in Clients, NEW i \in DOMAIN to_exchange'[d],
               to_exchange'[d][i].kind = "D", to_exchange'[d][i].cl = m.cl
        PROVE  SameTerms(m.order, to_exchange'[d][i].order)
    <3>1. PICK x : x = to_exchange'[d][i]
      OBVIOUS
    <3>2. OnItsWay(x) \/ x = m
      BY <1>4, <3>1 DEF OnItsWay
    <3>3. ~OnItsWay(x)
      BY <1>3, <2>2, <3>1, InUseIs
    <3> QED BY <3>1, <3>2, <3>3 DEF SameTerms
  <2>3. Sole(m.cl)' => m.cl \notin DOMAIN app'.clordid_map
    BY <1>2, <1>3 DEF InUse
  <2> QED BY <2>1, <2>2, <2>3 DEF NameTrue
<1>7. ASSUME NEW d \in Clients PROVE UpToDate(d)'
  <2>1. Keeps(d)
    BY <1>2 DEF Keeps
  <2>2. unwritten'[d] = unwritten[d] \/ unwritten'[d] = <<m.cl, m.order>>
    BY <1>1, <1>2 DEF Fields
  <2>3. unwritten'[d] = unwritten[d] \/ PendingTrue(d)'
    <3>1. CASE unwritten'[d] = <<m.cl, m.order>>
      <4>1. unwritten'[d][1] = m.cl /\ unwritten'[d][2] = m.order
        BY <3>1
      <4> QED BY <1>6, <4>1 DEF PendingTrue, NameTrue, InUse, Sole
    <3> QED BY <2>2, <3>1
  <2> QED BY <1>1, <1>2, <1>3, <1>5, <2>1, <2>3, UpToDateStays
<1> QED BY <1>7 DEF TrackInv, UpToDate, PendingTrue

\* A cancel is sent: nothing that a client has is of it.
LEMMA CancelTrack ==
  ASSUME TypeOK, NamesInv, TrackInv, NEW c \in Clients, RequestCancel(c)
  PROVE  TrackInv'
<1>1. Fields /\ \A d \in Clients : UpToDate(d)
  BY TypeIs, TrackIs
<1>2. PICK m : CancelSent(c, m)
  BY CancelIs
<1>3. /\ Sent(c, m) /\ m.kind = "F"
      /\ UNCHANGED <<app, active_sessions, to_client, orders, unwritten, joined, reused>>
  BY <1>2 DEF CancelSent, Sent
<1>4. \A x : OnItsWay(x)' <=> OnItsWay(x) \/ x = m
  BY <1>3, SentOnly
<1>5. NamesHold
  <2>1. \A x : x.kind = "D" => (OnItsWay(x)' <=> OnItsWay(x))
    BY <1>3, <1>4
  <2> QED BY <1>3, <2>1, NamesStay
<1>6. ASSUME NEW d \in Clients PROVE UpToDate(d)'
  <2>1. Keeps(d)
    BY <1>3 DEF Keeps
  <2> QED BY <1>1, <1>3, <1>5, <2>1, UpToDateStays
<1> QED BY <1>6 DEF TrackInv, UpToDate, PendingTrue

\* The entry of an order sent is stored, over one of the same order if there is one.
LEMMA StoreTrack ==
  ASSUME TypeOK, NamesInv, TrackInv, NEW c \in Clients, StorePending(c)
  PROVE  TrackInv'
<1>1. Fields /\ \A d \in Clients : UpToDate(d)
  BY TypeIs, TrackIs
<1>2. PICK o : o = unwritten[c][2]
  OBVIOUS
<1>3. PICK entry : entry = OrderEntry(o.symbol, o.side, o.price, o.quantity, "Pending")
  OBVIOUS
<1>4. PICK cl : cl = unwritten[c][1]
  OBVIOUS
<1>5. PICK stored : stored = Put(orders[c], cl, entry)
  OBVIOUS
<1>6. /\ UNCHANGED <<app, active_sessions, to_exchange, to_client, joined, reused>>
      /\ unwritten[c] # <<>>
      /\ orders' = [orders EXCEPT ![c] = Put(@, cl, entry)]
      /\ unwritten' = [unwritten EXCEPT ![c] = <<>>]
  BY <1>2, <1>3, <1>4, Zenon DEF StorePending, acceptor, counters
<1>7. NamesHold
  <2>1. \A x : OnItsWay(x)' <=> OnItsWay(x)
    BY <1>6 DEF OnItsWay
  <2> QED BY <1>6, <2>1, NamesStay
<1>8. ASSUME NEW d \in Clients PROVE UpToDate(d)'
  <2>1. CASE d # c
    <3>1. Keeps(d) /\ unwritten'[d] = unwritten[d]
      BY <1>1, <1>6, <2>1 DEF Keeps, Fields
    <3> QED BY <1>1, <1>6, <1>7, <3>1, UpToDateStays
  <2>2. CASE d = c
    <3>1. orders'[c] = stored /\ unwritten'[c] = <<>> /\ UpToDate(c)
      BY <1>1, <1>5, <1>6 DEF Fields
    <3>2. /\ DOMAIN stored = DOMAIN orders[c] \cup {cl} /\ stored[cl] = entry
          /\ \A x \in DOMAIN orders[c] \ {cl} : stored[x] = orders[c][x]
      BY <1>5 DEF Put
    <3>3. NameTrue(cl, entry)
      <4>1. NameTrue(cl, o)
        BY <1>2, <1>4, <1>6, <3>1 DEF UpToDate, PendingTrue
      <4>2. \A x : SameTerms(o, x) => SameTerms(entry, x)
        BY <1>3 DEF OrderEntry, SameTerms
      <4> QED BY <4>1, <4>2 DEF NameTrue
    <3>4. (\A x \in DOMAIN orders[c] : NameTrue(x, orders[c][x]))'
      <4>1. ASSUME NEW x \in DOMAIN stored PROVE NameTrue(x, stored[x])'
        <5>1. NameTrue(x, stored[x])
          BY <3>1, <3>2, <3>3 DEF UpToDate
        <5> QED BY <1>7, <5>1 DEF NamesHold
      <4> QED BY <3>1, <4>1
    <3>5. (\A i \in DOMAIN to_client[c] : ReportTrue(to_client[c][i]))'
      BY <1>6, <3>1 DEF UpToDate, ReportTrue, Sole
    <3>6. PendingTrue(c)'
      BY <3>1 DEF PendingTrue
    <3>7. ASSUME NEW id, Current(c, id) PROVE Current(c, id)'
      <4>1. entry.status = "Pending"
        BY <1>3 DEF OrderEntry
      <4>2. Settled(c, id) => Settled(c, id)'
        BY <1>6, <3>1, <3>2, <4>1 DEF Settled, Sole
      <4>3. Coming(c, id)' = Coming(c, id)
        BY <1>6 DEF Coming
      <4> QED BY <1>6, <3>7, <4>2, <4>3 DEF Current
    <3> QED BY <1>6, <2>2, <3>1, <3>4, <3>5, <3>6, <3>7 DEF UpToDate
  <2> QED BY <2>1, <2>2
<1> QED BY <1>8 DEF TrackInv, UpToDate, PendingTrue

\* The first of some reports, and the others.
LEMMA FirstReport ==
  ASSUME NEW names, NEW q, q \in Seq(ReportsOn(names)), q # <<>>,
         NEW r, r = Head(q), NEW rest, rest = Tail(q)
  PROVE  /\ r \in ReportsOn(names) /\ 1 \in DOMAIN q /\ q[1] = r
         /\ \A i \in DOMAIN rest : i \in Int /\ i + 1 \in DOMAIN q /\ rest[i] = q[i + 1]
         /\ \A j \in DOMAIN q : j \in Int /\ (j = 1 \/ j - 1 \in DOMAIN rest)
<1>1. PICK n \in Nat : n = Len(q)
  OBVIOUS
<1>2. PICK S : S = ReportsOn(names)
  OBVIOUS
<1>3. /\ r \in S /\ rest \in Seq(S) /\ Len(rest) = Len(q) - 1
      /\ \A i \in 1..Len(rest) : rest[i] = q[i + 1]
  BY <1>2, HeadTailProperties
<1>4. n # 0 /\ q[1] = r /\ DOMAIN q = 1..n
  BY <1>1
<1>5. DOMAIN rest = 1..(n - 1) /\ Len(rest) = n - 1
  <2>1. Len(rest) = n - 1
    BY <1>1, <1>3
  <2>2. DOMAIN rest = 1..Len(rest)
    BY <1>3, LenProperties, Zenon
  <2> QED BY <2>1, <2>2, Zenon
<1>6. ASSUME NEW i \in DOMAIN rest
      PROVE  i \in Int /\ i + 1 \in DOMAIN q /\ rest[i] = q[i + 1]
  <2>1. i \in 1..(n - 1) /\ i \in 1..Len(rest)
    BY <1>5, Zenon
  <2>2. i \in Int /\ i + 1 \in 1..n
    BY <2>1
  <2>3. rest[i] = q[i + 1]
    BY <1>3, <2>1, Zenon
  <2> QED BY <1>4, <2>2, <2>3, Zenon
<1>7. ASSUME NEW j \in DOMAIN q PROVE j \in Int /\ (j = 1 \/ j - 1 \in DOMAIN rest)
  BY <1>4, <1>5
<1> QED BY <1>2, <1>3, <1>4, <1>6, <1>7

\* What a report makes of the entries.
LEMMA TrackedIs ==
  ASSUME NEW names, NEW r \in ReportsOn(names),
         NEW entries, entries \in [DOMAIN entries -> Entries],
         NEW after, after = Tracked(entries, r)
  PROVE  /\ DOMAIN after = DOMAIN entries \cup {r.cl}
         /\ \A x \in DOMAIN entries : x # r.cl => after[x] = entries[x]
         /\ r.cl \in DOMAIN entries => SameTerms(after[r.cl], entries[r.cl])
         /\ r.cl \notin DOMAIN entries => SameTerms(after[r.cl], r.view)
         /\ \A st : SameTerms(after[r.cl], st) /\ r.view = View(st) =>
              after[r.cl] = TrueEntry(st)
<1>1. PICK v : v = r.view
  OBVIOUS
<1>2. PICK old : old = IF r.cl \in DOMAIN entries THEN entries[r.cl]
                       ELSE OrderEntry(v.symbol, v.side, v.price, v.leaves, "")
  OBVIOUS
<1>3. PICK e : e = [old EXCEPT !.leaves_qty = v.leaves, !.status = Shown(v.status)]
  OBVIOUS
<1>4. after = Put(entries, r.cl, e)
  BY <1>1, <1>2, <1>3, Zenon DEF Tracked
<1>5. /\ DOMAIN after = DOMAIN entries \cup {r.cl} /\ after[r.cl] = e
      /\ \A x \in DOMAIN entries : x # r.cl => after[x] = entries[x]
  BY <1>4 DEF Put
<1>6. old = [symbol |-> old.symbol, side |-> old.side, price |-> old.price,
             leaves_qty |-> old.leaves_qty, status |-> old.status]
  <2>1. CASE r.cl \in DOMAIN entries
    <3>1. old \in Entries
      BY <1>2, <2>1
    <3> QED BY <3>1 DEF Entries
  <2>2. CASE r.cl \notin DOMAIN entries
    <3>1. old = OrderEntry(v.symbol, v.side, v.price, v.leaves, "")
      BY <1>2, <2>2
    <3> QED BY <3>1 DEF OrderEntry
  <2> QED BY <2>1, <2>2
<1>7. e = [symbol |-> old.symbol, side |-> old.side, price |-> old.price,
           leaves_qty |-> v.leaves, status |-> Shown(v.status)]
  BY <1>3, <1>6
<1>8. SameTerms(e, old)
  BY <1>7 DEF SameTerms
<1>9. r.cl \in DOMAIN entries => SameTerms(e, entries[r.cl])
  BY <1>2, <1>8
<1>10. r.cl \notin DOMAIN entries => SameTerms(e, v)
  <2>1. SameTerms(OrderEntry(v.symbol, v.side, v.price, v.leaves, ""), v)
    BY DEF SameTerms, OrderEntry
  <2> QED BY <1>2, <1>8, <2>1 DEF SameTerms
<1>11. ASSUME NEW st, SameTerms(e, st), v = View(st) PROVE e = TrueEntry(st)
  <2>1. v.leaves = remaining_quantity(st) /\ v.status = st.order_status
    BY <1>11 DEF View
  <2>2. old.symbol = st.symbol /\ old.side = st.side /\ old.price = st.price
    BY <1>7, <1>11 DEF SameTerms
  <2> QED BY <1>7, <2>1, <2>2 DEF TrueEntry, OrderEntry
<1> QED BY <1>1, <1>5, <1>9, <1>10, <1>11

\* A report is handled: the last one on an order brings its entry up to date.
LEMMA HandleTrack ==
  ASSUME TypeOK, NamesInv, TrackInv, NEW c \in Clients, handle_message(c)
  PROVE  TrackInv'
<1>1. Fields /\ \A d \in Clients : UpToDate(d)
  BY TypeIs, TrackIs
<1>2. PICK q : q = to_client[c]
  OBVIOUS
<1>3. PICK r : r = Head(q)
  OBVIOUS
<1>4. PICK rest : rest = Tail(q)
  OBVIOUS
<1>5. PICK entries : entries = orders[c]
  OBVIOUS
<1>6. PICK after : after = Tracked(entries, r)
  OBVIOUS
<1>7. PICK names : names = DOMAIN app.clordid_map
  OBVIOUS
<1>8. UNCHANGED <<app, active_sessions, to_exchange, unwritten, joined, reused>>
  BY DEF handle_message, acceptor, counters
<1>9. /\ q # <<>> /\ q \in Seq(ReportsOn(names)) /\ c \in active_sessions
      /\ entries \in [DOMAIN entries -> Entries]
  BY <1>2, <1>5, <1>7, TypeIs DEF handle_message, ClientOK
<1>10. /\ orders'[c] = after /\ to_client'[c] = rest
       /\ \A d \in Clients \ {c} : orders'[d] = orders[d] /\ to_client'[d] = to_client[d]
  <2>1. /\ orders' = [orders EXCEPT ![c] = Tracked(@, r)]
        /\ to_client' = [to_client EXCEPT ![c] = Tail(@)]
    BY <1>2, <1>3, Zenon DEF handle_message
  <2> QED BY <1>1, <1>2, <1>4, <1>5, <1>6, <2>1 DEF Fields
<1>11. /\ r \in ReportsOn(names) /\ 1 \in DOMAIN q /\ q[1] = r
       /\ \A i \in DOMAIN rest : i \in Int /\ i + 1 \in DOMAIN q /\ rest[i] = q[i + 1]
       /\ \A j \in DOMAIN q : j \in Int /\ (j = 1 \/ j - 1 \in DOMAIN rest)
  BY <1>3, <1>4, <1>9, FirstReport
<1>12. /\ DOMAIN after = DOMAIN entries \cup {r.cl}
       /\ \A x \in DOMAIN entries : x # r.cl => after[x] = entries[x]
       /\ r.cl \in DOMAIN entries => SameTerms(after[r.cl], entries[r.cl])
       /\ r.cl \notin DOMAIN entries => SameTerms(after[r.cl], r.view)
       /\ \A st : SameTerms(after[r.cl], st) /\ r.view = View(st) => after[r.cl] = TrueEntry(st)
  <2>1. r \in ReportsOn(names)
    BY <1>11
  <2>2. entries \in [DOMAIN entries -> Entries]
    BY <1>9
  <2> QED BY <1>6, <2>1, <2>2, TrackedIs
<1>13. NamesHold
  <2>1. \A x : OnItsWay(x)' <=> OnItsWay(x)
    BY <1>8 DEF OnItsWay
  <2> QED BY <1>8, <2>1, NamesStay
<1>14. /\ r.cl \in DOMAIN app.clordid_map /\ r.order_id \in DOMAIN app.ex.order_states
       /\ SameTerms(r.view, app.ex.order_states[r.order_id])
       /\ Sole(r.cl) => app.clordid_map[r.cl] = r.order_id
  <2>1. ReportTrue(r)
    BY <1>1, <1>2, <1>11 DEF UpToDate
  <2>2. r.cl \in names
    BY <1>11 DEF ReportsOn
  <2> QED BY <1>7, <2>1, <2>2 DEF ReportTrue
<1>15. NameTrue(r.cl, after[r.cl])
  <2>1. CASE r.cl \in DOMAIN entries
    <3>1. NameTrue(r.cl, entries[r.cl])
      BY <1>1, <1>5, <2>1 DEF UpToDate
    <3>2. \A x : SameTerms(entries[r.cl], x) => SameTerms(after[r.cl], x)
      BY <1>12, <2>1 DEF SameTerms
    <3> QED BY <3>1, <3>2 DEF NameTrue
  <2>2. CASE r.cl \notin DOMAIN entries
    <3>1. Sole(r.cl) => SameTerms(after[r.cl], app.ex.order_states[app.clordid_map[r.cl]])
      BY <1>12, <1>14, <2>2 DEF SameTerms
    <3>2. InUse(r.cl)
      BY <1>14 DEF InUse
    <3>3. Sole(r.cl) => \A d \in Clients : \A i \in DOMAIN to_exchange[d] :
            ~(to_exchange[d][i].kind = "D" /\ to_exchange[d][i].cl = r.cl)
      BY <1>14 DEF NamesInv, OrderNamesFresh
    <3> QED BY <3>1, <3>2, <3>3 DEF NameTrue
  <2> QED BY <2>1, <2>2
<1>16. ASSUME NEW id \in DOMAIN app.ex.order_states PROVE Current(c, id)'
  <2>1. Current(c, id) /\ id \in DOMAIN app.orderid_to_clordid_map
    BY <1>1, <1>9 DEF UpToDate, Fields, AppOK
  <2>2. PICK name : name = app.orderid_to_clordid_map[id]
    OBVIOUS
  <2>3. Sole(name) => app.clordid_map[name] = id
    BY <2>1, <2>2 DEF NamesInv, MapsAgree
  <2>4. \A i : i \in Coming(c, id)' <=> i \in DOMAIN rest /\ rest[i].order_id = id
    BY <1>10 DEF Coming
  <2>5. \A j : j \in Coming(c, id) <=> j \in DOMAIN q /\ q[j].order_id = id
    BY <1>2 DEF Coming
  <2>6. ASSUME NEW i \in Coming(c, id)', \A j \in Coming(c, id)' : j <= i
        PROVE  rest[i].cl = name /\ rest[i].view = View(app.ex.order_states[id])
    <3>1. /\ i \in DOMAIN rest /\ i \in Int /\ i + 1 \in DOMAIN q /\ rest[i] = q[i + 1]
          /\ i + 1 \in Coming(c, id)
      BY <1>11, <2>4, <2>5
    <3>2. ASSUME NEW j \in Coming(c, id) PROVE j <= i + 1
      <4>1. j \in DOMAIN q /\ j \in Int /\ q[j].order_id = id
        BY <1>11, <2>5
      <4>2. CASE j = 1
        <5>1. i \in Nat
          BY <3>1, <1>9, <1>4, HeadTailProperties
        <5> QED BY <4>2, <5>1
      <4>3. CASE j # 1
        <5>1. j - 1 \in DOMAIN rest
          BY <1>11, <4>1, <4>3
        <5>2. rest[j - 1] = q[(j - 1) + 1] /\ (j - 1) + 1 = j
          BY <1>11, <4>1, <5>1
        <5>3. j - 1 \in Coming(c, id)'
          BY <2>4, <4>1, <5>1, <5>2
        <5>4. j - 1 <= i
          BY <2>6, <5>3
        <5> QED BY <3>1, <4>1, <5>4
      <4> QED BY <4>2, <4>3
    <3> QED BY <1>2, <2>1, <2>2, <3>1, <3>2 DEF Current
  <2>7. ASSUME Coming(c, id)' = {} PROVE Settled(c, id)'
    <3>1. \A j \in Coming(c, id) : j = 1
      <4>1. ASSUME NEW j \in Coming(c, id), j # 1 PROVE FALSE
        <5>1. j \in DOMAIN q /\ j \in Int /\ q[j].order_id = id
          BY <1>11, <2>5
        <5>2. j - 1 \in DOMAIN rest
          BY <1>11, <4>1, <5>1
        <5>3. rest[j - 1] = q[(j - 1) + 1] /\ (j - 1) + 1 = j
          BY <1>11, <5>1, <5>2
        <5> QED BY <2>4, <2>7, <5>1, <5>2, <5>3
      <4> QED BY <4>1
    <3>2. CASE r.order_id = id
      <4>1. 1 \in Coming(c, id) /\ \A j \in Coming(c, id) : j <= 1
        BY <1>11, <2>5, <3>1, <3>2
      <4>2. r.cl = name /\ r.view = View(app.ex.order_states[id])
        BY <1>2, <1>11, <2>1, <2>2, <4>1 DEF Current
      <4>3. name \in DOMAIN after
        BY <1>12, <4>2
      <4>4. CASE Sole(name)
        <5>1. SameTerms(after[r.cl], app.ex.order_states[id])
          BY <1>14, <1>15, <3>2, <4>2, <4>4 DEF NameTrue
        <5>2. after[name] = TrueEntry(app.ex.order_states[id])
          BY <1>12, <4>2, <5>1
        <5> QED BY <1>8, <1>10, <2>2, <4>3, <5>2 DEF Settled
      <4>5. CASE ~Sole(name)
        BY <1>8, <1>10, <2>2, <4>3, <4>5 DEF Settled, Sole
      <4> QED BY <4>4, <4>5
    <3>3. CASE r.order_id # id
      <4>1. Coming(c, id) = {}
        BY <1>11, <2>5, <3>1, <3>3
      <4>2. Settled(c, id)
        BY <2>1, <4>1 DEF Current
      <4>3. CASE Sole(name)
        <5>1. name # r.cl
          BY <1>14, <2>3, <3>3, <4>3
        <5>2. /\ name \in DOMAIN after <=> name \in DOMAIN entries
              /\ name \in DOMAIN entries => after[name] = entries[name]
          BY <1>12, <5>1
        <5> QED BY <1>5, <1>8, <1>10, <2>2, <4>2, <5>2 DEF Settled, Sole
      <4>4. CASE ~Sole(name) /\ name \in DOMAIN after
        BY <1>8, <1>10, <2>2, <4>4 DEF Settled, Sole
      <4>5. CASE name \notin DOMAIN after
        <5>1. name \notin DOMAIN entries
          BY <1>12, <4>5
        <5> QED BY <1>5, <1>8, <1>10, <2>2, <4>2, <4>5, <5>1 DEF Settled
      <4> QED BY <4>3, <4>4, <4>5
    <3> QED BY <3>2, <3>3
  <2> QED BY <1>8, <1>10, <2>2, <2>6, <2>7 DEF Current
<1>17. ASSUME NEW d \in Clients PROVE UpToDate(d)'
  <2>1. CASE d # c
    <3>1. Keeps(d) /\ unwritten'[d] = unwritten[d]
      BY <1>8, <1>10, <2>1 DEF Keeps
    <3> QED BY <1>1, <1>8, <1>13, <3>1, UpToDateStays
  <2>2. CASE d = c
    <3>1. (\A i \in DOMAIN to_client[c] : ReportTrue(to_client[c][i]))'
      <4>1. \A j \in DOMAIN q : ReportTrue(q[j])
        BY <1>1, <1>2 DEF UpToDate
      <4>2. ASSUME NEW i \in DOMAIN rest PROVE ReportTrue(rest[i])
        BY <1>11, <4>1
      <4>3. ASSUME NEW i \in DOMAIN rest PROVE ReportTrue(rest[i])'
        BY <1>8, <4>2 DEF ReportTrue, Sole
      <4> QED BY <1>10, <4>3
    <3>2. (\A x \in DOMAIN orders[c] : NameTrue(x, orders[c][x]))'
      <4>1. ASSUME NEW x \in DOMAIN after PROVE NameTrue(x, after[x])'
        <5>1. NameTrue(x, after[x])
          BY <1>1, <1>5, <1>12, <1>15 DEF UpToDate
        <5> QED BY <1>13, <5>1 DEF NamesHold
      <4> QED BY <1>10, <4>1
    <3>3. PendingTrue(c)'
      BY <1>1, <1>8, <1>13 DEF UpToDate, PendingTrue, NamesHold
    <3> QED BY <1>8, <1>16, <2>2, <3>1, <3>2, <3>3 DEF UpToDate
  <2> QED BY <2>1, <2>2
<1> QED BY <1>17 DEF TrackInv, UpToDate, PendingTrue

\* Where the reports of one list after another are.
LEMMA ReportsJoined ==
  ASSUME NEW names, NEW ps, ps \in Seq(ReportsOn(names)), NEW qs, qs \in Seq(ReportsOn(names)),
         NEW rs, Chained(rs, ps, qs), NEW n \in Nat, n = Len(ps)
  PROVE  /\ \A i \in DOMAIN rs : i \in Nat
              /\ \/ i <= n /\ i \in DOMAIN ps /\ rs[i] = ps[i]
                 \/ i > n /\ i - n \in DOMAIN qs /\ rs[i] = qs[i - n]
         /\ \A i \in DOMAIN ps : i \in DOMAIN rs /\ i <= n /\ rs[i] = ps[i]
         /\ \A k \in DOMAIN qs : k > 0 /\ n + k \in DOMAIN rs /\ rs[n + k] = qs[k]
<1>1. PICK S : S = ReportsOn(names)
  OBVIOUS
<1>2. PICK m \in Nat : m = Len(qs)
  OBVIOUS
<1>3. /\ rs \in Seq(S) /\ Len(rs) = n + m
      /\ \A i \in 1..n : rs[i] = ps[i]
      /\ \A i \in 1..m : rs[n + i] = qs[i]
  BY <1>1, <1>2 DEF Chained
<1>4. DOMAIN ps = 1..n /\ DOMAIN qs = 1..m
  BY <1>2
<1>5. DOMAIN rs = 1..(n + m)
  BY <1>3
<1>6. ASSUME NEW i \in 1..(n + m), i > n
      PROVE  i - n \in 1..m /\ rs[i] = qs[i - n]
  <2>1. i - n \in 1..m /\ n + (i - n) = i
    BY <1>2, <1>6
  <2> QED BY <1>3, <2>1
<1>7. ASSUME NEW i \in 1..(n + m) PROVE i \in Nat /\ (i > n \/ (i <= n /\ i \in 1..n))
  BY <1>2
<1>8. ASSUME NEW i \in 1..n PROVE i \in 1..(n + m) /\ i <= n /\ rs[i] = ps[i]
  BY <1>2, <1>3
<1>9. ASSUME NEW k \in 1..m PROVE k > 0 /\ n + k \in 1..(n + m) /\ rs[n + k] = qs[k]
  BY <1>2, <1>3
<1> QED BY <1>3, <1>4, <1>5, <1>6, <1>7, <1>8, <1>9

\* A report shows its order as it is, under its latest name.
AsItIs(now, r) ==
  /\ r.order_id \in DOMAIN now.ex.order_states
  /\ r.cl = now.orderid_to_clordid_map[r.order_id]
  /\ r.view = View(now.ex.order_states[r.order_id])

\* So do all the reports on a request: they are made when its call is over.  Every
\* order the call fills has one.
LEMMA ReportsAsItIs ==
  ASSUME NEW a, AppOK(a), NEW m, NEW id, NEW exec_type, NEW answer,
         Outcome(a, m, id, exec_type, answer)
  PROVE  /\ \A k \in DOMAIN answer.reports : AsItIs(answer.app, answer.reports[k])
         /\ \A x \in Touched(id, answer.trades) :
              \E k \in DOMAIN answer.reports : answer.reports[k].order_id = x
<1>1. PICK now : now = answer.app
  OBVIOUS
<1>2. PICK made : made = answer.trades
  OBVIOUS
<1>3. PICK reports : reports = answer.reports
  OBVIOUS
<1>4. /\ NamedMaps(a, now, m.cl, id)
      /\ StatesFollow(a.ex.order_states, now.ex.order_states, id, made)
  BY <1>1, <1>2 DEF Outcome
<1>5. PICK rs : Reported(now, m.cl, id, exec_type, made, reports, rs)
  BY <1>1, <1>2, <1>3, OutcomeReports
<1>6. made \in Seq(FillsFrom(DOMAIN a.ex.order_states))
  BY <1>2, OutcomeReports
<1>7. PICK first : first = Answer(m.cl, id, exec_type, now.ex.order_states[id])
  OBVIOUS
<1>8. PICK names : names = DOMAIN now.clordid_map
  OBVIOUS
<1>9. /\ reports = <<first>> \o rs /\ first \in ReportsOn(names)
      /\ rs \in Seq(ReportsOn(names)) /\ InPairs(now, m.cl, id, made, rs)
  BY <1>5, <1>7, <1>8 DEF Reported
<1>10. AsItIs(now, first) /\ first.order_id = id
  <2>1. now.orderid_to_clordid_map[id] = m.cl
    BY <1>4 DEF NamedMaps, Put
  <2>2. id \in DOMAIN now.ex.order_states
    BY <1>4 DEF StatesFollow
  <2> QED BY <1>7, <2>1, <2>2 DEF AsItIs, Answer, ExecutionReport
<1>11. ASSUME NEW i \in 1..Len(made)
       PROVE  /\ AsItIs(now, OwnReport(now, m.cl, id, made[i]))
              /\ AsItIs(now, OtherReport(now, made[i]))
              /\ OtherReport(now, made[i]).order_id = made[i].order_id
  <2>1. made[i].order_id \in DOMAIN now.ex.order_states
    <3>1. made[i] \in FillsFrom(DOMAIN a.ex.order_states)
      BY <1>6
    <3> QED BY <1>4, <3>1 DEF FillsFrom, StatesFollow
  <2>2. now.orderid_to_clordid_map[id] = m.cl
    BY <1>4 DEF NamedMaps, Put
  <2>3. id \in DOMAIN now.ex.order_states
    BY <1>4 DEF StatesFollow
  <2> QED BY <2>1, <2>2, <2>3 DEF AsItIs, OwnReport, OtherReport, FillReport, ExecutionReport
<1>12. ASSUME NEW k \in DOMAIN rs PROVE AsItIs(now, rs[k])
  <2>1. PICK i \in 1..Len(made) : k = 2 * i - 1 \/ k = 2 * i
    BY <1>9 DEF InPairs
  <2>2. rs[2 * i - 1] = OwnReport(now, m.cl, id, made[i]) /\ rs[2 * i] = OtherReport(now, made[i])
    BY <1>9 DEF InPairs
  <2> QED BY <1>11, <2>1, <2>2
<1>13. PICK one : one = <<first>>
  OBVIOUS
<1>14. one \in Seq(ReportsOn(names)) /\ Len(one) = 1 /\ one[1] = first /\ DOMAIN one = {1}
  BY <1>9, <1>13
<1>15. /\ \A i \in DOMAIN reports :
            \/ i \in DOMAIN one /\ reports[i] = one[i]
            \/ i - 1 \in DOMAIN rs /\ reports[i] = rs[i - 1]
       /\ 1 \in DOMAIN reports /\ reports[1] = first
       /\ \A k \in DOMAIN rs : 1 + k \in DOMAIN reports /\ reports[1 + k] = rs[k]
  <2>1. Chained(reports, one, rs)
    BY <1>9, <1>13 DEF Chained
  <2>2. PICK n \in Nat : n = 1 /\ n = Len(one)
    BY <1>14
  <2>3. n \in Nat /\ n = 1 /\ n = Len(one)
    BY <2>2
  <2>4. /\ \A i \in DOMAIN reports : i \in Nat
             /\ \/ i <= n /\ i \in DOMAIN one /\ reports[i] = one[i]
                \/ i > n /\ i - n \in DOMAIN rs /\ reports[i] = rs[i - n]
        /\ \A i \in DOMAIN one : i \in DOMAIN reports /\ i <= n /\ reports[i] = one[i]
        /\ \A k \in DOMAIN rs : k > 0 /\ n + k \in DOMAIN reports /\ reports[n + k] = rs[k]
    <3>1. one \in Seq(ReportsOn(names)) /\ rs \in Seq(ReportsOn(names))
      BY <1>9, <1>14
    <3>2. n \in Nat /\ n = Len(one)
      BY <2>3
    <3> QED BY <2>1, <3>1, <3>2, ReportsJoined
  <2> QED BY <1>14, <2>3, <2>4
<1>16. ASSUME NEW k \in DOMAIN reports PROVE AsItIs(now, reports[k])
  BY <1>10, <1>12, <1>14, <1>15
<1>17. ASSUME NEW x \in Touched(id, made) PROVE \E k \in DOMAIN reports : reports[k].order_id = x
  <2>1. CASE x = id
    BY <1>10, <1>15, <2>1
  <2>2. CASE x # id
    <3>1. PICK i \in DOMAIN made : made[i].order_id = x
      BY <1>17, <2>2 DEF Touched
    <3>2. i \in 1..Len(made)
      BY <1>6
    <3>3. 2 * i \in DOMAIN rs
      <4>1. DOMAIN rs = 1..(2 * Len(made))
        BY <1>9 DEF InPairs
      <4> QED BY <3>2, <4>1
    <3>4. rs[2 * i] = OtherReport(now, made[i])
      BY <1>9, <3>2 DEF InPairs
    <3>5. reports[1 + 2 * i].order_id = x /\ 1 + 2 * i \in DOMAIN reports
      BY <1>11, <1>15, <3>1, <3>2, <3>3, <3>4
    <3> QED BY <3>5
  <2> QED BY <2>1, <2>2
<1> QED BY <1>1, <1>2, <1>3, <1>16, <1>17

\* What serving request m, on order id, does to the acceptor and the requests.
ServedOn(m, id, made) ==
  /\ NamesServed(m, id)
  /\ DOMAIN app'.ex.order_states = DOMAIN app.ex.order_states \cup {id}
  /\ \A x \in DOMAIN app.ex.order_states :
       /\ SameTerms(app'.ex.order_states[x], app.ex.order_states[x])
       /\ x \notin Touched(id, made) =>
            /\ app'.ex.order_states[x] = app.ex.order_states[x]
            /\ app'.orderid_to_clordid_map[x] = app.orderid_to_clordid_map[x]
  /\ m.kind = "D" => SameTerms(app'.ex.order_states[id], m.order)
  /\ OnItsWay(m) /\ \A x : OnItsWay(x)' => OnItsWay(x)
  /\ \A x : OnItsWay(x) => OnItsWay(x)' \/ x = m
  /\ reused' = reused

\* What is true of a name stays so: one that was on its way with an order now stands
\* for it, and what a name of one order stands for stays.
LEMMA ServedOnNames ==
  ASSUME TypeOK, NamesInv, NEW m, NEW id, NEW made, ServedOn(m, id, made)
  PROVE  NamesHold
<1>1. /\ NamesServed(m, id) /\ reused' = reused
      /\ DOMAIN app'.clordid_map = DOMAIN app.clordid_map \cup {m.cl}
      /\ app'.clordid_map[m.cl] = id
      /\ \A x \in DOMAIN app.clordid_map : Sole(x) => app'.clordid_map[x] = app.clordid_map[x]
  BY ServedMaps DEF ServedOn
<1>2. /\ OnItsWay(m) /\ \A x : OnItsWay(x)' => OnItsWay(x)
      /\ \A x : OnItsWay(x) => OnItsWay(x)' \/ x = m
  BY DEF ServedOn
<1>3. ASSUME NEW cl, NEW terms, NameTrue(cl, terms) PROVE NameTrue(cl, terms)'
  <2>1. InUse(cl) /\ (Sole(cl)' <=> Sole(cl))
    BY <1>1, <1>3 DEF NameTrue, Sole
  <2>2. InUse(cl)'
    <3>1. cl \in DOMAIN app'.clordid_map \/ \E x : OnItsWay(x)' /\ x.kind = "D" /\ x.cl = cl
      BY <1>1, <1>2, <2>1, InUseIs
    <3> QED BY <3>1 DEF InUse, OnItsWay
  <2>3. ASSUME Sole(cl), NEW d \in Clients, NEW i \in DOMAIN to_exchange'[d],
               to_exchange'[d][i].kind = "D", to_exchange'[d][i].cl = cl
        PROVE  SameTerms(terms, to_exchange'[d][i].order)
    <3>1. PICK x : x = to_exchange'[d][i]
      OBVIOUS
    <3>2. OnItsWay(x)'
      BY <3>1 DEF OnItsWay
    <3>3. OnItsWay(x) /\ x.kind = "D" /\ x.cl = cl
      BY <1>2, <2>3, <3>1, <3>2
    <3> QED BY <1>3, <2>3, <3>1, <3>3 DEF OnItsWay, NameTrue
  <2>4. ASSUME Sole(cl), cl \in DOMAIN app'.clordid_map
        PROVE  SameTerms(terms, app'.ex.order_states[app'.clordid_map[cl]])
    <3>1. CASE cl \in DOMAIN app.clordid_map
      <4>1. PICK x : x = app.clordid_map[cl]
        OBVIOUS
      <4>2. app'.clordid_map[cl] = x /\ x \in DOMAIN app.ex.order_states
        BY <1>1, <2>4, <3>1, <4>1, TypeIs DEF Fields, AppOK
      <4>3. SameTerms(terms, app.ex.order_states[x])
        BY <1>3, <2>4, <3>1, <4>1 DEF NameTrue
      <4>4. SameTerms(app'.ex.order_states[x], app.ex.order_states[x])
        BY <4>2 DEF ServedOn
      <4>5. SameTerms(terms, app'.ex.order_states[x])
        BY <4>3, <4>4 DEF SameTerms
      <4> QED BY <4>2, <4>5
    <3>2. CASE cl \notin DOMAIN app.clordid_map
      <4>1. cl = m.cl /\ \E x : OnItsWay(x) /\ x.kind = "D" /\ x.cl = cl
        BY <1>1, <2>1, <2>4, <3>2, InUseIs
      <4>2. cl[1] # "CNL"
        BY <4>1 DEF OnItsWay, NamesInv, OrderNamesFresh
      <4>3. m.kind = "D"
        <5>1. m.kind # "D" => m.cl[1] = "CNL"
          BY <1>1, SameOrigin DEF NamesServed
        <5> QED BY <4>1, <4>2, <5>1
      <4>4. SameTerms(app'.ex.order_states[id], m.order) /\ app'.clordid_map[cl] = id
        BY <1>1, <4>1, <4>3 DEF ServedOn
      <4>5. SameTerms(terms, m.order)
        BY <1>2, <1>3, <2>4, <4>1, <4>3 DEF NameTrue, OnItsWay
      <4>6. SameTerms(terms, app'.ex.order_states[id])
        BY <4>4, <4>5 DEF SameTerms
      <4> QED BY <4>4, <4>6
    <3> QED BY <3>1, <3>2
  <2> QED BY <2>1, <2>2, <2>3, <2>4 DEF NameTrue
<1> QED BY <1>3 DEF NamesHold

\* Reports on a request join those on their way to client d, which is up to date.
Joins(d, id, made, names, q, reports, both) ==
  /\ q = to_client[d] /\ both = to_client'[d] /\ Chained(both, q, reports)
  /\ q \in Seq(ReportsOn(names)) /\ reports \in Seq(ReportsOn(names))
  /\ \A k \in DOMAIN reports : AsItIs(app', reports[k])
  /\ \A x \in Touched(id, made) : \E k \in DOMAIN reports : reports[k].order_id = x
  /\ \A x \in DOMAIN app.ex.order_states : Current(d, x)
  /\ orders'[d] = orders[d] /\ joined'[d] = joined[d]

\* It stays so: if one of them is on an order the last one is, and if none is
\* nothing about the order has changed.
LEMMA ServedOnCurrent ==
  ASSUME NEW m, NEW id, NEW made, ServedOn(m, id, made), NEW d, NEW names,
         NEW q, NEW reports, NEW both, Joins(d, id, made, names, q, reports, both),
         NEW x \in DOMAIN app'.ex.order_states
  PROVE  Current(d, x)'
<1>1. /\ q = to_client[d] /\ both = to_client'[d] /\ Chained(both, q, reports)
      /\ q \in Seq(ReportsOn(names)) /\ reports \in Seq(ReportsOn(names))
      /\ \A k \in DOMAIN reports : AsItIs(app', reports[k])
      /\ \A y \in Touched(id, made) : \E k \in DOMAIN reports : reports[k].order_id = y
      /\ \A y \in DOMAIN app.ex.order_states : Current(d, y)
      /\ orders'[d] = orders[d] /\ joined'[d] = joined[d]
  BY DEF Joins
<1>2. PICK n \in Nat : n = Len(q)
  BY <1>1
<1>3. /\ \A i \in DOMAIN both : i \in Nat
           /\ \/ i <= n /\ i \in DOMAIN q /\ both[i] = q[i]
              \/ i > n /\ i - n \in DOMAIN reports /\ both[i] = reports[i - n]
      /\ \A i \in DOMAIN q : i \in DOMAIN both /\ i <= n /\ both[i] = q[i]
      /\ \A k \in DOMAIN reports : k > 0 /\ n + k \in DOMAIN both /\ both[n + k] = reports[k]
  BY <1>1, <1>2, ReportsJoined
<1>4. \A i : i \in Coming(d, x)' <=> i \in DOMAIN both /\ both[i].order_id = x
  BY <1>1 DEF Coming
<1>5. \A i : i \in Coming(d, x) <=> i \in DOMAIN q /\ q[i].order_id = x
  BY <1>1 DEF Coming
<1>6. CASE \E k \in DOMAIN reports : reports[k].order_id = x
  <2>1. PICK k \in DOMAIN reports : reports[k].order_id = x
    BY <1>6
  <2>2. n + k \in Coming(d, x)' /\ k > 0 /\ k \in Nat
    BY <1>1, <1>3, <1>4, <2>1
  <2>3. ASSUME NEW i \in Coming(d, x)', \A j \in Coming(d, x)' : j <= i
        PROVE  /\ both[i].cl = app'.orderid_to_clordid_map[x]
               /\ both[i].view = View(app'.ex.order_states[x])
    <3>1. i \in DOMAIN both /\ i \in Nat /\ both[i].order_id = x
      BY <1>3, <1>4
    <3>2. n + k <= i
      BY <2>2, <2>3
    <3>3. i > n
      BY <1>2, <2>2, <3>1, <3>2
    <3>4. i - n \in DOMAIN reports /\ both[i] = reports[i - n]
      BY <1>2, <1>3, <3>1, <3>3
    <3>5. AsItIs(app', reports[i - n])
      BY <1>1, <3>4
    <3> QED BY <3>1, <3>4, <3>5 DEF AsItIs
  <2>4. Coming(d, x)' # {}
    BY <2>2
  <2> QED BY <1>1, <2>3, <2>4 DEF Current
<1>7. CASE ~\E k \in DOMAIN reports : reports[k].order_id = x
  <2>1. x \notin Touched(id, made) /\ x # id
    BY <1>1, <1>7 DEF Touched
  <2>2. /\ x \in DOMAIN app.ex.order_states
        /\ app'.ex.order_states[x] = app.ex.order_states[x]
        /\ app'.orderid_to_clordid_map[x] = app.orderid_to_clordid_map[x]
    <3>1. DOMAIN app'.ex.order_states = DOMAIN app.ex.order_states \cup {id}
      BY DEF ServedOn
    <3>2. x \in DOMAIN app.ex.order_states
      BY <2>1, <3>1
    <3> QED BY <2>1, <3>2 DEF ServedOn
  <2>3. ASSUME NEW i \in Coming(d, x)' PROVE i \in Coming(d, x) /\ both[i] = q[i]
    <3>1. i \in DOMAIN both /\ both[i].order_id = x
      BY <1>4, <2>3
    <3>2. \/ i <= n /\ i \in DOMAIN q /\ both[i] = q[i]
          \/ i > n /\ i - n \in DOMAIN reports /\ both[i] = reports[i - n]
      BY <1>3, <3>1
    <3>3. ~(i - n \in DOMAIN reports /\ both[i] = reports[i - n])
      BY <1>7, <3>1
    <3> QED BY <1>5, <3>1, <3>2, <3>3
  <2>4. ASSUME NEW i \in Coming(d, x) PROVE i \in Coming(d, x)'
    <3>1. i \in DOMAIN q /\ q[i].order_id = x
      BY <1>5, <2>4
    <3>2. i \in DOMAIN both /\ both[i] = q[i]
      BY <1>3, <3>1
    <3> QED BY <1>4, <3>1, <3>2
  <2>5. Settled(d, x) => Settled(d, x)'
    BY <1>1, <2>2 DEF Settled, ServedOn, Sole
  <2>6. Current(d, x)
    BY <1>1, <2>2
  <2>7. ASSUME NEW i \in Coming(d, x)', \A j \in Coming(d, x)' : j <= i
        PROVE  /\ both[i].cl = app'.orderid_to_clordid_map[x]
               /\ both[i].view = View(app'.ex.order_states[x])
    <3>1. i \in Coming(d, x) /\ both[i] = q[i] /\ \A j \in Coming(d, x) : j <= i
      BY <2>3, <2>4, <2>7
    <3> QED BY <1>1, <2>2, <2>6, <3>1 DEF Current
  <2>8. Coming(d, x)' = {} => Settled(d, x)'
    BY <2>4, <2>5, <2>6 DEF Current
  <2> QED BY <1>1, <2>7, <2>8 DEF Current
<1> QED BY <1>6, <1>7

\* Serving a request keeps what the clients know.
LEMMA ServeTrack ==
  ASSUME TypeOK, NamesInv, TrackInv, NEW c \in Clients, Serve(c)
  PROVE  TrackInv'
<1>1. Fields /\ \A d \in Clients : UpToDate(d) /\ ClientOK(d)
  BY TypeIs, TrackIs
<1>2. PICK answer : Served(c, answer)
  BY ServeIs
<1>3. PICK m : m = Head(to_exchange[c])
  OBVIOUS
<1>4. RequestOK(m)
  <2>1. PICK q : q = to_exchange[c]
    OBVIOUS
  <2>2. RequestsOK(q) /\ q # <<>>
    BY <1>1, <1>2, <2>1 DEF ClientOK, RequestsOK, Served
  <2> QED BY <1>3, <2>1, <2>2, RequestsShrink
<1>5. /\ AppOK(app) /\ answer = Handled(app, risk_ctx, m) /\ app' = answer.app
      /\ to_exchange[c] # <<>> /\ to_exchange' = [to_exchange EXCEPT ![c] = Tail(@)]
      /\ \A d \in Clients : to_client'[d]
           = to_client[d] \o IF d \in active_sessions THEN answer.reports ELSE <<>>
      /\ UNCHANGED <<active_sessions, orders, unwritten, joined, reused>>
  BY <1>1, <1>2, <1>3 DEF Served, Serve, counters, Fields
<1>6. /\ OnItsWay(m) /\ \A x : OnItsWay(x)' => OnItsWay(x)
      /\ \A x : OnItsWay(x) => OnItsWay(x)' \/ x = m
  BY <1>3, ServedOnly
<1>8. ASSUME NEW d \in Clients
      PROVE  d \in active_sessions \/ (to_client[d] = <<>> /\ to_client'[d] = <<>>)
  <2>1. CASE d \notin active_sessions
    <3>1. to_client[d] = <<>>
      BY <1>1, <2>1 DEF ClientOK
    <3>2. to_client'[d] = <<>> \o <<>>
      BY <1>5, <2>1, <3>1
    <3>3. <<>> \o <<>> = <<>>
      OBVIOUS
    <3> QED BY <3>1, <3>2, <3>3
  <2> QED BY <2>1
<1>9. CASE answer = Unanswered(app)
  <2>1. app' = app /\ answer.reports = <<>>
    BY <1>5, <1>9 DEF Unanswered
  <2>2. NamesHold
    <3>1. m.kind = "F"
      <4>1. ASSUME NEW id, NamesServed(m, id) PROVE m.kind # "D"
        <5>1. id \in DOMAIN app.orderid_to_clordid_map
          BY <2>1, <4>1, ServedMaps
        <5>2. id # app.next_order_id
          BY <1>5, <5>1 DEF AppOK, OrderId
        <5> QED BY <4>1, <5>2 DEF NamesServed
      <4> QED BY <1>3, <1>4, <4>1, ServedNames DEF RequestOK
    <3>2. \A x : x.kind = "D" => (OnItsWay(x)' <=> OnItsWay(x))
      BY <1>6, <3>1
    <3> QED BY <1>5, <2>1, <3>2, NamesStay
  <2>3. ASSUME NEW d \in Clients PROVE UpToDate(d)'
    <3>1. to_client'[d] = to_client[d]
      <4>1. CASE d \in active_sessions
        <5>1. PICK q : q = to_client[d]
          OBVIOUS
        <5>2. q \in Seq(ReportsOn(DOMAIN app.clordid_map))
          BY <1>1, <5>1 DEF ClientOK
        <5>3. q \o <<>> = q
          BY <5>2, ConcatEmptySeq
        <5>4. to_client'[d] = q \o <<>>
          BY <1>5, <2>1, <4>1, <5>1
        <5> QED BY <5>1, <5>3, <5>4
      <4>2. CASE d \notin active_sessions
        BY <1>8, <4>2
      <4> QED BY <4>1, <4>2
    <3>2. Keeps(d)
      BY <1>5, <3>1 DEF Keeps
    <3> QED BY <1>1, <1>5, <2>1, <2>2, <3>2, UpToDateStays
  <2> QED BY <2>3 DEF TrackInv, UpToDate, PendingTrue
<1>10. CASE \E id, exec_type : Outcome(app, m, id, exec_type, answer)
  <2>1. PICK id, exec_type : Outcome(app, m, id, exec_type, answer)
    BY <1>10
  <2>2. PICK made : made = answer.trades
    OBVIOUS
  <2>3. ServedOn(m, id, made)
    <3>1. NamesServed(m, id)
      BY <1>5, <1>6, <2>1, OutcomeNames
    <3>2. /\ StatesFollow(app.ex.order_states, answer.app.ex.order_states, id, made)
          /\ NamedMaps(app, answer.app, m.cl, id) /\ Orders(app, m, id, answer)
      BY <2>1, <2>2 DEF Outcome
    <3>3. DOMAIN app.orderid_to_clordid_map = DOMAIN app.ex.order_states
      BY <1>5 DEF AppOK
    <3>4. /\ DOMAIN answer.app.ex.order_states = DOMAIN app.ex.order_states \cup {id}
          /\ \A x \in DOMAIN app.ex.order_states :
               /\ SameTerms(answer.app.ex.order_states[x], app.ex.order_states[x])
               /\ x \notin Touched(id, made) =>
                    answer.app.ex.order_states[x] = app.ex.order_states[x]
      BY <3>2 DEF StatesFollow
    <3>5. ASSUME NEW x \in DOMAIN app.ex.order_states, x \notin Touched(id, made)
          PROVE  answer.app.orderid_to_clordid_map[x] = app.orderid_to_clordid_map[x]
      <4>1. x # id
        BY <3>5 DEF Touched
      <4> QED BY <3>2, <3>3, <4>1 DEF NamedMaps, Put
    <3>6. m.kind = "D" => SameTerms(answer.app.ex.order_states[id], m.order)
      BY <3>2 DEF Orders
    <3> QED BY <1>5, <1>6, <3>1, <3>4, <3>5, <3>6 DEF ServedOn
  <2>4. NamesHold
    BY <2>3, ServedOnNames
  <2>5. /\ \A k \in DOMAIN answer.reports : AsItIs(answer.app, answer.reports[k])
        /\ \A x \in Touched(id, answer.trades) :
             \E k \in DOMAIN answer.reports : answer.reports[k].order_id = x
    <3>1. AppOK(app)
      BY <1>5
    <3> QED BY <2>1, <3>1, ReportsAsItIs
  <2>6. PICK names : names = DOMAIN answer.app.clordid_map
    OBVIOUS
  <2>7. /\ DOMAIN app.clordid_map \subseteq names
        /\ answer.reports \in Seq(ReportsOn(names)) /\ AppOK(app')
    BY <1>4, <1>5, <2>6, HandledOK
  <2>8. ASSUME NEW r, AsItIs(app', r) PROVE ReportTrue(r)'
    <3>1. MapsAgree'
      BY ServeNames DEF NamesInv
    <3>2. r.order_id \in DOMAIN app'.orderid_to_clordid_map
      BY <2>7, <2>8 DEF AsItIs, AppOK
    <3>3. Sole(r.cl)' => app'.clordid_map[r.cl] = r.order_id
      BY <2>8, <3>1, <3>2 DEF AsItIs, MapsAgree, Sole
    <3>4. SameTerms(r.view, app'.ex.order_states[r.order_id])
      BY <2>8 DEF AsItIs, View, SameTerms
    <3>5. r.order_id \in DOMAIN app'.ex.order_states
      BY <2>8 DEF AsItIs
    <3> QED BY <3>3, <3>4, <3>5 DEF ReportTrue
  <2>9. ASSUME NEW r \in ReportsOn(DOMAIN app.clordid_map), ReportTrue(r)
        PROVE  ReportTrue(r)'
    <3>1. r.cl \in DOMAIN app.clordid_map
      BY DEF ReportsOn
    <3>2. /\ r.order_id \in DOMAIN app.ex.order_states
          /\ SameTerms(r.view, app.ex.order_states[r.order_id])
          /\ Sole(r.cl) => app.clordid_map[r.cl] = r.order_id
      BY <2>9 DEF ReportTrue
    <3>3. Sole(r.cl)' => Sole(r.cl)
      BY <1>5 DEF Sole
    <3>4. /\ \A x \in DOMAIN app.clordid_map : Sole(x) => app'.clordid_map[x] = app.clordid_map[x]
          /\ SameTerms(app'.ex.order_states[r.order_id], app.ex.order_states[r.order_id])
          /\ DOMAIN app.ex.order_states \subseteq DOMAIN app'.ex.order_states
      BY <2>3, <3>2, ServedMaps DEF ServedOn
    <3>5. SameTerms(r.view, app'.ex.order_states[r.order_id])
      BY <3>2, <3>4 DEF SameTerms
    <3> QED BY <3>1, <3>2, <3>3, <3>4, <3>5 DEF ReportTrue
  <2>10. ASSUME NEW d \in Clients PROVE UpToDate(d)'
    <3>1. PendingTrue(d)'
      BY <1>1, <1>5, <2>4 DEF UpToDate, PendingTrue, NamesHold
    <3>2. (\A x \in DOMAIN orders[d] : NameTrue(x, orders[d][x]))'
      BY <1>1, <1>5, <2>4 DEF UpToDate, NamesHold
    <3>3. CASE d \notin active_sessions
      <4>1. DOMAIN to_client'[d] = {}
        BY <1>8, <3>3
      <4> QED BY <1>5, <3>1, <3>2, <3>3, <4>1 DEF UpToDate
    <3>4. CASE d \in active_sessions
      <4>1. PICK q : q = to_client[d]
        OBVIOUS
      <4>2. PICK reports : reports = answer.reports
        OBVIOUS
      <4>3. PICK both : both = to_client'[d]
        OBVIOUS
      <4>4. Chained(both, q, reports)
        BY <1>5, <3>4, <4>1, <4>2, <4>3 DEF Chained
      <4>5. q \in Seq(ReportsOn(DOMAIN app.clordid_map))
        BY <1>1, <4>1 DEF ClientOK
      <4>6. q \in Seq(ReportsOn(names)) /\ reports \in Seq(ReportsOn(names))
        BY <2>7, <4>2, <4>5, MoreNames
      <4>7. PICK n \in Nat : n = Len(q)
        BY <4>5
      <4>8. /\ \A i \in DOMAIN both : i \in Nat
                 /\ \/ i <= n /\ i \in DOMAIN q /\ both[i] = q[i]
                    \/ i > n /\ i - n \in DOMAIN reports /\ both[i] = reports[i - n]
            /\ \A i \in DOMAIN q : i \in DOMAIN both /\ i <= n /\ both[i] = q[i]
            /\ \A k \in DOMAIN reports : k > 0 /\ n + k \in DOMAIN both /\ both[n + k] = reports[k]
        BY <4>4, <4>6, <4>7, ReportsJoined
      <4>9. \A k \in DOMAIN reports : AsItIs(app', reports[k])
        BY <1>5, <2>5, <4>2
      <4>10. \A x \in Touched(id, made) : \E k \in DOMAIN reports : reports[k].order_id = x
        BY <2>2, <2>5, <4>2
      <4>11. ASSUME NEW i \in DOMAIN both PROVE ReportTrue(both[i])'
        <5>1. CASE i \in DOMAIN q /\ both[i] = q[i]
          <6>1. ReportTrue(q[i]) /\ q[i] \in ReportsOn(DOMAIN app.clordid_map)
            BY <1>1, <4>1, <4>5, <5>1 DEF UpToDate
          <6>2. ReportTrue(q[i])'
            BY <2>9, <6>1
          <6> QED BY <5>1, <6>2
        <5>2. CASE i - n \in DOMAIN reports /\ both[i] = reports[i - n]
          BY <2>8, <4>9, <5>2
        <5> QED BY <4>8, <5>1, <5>2
      <4>12. (\A i \in DOMAIN to_client[d] : ReportTrue(to_client[d][i]))'
        BY <4>3, <4>11
      <4>13. \A x \in DOMAIN app.ex.order_states : Current(d, x)
        BY <1>1, <3>4 DEF UpToDate
      <4>14. orders'[d] = orders[d] /\ joined'[d] = joined[d]
        BY <1>5
      <4>15. Joins(d, id, made, names, q, reports, both)
        BY <4>1, <4>3, <4>4, <4>6, <4>9, <4>10, <4>13, <4>14 DEF Joins
      <4>16. ASSUME NEW x \in DOMAIN app'.ex.order_states PROVE Current(d, x)'
        BY <2>3, <4>15, ServedOnCurrent
      <4> QED BY <3>1, <3>2, <4>12, <4>16 DEF UpToDate
    <3> QED BY <3>3, <3>4
  <2> QED BY <2>10 DEF TrackInv, UpToDate, PendingTrue
<1> QED BY <1>4, <1>5, <1>9, <1>10, HandledIs

\* Every step keeps what the clients know.
LEMMA TrackStep ==
  ASSUME TypeOK, NamesInv, TrackInv, [Next]_vars
  PROVE  TrackInv'
<1>1. CASE UNCHANGED vars
  <2>1. UNCHANGED <<app, active_sessions, to_exchange, to_client, orders, unwritten,
                    joined, reused>>
    BY <1>1 DEF vars, acceptor, counters
  <2>2. NamesHold
    <3>1. \A x : OnItsWay(x)' <=> OnItsWay(x)
      BY <2>1 DEF OnItsWay
    <3> QED BY <2>1, <3>1, NamesStay
  <2>3. ASSUME NEW d \in Clients PROVE UpToDate(d)'
    <3>1. Keeps(d) /\ UpToDate(d)
      BY <2>1, TrackIs DEF Keeps
    <3> QED BY <2>1, <2>2, <3>1, UpToDateStays
  <2> QED BY <2>3 DEF TrackInv, UpToDate, PendingTrue
<1>2. CASE Next
  <2>1. PICK c \in Clients : Command(c) \/ Serve(c) \/ handle_message(c)
    BY <1>2 DEF Next
  <2>2. CASE submit_bg_order(c) \/ submit_user_order(c)
    <3>1. PICK m : AskSent(c, m)
      BY <2>1, <2>2, AskIs
    <3> QED BY <2>1, <3>1, AskTrack
  <2>3. CASE Command(c) /\ ~(submit_bg_order(c) \/ submit_user_order(c))
    BY <2>1, <2>3, StartTrack, QuitTrack, StoreTrack, CancelTrack DEF Command
  <2>4. CASE Serve(c) \/ handle_message(c)
    BY <2>1, <2>4, ServeTrack, HandleTrack
  <2> QED BY <2>1, <2>2, <2>3, <2>4
<1> QED BY <1>1, <1>2

\* At the start no client knows anything and there is nothing to know.
LEMMA TrackInit == Init => TrackInv
<1> SUFFICES ASSUME Init PROVE TrackInv
  OBVIOUS
<1>1. ASSUME NEW d \in Clients PROVE UpToDate(d)
  <2>1. /\ to_client[d] = <<>> /\ orders[d] = <<>> /\ unwritten[d] = <<>>
        /\ active_sessions = {}
    BY DEF Init
  <2>2. DOMAIN to_client[d] = {} /\ DOMAIN orders[d] = {}
    BY <2>1
  <2> QED BY <2>1, <2>2 DEF UpToDate, PendingTrue
<1> QED BY <1>1, TrackIs

\* What reports, entries and stored orders say of an order is of that order, and the
\* last report on its way to a client, or else its entry, shows the order as it is
\* (_recv_loop and submit_bg_order of fix_tui_client.py).
THEOREM TrackInvAlways == Spec => []TrackInv
<1>1. Init => TypeOK /\ NamesInv /\ TrackInv
  BY TypeInit, NamesInit, TrackInit
<1>2. TypeOK /\ NamesInv /\ TrackInv /\ [Next]_vars => (TypeOK /\ NamesInv /\ TrackInv)'
  BY TypeStep, NamesStep, TrackStep
<1> QED BY <1>1, <1>2, PTL DEF Spec

\* A client that is caught up has every order made since it logged on, as it is,
\* under its latest ClOrdID; only an entry of its own stored too late is stale, and
\* orders that were sent under one ClOrdID (submit_bg_order) share an entry.
THEOREM OrdersTrackedAlways == Spec => []OrdersTracked
<1>1. TrackInv => OrdersTracked
  <2> SUFFICES ASSUME TrackInv, NEW c \in Clients, CaughtUp(c),
                      NEW id \in DOMAIN app.ex.order_states
               PROVE  Settled(c, id)
    BY DEF OrdersTracked
  <2>1. c \in active_sessions /\ DOMAIN to_client[c] = {}
    BY DEF CaughtUp
  <2>2. Current(c, id) /\ Coming(c, id) = {}
    BY <2>1, TrackIs DEF UpToDate, Coming
  <2> QED BY <2>2 DEF Current
<1>2. Spec => []TrackInv
  BY TrackInvAlways
<1> QED BY <1>1, <1>2, PTL


-----------------------------------------------------------------------------
(* The books and what the clients have.                                    *)

\* A request keeps the books the mirror of what is open, gives no order shares, and
\* an order no more than its message asks for.
LEMMA HandledMirrors ==
  ASSUME NEW a, AppOK(a), BooksMirror(a.ex), NEW m, RequestOK(m),
         NEW answer, answer = Handled(a, risk_ctx, m),
         NEW new, new = answer.app.ex
  PROVE  /\ BooksMirror(new) /\ NoMoreShares(new.order_states, a.ex.order_states)
         /\ m.kind = "D" =>
              remaining_quantity(new.order_states[a.next_order_id]) <= m.order.quantity
<1>1. PICK ex, id : ex = a.ex /\ id = a.next_order_id
  OBVIOUS
<1>2. /\ IsExchange(ex, Registered) /\ BooksMirror(ex) /\ id \in OrderId
      /\ DOMAIN ex.order_states = 1..(id - 1) /\ id \notin DOMAIN ex.order_states
      /\ a = [next_order_id |-> a.next_order_id, clordid_map |-> a.clordid_map,
              orderid_to_clordid_map |-> a.orderid_to_clordid_map, ex |-> a.ex]
  BY <1>1 DEF AppOK, OrderId
<1>3. ASSUME NEW names, names = Named(a, m.cl, id), NEW e, NEW n
      PROVE  [names EXCEPT !.next_order_id = n, !.ex = e].ex = e
  <2>1. names = [next_order_id |-> names.next_order_id, clordid_map |-> names.clordid_map,
                 orderid_to_clordid_map |-> names.orderid_to_clordid_map, ex |-> names.ex]
    BY <1>2, <1>3 DEF Named
  <2> QED BY <2>1
<1>4. NoMoreShares(ex.order_states, ex.order_states)
  <2>1. PICK states : states = ex.order_states
    OBVIOUS
  <2>2. \A x \in DOMAIN states : states[x] \in OrderStates
    BY <1>2, <2>1 DEF IsExchange
  <2>3. \A x \in DOMAIN states : remaining_quantity(states[x]) \in Int
    BY <2>2 DEF OrderStates, remaining_quantity
  <2> QED BY <2>1, <2>3 DEF NoMoreShares
<1>5. CASE answer = Unanswered(a) /\ m.kind # "D"
  BY <1>1, <1>2, <1>4, <1>5 DEF Unanswered
<1>6. CASE m.kind = "D" /\ m.order \in Asks
  <2>1. PICK order, call : order = WithId(m.order, id) /\ call = submit_order(ex, risk_ctx, order)
    OBVIOUS
  <2>2. /\ order.order_id = id /\ IsOrder(order) /\ order.quantity = m.order.quantity
    BY <1>2, <1>6, <2>1 DEF WithId, Asks, IsOrder, OrderId
  <2>3. new = call.ex
    <3>1. PICK names : names = Named(a, m.cl, id)
      OBVIOUS
    <3>2. new = [names EXCEPT !.next_order_id = id + 1, !.ex = call.ex].ex
      BY <1>1, <1>6, <2>1, <3>1 DEF Handled, NewOrderSingle
    <3> QED BY <1>3, <3>1, <3>2
  <2>4. order.order_id \notin DOMAIN ex.order_states
    BY <1>2, <2>2
  <2>5. /\ BooksMirror(call.ex) /\ NoMoreShares(call.ex.order_states, ex.order_states)
        /\ remaining_quantity(call.ex.order_states[order.order_id]) <= order.quantity
    BY <1>2, <2>1, <2>2, <2>4, SubmitMirrors
  <2> QED BY <1>1, <2>2, <2>3, <2>5
<1>7. CASE m.kind = "F"
  <2>1. PICK of : of = a.clordid_map[m.orig]
    OBVIOUS
  <2>2. CASE m.orig \notin DOMAIN a.clordid_map \/ ~CanAmend(ex, of)
    BY <1>1, <1>5, <1>7, <2>1, <2>2 DEF Handled, Amend
  <2>3. CASE m.orig \in DOMAIN a.clordid_map /\ CanAmend(ex, of)
    <3>1. PICK left : left = cancel_order(ex, of)
      OBVIOUS
    <3>2. BooksMirror(left) /\ NoMoreShares(left.order_states, ex.order_states)
      BY <1>2, <3>1, CancelMirrors
    <3>3. new = left
      <4>1. PICK names : names = Named(a, m.cl, of)
        OBVIOUS
      <4>2. names = [next_order_id |-> names.next_order_id, clordid_map |-> names.clordid_map,
                     orderid_to_clordid_map |-> names.orderid_to_clordid_map, ex |-> names.ex]
        BY <1>2, <4>1 DEF Named
      <4>3. NoTrades(left).ex = left
        BY DEF NoTrades
      <4>4. answer.app = [names EXCEPT !.ex = left]
        BY <1>1, <1>7, <2>1, <2>3, <3>1, <4>1, <4>3 DEF Handled, Amend
      <4> QED BY <4>2, <4>4
    <3> QED BY <1>1, <1>7, <3>2, <3>3
  <2> QED BY <2>2, <2>3
<1> QED BY <1>6, <1>7 DEF RequestOK

\* A name that arrives still does, and while one order has it for itself what is
\* known of its shares stays so.
SharesHold ==
  \A cl : \A d \in Clients, n \in Int : Arrives(d, cl) =>
    /\ Arrives(d, cl)'
    /\ Sole(cl)' => Sole(cl) /\ (AtMost(cl, n) => AtMost(cl, n)')

\* What DepthInv says of what client d has yet to store, and of client d.
PendingCovered(d) ==
  unwritten[d] # <<>> =>
    /\ Arrives(d, unwritten[d][1])
    /\ Sole(unwritten[d][1]) => AtMost(unwritten[d][1], unwritten[d][2].quantity)

EntryCovered(d, cl) ==
  /\ Arrives(d, cl)
  /\ orders[d][cl].status = "Pending" /\ Sole(cl) => AtMost(cl, orders[d][cl].leaves_qty)

Covered(d) ==
  /\ IsFiniteSet(DOMAIN orders[d]) /\ \A cl \in DOMAIN orders[d] : EntryCovered(d, cl)
  /\ PendingCovered(d)

\* The depth is right when it is of each client.
LEMMA DepthInvIs == DepthInv <=> BooksMirror(app.ex) /\ \A d \in Clients : Covered(d)
BY DEF DepthInv, Covered, EntryCovered, PendingCovered

\* What a client has yet to store is as well covered as it was.
LEMMA PendingStays ==
  ASSUME TypeOK, NEW d \in Clients, PendingCovered(d), SharesHold,
         unwritten'[d] = unwritten[d] \/ PendingCovered(d)'
  PROVE  PendingCovered(d)'
<1>1. CASE unwritten'[d] = unwritten[d] /\ unwritten[d] # <<>>
  <2>1. PICK o, cl : o = unwritten[d][2] /\ cl = unwritten[d][1]
    OBVIOUS
  <2>2. o \in Asks
    BY <1>1, <2>1, TypeIs DEF ClientOK
  <2>3. PICK n \in Int : n = o.quantity
    BY <2>2 DEF Asks
  <2>4. Arrives(d, cl) /\ (Sole(cl) => AtMost(cl, n))
    BY <1>1, <2>1, <2>3 DEF PendingCovered
  <2>5. Arrives(d, cl)' /\ (Sole(cl)' => AtMost(cl, n)')
    BY <2>4 DEF SharesHold
  <2> QED BY <1>1, <2>1, <2>3, <2>5 DEF PendingCovered
<1>2. CASE unwritten'[d] = unwritten[d] /\ unwritten[d] = <<>>
  BY <1>2 DEF PendingCovered
<1> QED BY <1>1, <1>2

\* A client whose entries stay is as well covered as it was.
LEMMA CoveredStays ==
  ASSUME TypeOK, NEW d \in Clients, Covered(d), SharesHold, orders'[d] = orders[d],
         unwritten'[d] = unwritten[d] \/ PendingCovered(d)'
  PROVE  Covered(d)'
<1>1. \A cl \in DOMAIN orders[d] : orders[d][cl].leaves_qty \in Int
  BY TypeIs DEF ClientOK, Entries
<1>2. ASSUME NEW cl \in DOMAIN orders[d] PROVE EntryCovered(d, cl)'
  <2>1. PICK n \in Int : n = orders[d][cl].leaves_qty
    BY <1>1
  <2>2. Arrives(d, cl) /\ (orders[d][cl].status = "Pending" /\ Sole(cl) => AtMost(cl, n))
    BY <2>1 DEF Covered, EntryCovered
  <2>3. Arrives(d, cl)' /\ (Sole(cl)' => Sole(cl) /\ (AtMost(cl, n) => AtMost(cl, n)'))
    BY <2>2 DEF SharesHold
  <2>4. orders'[d][cl].status = "Pending" /\ Sole(cl)' => AtMost(cl, orders[d][cl].leaves_qty)'
    BY <2>1, <2>2, <2>3
  <2> QED BY <2>3, <2>4 DEF EntryCovered
<1>3. PendingCovered(d)'
  BY PendingStays DEF Covered
<1> QED BY <1>2, <1>3 DEF Covered

\* Every request on its way is still there, and an order that is new among them
\* has a name that was not in use, or no longer has it for itself.
QueuesGrow ==
  /\ reused \subseteq reused'
  /\ \A d \in Clients : \A i \in DOMAIN to_exchange[d] :
       i \in DOMAIN to_exchange'[d] /\ to_exchange'[d][i] = to_exchange[d][i]
  /\ \A x : OnItsWay(x)' /\ x.kind = "D" => OnItsWay(x) \/ ~InUse(x.cl) \/ ~Sole(x.cl)'

\* Nothing is known less of a name when the acceptor does nothing.
LEMMA SharesStay ==
  ASSUME app' = app, QueuesGrow
  PROVE  SharesHold
<1> SUFFICES ASSUME NEW d \in Clients, NEW cl, NEW n \in Int, Arrives(d, cl)
             PROVE  /\ Arrives(d, cl)'
                    /\ Sole(cl)' => Sole(cl) /\ (AtMost(cl, n) => AtMost(cl, n)')
  BY DEF SharesHold
<1>1. Arrives(d, cl)'
  BY DEF Arrives, QueuesGrow
<1>2. InUse(cl) /\ (Sole(cl)' => Sole(cl))
  BY DEF Arrives, InUse, Sole, QueuesGrow
<1>3. ASSUME Sole(cl)', AtMost(cl, n) PROVE AtMost(cl, n)'
  <2>1. ASSUME NEW e \in Clients, NEW i \in DOMAIN to_exchange'[e],
               to_exchange'[e][i].kind = "D", to_exchange'[e][i].cl = cl
        PROVE  to_exchange'[e][i].order.quantity <= n
    <3>1. PICK x : x = to_exchange'[e][i]
      OBVIOUS
    <3>2. OnItsWay(x)'
      BY <3>1 DEF OnItsWay
    <3>3. OnItsWay(x) /\ x.kind = "D" /\ x.cl = cl
      BY <1>2, <1>3, <2>1, <3>1, <3>2 DEF QueuesGrow
    <3> QED BY <1>3, <3>1, <3>3 DEF OnItsWay, AtMost
  <2> QED BY <1>3, <2>1 DEF AtMost
<1> QED BY <1>1, <1>2, <1>3

\* The same queues have grown.
LEMMA SameQueuesGrow ==
  ASSUME to_exchange' = to_exchange, reused' = reused
  PROVE  QueuesGrow
BY DEF QueuesGrow, OnItsWay

\* Of a client that starts or quits.
LEMMA ComeAndGoDepth ==
  ASSUME TypeOK, DepthInv, NEW c \in Clients, Start(c) \/ Quit(c)
  PROVE  DepthInv'
<1>1. Fields /\ BooksMirror(app.ex) /\ \A d \in Clients : Covered(d)
  BY TypeIs, DepthInvIs
<1>2. /\ UNCHANGED <<app, to_exchange, unwritten, reused>>
      /\ orders' = [orders EXCEPT ![c] = <<>>] \/ orders' = orders
  BY DEF Start, Quit
<1>3. SharesHold
  BY <1>2, SameQueuesGrow, SharesStay
<1>4. ASSUME NEW d \in Clients PROVE Covered(d)'
  <2>1. CASE orders'[d] = orders[d]
    BY <1>1, <1>2, <1>3, <2>1, CoveredStays
  <2>2. CASE orders'[d] # orders[d]
    <3>1. orders'[d] = <<>>
      BY <1>1, <1>2, <2>2 DEF Fields
    <3>2. DOMAIN orders'[d] = {} /\ IsFiniteSet({})
      BY <3>1, FS_EmptySet
    <3>3. PendingCovered(d)'
      BY <1>1, <1>2, <1>3, PendingStays DEF Covered
    <3> QED BY <3>2, <3>3 DEF Covered
  <2> QED BY <2>1, <2>2
<1>5. BooksMirror(app.ex)'
  BY <1>1, <1>2
<1> QED BY <1>4, <1>5, DepthInvIs DEF DepthInv, Covered, EntryCovered, PendingCovered

\* A request at the end of a queue: an order's name was not in use, or it no longer
\* has it for itself.
LEMMA SentGrows ==
  ASSUME TypeOK, NEW c \in Clients, NEW m, Sent(c, m), reused \subseteq reused',
         m.kind = "D" => ~InUse(m.cl) \/ ~Sole(m.cl)'
  PROVE  QueuesGrow /\ \E i \in DOMAIN to_exchange'[c] : to_exchange'[c][i] = m
<1>1. PICK n : n = Len(to_exchange[c])
  OBVIOUS
<1>2. /\ n \in Nat /\ DOMAIN to_exchange[c] = 1..n /\ DOMAIN to_exchange'[c] = 1..(n + 1)
      /\ to_exchange'[c][n + 1] = m
      /\ \A i \in DOMAIN to_exchange[c] : to_exchange'[c][i] = to_exchange[c][i]
      /\ \A d \in Clients \ {c} : to_exchange'[d] = to_exchange[d]
  BY <1>1, SentQueues
<1>3. \A x : OnItsWay(x)' <=> OnItsWay(x) \/ x = m
  BY SentOnly
<1>4. ASSUME NEW d \in Clients, NEW i \in DOMAIN to_exchange[d]
      PROVE  i \in DOMAIN to_exchange'[d] /\ to_exchange'[d][i] = to_exchange[d][i]
  <2>1. CASE d = c
    BY <1>2, <2>1
  <2>2. CASE d # c
    BY <1>2, <2>2
  <2> QED BY <2>1, <2>2
<1>5. \A x : OnItsWay(x)' /\ x.kind = "D" => OnItsWay(x) \/ ~InUse(x.cl) \/ ~Sole(x.cl)'
  BY <1>3
<1>6. n + 1 \in DOMAIN to_exchange'[c]
  BY <1>2
<1> QED BY <1>2, <1>4, <1>5, <1>6 DEF QueuesGrow

\* An order is sent: what is to be stored of it is what it asks for.
LEMMA AskDepth ==
  ASSUME TypeOK, TypeOK', DepthInv, NEW c \in Clients, NEW m, AskSent(c, m)
  PROVE  DepthInv'
<1>1. Fields /\ BooksMirror(app.ex) /\ \A d \in Clients : Covered(d)
  BY TypeIs, DepthInvIs
<1>2. /\ app' = app /\ m.kind = "D" /\ Sent(c, m) /\ orders' = orders
      /\ unwritten' = unwritten \/ unwritten' = [unwritten EXCEPT ![c] = <<m.cl, m.order>>]
      /\ reused' = IF InUse(m.cl) THEN reused \cup {m.cl} ELSE reused
  BY DEF AskSent, Sent
<1>3. ~InUse(m.cl) \/ ~Sole(m.cl)'
  <2>1. Of(m.cl) = m.cl
    BY DEF AskSent, Of
  <2> QED BY <1>2, <2>1 DEF Sole
<1>4. QueuesGrow /\ \E i \in DOMAIN to_exchange'[c] : to_exchange'[c][i] = m
  <2>1. reused \subseteq reused'
    BY <1>2
  <2> QED BY <1>2, <1>3, <2>1, SentGrows
<1>5. SharesHold
  BY <1>2, <1>4, SharesStay
<1>6. Arrives(c, m.cl)'
  BY <1>2, <1>4 DEF Arrives
<1>7. ASSUME Sole(m.cl)' PROVE AtMost(m.cl, m.order.quantity)'
  <2>1. m.cl \notin DOMAIN app.clordid_map /\ \A x : OnItsWay(x) /\ x.kind = "D" => x.cl # m.cl
    BY <1>3, <1>7, InUseIs
  <2>2. m.order.quantity \in Int
    <3>1. PICK i \in DOMAIN to_exchange'[c] : to_exchange'[c][i] = m
      BY <1>4
    <3>2. RequestOK(to_exchange'[c][i])
      BY <3>1 DEF TypeOK, ClientOK
    <3> QED BY <1>2, <3>1, <3>2 DEF RequestOK, Asks
  <2>3. ASSUME NEW d \in Clients, NEW i \in DOMAIN to_exchange'[d],
               to_exchange'[d][i].kind = "D", to_exchange'[d][i].cl = m.cl
        PROVE  to_exchange'[d][i].order.quantity <= m.order.quantity
    <3>1. PICK x : x = to_exchange'[d][i]
      OBVIOUS
    <3>2. OnItsWay(x)'
      BY <3>1 DEF OnItsWay
    <3>3. OnItsWay(x) \/ x = m
      BY <1>2, <3>2, SentOnly
    <3> QED BY <2>1, <2>2, <2>3, <3>1, <3>3
  <2> QED BY <1>2, <2>1, <2>3 DEF AtMost
<1>8. ASSUME NEW d \in Clients PROVE Covered(d)'
  <2>1. unwritten'[d] = unwritten[d] \/ (d = c /\ unwritten'[d] = <<m.cl, m.order>>)
    BY <1>1, <1>2 DEF Fields
  <2>2. unwritten'[d] = unwritten[d] \/ PendingCovered(d)'
    BY <1>6, <1>7, <2>1 DEF PendingCovered
  <2> QED BY <1>1, <1>2, <1>5, <2>2, CoveredStays
<1>9. BooksMirror(app.ex)'
  BY <1>1, <1>2
<1> QED BY <1>8, <1>9 DEF DepthInv, Covered, EntryCovered, PendingCovered

\* A cancel is sent: no order comes with it.
LEMMA CancelDepth ==
  ASSUME TypeOK, DepthInv, NEW c \in Clients, RequestCancel(c)
  PROVE  DepthInv'
<1>1. BooksMirror(app.ex) /\ \A d \in Clients : Covered(d)
  BY DepthInvIs
<1>2. PICK m : CancelSent(c, m)
  BY CancelIs
<1>3. Sent(c, m) /\ m.kind = "F" /\ app' = app /\ UNCHANGED <<orders, unwritten, reused>>
  BY <1>2 DEF CancelSent, Sent
<1>4. QueuesGrow
  BY <1>3, SentGrows
<1>5. SharesHold
  BY <1>3, <1>4, SharesStay
<1>6. ASSUME NEW d \in Clients PROVE Covered(d)'
  BY <1>1, <1>3, <1>5, CoveredStays
<1>7. BooksMirror(app.ex)'
  BY <1>1, <1>3
<1> QED BY <1>6, <1>7 DEF DepthInv, Covered, EntryCovered, PendingCovered

\* One more entry, for a name that arrives, bounded if it is Pending.
LEMMA EntryDepth ==
  ASSUME TypeOK, DepthInv, UNCHANGED <<app, to_exchange, reused>>,
         NEW c \in Clients, NEW cl, Arrives(c, cl),
         DOMAIN orders'[c] = DOMAIN orders[c] \cup {cl},
         \A x \in DOMAIN orders[c] : x # cl => orders'[c][x] = orders[c][x],
         orders'[c][cl].status = "Pending" /\ Sole(cl) => AtMost(cl, orders'[c][cl].leaves_qty),
         \A d \in Clients \ {c} : orders'[d] = orders[d],
         \A d \in Clients : unwritten'[d] = unwritten[d] \/ unwritten'[d] = <<>>
  PROVE  DepthInv'
<1>1. BooksMirror(app.ex) /\ \A d \in Clients : Covered(d)
  BY DepthInvIs
<1>2. SharesHold
  BY SameQueuesGrow, SharesStay
<1>3. ASSUME NEW d \in Clients PROVE PendingCovered(d)'
  <2>1. unwritten'[d] = unwritten[d] \/ PendingCovered(d)'
    BY DEF PendingCovered
  <2> QED BY <1>1, <1>2, <2>1, PendingStays DEF Covered
<1>4. /\ \A x, n : AtMost(x, n)' <=> AtMost(x, n)
      /\ \A x : Sole(x)' <=> Sole(x)
  BY DEF AtMost, Sole
<1>5. \A x, d : Arrives(d, x)' <=> Arrives(d, x)
  BY DEF Arrives
<1>6. ASSUME NEW d \in Clients PROVE Covered(d)'
  <2>1. CASE d # c
    BY <1>1, <1>2, <1>3, <2>1, CoveredStays
  <2>2. CASE d = c
    <3>1. IsFiniteSet(DOMAIN orders'[c])
      BY <1>1, FS_AddElement DEF Covered
    <3>2. ASSUME NEW x \in DOMAIN orders'[c] PROVE EntryCovered(c, x)'
      <4>1. CASE x = cl
        BY <1>4, <1>5, <4>1 DEF EntryCovered
      <4>2. CASE x # cl
        <5>1. x \in DOMAIN orders[c] /\ orders'[c][x] = orders[c][x]
          BY <4>2
        <5> QED BY <1>1, <1>4, <1>5, <5>1 DEF Covered, EntryCovered
      <4> QED BY <4>1, <4>2
    <3> QED BY <1>3, <2>2, <3>1, <3>2 DEF Covered
  <2> QED BY <2>1, <2>2
<1>7. BooksMirror(app.ex)'
  BY <1>1
<1> QED BY <1>6, <1>7 DEF DepthInv, Covered, EntryCovered, PendingCovered

\* The entry of an order sent is stored.
LEMMA StoreDepth ==
  ASSUME TypeOK, DepthInv, NEW c \in Clients, StorePending(c)
  PROVE  DepthInv'
<1>1. Fields /\ \A d \in Clients : Covered(d)
  BY TypeIs, DepthInvIs
<1>2. PICK o, cl, entry : /\ o = unwritten[c][2] /\ cl = unwritten[c][1]
                          /\ entry = OrderEntry(o.symbol, o.side, o.price, o.quantity, "Pending")
  OBVIOUS
<1>3. /\ UNCHANGED <<app, to_exchange, reused>> /\ unwritten[c] # <<>>
      /\ orders' = [orders EXCEPT ![c] = Put(@, cl, entry)]
      /\ unwritten' = [unwritten EXCEPT ![c] = <<>>]
  BY <1>2, Zenon DEF StorePending, acceptor, counters
<1>4. PICK stored : stored = Put(orders[c], cl, entry)
  OBVIOUS
<1>5. /\ orders'[c] = stored /\ \A d \in Clients \ {c} : orders'[d] = orders[d]
      /\ \A d \in Clients : unwritten'[d] = unwritten[d] \/ unwritten'[d] = <<>>
  BY <1>1, <1>3, <1>4 DEF Fields
<1>6. /\ DOMAIN stored = DOMAIN orders[c] \cup {cl} /\ stored[cl] = entry
      /\ \A x \in DOMAIN orders[c] : x # cl => stored[x] = orders[c][x]
  BY <1>4 DEF Put
<1>7. Arrives(c, cl) /\ (Sole(cl) => AtMost(cl, o.quantity))
  BY <1>1, <1>2, <1>3 DEF Covered, PendingCovered
<1>8. entry.leaves_qty = o.quantity
  BY <1>2 DEF OrderEntry
<1> QED BY <1>3, <1>5, <1>6, <1>7, <1>8, EntryDepth

\* A report is handled: the name it brings is the acceptor's, and no report shows an
\* order as Pending.
LEMMA HandleDepth ==
  ASSUME TypeOK, DepthInv, NEW c \in Clients, handle_message(c)
  PROVE  DepthInv'
<1>1. Fields /\ ClientOK(c)
  BY TypeIs
<1>2. PICK q, r, entries, after, names :
        /\ q = to_client[c] /\ r = Head(q) /\ entries = orders[c]
        /\ after = Tracked(entries, r) /\ names = DOMAIN app.clordid_map
  OBVIOUS
<1>3. UNCHANGED <<app, to_exchange, unwritten, reused>> /\ q # <<>> /\ q \in Seq(ReportsOn(names))
  BY <1>1, <1>2 DEF handle_message, acceptor, counters, ClientOK
<1>4. /\ orders'[c] = after /\ \A d \in Clients \ {c} : orders'[d] = orders[d]
  <2>1. orders' = [orders EXCEPT ![c] = Tracked(@, r)]
    BY <1>2, Zenon DEF handle_message
  <2> QED BY <1>1, <1>2, <2>1 DEF Fields
<1>5. r \in ReportsOn(names)
  <2>1. PICK rest : rest = Tail(q)
    OBVIOUS
  <2> QED BY <1>2, <1>3, <2>1, FirstReport
<1>6. entries \in [DOMAIN entries -> Entries]
  BY <1>1, <1>2 DEF ClientOK
<1>7. /\ DOMAIN after = DOMAIN entries \cup {r.cl}
      /\ \A x \in DOMAIN entries : x # r.cl => after[x] = entries[x]
  <2>1. PICK entry : after = Put(entries, r.cl, entry)
    BY <1>2 DEF Tracked
  <2> QED BY <2>1 DEF Put
<1>8. after[r.cl].status # "Pending"
  <2>1. PICK v : v = r.view
    OBVIOUS
  <2>2. v.status \in OrderStatus
    BY <1>5, <2>1 DEF ReportsOn, Views
  <2>3. PICK old : old = IF r.cl \in DOMAIN entries THEN entries[r.cl]
                         ELSE OrderEntry(v.symbol, v.side, v.price, v.leaves, "")
    OBVIOUS
  <2>4. after[r.cl] = [old EXCEPT !.leaves_qty = v.leaves, !.status = Shown(v.status)]
    BY <1>2, <2>1, <2>3 DEF Tracked, Put
  <2>5. old = [symbol |-> old.symbol, side |-> old.side, price |-> old.price,
               leaves_qty |-> old.leaves_qty, status |-> old.status]
    BY <1>6, <2>3 DEF Entries, OrderEntry
  <2>6. after[r.cl].status = Shown(v.status)
    BY <2>4, <2>5
  <2> QED BY <2>2, <2>6 DEF Shown, OrderStatus
<1>9. Arrives(c, r.cl)
  BY <1>2, <1>5 DEF ReportsOn, Arrives
<1>10. /\ DOMAIN orders'[c] = DOMAIN orders[c] \cup {r.cl}
       /\ \A x \in DOMAIN orders[c] : x # r.cl => orders'[c][x] = orders[c][x]
       /\ orders'[c][r.cl].status # "Pending"
  BY <1>2, <1>4, <1>7, <1>8
<1>11. PICK cl : cl = r.cl
  OBVIOUS
<1>12. \A d \in Clients : unwritten'[d] = unwritten[d] \/ unwritten'[d] = <<>>
  BY <1>3
<1> QED BY <1>3, <1>4, <1>9, <1>10, <1>11, <1>12, EntryDepth

\* Serving a request keeps the books and what the clients have within bounds.
LEMMA ServeDepth ==
  ASSUME TypeOK, TypeOK', NamesInv, DepthInv, NEW c \in Clients, Serve(c)
  PROVE  DepthInv'
<1>1. AppOK(app) /\ BooksMirror(app.ex) /\ \A d \in Clients : Covered(d)
  BY TypeIs, DepthInvIs DEF Fields
<1>2. PICK m : m = Head(to_exchange[c])
  OBVIOUS
<1>3. /\ RequestOK(m) /\ OnItsWay(m)
      /\ \A x : OnItsWay(x)' => OnItsWay(x)
      /\ 1 \in DOMAIN to_exchange[c] /\ to_exchange[c][1] = m
  BY <1>2, ServedOnly
<1>4. /\ app' = Handled(app, risk_ctx, m).app
      /\ UNCHANGED <<orders, unwritten, reused>>
      /\ (app' = app /\ m.kind = "F") \/ \E id : NamesServed(m, id)
  BY <1>2, ServedNames
<1>5. PICK new : new = app'.ex
  OBVIOUS
<1>6. /\ BooksMirror(new) /\ NoMoreShares(new.order_states, app.ex.order_states)
      /\ m.kind = "D" =>
           remaining_quantity(new.order_states[app.next_order_id]) <= m.order.quantity
  <2>1. PICK answer : answer = Handled(app, risk_ctx, m)
    OBVIOUS
  <2>2. new = answer.app.ex
    BY <1>4, <1>5, <2>1
  <2> QED BY <1>1, <1>3, <2>1, <2>2, HandledMirrors
<1>7. \A d \in Clients : \A i \in DOMAIN to_exchange[d] :
        ~(d = c /\ i = 1) =>
          \E j \in DOMAIN to_exchange'[d] : to_exchange'[d][j] = to_exchange[d][i]
  <2>1. to_exchange[c] # <<>> /\ to_exchange' = [to_exchange EXCEPT ![c] = Tail(@)]
    BY DEF Serve
  <2> QED BY <2>1, OthersWait
<1>8. /\ \A x \in DOMAIN app.clordid_map :
           /\ x \in DOMAIN app'.clordid_map
           /\ Sole(x) => app'.clordid_map[x] = app.clordid_map[x]
      /\ m.kind = "D" => m.cl \in DOMAIN app'.clordid_map
      /\ \A x \in DOMAIN app'.clordid_map \ DOMAIN app.clordid_map :
           /\ x = m.cl /\ (x[1] # "CNL" => m.kind = "D")
           /\ m.kind = "D" => app'.clordid_map[x] = app.next_order_id
  <2>1. CASE app' = app /\ m.kind = "F"
    BY <2>1
  <2>2. ASSUME NEW id, NamesServed(m, id)
        PROVE  /\ \A x \in DOMAIN app.clordid_map :
                    /\ x \in DOMAIN app'.clordid_map
                    /\ Sole(x) => app'.clordid_map[x] = app.clordid_map[x]
               /\ m.kind = "D" => m.cl \in DOMAIN app'.clordid_map
               /\ \A x \in DOMAIN app'.clordid_map \ DOMAIN app.clordid_map :
                    /\ x = m.cl /\ (x[1] # "CNL" => m.kind = "D")
                    /\ m.kind = "D" => app'.clordid_map[x] = app.next_order_id
    <3>1. /\ DOMAIN app'.clordid_map = DOMAIN app.clordid_map \cup {m.cl}
          /\ app'.clordid_map[m.cl] = id
          /\ \A x \in DOMAIN app.clordid_map : Sole(x) => app'.clordid_map[x] = app.clordid_map[x]
      BY <2>2, ServedMaps
    <3>2. \/ m.kind = "D" /\ id = app.next_order_id
          \/ m.kind = "F" /\ m.cl[1] = "CNL"
      BY <2>2, SameOrigin DEF NamesServed
    <3> QED BY <3>1, <3>2
  <2> QED BY <1>4, <2>1, <2>2
<1>9. SharesHold
  <2> SUFFICES ASSUME NEW d \in Clients, NEW cl, NEW n \in Int, Arrives(d, cl)
               PROVE  /\ Arrives(d, cl)'
                      /\ Sole(cl)' => Sole(cl) /\ (AtMost(cl, n) => AtMost(cl, n)')
    BY DEF SharesHold
  <2>1. Arrives(d, cl)'
    <3>1. CASE cl \in DOMAIN app.clordid_map
      BY <1>8, <3>1 DEF Arrives
    <3>2. ASSUME NEW i \in DOMAIN to_exchange[d],
                 to_exchange[d][i].kind = "D", to_exchange[d][i].cl = cl
          PROVE  Arrives(d, cl)'
      <4>1. CASE d = c /\ i = 1
        BY <1>3, <1>8, <3>2, <4>1 DEF Arrives
      <4>2. CASE ~(d = c /\ i = 1)
        <5>1. \E j \in DOMAIN to_exchange'[d] : to_exchange'[d][j] = to_exchange[d][i]
          BY <1>7, <4>2
        <5> QED BY <3>2, <5>1 DEF Arrives
      <4> QED BY <4>1, <4>2
    <3> QED BY <3>1, <3>2 DEF Arrives
  <2>2. Sole(cl)' => Sole(cl)
    BY <1>4 DEF Sole
  <2>3. ASSUME Sole(cl), AtMost(cl, n) PROVE AtMost(cl, n)'
    <3>1. ASSUME NEW e \in Clients, NEW i \in DOMAIN to_exchange'[e],
                 to_exchange'[e][i].kind = "D", to_exchange'[e][i].cl = cl
          PROVE  to_exchange'[e][i].order.quantity <= n
      <4>1. PICK x : x = to_exchange'[e][i]
        OBVIOUS
      <4>2. OnItsWay(x)'
        BY <4>1 DEF OnItsWay
      <4>3. OnItsWay(x) /\ x.kind = "D" /\ x.cl = cl
        BY <1>3, <3>1, <4>1, <4>2
      <4> QED BY <2>3, <4>1, <4>3 DEF OnItsWay, AtMost
    <3>2. ASSUME cl \in DOMAIN app'.clordid_map
          PROVE  remaining_quantity(app'.ex.order_states[app'.clordid_map[cl]]) <= n
      <4>1. PICK id : id = app'.clordid_map[cl]
        OBVIOUS
      <4>2. remaining_quantity(new.order_states[id]) \in Int
        <5>1. AppOK(app')
          BY DEF TypeOK
        <5>2. PICK now : now = app'
          OBVIOUS
        <5>3. IsExchange(new, Registered) /\ id \in DOMAIN new.order_states
          BY <1>5, <3>2, <4>1, <5>1, <5>2 DEF AppOK
        <5> QED BY <5>3 DEF IsExchange, OrderStates, remaining_quantity
      <4>3. CASE cl \in DOMAIN app.clordid_map
        <5>1. id = app.clordid_map[cl]
          BY <1>8, <2>3, <4>1, <4>3
        <5>2. id \in DOMAIN app.ex.order_states
          BY <1>1, <4>3, <5>1 DEF AppOK
        <5>3. remaining_quantity(app.ex.order_states[id]) \in Int
          <6>1. PICK states : states = app.ex.order_states
            OBVIOUS
          <6>2. states[id] \in OrderStates
            BY <1>1, <5>2, <6>1 DEF AppOK, IsExchange
          <6> QED BY <6>1, <6>2 DEF OrderStates, remaining_quantity
        <5>4. remaining_quantity(new.order_states[id])
                <= remaining_quantity(app.ex.order_states[id])
          BY <1>6, <5>2 DEF NoMoreShares
        <5>5. remaining_quantity(app.ex.order_states[id]) <= n
          BY <2>3, <4>3, <5>1 DEF AtMost
        <5> QED BY <1>5, <4>1, <4>2, <5>3, <5>4, <5>5
      <4>4. CASE cl \notin DOMAIN app.clordid_map
        <5>1. cl[1] # "CNL"
          BY <4>4 DEF Arrives, NamesInv, OrderNamesFresh
        <5>2. cl = m.cl /\ m.kind = "D" /\ id = app.next_order_id
          BY <1>8, <3>2, <4>1, <4>4, <5>1
        <5>3. m.order.quantity <= n
          BY <1>3, <2>3, <5>2 DEF AtMost
        <5>4. m.order.quantity \in Int
          BY <1>3, <5>2 DEF RequestOK, Asks
        <5> QED BY <1>5, <1>6, <4>1, <4>2, <5>2, <5>3, <5>4
      <4> QED BY <4>3, <4>4
    <3> QED BY <3>1, <3>2 DEF AtMost
  <2> QED BY <2>1, <2>2, <2>3
<1>10. ASSUME NEW d \in Clients PROVE Covered(d)'
  BY <1>1, <1>4, <1>9, CoveredStays
<1>11. BooksMirror(app.ex)'
  BY <1>5, <1>6
<1> QED BY <1>10, <1>11 DEF DepthInv, Covered, EntryCovered, PendingCovered

\* Every step keeps the books and what the clients have within bounds.
LEMMA DepthStep ==
  ASSUME TypeOK, NamesInv, DepthInv, [Next]_vars
  PROVE  DepthInv'
<1>1. TypeOK'
  BY TypeStep
<1>2. CASE UNCHANGED vars
  <2>1. UNCHANGED <<app, to_exchange, orders, unwritten, reused>>
    BY <1>2 DEF vars, acceptor
  <2>2. SharesHold
    BY <2>1, SameQueuesGrow, SharesStay
  <2>3. ASSUME NEW d \in Clients PROVE Covered(d)'
    BY <2>1, <2>2, CoveredStays, DepthInvIs
  <2>4. BooksMirror(app.ex)'
    BY <2>1 DEF DepthInv
  <2> QED BY <2>3, <2>4 DEF DepthInv, Covered, EntryCovered, PendingCovered
<1>3. CASE Next
  <2>1. PICK c \in Clients : Command(c) \/ Serve(c) \/ handle_message(c)
    BY <1>3 DEF Next
  <2>2. CASE submit_bg_order(c) \/ submit_user_order(c)
    <3>1. PICK m : AskSent(c, m)
      BY <2>1, <2>2, AskIs
    <3> QED BY <1>1, <2>1, <3>1, AskDepth
  <2>3. CASE Command(c) /\ ~(submit_bg_order(c) \/ submit_user_order(c))
    BY <2>1, <2>3, ComeAndGoDepth, StoreDepth, CancelDepth DEF Command
  <2>4. CASE Serve(c) \/ handle_message(c)
    BY <1>1, <2>1, <2>4, ServeDepth, HandleDepth
  <2> QED BY <2>1, <2>2, <2>3, <2>4
<1> QED BY <1>2, <1>3

\* At the start the books are empty and the clients have nothing.
LEMMA DepthInit == Init => DepthInv
<1> SUFFICES ASSUME Init PROVE DepthInv
  OBVIOUS
<1>1. PICK ex : ex = app.ex
  OBVIOUS
<1>2. ex = EmptyExchange(Registered)
  BY <1>1 DEF Init, NewApp
<1>3. BooksMirror(ex)
  <2>1. DOMAIN ex.order_states = {} /\ DOMAIN ex.books = Registered
    BY <1>2 DEF EmptyExchange
  <2>2. ASSUME NEW s \in Registered, NEW sd \in Side
        PROVE  Holds(ex.books[s][sd], OpenOn(ex.order_states, s, sd))
    <3>1. PICK open : open = OpenOn(ex.order_states, s, sd)
      OBVIOUS
    <3>2. DOMAIN open = {}
      <4>1. PICK states : states = ex.order_states
        OBVIOUS
      <4>2. open = OpenOn(states, s, sd)
        BY <3>1, <4>1
      <4>3. \A x : x \in DOMAIN open => x \in DOMAIN states
        BY <4>2 DEF OpenOn, OrdersOn
      <4> QED BY <2>1, <4>1, <4>3
    <3>3. DOMAIN ex.books[s][sd] = {}
      BY <1>2 DEF EmptyExchange, NoLevels
    <3> QED BY <3>1, <3>2, <3>3 DEF Holds
  <2> QED BY <2>1, <2>2 DEF BooksMirror
<1>4. ASSUME NEW d \in Clients PROVE Covered(d)
  <2>1. orders[d] = <<>> /\ unwritten[d] = <<>>
    BY DEF Init
  <2>2. DOMAIN orders[d] = {}
    BY <2>1
  <2> QED BY <2>1, <2>2, FS_EmptySet DEF Covered, PendingCovered
<1> QED BY <1>1, <1>3, <1>4, DepthInvIs

\* DepthInv always holds.
THEOREM DepthInvAlways == Spec => []DepthInv
<1>1. Init => TypeOK /\ NamesInv /\ DepthInv
  BY TypeInit, NamesInit, DepthInit
<1>2. TypeOK /\ NamesInv /\ DepthInv /\ [Next]_vars => (TypeOK /\ NamesInv /\ DepthInv)'
  BY TypeStep, NamesStep, DepthStep
<1> QED BY <1>1, <1>2, PTL DEF Spec


-----------------------------------------------------------------------------
(* The screen and the book.                                                *)

\* The n numbers b are the shares of these entries, in a row that lists each once.
Listing(entries, names, n, listed, b) ==
  /\ b \in [1..n -> Nat]
  /\ \A i \in 1..n : listed[i] \in names /\ b[i] = entries[listed[i]].leaves_qty
  /\ \A i, j \in 1..n : listed[i] = listed[j] => i = j
  /\ \A x \in names : \E i \in 1..n : listed[i] = x

\* The shares of some entries are numbers in such a row.
LEMMA LeavesListed ==
  ASSUME NEW entries, NEW names, IsFiniteSet(names),
         \A x \in names : entries[x].leaves_qty \in Nat
  PROVE  \E n \in Nat : \E listed, b :
           Listing(entries, names, n, listed, b) /\ LeavesOf(entries, names) = Summed(b, n)
<1>1. PICK listed : listed = SetToSeq(names)
  OBVIOUS
<1>2. PICK n \in Nat : /\ listed \in [1..n -> names] /\ Len(listed) = n
                       /\ \A i, j \in 1..n : listed[i] = listed[j] => i = j
                       /\ \A x \in names : \E i \in 1..n : listed[i] = x
  BY <1>1, ListedOnce
<1>3. PICK b : b = [i \in DOMAIN listed |-> entries[listed[i]].leaves_qty]
  OBVIOUS
<1>4. b \in [1..n -> Nat] /\ \A i \in 1..n : b[i] = entries[listed[i]].leaves_qty
  BY <1>2, <1>3
<1>5. LeavesOf(entries, names) = Summed(b, n)
  BY <1>1, <1>2, <1>3, Zenon DEF LeavesOf
<1> QED BY <1>2, <1>4, <1>5 DEF Listing

\* Each of n numbers, zeros aside, is at most the shares of the entry to which g sends
\* it, no two of one: the entries do not add up to less.
Within(a, n, entries, names, g) ==
  /\ \A i \in 1..n : a[i] # 0 => g[i] \in names /\ a[i] <= entries[g[i]].leaves_qty
  /\ \A i, j \in 1..n : a[i] # 0 /\ a[j] # 0 /\ g[i] = g[j] => i = j

\* The entries have as many shares as the numbers, or more.
LEMMA LeavesAbove ==
  ASSUME NEW entries, NEW names, IsFiniteSet(names),
         \A x \in names : entries[x].leaves_qty \in Nat,
         NEW N \in Nat, NEW a, Numbers(a, N), NEW g, Within(a, N, entries, names, g)
  PROVE  Summed(a, N) <= LeavesOf(entries, names)
<1>0. PICK m \in Nat : \E listed, b :
        Listing(entries, names, m, listed, b) /\ LeavesOf(entries, names) = Summed(b, m)
  BY LeavesListed
<1>1. PICK listed, b :
        Listing(entries, names, m, listed, b) /\ LeavesOf(entries, names) = Summed(b, m)
  BY <1>0
<1>2. PICK f : f = [i \in 1..N |-> CHOOSE k \in 1..m : listed[k] = g[i]]
  OBVIOUS
<1>3. ASSUME NEW i \in 1..N, a[i] # 0 PROVE f[i] \in 1..m /\ listed[f[i]] = g[i]
  <2>1. \E k \in 1..m : listed[k] = g[i]
    BY <1>1, <1>3 DEF Within, Listing
  <2> QED BY <1>2, <2>1
<1>4. SentTo(a, N, b, m, f)
  <2>1. ASSUME NEW i \in 1..N, a[i] # 0 PROVE f[i] \in 1..m /\ a[i] <= b[f[i]]
    <3>1. PICK k \in 1..m : k = f[i]
      BY <1>3, <2>1
    <3>2. listed[k] = g[i]
      BY <1>3, <2>1, <3>1
    <3>3. b[k] = entries[listed[k]].leaves_qty
      BY <1>1, <3>1 DEF Listing
    <3>4. a[i] <= entries[g[i]].leaves_qty
      BY <2>1 DEF Within
    <3> QED BY <3>1, <3>2, <3>3, <3>4
  <2>2. ASSUME NEW i \in 1..N, NEW j \in 1..N, a[i] # 0, a[j] # 0, f[i] = f[j] PROVE i = j
    BY <1>3, <2>2 DEF Within
  <2> QED BY <2>1, <2>2 DEF SentTo
<1>5. b \in [1..m -> Nat] /\ m \in Nat
  BY <1>1 DEF Listing
<1>6. Summed(a, N) <= Summed(b, m)
  BY <1>4, <1>5, SummedBelow
<1> QED BY <1>1, <1>6

\* Each entry has at most the shares of the number to which h sends it, no two of one:
\* they do not add up to more than those.
Without(b, m, entries, names, h) ==
  /\ \A x \in names : h[x] \in 1..m /\ entries[x].leaves_qty <= b[h[x]]
  /\ \A x, y \in names : h[x] = h[y] => x = y

\* The entries have as many shares as the numbers, or fewer.
LEMMA LeavesBelow ==
  ASSUME NEW entries, NEW names, IsFiniteSet(names),
         \A x \in names : entries[x].leaves_qty \in Nat,
         NEW m \in Nat, NEW b \in [1..m -> Nat], NEW h, Without(b, m, entries, names, h)
  PROVE  LeavesOf(entries, names) <= Summed(b, m)
<1>0. PICK N \in Nat : \E listed, a :
        Listing(entries, names, N, listed, a) /\ LeavesOf(entries, names) = Summed(a, N)
  BY LeavesListed
<1>1. PICK listed, a :
        Listing(entries, names, N, listed, a) /\ LeavesOf(entries, names) = Summed(a, N)
  BY <1>0
<1>2. PICK f : f = [i \in 1..N |-> h[listed[i]]]
  OBVIOUS
<1>3. SentTo(a, N, b, m, f)
  <2>1. ASSUME NEW i \in 1..N PROVE f[i] \in 1..m /\ a[i] <= b[f[i]]
    BY <1>1, <1>2 DEF Without, Listing
  <2>2. ASSUME NEW i \in 1..N, NEW j \in 1..N, f[i] = f[j] PROVE i = j
    BY <1>1, <1>2, <2>2 DEF Without, Listing
  <2> QED BY <2>1, <2>2 DEF SentTo
<1>4. Numbers(a, N) /\ N \in Nat
  BY <1>1 DEF Numbers, Listing
<1>5. Summed(a, N) <= Summed(b, m)
  BY <1>3, <1>4, SummedBelow
<1> QED BY <1>1, <1>5

\* The entries that the screen adds up at one price.
AtPrice(entries, s, sd, p) == {cl \in ShownAt(entries, s, sd) : entries[cl].price = p}

\* The depth on the screen.
LEMMA DepthShows ==
  ASSUME NEW entries, NEW s, NEW sd
  PROVE  Depth(entries, s, sd)
           = [p \in {entries[cl].price : cl \in ShownAt(entries, s, sd)} |->
                LeavesOf(entries, AtPrice(entries, s, sd, p))]
BY DEF Depth, AtPrice

\* At each price the screen shows the shares of the entries there, if any.
LEMMA ShownShares ==
  ASSUME NEW entries, NEW s, NEW sd, NEW p, IsFiniteSet(AtPrice(entries, s, sd, p)),
         \A x \in AtPrice(entries, s, sd, p) : entries[x].leaves_qty \in Nat
  PROVE  /\ SharesAt(Depth(entries, s, sd), p) = LeavesOf(entries, AtPrice(entries, s, sd, p))
         /\ LeavesOf(entries, AtPrice(entries, s, sd, p)) \in Nat
<1>1. PICK names, depth : names = AtPrice(entries, s, sd, p) /\ depth = Depth(entries, s, sd)
  OBVIOUS
<1>2. depth = [x \in {entries[cl].price : cl \in ShownAt(entries, s, sd)} |->
                 LeavesOf(entries, AtPrice(entries, s, sd, x))]
  BY <1>1, DepthShows
<1>3. PICK m \in Nat : \E listed, a :
        Listing(entries, names, m, listed, a) /\ LeavesOf(entries, names) = Summed(a, m)
  BY <1>1, LeavesListed
<1>4. PICK listed, a :
        Listing(entries, names, m, listed, a) /\ LeavesOf(entries, names) = Summed(a, m)
  BY <1>3
<1>5. LeavesOf(entries, names) \in Nat
  <2>1. \A i \in 1..m : a[i] \in Nat
    BY <1>4 DEF Listing
  <2>2. Summed(a, m) \in Nat
    BY <2>1, SummedNat
  <2> QED BY <1>4, <2>2
<1>6. CASE p \in DOMAIN depth
  <2>1. depth[p] = LeavesOf(entries, names)
    BY <1>1, <1>2, <1>6
  <2> QED BY <1>1, <1>5, <1>6, <2>1 DEF SharesAt
<1>7. CASE p \notin DOMAIN depth
  <2>1. names = {}
    <3>1. \A cl \in ShownAt(entries, s, sd) : entries[cl].price # p
      BY <1>2, <1>7
    <3> QED BY <1>1, <3>1 DEF AtPrice
  <2>2. m = 0
    <3>1. ~(1 \in 1..m)
      BY <1>4, <2>1 DEF Listing
    <3> QED BY <3>1
  <2>3. Summed(a, m) = 0
    <3>1. Numbers(a, m)
      BY <2>2 DEF Numbers
    <3> QED BY <2>2, <3>1, SummedStep
  <2> QED BY <1>1, <1>4, <1>7, <2>3 DEF SharesAt
<1> QED BY <1>6, <1>7

\* An entry that is shown, and is of an order with these shares, or has more.
ShowsAtLeast(cl, entries, s, sd, p, shares) ==
  cl \in AtPrice(entries, s, sd, p) /\ shares <= entries[cl].leaves_qty

\* A client that saw every order shows those that are open and have their ClOrdID for
\* themselves, with their shares or more.
LEMMA OpenIsShown ==
  ASSUME TypeOK, NamesInv, OrdersTracked, TrackInv, DepthInv, NEW c \in Clients, SawAll(c),
         NEW s, NEW sd, NEW id \in DOMAIN OpenOn(app.ex.order_states, s, sd),
         NEW st, st = app.ex.order_states[id],
         NEW cl, cl = app.orderid_to_clordid_map[id], Sole(cl)
  PROVE  /\ ShowsAtLeast(cl, orders[c], s, sd, st.price, remaining_quantity(st))
         /\ cl \in DOMAIN app.clordid_map /\ app.clordid_map[cl] = id
<1>1. /\ id \in DOMAIN app.ex.order_states /\ IsOpen(st) /\ st.symbol = s /\ st.side = sd
  BY DEF OpenOn, OrdersOn
<1>2. AppOK(app) /\ id \in DOMAIN app.orderid_to_clordid_map /\ st \in OrderStates
  <2>1. AppOK(app)
    BY DEF TypeOK
  <2>2. id \in DOMAIN app.orderid_to_clordid_map /\ IsExchange(app.ex, Registered)
    BY <1>1, <2>1 DEF AppOK
  <2> QED BY <1>1, <2>1, <2>2 DEF IsExchange
<1>3. cl \in DOMAIN app.clordid_map /\ app.clordid_map[cl] = id
  BY <1>2 DEF NamesInv, MapsAgree
<1>4. CaughtUp(c) /\ joined[c].order = 1
  BY DEF SawAll
<1>5. Settled(c, id)
  BY <1>1, <1>4 DEF OrdersTracked
<1>6. id \in Nat \ {0}
  BY <1>1, <1>2 DEF AppOK, OrderId
<1>7. PICK entries : entries = orders[c]
  OBVIOUS
<1>8. /\ cl \in DOMAIN entries
      /\ entries[cl] = TrueEntry(st) \/ entries[cl].status = "Pending"
  BY <1>4, <1>5, <1>6, <1>7 DEF Settled
<1>9. remaining_quantity(st) \in Int /\ remaining_quantity(st) > 0 /\ ~is_terminal(st)
  BY <1>1, <1>2 DEF IsOpen, OrderStates, remaining_quantity
<1>10. entries[cl].leaves_qty \in Int
  BY <1>7, <1>8, TypeIs DEF ClientOK, Entries
<1>11. CASE entries[cl] = TrueEntry(st)
  <2>1. /\ entries[cl].symbol = s /\ entries[cl].side = sd /\ entries[cl].price = st.price
        /\ entries[cl].leaves_qty = remaining_quantity(st)
        /\ entries[cl].status = Shown(st.order_status)
    BY <1>1, <1>11 DEF TrueEntry, OrderEntry
  <2>2. entries[cl].status \notin Finished
    BY <1>2, <1>9, <2>1 DEF is_terminal, OrderStates, OrderStatus, Shown, Finished
  <2> QED BY <1>3, <1>7, <1>8, <1>9, <2>1, <2>2 DEF ShowsAtLeast, AtPrice, ShownAt
<1>12. CASE entries[cl].status = "Pending"
  <2>1. NameTrue(cl, entries[cl])
    BY <1>7, <1>8, TrackIs DEF UpToDate
  <2>2. SameTerms(entries[cl], st)
    BY <1>3, <2>1 DEF NameTrue
  <2>3. EntryCovered(c, cl)
    BY <1>7, <1>8, DepthInvIs DEF Covered
  <2>4. remaining_quantity(st) <= entries[cl].leaves_qty
    BY <1>3, <1>7, <1>12, <2>3 DEF EntryCovered, AtMost
  <2>5. entries[cl].leaves_qty > 0 /\ entries[cl].status \notin Finished
    BY <1>9, <1>10, <1>12, <2>4 DEF Finished
  <2> QED BY <1>1, <1>3, <1>7, <1>8, <2>2, <2>4, <2>5 DEF ShowsAtLeast, AtPrice, ShownAt, SameTerms
<1> QED BY <1>8, <1>11, <1>12

\* An entry it shows that is not stale is of an open order, whose name it has.
LEMMA ShownIsOpen ==
  ASSUME TypeOK, OrdersTracked, DepthInv, NEW c \in Clients, SawAll(c),
         NEW s, NEW sd, NEW cl \in ShownAt(orders[c], s, sd), ~Stale(c, cl),
         NEW id, id = app.clordid_map[cl],
         NEW st, st = app.ex.order_states[id]
  PROVE  /\ id \in DOMAIN OpenOn(app.ex.order_states, s, sd)
         /\ orders[c][cl].price = st.price /\ orders[c][cl].leaves_qty = remaining_quantity(st)
         /\ app.orderid_to_clordid_map[id] = cl
<1>1. PICK entries : entries = orders[c]
  OBVIOUS
<1>2. /\ cl \in DOMAIN entries /\ entries[cl].symbol = s /\ entries[cl].side = sd
      /\ entries[cl].leaves_qty > 0 /\ entries[cl].status \notin Finished
  BY <1>1 DEF ShownAt
<1>3. CaughtUp(c) /\ to_exchange[c] = <<>>
  BY DEF SawAll, CaughtUp
<1>4. cl \in DOMAIN app.clordid_map
  <2>1. Arrives(c, cl)
    BY <1>1, <1>2, DepthInvIs DEF Covered, EntryCovered
  <2> QED BY <1>3, <2>1 DEF Arrives
<1>5. AppOK(app) /\ id \in DOMAIN app.ex.order_states /\ st \in OrderStates
  <2>1. AppOK(app)
    BY DEF TypeOK
  <2>2. id \in DOMAIN app.ex.order_states /\ IsExchange(app.ex, Registered)
    BY <1>4, <2>1 DEF AppOK
  <2> QED BY <2>1, <2>2 DEF IsExchange
<1>6. entries[cl].status # "Pending" /\ app.orderid_to_clordid_map[id] = cl /\ Sole(cl)
  BY <1>1 DEF Stale
<1>7. entries[cl] = TrueEntry(st)
  <2>1. Settled(c, id)
    BY <1>3, <1>5 DEF OrdersTracked
  <2> QED BY <1>1, <1>2, <1>6, <2>1 DEF Settled
<1>8. /\ st.symbol = s /\ st.side = sd /\ entries[cl].price = st.price
      /\ entries[cl].leaves_qty = remaining_quantity(st)
      /\ entries[cl].status = Shown(st.order_status)
  BY <1>2, <1>7 DEF TrueEntry, OrderEntry
<1>9. IsOpen(st)
  BY <1>2, <1>5, <1>8 DEF IsOpen, is_terminal, Shown, Finished
<1> QED BY <1>1, <1>5, <1>6, <1>8, <1>9 DEF OpenOn, OrdersOn

\* The n numbers b are the shares of what is open at price p, each in one place of a
\* queue.
Queueing(q, open, p, n, b) ==
  /\ b \in [1..n -> Nat]
  /\ \A i \in 1..n : q[i].order_id \in DOMAIN open /\ open[q[i].order_id] = <<p, b[i]>>
  /\ \A i, j \in 1..n : q[i].order_id = q[j].order_id => i = j
  /\ \A id \in DOMAIN open : open[id][1] = p => \E i \in 1..n : q[i].order_id = id

\* A level queues what is open at its price.
LEMMA LevelIs ==
  ASSUME NEW levels, NEW ids, Tidy(levels, EntriesOf(ids)), NEW open, Holds(levels, open),
         NEW p, p \in DOMAIN levels
  PROVE  \E n \in Nat : \E b :
           /\ Queueing(levels[p], open, p, n, b)
           /\ Len(levels[p]) = n /\ DOMAIN levels[p] = 1..n
           /\ \A i \in 1..n : b[i] = levels[p][i].quantity
<1>1. PICK q : q = levels[p]
  OBVIOUS
<1>2. q \in Seq(EntriesOf(ids))
  BY <1>1 DEF Tidy
<1>3. PICK n \in Nat : n = Len(q)
  BY <1>2
<1>4. DOMAIN q = 1..n /\ \A i \in 1..n : q[i] \in EntriesOf(ids)
  BY <1>2, <1>3
<1>5. PICK b : b = [i \in 1..n |-> q[i].quantity]
  OBVIOUS
<1>6. b \in [1..n -> Nat] /\ \A i \in 1..n : b[i] = q[i].quantity
  BY <1>4, <1>5 DEF EntriesOf, Shares
<1>7. ASSUME NEW i \in 1..n
      PROVE  q[i].order_id \in DOMAIN open /\ open[q[i].order_id] = <<p, b[i]>>
  <2>1. /\ levels[p][i].order_id \in DOMAIN open
        /\ open[levels[p][i].order_id] = <<p, levels[p][i].quantity>>
    BY <1>1, <1>4 DEF Holds
  <2> QED BY <1>1, <1>6, <2>1
<1>8. ASSUME NEW i \in 1..n, NEW j \in 1..n, q[i].order_id = q[j].order_id PROVE i = j
  BY <1>1, <1>4, <1>8 DEF Holds
<1>9. ASSUME NEW id \in DOMAIN open, open[id][1] = p PROVE \E i \in 1..n : q[i].order_id = id
  <2>1. PICK x \in DOMAIN levels : \E i \in DOMAIN levels[x] : levels[x][i].order_id = id
    BY DEF Holds
  <2>2. \A i \in DOMAIN levels[x] : levels[x][i].order_id = id => open[id][1] = x
    <3> SUFFICES ASSUME NEW i \in DOMAIN levels[x], levels[x][i].order_id = id
                 PROVE  open[id][1] = x
      OBVIOUS
    <3>1. open[id] = <<x, levels[x][i].quantity>>
      BY DEF Holds
    <3> QED BY <3>1
  <2>3. x = p
    BY <1>9, <2>1, <2>2
  <2> QED BY <1>1, <1>4, <2>1, <2>3
<1>10. Queueing(q, open, p, n, b)
  BY <1>6, <1>7, <1>8, <1>9 DEF Queueing
<1> QED BY <1>1, <1>3, <1>4, <1>6, <1>10

\* Where there is no level, nothing is open.
LEMMA NoLevelIs ==
  ASSUME NEW levels, NEW open, Holds(levels, open), NEW p, p \notin DOMAIN levels
  PROVE  \A id \in DOMAIN open : open[id][1] # p
<1> SUFFICES ASSUME NEW id \in DOMAIN open PROVE open[id][1] # p
  OBVIOUS
<1>1. PICK x \in DOMAIN levels : \E i \in DOMAIN levels[x] : levels[x][i].order_id = id
  BY DEF Holds
<1>2. \A i \in DOMAIN levels[x] : levels[x][i].order_id = id => open[id][1] = x
  <2> SUFFICES ASSUME NEW i \in DOMAIN levels[x], levels[x][i].order_id = id
               PROVE  open[id][1] = x
    OBVIOUS
  <2>1. open[id] = <<x, levels[x][i].quantity>>
    BY DEF Holds
  <2> QED BY <2>1
<1> QED BY <1>1, <1>2

\* Each side of a book holds what is open there, in order.
LEMMA SideHolds ==
  ASSUME TypeOK, DepthInv, NEW s \in Registered, NEW sd \in Side,
         NEW levels, levels = app.ex.books[s][sd],
         NEW states, states = app.ex.order_states
  PROVE  Tidy(levels, EntriesOf(OrdersOn(states, s, sd))) /\ Holds(levels, OpenOn(states, s, sd))
<1>1. IsExchange(app.ex, Registered) /\ BooksMirror(app.ex)
  BY DepthInvIs DEF TypeOK, AppOK
<1>2. s \in DOMAIN app.ex.books
  BY <1>1 DEF IsExchange
<1> QED BY <1>1, <1>2 DEF IsExchange, BooksMirror

\* The order at a place of a queue has its ClOrdID for itself.
SoleAt(q, i) == Sole(app.orderid_to_clordid_map[q[i].order_id])

\* What rests at a price of the orders that have their ClOrdID for themselves.
LEMMA RestingShares ==
  ASSUME TypeOK, DepthInv, NEW s \in Registered, NEW sd \in Side, NEW p,
         NEW open, open = OpenOn(app.ex.order_states, s, sd)
  PROVE  \E n \in Nat : \E q, b :
           /\ Queueing(q, open, p, n, b)
           /\ SharesAt(SoleDepth(s, sd), p)
                = Summed([i \in 1..n |-> IF SoleAt(q, i) THEN b[i] ELSE 0], n)
<1>1. PICK levels, states : levels = app.ex.books[s][sd] /\ states = app.ex.order_states
  OBVIOUS
<1>2. Tidy(levels, EntriesOf(OrdersOn(states, s, sd))) /\ Holds(levels, OpenOn(states, s, sd))
  BY <1>1, SideHolds
<1>3. PICK depth : depth = SoleDepth(s, sd)
  OBVIOUS
<1>4. /\ DOMAIN depth = DOMAIN levels
      /\ \A x \in DOMAIN levels :
           depth[x] = Summed([i \in DOMAIN levels[x] |->
                                IF SoleAt(levels[x], i) THEN levels[x][i].quantity ELSE 0],
                             Len(levels[x]))
  BY <1>1, <1>3, Zenon DEF SoleDepth, DepthOf, SoleAt
<1>5. CASE p \in DOMAIN levels
  <2>1. PICK ids : ids = OrdersOn(states, s, sd)
    OBVIOUS
  <2>2. Tidy(levels, EntriesOf(ids)) /\ Holds(levels, open)
    BY <1>1, <1>2, <2>1
  <2>3. PICK n \in Nat : \E b :
          /\ Queueing(levels[p], open, p, n, b)
          /\ Len(levels[p]) = n /\ DOMAIN levels[p] = 1..n
          /\ \A i \in 1..n : b[i] = levels[p][i].quantity
    BY <1>5, <2>2, LevelIs
  <2>4. PICK b :
          /\ Queueing(levels[p], open, p, n, b)
          /\ Len(levels[p]) = n /\ DOMAIN levels[p] = 1..n
          /\ \A i \in 1..n : b[i] = levels[p][i].quantity
    BY <2>3
  <2>5. PICK q : q = levels[p]
    OBVIOUS
  <2>6. [i \in DOMAIN q |-> IF SoleAt(q, i) THEN q[i].quantity ELSE 0]
          = [i \in 1..n |-> IF SoleAt(q, i) THEN b[i] ELSE 0]
    BY <2>4, <2>5
  <2>7. depth[p] = Summed([i \in DOMAIN q |-> IF SoleAt(q, i) THEN q[i].quantity ELSE 0], Len(q))
    BY <1>4, <1>5, <2>5
  <2>8. depth[p] = Summed([i \in 1..n |-> IF SoleAt(q, i) THEN b[i] ELSE 0], n)
    BY <2>4, <2>5, <2>6, <2>7
  <2> QED BY <1>3, <1>4, <1>5, <2>4, <2>5, <2>8 DEF SharesAt
<1>6. CASE p \notin DOMAIN levels
  <2>1. PICK q, b : q = <<>> /\ b = <<>>
    OBVIOUS
  <2>2. Queueing(q, open, p, 0, b)
    <3>1. \A id \in DOMAIN open : open[id][1] # p
      BY <1>1, <1>2, <1>6, NoLevelIs
    <3> QED BY <2>1, <3>1 DEF Queueing
  <2>3. PICK a : a = [i \in 1..0 |-> IF SoleAt(q, i) THEN b[i] ELSE 0]
    OBVIOUS
  <2>4. Summed(a, 0) = 0
    <3>1. Numbers(a, 0)
      BY DEF Numbers
    <3> QED BY <3>1, SummedStep
  <2>5. SharesAt(SoleDepth(s, sd), p) = 0
    BY <1>3, <1>4, <1>6 DEF SharesAt
  <2> QED BY <2>2, <2>3, <2>4, <2>5
<1> QED BY <1>5, <1>6

\* At a price the screen shows no less than what rests there of such orders; if it
\* shows no stale entry there, just that.
LEMMA PriceIsShown ==
  ASSUME TypeOK, NamesInv, OrdersTracked, TrackInv, DepthInv, NEW c \in Clients, SawAll(c),
         NEW s \in Registered, NEW sd \in Side, NEW p,
         NEW shown, shown = SharesAt(Depth(orders[c], s, sd), p),
         NEW sole, sole = SharesAt(SoleDepth(s, sd), p)
  PROVE  /\ sole <= shown
         /\ (\A cl \in ShownAt(orders[c], s, sd) : orders[c][cl].price = p => ~Stale(c, cl))
              => shown = sole
<1>1. PICK open, entries, states, names :
        /\ states = app.ex.order_states /\ open = OpenOn(states, s, sd)
        /\ entries = orders[c] /\ names = AtPrice(entries, s, sd, p)
  OBVIOUS
<1>2. PICK n \in Nat : \E q, b :
        /\ Queueing(q, open, p, n, b)
        /\ sole = Summed([i \in 1..n |-> IF SoleAt(q, i) THEN b[i] ELSE 0], n)
  BY <1>1, RestingShares
<1>3. PICK q, b :
        /\ Queueing(q, open, p, n, b)
        /\ sole = Summed([i \in 1..n |-> IF SoleAt(q, i) THEN b[i] ELSE 0], n)
  BY <1>2
<1>4. PICK a : a = [i \in 1..n |-> IF SoleAt(q, i) THEN b[i] ELSE 0]
  OBVIOUS
<1>5. a \in [1..n -> Nat] /\ sole = Summed(a, n)
  BY <1>3, <1>4 DEF Queueing
<1>6. \A id \in DOMAIN open : open[id] = <<states[id].price, remaining_quantity(states[id])>>
  BY <1>1 DEF OpenOn
<1>7. IsFiniteSet(names) /\ \A x \in names : entries[x].leaves_qty \in Nat
  <2>1. names \subseteq DOMAIN entries /\ \A x \in names : entries[x].leaves_qty > 0
    BY <1>1 DEF AtPrice, ShownAt
  <2>2. IsFiniteSet(DOMAIN entries)
    BY <1>1, DepthInvIs DEF Covered
  <2>3. \A x \in DOMAIN entries : entries[x].leaves_qty \in Int
    BY <1>1, TypeIs DEF ClientOK, Entries
  <2> QED BY <2>1, <2>2, <2>3, FS_Subset
<1>8. ASSUME NEW id \in DOMAIN open, NEW cl, cl = app.orderid_to_clordid_map[id], Sole(cl),
             NEW shares, open[id] = <<p, shares>>
      PROVE  /\ cl \in names /\ shares <= entries[cl].leaves_qty
             /\ app.clordid_map[cl] = id
  <2>1. PICK st : st = states[id]
    OBVIOUS
  <2>2. /\ ShowsAtLeast(cl, orders[c], s, sd, st.price, remaining_quantity(st))
        /\ cl \in DOMAIN app.clordid_map /\ app.clordid_map[cl] = id
    BY <1>1, <1>8, <2>1, OpenIsShown
  <2>3. st.price = p /\ remaining_quantity(st) = shares
    BY <1>6, <1>8, <2>1
  <2> QED BY <1>1, <2>2, <2>3 DEF ShowsAtLeast
<1>9. PICK g : g = [i \in 1..n |-> app.orderid_to_clordid_map[q[i].order_id]]
  OBVIOUS
<1>10. ASSUME NEW i \in 1..n, a[i] # 0
       PROVE  /\ g[i] \in names /\ a[i] <= entries[g[i]].leaves_qty
              /\ app.clordid_map[g[i]] = q[i].order_id
  <2>1. PICK id, cl, shares : /\ id = q[i].order_id /\ shares = b[i]
                              /\ cl = app.orderid_to_clordid_map[id]
    OBVIOUS
  <2>2. id \in DOMAIN open /\ open[id] = <<p, shares>>
    BY <1>3, <2>1 DEF Queueing
  <2>3. Sole(cl) /\ a[i] = shares
    BY <1>4, <1>10, <2>1 DEF SoleAt
  <2>4. cl \in names /\ shares <= entries[cl].leaves_qty /\ app.clordid_map[cl] = id
    BY <1>8, <2>1, <2>2, <2>3
  <2>5. g[i] = cl
    BY <1>9, <2>1
  <2> QED BY <2>1, <2>3, <2>4, <2>5
<1>11. Within(a, n, entries, names, g)
  <2>1. ASSUME NEW i \in 1..n, NEW j \in 1..n, a[i] # 0, a[j] # 0, g[i] = g[j] PROVE i = j
    BY <1>3, <1>10, <2>1 DEF Queueing
  <2> QED BY <1>10, <2>1 DEF Within
<1>12. Summed(a, n) <= LeavesOf(entries, names)
  <2>1. Numbers(a, n) /\ n \in Nat
    BY <1>5 DEF Numbers
  <2> QED BY <1>7, <1>11, <2>1, LeavesAbove
<1>13. shown = LeavesOf(entries, names) /\ LeavesOf(entries, names) \in Nat
  BY <1>1, <1>7, ShownShares
<1>14. ASSUME \A x \in names : ~Stale(c, x) PROVE LeavesOf(entries, names) <= Summed(a, n)
  <2>1. ASSUME NEW x \in names, NEW id, id = app.clordid_map[x]
        PROVE  /\ id \in DOMAIN open /\ open[id] = <<p, entries[x].leaves_qty>>
               /\ app.orderid_to_clordid_map[id] = x
    <3>1. x \in ShownAt(entries, s, sd) /\ entries[x].price = p
      BY <1>1 DEF AtPrice
    <3>2. PICK st : st = states[id]
      OBVIOUS
    <3>3. /\ id \in DOMAIN OpenOn(app.ex.order_states, s, sd)
          /\ orders[c][x].price = st.price /\ orders[c][x].leaves_qty = remaining_quantity(st)
          /\ app.orderid_to_clordid_map[id] = x
      <4>1. x \in ShownAt(orders[c], s, sd) /\ st = app.ex.order_states[id] /\ ~Stale(c, x)
        BY <1>1, <1>14, <3>1, <3>2
      <4> QED BY <2>1, <4>1, ShownIsOpen
    <3> QED BY <1>1, <1>6, <3>1, <3>2, <3>3
  <2>2. PICK h : h = [x \in names |-> CHOOSE i \in 1..n : q[i].order_id = app.clordid_map[x]]
    OBVIOUS
  <2>3. ASSUME NEW x \in names
        PROVE  /\ h[x] \in 1..n /\ entries[x].leaves_qty = a[h[x]]
               /\ app.orderid_to_clordid_map[q[h[x]].order_id] = x
    <3>1. PICK id : id = app.clordid_map[x]
      OBVIOUS
    <3>2. /\ id \in DOMAIN open /\ open[id] = <<p, entries[x].leaves_qty>>
          /\ app.orderid_to_clordid_map[id] = x
      BY <2>1, <3>1
    <3>3. \E i \in 1..n : q[i].order_id = id
      BY <1>3, <3>2 DEF Queueing
    <3>4. h[x] \in 1..n /\ q[h[x]].order_id = id
      BY <2>2, <3>1, <3>3
    <3>5. PICK i \in 1..n : i = h[x]
      BY <3>4
    <3>6. open[id] = <<p, b[i]>>
      BY <1>3, <3>4, <3>5 DEF Queueing
    <3>7. entries[x].leaves_qty = b[i]
      BY <3>2, <3>6
    <3>8. a[i] = b[i]
      <4>1. Sole(x)
        BY <1>14 DEF Stale
      <4>2. SoleAt(q, i)
        BY <3>2, <3>4, <3>5, <4>1 DEF SoleAt
      <4> QED BY <1>4, <4>2
    <3> QED BY <3>2, <3>4, <3>5, <3>7, <3>8
  <2>4. ASSUME NEW x \in names PROVE h[x] \in 1..n /\ entries[x].leaves_qty <= a[h[x]]
    <3>1. entries[x].leaves_qty \in Nat /\ h[x] \in 1..n /\ entries[x].leaves_qty = a[h[x]]
      BY <1>7, <2>3
    <3> QED BY <3>1
  <2>5. ASSUME NEW x \in names, NEW y \in names, h[x] = h[y] PROVE x = y
    BY <2>3, <2>5
  <2>6. Without(a, n, entries, names, h)
    BY <2>4, <2>5 DEF Without
  <2> QED BY <1>5, <1>7, <2>6, LeavesBelow
<1>15. (\A cl \in ShownAt(orders[c], s, sd) : orders[c][cl].price = p => ~Stale(c, cl))
         => \A x \in names : ~Stale(c, x)
  BY <1>1 DEF AtPrice
<1>16. Summed(a, n) \in Nat
  <2>1. \A i \in 1..n : a[i] \in Nat
    BY <1>5
  <2> QED BY <2>1, SummedNat
<1>17. PICK x, y : x = LeavesOf(entries, names) /\ y = Summed(a, n)
  OBVIOUS
<1>18. x \in Nat /\ y \in Nat /\ y <= x /\ ((\A z \in names : ~Stale(c, z)) => x <= y)
  BY <1>12, <1>13, <1>14, <1>16, <1>17
<1>19. shown = x /\ sole = y
  BY <1>5, <1>13, <1>17
<1> QED BY <1>15, <1>18, <1>19

\* The depth on the screen of a client that saw every order, and got every report, is
\* never short of what rests of the orders that have their ClOrdID for themselves
\* (render_tui), and what it shows too much comes from stale entries alone.
THEOREM DepthErrsByStaleEntriesAlways == Spec => []DepthErrsByStaleEntries
<1>1. ASSUME TypeOK, NamesInv, OrdersTracked, TrackInv, DepthInv PROVE DepthErrsByStaleEntries
  <2> SUFFICES ASSUME NEW c \in Clients, SawAll(c), NEW s \in Registered, NEW sd \in Side,
                      NEW p \in Prices,
                      NEW shown, shown = SharesAt(Depth(orders[c], s, sd), p),
                      NEW sole, sole = SharesAt(SoleDepth(s, sd), p)
               PROVE  /\ sole <= shown
                      /\ (\A cl \in ShownAt(orders[c], s, sd) :
                            orders[c][cl].price = p => ~Stale(c, cl)) => shown = sole
    BY DEF DepthErrsByStaleEntries
  <2> QED BY <1>1, PriceIsShown
<1>2. Spec => [](TypeOK /\ NamesInv /\ OrdersTracked /\ TrackInv /\ DepthInv)
  BY TypeOKAlways, NamesInvAlways, OrdersTrackedAlways, TrackInvAlways, DepthInvAlways, PTL
<1> QED BY <1>1, <1>2, PTL
=============================================================================
