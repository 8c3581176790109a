-------------------------- MODULE FixGateway_proofs --------------------------
(***************************************************************************)
(* Proofs about FixGateway.tla: the ClOrdID maps, types, ExecIDs and fill  *)
(* totals at every step of every handler, for any number of sessions,      *)
(* threads and messages; and for one thread the order of the reports, and  *)
(* that the handlers come to the functions of Acceptor.tla (see            *)
(* GatewayCalls.tla).                                                      *)
(***************************************************************************)
EXTENDS GatewayCalls, Matching_proofs

-----------------------------------------------------------------------------
(* Steps.                                                                  *)

\* A step that leaves the maps and the log alone, and sends no handler to the
\* stages of a cancel or replace, keeps the names in order.
LEMMA NamesLeftAlone ==
  ASSUME NamesInv,
         clordid_map' = clordid_map, orderid_to_clordid_map' = orderid_to_clordid_map,
         inbound' = inbound, DOMAIN pc' = Threads, DOMAIN msg' = Threads,
         \A t \in Threads : Renaming(t)' => Renaming(t) /\ msg'[t] = msg[t]
  PROVE  NamesInv'
<1>1. MapsAgree'
  BY DEF NamesInv, MapsAgree
<1>2. NamesUsedOnce'
  BY DEF NamesInv, NamesUsedOnce
<1> QED  BY <1>1, <1>2 DEF NamesInv

\* A handler moves to `where`, which is no stage of a cancel or replace.
LEMMA NamesMoved ==
  ASSUME NamesInv, NEW t \in Threads, NEW where, where \notin {"amend", "remap"},
         pc' = [pc EXCEPT ![t] = where],
         clordid_map' = clordid_map, orderid_to_clordid_map' = orderid_to_clordid_map,
         inbound' = inbound,
         \/ msg' = msg
         \/ \E m : msg' = [msg EXCEPT ![t] = m]
  PROVE  NamesInv'
<1>1. DOMAIN pc = Threads /\ DOMAIN msg = Threads
  BY DEF NamesInv, NamesUsedOnce
<1>2. DOMAIN pc' = Threads /\ DOMAIN msg' = Threads
  BY <1>1
<1>3. \A u \in Threads : Renaming(u)' => Renaming(u) /\ msg'[u] = msg[u]
  BY <1>1 DEF Renaming
<1> QED  BY <1>2, <1>3, NamesLeftAlone

\* A NewOrderSingle is registered: its ClOrdID is new, and so it names nothing yet.
LEMMA NamesRegistered ==
  ASSUME NamesInv, NEW t \in Threads, NEW session, NEW cl, NEW ord_type, NEW order,
         NEW where, where \notin {"amend", "remap"},
         Arrives(t, session, cl, ord_type, order), Goto(t, where)
  PROVE  NamesInv'
<1> DEFINE m == [kind |-> "D", session |-> session, cl |-> cl, ord_type |-> ord_type,
                 order |-> order]
<1> USE DEF NamesInv
<1>1. /\ clordid_map' = Put(clordid_map, cl, next_order_id)
      /\ orderid_to_clordid_map' = Put(orderid_to_clordid_map, next_order_id, cl)
      /\ cl = Len(inbound) + 1 /\ inbound' = Append(inbound, m)
      /\ \E n : msg' = [msg EXCEPT ![t] = n]
      /\ pc' = [pc EXCEPT ![t] = where]
  BY DEF Arrives, Takes, Register, Goto
<1>2. /\ inbound' \in Seq(Range(inbound'))
      /\ Len(inbound) \in Nat /\ Len(inbound') = Len(inbound) + 1
  <2> HIDE DEF m
  <2>1. inbound \in Seq(Range(inbound))  BY DEF NamesUsedOnce
  <2> QED  BY <2>1, <1>1, AppendIsSequence
<1>3. DOMAIN pc = Threads /\ DOMAIN msg = Threads
  BY DEF NamesUsedOnce
<1>4. DOMAIN clordid_map \subseteq 1..Len(inbound)
  BY DEF NamesUsedOnce
<1>5. cl \notin DOMAIN clordid_map /\ cl \in 1..Len(inbound')
  BY <1>1, <1>2, <1>4
<1>6. MapsAgree'
  <2> SUFFICES ASSUME NEW id \in DOMAIN orderid_to_clordid_map'
               PROVE  /\ orderid_to_clordid_map'[id] \in DOMAIN clordid_map'
                      /\ clordid_map'[orderid_to_clordid_map'[id]] = id
    BY DEF MapsAgree
  <2>1. CASE id = next_order_id
    BY <2>1, <1>1 DEF Put
  <2>2. CASE id # next_order_id
    <3>1. id \in DOMAIN orderid_to_clordid_map
          /\ orderid_to_clordid_map'[id] = orderid_to_clordid_map[id]
      BY <2>2, <1>1 DEF Put
    <3>2. /\ orderid_to_clordid_map[id] \in DOMAIN clordid_map
          /\ clordid_map[orderid_to_clordid_map[id]] = id
      BY <3>1 DEF MapsAgree
    <3> QED  BY <3>1, <3>2, <1>1, <1>5 DEF Put
  <2> QED  BY <2>1, <2>2
<1>7. NamesUsedOnce'
  <2>1. DOMAIN clordid_map' \subseteq 1..Len(inbound')
    <3>1. DOMAIN clordid_map' = DOMAIN clordid_map \cup {cl}  BY <1>1 DEF Put
    <3>2. 1..Len(inbound) \subseteq 1..Len(inbound')  BY <1>2
    <3> QED  BY <3>1, <3>2, <1>4, <1>5
  <2>2. DOMAIN pc' = Threads /\ DOMAIN msg' = Threads
    BY <1>1, <1>3
  <2>3. \A u \in Threads : Renaming(u)' => u # t /\ Renaming(u) /\ msg'[u] = msg[u]
    BY <1>1, <1>3 DEF Renaming
  <2>4. ASSUME NEW u \in Threads, Renaming(u)'
        PROVE  /\ msg'[u].cl \in 1..Len(inbound') \ DOMAIN clordid_map'
               /\ \A v \in Threads \ {u} : Renaming(v)' => msg'[v].cl # msg'[u].cl
    <3>1. msg'[u].cl \in 1..Len(inbound) \ DOMAIN clordid_map
      BY <2>3, <2>4 DEF NamesUsedOnce
    <3>2. msg'[u].cl \in 1..Len(inbound') \ DOMAIN clordid_map'
      <4>1. DOMAIN clordid_map' = DOMAIN clordid_map \cup {cl}  BY <1>1 DEF Put
      <4>2. msg'[u].cl # cl  BY <3>1, <1>1, <1>2
      <4> QED  BY <3>1, <4>1, <4>2, <1>2
    <3>3. \A v \in Threads \ {u} : Renaming(v)' => msg'[v].cl # msg'[u].cl
      BY <2>3, <2>4 DEF NamesUsedOnce
    <3> QED  BY <3>2, <3>3
  <2> QED  BY <2>1, <2>2, <2>4, <1>2 DEF NamesUsedOnce
<1> QED  BY <1>6, <1>7

\* A cancel or replace is received: its ClOrdID is new, and no handler that is
\* still to record a ClOrdID has this one.
LEMMA NamesReceived ==
  ASSUME NamesInv, NEW t \in Threads, NEW m, DOMAIN m # {}, "cl" \in DOMAIN m,
         ReceiveAmend(t, m)
  PROVE  NamesInv'
<1> USE DEF NamesInv
<1>1. /\ clordid_map' = clordid_map
      /\ orderid_to_clordid_map' = orderid_to_clordid_map
      /\ pc[t] = "idle"
      /\ m.cl = Len(inbound) + 1 /\ inbound' = Append(inbound, m)
  BY DEF ReceiveAmend, Takes, maps
<1>2. /\ inbound' \in Seq(Range(inbound'))
      /\ Len(inbound) \in Nat /\ Len(inbound') = Len(inbound) + 1
  <2>1. inbound \in Seq(Range(inbound))  BY DEF NamesUsedOnce
  <2> QED  BY <2>1, <1>1, AppendIsSequence
<1>3. DOMAIN pc = Threads /\ DOMAIN msg = Threads
  BY DEF NamesUsedOnce
<1>4. DOMAIN clordid_map \subseteq 1..Len(inbound)
  BY DEF NamesUsedOnce
<1>5. 1..Len(inbound) \subseteq 1..Len(inbound') /\ m.cl \in 1..Len(inbound')
  BY <1>1, <1>2
<1>6. DOMAIN pc' = Threads /\ DOMAIN msg' = Threads
      /\ \A u \in Threads \ {t} : pc'[u] = pc[u] /\ msg'[u] = msg[u]
  BY <1>3 DEF ReceiveAmend, AmendFound, AmendUnknown, Goto
<1>7. Renaming(t)' => msg'[t].cl = m.cl
  <2>1. CASE AmendFound(t, m)
    <3>1. msg'[t] = Put(m, "order_id", clordid_map[m.orig])
      BY <2>1, <1>3 DEF AmendFound
    <3> QED  BY <3>1 DEF Put
  <2>2. CASE AmendUnknown(m)
    BY <2>2, <1>1 DEF AmendUnknown, Renaming
  <2> QED  BY <2>1, <2>2 DEF ReceiveAmend
<1>8. \A u \in Threads \ {t} : Renaming(u)' =>
        Renaming(u) /\ msg'[u] = msg[u] /\ msg[u].cl \in 1..Len(inbound) \ DOMAIN clordid_map
  BY <1>6 DEF Renaming, NamesUsedOnce
<1>9. \A u \in Threads \ {t} : Renaming(u)' => msg'[u].cl # m.cl
  BY <1>8, <1>1, <1>2
<1>10. m.cl \notin DOMAIN clordid_map
  BY <1>1, <1>2, <1>4
<1>11. MapsAgree'
  BY <1>1 DEF MapsAgree
<1>12. NamesUsedOnce'
  <2>1. DOMAIN clordid_map' \subseteq 1..Len(inbound')
    BY <1>1, <1>4, <1>5
  <2>2. ASSUME NEW u \in Threads, Renaming(u)'
        PROVE  /\ msg'[u].cl \in 1..Len(inbound') \ DOMAIN clordid_map'
               /\ \A v \in Threads \ {u} : Renaming(v)' => msg'[v].cl # msg'[u].cl
    <3>1. CASE u = t
      BY <3>1, <2>2, <1>1, <1>5, <1>7, <1>9, <1>10
    <3>2. CASE u # t
      <4>1. msg'[u].cl \in 1..Len(inbound') \ DOMAIN clordid_map'
        BY <3>2, <2>2, <1>1, <1>5, <1>8
      <4>2. \A v \in Threads \ {u} : Renaming(v)' => msg'[v].cl # msg'[u].cl
        <5> SUFFICES ASSUME NEW v \in Threads \ {u}, Renaming(v)'
                     PROVE  msg'[v].cl # msg'[u].cl
          OBVIOUS
        <5>1. CASE v = t
          BY <5>1, <3>2, <2>2, <1>7, <1>9
        <5>2. CASE v # t
          BY <5>2, <3>2, <2>2, <1>8 DEF NamesUsedOnce
        <5> QED  BY <5>1, <5>2
      <4> QED  BY <4>1, <4>2
    <3> QED  BY <3>1, <3>2
  <2> QED  BY <2>1, <2>2, <1>2, <1>6 DEF NamesUsedOnce
<1> QED  BY <1>11, <1>12

\* The order answers to the ClOrdID of the cancel or replace, which named no
\* order before and which no other handler holds.
LEMMA NamesRemapped ==
  ASSUME NamesInv, NEW t \in Threads, Remap(t)
  PROVE  NamesInv'
<1> DEFINE cl == msg[t].cl
           order_id == msg[t].order_id
<1> USE DEF NamesInv
<1>1. /\ pc[t] = "remap" /\ pc' = [pc EXCEPT ![t] = "stamp"]
      /\ clordid_map' = Put(clordid_map, cl, order_id)
      /\ orderid_to_clordid_map' = Put(orderid_to_clordid_map, order_id, cl)
      /\ msg' = msg /\ inbound' = inbound
  BY DEF Remap, Goto
<1>2. DOMAIN pc = Threads /\ DOMAIN msg = Threads
  BY DEF NamesUsedOnce
<1>3. cl \in 1..Len(inbound) /\ cl \notin DOMAIN clordid_map
      /\ \A u \in Threads \ {t} : Renaming(u) => msg[u].cl # cl
  BY <1>1 DEF NamesUsedOnce, Renaming
<1>4. MapsAgree'
  <2> SUFFICES ASSUME NEW id \in DOMAIN orderid_to_clordid_map'
               PROVE  /\ orderid_to_clordid_map'[id] \in DOMAIN clordid_map'
                      /\ clordid_map'[orderid_to_clordid_map'[id]] = id
    BY DEF MapsAgree
  <2> HIDE DEF cl, order_id
  <2>1. CASE id = order_id
    BY <2>1, <1>1 DEF Put
  <2>2. CASE id # order_id
    <3>1. id \in DOMAIN orderid_to_clordid_map
          /\ orderid_to_clordid_map'[id] = orderid_to_clordid_map[id]
      BY <2>2, <1>1 DEF Put
    <3>2. /\ orderid_to_clordid_map[id] \in DOMAIN clordid_map
          /\ clordid_map[orderid_to_clordid_map[id]] = id
      BY <3>1 DEF MapsAgree
    <3> QED  BY <3>1, <3>2, <1>1, <1>3 DEF Put
  <2> QED  BY <2>1, <2>2
<1>5. NamesUsedOnce'
  <2>1. DOMAIN clordid_map' = DOMAIN clordid_map \cup {cl}
    BY <1>1 DEF Put
  <2>2. \A u \in Threads : Renaming(u)' => u # t /\ Renaming(u)
    BY <1>1, <1>2 DEF Renaming
  <2> HIDE DEF cl
  <2>3. \A u \in Threads : Renaming(u)' =>
          msg'[u].cl \in 1..Len(inbound) \ DOMAIN clordid_map'
    BY <1>1, <1>3, <2>1, <2>2 DEF NamesUsedOnce
  <2>4. DOMAIN pc' = Threads  BY <1>1, <1>2
  <2> QED  BY <2>1, <2>2, <2>3, <2>4, <1>1, <1>3 DEF NamesUsedOnce
<1> QED  BY <1>4, <1>5

-----------------------------------------------------------------------------
(* Every step.                                                             *)

\* A handler goes on with one of its reports or returns.
LEMMA StageIsNoRenaming ==
  ASSUME NEW reports
  PROVE  StageOf(reports) \notin {"amend", "remap"}
  BY DEF StageOf

\* Every step keeps the names in order.
LEMMA NamesStep ==
  ASSUME NamesInv, [Next]_vars
  PROVE  NamesInv'
<1>0. DOMAIN pc = Threads /\ DOMAIN msg = Threads
  BY DEF NamesInv, NamesUsedOnce
<1>1. CASE UNCHANGED vars
  BY <1>1, <1>0, NamesLeftAlone DEF vars, maps, Renaming
<1>2. CASE \E session \in Sessions : onLogon(session) \/ onLogout(session)
  BY <1>2, <1>0, NamesLeftAlone DEF onLogon, onLogout, maps, Renaming
<1>3. ASSUME NEW t \in Threads, Receive(t)
      PROVE  NamesInv'
  <2> PICK session \in Sessions, cl \in ClOrdIds :
        \/ ReceiveOrder(t, session, cl) \/ ReceiveUnsupported(t, session, cl)
        \/ ReceiveCancel(t, session, cl) \/ ReceiveReplace(t, session, cl)
    BY <1>3 DEF Receive
  <2>1. CASE ReceiveOrder(t, session, cl)
    BY <2>1, NamesRegistered DEF ReceiveOrder
  <2>2. CASE ReceiveUnsupported(t, session, cl)
    BY <2>2, NamesRegistered DEF ReceiveUnsupported
  <2>3. CASE ReceiveCancel(t, session, cl)
    <3> PICK orig, sym :
          ReceiveAmend(t, [kind |-> "F", session |-> session, cl |-> cl,
                           orig |-> orig, symbol |-> sym])
      BY <2>3 DEF ReceiveCancel
    <3> QED  BY NamesReceived
  <2>4. CASE ReceiveReplace(t, session, cl)
    <3> PICK orig, price, quantity, sym :
          ReceiveAmend(t, [kind |-> "G", session |-> session, cl |-> cl,
                           orig |-> orig, symbol |-> sym, price |-> price,
                           quantity |-> quantity])
      BY <2>4 DEF ReceiveReplace
    <3> QED  BY NamesReceived
  <2> QED  BY <2>1, <2>2, <2>3, <2>4
<1>4. ASSUME NEW t \in Threads, Handle(t)
      PROVE  NamesInv'
  <2>1. CASE Submit(t)
    BY <2>1, NamesMoved DEF Submit, Goto, maps
  <2>2. CASE AmendThrows(t)
    BY <2>2, NamesMoved DEF AmendThrows, Goto, maps
  <2>3. CASE AmendRefused(t)
    BY <2>3, NamesMoved DEF AmendRefused, Finish, Goto, maps
  <2>4. CASE Cancel(t) \/ Replace(t)
    <3>1. /\ pc[t] = "amend" /\ pc' = [pc EXCEPT ![t] = "remap"]
          /\ msg' = msg /\ inbound' = inbound
          /\ clordid_map' = clordid_map
          /\ orderid_to_clordid_map' = orderid_to_clordid_map
      BY <2>4 DEF Cancel, Replace, Amendable, Goto, maps
    <3> QED  BY <3>1, <1>0, NamesLeftAlone DEF Renaming
  <2>5. CASE Remap(t)
    BY <2>5, NamesRemapped
  <2>6. CASE Lookup(t)
    BY <2>6, NamesMoved, StageIsNoRenaming DEF Lookup, Finish, Goto, maps
  <2>7. CASE ReadState(t)
    BY <2>7, NamesMoved DEF ReadState, Goto, maps
  <2>8. CASE Stamp(t)
    BY <2>8, NamesMoved DEF Stamp, Goto, maps
  <2>9. CASE Send(t)
    BY <2>9, NamesMoved, StageIsNoRenaming DEF Send, Finish, Goto, maps
  <2> QED
    BY <1>4, <2>1, <2>2, <2>3, <2>4, <2>5, <2>6, <2>7, <2>8, <2>9 DEF Handle
<1> QED  BY <1>1, <1>2, <1>3, <1>4 DEF Next

\* At the start no ClOrdID is in the maps and no handler runs.
LEMMA NamesInit == Init => NamesInv
<1> SUFFICES ASSUME Init PROVE NamesInv
  OBVIOUS
<1>1. inbound = <<>> /\ inbound \in Seq(Range(inbound)) /\ Len(inbound) = 0
  BY DEF Init
<1>2. DOMAIN clordid_map = {} /\ DOMAIN orderid_to_clordid_map = {}
  BY DEF Init
<1>3. DOMAIN pc = Threads /\ DOMAIN msg = Threads /\ \A t \in Threads : ~Renaming(t)
  BY DEF Init, Renaming
<1> QED  BY <1>1, <1>2, <1>3 DEF NamesInv, MapsAgree, NamesUsedOnce

\* No ClOrdID is given twice, and the two maps agree (onMessage of
\* NewOrderSingle, OrderCancelRequest and OrderCancelReplaceRequest), at every
\* step of handlers that run side by side.
THEOREM NamesInvAlways == Spec => []NamesInv
  BY NamesInit, NamesStep, PTL DEF Spec

\* "Bidirectional ClOrdID <-> OrderID State Mapping": following an order to its
\* ClOrdID and back gives the order, in every reachable state.
THEOREM MapsAgreeAlways == Spec => []MapsAgree
<1>1. NamesInv => MapsAgree
  BY DEF NamesInv
<1> QED  BY <1>1, NamesInvAlways, PTL

-----------------------------------------------------------------------------
(* The reports a handler has yet to send.                                  *)

\* A sequence is one of whatever its elements are in.
LEMMA InSeq ==
  ASSUME NEW S, NEW T, NEW s \in Seq(S), \A i \in 1..Len(s) : s[i] \in T
  PROVE  s \in Seq(T)
  OBVIOUS

\* What fits when some orders are known fits when more are.
LEMMA JobsFitMore ==
  ASSUME NEW ids, NEW more, ids \subseteq more, NEW where, NEW js, JobsFit(ids, where, js)
  PROVE  JobsFit(more, where, js)
<1>1. FillJobsOn(ids) \subseteq FillJobsOn(more)
  BY DEF FillJobsOn
<1>2. js \in Seq(FillJobsOn(more) \cup Drafts \cup Reports)
  <2>1. PICK S, T : S = FillJobsOn(ids) \cup Drafts \cup Reports
                    /\ T = FillJobsOn(more) \cup Drafts \cup Reports
    OBVIOUS
  <2>2. S \subseteq T /\ js \in Seq(S)
    BY <1>1, <2>1 DEF JobsFit
  <2>3. \A i \in 1..Len(js) : js[i] \in T
    BY <2>2
  <2> QED BY <2>1, <2>2, <2>3
<1> QED BY <1>1, <1>2 DEF JobsFit

\* Two reports on each trade, of orders the OMS has.
LEMMA FillsOfOK ==
  ASSUME NEW ids, NEW id \in ids, NEW cl \in ClOrdIds, NEW fills \in Seq(FillsFrom(ids))
  PROVE  FillsOf(id, cl, fills) \in Seq(FillJobsOn(ids))
<1>1. PICK N \in Nat : N = Len(fills)
  OBVIOUS
<1>2. ASSUME NEW n \in 1..(2 * N)
      PROVE  FillsOf(id, cl, fills)[n] \in FillJobsOn(ids)
  <2>1. PICK k : k = (n + 1) \div 2
    OBVIOUS
  <2>2. k \in 1..N
    BY <1>1, <2>1
  <2>3. PICK f : f = fills[k]
    OBVIOUS
  <2>4. f.order_id \in ids /\ f.quantity \in Int /\ f.price \in Int
    <3>1. f \in FillsFrom(ids)
      BY <1>1, <2>2, <2>3
    <3>2. f.order_id \in ids /\ f.quantity \in Shares /\ f.price \in Int
      BY <3>1, PricesAssumption DEF FillsFrom
    <3>3. Shares \subseteq Int
      BY DEF Shares
    <3> QED BY <3>2, <3>3
  <2>5. FillOf(id, cl, f) \in FillJobsOn(ids) /\ FillOf(f.order_id, NoName, f) \in FillJobsOn(ids)
    BY <2>4 DEF FillOf, FillJobsOn
  <2>6. FillsOf(id, cl, fills)[n] = IF n % 2 = 1 THEN FillOf(id, cl, f)
                                                  ELSE FillOf(f.order_id, NoName, f)
    BY <1>1, <2>1, <2>3, Zenon DEF FillsOf
  <2> QED BY <2>5, <2>6
<1>3. PICK g : g = FillsOf(id, cl, fills)
  OBVIOUS
<1>4. g = [n \in 1..(2 * N) |-> g[n]] /\ 2 * N \in Nat
  <2>1. DOMAIN g = 1..(2 * N) /\ g = [n \in DOMAIN g |-> g[n]]
    BY <1>1, <1>3, Zenon DEF FillsOf
  <2> QED BY <2>1
<1>5. \A n \in 1..(2 * N) : g[n] \in FillJobsOn(ids)
  BY <1>2, <1>3
<1> QED BY <1>3, <1>4, <1>5

\* An answer, then reports on fills.
LEMMA AnswerFits ==
  ASSUME NEW ids, NEW answer \in Drafts, NEW fills \in Seq(FillJobsOn(ids)),
         NEW js, js = <<answer>> \o fills, NEW where \in {"remap", "stamp"}
  PROVE  JobsFit(ids, where, js)
<1>1. PICK S : S = FillJobsOn(ids) \cup Drafts \cup Reports
  OBVIOUS
<1>2. <<answer>> \in Seq(S) /\ fills \in Seq(S)
  <2>1. \A i \in 1..Len(fills) : fills[i] \in S
    BY <1>1
  <2> QED BY <1>1, <2>1
<1>3. /\ js \in Seq(S) /\ Len(js) = 1 + Len(fills) /\ Len(fills) \in Nat
      /\ js[1] = answer /\ \A i \in 2..Len(js) : js[i] = fills[i - 1]
  BY <1>2
<1>4. DOMAIN js = 1..Len(js) /\ js # <<>>
  BY <1>3
<1>5. \A i \in DOMAIN js : i # 1 => js[i] \in FillJobsOn(ids)
  <2> SUFFICES ASSUME NEW i \in DOMAIN js, i # 1 PROVE js[i] \in FillJobsOn(ids)
    OBVIOUS
  <2>1. i \in 2..Len(js) /\ i - 1 \in 1..Len(fills)
    BY <1>3, <1>4
  <2> QED BY <1>3, <2>1
<1> QED BY <1>1, <1>3, <1>4, <1>5 DEF JobsFit

\* The next report is the head of what is left.
LEMMA RestFits ==
  ASSUME NEW ids, NEW where, NEW js, JobsFit(ids, where, js), js # <<>>,
         NEW rest, rest = Tail(js)
  PROVE  /\ rest \in Seq(FillJobsOn(ids))
         /\ rest # <<>> => JobsFit(ids, StageOf(rest), rest)
         /\ StageOf(rest) \in {"idle", "read", "lookup"}
<1>1. PICK S : S = FillJobsOn(ids) \cup Drafts \cup Reports
  OBVIOUS
<1>2. js \in Seq(S) /\ \A i \in DOMAIN js : i # 1 => js[i] \in FillJobsOn(ids)
  BY <1>1 DEF JobsFit
<1>3. /\ rest \in Seq(S) /\ Len(rest) = Len(js) - 1 /\ Len(js) \in Nat /\ DOMAIN js = 1..Len(js)
      /\ \A i \in 1..Len(rest) : rest[i] = js[i + 1]
  BY <1>2, EmptySeq
<1>4. \A i \in 1..Len(rest) : rest[i] \in FillJobsOn(ids)
  BY <1>2, <1>3
<1>5. rest \in Seq(FillJobsOn(ids))
  BY <1>3, <1>4, InSeq
<1>6. StageOf(rest) \in {"idle", "read", "lookup"}
      /\ (rest # <<>> => /\ StageOf(rest) # "idle" /\ rest[1] \in FillJobsOn(ids)
                         /\ (StageOf(rest) = "read" => rest[1].cl # NoName))
  <2>1. CASE rest = <<>>
    BY <2>1 DEF StageOf
  <2>2. CASE rest # <<>>
    <3>1. rest[1] \in FillJobsOn(ids)
      BY <1>5, <2>2
    <3>2. rest[1].exec_type = "?"
      BY <3>1 DEF FillJobsOn
    <3>3. StageOf(rest) = IF rest[1].cl # NoName THEN "read" ELSE "lookup"
      BY <2>2, <3>2 DEF StageOf
    <3> QED BY <2>2, <3>1, <3>3
  <2> QED BY <2>1, <2>2
<1>7. rest \in Seq(FillJobsOn(ids) \cup Drafts \cup Reports)
  BY <1>1, <1>3
<1>8. \A i \in DOMAIN rest : rest[i] \in FillJobsOn(ids)
  BY <1>5
<1> QED BY <1>5, <1>6, <1>7, <1>8 DEF JobsFit

\* The reports with another one first.
WithHead(js, head) == [js EXCEPT ![1] = head]

\* The first report is replaced by one that fits the next stage.
LEMMA HeadFits ==
  ASSUME NEW ids, NEW was, NEW js, JobsFit(ids, was, js), js # <<>>,
         NEW head, NEW new, new = WithHead(js, head),
         NEW where,
         \/ where = "stamp" /\ head \in Drafts
         \/ where = "send" /\ head \in Reports
         \/ where = "read" /\ head \in FillJobsOn(ids) /\ head.cl # NoName
  PROVE  JobsFit(ids, where, new) /\ new[1] = head
<1>1. PICK S : S = FillJobsOn(ids) \cup Drafts \cup Reports
  OBVIOUS
<1>2. js \in Seq(S) /\ \A i \in DOMAIN js : i # 1 => js[i] \in FillJobsOn(ids)
  BY <1>1 DEF JobsFit
<1>3. head \in S
  BY <1>1
<1>4. 1 \in DOMAIN js /\ DOMAIN js = 1..Len(js) /\ Len(js) \in Nat
  BY <1>2, EmptySeq
<1>5. /\ DOMAIN new = DOMAIN js /\ new[1] = head
      /\ \A i \in DOMAIN js : i # 1 => new[i] = js[i]
  BY <1>4 DEF WithHead
<1>6. new \in Seq(S) /\ new # <<>>
  <2>1. \A i \in DOMAIN js : new[i] \in S
    BY <1>2, <1>3, <1>4, <1>5
  <2>2. new = [i \in 1..Len(js) |-> new[i]]
    BY <1>4, <1>5 DEF WithHead
  <2>3. PICK n \in Nat : n = Len(js)
    BY <1>4
  <2>4. new = [i \in 1..n |-> new[i]] /\ \A i \in 1..n : new[i] \in S
    BY <1>4, <2>1, <2>2, <2>3
  <2>5. new \in [1..n -> S]
    BY <2>4
  <2>6. new \in Seq(S)
    BY <2>5, SeqDef
  <2> QED BY <1>4, <1>5, <2>6
<1> QED BY <1>1, <1>2, <1>5, <1>6 DEF JobsFit

-----------------------------------------------------------------------------
(* What a step leaves as it was.                                           *)

\* Variables that TypeOK speaks of.
typed == <<next_order_id, next_exec_id, maps, active_sessions, symbol_mutexes, ex, sent>>

\* They keep their types when they keep their values.
LEMMA TypeKept ==
  ASSUME TypeOK, UNCHANGED typed
  PROVE  TypeOK'
  BY DEF TypeOK, GivenIds, typed, maps

\* ExecIDs are in order as long as none is taken and no report sent.
LEMMA ExecIdsKept ==
  ASSUME ExecIdsTaken, UNCHANGED <<sent, next_exec_id>>,
         \A t \in Threads : pc'[t] = "send" => pc[t] = "send" /\ jobs'[t] = jobs[t]
  PROVE  ExecIdsTaken'
  BY DEF ExecIdsTaken, ExecIdsUnique

\* Only thread t goes on, and to `where`; no order is forgotten, and one that is
\* new in the OMS is the one t had to submit.
OnlyMoves(t, where) ==
  /\ pc' = [pc EXCEPT ![t] = where]
  /\ DOMAIN msg' = Threads /\ DOMAIN jobs' = Threads
  /\ \A u \in Threads \ {t} : msg'[u] = msg[u] /\ jobs'[u] = jobs[u]
  /\ GivenIds \subseteq GivenIds'
  /\ DOMAIN ex.order_states \subseteq DOMAIN ex'.order_states
  /\ \A id \in DOMAIN ex'.order_states :
       id \in DOMAIN ex.order_states \/ (pc[t] = "submit" /\ id = msg[t].order_id)

\* Then the handlers of the other threads are between two steps as before.
LEMMA HandlersStep ==
  ASSUME HandlersOK, NEW t \in Threads, NEW where, OnlyMoves(t, where),
         MessageOK(t)', JobsFit(DOMAIN ex.order_states, where, jobs[t])',
         where = "submit" => msg'[t].order_id \notin GivenIds
  PROVE  HandlersOK'
<1>1. /\ DOMAIN pc = Threads /\ DOMAIN pc' = Threads /\ pc'[t] = where
      /\ \A u \in Threads \ {t} : pc'[u] = pc[u] /\ msg'[u] = msg[u] /\ jobs'[u] = jobs[u]
  BY DEF HandlersOK, OnlyMoves
<1>2. PICK ids, more : ids = DOMAIN ex.order_states /\ more = DOMAIN ex'.order_states
  OBVIOUS
<1>3. ids \subseteq more
      /\ \A id \in more : id \in ids \/ (pc[t] = "submit" /\ id = msg[t].order_id)
  BY <1>2 DEF OnlyMoves
<1>4. ASSUME NEW u \in Threads \ {t}
      PROVE  MessageOK(u)' /\ JobsFit(more, pc'[u], jobs'[u])
  <2>1. MessageOK(u)'
    <3>1. MessageOK(u)
      BY DEF HandlersOK
    <3>2. pc[t] = "submit" /\ pc[u] = "submit" => msg[t].order_id # msg[u].order_id
      BY DEF HandlersOK, SubmitsDiffer
    <3>3. pc[u] = "submit" => msg[u].order_id \notin more
      BY <1>2, <1>3, <3>1, <3>2 DEF MessageOK
    <3> QED BY <1>1, <1>2, <3>1, <3>3 DEF MessageOK, OnlyMoves
  <2>2. JobsFit(ids, pc[u], jobs[u])
    BY <1>2 DEF HandlersOK
  <2>3. PICK at, js : at = pc[u] /\ js = jobs[u]
    OBVIOUS
  <2>4. JobsFit(more, at, js)
    BY <1>3, <2>2, <2>3, JobsFitMore
  <2> QED BY <1>1, <2>1, <2>3, <2>4
<1>5. \A u \in Threads : MessageOK(u)' /\ JobsFit(more, pc'[u], jobs'[u])
  BY <1>1, <1>2, <1>4
<1>6. SubmitsDiffer'
  <2>1. \A u \in Threads \ {t} : pc'[u] = "submit" =>
          pc[u] = "submit" /\ msg'[u].order_id = msg[u].order_id
            /\ msg'[u].order_id \in GivenIds
    BY <1>1 DEF HandlersOK, MessageOK
  <2>2. \A u \in Threads \ {t} : pc'[u] = "submit" /\ pc'[t] = "submit" =>
          msg'[u].order_id # msg'[t].order_id
    BY <1>1, <2>1
  <2>3. \A u, v \in Threads \ {t} : u # v /\ pc'[u] = "submit" /\ pc'[v] = "submit" =>
          msg'[u].order_id # msg'[v].order_id
    BY <2>1 DEF HandlersOK, SubmitsDiffer
  <2> QED BY <2>2, <2>3 DEF SubmitsDiffer
<1> QED BY <1>1, <1>2, <1>5, <1>6 DEF HandlersOK, OnlyMoves

\* A handler goes on, or ends, and neither an order nor a report has changed.
LEMMA QuietStep ==
  ASSUME GatewayInv, UNCHANGED typed, NEW t \in Threads, NEW where,
         pc' = [pc EXCEPT ![t] = where], where \notin {"submit", "send"},
         \/ msg' = msg /\ pc[t] # "idle" /\ where # "amend"
         \/ where = "idle" /\ \E m : msg' = [msg EXCEPT ![t] = m],
         NEW js, jobs' = [jobs EXCEPT ![t] = js],
         JobsFit(DOMAIN ex.order_states, where, js),
         where \in {"remap", "stamp"} => js[1].order_id \in GivenIds
  PROVE  GatewayInv'
<1>1. TypeOK'
  BY TypeKept DEF GatewayInv
<1>2. DOMAIN pc = Threads /\ DOMAIN msg = Threads /\ DOMAIN jobs = Threads
      /\ MessageOK(t)
  BY DEF GatewayInv, HandlersOK
<1>3. next_order_id' = next_order_id /\ ex' = ex /\ sent' = sent
      /\ next_exec_id' = next_exec_id
  BY DEF typed
<1>4. OnlyMoves(t, where)
  <2>1. DOMAIN msg' = Threads /\ DOMAIN jobs' = Threads
        /\ \A u \in Threads \ {t} : msg'[u] = msg[u] /\ jobs'[u] = jobs[u]
    BY <1>2
  <2>2. GivenIds' = GivenIds
    BY <1>3 DEF GivenIds
  <2> QED BY <1>3, <2>1, <2>2 DEF OnlyMoves
<1>5. MessageOK(t)'
  <2>1. GivenIds' = GivenIds /\ pc'[t] = where /\ jobs'[t] = js
    BY <1>2, <1>3 DEF GivenIds
  <2> QED BY <1>2, <1>3, <2>1 DEF MessageOK
<1>6. JobsFit(DOMAIN ex.order_states, where, jobs[t])'
  BY <1>2, <1>3
<1>7. HandlersOK'
  BY <1>4, <1>5, <1>6, HandlersStep DEF GatewayInv
<1>8. ExecIdsTaken'
  BY <1>2, <1>3, ExecIdsKept DEF GatewayInv
<1> QED BY <1>1, <1>7, <1>8 DEF GatewayInv

\* No reports are left.
LEMMA NoJobsFit ==
  ASSUME NEW ids, NEW where \in {"idle", "submit", "amend", "thrown"}
  PROVE  JobsFit(ids, where, <<>>)
  BY DEF JobsFit

-----------------------------------------------------------------------------
(* The reports of a handler.                                               *)

\* What GatewayInv says of one handler.
LEMMA HandlerIs ==
  ASSUME GatewayInv, NEW t \in Threads
  PROVE  /\ TypeOK /\ MessageOK(t) /\ JobsFit(DOMAIN ex.order_states, pc[t], jobs[t])
         /\ DOMAIN pc = Threads /\ DOMAIN msg = Threads /\ DOMAIN jobs = Threads
         /\ DOMAIN ex.order_states \subseteq GivenIds
  BY DEF GatewayInv, HandlersOK, TypeOK

\* The look-up of a resting order's ClOrdID always finds one.
LEMMA LookupStep ==
  ASSUME GatewayInv, NEW t \in Threads, Lookup(t)
  PROVE  GatewayInv'
<1>1. PICK ids, js : ids = DOMAIN ex.order_states /\ js = jobs[t]
  OBVIOUS
<1>2. /\ pc[t] = "lookup" /\ JobsFit(ids, "lookup", js) /\ js # <<>>
      /\ js[1] \in FillJobsOn(ids) /\ js[1].order_id \in GivenIds
  <2>1. pc[t] = "lookup" /\ JobsFit(ids, "lookup", js) /\ ids \subseteq GivenIds
    BY <1>1, HandlerIs DEF Lookup
  <2>2. js # <<>> /\ js[1] \in FillJobsOn(ids)
    BY <2>1 DEF JobsFit
  <2> QED BY <2>1, <2>2 DEF FillJobsOn
<1>3. PICK cl : cl = orderid_to_clordid_map[js[1].order_id]
  OBVIOUS
<1>4. js[1].order_id \in DOMAIN orderid_to_clordid_map /\ cl \in ClOrdIds
  BY <1>2, <1>3 DEF GatewayInv, TypeOK
<1>5. PICK head : head = [js[1] EXCEPT !.cl = cl]
  OBVIOUS
<1>6. head \in FillJobsOn(ids) /\ head.cl # NoName
  BY <1>2, <1>4, <1>5 DEF FillJobsOn, NoName, ClOrdIds
<1>7. PICK new : new = WithHead(js, head)
  OBVIOUS
<1>8. /\ jobs' = [jobs EXCEPT ![t] = new]
      /\ pc' = [pc EXCEPT ![t] = "read"] /\ msg' = msg
  <2>1. /\ jobs' = [jobs EXCEPT ![t][1].cl = cl]
        /\ pc' = [pc EXCEPT ![t] = "read"] /\ msg' = msg
    BY <1>1, <1>3, <1>4, Zenon DEF Lookup, Goto
  <2>2. jobs' = [jobs EXCEPT ![t] = [js EXCEPT ![1] = head]]
    BY <1>1, <1>5, <2>1, Zenon
  <2>3. jobs' = [jobs EXCEPT ![t] = new]
    BY <1>7, <2>2, Zenon DEF WithHead
  <2> QED BY <2>1, <2>3
<1>9. JobsFit(ids, "read", new)
  BY <1>2, <1>6, <1>7, HeadFits
<1>10. UNCHANGED typed
  BY DEF Lookup, typed, links
<1> QED BY <1>1, <1>2, <1>8, <1>9, <1>10, QuietStep

\* What is shown of an order.
LEMMA ReportsAreDrafts ==
  ASSUME NEW cl \in ClOrdIds, NEW id \in OrderId, NEW st \in OrderStates,
         NEW shares \in Int, NEW px \in Int, NEW exec_type \in ExecType
  PROVE  /\ Answer(cl, id, exec_type, st) \in Drafts
         /\ Ack(cl, id, st) \in Drafts
         /\ FillReport(cl, id, shares, px, st) \in Drafts
<1>1. View(st) \in Views
  BY DEF View, Views, OrderStates, remaining_quantity
<1>2. \A e \in ExecType, n, p \in Int : ExecutionReport(cl, id, e, n, p, st) \in Drafts
  BY <1>1 DEF ExecutionReport, Drafts
<1>3. {"New", "Rejected", "Fill", "PartialFill"} \subseteq ExecType
  BY DEF ExecType
<1> QED BY <1>2, <1>3 DEF Answer, Ack, FillReport

\* A report on a fill shows the order as it is now.
LEMMA ReadStateStep ==
  ASSUME GatewayInv, NEW t \in Threads, ReadState(t)
  PROVE  GatewayInv'
<1>1. PICK ids, js : ids = DOMAIN ex.order_states /\ js = jobs[t]
  OBVIOUS
<1>2. /\ pc[t] = "read" /\ JobsFit(ids, "read", js)
      /\ js # <<>> /\ js[1] \in FillJobsOn(ids) /\ js[1].cl # NoName
  BY <1>1, HandlerIs DEF ReadState, JobsFit
<1>3. PICK r, st : r = js[1] /\ st = ex.order_states[r.order_id]
  OBVIOUS
<1>4. /\ r.cl \in ClOrdIds /\ r.order_id \in ids /\ r.shares \in Int /\ r.px \in Int
      /\ r.order_id \in OrderId /\ st \in OrderStates
  <2>1. r.cl \in ClOrdIds /\ r.order_id \in ids /\ r.shares \in Int /\ r.px \in Int
    BY <1>2, <1>3 DEF FillJobsOn
  <2> QED BY <1>1, <1>3, <2>1, HandlerIs DEF TypeOK, IsExchange
<1>5. PICK head : head = FillReport(r.cl, r.order_id, r.shares, r.px, st)
  OBVIOUS
<1>6. head \in Drafts /\ head.order_id \in GivenIds
  <2>1. head \in Drafts
    BY <1>4, <1>5, ReportsAreDrafts DEF ExecType
  <2>2. head.order_id = r.order_id
    BY <1>5 DEF FillReport, ExecutionReport
  <2> QED BY <1>1, <1>4, <2>1, <2>2, HandlerIs
<1>7. PICK new : new = WithHead(js, head)
  OBVIOUS
<1>8. /\ jobs' = [jobs EXCEPT ![t] = new]
      /\ pc' = [pc EXCEPT ![t] = "stamp"] /\ msg' = msg
  BY <1>1, <1>3, <1>5, <1>7 DEF ReadState, StateToReport, Goto, WithHead
<1>9. JobsFit(ids, "stamp", new) /\ new[1] = head
  BY <1>2, <1>6, <1>7, HeadFits
<1>10. UNCHANGED typed
  BY DEF ReadState, typed, links
<1> QED BY <1>1, <1>2, <1>6, <1>8, <1>9, <1>10, QuietStep

\* A report gets an ExecID no report has had.
LEMMA StampStep ==
  ASSUME GatewayInv, NEW t \in Threads, Stamp(t)
  PROVE  GatewayInv'
<1>1. PICK ids, js : ids = DOMAIN ex.order_states /\ js = jobs[t]
  OBVIOUS
<1>2. /\ pc[t] = "stamp" /\ JobsFit(ids, "stamp", js)
      /\ js # <<>> /\ js[1] \in Drafts
  BY <1>1, HandlerIs DEF Stamp, JobsFit
<1>3. PICK targets : targets = IF active_sessions = {} THEN {Fallback(t)} ELSE active_sessions
  OBVIOUS
<1>4. PICK r, head : r = js[1] /\ head = Stamped(r, next_exec_id, targets)
  OBVIOUS
<1>5. targets \in (SUBSET Sessions) \ {{}}
  <2>1. PICK s : s = Fallback(t)
    OBVIOUS
  <2>2. s \in Sessions
    BY <1>2, <2>1, HandlerIs DEF Fallback, MessageOK, TypeOK
  <2>3. active_sessions \subseteq Sessions
    BY HandlerIs DEF TypeOK
  <2>4. targets = IF active_sessions = {} THEN {s} ELSE active_sessions
    BY <1>3, <2>1
  <2> QED BY <2>2, <2>3, <2>4
<1>6. head \in Reports /\ head.exec_id = next_exec_id
  BY <1>2, <1>4, <1>5, HandlerIs DEF TypeOK, Stamped, Drafts, Reports
<1>7. PICK new : new = WithHead(js, head)
  OBVIOUS
<1>8. /\ jobs' = [jobs EXCEPT ![t] = new] /\ next_exec_id' = next_exec_id + 1
      /\ pc' = [pc EXCEPT ![t] = "send"] /\ msg' = msg
      /\ UNCHANGED <<next_order_id, maps, active_sessions, symbol_mutexes, ex, sent>>
  <2>1. jobs' = [jobs EXCEPT ![t][1] = Stamped(@, next_exec_id, targets)]
    BY <1>3, Zenon DEF Stamp
  <2>2. jobs' = [jobs EXCEPT ![t] = [js EXCEPT ![1] = head]]
    BY <1>1, <1>4, <2>1, Zenon
  <2>3. jobs' = [jobs EXCEPT ![t] = new]
    BY <1>7, <2>2, Zenon DEF WithHead
  <2> QED BY <2>3 DEF Stamp, TakeExecId, Goto, links
<1>9. JobsFit(ids, "send", new) /\ new[1] = head
  BY <1>2, <1>6, <1>7, HeadFits
<1>10. TypeOK'
  BY <1>8, HandlerIs DEF TypeOK, GivenIds, maps
<1>11. HandlersOK'
  <2>1. OnlyMoves(t, "send")
    BY <1>8, HandlerIs DEF OnlyMoves, GivenIds
  <2>2. MessageOK(t)'
    BY <1>2, <1>8, HandlerIs DEF MessageOK, GivenIds
  <2>3. JobsFit(DOMAIN ex.order_states, "send", jobs[t])'
    BY <1>1, <1>8, <1>9, HandlerIs
  <2> QED BY <2>1, <2>2, <2>3, HandlersStep DEF GatewayInv
<1>12. ExecIdsTaken'
  <2>1. /\ DOMAIN pc = Threads /\ DOMAIN jobs = Threads
        /\ next_exec_id \in Nat /\ sent' = sent /\ sent \in Seq(Reports)
    BY <1>8, HandlerIs DEF TypeOK
  <2>2. pc'[t] = "send" /\ jobs'[t][1].exec_id = next_exec_id
        /\ \A u \in Threads \ {t} : pc'[u] = pc[u] /\ jobs'[u] = jobs[u]
    BY <1>6, <1>8, <1>9, <2>1
  <2>3. /\ \A i \in DOMAIN sent : sent[i].exec_id \in Nat
        /\ \A u \in Threads : pc[u] = "send" => jobs[u][1].exec_id \in Nat
    <3>1. \A i \in DOMAIN sent : sent[i] \in Reports
      BY <2>1
    <3>2. \A u \in Threads : pc[u] = "send" => jobs[u][1] \in Reports
      BY HandlerIs DEF JobsFit
    <3> QED BY <3>1, <3>2 DEF Reports
  <2>4. ExecIdsTaken
    BY DEF GatewayInv
  <2>5. ExecIdsUnique'
    BY <2>1, <2>4 DEF ExecIdsTaken, ExecIdsUnique
  <2>6. \A i \in DOMAIN sent : sent[i].exec_id < next_exec_id'
    BY <1>8, <2>1, <2>3, <2>4 DEF ExecIdsTaken
  <2>7. ASSUME NEW u \in Threads, pc'[u] = "send"
        PROVE  /\ jobs'[u][1].exec_id < next_exec_id'
               /\ \A i \in DOMAIN sent : sent[i].exec_id # jobs'[u][1].exec_id
               /\ \A v \in Threads \ {u} :
                    pc'[v] = "send" => jobs'[v][1].exec_id # jobs'[u][1].exec_id
    <3>1. CASE u = t
      BY <1>8, <2>1, <2>2, <2>3, <2>4, <3>1 DEF ExecIdsTaken
    <3>2. CASE u # t
      BY <1>8, <2>1, <2>2, <2>3, <2>4, <2>7, <3>2 DEF ExecIdsTaken
    <3> QED BY <3>1, <3>2
  <2> QED BY <2>1, <2>5, <2>6, <2>7 DEF ExecIdsTaken
<1> QED BY <1>10, <1>11, <1>12 DEF GatewayInv

\* A report is sent; the handler turns to the next one or returns.
LEMMA SendStep ==
  ASSUME GatewayInv, NEW t \in Threads, Send(t)
  PROVE  GatewayInv'
<1>1. PICK ids, js : ids = DOMAIN ex.order_states /\ js = jobs[t]
  OBVIOUS
<1>2. /\ pc[t] = "send" /\ JobsFit(ids, "send", js)
      /\ js # <<>> /\ js[1] \in Reports
  BY <1>1, HandlerIs DEF Send, JobsFit
<1>3. PICK r, rest : r = js[1] /\ rest = Tail(js)
  OBVIOUS
<1>4. PICK where : where = IF rest = <<>> THEN "idle" ELSE StageOf(rest)
  OBVIOUS
<1>5. /\ JobsFit(ids, where, rest) /\ where \in {"idle", "read", "lookup"}
      /\ (where = "idle" => rest = <<>>)
  <2>1. CASE rest = <<>>
    BY <1>4, <2>1, NoJobsFit
  <2>2. CASE rest # <<>>
    <3>1. JobsFit(ids, where, rest) /\ where \in {"idle", "read", "lookup"}
      BY <1>2, <1>3, <1>4, <2>2, RestFits
    <3> QED BY <3>1 DEF JobsFit
  <2> QED BY <2>1, <2>2
<1>6. /\ sent' = Append(sent, r) /\ pc' = [pc EXCEPT ![t] = where]
      /\ jobs' = [jobs EXCEPT ![t] = rest]
      /\ UNCHANGED <<next_order_id, next_exec_id, maps, active_sessions, ex>>
      /\ msg' = msg \/ (where = "idle" /\ \E m : msg' = [msg EXCEPT ![t] = m])
      /\ symbol_mutexes' = symbol_mutexes \/ symbol_mutexes' = FreeSymbols(t)
  <2>1. CASE rest = <<>>
    BY <1>1, <1>3, <1>4, <2>1 DEF Send, Remaining, Finish, Goto, links
  <2>2. CASE rest # <<>>
    BY <1>1, <1>3, <1>4, <2>2 DEF Send, Remaining, Goto, links
  <2> QED BY <2>1, <2>2
<1>7. sent \in Seq(Reports) /\ r \in Reports /\ DOMAIN jobs = Threads /\ DOMAIN pc = Threads
      /\ DOMAIN msg = Threads
  BY <1>2, <1>3, HandlerIs DEF TypeOK
<1>8. /\ sent' \in Seq(Reports) /\ Len(sent) \in Nat /\ DOMAIN sent = 1..Len(sent)
      /\ DOMAIN sent' = 1..(Len(sent) + 1) /\ sent'[Len(sent) + 1] = r
      /\ \A i \in DOMAIN sent : sent'[i] = sent[i]
  BY <1>6, <1>7
<1>9. TypeOK'
  <2>1. symbol_mutexes' \in [Symbols -> Threads \cup {NoThread}]
    BY <1>6, HandlerIs DEF TypeOK, FreeSymbols
  <2> QED BY <1>6, <1>8, <2>1, HandlerIs DEF TypeOK, GivenIds, maps
<1>10. HandlersOK'
  <2>1. OnlyMoves(t, where)
    <3>1. DOMAIN msg' = Threads /\ DOMAIN jobs' = Threads
          /\ \A u \in Threads \ {t} : msg'[u] = msg[u] /\ jobs'[u] = jobs[u]
      BY <1>6, <1>7
    <3>2. GivenIds' = GivenIds
      BY <1>6 DEF GivenIds
    <3> QED BY <1>6, <3>1, <3>2 DEF OnlyMoves
  <2>2. MessageOK(t)'
    BY <1>2, <1>5, <1>6, <1>7, HandlerIs DEF MessageOK, GivenIds
  <2>3. JobsFit(DOMAIN ex.order_states, where, jobs[t])'
    BY <1>1, <1>5, <1>6, <1>7
  <2> QED BY <1>5, <2>1, <2>2, <2>3, HandlersStep DEF GatewayInv
<1>11. ExecIdsTaken'
  <2>1. ExecIdsTaken
    BY DEF GatewayInv
  <2>2. \A u \in Threads : pc'[u] = "send" => u # t /\ pc[u] = "send" /\ jobs'[u] = jobs[u]
    BY <1>5, <1>6, <1>7
  <2>3. /\ r.exec_id < next_exec_id
        /\ \A i \in DOMAIN sent : sent[i].exec_id # r.exec_id
        /\ \A u \in Threads \ {t} : pc[u] = "send" => jobs[u][1].exec_id # r.exec_id
    BY <1>1, <1>2, <1>3, <2>1 DEF ExecIdsTaken
  <2>4. \A i \in DOMAIN sent' : i \in DOMAIN sent \/ (i = Len(sent) + 1 /\ sent'[i] = r)
    BY <1>8
  <2>5. ExecIdsUnique'
    <3> SUFFICES ASSUME NEW i \in DOMAIN sent', NEW j \in DOMAIN sent', i # j
                 PROVE  sent'[i].exec_id # sent'[j].exec_id
      BY DEF ExecIdsUnique
    <3>1. \/ i \in DOMAIN sent /\ j \in DOMAIN sent
          \/ i \in DOMAIN sent /\ sent'[j] = r
          \/ j \in DOMAIN sent /\ sent'[i] = r
      BY <2>4
    <3> QED BY <1>8, <2>1, <2>3, <3>1 DEF ExecIdsTaken, ExecIdsUnique
  <2>6. \A i \in DOMAIN sent' : sent'[i].exec_id < next_exec_id'
    BY <1>6, <1>8, <2>1, <2>3, <2>4 DEF ExecIdsTaken
  <2>7. \A u \in Threads : pc'[u] = "send" =>
          /\ jobs'[u][1].exec_id < next_exec_id'
          /\ \A i \in DOMAIN sent' : sent'[i].exec_id # jobs'[u][1].exec_id
          /\ \A v \in Threads \ {u} :
               pc'[v] = "send" => jobs'[v][1].exec_id # jobs'[u][1].exec_id
    <3> SUFFICES ASSUME NEW u \in Threads, pc'[u] = "send"
                 PROVE  /\ jobs'[u][1].exec_id < next_exec_id'
                        /\ \A i \in DOMAIN sent' : sent'[i].exec_id # jobs'[u][1].exec_id
                        /\ \A v \in Threads \ {u} :
                             pc'[v] = "send" => jobs'[v][1].exec_id # jobs'[u][1].exec_id
      OBVIOUS
    <3>1. u # t /\ pc[u] = "send" /\ jobs'[u] = jobs[u]
      BY <2>2
    <3>2. \A i \in DOMAIN sent' : sent'[i].exec_id # jobs'[u][1].exec_id
      BY <1>8, <2>1, <2>3, <2>4, <3>1 DEF ExecIdsTaken
    <3> QED BY <1>6, <2>1, <2>2, <3>1, <3>2 DEF ExecIdsTaken
  <2> QED BY <2>5, <2>6, <2>7 DEF ExecIdsTaken
<1> QED BY <1>9, <1>10, <1>11 DEF GatewayInv

-----------------------------------------------------------------------------
(* Messages.                                                               *)

\* A NewOrderSingle takes the next OrderId, which no map has yet.
LEMMA RegisteredTypes ==
  ASSUME TypeOK, NEW session \in Sessions, NEW cl \in ClOrdIds, Register(cl, session),
         UNCHANGED <<next_exec_id, active_sessions, symbol_mutexes, ex, sent>>
  PROVE  /\ TypeOK' /\ GivenIds' = GivenIds \cup {next_order_id}
         /\ next_order_id \notin GivenIds
<1>1. PICK n : n = next_order_id
  OBVIOUS
<1>2. /\ n \in Nat \ {0} /\ next_order_id' = n + 1
      /\ clordid_map' = Put(clordid_map, cl, n)
      /\ orderid_to_clordid_map' = Put(orderid_to_clordid_map, n, cl)
      /\ order_sessions' = Put(order_sessions, n, session)
  BY <1>1 DEF Register, TypeOK, OrderId
<1>3. /\ GivenIds = 1..(n - 1) /\ GivenIds' = 1..n /\ 1..n = (1..(n - 1)) \cup {n}
      /\ n \notin 1..(n - 1) /\ n \in 1..n
  BY <1>1, <1>2 DEF GivenIds
<1>4. /\ orderid_to_clordid_map' \in [1..n -> ClOrdIds]
      /\ order_sessions' \in [1..n -> Sessions]
  BY <1>2, <1>3 DEF TypeOK, Put
<1>5. DOMAIN clordid_map' \subseteq ClOrdIds
      /\ \A c \in DOMAIN clordid_map' : clordid_map'[c] \in 1..n
  BY <1>2, <1>3 DEF TypeOK, Put
<1>6. DOMAIN ex'.order_states \subseteq 1..n /\ next_order_id' \in OrderId
  BY <1>2, <1>3 DEF TypeOK, OrderId
<1>7. TypeOK'
  BY <1>3, <1>4, <1>5, <1>6 DEF TypeOK
<1> QED BY <1>1, <1>3, <1>7

\* A NewOrderSingle arrives; what becomes of it is left to `where` and the
\* reports.
LEMMA ArrivesStep ==
  ASSUME GatewayInv, NEW t \in Threads, NEW session \in Sessions, NEW cl \in ClOrdIds,
         NEW ord_type, NEW order \in NewOrders, Arrives(t, session, cl, ord_type, order),
         NEW where \in {"submit", "stamp"}, Goto(t, where),
         NEW js, DOMAIN jobs' = Threads, jobs'[t] = js,
         \A u \in Threads \ {t} : jobs'[u] = jobs[u],
         JobsFit(DOMAIN ex.order_states, where, js),
         where = "stamp" => js[1].order_id = next_order_id
  PROVE  GatewayInv'
<1>1. PICK m : m = [kind |-> "D", session |-> session, cl |-> cl, order |-> order,
                    order_id |-> next_order_id, symbol |-> order.symbol]
  OBVIOUS
<1>2. /\ pc[t] = "idle" /\ pc' = [pc EXCEPT ![t] = where]
      /\ msg' = [msg EXCEPT ![t] = m] /\ Register(cl, session)
      /\ UNCHANGED <<next_exec_id, active_sessions, symbol_mutexes, ex, sent>>
  BY <1>1, Zenon DEF Arrives, Takes, Goto, links
<1>3. TypeOK' /\ GivenIds' = GivenIds \cup {next_order_id} /\ next_order_id \notin GivenIds
  BY <1>2, RegisteredTypes DEF GatewayInv
<1>4. /\ DOMAIN pc = Threads /\ DOMAIN msg = Threads /\ DOMAIN jobs = Threads
      /\ DOMAIN ex.order_states \subseteq GivenIds /\ next_order_id \in OrderId
  BY HandlerIs DEF TypeOK
<1>5. IsOrder(order) /\ order.order_id = next_order_id
  BY <1>4, GatewayQuantitiesAssumption DEF NewOrders, IsOrder
<1>6. /\ pc'[t] = where /\ msg'[t] = m /\ jobs'[t] = js
      /\ \A u \in Threads \ {t} : msg'[u] = msg[u] /\ jobs'[u] = jobs[u]
      /\ DOMAIN msg' = Threads /\ DOMAIN jobs' = Threads
  BY <1>2, <1>4
<1>7. /\ m.session = session /\ m.cl = cl /\ m.order = order /\ m.symbol = order.symbol
      /\ m.order_id = next_order_id
  BY <1>1
<1>8. MessageOK(t)'
  BY <1>2, <1>3, <1>4, <1>5, <1>6, <1>7 DEF MessageOK, IsOrder
<1>9. OnlyMoves(t, where)
  BY <1>2, <1>3, <1>6 DEF OnlyMoves
<1>10. JobsFit(DOMAIN ex.order_states, where, jobs[t])'
  BY <1>2, <1>6
<1>11. HandlersOK'
  BY <1>3, <1>6, <1>7, <1>8, <1>9, <1>10, HandlersStep DEF GatewayInv
<1>12. ExecIdsTaken'
  BY <1>2, <1>4, <1>6, ExecIdsKept DEF GatewayInv
<1> QED BY <1>3, <1>11, <1>12 DEF GatewayInv

\* One report that answers a message fits.
LEMMA OneReportFits ==
  ASSUME NEW ids, NEW r \in Drafts, NEW where \in {"remap", "stamp"}
  PROVE  JobsFit(ids, where, <<r>>)
  BY DEF JobsFit

\* A limit order waits to be submitted.
LEMMA ReceiveOrderStep ==
  ASSUME GatewayInv, NEW t \in Threads, NEW session \in Sessions, NEW cl \in ClOrdIds,
         ReceiveOrder(t, session, cl)
  PROVE  GatewayInv'
<1>1. PICK order \in NewOrders :
        /\ Arrives(t, session, cl, "Limit", order) /\ Goto(t, "submit") /\ jobs' = jobs
  BY DEF ReceiveOrder
<1>2. pc[t] = "idle" /\ DOMAIN jobs = Threads
  BY <1>1, HandlerIs DEF Arrives, Takes
<1>3. jobs[t] = <<>>
  BY <1>2, HandlerIs DEF JobsFit
<1>4. JobsFit(DOMAIN ex.order_states, "submit", <<>>)
  BY NoJobsFit
<1> QED BY <1>1, <1>2, <1>3, <1>4, ArrivesStep

\* Any other order is answered at once.
LEMMA ReceiveUnsupportedStep ==
  ASSUME GatewayInv, NEW t \in Threads, NEW session \in Sessions, NEW cl \in ClOrdIds,
         ReceiveUnsupported(t, session, cl)
  PROVE  GatewayInv'
<1>1. PICK order \in NewOrders :
        /\ Arrives(t, session, cl, "Market", order) /\ Goto(t, "stamp")
        /\ jobs' = [jobs EXCEPT ![t] =
             <<Ack(cl, next_order_id, NewOrderState(order, "Rejected"))>>]
  BY DEF ReceiveUnsupported
<1>2. PICK id, st : id = next_order_id /\ st = NewOrderState(order, "Rejected")
  OBVIOUS
<1>3. id \in OrderId /\ st \in OrderStates
  <2>1. id \in OrderId
    BY <1>2, HandlerIs DEF TypeOK
  <2>2. /\ order.symbol \in Symbols /\ order.side \in Side /\ order.price \in Prices
        /\ order.quantity \in Int
    BY GatewayQuantitiesAssumption DEF NewOrders
  <2>3. st \in OrderStates
    BY <1>2, <2>2 DEF NewOrderState, OrderStates, OrderStatus
  <2> QED BY <2>1, <2>3
<1>4. PICK r : r = Ack(cl, id, st)
  OBVIOUS
<1>5. r \in Drafts
  BY <1>3, <1>4, ReportsAreDrafts DEF ExecType
<1>6. r.order_id = next_order_id
  BY <1>2, <1>4 DEF Ack, Answer, ExecutionReport
<1>7. PICK js : js = <<r>>
  OBVIOUS
<1>8. /\ DOMAIN jobs' = Threads /\ jobs'[t] = js
      /\ \A u \in Threads \ {t} : jobs'[u] = jobs[u]
      /\ js[1].order_id = next_order_id
  BY <1>1, <1>2, <1>4, <1>6, <1>7, HandlerIs
<1>9. JobsFit(DOMAIN ex.order_states, "stamp", js)
  <2>1. PICK ids : ids = DOMAIN ex.order_states
    OBVIOUS
  <2>2. JobsFit(ids, "stamp", js)
    BY <1>5, <1>7, OneReportFits
  <2> QED BY <2>1, <2>2
<1> QED BY <1>1, <1>8, <1>9, ArrivesStep

\* A cancel or replace of an order that has an OrderId goes on with it.
LEMMA ReceiveAmendStep ==
  ASSUME GatewayInv, NEW t \in Threads, NEW m,
         {"kind", "session", "cl", "symbol"} \subseteq DOMAIN m,
         m.session \in Sessions, m.cl \in ClOrdIds, m.symbol \in Symbols,
         m.kind = "G" => /\ {"price", "quantity"} \subseteq DOMAIN m
                         /\ m.price \in Prices /\ m.quantity \in Int,
         ReceiveAmend(t, m)
  PROVE  GatewayInv'
<1>1. /\ pc[t] = "idle" /\ jobs' = jobs /\ UNCHANGED typed
  BY DEF ReceiveAmend, Takes, typed, links
<1>2. /\ DOMAIN pc = Threads /\ DOMAIN msg = Threads /\ DOMAIN jobs = Threads
      /\ TypeOK /\ jobs[t] = <<>>
  BY <1>1, HandlerIs DEF JobsFit
<1>3. TypeOK'
  BY <1>1, <1>2, TypeKept
<1>4. CASE AmendUnknown(m)
  <2>1. pc' = pc /\ msg' = msg /\ next_order_id' = next_order_id /\ ex' = ex
    BY <1>1, <1>4 DEF AmendUnknown, typed
  <2>2. HandlersOK'
    BY <1>1, <2>1 DEF GatewayInv, HandlersOK, MessageOK, SubmitsDiffer, GivenIds
  <2>3. ExecIdsTaken'
    BY <1>1, <2>1, ExecIdsKept DEF GatewayInv, typed
  <2> QED BY <1>3, <2>2, <2>3 DEF GatewayInv
<1>5. CASE AmendFound(t, m)
  <2>1. PICK id, full : id = clordid_map[m.orig] /\ full = Put(m, "order_id", id)
    OBVIOUS
  <2>2. /\ id \in GivenIds /\ pc' = [pc EXCEPT ![t] = "amend"]
        /\ msg' = [msg EXCEPT ![t] = full]
    BY <1>2, <1>5, <2>1 DEF AmendFound, TypeOK, Goto
  <2>3. /\ full.order_id = id
        /\ \A f \in DOMAIN m : f # "order_id" => full[f] = m[f]
    BY <2>1 DEF Put
  <2>4. /\ full.session = m.session /\ full.cl = m.cl /\ full.symbol = m.symbol
        /\ full.kind = m.kind
        /\ (m.kind = "G" => full.price = m.price /\ full.quantity = m.quantity)
    BY <2>3
  <2>5. pc'[t] = "amend" /\ msg'[t] = full /\ GivenIds' = GivenIds
        /\ jobs'[t] = <<>> /\ ex' = ex
    BY <1>1, <1>2, <2>2 DEF typed, GivenIds
  <2>6. MessageOK(t)'
    BY <2>2, <2>3, <2>4, <2>5 DEF MessageOK
  <2>7. OnlyMoves(t, "amend")
    BY <1>1, <1>2, <2>2, <2>5 DEF OnlyMoves
  <2>8. JobsFit(DOMAIN ex.order_states, "amend", jobs[t])'
    BY <2>5, NoJobsFit
  <2>9. HandlersOK'
    BY <2>6, <2>7, <2>8, HandlersStep DEF GatewayInv
  <2>10. ExecIdsTaken'
    BY <1>1, <1>2, <2>2, ExecIdsKept DEF GatewayInv, typed
  <2> QED BY <1>3, <2>9, <2>10 DEF GatewayInv
<1> QED BY <1>4, <1>5 DEF ReceiveAmend

-----------------------------------------------------------------------------
(* Calls into the exchange.                                                *)

\* A call has been made for the order of thread t: the exchange is in order, no
\* order is forgotten, and the first report answers the message.
LEMMA CallStep ==
  ASSUME GatewayInv, NEW t \in Threads, NEW now,
         ex' = now, IsExchange(now, Registered),
         pc[t] \in {"submit", "amend"}, NEW id, id = msg[t].order_id,
         DOMAIN now.order_states = DOMAIN ex.order_states \cup {id},
         pc[t] = "amend" => id \in DOMAIN ex.order_states,
         NEW where \in {"remap", "stamp"}, pc' = [pc EXCEPT ![t] = where], msg' = msg,
         NEW js, jobs' = [jobs EXCEPT ![t] = js], JobsFit(DOMAIN now.order_states, where, js),
         js[1].order_id = id,
         UNCHANGED <<next_order_id, next_exec_id, maps, active_sessions, sent>>,
         symbol_mutexes' \in [Symbols -> Threads \cup {NoThread}]
  PROVE  GatewayInv'
<1>1. /\ DOMAIN pc = Threads /\ DOMAIN msg = Threads /\ DOMAIN jobs = Threads
      /\ DOMAIN ex.order_states \subseteq GivenIds /\ id \in GivenIds
      /\ TypeOK /\ MessageOK(t)
  BY HandlerIs DEF MessageOK
<1>2. GivenIds' = GivenIds
  BY DEF GivenIds
<1>3. TypeOK'
  BY <1>1, <1>2 DEF TypeOK, maps
<1>4. OnlyMoves(t, where)
  BY <1>1, <1>2 DEF OnlyMoves
<1>5. pc'[t] = where /\ jobs'[t] = js
  BY <1>1
<1>6. MessageOK(t)'
  BY <1>1, <1>2, <1>5 DEF MessageOK
<1>7. JobsFit(DOMAIN ex.order_states, where, jobs[t])'
  BY <1>5
<1>8. HandlersOK'
  BY <1>4, <1>6, <1>7, HandlersStep DEF GatewayInv
<1>9. ExecIdsTaken'
  BY <1>1, ExecIdsKept DEF GatewayInv
<1> QED BY <1>3, <1>8, <1>9 DEF GatewayInv

\* The reports of a call: an answer, then the fills.
LEMMA CallReports ==
  ASSUME NEW ids, NEW id \in ids, NEW cl \in ClOrdIds, NEW trades \in Seq(FillsFrom(ids)),
         NEW answer \in Drafts, NEW where \in {"remap", "stamp"}
  PROVE  /\ JobsFit(ids, where, <<answer>> \o FillsOf(id, cl, trades))
         /\ (<<answer>> \o FillsOf(id, cl, trades))[1] = answer
<1>1. PICK fills : fills = FillsOf(id, cl, trades)
  OBVIOUS
<1>2. fills \in Seq(FillJobsOn(ids))
  BY <1>1, FillsOfOK
<1>3. (<<answer>> \o fills)[1] = answer
  BY <1>2
<1>4. JobsFit(ids, where, <<answer>> \o fills)
  <2>1. PICK js : js = <<answer>> \o fills
    OBVIOUS
  <2> QED BY <1>2, <2>1, AnswerFits
<1> QED BY <1>1, <1>3, <1>4

\* The order is submitted, under its symbol's mutex.
LEMMA SubmitStep ==
  ASSUME GatewayInv, NEW t \in Threads, Submit(t)
  PROVE  GatewayInv'
<1>1. PICK old, order, id, cl : old = ex /\ order = msg[t].order /\ id = msg[t].order_id
                                /\ cl = msg[t].cl
  OBVIOUS
<1>2. PICK call : /\ call = submit_order(old, risk_ctx, order) /\ ex' = call.ex
                  /\ jobs' = [jobs EXCEPT ![t] = SubmitReports(t, call)]
  BY <1>1 DEF Submit
<1>3. /\ IsExchange(old, Registered) /\ IsOrder(order) /\ order.order_id = id
      /\ id \notin DOMAIN old.order_states /\ cl \in ClOrdIds /\ pc[t] = "submit"
      /\ id \in OrderId
  BY <1>1, HandlerIs DEF MessageOK, TypeOK, Submit, IsOrder
<1>4. CallKeeps(Registered, old, call, id, {id})
  BY <1>2, <1>3, SubmitOK
<1>5. PICK ids, st : ids = DOMAIN call.ex.order_states /\ st = call.ex.order_states[id]
  OBVIOUS
<1>6. /\ IsExchange(call.ex, Registered) /\ ids = DOMAIN old.order_states \cup {id}
      /\ call.trades \in Seq(FillsFrom(ids)) /\ id \in ids /\ st \in OrderStates
  <2>1. /\ IsExchange(call.ex, Registered) /\ ids = DOMAIN old.order_states \cup {id}
        /\ call.trades \in Seq(FillsFrom(DOMAIN old.order_states))
    BY <1>4, <1>5 DEF CallKeeps
  <2>2. call.trades \in Seq(FillsFrom(ids))
    BY <2>1, MoreFills
  <2> QED BY <1>5, <2>1, <2>2 DEF IsExchange
<1>7. PICK answer : answer = Ack(cl, id, st)
  OBVIOUS
<1>8. answer \in Drafts /\ answer.order_id = id
  <2>1. answer \in Drafts
    BY <1>3, <1>6, <1>7, ReportsAreDrafts DEF ExecType
  <2> QED BY <1>7, <2>1 DEF Ack, Answer, ExecutionReport
<1>9. PICK trades : trades = call.trades
  OBVIOUS
<1>10. PICK js : js = <<answer>> \o FillsOf(id, cl, trades)
  OBVIOUS
<1>11. JobsFit(ids, "stamp", js) /\ js[1] = answer
  <2>1. trades \in Seq(FillsFrom(ids)) /\ id \in ids /\ cl \in ClOrdIds /\ answer \in Drafts
    BY <1>3, <1>6, <1>8, <1>9
  <2> QED BY <2>1, <1>10, CallReports
<1>12. jobs' = [jobs EXCEPT ![t] = js]
  BY <1>1, <1>2, <1>5, <1>7, <1>9, <1>10 DEF SubmitReports
<1>13. /\ pc' = [pc EXCEPT ![t] = "stamp"] /\ msg' = msg
       /\ UNCHANGED <<next_order_id, next_exec_id, maps, active_sessions, sent, symbol_mutexes>>
  BY DEF Submit, Goto, links
<1>14. symbol_mutexes' \in [Symbols -> Threads \cup {NoThread}]
  BY <1>13, HandlerIs DEF TypeOK
<1>15. PICK now : now = call.ex
  OBVIOUS
<1>16. /\ ex' = now /\ IsExchange(now, Registered)
       /\ DOMAIN now.order_states = DOMAIN ex.order_states \cup {id}
       /\ JobsFit(DOMAIN now.order_states, "stamp", js) /\ js[1].order_id = id
  BY <1>1, <1>2, <1>5, <1>6, <1>8, <1>11, <1>15
<1> QED BY <1>1, <1>3, <1>12, <1>13, <1>14, <1>16, CallStep

\* An order is cancelled; the symbol's mutex stays with the handler.
LEMMA CancelStep ==
  ASSUME GatewayInv, NEW t \in Threads, Cancel(t)
  PROVE  GatewayInv'
<1>1. PICK old, id, cl : old = ex /\ id = msg[t].order_id /\ cl = msg[t].cl
  OBVIOUS
<1>2. PICK now : now = cancel_order(old, id)
  OBVIOUS
<1>3. PICK st : st = now.order_states[id]
  OBVIOUS
<1>4. PICK answer : answer = Answer(cl, id, "Cancelled", st)
  OBVIOUS
<1>5. /\ ex' = now /\ pc[t] = "amend" /\ id \in DOMAIN old.order_states
      /\ jobs' = [jobs EXCEPT ![t] = <<answer>>]
      /\ symbol_mutexes' = [symbol_mutexes EXCEPT ![msg[t].symbol] = t]
      /\ pc' = [pc EXCEPT ![t] = "remap"] /\ msg' = msg
      /\ UNCHANGED <<next_order_id, next_exec_id, maps, active_sessions, sent>>
  BY <1>1, <1>2, <1>3, <1>4 DEF Cancel, Amendable, Goto, links
<1>6. IsExchange(old, Registered) /\ cl \in ClOrdIds /\ msg[t].symbol \in Symbols
  BY <1>1, <1>5, HandlerIs DEF MessageOK, TypeOK
<1>7. IsExchange(now, Registered) /\ DOMAIN now.order_states = DOMAIN old.order_states
  BY <1>2, <1>6, CancelOK
<1>8. st \in OrderStates /\ id \in OrderId
  BY <1>3, <1>5, <1>7 DEF IsExchange
<1>9. answer \in Drafts /\ answer.order_id = id
  <2>1. answer \in Drafts
    BY <1>4, <1>6, <1>8, ReportsAreDrafts DEF ExecType
  <2> QED BY <1>4, <2>1 DEF Answer, ExecutionReport
<1>10. PICK ids, js : ids = DOMAIN now.order_states /\ js = <<answer>>
  OBVIOUS
<1>11. JobsFit(ids, "remap", js) /\ js[1].order_id = id
  BY <1>9, <1>10, OneReportFits
<1>12. symbol_mutexes' \in [Symbols -> Threads \cup {NoThread}]
  BY <1>5, <1>6, HandlerIs DEF TypeOK
<1>13. DOMAIN now.order_states = DOMAIN ex.order_states \cup {id}
  BY <1>1, <1>5, <1>7
<1> QED BY <1>1, <1>5, <1>7, <1>10, <1>11, <1>12, <1>13, CallStep

\* An order is replaced, and may trade at once.
LEMMA ReplaceStep ==
  ASSUME GatewayInv, NEW t \in Threads, Replace(t)
  PROVE  GatewayInv'
<1>1. PICK old, m, id, cl : old = ex /\ m = msg[t] /\ id = m.order_id /\ cl = m.cl
  OBVIOUS
<1>2. PICK call : /\ call = modify_order(old, risk_ctx, id, m.price, m.quantity)
                  /\ ex' = call.ex
                  /\ jobs' = [jobs EXCEPT ![t] =
                       <<Answer(cl, id, "Replace", call.ex.order_states[id])>>
                         \o FillsOf(id, cl, call.trades)]
  BY <1>1 DEF Replace
<1>3. pc[t] = "amend" /\ id \in DOMAIN old.order_states /\ m.kind = "G"
  BY <1>1 DEF Replace, Amendable
<1>4. /\ IsExchange(old, Registered) /\ cl \in ClOrdIds
      /\ m.price \in Prices /\ m.quantity \in Int
  BY <1>1, <1>3, HandlerIs DEF MessageOK, TypeOK
<1>5. CallKeeps(Registered, old, call, id, {})
  <2>1. PICK price \in Prices, quantity \in Int : price = m.price /\ quantity = m.quantity
    BY <1>4
  <2> QED BY <1>2, <1>4, <2>1, ModifyOK
<1>6. PICK ids, st, trades : /\ ids = DOMAIN call.ex.order_states
                             /\ st = call.ex.order_states[id] /\ trades = call.trades
  OBVIOUS
<1>7. /\ IsExchange(call.ex, Registered) /\ ids = DOMAIN old.order_states
      /\ trades \in Seq(FillsFrom(ids))
  BY <1>5, <1>6 DEF CallKeeps
<1>8. id \in ids /\ st \in OrderStates /\ id \in OrderId
  BY <1>3, <1>6, <1>7 DEF IsExchange
<1>9. PICK answer, js : /\ answer = Answer(cl, id, "Replace", st)
                        /\ js = <<answer>> \o FillsOf(id, cl, trades)
  OBVIOUS
<1>10. answer \in Drafts /\ answer.order_id = id
  <2>1. answer \in Drafts
    BY <1>4, <1>8, <1>9, ReportsAreDrafts DEF ExecType
  <2> QED BY <1>9, <2>1 DEF Answer, ExecutionReport
<1>11. JobsFit(ids, "remap", js) /\ js[1].order_id = id
  <2>1. JobsFit(ids, "remap", js) /\ js[1] = answer
    BY <1>4, <1>7, <1>8, <1>9, <1>10, CallReports
  <2> QED BY <2>1, <1>10
<1>12. jobs' = [jobs EXCEPT ![t] = js]
  BY <1>2, <1>6, <1>9
<1>13. /\ pc' = [pc EXCEPT ![t] = "remap"] /\ msg' = msg
       /\ UNCHANGED <<next_order_id, next_exec_id, maps, active_sessions, sent, symbol_mutexes>>
  BY DEF Replace, Goto, links
<1>14. symbol_mutexes' \in [Symbols -> Threads \cup {NoThread}]
  BY <1>13, HandlerIs DEF TypeOK
<1>15. PICK now : now = call.ex
  OBVIOUS
<1>16. /\ ex' = now /\ IsExchange(now, Registered)
       /\ DOMAIN now.order_states = DOMAIN ex.order_states \cup {id}
       /\ JobsFit(DOMAIN now.order_states, "remap", js)
  BY <1>1, <1>2, <1>6, <1>7, <1>8, <1>11, <1>15
<1> QED BY <1>1, <1>3, <1>11, <1>12, <1>13, <1>14, <1>16, CallStep

\* The order of a cancel or replace gets its new ClOrdID.
LEMMA RemapStep ==
  ASSUME GatewayInv, NEW t \in Threads, Remap(t)
  PROVE  GatewayInv'
<1>1. PICK m, id, cl : m = msg[t] /\ id = m.order_id /\ cl = m.cl
  OBVIOUS
<1>2. /\ pc[t] = "remap" /\ pc' = [pc EXCEPT ![t] = "stamp"]
      /\ clordid_map' = Put(clordid_map, cl, id)
      /\ orderid_to_clordid_map' = Put(orderid_to_clordid_map, id, cl)
      /\ \/ order_sessions' = Put(order_sessions, id, m.session)
         \/ order_sessions' = order_sessions
      /\ UNCHANGED <<next_order_id, next_exec_id, active_sessions, symbol_mutexes, ex, msg,
                     jobs, sent>>
  BY <1>1 DEF Remap, Goto, links
<1>3. /\ DOMAIN pc = Threads /\ DOMAIN msg = Threads /\ DOMAIN jobs = Threads
      /\ TypeOK /\ MessageOK(t) /\ JobsFit(DOMAIN ex.order_states, "remap", jobs[t])
      /\ id \in GivenIds /\ cl \in ClOrdIds /\ m.session \in Sessions
  BY <1>1, <1>2, HandlerIs DEF MessageOK
<1>4. GivenIds' = GivenIds
  BY <1>2 DEF GivenIds
<1>5. TypeOK'
  <2>1. PICK ids : ids = GivenIds
    OBVIOUS
  <2>2. /\ orderid_to_clordid_map' \in [ids -> ClOrdIds]
        /\ order_sessions' \in [ids -> Sessions]
        /\ DOMAIN clordid_map' \subseteq ClOrdIds
        /\ \A c \in DOMAIN clordid_map' : clordid_map'[c] \in ids
    BY <1>2, <1>3, <2>1 DEF TypeOK, Put
  <2> QED BY <1>2, <1>3, <1>4, <2>1, <2>2 DEF TypeOK
<1>6. OnlyMoves(t, "stamp")
  BY <1>2, <1>3, <1>4 DEF OnlyMoves
<1>7. MessageOK(t)'
  BY <1>2, <1>3, <1>4 DEF MessageOK
<1>8. JobsFit(DOMAIN ex.order_states, "stamp", jobs[t])'
  BY <1>2, <1>3 DEF JobsFit
<1>9. HandlersOK'
  BY <1>6, <1>7, <1>8, HandlersStep DEF GatewayInv
<1>10. ExecIdsTaken'
  BY <1>2, <1>3, ExecIdsKept DEF GatewayInv
<1> QED BY <1>5, <1>9, <1>10 DEF GatewayInv

-----------------------------------------------------------------------------
(* Every step, again.                                                      *)

\* A session logs on or out.
LEMMA SessionStep ==
  ASSUME GatewayInv, NEW session \in Sessions, onLogon(session) \/ onLogout(session)
  PROVE  GatewayInv'
<1>1. /\ active_sessions' \subseteq active_sessions \cup {session}
      /\ UNCHANGED <<next_order_id, next_exec_id, maps, symbol_mutexes, ex, pc, msg,
                     jobs, sent>>
  BY DEF onLogon, onLogout
<1>2. TypeOK'
  BY <1>1 DEF GatewayInv, TypeOK, GivenIds, maps
<1>3. HandlersOK'
  BY <1>1 DEF GatewayInv, HandlersOK, MessageOK, SubmitsDiffer, GivenIds
<1>4. ExecIdsTaken'
  BY <1>1, ExecIdsKept DEF GatewayInv
<1> QED BY <1>2, <1>3, <1>4 DEF GatewayInv

\* A handler takes a message from a session.
LEMMA ReceiveStep ==
  ASSUME GatewayInv, NEW t \in Threads, Receive(t)
  PROVE  GatewayInv'
<1>1. PICK session \in Sessions, cl \in ClOrdIds :
        \/ ReceiveOrder(t, session, cl) \/ ReceiveUnsupported(t, session, cl)
        \/ ReceiveCancel(t, session, cl) \/ ReceiveReplace(t, session, cl)
  BY DEF Receive
<1>2. ASSUME NEW orig, NEW sym, sym \in SymbolsOf(orig)
      PROVE  sym \in Symbols
  <2>1. ex.order_states \in [DOMAIN ex.order_states -> OrderStates]
    BY DEF GatewayInv, TypeOK, IsExchange
  <2>2. \A id \in DOMAIN ex.order_states : ex.order_states[id].symbol \in Symbols
    BY <2>1 DEF OrderStates
  <2> QED BY <1>2, <2>2 DEF SymbolsOf
<1>3. CASE ReceiveCancel(t, session, cl)
  <2>1. PICK orig \in ClOrdIds : \E sym \in SymbolsOf(orig) :
          ReceiveAmend(t, [kind |-> "F", session |-> session, cl |-> cl,
                           orig |-> orig, symbol |-> sym])
    BY <1>3 DEF ReceiveCancel
  <2>6. PICK sym \in SymbolsOf(orig) :
          ReceiveAmend(t, [kind |-> "F", session |-> session, cl |-> cl,
                           orig |-> orig, symbol |-> sym])
    BY <2>1
  <2>2. PICK m : m = [kind |-> "F", session |-> session, cl |-> cl,
                      orig |-> orig, symbol |-> sym]
    OBVIOUS
  <2>3. /\ {"kind", "session", "cl", "symbol"} \subseteq DOMAIN m
        /\ m.session \in Sessions /\ m.cl \in ClOrdIds /\ m.symbol \in Symbols
        /\ m.kind # "G"
    BY <1>2, <2>2
  <2> QED BY <2>6, <2>2, <2>3, ReceiveAmendStep
<1>4. CASE ReceiveReplace(t, session, cl)
  <2>1. PICK orig \in ClOrdIds, price \in Prices, quantity \in Quantities :
          \E sym \in SymbolsOf(orig) : ReceiveAmend(t, [kind |-> "G", session |-> session, cl |-> cl,
                           orig |-> orig, symbol |-> sym, price |-> price,
                           quantity |-> quantity])
    BY <1>4 DEF ReceiveReplace
  <2>6. PICK sym \in SymbolsOf(orig) :
          ReceiveAmend(t, [kind |-> "G", session |-> session, cl |-> cl,
                           orig |-> orig, symbol |-> sym, price |-> price,
                           quantity |-> quantity])
    BY <2>1
  <2>2. PICK m : m = [kind |-> "G", session |-> session, cl |-> cl,
                      orig |-> orig, symbol |-> sym, price |-> price,
                      quantity |-> quantity]
    OBVIOUS
  <2>3. /\ {"kind", "session", "cl", "symbol", "price", "quantity"} \subseteq DOMAIN m
        /\ m.session \in Sessions /\ m.cl \in ClOrdIds /\ m.symbol \in Symbols
        /\ m.price \in Prices /\ m.quantity \in Int
    BY <1>2, <2>2, GatewayQuantitiesAssumption
  <2>4. ReceiveAmend(t, m)
    BY <2>6, <2>2
  <2>5. {"kind", "session", "cl", "symbol"} \subseteq DOMAIN m
        /\ {"price", "quantity"} \subseteq DOMAIN m
    BY <2>3
  <2> QED BY <2>3, <2>4, <2>5, ReceiveAmendStep
<1> QED BY <1>1, <1>3, <1>4, ReceiveOrderStep, ReceiveUnsupportedStep

\* Every step keeps every handler between two of its steps, every ExecID below
\* the counter, and every variable in its type.
LEMMA GatewayStep ==
  ASSUME GatewayInv, [Next]_vars
  PROVE  GatewayInv'
<1>1. CASE UNCHANGED vars
  <2>1. UNCHANGED typed /\ UNCHANGED <<pc, msg, jobs>>
    BY <1>1 DEF vars, typed, maps, links
  <2>2. TypeOK'
    BY <2>1, TypeKept DEF GatewayInv
  <2>3. HandlersOK'
    BY <2>1 DEF GatewayInv, HandlersOK, MessageOK, SubmitsDiffer, GivenIds, typed
  <2>4. ExecIdsTaken'
    BY <2>1, ExecIdsKept DEF GatewayInv, typed
  <2> QED BY <2>2, <2>3, <2>4 DEF GatewayInv
<1>2. ASSUME NEW t \in Threads, Handle(t)
      PROVE  GatewayInv'
  <2>1. CASE AmendThrows(t)
    <3>1. /\ pc[t] = "amend" /\ pc' = [pc EXCEPT ![t] = "thrown"] /\ msg' = msg
          /\ jobs' = jobs /\ UNCHANGED typed
      BY <2>1 DEF AmendThrows, Goto, typed, links
    <3>2. /\ DOMAIN pc = Threads /\ DOMAIN msg = Threads /\ DOMAIN jobs = Threads
          /\ jobs[t] = <<>> /\ TypeOK /\ MessageOK(t)
      BY <3>1, HandlerIs DEF JobsFit
    <3>3. GivenIds' = GivenIds /\ ex' = ex /\ pc'[t] = "thrown"
      BY <3>1, <3>2 DEF typed, GivenIds
    <3>4. OnlyMoves(t, "thrown")
      BY <3>1, <3>2, <3>3 DEF OnlyMoves
    <3>5. MessageOK(t)'
      BY <3>1, <3>2, <3>3 DEF MessageOK
    <3>6. JobsFit(DOMAIN ex.order_states, "thrown", jobs[t])'
      BY <3>1, <3>2, <3>3, NoJobsFit
    <3>7. HandlersOK'
      BY <3>4, <3>5, <3>6, HandlersStep DEF GatewayInv
    <3>8. ExecIdsTaken'
      BY <3>1, <3>2, ExecIdsKept DEF GatewayInv, typed
    <3> QED BY <3>1, <3>2, <3>7, <3>8, TypeKept DEF GatewayInv
  <2>2. CASE AmendRefused(t)
    <3>1. PICK js : js = <<>>
      OBVIOUS
    <3>2. /\ pc[t] = "amend" /\ pc' = [pc EXCEPT ![t] = "idle"]
          /\ \E m : msg' = [msg EXCEPT ![t] = m]
          /\ jobs' = [jobs EXCEPT ![t] = js] /\ UNCHANGED typed
      BY <2>2, <3>1 DEF AmendRefused, Amendable, Finish, Goto, typed, links
    <3>3. JobsFit(DOMAIN ex.order_states, "idle", js)
      BY <3>1, NoJobsFit
    <3> QED BY <3>2, <3>3, QuietStep
  <2> QED BY <1>2, <2>1, <2>2, SubmitStep, CancelStep, ReplaceStep, RemapStep, LookupStep,
             ReadStateStep, StampStep, SendStep DEF Handle
<1> QED BY <1>1, <1>2, SessionStep, ReceiveStep DEF Next

\* At the start no order is known, no handler runs and no ExecID is taken.
LEMMA GatewayInit == Init => GatewayInv
<1> SUFFICES ASSUME Init PROVE GatewayInv
  OBVIOUS
<1>1. ex = EmptyExchange(Registered) /\ ex.order_states = <<>> /\ DOMAIN ex.order_states = {}
  BY DEF Init, EmptyExchange
<1>2. IsExchange(ex, Registered)
  <2>1. \A E : Tidy(NoLevels, E)
    BY DEF Tidy, NoLevels
  <2>2. /\ ex = [order_states |-> ex.order_states, books |-> ex.books]
        /\ ex.books = [s \in Registered |-> [sd \in Side |-> NoLevels]]
    BY <1>1 DEF EmptyExchange
  <2>3. \A s \in Registered, sd \in Side : ex.books[s][sd] = NoLevels
    BY <2>2
  <2>4. \A s \in Registered, sd \in Side :
          Tidy(ex.books[s][sd], EntriesOf(OrdersOn(ex.order_states, s, sd)))
    BY <2>1, <2>3
  <2>5. ex.books = [s \in Registered |-> [sd \in Side |-> ex.books[s][sd]]]
    BY <2>2
  <2>6. /\ DOMAIN ex.order_states \subseteq OrderId
        /\ ex.order_states \in [DOMAIN ex.order_states -> OrderStates]
    BY <1>1
  <2> QED BY <1>1, <2>2, <2>4, <2>5, <2>6 DEF IsExchange
<1>3. TypeOK
  <2>1. GivenIds = {} /\ next_order_id \in OrderId /\ next_exec_id \in Nat \ {0}
    BY DEF Init, GivenIds, OrderId
  <2>2. /\ DOMAIN clordid_map = {}
        /\ orderid_to_clordid_map \in [{} -> ClOrdIds]
        /\ order_sessions \in [{} -> Sessions]
    BY DEF Init
  <2>3. /\ active_sessions = {} /\ sent \in Seq(Reports)
        /\ symbol_mutexes \in [Symbols -> Threads \cup {NoThread}]
    BY DEF Init
  <2> QED BY <1>1, <1>2, <2>1, <2>2, <2>3 DEF TypeOK
<1>4. HandlersOK
  <2>1. /\ DOMAIN pc = Threads /\ DOMAIN msg = Threads /\ DOMAIN jobs = Threads
        /\ \A t \in Threads : pc[t] = "idle" /\ jobs[t] = <<>>
    BY DEF Init
  <2> QED BY <2>1, NoJobsFit DEF HandlersOK, MessageOK, SubmitsDiffer
<1>5. ExecIdsTaken
  BY DEF Init, ExecIdsTaken, ExecIdsUnique
<1> QED BY <1>3, <1>4, <1>5 DEF GatewayInv

\* The inductive invariant holds in every reachable state of any number of
\* handler threads (onMessage of the three messages, send_report).
THEOREM GatewayInvAlways == Spec => []GatewayInv
  BY GatewayInit, GatewayStep, PTL DEF Spec

\* Every variable of the acceptor has its type; in particular the books hold only
\* orders of their symbol and side, and every report goes to at least one session.
THEOREM TypeOKAlways == Spec => []TypeOK
<1>1. GatewayInv => TypeOK
  BY DEF GatewayInv
<1> QED BY <1>1, GatewayInvAlways, PTL

\* No two reports carry the same ExecID: next_exec_id is read and incremented
\* under global_state_mutex_, however the handlers interleave after that.
THEOREM ExecIdsUniqueAlways == Spec => []ExecIdsUnique
<1>1. GatewayInv => ExecIdsUnique
  BY DEF GatewayInv, ExecIdsTaken
<1> QED BY <1>1, GatewayInvAlways, PTL

-----------------------------------------------------------------------------
(* What was reported and what is still to be reported, on one thread.      *)

\* The report a handler is busy with becomes another on the same order.
LEMMA HeadKeepsFit ==
  ASSUME NEW S, NEW rs, NEW js \in Seq(S), js # <<>>, NEW states, NEW before, NEW after,
         ReportsFit(rs, js, states, before),
         NEW head, NEW new, new = WithHead(js, head), head.order_id = js[1].order_id,
         \/ head.exec_type = js[1].exec_type
         \/ js[1].exec_type \notin Acks /\ head.order_id \in DOMAIN states,
         \/ ~after
         \/ before /\ head.view = js[1].view /\ head.exec_type = js[1].exec_type
         \/ head.order_id \in DOMAIN states /\ head.view = View(states[head.order_id])
  PROVE  ReportsFit(rs, new, states, after)
<1>1. DOMAIN new = DOMAIN js /\ 1 \in DOMAIN js /\ new # <<>> /\ new[1] = head
      /\ \A k \in DOMAIN js : k # 1 => new[k] = js[k]
  BY DEF WithHead
<1>2. \A k \in DOMAIN js : new[k].order_id = js[k].order_id
  BY <1>1
<1>3. \A id : Mentions(new, id) <=> Mentions(js, id)
  BY <1>1, <1>2 DEF Mentions
<1>4. \A i \in DOMAIN rs : FirstOn(rs, i) => rs[i].exec_type \in Acks
  BY DEF ReportsFit
<1>5. \A i \in DOMAIN rs : LastOn(rs, i) =>
        (rs[i].order_id \in DOMAIN states =>
           Mentions(new, rs[i].order_id) \/ rs[i].view = View(states[rs[i].order_id]))
  BY <1>3 DEF ReportsFit
<1>6. \A id \in DOMAIN states :
        Mentions(rs, id) \/ (new[1].order_id = id /\ new[1].exec_type \in Acks)
  BY <1>1 DEF ReportsFit
<1>7. ASSUME after
      PROVE  /\ head.exec_type \in Acks \/ head.order_id \in DOMAIN states
             /\ head.order_id \in DOMAIN states =>
                  \/ head.view = View(states[head.order_id])
                  \/ \E k \in DOMAIN new : k # 1 /\ new[k].order_id = head.order_id
  BY <1>1, <1>2, <1>7 DEF ReportsFit
<1> QED BY <1>1, <1>4, <1>5, <1>6, <1>7 DEF ReportsFit

\* The report on a fill gets the ClOrdID of its order.
LEMMA NameKeepsFit ==
  ASSUME NEW S, NEW rs, NEW js \in Seq(S), js # <<>>, NEW states,
         ReportsFit(rs, js, states, FALSE),
         NEW head, NEW new, new = WithHead(js, head), head.order_id = js[1].order_id,
         head.exec_type = js[1].exec_type
  PROVE  ReportsFit(rs, new, states, FALSE)
<1>1. PICK before, after : before = FALSE /\ after = FALSE
  OBVIOUS
<1>2. ReportsFit(rs, new, states, after)
  BY <1>1, HeadKeepsFit
<1> QED BY <1>1, <1>2

\* The report on a fill gets the state of its order as it is now.
LEMMA ReadKeepsFit ==
  ASSUME NEW S, NEW rs, NEW js \in Seq(S), js # <<>>, NEW states,
         ReportsFit(rs, js, states, FALSE),
         NEW head, NEW new, new = WithHead(js, head), head.order_id = js[1].order_id,
         js[1].exec_type \notin Acks, head.order_id \in DOMAIN states,
         head.view = View(states[head.order_id])
  PROVE  ReportsFit(rs, new, states, TRUE)
<1>1. PICK before, after : before = FALSE /\ after = TRUE
  OBVIOUS
<1>2. ReportsFit(rs, new, states, after)
  BY <1>1, HeadKeepsFit
<1> QED BY <1>1, <1>2

\* The report a handler is busy with is sent.
LEMMA SentKeepsFit ==
  ASSUME NEW R, NEW rs \in Seq(R), NEW S, NEW js \in Seq(S), js # <<>>, js[1] \in R,
         NEW states, ReportsFit(rs, js, states, TRUE),
         NEW all, all = Append(rs, js[1]), NEW rest, rest = Tail(js)
  PROVE  ReportsFit(all, rest, states, FALSE)
<1>1. PICK N \in Nat : N = Len(rs)
  OBVIOUS
<1>2. PICK r : r = js[1]
  OBVIOUS
<1>3. /\ DOMAIN rs = 1..N /\ DOMAIN all = 1..(N + 1) /\ all[N + 1] = r
      /\ \A i \in 1..N : all[i] = rs[i]
  BY <1>1, <1>2
<1>4. \A i \in DOMAIN all : i = N + 1 \/ (i \in 1..N /\ i \in DOMAIN rs /\ all[i] = rs[i])
  BY <1>1, <1>3
<1>5. \A id : Mentions(all, id) <=> Mentions(rs, id) \/ r.order_id = id
  BY <1>1, <1>3, <1>4 DEF Mentions
<1>6. \A k \in DOMAIN js : k # 1 => k - 1 \in DOMAIN rest /\ rest[k - 1] = js[k]
  OBVIOUS
<1>7. \A i \in DOMAIN all : FirstOn(all, i) => all[i].exec_type \in Acks
  <2> SUFFICES ASSUME NEW i \in DOMAIN all, FirstOn(all, i) PROVE all[i].exec_type \in Acks
    OBVIOUS
  <2>1. CASE i \in 1..N
    <3>1. FirstOn(rs, i)
      BY <1>1, <1>3, <2>1 DEF FirstOn
    <3> QED BY <1>3, <2>1, <3>1 DEF ReportsFit
  <2>2. CASE i = N + 1
    <3>1. \A j \in 1..N : rs[j].order_id # r.order_id
      BY <1>1, <1>3, <2>2 DEF FirstOn
    <3>2. ~Mentions(rs, r.order_id)
      BY <1>3, <3>1 DEF Mentions
    <3> QED BY <1>2, <1>3, <2>2, <3>2 DEF ReportsFit
  <2> QED BY <1>4, <2>1, <2>2
<1>8. ASSUME NEW i \in DOMAIN all, LastOn(all, i), all[i].order_id \in DOMAIN states
      PROVE  Mentions(rest, all[i].order_id)
               \/ all[i].view = View(states[all[i].order_id])
  <2>1. CASE i \in 1..N
    <3>1. all[i] = rs[i] /\ LastOn(rs, i)
      BY <1>1, <1>3, <1>8, <2>1 DEF LastOn
    <3>2. all[i].order_id # r.order_id
      <4>1. N + 1 \in DOMAIN all /\ ~(N + 1 <= i)
        BY <1>1, <1>3, <2>1
      <4> QED BY <1>3, <1>8, <4>1 DEF LastOn
    <3>3. CASE Mentions(js, rs[i].order_id)
      <4>1. PICK k \in DOMAIN js : js[k].order_id = rs[i].order_id
        BY <3>3 DEF Mentions
      <4>2. k # 1
        BY <1>2, <3>1, <3>2, <4>1
      <4> QED BY <1>6, <3>1, <4>1, <4>2 DEF Mentions
    <3>4. CASE ~Mentions(js, rs[i].order_id)
      BY <1>3, <1>8, <2>1, <3>1, <3>4 DEF ReportsFit
    <3> QED BY <3>3, <3>4
  <2>2. CASE i = N + 1
    <3>1. all[i] = r
      BY <1>3, <2>2
    <3>2. CASE \E k \in DOMAIN js : k # 1 /\ js[k].order_id = r.order_id
      BY <1>6, <3>1, <3>2 DEF Mentions
    <3>3. CASE r.view = View(states[r.order_id])
      BY <3>1, <3>3
    <3> QED BY <1>2, <1>8, <3>1, <3>2, <3>3 DEF ReportsFit
  <2> QED BY <1>4, <2>1, <2>2
<1>9. \A id \in DOMAIN states : Mentions(all, id)
  BY <1>2, <1>5 DEF ReportsFit
<1> QED BY <1>7, <1>8, <1>9 DEF ReportsFit

\* A call on order `id` has been made; it is answered, and the fills follow.
LEMMA CallKeepsFit ==
  ASSUME NEW rs, NEW before, ReportsFit(rs, <<>>, before, FALSE),
         NEW now, NEW id, DOMAIN now = DOMAIN before \cup {id},
         NEW ids, NEW trades \in Seq(FillsFrom(ids)),
         \A x \in DOMAIN before \ Touched(id, trades) : now[x] = before[x],
         NEW answer, answer.order_id = id, answer.view = View(now[id]),
         answer.exec_type \in Acks \/ id \in DOMAIN before,
         NEW cl, NEW js, js = <<answer>> \o FillsOf(id, cl, trades)
  PROVE  ReportsFit(rs, js, now, TRUE)
<1>1. PICK fills : fills = FillsOf(id, cl, trades)
  OBVIOUS
<1>2. PICK N \in Nat : N = Len(trades)
  OBVIOUS
<1>3. /\ DOMAIN fills = 1..(2 * N)
      /\ \A n \in 1..N : 2 * n \in 1..(2 * N) /\ fills[2 * n].order_id = trades[n].order_id
  <2>1. fills = [n \in 1..(2 * N) |->
                   IF n % 2 = 1 THEN FillOf(id, cl, trades[(n + 1) \div 2])
                   ELSE FillOf(trades[(n + 1) \div 2].order_id, NoName,
                               trades[(n + 1) \div 2])]
    BY <1>1, <1>2 DEF FillsOf
  <2>2. ASSUME NEW n \in 1..N
        PROVE  2 * n \in 1..(2 * N) /\ (2 * n) % 2 # 1 /\ (2 * n + 1) \div 2 = n
    <3>1. (2 * n) % 2 # 1
      OBVIOUS
    <3>2. (2 * n + 1) \div 2 = n
      OBVIOUS
    <3> QED BY <1>2, <3>1, <3>2
  <2>3. \A n \in 1..N : fills[2 * n] = FillOf(trades[n].order_id, NoName, trades[n])
    BY <2>1, <2>2
  <2> QED BY <1>2, <2>1, <2>2, <2>3 DEF FillOf
<1>4. /\ js # <<>> /\ 1 \in DOMAIN js /\ js[1] = answer
      /\ \A n \in 1..(2 * N) : n + 1 \in DOMAIN js /\ js[n + 1] = fills[n]
  <2>1. PICK T : T = {fills[n] : n \in 1..(2 * N)} \cup {answer}
    OBVIOUS
  <2>2. fills \in Seq(T) /\ Len(fills) = 2 * N
    <3>1. fills \in [1..(2 * N) -> T] /\ 2 * N \in Nat
      <4>1. fills = [n \in 1..(2 * N) |-> fills[n]]
        BY <1>1, <1>2 DEF FillsOf
      <4> QED BY <1>2, <2>1, <4>1
    <3>2. PICK M \in Nat : M = 2 * N
      BY <3>1
    <3>3. fills \in [1..M -> T]
      BY <3>1, <3>2
    <3>4. fills \in Seq(T)
      BY <3>3, SeqDef
    <3>5. Len(fills) = M
      BY <3>3, <3>4
    <3> QED BY <3>2, <3>4, <3>5
  <2>3. <<answer>> \in Seq(T)
    BY <2>1
  <2> QED BY <1>1, <1>2, <2>2, <2>3
<1>5. \A x \in Touched(id, trades) : Mentions(js, x)
  <2>1. Mentions(js, id)
    BY <1>4 DEF Mentions
  <2>2. ASSUME NEW n \in DOMAIN trades PROVE Mentions(js, trades[n].order_id)
    <3>1. n \in 1..N
      BY <1>2
    <3>2. 2 * n + 1 \in DOMAIN js /\ js[2 * n + 1].order_id = trades[n].order_id
      BY <1>3, <1>4, <3>1
    <3> QED BY <3>2 DEF Mentions
  <2> QED BY <2>1, <2>2 DEF Touched
<1>6. \A i \in DOMAIN rs : FirstOn(rs, i) => rs[i].exec_type \in Acks
  BY DEF ReportsFit
<1>7. ASSUME NEW i \in DOMAIN rs, LastOn(rs, i), rs[i].order_id \in DOMAIN now
      PROVE  Mentions(js, rs[i].order_id) \/ rs[i].view = View(now[rs[i].order_id])
  <2>1. CASE rs[i].order_id \in Touched(id, trades)
    BY <1>5, <2>1
  <2>2. CASE rs[i].order_id \notin Touched(id, trades)
    <3>1. rs[i].order_id \in DOMAIN before
      BY <1>7, <2>2 DEF Touched
    <3>2. ~Mentions(<<>>, rs[i].order_id)
      BY DEF Mentions
    <3>3. rs[i].view = View(before[rs[i].order_id])
      BY <1>7, <3>1, <3>2 DEF ReportsFit
    <3> QED BY <2>2, <3>1, <3>3
  <2> QED BY <2>1, <2>2
<1>8. \A x \in DOMAIN now :
        Mentions(rs, x) \/ (js[1].order_id = x /\ js[1].exec_type \in Acks)
  <2> SUFFICES ASSUME NEW x \in DOMAIN now
               PROVE  Mentions(rs, x) \/ (js[1].order_id = x /\ js[1].exec_type \in Acks)
    OBVIOUS
  <2>1. x \in DOMAIN before => Mentions(rs, x)
    BY DEF ReportsFit
  <2> QED BY <1>4, <2>1
<1> QED BY <1>4, <1>6, <1>7, <1>8 DEF ReportsFit

\* An order that the OMS does not get is answered.
LEMMA RefusalKeepsFit ==
  ASSUME NEW rs, NEW states, ReportsFit(rs, <<>>, states, FALSE),
         NEW r, r.exec_type \in Acks, r.order_id \notin DOMAIN states,
         NEW js, js = <<r>>
  PROVE  ReportsFit(rs, js, states, TRUE)
<1>1. js # <<>> /\ js[1] = r
  OBVIOUS
<1>2. \A x : ~Mentions(<<>>, x)
  BY DEF Mentions
<1> QED BY <1>1, <1>2 DEF ReportsFit

\* What ReportsInv says before a step, and what must be shown after it.
LEMMA FitBefore ==
  ASSUME GatewayInv, ReportsInv, NEW t \in Threads
  PROVE  /\ Drafted(t) => ReportsFit(sent, jobs[t], ex.order_states, TRUE)
         /\ ~Drafted(t) => ReportsFit(sent, jobs[t], ex.order_states, FALSE)
         /\ jobs[t] \in Seq(FillJobsOn(DOMAIN ex.order_states) \cup Drafts \cup Reports)
         /\ pc[t] \in {"idle", "submit", "amend"} => jobs[t] = <<>>
<1>1. ReportsFit(sent, jobs[t], ex.order_states, Drafted(t))
  BY DEF ReportsInv
<1>2. JobsFit(DOMAIN ex.order_states, pc[t], jobs[t])
  BY HandlerIs
<1> QED BY <1>1, <1>2 DEF ReportsFit, JobsFit

\* The same after a step.
LEMMA FitAfter ==
  ASSUME OneThread, NEW t \in Threads, NEW rs, NEW js, NEW states,
         sent' = rs, jobs'[t] = js, ex'.order_states = states,
         \/ Drafted(t)' /\ ReportsFit(rs, js, states, TRUE)
         \/ ~Drafted(t)' /\ ReportsFit(rs, js, states, FALSE)
  PROVE  ReportsInv'
<1>1. ReportsFit(sent, jobs[t], ex.order_states, Drafted(t))'
  BY DEF ReportsFit
<1>2. \A u \in Threads : u = t
  BY DEF OneThread
<1> QED BY <1>1, <1>2 DEF ReportsInv

\* The handler goes on and nothing is reported.
LEMMA FitStays ==
  ASSUME GatewayInv, ReportsInv, OneThread, NEW t \in Threads,
         sent' = sent, jobs'[t] = jobs[t], ex' = ex,
         \/ Drafted(t) /\ Drafted(t)'
         \/ ~Drafted(t) /\ ~Drafted(t)'
  PROVE  ReportsInv'
<1>1. PICK rs, js, states : rs = sent /\ js = jobs[t] /\ states = ex.order_states
  OBVIOUS
<1>2. \/ Drafted(t)' /\ ReportsFit(rs, js, states, TRUE)
      \/ ~Drafted(t)' /\ ReportsFit(rs, js, states, FALSE)
  BY <1>1, FitBefore
<1>3. sent' = rs /\ jobs'[t] = js /\ ex'.order_states = states
  BY <1>1
<1> QED BY <1>2, <1>3, FitAfter

\* A message is received.
LEMMA FitReceive ==
  ASSUME GatewayInv, ReportsInv, OneThread, NEW t \in Threads, Receive(t)
  PROVE  ReportsInv'
<1>1. PICK session \in Sessions, cl \in ClOrdIds :
        \/ ReceiveOrder(t, session, cl) \/ ReceiveUnsupported(t, session, cl)
        \/ ReceiveCancel(t, session, cl) \/ ReceiveReplace(t, session, cl)
  BY DEF Receive
<1>2. DOMAIN pc = Threads /\ DOMAIN jobs = Threads
      /\ DOMAIN ex.order_states \subseteq GivenIds /\ next_order_id \in OrderId
  BY HandlerIs DEF TypeOK
<1>3. CASE ReceiveUnsupported(t, session, cl)
  <2>1. PICK order \in NewOrders :
          /\ Arrives(t, session, cl, "Market", order) /\ Goto(t, "stamp")
          /\ jobs' = [jobs EXCEPT ![t] =
               <<Ack(cl, next_order_id, NewOrderState(order, "Rejected"))>>]
    BY <1>3 DEF ReceiveUnsupported
  <2>2. PICK st, r : /\ st = NewOrderState(order, "Rejected")
                     /\ r = Ack(cl, next_order_id, st)
    OBVIOUS
  <2>3. st.order_status = "Rejected"
    BY <2>2 DEF NewOrderState
  <2>4. r.exec_type \in Acks /\ r.order_id = next_order_id
    BY <2>2, <2>3 DEF Ack, Answer, ExecutionReport, Acks
  <2>5. r.order_id \notin DOMAIN ex.order_states
    BY <1>2, <2>4 DEF GivenIds, OrderId
  <2>6. PICK rs, js, states : rs = sent /\ js = <<r>> /\ states = ex.order_states
    OBVIOUS
  <2>7. /\ pc[t] = "idle" /\ sent' = rs /\ jobs'[t] = js /\ ex'.order_states = states
        /\ Drafted(t)'
    BY <1>2, <2>1, <2>2, <2>6 DEF Arrives, Takes, Goto, Drafted
  <2>8. ReportsFit(rs, <<>>, states, FALSE)
    BY <2>6, <2>7, FitBefore DEF Drafted
  <2>9. ReportsFit(rs, js, states, TRUE)
    BY <2>4, <2>5, <2>6, <2>8, RefusalKeepsFit
  <2> QED BY <2>7, <2>9, FitAfter
<1>4. CASE ~ReceiveUnsupported(t, session, cl)
  <2>1. pc[t] = "idle" /\ sent' = sent /\ ex' = ex /\ jobs' = jobs
        /\ pc'[t] \in {"idle", "submit", "amend"}
    <3>1. CASE ReceiveOrder(t, session, cl)
      BY <1>2, <3>1 DEF ReceiveOrder, Arrives, Takes, Goto
    <3>2. ASSUME NEW m, ReceiveAmend(t, m)
          PROVE  /\ pc[t] = "idle" /\ sent' = sent /\ ex' = ex /\ jobs' = jobs
                 /\ pc'[t] \in {"idle", "submit", "amend"}
      BY <1>2, <3>2 DEF ReceiveAmend, AmendFound, AmendUnknown, Takes, Goto
    <3> QED BY <1>1, <1>4, <3>1, <3>2 DEF ReceiveCancel, ReceiveReplace
  <2> QED BY <2>1, FitStays DEF Drafted
<1> QED BY <1>3, <1>4

\* A report is looked up, read or stamped.
LEMMA FitHead ==
  ASSUME GatewayInv, ReportsInv, OneThread, NEW t \in Threads,
         Lookup(t) \/ ReadState(t) \/ Stamp(t)
  PROVE  ReportsInv'
<1>1. PICK ids, js, states, rs, S :
        /\ ids = DOMAIN ex.order_states /\ js = jobs[t] /\ states = ex.order_states
        /\ rs = sent /\ S = FillJobsOn(ids) \cup Drafts \cup Reports
  OBVIOUS
<1>2. /\ JobsFit(ids, pc[t], js) /\ DOMAIN jobs = Threads /\ DOMAIN pc = Threads
      /\ ids \subseteq GivenIds /\ orderid_to_clordid_map \in [GivenIds -> ClOrdIds]
      /\ js \in Seq(S)
  BY <1>1, HandlerIs, FitBefore DEF TypeOK
<1>3. js # <<>> /\ sent' = rs /\ ex'.order_states = states
  BY <1>1, <1>2 DEF JobsFit, Lookup, ReadState, Stamp
<1>4. CASE Lookup(t)
  <2>1. pc[t] = "lookup" /\ js[1] \in FillJobsOn(ids)
    BY <1>2, <1>4 DEF Lookup, JobsFit
  <2>2. js[1].order_id \in DOMAIN orderid_to_clordid_map
    BY <1>2, <2>1 DEF FillJobsOn
  <2>3. PICK cl, head, new : /\ cl = orderid_to_clordid_map[js[1].order_id]
                             /\ head = [js[1] EXCEPT !.cl = cl] /\ new = WithHead(js, head)
    OBVIOUS
  <2>4. head.order_id = js[1].order_id /\ head.exec_type = js[1].exec_type
    BY <2>1, <2>3 DEF FillJobsOn
  <2>5. jobs' = [jobs EXCEPT ![t] = new] /\ pc' = [pc EXCEPT ![t] = "read"]
    <3>1. jobs' = [jobs EXCEPT ![t][1].cl = cl] /\ pc' = [pc EXCEPT ![t] = "read"]
      BY <1>1, <1>4, <2>2, <2>3, Zenon DEF Lookup, Goto
    <3>2. jobs' = [jobs EXCEPT ![t] = [js EXCEPT ![1] = head]]
      BY <1>1, <2>3, <3>1, Zenon
    <3> QED BY <2>3, <3>1, <3>2, Zenon DEF WithHead
  <2>6. jobs'[t] = new /\ ~Drafted(t)' /\ ~Drafted(t)
    BY <1>2, <2>1, <2>5 DEF Drafted
  <2>7. ReportsFit(rs, js, states, FALSE)
    BY <1>1, <2>6, FitBefore
  <2>8. ReportsFit(rs, new, states, FALSE)
    BY <1>2, <1>3, <2>3, <2>4, <2>7, NameKeepsFit
  <2> QED BY <1>3, <2>6, <2>8, FitAfter
<1>5. CASE ReadState(t)
  <2>1. pc[t] = "read" /\ js[1] \in FillJobsOn(ids)
    BY <1>2, <1>5 DEF ReadState, JobsFit
  <2>2. PICK r, st, head, new :
          /\ r = js[1] /\ st = states[r.order_id]
          /\ head = FillReport(r.cl, r.order_id, r.shares, r.px, st)
          /\ new = WithHead(js, head)
    OBVIOUS
  <2>3. /\ head.order_id = js[1].order_id /\ head.view = View(st)
        /\ js[1].exec_type \notin Acks /\ head.order_id \in DOMAIN states
    BY <1>1, <2>1, <2>2 DEF FillReport, ExecutionReport, FillJobsOn, Acks
  <2>4. jobs' = [jobs EXCEPT ![t] = new] /\ pc' = [pc EXCEPT ![t] = "stamp"]
    BY <1>1, <1>5, <2>2 DEF ReadState, StateToReport, Goto, WithHead
  <2>5. jobs'[t] = new /\ Drafted(t)' /\ ~Drafted(t)
    BY <1>2, <2>1, <2>4 DEF Drafted
  <2>6. ReportsFit(rs, js, states, FALSE)
    BY <1>1, <2>5, FitBefore
  <2>7. head.order_id \in DOMAIN states /\ head.view = View(states[head.order_id])
    BY <2>2, <2>3
  <2>8. ReportsFit(rs, new, states, TRUE)
    BY <1>2, <1>3, <2>2, <2>3, <2>6, <2>7, ReadKeepsFit
  <2> QED BY <1>3, <2>5, <2>8, FitAfter
<1>6. CASE Stamp(t)
  <2>1. pc[t] = "stamp"
    BY <1>6 DEF Stamp
  <2>2. PICK targets, head, new :
          /\ targets = IF active_sessions = {} THEN {Fallback(t)} ELSE active_sessions
          /\ head = Stamped(js[1], next_exec_id, targets) /\ new = WithHead(js, head)
    OBVIOUS
  <2>3. /\ head.order_id = js[1].order_id /\ head.exec_type = js[1].exec_type
        /\ head.view = js[1].view
    BY <2>2 DEF Stamped
  <2>4. jobs' = [jobs EXCEPT ![t] = new] /\ pc' = [pc EXCEPT ![t] = "send"]
    <3>1. jobs' = [jobs EXCEPT ![t][1] = Stamped(@, next_exec_id, targets)]
      BY <1>6, <2>2, Zenon DEF Stamp
    <3>2. jobs' = [jobs EXCEPT ![t] = [js EXCEPT ![1] = head]]
      BY <1>1, <2>2, <3>1, Zenon
    <3>3. jobs' = [jobs EXCEPT ![t] = new]
      BY <2>2, <3>2, Zenon DEF WithHead
    <3> QED BY <1>6, <3>3 DEF Stamp, Goto
  <2>5. jobs'[t] = new /\ Drafted(t)' /\ Drafted(t)
    BY <1>2, <2>1, <2>4 DEF Drafted
  <2>6. ReportsFit(rs, js, states, TRUE)
    BY <1>1, <2>5, FitBefore
  <2>7. ReportsFit(rs, new, states, TRUE)
    BY <1>2, <1>3, <2>2, <2>3, <2>6, HeadKeepsFit
  <2> QED BY <1>3, <2>5, <2>7, FitAfter
<1> QED BY <1>4, <1>5, <1>6

\* A report is sent.
LEMMA FitSend ==
  ASSUME GatewayInv, ReportsInv, OneThread, NEW t \in Threads, Send(t)
  PROVE  ReportsInv'
<1>1. PICK ids, js, states, rs, S :
        /\ ids = DOMAIN ex.order_states /\ js = jobs[t] /\ states = ex.order_states
        /\ rs = sent /\ S = FillJobsOn(ids) \cup Drafts \cup Reports
  OBVIOUS
<1>2. /\ pc[t] = "send" /\ JobsFit(ids, "send", js) /\ js \in Seq(S)
      /\ DOMAIN jobs = Threads /\ DOMAIN pc = Threads /\ rs \in Seq(Reports)
  BY <1>1, HandlerIs, FitBefore DEF TypeOK, Send
<1>3. js # <<>> /\ js[1] \in Reports
  BY <1>2 DEF JobsFit
<1>4. PICK all, rest : all = Append(rs, js[1]) /\ rest = Tail(js)
  OBVIOUS
<1>5. PICK where : where = IF rest = <<>> THEN "idle" ELSE StageOf(rest)
  OBVIOUS
<1>6. where \in {"idle", "read", "lookup"}
  BY <1>2, <1>3, <1>4, <1>5, RestFits
<1>7. /\ sent' = all /\ pc' = [pc EXCEPT ![t] = where] /\ ex' = ex
      /\ jobs' = [jobs EXCEPT ![t] = rest]
  <2>1. CASE rest = <<>>
    BY <1>1, <1>4, <1>5, <2>1 DEF Send, Remaining, Finish, Goto
  <2>2. CASE rest # <<>>
    BY <1>1, <1>4, <1>5, <2>2 DEF Send, Remaining, Goto
  <2> QED BY <2>1, <2>2
<1>8. ReportsFit(rs, js, states, TRUE)
  BY <1>1, <1>2, FitBefore DEF Drafted
<1>9. ReportsFit(all, rest, states, FALSE)
  BY <1>2, <1>3, <1>4, <1>8, SentKeepsFit
<1>10. /\ jobs'[t] = rest /\ ex'.order_states = states /\ ~Drafted(t)'
  BY <1>1, <1>2, <1>6, <1>7 DEF Drafted
<1> QED BY <1>7, <1>9, <1>10, FitAfter

\* A call on order `id` has made `now` of the order states, and gives these
\* trades: `js` reports them.
CallReported(old, now, id, cl, trades, answer, js) ==
  /\ DOMAIN now = DOMAIN old \cup {id}
  /\ trades \in Seq(FillsFrom(DOMAIN old))
  /\ \A x \in DOMAIN old \ Touched(id, trades) : now[x] = old[x]
  /\ answer.order_id = id /\ answer.view = View(now[id])
  /\ answer.exec_type \in Acks \/ id \in DOMAIN old
  /\ js = <<answer>> \o FillsOf(id, cl, trades)

\* A call into the exchange, for the order of the handler's message.
LEMMA FitCall ==
  ASSUME GatewayInv, ReportsInv, OneThread, NEW t \in Threads, pc[t] \in {"submit", "amend"},
         NEW old, old = ex.order_states, NEW now, ex'.order_states = now,
         NEW id, NEW cl, NEW trades, NEW answer, NEW js,
         CallReported(old, now, id, cl, trades, answer, js),
         jobs' = [jobs EXCEPT ![t] = js], sent' = sent,
         NEW where \in {"remap", "stamp"}, pc' = [pc EXCEPT ![t] = where]
  PROVE  ReportsInv'
<1>1. PICK rs : rs = sent
  OBVIOUS
<1>2. DOMAIN jobs = Threads /\ DOMAIN pc = Threads /\ jobs[t] = <<>> /\ ~Drafted(t)
  BY HandlerIs, FitBefore DEF Drafted
<1>3. ReportsFit(rs, <<>>, old, FALSE)
  BY <1>1, <1>2, FitBefore
<1>4. ReportsFit(rs, js, now, TRUE)
  <2>1. PICK ids : ids = DOMAIN old
    OBVIOUS
  <2>2. trades \in Seq(FillsFrom(ids))
    BY <2>1 DEF CallReported
  <2> QED BY <1>3, <2>2, CallKeepsFit DEF CallReported
<1>5. sent' = rs /\ jobs'[t] = js /\ Drafted(t)'
  BY <1>1, <1>2 DEF Drafted
<1> QED BY <1>4, <1>5, FitAfter

\* An order is submitted: its ack is the first report on it.
LEMMA FitSubmit ==
  ASSUME GatewayInv, ReportsInv, OneThread, NEW t \in Threads, Submit(t)
  PROVE  ReportsInv'
<1>1. PICK all, order, id, cl : all = ex /\ order = msg[t].order /\ id = msg[t].order_id
                                /\ cl = msg[t].cl
  OBVIOUS
<1>2. PICK call : /\ call = submit_order(all, risk_ctx, order) /\ ex' = call.ex
                  /\ jobs' = [jobs EXCEPT ![t] = SubmitReports(t, call)]
  BY <1>1 DEF Submit
<1>3. /\ IsExchange(all, Registered) /\ IsOrder(order) /\ order.order_id = id
      /\ id \notin DOMAIN all.order_states /\ pc[t] = "submit"
  BY <1>1, HandlerIs DEF MessageOK, TypeOK, Submit
<1>4. CallKeeps(Registered, all, call, id, {id})
  BY <1>2, <1>3, SubmitOK
<1>5. PICK old, now, trades : old = all.order_states /\ now = call.ex.order_states
                              /\ trades = call.trades
  OBVIOUS
<1>6. PICK answer, js : /\ answer = Ack(cl, id, now[id])
                        /\ js = <<answer>> \o FillsOf(id, cl, trades)
  OBVIOUS
<1>7. /\ answer.order_id = id /\ answer.view = View(now[id]) /\ answer.exec_type \in Acks
  BY <1>6 DEF Ack, Answer, ExecutionReport, Acks
<1>8. CallReported(old, now, id, cl, trades, answer, js)
  BY <1>4, <1>5, <1>6, <1>7 DEF CallKeeps, CallReported
<1>9. jobs' = [jobs EXCEPT ![t] = js] /\ sent' = sent /\ pc' = [pc EXCEPT ![t] = "stamp"]
  BY <1>1, <1>2, <1>5, <1>6 DEF SubmitReports, Submit, Goto
<1>10. old = ex.order_states /\ ex'.order_states = now /\ pc[t] \in {"submit", "amend"}
  BY <1>1, <1>2, <1>3, <1>5
<1> QED BY <1>8, <1>9, <1>10, FitCall

\* An order is cancelled: no other order changes.
LEMMA FitCancel ==
  ASSUME GatewayInv, ReportsInv, OneThread, NEW t \in Threads, Cancel(t)
  PROVE  ReportsInv'
<1>1. PICK all, id, cl : all = ex /\ id = msg[t].order_id /\ cl = msg[t].cl
  OBVIOUS
<1>2. PICK after : after = cancel_order(all, id)
  OBVIOUS
<1>3. PICK old, now, answer, trades :
        /\ old = all.order_states /\ now = after.order_states
        /\ answer = Answer(cl, id, "Cancelled", now[id]) /\ trades = <<>>
  OBVIOUS
<1>4. /\ ex' = after /\ pc[t] = "amend" /\ id \in DOMAIN old
      /\ jobs' = [jobs EXCEPT ![t] = <<answer>>] /\ sent' = sent
      /\ pc' = [pc EXCEPT ![t] = "remap"]
  BY <1>1, <1>2, <1>3 DEF Cancel, Amendable, Goto
<1>5. IsExchange(all, Registered)
  BY <1>1, HandlerIs DEF TypeOK
<1>6. DOMAIN now = DOMAIN old /\ \A x \in DOMAIN old \ {id} : now[x] = old[x]
  BY <1>2, <1>3, <1>5, CancelOK
<1>7. PICK js : js = <<answer>> \o FillsOf(id, cl, trades)
  OBVIOUS
<1>8. js = <<answer>>
  <2>1. FillsOf(id, cl, trades) = <<>>
    BY <1>3 DEF FillsOf
  <2> QED BY <1>7, <2>1
<1>9. CallReported(old, now, id, cl, trades, answer, js)
  <2>1. answer.order_id = id /\ answer.view = View(now[id])
    BY <1>3 DEF Answer, ExecutionReport
  <2> QED BY <1>3, <1>4, <1>6, <1>7, <2>1 DEF CallReported, Touched
<1>10. /\ jobs' = [jobs EXCEPT ![t] = js] /\ old = ex.order_states /\ ex'.order_states = now
       /\ pc[t] \in {"submit", "amend"}
  BY <1>1, <1>3, <1>4, <1>8
<1> QED BY <1>4, <1>9, <1>10, FitCall

\* An order is replaced, and may trade at once.
LEMMA FitReplace ==
  ASSUME GatewayInv, ReportsInv, OneThread, NEW t \in Threads, Replace(t)
  PROVE  ReportsInv'
<1>1. PICK all, m, id, cl : all = ex /\ m = msg[t] /\ id = m.order_id /\ cl = m.cl
  OBVIOUS
<1>2. PICK call : /\ call = modify_order(all, risk_ctx, id, m.price, m.quantity)
                  /\ ex' = call.ex
                  /\ jobs' = [jobs EXCEPT ![t] =
                       <<Answer(cl, id, "Replace", call.ex.order_states[id])>>
                         \o FillsOf(id, cl, call.trades)]
  BY <1>1 DEF Replace
<1>3. /\ pc[t] = "amend" /\ id \in DOMAIN all.order_states /\ m.kind = "G"
      /\ sent' = sent /\ pc' = [pc EXCEPT ![t] = "remap"]
  BY <1>1 DEF Replace, Amendable, Goto
<1>4. IsExchange(all, Registered) /\ m.price \in Prices /\ m.quantity \in Int
  BY <1>1, <1>3, HandlerIs DEF MessageOK, TypeOK
<1>5. CallKeeps(Registered, all, call, id, {})
  <2>1. PICK price \in Prices, quantity \in Int : price = m.price /\ quantity = m.quantity
    BY <1>4
  <2> QED BY <1>2, <1>4, <2>1, ModifyOK
<1>6. PICK old, now, trades : old = all.order_states /\ now = call.ex.order_states
                              /\ trades = call.trades
  OBVIOUS
<1>7. PICK answer, js : /\ answer = Answer(cl, id, "Replace", now[id])
                        /\ js = <<answer>> \o FillsOf(id, cl, trades)
  OBVIOUS
<1>8. answer.order_id = id /\ answer.view = View(now[id])
  BY <1>7 DEF Answer, ExecutionReport
<1>9. CallReported(old, now, id, cl, trades, answer, js)
  BY <1>3, <1>5, <1>6, <1>7, <1>8 DEF CallKeeps, CallReported
<1>10. /\ jobs' = [jobs EXCEPT ![t] = js] /\ old = ex.order_states
       /\ ex'.order_states = now /\ pc[t] \in {"submit", "amend"}
  BY <1>1, <1>2, <1>3, <1>6, <1>7
<1> QED BY <1>3, <1>9, <1>10, FitCall

\* Every step keeps what was reported and what is still to come together.
LEMMA ReportsStep ==
  ASSUME GatewayInv, ReportsInv, OneThread, [Next]_vars
  PROVE  ReportsInv'
<1>1. ASSUME NEW t \in Threads, AmendThrows(t) \/ AmendRefused(t) \/ Remap(t)
      PROVE  ReportsInv'
  <2>1. DOMAIN pc = Threads /\ DOMAIN jobs = Threads /\ ex' = ex /\ sent' = sent
    BY <1>1, HandlerIs DEF AmendThrows, AmendRefused, Remap
  <2>2. CASE Remap(t)
    <3>1. jobs' = jobs /\ Drafted(t) /\ Drafted(t)'
      BY <2>1, <2>2 DEF Remap, Goto, Drafted
    <3> QED BY <2>1, <3>1, FitStays
  <2>3. CASE AmendThrows(t)
    <3>1. jobs' = jobs /\ ~Drafted(t) /\ ~Drafted(t)'
      BY <2>1, <2>3 DEF AmendThrows, Goto, Drafted
    <3> QED BY <2>1, <3>1, FitStays
  <2>4. CASE AmendRefused(t)
    <3>1. pc[t] = "amend" /\ jobs'[t] = <<>> /\ pc'[t] = "idle"
      BY <2>1, <2>4 DEF AmendRefused, Amendable, Finish, Goto
    <3>2. jobs'[t] = jobs[t] /\ ~Drafted(t) /\ ~Drafted(t)'
      BY <3>1, FitBefore DEF Drafted
    <3> QED BY <2>1, <3>2, FitStays
  <2> QED BY <1>1, <2>2, <2>3, <2>4
<1>2. ASSUME NEW t \in Threads, Receive(t) \/ Handle(t)
      PROVE  ReportsInv'
  BY <1>1, <1>2, FitReceive, FitSubmit, FitCancel, FitReplace, FitHead, FitSend DEF Handle
<1>3. CASE UNCHANGED <<ex, pc, jobs, sent>>
  BY <1>3 DEF ReportsInv, Drafted
<1>4. CASE \E session \in Sessions : onLogon(session) \/ onLogout(session)
  BY <1>3, <1>4 DEF onLogon, onLogout
<1>5. CASE UNCHANGED vars
  BY <1>3, <1>5 DEF vars
<1> QED BY <1>2, <1>4, <1>5 DEF Next

\* Nothing has been reported, and there is nothing to report.
LEMMA ReportsInit == Init => ReportsInv
<1> SUFFICES ASSUME Init PROVE ReportsInv
  OBVIOUS
<1>1. sent = <<>> /\ DOMAIN ex.order_states = {} /\ \A t \in Threads : ~Drafted(t)
  BY DEF Init, EmptyExchange, Drafted
<1>2. DOMAIN sent = {}
  BY <1>1
<1> QED BY <1>1, <1>2 DEF ReportsInv, ReportsFit, Mentions

\* On one thread the reports sent and those still to come fit together: nothing
\* is reported of an order before its ack, and the last word on it is right.
THEOREM ReportsInvAlways == ASSUME OneThread PROVE Spec => []ReportsInv
<1>1. GatewayInv /\ ReportsInv /\ [Next]_vars => ReportsInv'
  BY ReportsStep
<1> QED BY <1>1, ReportsInit, GatewayInvAlways, PTL DEF Spec

\* A set of places has a first and a last one.
LEMMA FirstAndLast ==
  ASSUME NEW N \in Nat, NEW places \in SUBSET (1..N), places # {}
  PROVE  /\ \E i \in places : \A j \in places : i <= j
         /\ \E i \in places : \A j \in places : j <= i
<1>1. places \in SUBSET Nat
  OBVIOUS
<1>2. PICK back : back = {k \in Nat : N - k \in places}
  OBVIOUS
<1>3. \A i \in places : i \in 1..N /\ N - i \in back
  BY <1>2
<1>4. back \in SUBSET Nat /\ back # {}
  BY <1>2, <1>3
<1>5. PICK k \in back : \A j \in back : k <= j
  BY <1>4, LeastNatural
<1>6. N - k \in places /\ \A j \in places : j <= N - k
  BY <1>2, <1>3, <1>5
<1>7. \E i \in places : \A j \in places : i <= j
  BY <1>1, LeastNatural
<1> QED BY <1>6, <1>7

\* The reports on an order have a first and a last one.
LEMMA ReportsOnOrder ==
  ASSUME GatewayInv, NEW id, ReportsOn(id) # {}
  PROVE  /\ \E i \in ReportsOn(id) : \A j \in ReportsOn(id) : i <= j
         /\ \E i \in ReportsOn(id) : \A j \in ReportsOn(id) : j <= i
<1>1. sent \in Seq(Reports)
  BY DEF GatewayInv, TypeOK
<1>2. PICK N \in Nat : N = Len(sent)
  BY <1>1
<1>3. ReportsOn(id) \in SUBSET (1..N)
  BY <1>1, <1>2 DEF ReportsOn
<1> QED BY <1>3, FirstAndLast

\* No fill or cancel of an order is reported before the ack of its
\* NewOrderSingle: one thread sends the reports of a call in their order before
\* it takes the next message.
THEOREM AckFirstAlways == ASSUME OneThread PROVE Spec => []AckFirst
<1>1. GatewayInv /\ ReportsInv => AckFirst
  <2> SUFFICES ASSUME GatewayInv, ReportsInv, NEW id, ReportsOn(id) # {}
               PROVE  sent[CHOOSE i \in ReportsOn(id) : \A j \in ReportsOn(id) : i <= j].exec_type
                        \in Acks
    BY DEF AckFirst
  <2>1. PICK i : i = CHOOSE k \in ReportsOn(id) : \A j \in ReportsOn(id) : k <= j
    OBVIOUS
  <2>2. i \in ReportsOn(id) /\ \A j \in ReportsOn(id) : i <= j
    BY <2>1, ReportsOnOrder
  <2>3. i \in DOMAIN sent /\ FirstOn(sent, i)
    BY <2>2 DEF ReportsOn, FirstOn
  <2>4. sent[i].exec_type \in Acks
    BY <2>3 DEF ReportsInv, ReportsFit, OneThread
  <2> QED BY <2>1, <2>4
<1> QED BY <1>1, GatewayInvAlways, ReportsInvAlways, PTL

\* When no handler runs, the last report on an order shows the order as it is.
THEOREM LastReportIsCurrentAlways == ASSUME OneThread PROVE Spec => []LastReportIsCurrent
<1>1. GatewayInv /\ ReportsInv => LastReportIsCurrent
  <2> SUFFICES ASSUME GatewayInv, ReportsInv, Quiet, NEW id \in DOMAIN ex.order_states
               PROVE  /\ ReportsOn(id) # {}
                      /\ sent[CHOOSE i \in ReportsOn(id) :
                                \A j \in ReportsOn(id) : j <= i].view
                           = View(ex.order_states[id])
    BY DEF LastReportIsCurrent
  <2>1. PICK t \in Threads : Threads = {t}
    BY DEF OneThread
  <2>2. jobs[t] = <<>> /\ ~Drafted(t)
    BY FitBefore DEF Quiet, Drafted
  <2>3. ReportsFit(sent, <<>>, ex.order_states, FALSE)
    BY <2>2, FitBefore
  <2>4. ReportsOn(id) # {}
    BY <2>3 DEF ReportsFit, Mentions, ReportsOn
  <2>5. PICK i : i = CHOOSE k \in ReportsOn(id) : \A j \in ReportsOn(id) : j <= k
    OBVIOUS
  <2>6. i \in ReportsOn(id) /\ \A j \in ReportsOn(id) : j <= i
    BY <2>4, <2>5, ReportsOnOrder
  <2>7. i \in DOMAIN sent /\ LastOn(sent, i) /\ sent[i].order_id = id
    BY <2>6 DEF ReportsOn, LastOn
  <2>8. sent[i].view = View(ex.order_states[id])
    <3>1. ~Mentions(<<>>, id)
      BY DEF Mentions
    <3> QED BY <2>3, <2>7, <3>1 DEF ReportsFit
  <2> QED BY <2>4, <2>5, <2>8
<1> QED BY <1>1, GatewayInvAlways, ReportsInvAlways, PTL

-----------------------------------------------------------------------------
(* The shares of reports, added up.                                        *)

\* Reports whose shares can be added up.
Counted(rs) ==
  /\ Len(rs) \in Nat /\ DOMAIN rs = 1..Len(rs)
  /\ \A i \in DOMAIN rs : rs[i].shares \in Int

\* So can those of all reports that are sent or due.
LEMMA ReportsAreCounted ==
  ASSUME NEW ids, NEW rs \in Seq(FillJobsOn(ids) \cup Drafts \cup Reports)
  PROVE  Counted(rs)
<1>1. \A r \in FillJobsOn(ids) \cup Drafts \cup Reports : r.shares \in Int
  BY DEF FillJobsOn, Drafts, Reports
<1>2. PICK S : S = FillJobsOn(ids) \cup Drafts \cup Reports
  OBVIOUS
<1>3. \A i \in 1..Len(rs) : rs[i] \in S
  BY <1>2
<1> QED BY <1>1, <1>2, <1>3 DEF Counted

\* The shares on one order, report by report.
LEMMA SharesAre ==
  ASSUME NEW rs, Counted(rs), NEW x
  PROVE  \E q : /\ q = [i \in DOMAIN rs |-> SharesFor(rs[i], x)]
                /\ Numbers(q, Len(rs)) /\ SharesOn(rs, x) = Summed(q, Len(rs))
                /\ SharesOn(rs, x) \in Int
<1>1. PICK q : q = [i \in DOMAIN rs |-> SharesFor(rs[i], x)]
  OBVIOUS
<1>2. PICK n \in Nat : n = Len(rs)
  BY DEF Counted
<1>3. Numbers(q, n)
  BY <1>1, <1>2 DEF Counted, Numbers, SharesFor
<1>4. Summed(q, n) \in Int
  BY <1>3, SummedStep
<1>5. SharesOn(rs, x) = Summed(q, n)
  BY <1>1, <1>2, Zenon DEF SharesOn
<1> QED BY <1>1, <1>2, <1>3, <1>4, <1>5

\* Reports on the same orders with the same shares.
LEMMA SharesSame ==
  ASSUME NEW rs, NEW ss, Counted(rs), Counted(ss), Len(ss) = Len(rs),
         \A i \in DOMAIN rs : ss[i].order_id = rs[i].order_id /\ ss[i].shares = rs[i].shares,
         NEW x
  PROVE  SharesOn(ss, x) = SharesOn(rs, x)
<1>1. PICK q : /\ q = [i \in DOMAIN rs |-> SharesFor(rs[i], x)]
               /\ Numbers(q, Len(rs)) /\ SharesOn(rs, x) = Summed(q, Len(rs))
  BY SharesAre
<1>2. PICK p : /\ p = [i \in DOMAIN ss |-> SharesFor(ss[i], x)]
               /\ Numbers(p, Len(ss)) /\ SharesOn(ss, x) = Summed(p, Len(ss))
  BY SharesAre
<1>3. PICK n \in Nat : n = Len(rs) /\ n = Len(ss) /\ DOMAIN rs = 1..n /\ DOMAIN ss = 1..n
  BY DEF Counted
<1>4. SameUpTo(n, q, p)
  BY <1>1, <1>2, <1>3 DEF SameUpTo, SharesFor
<1>5. Summed(p, n) = Summed(q, n)
  BY <1>1, <1>3, <1>4, SummedSame
<1> QED BY <1>1, <1>2, <1>3, <1>5

\* Some reports, then others.
OneThenOther(rs, ss, all) ==
  /\ Counted(rs) /\ Counted(ss) /\ Counted(all)
  /\ Len(all) = Len(rs) + Len(ss)
  /\ \A i \in DOMAIN rs : all[i] = rs[i]
  /\ \A j \in DOMAIN ss : all[Len(rs) + j] = ss[j]

\* Their shares add up.
LEMMA SharesBoth ==
  ASSUME NEW rs, NEW ss, NEW all, OneThenOther(rs, ss, all), NEW x
  PROVE  SharesOn(all, x) = SharesOn(rs, x) + SharesOn(ss, x)
<1> USE DEF OneThenOther
<1>1. PICK q : /\ q = [i \in DOMAIN rs |-> SharesFor(rs[i], x)]
               /\ Numbers(q, Len(rs)) /\ SharesOn(rs, x) = Summed(q, Len(rs))
  BY SharesAre
<1>2. PICK p : /\ p = [i \in DOMAIN ss |-> SharesFor(ss[i], x)]
               /\ Numbers(p, Len(ss)) /\ SharesOn(ss, x) = Summed(p, Len(ss))
  BY SharesAre
<1>3. PICK r : /\ r = [i \in DOMAIN all |-> SharesFor(all[i], x)]
               /\ Numbers(r, Len(all)) /\ SharesOn(all, x) = Summed(r, Len(all))
  BY SharesAre
<1>4. PICK m \in Nat, n \in Nat : m = Len(rs) /\ n = Len(ss)
  BY DEF Counted
<1>5. DOMAIN rs = 1..m /\ DOMAIN ss = 1..n /\ DOMAIN all = 1..(m + n)
  BY <1>4 DEF Counted
<1>6. GoesOnWith(q, m, p, n, r)
  <2>1. \A i \in 1..m : r[i] = q[i]
    BY <1>1, <1>3, <1>4, <1>5
  <2>2. ASSUME NEW k \in 1..n
        PROVE  r[m + k] = p[k]
    <3>1. m + k \in 1..(m + n)
      BY <1>4
    <3>2. all[m + k] = ss[k]
      BY <1>4, <1>5
    <3> QED BY <1>2, <1>3, <1>5, <3>1, <3>2
  <2> QED BY <2>1, <2>2 DEF GoesOnWith
<1>7. Summed(r, m + n) = Summed(q, m) + Summed(p, n)
  BY <1>1, <1>2, <1>4, <1>6, SummedBoth
<1> QED BY <1>1, <1>2, <1>3, <1>4, <1>7

\* No reports, and one.
LEMMA SharesOfFew ==
  ASSUME NEW r, r.shares \in Int, NEW x
  PROVE  /\ Counted(<<>>) /\ SharesOn(<<>>, x) = 0
         /\ Counted(<<r>>) /\ SharesOn(<<r>>, x) = SharesFor(r, x)
<1>1. PICK z \in Nat, k \in Nat : z = 0 /\ k = 1
  OBVIOUS
<1>2. Counted(<<>>) /\ Counted(<<r>>)
  BY DEF Counted
<1>3. PICK q : /\ q = [i \in DOMAIN <<>> |-> SharesFor(<<>>[i], x)]
               /\ Numbers(q, Len(<<>>)) /\ SharesOn(<<>>, x) = Summed(q, Len(<<>>))
  BY <1>2, SharesAre
<1>4. PICK p : /\ p = [i \in DOMAIN <<r>> |-> SharesFor(<<r>>[i], x)]
               /\ Numbers(p, Len(<<r>>)) /\ SharesOn(<<r>>, x) = Summed(p, Len(<<r>>))
  BY <1>2, SharesAre
<1>5. Len(<<>>) = z /\ Len(<<r>>) = k
  BY <1>1
<1>6. Summed(q, z) = 0
  BY <1>1, SummedZero
<1>7. Summed(p, 0) = 0 /\ Summed(p, k) = Summed(p, k - 1) + p[k]
  BY <1>1, <1>4, <1>5, SummedStep
<1>8. p[k] = SharesFor(r, x) /\ SharesFor(r, x) \in Int
  BY <1>1, <1>4 DEF SharesFor
<1> QED BY <1>1, <1>2, <1>3, <1>4, <1>5, <1>6, <1>7, <1>8

\* A report is sent: it moves from the reports that are due to those that were sent.
LEMMA SharesMove ==
  ASSUME NEW ids, NEW rs \in Seq(Reports),
         NEW js \in Seq(FillJobsOn(ids) \cup Drafts \cup Reports), js # <<>>,
         js[1] \in Reports, NEW x
  PROVE  /\ SharesOn(Append(rs, js[1]), x) - SharesOn(rs, x)
              = SharesOn(js, x) - SharesOn(Tail(js), x)
         /\ SharesOn(Append(rs, js[1]), x) \in Int /\ SharesOn(rs, x) \in Int
         /\ SharesOn(js, x) \in Int /\ SharesOn(Tail(js), x) \in Int
<1>1. PICK all, rest, one, S, T :
        /\ all = Append(rs, js[1]) /\ rest = Tail(js) /\ one = <<js[1]>>
        /\ S = FillJobsOn(ids) \cup Drafts \cup Reports /\ T = Reports
  OBVIOUS
<1>2. /\ T \subseteq S /\ js \in Seq(S) /\ rs \in Seq(T) /\ js[1] \in T
  BY <1>1
<1>3. /\ all \in Seq(T) /\ rest \in Seq(S) /\ all \in Seq(S) /\ rs \in Seq(S)
      /\ Len(all) = Len(rs) + 1 /\ Len(rest) = Len(js) - 1
      /\ \A i \in DOMAIN rs : all[i] = rs[i]
      /\ all[Len(rs) + 1] = js[1]
      /\ \A j \in DOMAIN rest : rest[j] = js[j + 1]
  BY <1>1, <1>2
<1>4. Counted(js) /\ Counted(rest) /\ Counted(rs) /\ Counted(all)
  BY <1>1, <1>2, <1>3, ReportsAreCounted
<1>5. js[1].shares \in Int /\ 1 \in DOMAIN js /\ Len(js) \in Nat
  BY <1>2, <1>4 DEF Counted
<1>6. Counted(one) /\ Len(one) = 1 /\ DOMAIN one = {1} /\ one[1] = js[1]
      /\ SharesOn(one, x) = SharesFor(js[1], x)
  <2>1. PICK r : r = js[1] /\ r.shares \in Int
    BY <1>5
  <2> QED BY <1>1, <2>1, SharesOfFew
<1>7. SharesOn(all, x) = SharesOn(rs, x) + SharesOn(one, x)
  <2>1. OneThenOther(rs, one, all)
    BY <1>3, <1>4, <1>6 DEF OneThenOther
  <2> QED BY <2>1, SharesBoth
<1>8. SharesOn(js, x) = SharesOn(one, x) + SharesOn(rest, x)
  <2>1. Len(js) = Len(one) + Len(rest)
    BY <1>3, <1>5, <1>6
  <2>2. \A i \in DOMAIN one : js[i] = one[i]
    BY <1>6
  <2>3. \A j \in DOMAIN rest : js[Len(one) + j] = rest[j]
    <3>1. \A j \in DOMAIN rest : j \in Nat
      BY <1>4 DEF Counted
    <3> QED BY <1>3, <1>6, <3>1
  <2>4. OneThenOther(one, rest, js)
    BY <1>4, <1>6, <2>1, <2>2, <2>3 DEF OneThenOther
  <2> QED BY <2>4, SharesBoth
<1>9. SharesOn(rs, x) \in Int /\ SharesOn(one, x) \in Int /\ SharesOn(rest, x) \in Int
  BY <1>4, <1>6, SharesAre
<1> QED BY <1>1, <1>7, <1>8, <1>9

\* The report a handler is busy with becomes another on the same shares.
LEMMA SharesHeadKept ==
  ASSUME NEW ids, NEW js \in Seq(FillJobsOn(ids) \cup Drafts \cup Reports), js # <<>>,
         NEW head, head.order_id = js[1].order_id, head.shares = js[1].shares,
         NEW new, new = WithHead(js, head), NEW x
  PROVE  SharesOn(new, x) = SharesOn(js, x)
<1>1. Counted(js)
  BY ReportsAreCounted
<1>2. /\ DOMAIN new = DOMAIN js /\ 1 \in DOMAIN js /\ new[1] = head
      /\ \A k \in DOMAIN js : k # 1 => new[k] = js[k]
      /\ Len(new) = Len(js)
  BY DEF WithHead
<1>3. \A i \in DOMAIN js : new[i].order_id = js[i].order_id /\ new[i].shares = js[i].shares
  BY <1>2
<1>4. Counted(new)
  BY <1>1, <1>2, <1>3 DEF Counted
<1> QED BY <1>1, <1>2, <1>3, <1>4, SharesSame

\* The reports on the fills of a call say what its fills trade.
LEMMA SharesOfFills ==
  ASSUME NEW ids, NEW id \in ids, NEW cl \in ClOrdIds, NEW fills \in Seq(FillsFrom(ids)), NEW x
  PROVE  /\ Counted(FillsOf(id, cl, fills))
         /\ SharesOn(FillsOf(id, cl, fills), x) = TradedOf(fills, id, x)
<1>1. PICK N \in Nat : N = Len(fills) /\ DOMAIN fills = 1..N
  OBVIOUS
<1>2. PICK g : g = FillsOf(id, cl, fills)
  OBVIOUS
<1>3. g \in Seq(FillJobsOn(ids))
  BY <1>2, FillsOfOK
<1>4. DOMAIN g = 1..(2 * N) /\ Len(g) = 2 * N
  <2>1. DOMAIN g = 1..(2 * N)
    BY <1>1, <1>2, Zenon DEF FillsOf
  <2>2. DOMAIN g = 1..Len(g) /\ Len(g) \in Nat /\ 2 * N \in Nat
    BY <1>3
  <2> QED BY <2>1, <2>2
<1>5. Counted(g)
  <2>1. \A i \in 1..Len(g) : g[i] \in FillJobsOn(ids)
    BY <1>3
  <2>2. \A i \in 1..Len(g) : g[i].shares \in Int
    BY <2>1 DEF FillJobsOn
  <2> QED BY <1>3, <2>2 DEF Counted
<1>6. PICK r : /\ r = [i \in DOMAIN g |-> SharesFor(g[i], x)]
               /\ Numbers(r, Len(g)) /\ SharesOn(g, x) = Summed(r, Len(g))
  BY <1>5, SharesAre
<1>7. PICK q : q = [n \in DOMAIN fills |-> Traded(fills[n], id, x)]
  OBVIOUS
<1>8. Numbers(q, N)
  BY <1>1, <1>7, TradedIsNumber DEF Numbers
<1>9. ASSUME NEW i \in 1..N
      PROVE  q[i] = r[2 * i - 1] + r[2 * i]
  <2>1. PICK f : f = fills[i]
    OBVIOUS
  <2>2. PICK j \in 1..(2 * N), k \in 1..(2 * N) : j = 2 * i - 1 /\ k = 2 * i
    OBVIOUS
  <2>3. (j + 1) \div 2 = i /\ j % 2 = 1 /\ (k + 1) \div 2 = i /\ k % 2 = 0
    BY <2>2
  <2>4. \A n \in 1..(2 * N) : g[n] = IF n % 2 = 1 THEN FillOf(id, cl, fills[(n + 1) \div 2])
                 ELSE FillOf(fills[(n + 1) \div 2].order_id, NoName, fills[(n + 1) \div 2])
    BY <1>1, <1>2, Zenon DEF FillsOf
  <2>5. g[j] = FillOf(id, cl, f) /\ g[k] = FillOf(f.order_id, NoName, f)
    <3>1. g[j] = IF j % 2 = 1 THEN FillOf(id, cl, fills[(j + 1) \div 2])
                 ELSE FillOf(fills[(j + 1) \div 2].order_id, NoName, fills[(j + 1) \div 2])
      BY <2>4, Zenon
    <3>2. g[k] = IF k % 2 = 1 THEN FillOf(id, cl, fills[(k + 1) \div 2])
                 ELSE FillOf(fills[(k + 1) \div 2].order_id, NoName, fills[(k + 1) \div 2])
      BY <2>4, Zenon
    <3>3. 0 # 1
      OBVIOUS
    <3> QED BY <2>1, <2>3, <3>1, <3>2, <3>3, Zenon
  <2>6. r[j] = (IF id = x THEN f.quantity ELSE 0)
        /\ r[k] = (IF f.order_id = x THEN f.quantity ELSE 0)
    BY <1>4, <1>6, <2>5 DEF SharesFor, FillOf
  <2>7. q[i] = (IF id = x THEN f.quantity ELSE 0) + (IF f.order_id = x THEN f.quantity ELSE 0)
    BY <1>1, <1>7, <2>1 DEF Traded
  <2> QED BY <2>2, <2>6, <2>7
<1>10. Summed(r, 2 * N) = Summed(q, N)
  BY <1>4, <1>6, <1>8, <1>9, SummedPairs
<1>11. TradedOf(fills, id, x) = Summed(q, N)
  BY <1>1, <1>7, Zenon DEF TradedOf
<1> QED BY <1>2, <1>4, <1>5, <1>6, <1>10, <1>11

\* An answer in front of other reports.
LEMMA AnswerThen ==
  ASSUME NEW S, NEW answer \in S, NEW g \in Seq(S), NEW js, js = <<answer>> \o g
  PROVE  /\ Len(js) = 1 + Len(g) /\ DOMAIN js = 1..(1 + Len(g)) /\ js[1] = answer
         /\ \A j \in DOMAIN g : js[1 + j] = g[j]
         /\ \A i \in DOMAIN js : i = 1 \/ (i - 1 \in DOMAIN g /\ js[i] = g[i - 1])
<1>1. PICK n \in Nat : n = Len(g) /\ DOMAIN g = 1..n
  OBVIOUS
<1>2. <<answer>> \in Seq(S)
  OBVIOUS
<1>3. /\ js \in Seq(S) /\ Len(js) = 1 + Len(g) /\ Len(g) \in Nat
      /\ js[1] = answer /\ \A i \in 2..Len(js) : js[i] = g[i - 1]
  BY <1>2
<1>4. Len(js) = 1 + n /\ DOMAIN js = 1..(1 + n) /\ js[1] = answer
      /\ \A i \in 2..(1 + n) : js[i] = g[i - 1]
  BY <1>1, <1>3
<1>5. ASSUME NEW k \in 1..n
      PROVE  js[1 + k] = g[k]
  <2>1. PICK i \in 2..(1 + n) : i = 1 + k /\ i - 1 = k
    OBVIOUS
  <2> QED BY <1>4, <2>1
<1>6. \A i \in 1..(1 + n) : i # 1 => i \in 2..(1 + n) /\ i - 1 \in 1..n
  BY <1>1
<1> QED BY <1>1, <1>4, <1>5, <1>6

\* What a call makes of its trades: an answer, on no shares, then their reports.
CallMakes(ids, id, cl, fills, answer, js) ==
  /\ id \in ids /\ cl \in ClOrdIds /\ fills \in Seq(FillsFrom(ids))
  /\ answer.shares = 0 /\ js = <<answer>> \o FillsOf(id, cl, fills)

\* The reports of a call share out what its trades fill.
LEMMA SharesOfCall ==
  ASSUME NEW ids, NEW id, NEW cl, NEW fills, NEW answer, NEW js,
         CallMakes(ids, id, cl, fills, answer, js), NEW x
  PROVE  SharesOn(js, x) = TradedOf(fills, id, x)
<1>0. /\ id \in ids /\ cl \in ClOrdIds /\ fills \in Seq(FillsFrom(ids))
      /\ answer.shares = 0 /\ js = <<answer>> \o FillsOf(id, cl, fills)
  BY DEF CallMakes
<1>1. PICK one, g : one = <<answer>> /\ g = FillsOf(id, cl, fills)
  OBVIOUS
<1>2. g \in Seq(FillJobsOn(ids)) /\ Counted(g) /\ SharesOn(g, x) = TradedOf(fills, id, x)
  <2>1. FillsOf(id, cl, fills) \in Seq(FillJobsOn(ids))
    BY <1>0, FillsOfOK
  <2>2. /\ Counted(FillsOf(id, cl, fills))
        /\ SharesOn(FillsOf(id, cl, fills), x) = TradedOf(fills, id, x)
    BY <1>0, SharesOfFills
  <2> QED BY <1>1, <2>1, <2>2
<1>3. Counted(one) /\ SharesOn(one, x) = SharesFor(answer, x) /\ Len(one) = 1
      /\ DOMAIN one = {1} /\ one[1] = answer
  <2>1. answer.shares \in Int
    BY <1>0
  <2>2. Counted(<<answer>>) /\ SharesOn(<<answer>>, x) = SharesFor(answer, x)
    BY <2>1, SharesOfFew
  <2> QED BY <1>1, <2>2
<1>4. SharesFor(answer, x) = 0
  BY <1>0 DEF SharesFor
<1>5. js = one \o g
  BY <1>0, <1>1
<1>6. /\ Len(js) = 1 + Len(g) /\ DOMAIN js = 1..(1 + Len(g)) /\ js[1] = answer
      /\ \A j \in DOMAIN g : js[1 + j] = g[j]
      /\ \A i \in DOMAIN js : i = 1 \/ (i - 1 \in DOMAIN g /\ js[i] = g[i - 1])
  <2>1. PICK S : S = FillJobsOn(ids) \cup {answer}
    OBVIOUS
  <2>2. \A i \in 1..Len(g) : g[i] \in S
    BY <1>2, <2>1
  <2>3. one \in Seq(S) /\ g \in Seq(S)
    <3>1. one \in Seq(S)
      BY <1>1, <2>1
    <3>2. PICK U : U = FillJobsOn(ids)
      OBVIOUS
    <3>3. g \in Seq(U) /\ U \subseteq S
      BY <1>2, <2>1, <3>2
    <3>4. g \in Seq(S)
      BY <3>3
    <3> QED BY <3>1, <3>4
  <2> QED BY <1>0, <1>1, <2>1, <2>3, AnswerThen
<1>7. Counted(js)
  <2>1. Len(g) \in Nat /\ \A k \in DOMAIN g : g[k].shares \in Int
    BY <1>2 DEF Counted
  <2>2. \A i \in DOMAIN js : js[i].shares \in Int
    BY <1>0, <1>6, <2>1
  <2>3. Len(js) \in Nat /\ DOMAIN js = 1..Len(js)
    BY <1>6, <2>1
  <2> QED BY <2>2, <2>3 DEF Counted
<1>8. SharesOn(js, x) = SharesOn(one, x) + SharesOn(g, x)
  <2>1. OneThenOther(one, g, js)
    BY <1>2, <1>3, <1>6, <1>7 DEF OneThenOther
  <2> QED BY <2>1, SharesBoth
<1>9. SharesOn(g, x) \in Int
  BY <1>2, SharesAre
<1> QED BY <1>2, <1>3, <1>4, <1>8, <1>9

-----------------------------------------------------------------------------
(* What was filled was reported or is due, whoever reports it.             *)

\* The threads can be counted.
LEMMA TurnsOK ==
  ASSUME IsFiniteSet(Threads), NEW N, N = Cardinality(Threads)
  PROVE  /\ N \in Nat /\ Turns \in [1..N -> Threads]
         /\ \A i, j \in 1..N : i # j => Turns[i] # Turns[j]
         /\ \A t \in Threads : \E k \in 1..N : Turns[k] = t
<1>1. N \in Nat
  BY FS_CardinalityType
<1>2. PICK f : f \in Bijection(1..N, Threads)
  <2>1. ExistsBijection(1..N, Threads)
    BY FS_CardinalityType
  <2> QED BY <2>1 DEF ExistsBijection
<1>3. /\ f \in [1..N -> Threads]
      /\ \A i, j \in DOMAIN f : i # j => f[i] # f[j]
      /\ Range(f) = Threads
  <2>1. /\ f \in [1..N -> Threads] /\ DOMAIN f = 1..N
        /\ \A i, j \in DOMAIN f : f[i] = f[j] => i = j
        /\ \A t \in Threads : \E k \in 1..N : f[k] = t
    BY <1>2 DEF Bijection, Injection, IsInjective, Surjection
  <2> QED BY <2>1 DEF Range
<1>4. /\ Turns \in [1..N -> Threads]
      /\ \A i, j \in DOMAIN Turns : i # j => Turns[i] # Turns[j]
      /\ Range(Turns) = Threads
  BY <1>3, Zenon DEF Turns
<1> QED BY <1>1, <1>4 DEF Range

\* The shares due on an order when the threads have these reports to send.
DueIn(all, x) ==
  Summed([k \in DOMAIN Turns |-> SharesOn(all[Turns[k]], x)], Cardinality(Threads))

\* The reports that one thread has to send change.
LEMMA DueMoves ==
  ASSUME IsFiniteSet(Threads), NEW t \in Threads, NEW old, NEW now,
         \A u \in Threads : Counted(old[u]) /\ Counted(now[u]),
         \A u \in Threads : u # t => now[u] = old[u],
         NEW x
  PROVE  /\ DueIn(now, x) = DueIn(old, x) - SharesOn(old[t], x) + SharesOn(now[t], x)
         /\ DueIn(old, x) \in Int
<1>1. PICK N : N = Cardinality(Threads)
  OBVIOUS
<1>2. /\ N \in Nat /\ Turns \in [1..N -> Threads]
      /\ \A i, j \in 1..N : i # j => Turns[i] # Turns[j]
      /\ \A u \in Threads : \E k \in 1..N : Turns[k] = u
  BY <1>1, TurnsOK
<1>3. PICK k \in 1..N : Turns[k] = t
  BY <1>2
<1>4. PICK q, r : /\ q = [i \in DOMAIN Turns |-> SharesOn(old[Turns[i]], x)]
                  /\ r = [i \in DOMAIN Turns |-> SharesOn(now[Turns[i]], x)]
  OBVIOUS
<1>5. \A i \in 1..N : /\ Turns[i] \in Threads
                      /\ q[i] = SharesOn(old[Turns[i]], x) /\ r[i] = SharesOn(now[Turns[i]], x)
  BY <1>2, <1>4
<1>6. ASSUME NEW u \in Threads
      PROVE  SharesOn(old[u], x) \in Int /\ SharesOn(now[u], x) \in Int
  <2>1. PICK rs, ss : rs = old[u] /\ ss = now[u]
    OBVIOUS
  <2>2. Counted(rs) /\ Counted(ss)
    BY <2>1
  <2>3. SharesOn(rs, x) \in Int
    BY <2>2, SharesAre
  <2>4. SharesOn(ss, x) \in Int
    BY <2>2, SharesAre
  <2> QED BY <2>1, <2>3, <2>4
<1>7. Numbers(q, N) /\ Numbers(r, N)
  BY <1>5, <1>6 DEF Numbers
<1>8. \A i \in 1..N : i # k => r[i] = q[i]
  BY <1>2, <1>3, <1>5
<1>9. Summed(r, N) = Summed(q, N) - q[k] + r[k]
  BY <1>2, <1>7, <1>8, SummedChange
<1>10. Summed(q, N) \in Int
  BY <1>2, <1>7, SummedStep
<1>11. DueIn(old, x) = Summed(q, N) /\ DueIn(now, x) = Summed(r, N)
  BY <1>1, <1>4, Zenon DEF DueIn
<1>12. q[k] = SharesOn(old[t], x) /\ r[k] = SharesOn(now[t], x)
  BY <1>3, <1>5
<1> QED BY <1>9, <1>10, <1>11, <1>12

\* What is filled and what is reported or due change by the same: states a become
\* b, reports sent rs become ss, and those due from one thread js become ks.
Balanced(a, b, rs, ss, js, ks) ==
  \A x \in 1..MaxOrders :
    FilledIn(b, x) - FilledIn(a, x)
      = (SharesOn(ss, x) - SharesOn(rs, x)) + (SharesOn(ks, x) - SharesOn(js, x))

\* All reports can be counted: `all` are those of each thread.
LEMMA AllCounted ==
  ASSUME NEW rs \in Seq(Reports), NEW ids, NEW where, NEW all,
         \A t \in Threads : JobsFit(ids, where[t], all[t])
  PROVE  Counted(rs) /\ \A t \in Threads : Counted(all[t])
<1>1. Counted(rs)
  <2>1. PICK S, T : S = FillJobsOn(ids) \cup Drafts \cup Reports /\ T = Reports
    OBVIOUS
  <2>2. T \subseteq S /\ rs \in Seq(T)
    BY <2>1
  <2>3. rs \in Seq(S)
    BY <2>2
  <2> QED BY <2>1, <2>3, ReportsAreCounted
<1>2. ASSUME NEW t \in Threads
      PROVE  Counted(all[t])
  <2>1. PICK js : js = all[t]
    OBVIOUS
  <2>2. js \in Seq(FillJobsOn(ids) \cup Drafts \cup Reports)
    BY <2>1 DEF JobsFit
  <2> QED BY <2>1, <2>2, ReportsAreCounted
<1> QED BY <1>1, <1>2

\* What is filled of an order is a number.
LEMMA FilledIsNumber ==
  ASSUME NEW some, IsExchange(some, Registered), NEW states, states = some.order_states, NEW x
  PROVE  FilledIn(states, x) \in Int
  BY DEF IsExchange, FilledIn, OrderStates

\* A step of one thread that is balanced keeps the balance.
LEMMA FillsKept ==
  ASSUME IsFiniteSet(Threads), GatewayInv, GatewayInv', FillsInv,
         GivenIds' \subseteq 1..MaxOrders, NEW t \in Threads,
         \A u \in Threads : u # t => jobs'[u] = jobs[u],
         Balanced(ex.order_states, ex'.order_states, sent, sent', jobs[t], jobs'[t])
  PROVE  FillsInv'
<1>1. PICK a, b, rs, ss, old, now :
        /\ a = ex.order_states /\ b = ex'.order_states /\ rs = sent /\ ss = sent'
        /\ old = jobs /\ now = jobs'
  OBVIOUS
<1>2. /\ Counted(rs) /\ Counted(ss) /\ \A u \in Threads : Counted(old[u]) /\ Counted(now[u])
  <2>1. PICK ids, ids2, at, at2 : /\ ids = DOMAIN ex.order_states /\ at = pc
                                  /\ ids2 = DOMAIN ex'.order_states /\ at2 = pc'
    OBVIOUS
  <2>2. rs \in Seq(Reports) /\ \A u \in Threads : JobsFit(ids, at[u], old[u])
    BY <1>1, <2>1 DEF GatewayInv, TypeOK, HandlersOK
  <2>3. ss \in Seq(Reports) /\ \A u \in Threads : JobsFit(ids2, at2[u], now[u])
    BY <1>1, <2>1 DEF GatewayInv, TypeOK, HandlersOK
  <2>4. Counted(rs) /\ \A u \in Threads : Counted(old[u])
    BY <2>2, AllCounted
  <2>5. Counted(ss) /\ \A u \in Threads : Counted(now[u])
    BY <2>3, AllCounted
  <2> QED BY <2>4, <2>5
<1>3. \A u \in Threads : u # t => now[u] = old[u]
  BY <1>1
<1>4. Balanced(a, b, rs, ss, old[t], now[t])
  BY <1>1
<1>5. ASSUME NEW x \in 1..MaxOrders
      PROVE  FilledIn(b, x) = SharesOn(ss, x) + DueIn(now, x)
  <2>1. FilledIn(a, x) = SharesOn(rs, x) + DueIn(old, x)
    BY <1>1 DEF FillsInv, FilledOf, FilledIn, SharesDue, DueIn
  <2>2. /\ DueIn(now, x) = DueIn(old, x) - SharesOn(old[t], x) + SharesOn(now[t], x)
        /\ DueIn(old, x) \in Int
    BY <1>2, <1>3, DueMoves
  <2>3. FilledIn(b, x) - FilledIn(a, x)
          = (SharesOn(ss, x) - SharesOn(rs, x)) + (SharesOn(now[t], x) - SharesOn(old[t], x))
    BY <1>4 DEF Balanced
  <2>4. FilledIn(a, x) \in Int
    <3>1. PICK some : some = ex
      OBVIOUS
    <3>2. IsExchange(some, Registered) /\ a = some.order_states
      BY <1>1, <3>1 DEF GatewayInv, TypeOK
    <3> QED BY <3>2, FilledIsNumber
  <2>5. FilledIn(b, x) \in Int
    <3>1. PICK some : some = ex'
      OBVIOUS
    <3>2. IsExchange(some, Registered) /\ b = some.order_states
      BY <1>1, <3>1 DEF GatewayInv, TypeOK
    <3> QED BY <3>2, FilledIsNumber
  <2>6. SharesOn(rs, x) \in Int
    BY <1>2, SharesAre
  <2>7. SharesOn(ss, x) \in Int
    BY <1>2, SharesAre
  <2>8. SharesOn(old[t], x) \in Int
    <3>1. PICK js : js = old[t] /\ Counted(js)
      BY <1>2
    <3> QED BY <3>1, SharesAre
  <2>9. SharesOn(now[t], x) \in Int
    <3>1. PICK js : js = now[t] /\ Counted(js)
      BY <1>2
    <3> QED BY <3>1, SharesAre
  <2> QED BY <2>1, <2>2, <2>3, <2>4, <2>5, <2>6, <2>7, <2>8, <2>9
<1>6. \A x \in 1..MaxOrders : FilledOf(x)' = FilledIn(b, x) /\ SharesDue(x)' = DueIn(now, x)
  BY <1>1 DEF FilledOf, FilledIn, SharesDue, DueIn
<1> QED BY <1>1, <1>5, <1>6 DEF FillsInv

\* A step that fills nothing, sends nothing and leaves every report its shares.
LEMMA FillsStay ==
  ASSUME IsFiniteSet(Threads), GatewayInv, GatewayInv', FillsInv,
         GivenIds' \subseteq 1..MaxOrders, NEW t \in Threads,
         \A u \in Threads : u # t => jobs'[u] = jobs[u], ex' = ex, sent' = sent,
         \A x : SharesOn(jobs'[t], x) = SharesOn(jobs[t], x)
  PROVE  FillsInv'
<1>1. PICK a, rs, js, ks : /\ a = ex.order_states /\ rs = sent /\ js = jobs[t] /\ ks = jobs'[t]
  OBVIOUS
<1>2. Counted(rs) /\ Counted(js)
  <2>1. PICK ids, at, old : ids = DOMAIN ex.order_states /\ at = pc /\ old = jobs
    OBVIOUS
  <2>2. rs \in Seq(Reports) /\ \A u \in Threads : JobsFit(ids, at[u], old[u])
    BY <1>1, <2>1 DEF GatewayInv, TypeOK, HandlersOK
  <2>3. Counted(rs) /\ \A u \in Threads : Counted(old[u])
    BY <2>2, AllCounted
  <2> QED BY <1>1, <2>1, <2>3
<1>3. PICK some : some = ex
  OBVIOUS
<1>4. IsExchange(some, Registered) /\ a = some.order_states
  BY <1>1, <1>3 DEF GatewayInv, TypeOK
<1>5. Balanced(a, a, rs, rs, js, ks)
  <2> SUFFICES ASSUME NEW x \in 1..MaxOrders
               PROVE  FilledIn(a, x) - FilledIn(a, x) = (SharesOn(rs, x) - SharesOn(rs, x))
                        + (SharesOn(ks, x) - SharesOn(js, x))
    BY DEF Balanced
  <2>1. FilledIn(a, x) \in Int
    BY <1>4, FilledIsNumber
  <2>2. SharesOn(rs, x) \in Int
    BY <1>2, SharesAre
  <2>3. SharesOn(js, x) \in Int
    BY <1>2, SharesAre
  <2>4. SharesOn(ks, x) = SharesOn(js, x)
    BY <1>1
  <2> QED BY <2>1, <2>2, <2>3, <2>4
<1>6. Balanced(ex.order_states, ex'.order_states, sent, sent', jobs[t], jobs'[t])
  BY <1>1, <1>5
<1> QED BY <1>6, FillsKept

\* A message is received: nothing is due but the answer to a market order.
LEMMA FillsReceive ==
  ASSUME IsFiniteSet(Threads), GatewayInv, GatewayInv', FillsInv, NEW t \in Threads, Receive(t)
  PROVE  FillsInv'
<1>1. PICK session \in Sessions, cl \in ClOrdIds :
        \/ ReceiveOrder(t, session, cl) \/ ReceiveUnsupported(t, session, cl)
        \/ ReceiveCancel(t, session, cl) \/ ReceiveReplace(t, session, cl)
  BY DEF Receive
<1>2. /\ DOMAIN jobs = Threads /\ next_order_id \in OrderId
      /\ GivenIds \subseteq 1..MaxOrders /\ JobsFit(DOMAIN ex.order_states, pc[t], jobs[t])
  BY HandlerIs DEF TypeOK, FillsInv
<1>3. ASSUME NEW ord_type, NEW order, Arrives(t, session, cl, ord_type, order)
      PROVE  /\ GivenIds' \subseteq 1..MaxOrders /\ ex' = ex /\ sent' = sent
             /\ pc[t] = "idle"
  <2>1. next_order_id <= MaxOrders /\ next_order_id' = next_order_id + 1
        /\ ex' = ex /\ sent' = sent /\ pc[t] = "idle"
    BY <1>3 DEF Arrives, Register, Takes
  <2>2. GivenIds' = 1..next_order_id
    BY <1>2, <2>1 DEF GivenIds, OrderId
  <2>3. 1..next_order_id \subseteq 1..MaxOrders
    BY <1>2, <2>1, GatewayBoundsAssumption DEF OrderId
  <2> QED BY <2>1, <2>2, <2>3
<1>4. CASE ReceiveUnsupported(t, session, cl)
  <2>1. PICK order \in NewOrders :
          /\ Arrives(t, session, cl, "Market", order)
          /\ jobs' = [jobs EXCEPT ![t] =
               <<Ack(cl, next_order_id, NewOrderState(order, "Rejected"))>>]
    BY <1>4 DEF ReceiveUnsupported
  <2>2. PICK r : r = Ack(cl, next_order_id, NewOrderState(order, "Rejected"))
    OBVIOUS
  <2>3. r.shares = 0 /\ r.shares \in Int
    BY <2>2 DEF Ack, Answer, ExecutionReport
  <2>4. /\ GivenIds' \subseteq 1..MaxOrders /\ ex' = ex /\ sent' = sent /\ pc[t] = "idle"
    BY <1>3, <2>1
  <2>5. jobs[t] = <<>> /\ jobs' = [jobs EXCEPT ![t] = <<r>>]
    BY <1>2, <2>1, <2>2, <2>4 DEF JobsFit
  <2>6. ASSUME NEW x
        PROVE  SharesOn(<<r>>, x) = SharesOn(<<>>, x)
    <3>1. SharesOn(<<r>>, x) = SharesFor(r, x) /\ SharesOn(<<>>, x) = 0
      BY <2>3, SharesOfFew
    <3> QED BY <2>3, <3>1 DEF SharesFor
  <2>7. PICK js, ks : js = jobs[t] /\ ks = jobs'[t]
    OBVIOUS
  <2>8. js = <<>> /\ ks = <<r>> /\ \A u \in Threads : u # t => jobs'[u] = jobs[u]
    BY <1>2, <2>5, <2>7
  <2>9. \A x : SharesOn(ks, x) = SharesOn(js, x)
    BY <2>6, <2>8
  <2>10. \A x : SharesOn(jobs'[t], x) = SharesOn(jobs[t], x)
    BY <2>7, <2>9
  <2> QED BY <2>4, <2>8, <2>10, FillsStay
<1>5. CASE ~ReceiveUnsupported(t, session, cl)
  <2>1. sent' = sent /\ ex' = ex /\ jobs' = jobs /\ GivenIds' \subseteq 1..MaxOrders
    <3>1. CASE ReceiveOrder(t, session, cl)
      BY <1>3, <3>1 DEF ReceiveOrder
    <3>2. ASSUME NEW m, ReceiveAmend(t, m)
          PROVE  sent' = sent /\ ex' = ex /\ jobs' = jobs /\ GivenIds' \subseteq 1..MaxOrders
      BY <1>2, <3>2 DEF ReceiveAmend, GivenIds
    <3> QED BY <1>1, <1>5, <3>1, <3>2 DEF ReceiveCancel, ReceiveReplace
  <2> QED BY <2>1, FillsStay
<1> QED BY <1>4, <1>5

\* A report is looked up, read or stamped: its order and its shares stay.
LEMMA FillsHead ==
  ASSUME IsFiniteSet(Threads), GatewayInv, GatewayInv', FillsInv, NEW t \in Threads,
         Lookup(t) \/ ReadState(t) \/ Stamp(t)
  PROVE  FillsInv'
<1>1. PICK ids, js : ids = DOMAIN ex.order_states /\ js = jobs[t]
  OBVIOUS
<1>2. /\ JobsFit(ids, pc[t], js) /\ DOMAIN jobs = Threads /\ ids \subseteq GivenIds
      /\ orderid_to_clordid_map \in [GivenIds -> ClOrdIds]
      /\ js \in Seq(FillJobsOn(ids) \cup Drafts \cup Reports)
  BY <1>1, HandlerIs DEF TypeOK, JobsFit
<1>3. js # <<>> /\ ex' = ex /\ sent' = sent /\ GivenIds' \subseteq 1..MaxOrders
  BY <1>1, <1>2 DEF JobsFit, Lookup, ReadState, Stamp, FillsInv, GivenIds
<1>4. ASSUME NEW head, head.order_id = js[1].order_id, head.shares = js[1].shares,
             NEW new, new = WithHead(js, head), jobs' = [jobs EXCEPT ![t] = new]
      PROVE  FillsInv'
  <2>1. \A x : SharesOn(new, x) = SharesOn(js, x)
    BY <1>2, <1>3, <1>4, SharesHeadKept
  <2>2. \A u \in Threads : u # t => jobs'[u] = jobs[u]
    BY <1>4
  <2>3. jobs'[t] = new
    BY <1>2, <1>4
  <2>4. PICK now : now = jobs'[t]
    OBVIOUS
  <2>5. \A x : SharesOn(now, x) = SharesOn(js, x)
    BY <2>1, <2>3, <2>4
  <2>6. \A x : SharesOn(jobs'[t], x) = SharesOn(jobs[t], x)
    BY <1>1, <2>4, <2>5
  <2> QED BY <1>3, <2>2, <2>6, FillsStay
<1>5. CASE Lookup(t)
  <2>1. pc[t] = "lookup" /\ js[1] \in FillJobsOn(ids)
    BY <1>2, <1>5 DEF Lookup, JobsFit
  <2>2. js[1].order_id \in DOMAIN orderid_to_clordid_map
    BY <1>2, <2>1 DEF FillJobsOn
  <2>3. PICK cl, head, new : /\ cl = orderid_to_clordid_map[js[1].order_id]
                             /\ head = [js[1] EXCEPT !.cl = cl] /\ new = WithHead(js, head)
    OBVIOUS
  <2>4. head.order_id = js[1].order_id /\ head.shares = js[1].shares
    BY <2>1, <2>3 DEF FillJobsOn
  <2>5. jobs' = [jobs EXCEPT ![t] = new]
    <3>1. jobs' = [jobs EXCEPT ![t][1].cl = cl]
      BY <1>1, <1>5, <2>2, <2>3, Zenon DEF Lookup
    <3>2. jobs' = [jobs EXCEPT ![t] = [js EXCEPT ![1] = head]]
      BY <1>1, <2>3, <3>1, Zenon
    <3> QED BY <2>3, <3>2, Zenon DEF WithHead
  <2> QED BY <1>4, <2>3, <2>4, <2>5
<1>6. CASE ReadState(t)
  <2>1. PICK r, st, head, new :
          /\ r = js[1] /\ st = ex.order_states[r.order_id]
          /\ head = FillReport(r.cl, r.order_id, r.shares, r.px, st)
          /\ new = WithHead(js, head)
    OBVIOUS
  <2>2. head.order_id = js[1].order_id /\ head.shares = js[1].shares
    BY <2>1 DEF FillReport, ExecutionReport
  <2>3. jobs' = [jobs EXCEPT ![t] = new]
    BY <1>1, <1>6, <2>1 DEF ReadState, StateToReport, WithHead
  <2> QED BY <1>4, <2>1, <2>2, <2>3
<1>7. CASE Stamp(t)
  <2>1. PICK targets, head, new :
          /\ targets = IF active_sessions = {} THEN {Fallback(t)} ELSE active_sessions
          /\ head = Stamped(js[1], next_exec_id, targets) /\ new = WithHead(js, head)
    OBVIOUS
  <2>2. head.order_id = js[1].order_id /\ head.shares = js[1].shares
    BY <2>1 DEF Stamped
  <2>3. jobs' = [jobs EXCEPT ![t] = new]
    <3>1. jobs' = [jobs EXCEPT ![t][1] = Stamped(@, next_exec_id, targets)]
      BY <1>7, <2>1, Zenon DEF Stamp
    <3>2. jobs' = [jobs EXCEPT ![t] = [js EXCEPT ![1] = head]]
      BY <1>1, <2>1, <3>1, Zenon
    <3> QED BY <2>1, <3>2, Zenon DEF WithHead
  <2> QED BY <1>4, <2>1, <2>2, <2>3
<1> QED BY <1>5, <1>6, <1>7

\* A report is sent: its shares were due, and now they are reported.
LEMMA FillsSend ==
  ASSUME IsFiniteSet(Threads), GatewayInv, GatewayInv', FillsInv, NEW t \in Threads, Send(t)
  PROVE  FillsInv'
<1>1. PICK ids, js, a, rs, all, rest :
        /\ ids = DOMAIN ex.order_states /\ js = jobs[t] /\ a = ex.order_states
        /\ rs = sent /\ all = Append(rs, js[1]) /\ rest = Tail(js)
  OBVIOUS
<1>2. /\ JobsFit(ids, "send", js) /\ DOMAIN jobs = Threads /\ rs \in Seq(Reports)
  BY <1>1, HandlerIs DEF TypeOK, Send
<1>3. js # <<>> /\ js[1] \in Reports /\ js \in Seq(FillJobsOn(ids) \cup Drafts \cup Reports)
  BY <1>2 DEF JobsFit
<1>4. sent' = all /\ ex' = ex /\ jobs' = [jobs EXCEPT ![t] = rest]
  <2>1. CASE rest = <<>>
    BY <1>1, <2>1 DEF Send, Remaining, Finish
  <2>2. CASE rest # <<>>
    BY <1>1, <2>2 DEF Send, Remaining
  <2> QED BY <2>1, <2>2
<1>5. GivenIds' \subseteq 1..MaxOrders
  BY DEF Send, FillsInv, GivenIds
<1>6. PICK some : some = ex
  OBVIOUS
<1>7. IsExchange(some, Registered) /\ a = some.order_states
  BY <1>1, <1>6 DEF GatewayInv, TypeOK
<1>8. Balanced(a, a, rs, all, js, rest)
  <2> SUFFICES ASSUME NEW x \in 1..MaxOrders
               PROVE  FilledIn(a, x) - FilledIn(a, x) = (SharesOn(all, x) - SharesOn(rs, x))
                        + (SharesOn(rest, x) - SharesOn(js, x))
    BY DEF Balanced
  <2>1. FilledIn(a, x) \in Int
    BY <1>7, FilledIsNumber
  <2>2. /\ SharesOn(Append(rs, js[1]), x) - SharesOn(rs, x)
             = SharesOn(js, x) - SharesOn(Tail(js), x)
        /\ SharesOn(Append(rs, js[1]), x) \in Int /\ SharesOn(rs, x) \in Int
        /\ SharesOn(js, x) \in Int /\ SharesOn(Tail(js), x) \in Int
    BY <1>2, <1>3, SharesMove
  <2>3. /\ SharesOn(all, x) - SharesOn(rs, x) = SharesOn(js, x) - SharesOn(rest, x)
        /\ SharesOn(all, x) \in Int /\ SharesOn(rs, x) \in Int
        /\ SharesOn(js, x) \in Int /\ SharesOn(rest, x) \in Int
    BY <1>1, <2>2
  <2> QED BY <2>1, <2>3
<1>9. /\ ex'.order_states = a /\ ex.order_states = a /\ sent = rs /\ sent' = all
      /\ jobs[t] = js /\ jobs'[t] = rest /\ \A u \in Threads : u # t => jobs'[u] = jobs[u]
  BY <1>1, <1>2, <1>4
<1>10. Balanced(ex.order_states, ex'.order_states, sent, sent', jobs[t], jobs'[t])
  BY <1>8, <1>9
<1> QED BY <1>5, <1>9, <1>10, FillsKept

\* The order states before and after a call on order `id`, its trades and its reports.
CallFilled(before, after, id, cl, trades, answer, js) ==
  /\ \A x : FilledIn(after, x) = FilledIn(before, x) + TradedOf(trades, id, x)
  /\ id \in DOMAIN after /\ cl \in ClOrdIds /\ trades \in Seq(FillsFrom(DOMAIN after))
  /\ answer.shares = 0 /\ js = <<answer>> \o FillsOf(id, cl, trades)

\* A call into the exchange: what it fills becomes due.
LEMMA FillsCall ==
  ASSUME IsFiniteSet(Threads), GatewayInv, GatewayInv', FillsInv, NEW t \in Threads,
         pc[t] \in {"submit", "amend"}, next_order_id' = next_order_id,
         NEW before, before = ex.order_states, NEW after, after = ex'.order_states,
         NEW id, NEW cl, NEW trades, NEW answer, NEW js,
         CallFilled(before, after, id, cl, trades, answer, js),
         jobs' = [jobs EXCEPT ![t] = js], sent' = sent
  PROVE  FillsInv'
<1>1. PICK rs, ids, none : rs = sent /\ ids = DOMAIN after /\ none = jobs[t]
  OBVIOUS
<1>2. DOMAIN jobs = Threads /\ JobsFit(DOMAIN before, pc[t], none) /\ rs \in Seq(Reports)
  BY <1>1, HandlerIs DEF TypeOK
<1>3. none = <<>>
  BY <1>2 DEF JobsFit
<1>4. GivenIds' \subseteq 1..MaxOrders
  BY DEF FillsInv, GivenIds
<1>5. Counted(rs)
  <2>1. PICK where, old : where = pc /\ old = jobs
    OBVIOUS
  <2>2. \A u \in Threads : JobsFit(DOMAIN before, where[u], old[u])
    BY <2>1 DEF GatewayInv, HandlersOK
  <2> QED BY <1>2, <2>2, AllCounted
<1>6. PICK some, now : some = ex /\ now = ex'
  OBVIOUS
<1>7. /\ IsExchange(some, Registered) /\ before = some.order_states
      /\ IsExchange(now, Registered) /\ after = now.order_states
  BY <1>6 DEF GatewayInv, TypeOK
<1>8. Balanced(before, after, rs, rs, none, js)
  <2> SUFFICES ASSUME NEW x \in 1..MaxOrders
               PROVE  FilledIn(after, x) - FilledIn(before, x)
                        = (SharesOn(rs, x) - SharesOn(rs, x)) + (SharesOn(js, x) - SharesOn(none, x))
    BY DEF Balanced
  <2>1. FilledIn(after, x) = FilledIn(before, x) + TradedOf(trades, id, x)
    BY DEF CallFilled
  <2>2. SharesOn(js, x) = TradedOf(trades, id, x)
    <3>1. CallMakes(ids, id, cl, trades, answer, js)
      BY <1>1 DEF CallFilled, CallMakes
    <3> QED BY <3>1, SharesOfCall
  <2>3. FilledIn(before, x) \in Int
    BY <1>7, FilledIsNumber
  <2>4. FilledIn(after, x) \in Int
    BY <1>7, FilledIsNumber
  <2>5. SharesOn(rs, x) \in Int
    BY <1>5, SharesAre
  <2>6. SharesOn(<<>>, x) = 0
    <3>1. PICK r : r = [shares |-> 0]
      OBVIOUS
    <3>2. r.shares \in Int
      BY <3>1
    <3> QED BY <3>2, SharesOfFew
  <2>7. TradedOf(trades, id, x) \in Int
    <3>1. PICK q, n : q = [k \in DOMAIN trades |-> Traded(trades[k], id, x)] /\ n = Len(trades)
      OBVIOUS
    <3>2. trades \in Seq(FillsFrom(ids))
      BY <1>1 DEF CallFilled
    <3>3. n \in Nat /\ Numbers(q, n)
      BY <3>1, <3>2, TradedIsNumber DEF Numbers
    <3>4. Summed(q, n) \in Int
      BY <3>3, SummedStep
    <3> QED BY <3>1, <3>4, Zenon DEF TradedOf
  <2> QED BY <1>3, <2>1, <2>2, <2>3, <2>4, <2>5, <2>6, <2>7
<1>9. /\ sent = rs /\ sent' = rs /\ jobs[t] = none /\ jobs'[t] = js
      /\ \A u \in Threads : u # t => jobs'[u] = jobs[u]
  BY <1>1, <1>2
<1>10. Balanced(ex.order_states, ex'.order_states, sent, sent', jobs[t], jobs'[t])
  BY <1>8, <1>9
<1> QED BY <1>4, <1>9, <1>10, FillsKept

\* An order is submitted.
LEMMA FillsSubmit ==
  ASSUME IsFiniteSet(Threads), GatewayInv, GatewayInv', FillsInv, NEW t \in Threads, Submit(t)
  PROVE  FillsInv'
<1>1. PICK all, order, id, cl : all = ex /\ order = msg[t].order /\ id = msg[t].order_id
                                /\ cl = msg[t].cl
  OBVIOUS
<1>2. PICK call : /\ call = submit_order(all, risk_ctx, order) /\ ex' = call.ex
                  /\ jobs' = [jobs EXCEPT ![t] = SubmitReports(t, call)]
  BY <1>1 DEF Submit
<1>3. /\ IsExchange(all, Registered) /\ IsOrder(order) /\ order.order_id = id
      /\ id \notin DOMAIN all.order_states /\ pc[t] = "submit" /\ cl \in ClOrdIds
  BY <1>1, HandlerIs DEF MessageOK, TypeOK, Submit
<1>4. CallKeeps(Registered, all, call, id, {id})
  BY <1>2, <1>3, SubmitOK
<1>5. PICK before, after, trades : before = all.order_states /\ after = call.ex.order_states
                                   /\ trades = call.trades
  OBVIOUS
<1>6. PICK answer, js : /\ answer = Ack(cl, id, after[id])
                        /\ js = <<answer>> \o FillsOf(id, cl, trades)
  OBVIOUS
<1>7. answer.shares = 0
  BY <1>6 DEF Ack, Answer, ExecutionReport
<1>8. /\ DOMAIN after = DOMAIN before \cup {id} /\ trades \in Seq(FillsFrom(DOMAIN before))
  BY <1>4, <1>5 DEF CallKeeps
<1>9. trades \in Seq(FillsFrom(DOMAIN after))
  <2>1. PICK ids, more : ids = DOMAIN before /\ more = DOMAIN after
    OBVIOUS
  <2>2. ids \subseteq more /\ trades \in Seq(FillsFrom(ids))
    BY <1>8, <2>1
  <2> QED BY <2>1, <2>2, MoreFills
<1>10. \A x : FilledIn(after, x) = FilledIn(before, x) + TradedOf(trades, id, x)
  <2> SUFFICES ASSUME NEW x
               PROVE  FilledIn(after, x) = FilledIn(before, x) + TradedOf(trades, id, x)
    OBVIOUS
  <2>1. FilledIn(call.ex.order_states, x) =
          FilledIn(all.order_states, x) + TradedOf(call.trades, order.order_id, x)
    BY <1>2, <1>3, SubmitAdds
  <2> QED BY <1>3, <1>5, <2>1
<1>11. CallFilled(before, after, id, cl, trades, answer, js)
  BY <1>3, <1>6, <1>7, <1>8, <1>9, <1>10 DEF CallFilled
<1>12. jobs' = [jobs EXCEPT ![t] = js] /\ sent' = sent /\ next_order_id' = next_order_id
  BY <1>1, <1>2, <1>5, <1>6 DEF SubmitReports, Submit
<1>13. before = ex.order_states /\ after = ex'.order_states /\ pc[t] \in {"submit", "amend"}
  BY <1>1, <1>2, <1>3, <1>5
<1> QED BY <1>11, <1>12, <1>13, FillsCall

\* An order is cancelled: nothing is filled.
LEMMA FillsCancel ==
  ASSUME IsFiniteSet(Threads), GatewayInv, GatewayInv', FillsInv, NEW t \in Threads, Cancel(t)
  PROVE  FillsInv'
<1>1. PICK all, id, cl : all = ex /\ id = msg[t].order_id /\ cl = msg[t].cl
  OBVIOUS
<1>2. PICK now : now = cancel_order(all, id)
  OBVIOUS
<1>3. PICK before, after, answer, trades :
        /\ before = all.order_states /\ after = now.order_states
        /\ answer = Answer(cl, id, "Cancelled", after[id]) /\ trades = <<>>
  OBVIOUS
<1>4. /\ ex' = now /\ pc[t] = "amend" /\ id \in DOMAIN before
      /\ jobs' = [jobs EXCEPT ![t] = <<answer>>] /\ sent' = sent
      /\ next_order_id' = next_order_id
  BY <1>1, <1>2, <1>3 DEF Cancel, Amendable
<1>5. IsExchange(all, Registered) /\ cl \in ClOrdIds
  BY <1>1, <1>4, HandlerIs DEF TypeOK, MessageOK
<1>6. DOMAIN after = DOMAIN before
  BY <1>2, <1>3, <1>5, CancelOK
<1>7. PICK js : js = <<answer>> \o FillsOf(id, cl, trades)
  OBVIOUS
<1>8. js = <<answer>>
  <2>1. FillsOf(id, cl, trades) = <<>>
    BY <1>3 DEF FillsOf
  <2> QED BY <1>7, <2>1
<1>9. \A x : FilledIn(after, x) = FilledIn(before, x) + TradedOf(trades, id, x)
  <2> SUFFICES ASSUME NEW x
               PROVE  FilledIn(after, x) = FilledIn(before, x) + TradedOf(trades, id, x)
    OBVIOUS
  <2>1. FilledIn(now.order_states, x) = FilledIn(all.order_states, x)
    BY <1>2, <1>5, CancelAdds
  <2>2. TradedOf(<<>>, id, x) = 0
    BY NoFillsNoShares
  <2>3. FilledIn(before, x) \in Int
    BY <1>3, <1>5, FilledIsNumber
  <2> QED BY <1>3, <2>1, <2>2, <2>3
<1>10. answer.shares = 0 /\ trades \in Seq(FillsFrom(DOMAIN after))
  BY <1>3 DEF Answer, ExecutionReport
<1>11. CallFilled(before, after, id, cl, trades, answer, js)
  BY <1>4, <1>5, <1>6, <1>7, <1>9, <1>10 DEF CallFilled
<1>12. /\ jobs' = [jobs EXCEPT ![t] = js] /\ before = ex.order_states
       /\ after = ex'.order_states /\ pc[t] \in {"submit", "amend"}
  BY <1>1, <1>3, <1>4, <1>8
<1> QED BY <1>4, <1>11, <1>12, FillsCall

\* An order is replaced, and may trade at once.
LEMMA FillsReplace ==
  ASSUME IsFiniteSet(Threads), GatewayInv, GatewayInv', FillsInv, NEW t \in Threads, Replace(t)
  PROVE  FillsInv'
<1>1. PICK all, m, id, cl : all = ex /\ m = msg[t] /\ id = m.order_id /\ cl = m.cl
  OBVIOUS
<1>2. PICK call : /\ call = modify_order(all, risk_ctx, id, m.price, m.quantity)
                  /\ ex' = call.ex
                  /\ jobs' = [jobs EXCEPT ![t] =
                       <<Answer(cl, id, "Replace", call.ex.order_states[id])>>
                         \o FillsOf(id, cl, call.trades)]
  BY <1>1 DEF Replace
<1>3. /\ pc[t] = "amend" /\ id \in DOMAIN all.order_states /\ m.kind = "G"
      /\ sent' = sent /\ next_order_id' = next_order_id
  BY <1>1 DEF Replace, Amendable
<1>4. /\ IsExchange(all, Registered) /\ m.price \in Prices /\ m.quantity \in Int
      /\ cl \in ClOrdIds
  BY <1>1, <1>3, HandlerIs DEF MessageOK, TypeOK
<1>5. PICK price \in Prices, quantity \in Int : price = m.price /\ quantity = m.quantity
  BY <1>4
<1>6. PICK ctx : ctx = risk_ctx /\ call = modify_order(all, ctx, id, price, quantity)
  BY <1>2, <1>5
<1>7. CallKeeps(Registered, all, call, id, {})
  BY <1>4, <1>6, ModifyOK
<1>8. PICK before, after, trades : before = all.order_states /\ after = call.ex.order_states
                                   /\ trades = call.trades
  OBVIOUS
<1>9. PICK answer, js : /\ answer = Answer(cl, id, "Replace", after[id])
                        /\ js = <<answer>> \o FillsOf(id, cl, trades)
  OBVIOUS
<1>10. answer.shares = 0
  BY <1>9 DEF Answer, ExecutionReport
<1>11. /\ DOMAIN after = DOMAIN before /\ trades \in Seq(FillsFrom(DOMAIN before))
  BY <1>7, <1>8 DEF CallKeeps
<1>12. \A x : FilledIn(after, x) = FilledIn(before, x) + TradedOf(trades, id, x)
  <2> SUFFICES ASSUME NEW x
               PROVE  FilledIn(after, x) = FilledIn(before, x) + TradedOf(trades, id, x)
    OBVIOUS
  <2>1. PICK R : R = Registered
    OBVIOUS
  <2>2. IsExchange(all, R)
    BY <1>4, <2>1
  <2>3. FilledIn(call.ex.order_states, x) =
          FilledIn(all.order_states, x) + TradedOf(call.trades, id, x)
    <3>1. Amended(R, all, ctx, id, price, quantity, call)
      BY <1>5, <1>6, <2>2 DEF Amended
    <3> QED BY <3>1, ModifyAdds
  <2> QED BY <1>8, <2>3
<1>13. CallFilled(before, after, id, cl, trades, answer, js)
  BY <1>3, <1>4, <1>8, <1>9, <1>10, <1>11, <1>12 DEF CallFilled
<1>14. /\ jobs' = [jobs EXCEPT ![t] = js] /\ before = ex.order_states
       /\ after = ex'.order_states /\ pc[t] \in {"submit", "amend"}
  BY <1>1, <1>2, <1>3, <1>8, <1>9
<1> QED BY <1>3, <1>13, <1>14, FillsCall

\* Every step keeps what was filled reported or due.
LEMMA FillsStep ==
  ASSUME IsFiniteSet(Threads), GatewayInv, GatewayInv', FillsInv, [Next]_vars
  PROVE  FillsInv'
<1>1. ASSUME NEW t \in Threads, AmendThrows(t) \/ AmendRefused(t) \/ Remap(t)
      PROVE  FillsInv'
  <2>1. DOMAIN jobs = Threads /\ ex' = ex /\ sent' = sent /\ next_order_id' = next_order_id
    BY <1>1, HandlerIs DEF AmendThrows, AmendRefused, Remap
  <2>2. \A u \in Threads : jobs'[u] = jobs[u]
    <3>1. CASE Remap(t) \/ AmendThrows(t)
      BY <3>1 DEF Remap, AmendThrows
    <3>2. CASE AmendRefused(t)
      <4>1. pc[t] = "amend" /\ jobs' = [jobs EXCEPT ![t] = <<>>]
        BY <3>2 DEF AmendRefused, Amendable, Finish
      <4>2. jobs[t] = <<>>
        BY <4>1, HandlerIs DEF JobsFit
      <4> QED BY <2>1, <4>1, <4>2
    <3> QED BY <1>1, <3>1, <3>2
  <2>3. GivenIds' \subseteq 1..MaxOrders
    BY <2>1 DEF FillsInv, GivenIds
  <2> QED BY <2>1, <2>2, <2>3, FillsStay
<1>2. ASSUME NEW t \in Threads, Receive(t) \/ Handle(t)
      PROVE  FillsInv'
  BY <1>1, <1>2, FillsReceive, FillsSubmit, FillsCancel, FillsReplace, FillsHead, FillsSend
     DEF Handle
<1>3. CASE UNCHANGED <<ex, jobs, sent, next_order_id>>
  BY <1>3 DEF FillsInv, FilledOf, SharesDue, GivenIds
<1>4. CASE \E session \in Sessions : onLogon(session) \/ onLogout(session)
  BY <1>3, <1>4 DEF onLogon, onLogout
<1>5. CASE UNCHANGED vars
  BY <1>3, <1>5 DEF vars
<1> QED BY <1>2, <1>4, <1>5 DEF Next

\* No reports are due from any thread.
LEMMA NothingDue ==
  ASSUME IsFiniteSet(Threads), NEW all, \A t \in Threads : all[t] = <<>>, NEW x
  PROVE  DueIn(all, x) = 0 /\ SharesOn(<<>>, x) = 0
<1>1. PICK N : N = Cardinality(Threads)
  OBVIOUS
<1>2. N \in Nat /\ Turns \in [1..N -> Threads]
  BY <1>1, TurnsOK
<1>3. SharesOn(<<>>, x) = 0
  <2>1. PICK r : r = [shares |-> 0]
    OBVIOUS
  <2>2. r.shares \in Int
    BY <2>1
  <2> QED BY <2>2, SharesOfFew
<1>4. PICK q : q = [k \in DOMAIN Turns |-> SharesOn(all[Turns[k]], x)]
  OBVIOUS
<1>5. \A k \in 1..N : q[k] = 0
  BY <1>2, <1>3, <1>4
<1>6. Summed(q, N) = 0
  BY <1>2, <1>5, SummedZero
<1>7. DueIn(all, x) = Summed(q, N)
  BY <1>1, <1>4, Zenon DEF DueIn
<1> QED BY <1>3, <1>6, <1>7

\* Nothing is filled, reported or due.
LEMMA FillsInit == ASSUME IsFiniteSet(Threads) PROVE Init => FillsInv
<1> SUFFICES ASSUME Init PROVE FillsInv
  OBVIOUS
<1>1. PICK all : all = jobs
  OBVIOUS
<1>2. /\ sent = <<>> /\ DOMAIN ex.order_states = {} /\ GivenIds = {}
      /\ \A t \in Threads : all[t] = <<>>
  BY <1>1 DEF Init, EmptyExchange, GivenIds
<1>3. ASSUME NEW x
      PROVE  FilledOf(x) = 0 /\ SharesOn(sent, x) = 0 /\ SharesDue(x) = 0
  <2>1. DueIn(all, x) = 0 /\ SharesOn(<<>>, x) = 0
    BY <1>2, NothingDue
  <2> QED BY <1>1, <1>2, <2>1 DEF FilledOf, SharesDue, DueIn
<1> QED BY <1>2, <1>3 DEF FillsInv

\* At every step of every handler, on any finite number of threads, what was filled
\* of an order was reported on it or is due to be.
THEOREM FillsInvAlways == ASSUME IsFiniteSet(Threads) PROVE Spec => []FillsInv
<1>1. GatewayInv /\ GatewayInv' /\ FillsInv /\ [Next]_vars => FillsInv'
  BY FillsStep
<1> QED BY <1>1, FillsInit, GatewayInvAlways, PTL DEF Spec

\* When no handler runs, the fills reported on each order add up to its filled
\* quantity: however handlers interleave, each trade was reported once on each side.
THEOREM FillsReportedAlways == ASSUME IsFiniteSet(Threads) PROVE Spec => []FillsReported
<1>1. GatewayInv /\ FillsInv => FillsReported
  <2> SUFFICES ASSUME GatewayInv, FillsInv, Quiet, NEW id \in DOMAIN ex.order_states
               PROVE  ex.order_states[id].filled_quantity = SharesOn(sent, id)
    BY DEF FillsReported
  <2>1. PICK all, where, rs, ids, some :
          /\ all = jobs /\ where = pc /\ rs = sent /\ ids = DOMAIN ex.order_states /\ some = ex
    OBVIOUS
  <2>2. /\ \A t \in Threads : JobsFit(ids, where[t], all[t]) /\ where[t] = "idle"
        /\ rs \in Seq(Reports) /\ ids \subseteq GivenIds
    BY <2>1 DEF GatewayInv, HandlersOK, TypeOK, Quiet
  <2>3. \A t \in Threads : all[t] = <<>>
    BY <2>2 DEF JobsFit
  <2>4. DueIn(all, id) = 0
    BY <2>3, NothingDue
  <2>5. id \in 1..MaxOrders
    BY <2>1, <2>2 DEF FillsInv
  <2>6. ex.order_states[id].filled_quantity = SharesOn(rs, id) + DueIn(all, id)
    BY <2>1, <2>5 DEF FillsInv, FilledOf, SharesDue, DueIn
  <2>7. SharesOn(rs, id) \in Int
    <3>1. Counted(rs)
      BY <2>2, AllCounted
    <3> QED BY <3>1, SharesAre
  <2> QED BY <2>1, <2>4, <2>6, <2>7
<1> QED BY <1>1, FillsInvAlways, GatewayInvAlways, PTL

-----------------------------------------------------------------------------
(* The handlers as functions, for one thread.                              *)

SameAt(i, f, g) == f[i] = g[i]

Fresh == [app |-> NewApp(Registered), reports |-> <<>>]

\* f has what the first n messages come to, after each of them.
Replayed(f, messages, n) ==
  f = [i \in 0..n |-> IF i = 0 THEN Fresh ELSE With(f[i - 1], messages[i])]

\* There is such a function, by the least number of messages for which there is none.
LEMMA ReplayExists ==
  ASSUME NEW n \in Nat, NEW messages
  PROVE  \E f : Replayed(f, messages, n)
<1> DEFINE T == {k \in 0..n : \E f : Replayed(f, messages, k)}
<1>1. 0 \in T
  <2>1. PICK f : f = [i \in 0..0 |-> Fresh]
    OBVIOUS
  <2>2. Replayed(f, messages, 0)
    BY <2>1 DEF Replayed
  <2> QED BY <2>2
<1>2. ASSUME NEW k \in 1..n, k - 1 \in T
      PROVE  k \in T
  <2>1. PICK j \in 0..n : j = k - 1
    OBVIOUS
  <2>2. PICK f : Replayed(f, messages, j)
    BY <1>2, <2>1
  <2>3. PICK last : last = With(f[j], messages[k])
    OBVIOUS
  <2>4. PICK g : g = [i \in 0..k |-> IF i = k THEN last ELSE f[i]]
    OBVIOUS
  <2>5. ASSUME NEW i \in 0..k
        PROVE  g[i] = IF i = 0 THEN Fresh ELSE With(g[i - 1], messages[i])
    <3>1. CASE i = k
      <4>1. g[i] = last /\ i # 0 /\ i - 1 = j /\ j \in 0..k /\ j # k
        BY <2>1, <2>4, <3>1
      <4>2. g[i - 1] = f[j]
        BY <2>4, <4>1
      <4> QED BY <2>3, <3>1, <4>1, <4>2, Zenon
    <3>2. CASE i # k
      <4>1. i \in 0..j /\ g[i] = f[i] /\ (i # 0 => g[i - 1] = f[i - 1])
        BY <2>1, <2>4, <3>2
      <4>2. f[i] = IF i = 0 THEN Fresh ELSE With(f[i - 1], messages[i])
        BY <2>2, <4>1, Zenon DEF Replayed
      <4> QED BY <4>1, <4>2, Zenon
    <3> QED BY <3>1, <3>2
  <2>6. Replayed(g, messages, k)
    <3>1. g = [i \in 0..k |-> g[i]]
      BY <2>4
    <3>2. g = [i \in 0..k |-> IF i = 0 THEN Fresh ELSE With(g[i - 1], messages[i])]
      BY <2>5, <3>1, Zenon
    <3> QED BY <3>2 DEF Replayed
  <2> QED BY <2>6
<1>3. 0..n \subseteq T
  <2> HIDE DEF T
  <2> QED BY <1>1, <1>2, Inductive
<1> QED BY <1>3

\* ReplayOf is the last value of one.
LEMMA ReplayIs ==
  ASSUME NEW n \in Nat, NEW messages
  PROVE  \E f : Replayed(f, messages, n) /\ ReplayOf(messages, n) = f[n]
<1>1. PICK g : Replayed(g, messages, n)
  BY ReplayExists
<1>2. PICK f : f = CHOOSE h : h = [i \in 0..n |->
                     IF i = 0 THEN [app |-> NewApp(Registered), reports |-> <<>>]
                              ELSE With(h[i - 1], messages[i])]
  OBVIOUS
<1>3. Replayed(f, messages, n)
  BY <1>1, <1>2, Zenon DEF Replayed, Fresh
<1>4. ReplayOf(messages, n) = f[n]
  BY <1>2, Zenon DEF ReplayOf
<1> QED BY <1>3, <1>4

\* Two that begin with the same messages agree on them.
LEMMA ReplayedAgree ==
  ASSUME NEW m \in Nat, NEW n \in Nat, NEW ms, NEW ns, NEW f, NEW g,
         Replayed(f, ms, m), Replayed(g, ns, n), m <= n, SameUpTo(m, ms, ns)
  PROVE  SameAt(m, f, g)
<1> DEFINE T == {i \in 0..m : f[i] = g[i]}
<1>1. 0 \in T
  BY DEF Replayed
<1>2. ASSUME NEW i \in 1..m, i - 1 \in T PROVE i \in T
  <2>1. /\ i \in 0..m /\ i \in 0..n /\ i # 0
        /\ ns[i] = ms[i] /\ f[i - 1] = g[i - 1]
    BY <1>2 DEF SameUpTo
  <2>2. f[i] = With(f[i - 1], ms[i])
    BY <2>1, Zenon DEF Replayed
  <2>3. g[i] = With(g[i - 1], ns[i])
    BY <2>1, Zenon DEF Replayed
  <2> QED BY <2>1, <2>2, <2>3
<1>3. 0..m \subseteq T
  <2> HIDE DEF T
  <2> QED BY <1>1, <1>2, Inductive
<1> QED BY <1>3 DEF SameAt

\* What no message comes to, and what one more does.
LEMMA ReplayMore ==
  ASSUME NEW n \in Nat, NEW before, NEW after, SameUpTo(n, before, after)
  PROVE  /\ ReplayOf(before, 0) = Fresh
         /\ ReplayOf(after, n + 1) = With(ReplayOf(before, n), after[n + 1])
<1>1. ReplayOf(before, 0) = Fresh
  <2>1. PICK z \in Nat : z = 0
    OBVIOUS
  <2>2. PICK f : Replayed(f, before, z) /\ ReplayOf(before, z) = f[z]
    BY ReplayIs
  <2>3. f[z] = Fresh
    BY <2>1, <2>2 DEF Replayed
  <2> QED BY <2>1, <2>2, <2>3
<1>2. PICK f : Replayed(f, before, n) /\ ReplayOf(before, n) = f[n]
  BY ReplayIs
<1>3. PICK k \in Nat : k = n + 1
  OBVIOUS
<1>4. PICK g : Replayed(g, after, k) /\ ReplayOf(after, k) = g[k]
  BY ReplayIs
<1>5. SameAt(n, f, g)
  <2>1. n <= k
    BY <1>3
  <2> QED BY <1>2, <1>4, <2>1, ReplayedAgree
<1>6. g[k] = With(g[n], after[k])
  <2>1. k \in 0..k /\ k # 0 /\ k - 1 = n
    BY <1>3
  <2>2. g[k] = With(g[k - 1], after[k])
    BY <1>4, <2>1, Zenon DEF Replayed
  <2> QED BY <2>1, <2>2
<1>7. f[n] = g[n]
  BY <1>5 DEF SameAt
<1> QED BY <1>1, <1>2, <1>3, <1>4, <1>6, <1>7

\* As many as the reports, one after the other.
LEMMA SaidAre ==
  ASSUME NEW S, NEW rs \in Seq(S)
  PROVE  SaidBy(rs) \in Seq({Said(r) : r \in S}) /\ DOMAIN SaidBy(rs) = DOMAIN rs
<1>1. PICK n \in Nat : n = Len(rs) /\ DOMAIN rs = 1..n
  OBVIOUS
<1>2. PICK said : said = SaidBy(rs)
  OBVIOUS
<1>3. said = [i \in 1..n |-> Said(rs[i])]
  BY <1>1, <1>2 DEF SaidBy
<1>4. \A i \in 1..n : said[i] \in {Said(r) : r \in S}
  BY <1>1, <1>3
<1> QED BY <1>1, <1>2, <1>3, <1>4

\* The same of what reports will say.
LEMMA ForetoldAre ==
  ASSUME NEW S, NEW js \in Seq(S), NEW a
  PROVE  /\ ForetoldBy(a, js) \in Seq({Foretold(a, r) : r \in S})
         /\ DOMAIN ForetoldBy(a, js) = DOMAIN js
<1>1. PICK n \in Nat : n = Len(js) /\ DOMAIN js = 1..n
  OBVIOUS
<1>2. PICK told : told = ForetoldBy(a, js)
  OBVIOUS
<1>3. told = [i \in 1..n |-> Foretold(a, js[i])]
  BY <1>1, <1>2 DEF ForetoldBy
<1>4. \A i \in 1..n : told[i] \in {Foretold(a, r) : r \in S}
  BY <1>1, <1>3
<1> QED BY <1>1, <1>2, <1>3, <1>4

\* The length of a sequence is its last place.
LEMMA LengthIs ==
  ASSUME NEW S, NEW q \in Seq(S), NEW n \in Nat, DOMAIN q = 1..n
  PROVE  Len(q) = n
<1>1. Len(q) \in Nat /\ DOMAIN q = 1..Len(q)
  OBVIOUS
<1> QED BY <1>1

\* The reports sent, and then those to come.
Tale(a, rs, js) == SaidBy(rs) \o ForetoldBy(a, js)

\* Without reports to come it is what was sent.
LEMMA NothingToCome ==
  ASSUME NEW S, NEW rs \in Seq(S), NEW a
  PROVE  Tale(a, rs, <<>>) = SaidBy(rs)
<1>1. ForetoldBy(a, <<>>) = <<>>
  BY DEF ForetoldBy
<1>2. PICK T, said : said = SaidBy(rs) /\ said \in Seq(T)
  BY SaidAre
<1>3. said \o <<>> = said
  BY <1>2
<1> QED BY <1>1, <1>2, <1>3, Zenon DEF Tale

\* The first of the reports to come is sent.
LEMMA TaleGoesOn ==
  ASSUME NEW S, NEW rs \in Seq(S), NEW js \in Seq(S), js # <<>>, NEW a,
         js[1].exec_type # "?"
  PROVE  Tale(a, Append(rs, js[1]), Tail(js)) = Tale(a, rs, js)
<1>1. PICK more, rest, r : more = Append(rs, r) /\ rest = Tail(js) /\ r = js[1]
  OBVIOUS
<1>2. PICK e : e = Said(r)
  OBVIOUS
<1>3. PICK U : U = {Said(x) : x \in S} \cup {Foretold(a, x) : x \in S}
  OBVIOUS
<1>4. PICK said, told, toldAll, saidMore :
        /\ said = SaidBy(rs) /\ told = ForetoldBy(a, rest)
        /\ toldAll = ForetoldBy(a, js) /\ saidMore = SaidBy(more)
  OBVIOUS
<1>5. PICK m \in Nat : m = Len(rs) /\ DOMAIN rs = 1..m
  OBVIOUS
<1>6. PICK n \in Nat : n = Len(js) /\ DOMAIN js = 1..n
  OBVIOUS
<1>7. n # 0
  BY <1>6, EmptySeq
<1>8. PICK k \in Nat : n = k + 1 /\ k = n - 1
  BY <1>7
<1>9. /\ r \in S /\ more \in Seq(S) /\ rest \in Seq(S)
      /\ DOMAIN rs = 1..m /\ DOMAIN js = 1..n
      /\ DOMAIN more = 1..(m + 1) /\ more[m + 1] = r /\ \A i \in 1..m : more[i] = rs[i]
      /\ DOMAIN rest = 1..k /\ \A i \in 1..k : rest[i] = js[i + 1]
  <2>1. r \in S /\ DOMAIN rs = 1..m /\ DOMAIN js = 1..n
    <3>1. DOMAIN rs = 1..m /\ DOMAIN js = 1..n /\ n = k + 1
      BY <1>5, <1>6, <1>8
    <3>2. 1 \in DOMAIN js
      BY <3>1
    <3>3. r = js[1]
      BY <1>1
    <3> QED BY <3>1, <3>2, <3>3
  <2>2. /\ more \in Seq(S) /\ DOMAIN more = 1..(m + 1) /\ more[m + 1] = r
        /\ \A i \in 1..m : more[i] = rs[i]
    BY <1>1, <1>5, <2>1
  <2>3. /\ rest \in Seq(S) /\ Len(rest) = k /\ DOMAIN rest = 1..k
        /\ \A i \in 1..k : rest[i] = js[i + 1]
    <3>1. rest = Tail(js)
      BY <1>1
    <3>2. rest \in Seq(S) /\ Len(rest) = Len(js) - 1
          /\ \A i \in 1..Len(rest) : rest[i] = js[i + 1]
      BY <3>1, HeadTailProperties
    <3>3. Len(rest) = n - 1
      BY <1>6, <3>2
    <3>4. Len(rest) = k
      BY <1>8, <3>3
    <3> QED BY <3>2, <3>4
  <2> QED BY <2>1, <2>2, <2>3
<1>10. e \in U /\ Foretold(a, r) = e
  BY <1>1, <1>2, <1>3, <1>9 DEF Foretold
<1>11. /\ said \in Seq(U) /\ told \in Seq(U) /\ toldAll \in Seq(U) /\ saidMore \in Seq(U)
      /\ Len(said) = m /\ Len(told) = k /\ Len(toldAll) = n /\ Len(saidMore) = m + 1
  <2>1. /\ said \in Seq({Said(x) : x \in S}) /\ DOMAIN said = 1..m
        /\ saidMore \in Seq({Said(x) : x \in S}) /\ DOMAIN saidMore = 1..(m + 1)
    BY <1>4, <1>9, SaidAre
  <2>2. /\ told \in Seq({Foretold(a, x) : x \in S}) /\ DOMAIN told = 1..k
        /\ toldAll \in Seq({Foretold(a, x) : x \in S}) /\ DOMAIN toldAll = 1..n
    <3>1. /\ ForetoldBy(a, rest) \in Seq({Foretold(a, x) : x \in S})
          /\ DOMAIN ForetoldBy(a, rest) = DOMAIN rest
      BY <1>9, ForetoldAre
    <3>2. /\ ForetoldBy(a, js) \in Seq({Foretold(a, x) : x \in S})
          /\ DOMAIN ForetoldBy(a, js) = DOMAIN js
      BY ForetoldAre
    <3> QED BY <1>4, <1>9, <3>1, <3>2, Zenon
  <2>3. PICK A, B : A = {Said(x) : x \in S} /\ B = {Foretold(a, x) : x \in S}
    OBVIOUS
  <2>4. A \subseteq U /\ B \subseteq U
    BY <1>3, <2>3
  <2>5. said \in Seq(A) /\ saidMore \in Seq(A) /\ told \in Seq(B) /\ toldAll \in Seq(B)
    BY <2>1, <2>2, <2>3
  <2>6. said \in Seq(U) /\ saidMore \in Seq(U) /\ told \in Seq(U) /\ toldAll \in Seq(U)
    BY <2>4, <2>5
  <2>7. m + 1 \in Nat
    OBVIOUS
  <2>8. Len(said) = m /\ Len(told) = k /\ Len(toldAll) = n /\ Len(saidMore) = m + 1
    BY <2>1, <2>2, <2>6, <2>7, LengthIs
  <2> QED BY <2>6, <2>8
<1>12. saidMore = said \o <<e>>
  <2>1. saidMore[m + 1] = e /\ \A i \in 1..m : saidMore[i] = said[i]
    <3>1. /\ \A i \in 1..m : said[i] = Said(rs[i])
          /\ \A i \in 1..(m + 1) : saidMore[i] = Said(more[i])
      BY <1>4, <1>9 DEF SaidBy
    <3>2. m + 1 \in 1..(m + 1) /\ \A i \in 1..m : i \in 1..(m + 1)
      OBVIOUS
    <3> QED BY <1>2, <1>9, <3>1, <3>2
  <2>2. saidMore = Append(said, e)
    BY <1>10, <1>11, <2>1
  <2>3. Append(said, e) = said \o <<e>>
    BY <1>10, <1>11, AppendIsConcat
  <2> QED BY <2>2, <2>3
<1>13. toldAll = <<e>> \o told
  <2>1. toldAll[1] = e /\ \A i \in 1..k : toldAll[i + 1] = told[i]
    <3>1. /\ \A i \in 1..n : toldAll[i] = Foretold(a, js[i])
          /\ \A i \in 1..k : told[i] = Foretold(a, rest[i])
      BY <1>4, <1>9 DEF ForetoldBy
    <3>2. 1 \in 1..n /\ \A i \in 1..k : i + 1 \in 1..n
      BY <1>8
    <3> QED BY <1>1, <1>9, <1>10, <3>1, <3>2
  <2>2. PICK q : q = <<e>> \o told
    OBVIOUS
  <2>3. q[1] = e /\ \A j \in DOMAIN told : q[1 + j] = told[j]
    BY <1>10, <1>11, <2>2, AnswerThen
  <2>4. q \in Seq(U) /\ Len(q) = n /\ DOMAIN told = 1..k
    BY <1>8, <1>10, <1>11, <2>2
  <2>5. ASSUME NEW i \in 1..n PROVE toldAll[i] = q[i]
    <3>1. CASE i = 1
      BY <3>1, <2>1, <2>3
    <3>2. CASE i # 1
      <4>1. n = k + 1
        BY <1>8
      <4>2. PICK j \in 1..k : i = 1 + j /\ i = j + 1
        BY <3>2, <4>1
      <4>3. q[1 + j] = told[j] /\ toldAll[j + 1] = told[j]
        BY <2>1, <2>3, <2>4
      <4> QED BY <4>2, <4>3
    <3> QED BY <3>1, <3>2
  <2>6. toldAll = q
    <3>1. toldAll \in Seq(U) /\ q \in Seq(U) /\ Len(toldAll) = Len(q)
          /\ \A i \in 1..Len(toldAll) : toldAll[i] = q[i]
      BY <1>11, <2>4, <2>5
    <3> QED BY <3>1, SeqEqual
  <2> QED BY <2>2, <2>6
<1>14. (said \o <<e>>) \o told = said \o (<<e>> \o told)
  <2>1. <<e>> \in Seq(U)
    BY <1>10
  <2>2. said \in Seq(U) /\ told \in Seq(U)
    BY <1>11
  <2> QED BY <2>1, <2>2, ConcatAssociative
<1>15. Tale(a, more, rest) = saidMore \o told /\ Tale(a, rs, js) = said \o toldAll
  BY <1>4, Zenon DEF Tale
<1> QED BY <1>1, <1>12, <1>13, <1>14, <1>15, Zenon

\* The first of the reports to come is worked on, and will say the same.
LEMMA TaleKept ==
  ASSUME NEW S, NEW js \in Seq(S), js # <<>>, NEW head, NEW a, NEW rs,
         Foretold(a, head) = Foretold(a, js[1])
  PROVE  Tale(a, rs, WithHead(js, head)) = Tale(a, rs, js)
<1>1. PICK new : new = WithHead(js, head)
  OBVIOUS
<1>2. DOMAIN new = DOMAIN js
  BY <1>1 DEF WithHead
<1>3. \A i \in DOMAIN js : new[i] = IF i = 1 THEN head ELSE js[i]
  BY <1>1 DEF WithHead
<1>4. \A i \in DOMAIN js : Foretold(a, new[i]) = Foretold(a, js[i])
  BY <1>3
<1>5. ForetoldBy(a, new) = ForetoldBy(a, js)
  BY <1>2, <1>4, Zenon DEF ForetoldBy
<1> QED BY <1>1, <1>5, Zenon DEF Tale

\* What the reports of a call will say: the answer, and what FillReports says.
LEMMA CallForetold ==
  ASSUME NEW F, NEW trades \in Seq(F), NEW id, NEW cl, cl # NoName, NEW a,
         NEW answer, answer.exec_type # "?", Said(answer) = answer
  PROVE  ForetoldBy(a, <<answer>> \o FillsOf(id, cl, trades))
           = <<answer>> \o FillReports(a, cl, id, trades)
<1>1. PICK n \in Nat : n = Len(trades)
  OBVIOUS
<1>2. PICK N \in Nat : N = 2 * n
  OBVIOUS
<1>3. PICK g, h : g = FillsOf(id, cl, trades) /\ h = FillReports(a, cl, id, trades)
  OBVIOUS
<1>4. DOMAIN g = 1..N /\ g = [i \in DOMAIN g |-> g[i]]
  BY <1>1, <1>2, <1>3, Zenon DEF FillsOf
<1>5. DOMAIN h = 1..N /\ h = [i \in DOMAIN h |-> h[i]]
  BY <1>1, <1>2, <1>3, Zenon DEF FillReports
<1>6. ASSUME NEW i \in 1..N PROVE Foretold(a, g[i]) = h[i]
  <2>1. PICK f : f = trades[(i + 1) \div 2]
    OBVIOUS
  <2>2. g[i] = IF i % 2 = 1 THEN FillOf(id, cl, f) ELSE FillOf(f.order_id, NoName, f)
    BY <1>1, <1>2, <1>3, <2>1, Zenon DEF FillsOf
  <2>3. h[i] = IF i % 2 = 1
                 THEN FillReport(cl, id, f.quantity, f.price, a.ex.order_states[id])
                 ELSE FillReport(a.orderid_to_clordid_map[f.order_id], f.order_id,
                                 f.quantity, f.price, a.ex.order_states[f.order_id])
    BY <1>1, <1>2, <1>3, <2>1, Zenon DEF FillReports
  <2>4. Foretold(a, FillOf(id, cl, f))
          = FillReport(cl, id, f.quantity, f.price, a.ex.order_states[id])
    <3>1. PICK r : r = FillOf(id, cl, f)
      OBVIOUS
    <3>2. /\ r.exec_type = "?" /\ r.cl = cl /\ r.order_id = id
          /\ r.shares = f.quantity /\ r.px = f.price
      BY <3>1 DEF FillOf
    <3>3. Foretold(a, r) = FillReport(r.cl, r.order_id, r.shares, r.px,
                                      a.ex.order_states[r.order_id])
      BY <3>2, Zenon DEF Foretold
    <3> QED BY <3>1, <3>2, <3>3, Zenon
  <2>5. Foretold(a, FillOf(f.order_id, NoName, f))
          = FillReport(a.orderid_to_clordid_map[f.order_id], f.order_id,
                       f.quantity, f.price, a.ex.order_states[f.order_id])
    <3>1. PICK r : r = FillOf(f.order_id, NoName, f)
      OBVIOUS
    <3>2. /\ r.exec_type = "?" /\ r.cl = NoName /\ r.order_id = f.order_id
          /\ r.shares = f.quantity /\ r.px = f.price
      BY <3>1 DEF FillOf
    <3>3. Foretold(a, r) = FillReport(a.orderid_to_clordid_map[r.order_id], r.order_id,
                                      r.shares, r.px, a.ex.order_states[r.order_id])
      BY <3>2, Zenon DEF Foretold
    <3> QED BY <3>1, <3>2, <3>3, Zenon
  <2>6. CASE i % 2 = 1
    BY <2>2, <2>3, <2>4, <2>6, Zenon
  <2>7. CASE i % 2 # 1
    BY <2>2, <2>3, <2>5, <2>7, Zenon
  <2> QED BY <2>6, <2>7
<1>7. PICK S : /\ answer \in S /\ g \in Seq(S) /\ h \in Seq(S)
  <2>1. PICK T : T = {answer} \cup {g[i] : i \in 1..N} \cup {h[i] : i \in 1..N}
    OBVIOUS
  <2>2. answer \in T /\ \A i \in 1..N : g[i] \in T /\ h[i] \in T
    BY <2>1
  <2>3. g \in Seq(T) /\ h \in Seq(T)
    BY <1>4, <1>5, <2>2
  <2> QED BY <2>2, <2>3
<1>8. PICK js, rs : js = <<answer>> \o g /\ rs = <<answer>> \o h
  OBVIOUS
<1>9. Len(g) = N /\ Len(h) = N
  BY <1>4, <1>5, <1>7, LengthIs
<1>10. /\ DOMAIN js = 1..(1 + N) /\ js[1] = answer /\ \A j \in 1..N : js[1 + j] = g[j]
  <2>1. /\ DOMAIN js = 1..(1 + Len(g)) /\ js[1] = answer /\ \A j \in DOMAIN g : js[1 + j] = g[j]
    BY <1>7, <1>8, AnswerThen
  <2> QED BY <1>4, <1>9, <2>1
<1>11. /\ DOMAIN rs = 1..(1 + N) /\ rs[1] = answer /\ \A j \in 1..N : rs[1 + j] = h[j]
  <2>1. /\ DOMAIN rs = 1..(1 + Len(h)) /\ rs[1] = answer /\ \A j \in DOMAIN h : rs[1 + j] = h[j]
    BY <1>7, <1>8, AnswerThen
  <2> QED BY <1>5, <1>9, <2>1
<1>12. ASSUME NEW i \in 1..(1 + N) PROVE Foretold(a, js[i]) = rs[i]
  <2>1. CASE i = 1
    <3>1. Foretold(a, answer) = answer
      BY Zenon DEF Foretold
    <3> QED BY <1>10, <1>11, <2>1, <3>1
  <2>2. CASE i # 1
    <3>1. PICK j \in 1..N : i = 1 + j
      BY <2>2
    <3> QED BY <1>6, <1>10, <1>11, <3>1
  <2> QED BY <2>1, <2>2
<1>13. rs = [i \in DOMAIN rs |-> rs[i]]
  <2>1. rs \in Seq(S)
    BY <1>7, <1>8
  <2> QED BY <2>1
<1>14. ForetoldBy(a, js) = rs
  BY <1>10, <1>11, <1>12, <1>13, Zenon DEF ForetoldBy
<1> QED BY <1>3, <1>8, <1>14, Zenon

CallStages == {"submit", "amend", "remap"}

\* What a handler comes to that only has reports to send.
LEMMA ProspectIs ==
  \A t : pc[t] \notin CallStages =>
           Prospect(t) = [app |-> app, reports |-> Tale(app, sent, jobs[t])]
BY DEF CallStages, Prospect, AfterReports, Tale

\* The same after a step.
LEMMA ProspectWillBe ==
  \A t : pc'[t] \notin CallStages =>
           Prospect(t)' = [app |-> app', reports |-> Tale(app', sent', jobs'[t])]
BY DEF CallStages, Prospect, AfterReports, Tale

\* The maps and the exchange stay as they are.
AppStays ==
  UNCHANGED <<next_order_id, clordid_map, orderid_to_clordid_map, ex>>

\* Then the record of them does too.
LEMMA AppStaysSo == AppStays => app' = app
BY DEF AppStays, app

\* A handler looks up, reads or stamps the first of its reports, which will say the
\* same as before.
LEMMA HeadReplays ==
  ASSUME GatewayInv, NEW t \in Threads, pc[t] \in {"lookup", "read", "stamp"},
         NEW where \in {"read", "stamp", "send"}, pc' = [pc EXCEPT ![t] = where],
         NEW a, a = app, NEW js, js = jobs[t], NEW head,
         jobs' = [jobs EXCEPT ![t] = WithHead(js, head)],
         sent' = sent, AppStays, Foretold(a, head) = Foretold(a, js[1])
  PROVE  Prospect(t)' = Prospect(t) /\ pc'[t] # "lookup"
<1>1. PICK ids, rs : ids = DOMAIN ex.order_states /\ rs = sent
  OBVIOUS
<1>2. JobsFit(ids, pc[t], js) /\ DOMAIN pc = Threads /\ DOMAIN jobs = Threads
  BY <1>1, HandlerIs
<1>3. js # <<>> /\ js \in Seq(FillJobsOn(ids) \cup Drafts \cup Reports)
  BY <1>2 DEF JobsFit
<1>4. PICK S : js \in Seq(S)
  BY <1>3
<1>5. PICK new : new = WithHead(js, head)
  OBVIOUS
<1>6. Tale(a, rs, new) = Tale(a, rs, js)
  BY <1>3, <1>4, <1>5, TaleKept
<1>7. Prospect(t) = [app |-> a, reports |-> Tale(a, rs, js)]
  <2>1. pc[t] \notin CallStages
    BY DEF CallStages
  <2> QED BY <1>1, <2>1, ProspectIs
<1>8. pc'[t] = where /\ jobs'[t] = new /\ app' = a
  BY <1>2, <1>5, AppStaysSo
<1>9. Prospect(t)' = [app |-> a, reports |-> Tale(a, rs, new)]
  <2>1. pc'[t] \notin CallStages
    BY <1>8 DEF CallStages
  <2> QED BY <1>1, <1>8, <2>1, ProspectWillBe
<1> QED BY <1>6, <1>7, <1>8, <1>9

\* The ClOrdID that is found is the one that was to be found.
LEMMA LookupReplays ==
  ASSUME GatewayInv, NEW t \in Threads, Lookup(t), jobs[t][1].cl = NoName
  PROVE  Prospect(t)' = Prospect(t) /\ pc'[t] # "lookup"
<1>1. PICK ids, js, a : ids = DOMAIN ex.order_states /\ js = jobs[t] /\ a = app
  OBVIOUS
<1>2. /\ pc[t] = "lookup" /\ js # <<>>
      /\ js[1] \in FillJobsOn(ids) /\ js[1].order_id \in GivenIds
  <2>1. pc[t] = "lookup" /\ JobsFit(ids, "lookup", js) /\ ids \subseteq GivenIds
    BY <1>1, HandlerIs DEF Lookup
  <2>2. js # <<>> /\ js[1] \in FillJobsOn(ids)
    BY <2>1 DEF JobsFit
  <2> QED BY <2>1, <2>2 DEF FillJobsOn
<1>3. PICK cl : cl = orderid_to_clordid_map[js[1].order_id]
  OBVIOUS
<1>4. js[1].order_id \in DOMAIN orderid_to_clordid_map /\ cl \in ClOrdIds
  BY <1>2, <1>3 DEF GatewayInv, TypeOK
<1>5. PICK head : head = [js[1] EXCEPT !.cl = cl]
  OBVIOUS
<1>6. /\ jobs' = [jobs EXCEPT ![t] = WithHead(js, head)]
      /\ pc' = [pc EXCEPT ![t] = "read"]
  <2>1. jobs' = [jobs EXCEPT ![t][1].cl = cl] /\ pc' = [pc EXCEPT ![t] = "read"]
    BY <1>1, <1>3, <1>4, Zenon DEF Lookup, Goto
  <2>2. jobs' = [jobs EXCEPT ![t] = [js EXCEPT ![1] = head]]
    BY <1>1, <1>5, <2>1, Zenon
  <2> QED BY <2>1, <2>2, Zenon DEF WithHead
<1>7. Foretold(a, head) = Foretold(a, js[1])
  <2>1. PICK r : r = js[1]
    OBVIOUS
  <2>2. /\ r \in FillJobsOn(ids) /\ r.cl = NoName /\ r.exec_type = "?" /\ cl # NoName
        /\ cl = a.orderid_to_clordid_map[r.order_id]
    BY <1>1, <1>2, <1>3, <1>4, <2>1 DEF FillJobsOn, NoName, ClOrdIds, app
  <2>3. /\ head.cl = cl /\ head.exec_type = "?" /\ head.order_id = r.order_id
        /\ head.shares = r.shares /\ head.px = r.px
    BY <1>5, <2>1, <2>2 DEF FillJobsOn
  <2>4. Foretold(a, r) = FillReport(cl, r.order_id, r.shares, r.px,
                                    a.ex.order_states[r.order_id])
    BY <2>2, Zenon DEF Foretold
  <2>5. Foretold(a, head) = FillReport(head.cl, head.order_id, head.shares, head.px,
                                       a.ex.order_states[head.order_id])
    BY <2>2, <2>3, Zenon DEF Foretold
  <2> QED BY <2>1, <2>3, <2>4, <2>5, Zenon
<1>8. sent' = sent /\ AppStays
  BY DEF Lookup, maps, AppStays
<1>9. pc[t] \in {"lookup", "read", "stamp"}
  BY <1>2
<1> QED BY <1>1, <1>6, <1>7, <1>8, <1>9, HeadReplays

\* The state that is read is the one that was to be read.
LEMMA ReadReplays ==
  ASSUME GatewayInv, NEW t \in Threads, ReadState(t)
  PROVE  Prospect(t)' = Prospect(t) /\ pc'[t] # "lookup"
<1>1. PICK ids, js, a : ids = DOMAIN ex.order_states /\ js = jobs[t] /\ a = app
  OBVIOUS
<1>2. pc[t] = "read" /\ js[1] \in FillJobsOn(ids) /\ js[1].cl # NoName
  BY <1>1, HandlerIs DEF ReadState, JobsFit
<1>3. PICK r, st : r = js[1] /\ st = ex.order_states[r.order_id]
  OBVIOUS
<1>4. PICK head : head = FillReport(r.cl, r.order_id, r.shares, r.px, st)
  OBVIOUS
<1>5. /\ jobs' = [jobs EXCEPT ![t] = WithHead(js, head)]
      /\ pc' = [pc EXCEPT ![t] = "stamp"]
  BY <1>1, <1>3, <1>4 DEF ReadState, StateToReport, Goto, WithHead
<1>6. Foretold(a, head) = Foretold(a, js[1])
  <2>1. r.exec_type = "?" /\ r.cl # NoName /\ st = a.ex.order_states[r.order_id]
    BY <1>1, <1>2, <1>3 DEF FillJobsOn, app
  <2>2. Foretold(a, r) = head
    BY <1>4, <2>1, Zenon DEF Foretold
  <2>3. head.exec_type # "?" /\ Said(head) = head
    BY <1>4 DEF FillReport, ExecutionReport, Said
  <2>4. Foretold(a, head) = head
    BY <2>3, Zenon DEF Foretold
  <2> QED BY <1>3, <2>2, <2>4
<1>7. sent' = sent /\ AppStays
  BY DEF ReadState, maps, AppStays
<1>8. pc[t] \in {"lookup", "read", "stamp"}
  BY <1>2
<1> QED BY <1>1, <1>5, <1>6, <1>7, <1>8, HeadReplays

\* An ExecID and targets change nothing that is said.
LEMMA StampReplays ==
  ASSUME GatewayInv, NEW t \in Threads, Stamp(t)
  PROVE  Prospect(t)' = Prospect(t) /\ pc'[t] # "lookup"
<1>1. PICK js, a : js = jobs[t] /\ a = app
  OBVIOUS
<1>2. pc[t] = "stamp" /\ js[1] \in Drafts
  BY <1>1, HandlerIs DEF Stamp, JobsFit
<1>3. PICK targets : targets = IF active_sessions = {} THEN {Fallback(t)} ELSE active_sessions
  OBVIOUS
<1>4. PICK r, head : r = js[1] /\ head = Stamped(r, next_exec_id, targets)
  OBVIOUS
<1>5. /\ jobs' = [jobs EXCEPT ![t] = WithHead(js, head)]
      /\ pc' = [pc EXCEPT ![t] = "send"]
  <2>1. jobs' = [jobs EXCEPT ![t][1] = Stamped(@, next_exec_id, targets)]
        /\ pc' = [pc EXCEPT ![t] = "send"]
    BY <1>3, Zenon DEF Stamp, Goto
  <2>2. jobs' = [jobs EXCEPT ![t] = [js EXCEPT ![1] = head]]
    BY <1>1, <1>4, <2>1, Zenon
  <2> QED BY <2>1, <2>2, Zenon DEF WithHead
<1>6. Foretold(a, head) = Foretold(a, js[1])
  <2>1. r.exec_type # "?"
    BY <1>2, <1>4 DEF Drafts, ExecType
  <2>2. head.exec_type = r.exec_type /\ Said(head) = Said(r)
    BY <1>4 DEF Stamped, Said
  <2> QED BY <1>4, <2>1, <2>2, Zenon DEF Foretold
<1>7. sent' = sent /\ AppStays
  BY DEF Stamp, maps, AppStays
<1>8. pc[t] \in {"lookup", "read", "stamp"}
  BY <1>2
<1> QED BY <1>1, <1>5, <1>6, <1>7, <1>8, HeadReplays

\* A report that is sent was the next to come.
LEMMA SendReplays ==
  ASSUME GatewayInv, NEW t \in Threads, Send(t)
  PROVE  /\ Prospect(t)' = Prospect(t)
         /\ pc'[t] = "lookup" => jobs'[t][1].cl = NoName
<1>1. PICK ids, js, a, rs : ids = DOMAIN ex.order_states /\ js = jobs[t] /\ a = app /\ rs = sent
  OBVIOUS
<1>2. /\ pc[t] = "send" /\ JobsFit(ids, "send", js)
      /\ js # <<>> /\ js[1] \in Reports /\ rs \in Seq(Reports)
      /\ DOMAIN pc = Threads /\ DOMAIN jobs = Threads
  BY <1>1, HandlerIs DEF Send, JobsFit, TypeOK
<1>3. PICK r, rest : r = js[1] /\ rest = Tail(js)
  OBVIOUS
<1>4. PICK where : where = IF rest = <<>> THEN "idle" ELSE StageOf(rest)
  OBVIOUS
<1>5. /\ sent' = Append(rs, r) /\ pc' = [pc EXCEPT ![t] = where]
      /\ jobs' = [jobs EXCEPT ![t] = rest] /\ AppStays
  <2>1. CASE rest = <<>>
    BY <1>1, <1>3, <1>4, <2>1 DEF Send, Remaining, Finish, Goto, maps, AppStays
  <2>2. CASE rest # <<>>
    BY <1>1, <1>3, <1>4, <2>2 DEF Send, Remaining, Goto, maps, AppStays
  <2> QED BY <2>1, <2>2
<1>6. where \in {"idle", "read", "lookup"} /\ (where = "lookup" => rest[1].cl = NoName)
  <2>1. StageOf(rest) \in {"idle", "read", "lookup"}
        /\ rest \in Seq(FillJobsOn(ids))
    <3>1. PICK now : now = "send"
      OBVIOUS
    <3>2. JobsFit(ids, now, js) /\ js # <<>>
      BY <1>2, <3>1
    <3>3. rest = Tail(js)
      BY <1>3
    <3>4. /\ rest \in Seq(FillJobsOn(ids))
          /\ rest # <<>> => JobsFit(ids, StageOf(rest), rest)
          /\ StageOf(rest) \in {"idle", "read", "lookup"}
      BY <3>2, <3>3, RestFits
    <3> QED BY <3>4
  <2>2. ASSUME rest # <<>>, where = "lookup" PROVE rest[1].cl = NoName
    <3>1. rest[1].exec_type = "?"
      <4>1. PICK F : F = FillJobsOn(ids)
        OBVIOUS
      <4>2. rest \in Seq(F) /\ rest # <<>>
        BY <2>1, <2>2, <4>1
      <4>3. rest[1] \in F
        BY <4>2, EmptySeq
      <4> QED BY <4>1, <4>3 DEF FillJobsOn
    <3>2. StageOf(rest) = IF rest[1].cl # NoName THEN "read" ELSE "lookup"
      BY <2>2, <3>1 DEF StageOf
    <3> QED BY <1>4, <2>2, <3>2
  <2> QED BY <1>4, <2>1, <2>2
<1>7. Tale(a, Append(rs, r), rest) = Tale(a, rs, js)
  <2>1. PICK S : S = FillJobsOn(ids) \cup Drafts \cup Reports
    OBVIOUS
  <2>2. js \in Seq(S)
    BY <1>2, <2>1 DEF JobsFit
  <2>3. rs \in Seq(S)
    BY <1>2, <2>1
  <2>4. js[1].exec_type # "?"
    BY <1>2 DEF Reports, ExecType
  <2> QED BY <1>2, <1>3, <2>2, <2>3, <2>4, TaleGoesOn
<1>8. Prospect(t) = [app |-> a, reports |-> Tale(a, rs, js)]
  <2>1. pc[t] \notin CallStages
    BY <1>2 DEF CallStages
  <2> QED BY <1>1, <2>1, ProspectIs
<1>9. pc'[t] = where /\ jobs'[t] = rest /\ app' = a
  BY <1>1, <1>2, <1>5, AppStaysSo
<1>10. Prospect(t)' = [app |-> a, reports |-> Tale(a, Append(rs, r), rest)]
  <2>1. pc'[t] \notin CallStages
    BY <1>6, <1>9 DEF CallStages
  <2> QED BY <1>5, <1>9, <2>1, ProspectWillBe
<1> QED BY <1>6, <1>7, <1>8, <1>9, <1>10

-----------------------------------------------------------------------------
(* What the calls come to.                                                 *)

\* A record of the acceptor's variables.
AppOf(n, names, back, x) ==
  [next_order_id |-> n, clordid_map |-> names, orderid_to_clordid_map |-> back, ex |-> x]

\* What it has.
LEMMA AppHas ==
  ASSUME NEW n, NEW names, NEW back, NEW x, NEW a, a = AppOf(n, names, back, x)
  PROVE  /\ a.next_order_id = n /\ a.clordid_map = names /\ a.orderid_to_clordid_map = back
         /\ a.ex = x
BY DEF AppOf

\* An order gets its names in it.
LEMMA AppNamed ==
  ASSUME NEW n, NEW names, NEW back, NEW x, NEW a, a = AppOf(n, names, back, x),
         NEW cl, NEW id
  PROVE  Named(a, cl, id) = AppOf(n, Put(names, cl, id), Put(back, id, cl), x)
<1>1. PICK p, q : p = Put(names, cl, id) /\ q = Put(back, id, cl)
  OBVIOUS
<1>2. PICK b : b = [a EXCEPT !.clordid_map = p]
  OBVIOUS
<1>3. b = AppOf(n, p, back, x)
  BY <1>2 DEF AppOf
<1>4. [b EXCEPT !.orderid_to_clordid_map = q] = AppOf(n, p, q, x)
  BY <1>3 DEF AppOf
<1>5. a.clordid_map = names /\ b.orderid_to_clordid_map = back
  BY <1>3, AppHas
<1>6. Named(a, cl, id) = [b EXCEPT !.orderid_to_clordid_map = q]
  BY <1>1, <1>2, <1>5 DEF Named
<1> QED BY <1>1, <1>4, <1>6

\* The exchange changes in it.
LEMMA AppCalled ==
  ASSUME NEW n, NEW names, NEW back, NEW x, NEW a, a = AppOf(n, names, back, x), NEW y
  PROVE  [a EXCEPT !.ex = y] = AppOf(n, names, back, y)
BY DEF AppOf

\* The counter changes in it.
LEMMA AppCounted ==
  ASSUME NEW n, NEW names, NEW back, NEW x, NEW a, a = AppOf(n, names, back, x), NEW m
  PROVE  [a EXCEPT !.next_order_id = m] = AppOf(m, names, back, x)
BY DEF AppOf

\* The exchange and the counter change at once.
CalledAt(a, n, x) == [a EXCEPT !.next_order_id = n, !.ex = x]

\* Both change in it.
LEMMA AppBoth ==
  ASSUME NEW n, NEW names, NEW back, NEW x, NEW a, a = AppOf(n, names, back, x),
         NEW m, NEW y
  PROVE  CalledAt(a, m, y) = AppOf(m, names, back, y)
<1>1. PICK b : b = [a EXCEPT !.next_order_id = m]
  OBVIOUS
<1>2. b = AppOf(m, names, back, x)
  BY <1>1, AppCounted
<1>3. [b EXCEPT !.ex = y] = AppOf(m, names, back, y)
  BY <1>2, AppCalled
<1>4. CalledAt(a, m, y) = [b EXCEPT !.ex = y]
  BY <1>1 DEF CalledAt
<1> QED BY <1>3, <1>4

\* The acceptor's variables are such a record.
LEMMA AppIs ==
  /\ app = AppOf(next_order_id, clordid_map, orderid_to_clordid_map, ex)
  /\ app' = AppOf(next_order_id', clordid_map', orderid_to_clordid_map', ex')
BY DEF app, AppOf

\* An answer says everything it has.
LEMMA AnswerSaid ==
  ASSUME NEW cl, NEW id, NEW type, NEW st, NEW answer, answer = Answer(cl, id, type, st)
  PROVE  Said(answer) = answer /\ answer.exec_type = type
BY DEF Answer, ExecutionReport, Said

\* The names an amended order gets are those it was to get.
LEMMA RemapReplays ==
  ASSUME GatewayInv, NEW t \in Threads, Remap(t)
  PROVE  Prospect(t)' = Prospect(t) /\ pc'[t] # "lookup"
<1>1. PICK m, id, cl, js, rs : m = msg[t] /\ id = m.order_id /\ cl = m.cl /\ js = jobs[t]
                               /\ rs = sent
  OBVIOUS
<1>2. /\ pc[t] = "remap" /\ pc' = [pc EXCEPT ![t] = "stamp"]
      /\ clordid_map' = Put(clordid_map, cl, id)
      /\ orderid_to_clordid_map' = Put(orderid_to_clordid_map, id, cl)
      /\ next_order_id' = next_order_id /\ ex' = ex /\ jobs' = jobs /\ sent' = sent
  BY <1>1 DEF Remap, Goto
<1>3. app' = Named(app, cl, id)
  <2>1. PICK a, b : a = app /\ b = app'
    OBVIOUS
  <2>2. PICK n, names, back, x :
          /\ n = next_order_id /\ names = clordid_map /\ back = orderid_to_clordid_map
          /\ x = ex
    OBVIOUS
  <2>3. a = AppOf(n, names, back, x) /\ b = AppOf(n, Put(names, cl, id), Put(back, id, cl), x)
    BY <1>2, <2>1, <2>2, AppIs, Zenon
  <2>4. Named(a, cl, id) = AppOf(n, Put(names, cl, id), Put(back, id, cl), x)
    BY <2>3, AppNamed
  <2> QED BY <2>1, <2>3, <2>4
<1>4. DOMAIN pc = Threads
  BY HandlerIs
<1>5. Prospect(t) = AfterReports(t, Named(app, cl, id))
  BY <1>1, <1>2 DEF Prospect
<1>6. Prospect(t)' = [app |-> app', reports |-> Tale(app', rs, js)]
  <2>1. pc'[t] \notin CallStages
    BY <1>2, <1>4 DEF CallStages
  <2> QED BY <1>1, <1>2, <2>1, ProspectWillBe
<1>7. Prospect(t) = [app |-> app', reports |-> Tale(app', rs, js)]
  BY <1>1, <1>3, <1>5 DEF AfterReports, Tale
<1>8. pc'[t] # "lookup"
  BY <1>2, <1>4
<1> QED BY <1>6, <1>7, <1>8

\* A NewOrderSingle is submitted: what is reported now, and what the reads still to
\* come will say.
LEMMA SubmitReplays ==
  ASSUME GatewayInv, NEW t \in Threads, Submit(t)
  PROVE  Prospect(t)' = Prospect(t) /\ pc'[t] # "lookup"
<1>1. PICK old, order, id, cl, rs :
        /\ old = ex /\ order = msg[t].order /\ id = msg[t].order_id /\ cl = msg[t].cl
        /\ rs = sent
  OBVIOUS
<1>2. PICK call : /\ call = submit_order(old, risk_ctx, order) /\ ex' = call.ex
                  /\ jobs' = [jobs EXCEPT ![t] = SubmitReports(t, call)]
  BY <1>1 DEF Submit
<1>3. /\ IsExchange(old, Registered) /\ IsOrder(order) /\ order.order_id = id
      /\ id \notin DOMAIN old.order_states /\ cl \in ClOrdIds /\ pc[t] = "submit"
      /\ id \in OrderId /\ DOMAIN pc = Threads /\ DOMAIN jobs = Threads
  BY <1>1, HandlerIs DEF MessageOK, TypeOK, Submit, IsOrder
<1>4. CallKeeps(Registered, old, call, id, {id})
  BY <1>2, <1>3, SubmitOK
<1>5. PICK F, trades : trades = call.trades /\ trades \in Seq(F)
  BY <1>4 DEF CallKeeps
<1>6. PICK now, st : now = call.ex /\ st = now.order_states[id]
  OBVIOUS
<1>7. PICK type : type = IF st.order_status = "Rejected" THEN "Rejected" ELSE "New"
  OBVIOUS
<1>8. PICK answer : answer = Answer(cl, id, type, st)
  OBVIOUS
<1>9. answer = Ack(cl, id, st) /\ answer.exec_type # "?" /\ Said(answer) = answer
  BY <1>7, <1>8, AnswerSaid DEF Ack
<1>10. PICK js : js = <<answer>> \o FillsOf(id, cl, trades)
  OBVIOUS
<1>11. /\ jobs' = [jobs EXCEPT ![t] = js] /\ pc' = [pc EXCEPT ![t] = "stamp"]
       /\ next_order_id' = next_order_id /\ clordid_map' = clordid_map
       /\ orderid_to_clordid_map' = orderid_to_clordid_map /\ ex' = now /\ sent' = rs
  BY <1>1, <1>2, <1>5, <1>6, <1>9, <1>10 DEF Submit, SubmitReports, Goto, maps
<1>12. PICK a, after : a = app /\ after = [a EXCEPT !.ex = now]
  OBVIOUS
<1>13. app' = after /\ a.ex = old
  <2>1. PICK n, names, back, b :
          /\ n = next_order_id /\ names = clordid_map /\ back = orderid_to_clordid_map
          /\ b = app'
    OBVIOUS
  <2>2. a = AppOf(n, names, back, old) /\ b = AppOf(n, names, back, now)
    BY <1>1, <1>11, <1>12, <2>1, AppIs, Zenon
  <2>3. [a EXCEPT !.ex = now] = AppOf(n, names, back, now)
    BY <2>2, AppCalled
  <2>4. a.ex = old
    <3>1. a.next_order_id = next_order_id /\ a.clordid_map = names
          /\ a.orderid_to_clordid_map = back /\ a.ex = old
      BY <2>1, <2>2, AppHas
    <3> QED BY <3>1
  <2> QED BY <1>12, <2>1, <2>2, <2>3, <2>4
<1>14. cl # NoName
  BY <1>3 DEF ClOrdIds, NoName
<1>15. ForetoldBy(after, js) = <<answer>> \o FillReports(after, cl, id, trades)
  BY <1>5, <1>9, <1>10, <1>14, CallForetold
<1>16. Prospect(t) = AfterCall(Submitted(a, cl, order))
  BY <1>1, <1>3, <1>12 DEF Prospect
<1>17. Submitted(a, cl, order)
         = [app |-> after, reports |-> <<answer>> \o FillReports(after, cl, id, trades)]
  BY <1>2, <1>3, <1>5, <1>6, <1>9, <1>12, <1>13, Zenon DEF Submitted
<1>18. Prospect(t) = [app |-> after, reports |-> Tale(after, rs, js)]
  BY <1>1, <1>15, <1>16, <1>17 DEF AfterCall, Tale
<1>19. pc'[t] = "stamp" /\ jobs'[t] = js
  BY <1>3, <1>11
<1>20. Prospect(t)' = [app |-> after, reports |-> Tale(after, rs, js)]
  <2>1. pc'[t] \notin CallStages
    BY <1>19 DEF CallStages
  <2> QED BY <1>11, <1>13, <1>19, <2>1, ProspectWillBe
<1> QED BY <1>18, <1>19, <1>20

\* A cancel or replace calls the exchange, and has these reports to send.
Amends(t, a, m, id, cl, call, now, trades, answer) ==
  /\ pc[t] = "amend" /\ a = app /\ m = msg[t] /\ id = m.order_id /\ cl = m.cl
  /\ CanAmend(a.ex, id) /\ cl # NoName
  /\ call = IF m.kind = "F" THEN NoTrades(cancel_order(a.ex, id))
            ELSE modify_order(a.ex, risk_ctx, id, m.price, m.quantity)
  /\ now = call.ex /\ trades = call.trades
  /\ answer = Answer(cl, id, IF m.kind = "F" THEN "Cancelled" ELSE "Replace",
                     now.order_states[id])
  /\ ex' = now /\ jobs' = [jobs EXCEPT ![t] = <<answer>> \o FillsOf(id, cl, trades)]
  /\ pc' = [pc EXCEPT ![t] = "remap"] /\ msg' = msg /\ sent' = sent
  /\ next_order_id' = next_order_id /\ clordid_map' = clordid_map
  /\ orderid_to_clordid_map' = orderid_to_clordid_map

\* It comes to the same as before, once the order has its new names.
LEMMA AmendReplays ==
  ASSUME GatewayInv, NEW t \in Threads, NEW a, NEW m, NEW id, NEW cl, NEW call, NEW now,
         NEW F, NEW trades \in Seq(F), NEW answer,
         Amends(t, a, m, id, cl, call, now, trades, answer)
  PROVE  Prospect(t)' = Prospect(t) /\ pc'[t] # "lookup"
<1>1. /\ pc[t] = "amend" /\ a = app /\ m = msg[t] /\ id = m.order_id /\ cl = m.cl
      /\ CanAmend(a.ex, id) /\ cl # NoName
  BY DEF Amends
<1>2. /\ call = IF m.kind = "F" THEN NoTrades(cancel_order(a.ex, id))
                ELSE modify_order(a.ex, risk_ctx, id, m.price, m.quantity)
      /\ now = call.ex /\ trades = call.trades
  BY Zenon DEF Amends
<1>3. PICK type : /\ type = IF m.kind = "F" THEN "Cancelled" ELSE "Replace"
                  /\ answer = Answer(cl, id, type, now.order_states[id])
  BY DEF Amends
<1>4. PICK rs, js : rs = sent /\ js = <<answer>> \o FillsOf(id, cl, trades)
  OBVIOUS
<1>5. /\ ex' = now /\ jobs' = [jobs EXCEPT ![t] = js]
      /\ pc' = [pc EXCEPT ![t] = "remap"] /\ msg' = msg /\ sent' = rs
      /\ next_order_id' = next_order_id /\ clordid_map' = clordid_map
      /\ orderid_to_clordid_map' = orderid_to_clordid_map
  BY <1>4 DEF Amends
<1>6. PICK after : after = [Named(a, cl, id) EXCEPT !.ex = now]
  OBVIOUS
<1>7. answer.exec_type # "?" /\ Said(answer) = answer
  <2>1. answer.exec_type = type /\ Said(answer) = answer
    BY <1>3, AnswerSaid
  <2> QED BY <1>3, <2>1
<1>8. DOMAIN pc = Threads /\ DOMAIN jobs = Threads
  BY HandlerIs
<1>9. Named(app', cl, id) = after
  <2>1. PICK n, names, back, old, b :
          /\ n = next_order_id /\ names = clordid_map /\ back = orderid_to_clordid_map
          /\ old = ex /\ b = app'
    OBVIOUS
  <2>2. a = AppOf(n, names, back, old) /\ b = AppOf(n, names, back, now)
    BY <1>1, <1>5, <2>1, AppIs, Zenon
  <2>3. PICK p, q : p = Put(names, cl, id) /\ q = Put(back, id, cl)
    OBVIOUS
  <2>4. PICK named : named = Named(a, cl, id)
    OBVIOUS
  <2>5. named = AppOf(n, p, q, old)
    BY <2>2, <2>3, <2>4, AppNamed
  <2>6. Named(b, cl, id) = AppOf(n, p, q, now)
    BY <2>2, <2>3, AppNamed
  <2>7. [named EXCEPT !.ex = now] = AppOf(n, p, q, now)
    BY <2>5, AppCalled
  <2> QED BY <1>6, <2>1, <2>4, <2>6, <2>7
<1>10. ForetoldBy(after, js) = <<answer>> \o FillReports(after, cl, id, trades)
  BY <1>1, <1>4, <1>7, CallForetold
<1>11. PICK outcome : outcome = Amend(a, risk_ctx, id, m)
  OBVIOUS
<1>12. outcome.app = after
       /\ outcome.reports = <<answer>> \o FillReports(after, cl, id, trades)
  <2>1. PICK said : said = <<answer>> \o FillReports(after, cl, id, trades)
    OBVIOUS
  <2>2. outcome = [app |-> after, reports |-> said, trades |-> trades]
    BY <1>1, <1>2, <1>3, <1>6, <1>11, <2>1, Zenon DEF Amend
  <2> QED BY <2>1, <2>2
<1>13. Prospect(t) = [app |-> after, reports |-> Tale(after, rs, js)]
  <2>1. Prospect(t) = AfterCall(outcome)
    BY <1>1, <1>11 DEF Prospect
  <2>2. Prospect(t) = [app |-> outcome.app, reports |-> SaidBy(rs) \o outcome.reports]
    BY <1>4, <2>1 DEF AfterCall
  <2>3. outcome.reports = ForetoldBy(after, js)
    BY <1>10, <1>12
  <2> QED BY <1>12, <2>2, <2>3, Zenon DEF Tale
<1>14. pc'[t] = "remap" /\ jobs'[t] = js
  BY <1>5, <1>8
<1>15. Prospect(t)' = [app |-> after, reports |-> Tale(after, rs, js)]
  <2>1. PICK b : b = Named(app', cl, id)
    OBVIOUS
  <2>2. msg'[t] = m /\ m.cl = cl /\ m.order_id = id
    BY <1>1, <1>5
  <2>3. Prospect(t)' = AfterReports(t, b)'
    BY <1>14, <2>1, <2>2 DEF Prospect, AfterReports
  <2>4. AfterReports(t, b)' = [app |-> b, reports |-> SaidBy(rs) \o ForetoldBy(b, js)]
    BY <1>5, <1>14 DEF AfterReports
  <2> QED BY <1>9, <2>1, <2>3, <2>4 DEF Tale
<1> QED BY <1>13, <1>14, <1>15

\* An order is cancelled.
LEMMA CancelReplays ==
  ASSUME GatewayInv, NEW t \in Threads, Cancel(t)
  PROVE  Prospect(t)' = Prospect(t) /\ pc'[t] # "lookup"
<1>1. PICK a, m, id, cl, old :
        a = app /\ m = msg[t] /\ id = m.order_id /\ cl = m.cl /\ old = ex
  OBVIOUS
<1>2. PICK now, trades, F : now = cancel_order(old, id) /\ trades = <<>> /\ F = {}
  OBVIOUS
<1>3. a.ex = old /\ trades \in Seq(F)
  BY <1>1, <1>2 DEF app
<1>4. /\ pc[t] = "amend" /\ m.kind = "F" /\ CanAmend(a.ex, id) /\ cl # NoName /\ ex' = now
      /\ pc' = [pc EXCEPT ![t] = "remap"] /\ msg' = msg /\ sent' = sent
      /\ next_order_id' = next_order_id /\ clordid_map' = clordid_map
      /\ orderid_to_clordid_map' = orderid_to_clordid_map
  <2>1. pc[t] = "amend" /\ CanAmend(a.ex, id)
    BY <1>1, <1>3 DEF Cancel, Amendable, CanAmend
  <2>2. cl # NoName
    BY <1>1, <2>1, HandlerIs DEF MessageOK, ClOrdIds, NoName
  <2> QED BY <1>1, <1>2, <2>1, <2>2 DEF Cancel, Goto, maps
<1>5. PICK answer, call : /\ answer = Answer(cl, id, "Cancelled", now.order_states[id])
                          /\ call = NoTrades(cancel_order(a.ex, id))
  OBVIOUS
<1>6. call.ex = now /\ call.trades = trades
  BY <1>2, <1>3, <1>5 DEF NoTrades
<1>7. <<answer>> \o FillsOf(id, cl, trades) = <<answer>>
  <2>1. FillsOf(id, cl, trades) = <<>>
    BY <1>2 DEF FillsOf
  <2> QED BY <2>1
<1>8. jobs' = [jobs EXCEPT ![t] = <<answer>> \o FillsOf(id, cl, trades)]
  BY <1>1, <1>2, <1>5, <1>7 DEF Cancel
<1>9. Amends(t, a, m, id, cl, call, now, trades, answer)
  BY <1>1, <1>4, <1>5, <1>6, <1>8 DEF Amends
<1> QED BY <1>3, <1>9, AmendReplays

\* An order is replaced, and may trade at once.
LEMMA ReplaceReplays ==
  ASSUME GatewayInv, NEW t \in Threads, Replace(t)
  PROVE  Prospect(t)' = Prospect(t) /\ pc'[t] # "lookup"
<1>1. PICK a, m, id, cl, old :
        a = app /\ m = msg[t] /\ id = m.order_id /\ cl = m.cl /\ old = ex
  OBVIOUS
<1>2. PICK call : /\ call = modify_order(old, risk_ctx, id, m.price, m.quantity)
                  /\ ex' = call.ex
                  /\ jobs' = [jobs EXCEPT ![t] =
                       <<Answer(cl, id, "Replace", call.ex.order_states[id])>>
                         \o FillsOf(id, cl, call.trades)]
  BY <1>1 DEF Replace
<1>3. a.ex = old
  BY <1>1 DEF app
<1>4. /\ pc[t] = "amend" /\ m.kind # "F" /\ m.kind = "G" /\ CanAmend(a.ex, id)
      /\ id \in DOMAIN old.order_states
      /\ pc' = [pc EXCEPT ![t] = "remap"] /\ msg' = msg /\ sent' = sent
      /\ next_order_id' = next_order_id /\ clordid_map' = clordid_map
      /\ orderid_to_clordid_map' = orderid_to_clordid_map
  BY <1>1, <1>3 DEF Replace, Amendable, CanAmend, Goto, maps
<1>5. /\ cl # NoName /\ IsExchange(old, Registered) /\ m.price \in Prices /\ m.quantity \in Int
  BY <1>1, <1>4, HandlerIs DEF MessageOK, TypeOK, ClOrdIds, NoName
<1>6. CallKeeps(Registered, old, call, id, {})
  <2>1. PICK price \in Prices, quantity \in Int : price = m.price /\ quantity = m.quantity
    BY <1>5
  <2> QED BY <1>2, <1>4, <1>5, <2>1, ModifyOK
<1>7. PICK now, trades, F : now = call.ex /\ trades = call.trades /\ trades \in Seq(F)
  BY <1>6 DEF CallKeeps
<1>8. PICK answer : answer = Answer(cl, id, "Replace", now.order_states[id])
  OBVIOUS
<1>9. jobs' = [jobs EXCEPT ![t] = <<answer>> \o FillsOf(id, cl, trades)] /\ ex' = now
  BY <1>2, <1>7, <1>8
<1>10. Amends(t, a, m, id, cl, call, now, trades, answer)
  BY <1>1, <1>2, <1>3, <1>4, <1>5, <1>7, <1>8, <1>9 DEF Amends
<1> QED BY <1>7, <1>10, AmendReplays

\* An order that is finished stays as it is.
LEMMA RefusalReplays ==
  ASSUME GatewayInv, NEW t \in Threads, AmendRefused(t)
  PROVE  Prospect(t)' = Prospect(t) /\ pc'[t] # "lookup"
<1>1. PICK a, m, id, rs : a = app /\ m = msg[t] /\ id = m.order_id /\ rs = sent
  OBVIOUS
<1>2. /\ pc[t] = "amend" /\ pc' = [pc EXCEPT ![t] = "idle"]
      /\ jobs' = [jobs EXCEPT ![t] = <<>>] /\ sent' = rs /\ AppStays
      /\ is_terminal(ex.order_states[id])
  BY <1>1 DEF AmendRefused, Amendable, Finish, Goto, maps, AppStays
<1>3. pc'[t] = "idle" /\ jobs'[t] = <<>> /\ app' = a
  BY <1>1, <1>2, HandlerIs, AppStaysSo
<1>4. ~CanAmend(a.ex, id)
  BY <1>1, <1>2 DEF CanAmend, app
<1>5. PICK outcome : outcome = Amend(a, risk_ctx, id, m)
  OBVIOUS
<1>6. outcome = Unanswered(a)
  BY <1>4, <1>5, Zenon DEF Amend
<1>7. Prospect(t) = [app |-> a, reports |-> SaidBy(rs) \o <<>>]
  <2>1. Prospect(t) = AfterCall(outcome)
    BY <1>1, <1>2, <1>5 DEF Prospect
  <2> QED BY <1>1, <1>6, <2>1 DEF AfterCall, Unanswered
<1>8. ForetoldBy(a, <<>>) = <<>>
  BY DEF ForetoldBy
<1>9. Prospect(t)' = [app |-> a, reports |-> Tale(a, rs, <<>>)]
  <2>1. pc'[t] \notin CallStages
    BY <1>3 DEF CallStages
  <2> QED BY <1>2, <1>3, <2>1, ProspectWillBe
<1> QED BY <1>3, <1>7, <1>8, <1>9 DEF Tale

-----------------------------------------------------------------------------
(* What the messages come to.                                              *)

\* A thread that takes a message has nothing else to do: it will come to what the
\* functions make of that message.
LEMMA TakesReplays ==
  ASSUME GatewayInv, NamesInv, ReplayInv, NEW t \in Threads, NEW m, Takes(t, m)
  PROVE  Replay' = AfterCall(Outcome(app, m)) /\ jobs[t] = <<>>
<1>1. PICK a, rs : a = app /\ rs = sent
  OBVIOUS
<1>2. /\ pc[t] = "idle" /\ jobs[t] = <<>> /\ rs \in Seq(Reports)
  BY <1>1, HandlerIs DEF Takes, JobsFit, TypeOK
<1>3. Replay = [app |-> a, reports |-> SaidBy(rs)]
  <2>1. pc[t] # "thrown" /\ pc[t] \notin CallStages
    BY <1>2 DEF CallStages
  <2>2. Replay = [app |-> a, reports |-> Tale(a, rs, jobs[t])]
    BY <1>1, <2>1, ProspectIs DEF ReplayInv
  <2>3. Tale(a, rs, <<>>) = SaidBy(rs)
    BY <1>2, NothingToCome
  <2> QED BY <1>2, <2>2, <2>3
<1>4. PICK S : inbound \in Seq(S)
  BY DEF NamesInv, NamesUsedOnce
<1>5. PICK n \in Nat : n = Len(inbound) /\ DOMAIN inbound = 1..n
  BY <1>4
<1>6. PICK before, after : before = inbound /\ after = inbound'
  OBVIOUS
<1>7. after = Append(before, m)
  BY <1>6 DEF Takes
<1>8. SameUpTo(n, before, after) /\ after[n + 1] = m /\ Len(after) = n + 1
  <2>1. PICK U : U = S \cup {m}
    OBVIOUS
  <2>2. before \in Seq(U) /\ m \in U
    BY <1>4, <1>6, <2>1
  <2> QED BY <1>5, <1>6, <1>7, <2>2 DEF SameUpTo
<1>9. ReplayOf(after, n + 1) = With(ReplayOf(before, n), after[n + 1])
  <2>1. /\ ReplayOf(before, 0) = Fresh
        /\ ReplayOf(after, n + 1) = With(ReplayOf(before, n), after[n + 1])
    BY <1>8, ReplayMore
  <2> QED BY <2>1
<1>10. Replay' = With(Replay, m)
  BY <1>5, <1>6, <1>8, <1>9, Zenon DEF Replay
<1>11. PICK outcome : outcome = Outcome(a, m)
  OBVIOUS
<1>12. PICK now : now = Replay
  OBVIOUS
<1>13. With(now, m) = [app |-> outcome.app, reports |-> SaidBy(rs) \o outcome.reports]
  <2>1. now.app = a /\ now.reports = SaidBy(rs)
    BY <1>3, <1>12
  <2> QED BY <1>11, <2>1, Zenon DEF With
<1> QED BY <1>1, <1>2, <1>10, <1>11, <1>12, <1>13, Zenon DEF AfterCall

\* An order has its id and its names, and then was submitted.
Arrived(a, cl, id) == [Named(a, cl, id) EXCEPT !.next_order_id = id + 1]

Entered(a, cl, id, x) == [Named(a, cl, id) EXCEPT !.next_order_id = id + 1, !.ex = x]

WithEx(a, x) == [a EXCEPT !.ex = x]

\* The acceptor gives an order its id and its names.
LEMMA ArrivalChanges ==
  ASSUME NEW t, NEW session, NEW cl, NEW ord_type, NEW order,
         Arrives(t, session, cl, ord_type, order), NEW id, id = next_order_id,
         NEW a, a = app
  PROVE  /\ a.next_order_id = id
         /\ app' = Arrived(a, cl, id)
         /\ \A x : WithEx(app', x) = Entered(a, cl, id, x)
         /\ (app').ex = a.ex /\ sent' = sent
<1>1. PICK names, back, old, b :
        /\ names = clordid_map /\ back = orderid_to_clordid_map /\ old = ex /\ b = app'
  OBVIOUS
<1>2. PICK p, q, n : p = Put(names, cl, id) /\ q = Put(back, id, cl) /\ n = id + 1
  OBVIOUS
<1>3. /\ next_order_id' = n /\ clordid_map' = p /\ orderid_to_clordid_map' = q
      /\ ex' = old /\ sent' = sent
  BY <1>1, <1>2 DEF Arrives, Register
<1>4. a = AppOf(id, names, back, old) /\ b = AppOf(n, p, q, old)
  BY <1>1, <1>3, AppIs, Zenon
<1>5. PICK named : named = Named(a, cl, id)
  OBVIOUS
<1>6. named = AppOf(id, p, q, old)
  BY <1>2, <1>4, <1>5, AppNamed
<1>7. b = Arrived(a, cl, id)
  <2>1. [named EXCEPT !.next_order_id = n] = AppOf(n, p, q, old)
    BY <1>6, AppCounted
  <2> QED BY <1>2, <1>4, <1>5, <2>1, Zenon DEF Arrived
<1>8. ASSUME NEW x PROVE WithEx(b, x) = Entered(a, cl, id, x)
  <2>1. [b EXCEPT !.ex = x] = AppOf(n, p, q, x)
    BY <1>4, AppCalled
  <2>2. CalledAt(named, n, x) = AppOf(n, p, q, x)
    BY <1>6, AppBoth
  <2> QED BY <1>2, <1>5, <2>1, <2>2, Zenon DEF WithEx, Entered, CalledAt
<1>9. a.next_order_id = id /\ a.ex = old
  <2>1. /\ a.next_order_id = id /\ a.clordid_map = names
        /\ a.orderid_to_clordid_map = back /\ a.ex = old
    BY <1>4, AppHas
  <2> QED BY <2>1
<1>10. b.ex = old
  <2>1. /\ b.next_order_id = n /\ b.clordid_map = p
        /\ b.orderid_to_clordid_map = q /\ b.ex = old
    BY <1>4, AppHas
  <2> QED BY <2>1
<1> QED BY <1>1, <1>3, <1>7, <1>8, <1>9, <1>10

\* A limit order arrives, to be submitted.
LEMMA OrderReplays ==
  ASSUME GatewayInv, NamesInv, ReplayInv, NEW t \in Threads, NEW session, NEW cl,
         ReceiveOrder(t, session, cl)
  PROVE  Replay' = Prospect(t)' /\ pc'[t] = "submit"
<1>1. PICK order \in NewOrders :
        /\ Arrives(t, session, cl, "Limit", order) /\ pc' = [pc EXCEPT ![t] = "submit"]
  BY DEF ReceiveOrder, Goto
<1>2. PICK ord_type, id, a, rs : /\ ord_type = "Limit" /\ id = next_order_id /\ a = app
                                 /\ rs = sent
  OBVIOUS
<1>3. PICK m : m = [kind |-> "D", session |-> session, cl |-> cl, ord_type |-> ord_type,
                    order |-> order]
  OBVIOUS
<1>4. Takes(t, m) /\ msg'[t].cl = cl /\ msg'[t].order = order /\ pc'[t] = "submit"
      /\ sent' = rs
  BY <1>1, <1>2, <1>3, HandlerIs DEF Arrives
<1>5. PICK outcome : outcome = Outcome(a, m)
  OBVIOUS
<1>6. Replay' = [app |-> outcome.app, reports |-> SaidBy(rs) \o outcome.reports]
  <2>1. Replay' = AfterCall(Outcome(app, m)) /\ jobs[t] = <<>>
    BY <1>4, TakesReplays
  <2> QED BY <1>2, <1>5, <2>1 DEF AfterCall
<1>7. outcome = NewOrderSingle(a, risk_ctx, cl, order)
  <2>1. m.kind = "D" /\ m.ord_type = "Limit" /\ m.cl = cl /\ m.order = order
    BY <1>2, <1>3
  <2> QED BY <1>5, <2>1, Zenon DEF Outcome, Handled
<1>8. /\ a.next_order_id = id
      /\ \A x : WithEx(app', x) = Entered(a, cl, id, x)
      /\ (app').ex = a.ex
  <2>1. Arrives(t, session, cl, ord_type, order)
    BY <1>1, <1>2
  <2>2. /\ a.next_order_id = id
        /\ app' = Arrived(a, cl, id)
        /\ \A x : WithEx(app', x) = Entered(a, cl, id, x)
        /\ (app').ex = a.ex /\ sent' = sent
    BY <1>2, <2>1, ArrivalChanges
  <2> QED BY <2>2
<1>9. order.order_id = id /\ WithId(order, id) = order
  BY <1>2 DEF NewOrders, WithId
<1>10. PICK b, call, now, trades :
         /\ b = app' /\ call = submit_order(a.ex, risk_ctx, order) /\ now = call.ex
         /\ trades = call.trades
  OBVIOUS
<1>11. PICK after : after = WithEx(b, now)
  OBVIOUS
<1>12. PICK answer : answer = Ack(cl, id, now.order_states[id])
  OBVIOUS
<1>13. PICK said : said = <<answer>> \o FillReports(after, cl, id, trades)
  OBVIOUS
<1>14. after = Entered(a, cl, id, now)
  BY <1>8, <1>10, <1>11
<1>15. outcome = [app |-> after, reports |-> said, trades |-> trades]
  BY <1>7, <1>8, <1>9, <1>10, <1>12, <1>13, <1>14, Zenon DEF NewOrderSingle, Entered
<1>16. PICK next : next = Submitted(b, cl, order)
  OBVIOUS
<1>17. next = [app |-> after, reports |-> said]
  BY <1>8, <1>9, <1>10, <1>11, <1>12, <1>13, <1>16, Zenon DEF Submitted, WithEx
<1>18. Prospect(t)' = [app |-> next.app, reports |-> SaidBy(rs) \o next.reports]
  <2>1. Prospect(t)' = AfterCall(next)'
    BY <1>4, <1>10, <1>16 DEF Prospect, AfterCall
  <2> QED BY <1>4, <2>1 DEF AfterCall
<1> QED BY <1>4, <1>6, <1>15, <1>17, <1>18

\* An order that is no limit order is only answered.
LEMMA UnsupportedReplays ==
  ASSUME GatewayInv, NamesInv, ReplayInv, NEW t \in Threads, NEW session, NEW cl,
         ReceiveUnsupported(t, session, cl)
  PROVE  Replay' = Prospect(t)' /\ pc'[t] = "stamp"
<1>1. PICK order \in NewOrders :
        /\ Arrives(t, session, cl, "Market", order)
        /\ jobs' = [jobs EXCEPT ![t] =
             <<Ack(cl, next_order_id, NewOrderState(order, "Rejected"))>>]
        /\ pc' = [pc EXCEPT ![t] = "stamp"]
  BY DEF ReceiveUnsupported, Goto
<1>2. PICK ord_type, id, a, rs : /\ ord_type = "Market" /\ id = next_order_id /\ a = app
                                 /\ rs = sent
  OBVIOUS
<1>3. PICK m : m = [kind |-> "D", session |-> session, cl |-> cl, ord_type |-> ord_type,
                    order |-> order]
  OBVIOUS
<1>4. PICK answer, st : st = NewOrderState(order, "Rejected") /\ answer = Ack(cl, id, st)
  OBVIOUS
<1>5. Takes(t, m) /\ pc'[t] = "stamp" /\ jobs'[t] = <<answer>> /\ sent' = rs
  BY <1>1, <1>2, <1>3, <1>4, HandlerIs DEF Arrives
<1>6. PICK outcome : outcome = Outcome(a, m)
  OBVIOUS
<1>7. Replay' = [app |-> outcome.app, reports |-> SaidBy(rs) \o outcome.reports]
  <2>1. Replay' = AfterCall(Outcome(app, m)) /\ jobs[t] = <<>>
    BY <1>5, TakesReplays
  <2> QED BY <1>2, <1>6, <2>1 DEF AfterCall
<1>8. outcome = Unsupported(a, cl, order)
  <2>1. m.kind = "D" /\ m.ord_type # "Limit" /\ m.cl = cl /\ m.order = order
    BY <1>2, <1>3
  <2> QED BY <1>6, <2>1, Zenon DEF Outcome
<1>9. PICK b : b = app'
  OBVIOUS
<1>10. a.next_order_id = id /\ b = Arrived(a, cl, id)
  <2>1. Arrives(t, session, cl, ord_type, order)
    BY <1>1, <1>2
  <2>2. /\ a.next_order_id = id
        /\ app' = Arrived(a, cl, id)
        /\ \A x : WithEx(app', x) = Entered(a, cl, id, x)
        /\ (app').ex = a.ex /\ sent' = sent
    BY <1>2, <2>1, ArrivalChanges
  <2> QED BY <1>9, <2>2
<1>11. outcome = [app |-> b, reports |-> <<answer>>, trades |-> <<>>]
  BY <1>4, <1>8, <1>10, Zenon DEF Unsupported, Arrived
<1>12. ForetoldBy(b, <<answer>>) = <<answer>>
  <2>1. PICK type : type = IF st.order_status = "Rejected" THEN "Rejected" ELSE "New"
    OBVIOUS
  <2>2. answer = Answer(cl, id, type, st)
    BY <1>4, <2>1 DEF Ack
  <2>3. Said(answer) = answer /\ answer.exec_type = type
    BY <2>2, AnswerSaid
  <2>4. Foretold(b, answer) = answer
    <3>1. answer.exec_type # "?"
      BY <2>1, <2>3
    <3> QED BY <2>3, <3>1, Zenon DEF Foretold
  <2> QED BY <2>4 DEF ForetoldBy
<1>13. Prospect(t)' = [app |-> b, reports |-> Tale(b, rs, <<answer>>)]
  <2>1. pc'[t] \notin CallStages
    BY <1>5 DEF CallStages
  <2> QED BY <1>5, <1>9, <2>1, ProspectWillBe
<1> QED BY <1>5, <1>7, <1>11, <1>12, <1>13 DEF Tale

\* A cancel or replace arrives.
LEMMA AmendmentReplays ==
  ASSUME GatewayInv, NamesInv, ReplayInv, NEW t \in Threads, NEW m, ReceiveAmend(t, m),
         {"kind", "cl"} \subseteq DOMAIN m, m.kind \in {"F", "G"},
         m.kind = "G" => {"price", "quantity"} \subseteq DOMAIN m
  PROVE  Replay' = Prospect(t)' /\ pc'[t] # "lookup"
<1>1. PICK a, rs : a = app /\ rs = sent
  OBVIOUS
<1>2. PICK outcome : outcome = Outcome(a, m)
  OBVIOUS
<1>3. jobs[t] = <<>> /\ Replay' = [app |-> outcome.app, reports |-> SaidBy(rs) \o outcome.reports]
  <2>1. Replay' = AfterCall(Outcome(app, m)) /\ jobs[t] = <<>>
    BY TakesReplays DEF ReceiveAmend
  <2> QED BY <1>1, <1>2, <2>1 DEF AfterCall
<1>4. AppStays /\ app' = a /\ jobs' = jobs /\ sent' = rs /\ pc[t] = "idle"
  <2>1. AppStays /\ jobs' = jobs /\ sent' = rs /\ pc[t] = "idle"
    BY <1>1 DEF ReceiveAmend, AppStays, maps, Takes
  <2> QED BY <1>1, <2>1, AppStaysSo
<1>5. a.clordid_map = clordid_map
  BY <1>1 DEF app
<1>6. outcome = IF m.orig \in DOMAIN a.clordid_map
                  THEN Amend(a, risk_ctx, a.clordid_map[m.orig], m)
                  ELSE Unanswered(a)
  <2>1. m.kind # "D"
    OBVIOUS
  <2> QED BY <1>2, <2>1, Zenon DEF Outcome, Handled
<1>7. DOMAIN pc = Threads /\ DOMAIN msg = Threads /\ DOMAIN jobs = Threads
  BY HandlerIs
<1>8. CASE AmendFound(t, m)
  <2>1. PICK id, now : id = clordid_map[m.orig] /\ now = Put(m, "order_id", id)
    OBVIOUS
  <2>2. pc'[t] = "amend" /\ msg'[t] = now /\ m.orig \in DOMAIN a.clordid_map
    BY <1>5, <1>7, <1>8, <2>1 DEF AmendFound, Goto
  <2>3. /\ now.kind = m.kind /\ now.cl = m.cl /\ now.order_id = id
        /\ m.kind # "F" => now.price = m.price /\ now.quantity = m.quantity
    BY <2>1 DEF Put
  <2>4. outcome = Amend(a, risk_ctx, id, m)
    BY <1>5, <1>6, <2>1, <2>2
  <2>5. Amend(a, risk_ctx, id, m) = Amend(a, risk_ctx, id, now)
    <3>1. CASE m.kind = "F"
      BY <2>3, <3>1, Zenon DEF Amend
    <3>2. CASE m.kind # "F"
      BY <2>3, <3>2, Zenon DEF Amend
    <3> QED BY <3>1, <3>2
  <2>6. Prospect(t)' = [app |-> outcome.app, reports |-> SaidBy(rs) \o outcome.reports]
    <3>1. outcome = Amend(a, risk_ctx, id, now)
      BY <2>4, <2>5
    <3>2. Prospect(t)' = AfterCall(outcome)'
      BY <1>4, <2>2, <2>3, <3>1 DEF Prospect, AfterCall
    <3> QED BY <1>4, <3>2 DEF AfterCall
  <2> QED BY <1>3, <2>2, <2>6
<1>9. CASE AmendUnknown(m)
  <2>1. pc' = pc /\ outcome = Unanswered(a)
    BY <1>5, <1>6, <1>9 DEF AmendUnknown
  <2>2. pc'[t] = "idle" /\ jobs'[t] = <<>>
    BY <1>3, <1>4, <2>1
  <2>3. ForetoldBy(a, <<>>) = <<>>
    BY DEF ForetoldBy
  <2>4. Prospect(t)' = [app |-> a, reports |-> Tale(a, rs, <<>>)]
    <3>1. pc'[t] \notin CallStages
      BY <2>2 DEF CallStages
    <3> QED BY <1>4, <2>2, <3>1, ProspectWillBe
  <2> QED BY <1>3, <2>1, <2>2, <2>3, <2>4 DEF Tale, Unanswered
<1> QED BY <1>8, <1>9 DEF ReceiveAmend

\* Any message arrives.
LEMMA ReceiveReplays ==
  ASSUME GatewayInv, NamesInv, ReplayInv, NEW t \in Threads, Receive(t)
  PROVE  Replay' = Prospect(t)' /\ pc'[t] # "lookup"
<1>1. PICK session \in Sessions, cl \in ClOrdIds :
        \/ ReceiveOrder(t, session, cl) \/ ReceiveUnsupported(t, session, cl)
        \/ ReceiveCancel(t, session, cl) \/ ReceiveReplace(t, session, cl)
  BY DEF Receive
<1>2. CASE ReceiveOrder(t, session, cl)
  BY <1>2, OrderReplays
<1>3. CASE ReceiveUnsupported(t, session, cl)
  BY <1>3, UnsupportedReplays
<1>4. CASE ReceiveCancel(t, session, cl)
  <2>1. PICK orig, sym, m :
          /\ m = [kind |-> "F", session |-> session, cl |-> cl, orig |-> orig, symbol |-> sym]
          /\ ReceiveAmend(t, m)
    BY <1>4 DEF ReceiveCancel
  <2>2. /\ m.kind = "F" /\ m.kind \in {"F", "G"}
        /\ {"kind", "cl"} \subseteq DOMAIN m
        /\ m.kind = "G" => {"price", "quantity"} \subseteq DOMAIN m
    BY <2>1
  <2> QED BY <2>1, <2>2, AmendmentReplays
<1>5. CASE ReceiveReplace(t, session, cl)
  <2>1. PICK orig, price, quantity, sym, m :
          /\ m = [kind |-> "G", session |-> session, cl |-> cl, orig |-> orig, symbol |-> sym,
                  price |-> price, quantity |-> quantity]
          /\ ReceiveAmend(t, m)
    BY <1>5 DEF ReceiveReplace
  <2>2. /\ m.kind = "G" /\ m.kind \in {"F", "G"}
        /\ {"kind", "cl"} \subseteq DOMAIN m
        /\ m.kind = "G" => {"price", "quantity"} \subseteq DOMAIN m
    BY <2>1
  <2> QED BY <2>1, <2>2, AmendmentReplays
<1> QED BY <1>1, <1>2, <1>3, <1>4, <1>5

-----------------------------------------------------------------------------
(* Every step, for one thread.                                             *)

\* A handler goes on: it will come to the same, unless it throws.
LEMMA HandleReplays ==
  ASSUME GatewayInv, ReplayInv, NEW t \in Threads, Handle(t)
  PROVE  /\ pc'[t] # "thrown" => Replay' = Prospect(t)'
         /\ pc'[t] = "lookup" => jobs'[t][1].cl = NoName
<1>1. DOMAIN pc = Threads
  BY HandlerIs
<1>2. CASE AmendThrows(t)
  <2>1. pc'[t] = "thrown"
    BY <1>1, <1>2 DEF AmendThrows, Goto
  <2> QED BY <2>1
<1>3. CASE ~AmendThrows(t)
  <2>1. Prospect(t)' = Prospect(t) /\ (pc'[t] = "lookup" => jobs'[t][1].cl = NoName)
    <3>1. CASE Lookup(t)
      <4>1. jobs[t][1].cl = NoName
        BY <3>1 DEF ReplayInv, Lookup
      <4> QED BY <3>1, <4>1, LookupReplays
    <3> QED BY <1>3, <3>1, SubmitReplays, RefusalReplays, CancelReplays, ReplaceReplays,
               RemapReplays, ReadReplays, StampReplays, SendReplays DEF Handle
  <2>2. inbound' = inbound /\ pc[t] # "thrown"
    BY <1>3 DEF Handle, Submit, Amendable, AmendRefused, Cancel, Replace, Remap, Lookup,
                ReadState, Stamp, Send
  <2>3. Replay' = Replay
    BY <2>2 DEF Replay
  <2>4. Replay = Prospect(t)
    BY <2>2 DEF ReplayInv
  <2> QED BY <2>1, <2>3, <2>4
<1> QED BY <1>2, <1>3

\* Every step keeps what the handler will come to.
LEMMA ReplayStep ==
  ASSUME OneThread, GatewayInv, NamesInv, ReplayInv, [Next]_vars
  PROVE  ReplayInv'
<1>1. PICK t \in Threads : Threads = {t}
  BY DEF OneThread
<1>2. SUFFICES /\ pc'[t] # "thrown" => Replay' = Prospect(t)'
               /\ pc'[t] = "lookup" => jobs'[t][1].cl = NoName
  BY <1>1 DEF ReplayInv
<1>3. CASE UNCHANGED vars \/ \E session \in Sessions : onLogon(session) \/ onLogout(session)
  <2>1. /\ inbound' = inbound /\ sent' = sent /\ pc' = pc /\ msg' = msg /\ jobs' = jobs
        /\ AppStays
    BY <1>3 DEF vars, maps, onLogon, onLogout, AppStays
  <2>2. Replay' = Replay
    BY <2>1 DEF Replay
  <2>3. app' = app
    BY <2>1, AppStaysSo
  <2>4. Prospect(t)' = Prospect(t)
    BY <2>1, <2>3 DEF Prospect, AfterCall, AfterReports
  <2> QED BY <2>1, <2>2, <2>4 DEF ReplayInv
<1>4. CASE Receive(t)
  BY <1>4, ReceiveReplays
<1>5. CASE Handle(t)
  BY <1>5, HandleReplays
<1> QED BY <1>1, <1>3, <1>4, <1>5 DEF Next

\* At the start nothing was received, and nothing is to be done.
LEMMA ReplayInit == Init => ReplayInv
<1> SUFFICES ASSUME Init, NEW t \in Threads
             PROVE  Replay = Prospect(t) /\ pc[t] # "lookup"
  BY DEF ReplayInv
<1>1. pc[t] = "idle" /\ jobs[t] = <<>> /\ sent = <<>> /\ inbound = <<>>
  BY DEF Init
<1>2. PICK none : none = <<>> /\ Len(none) = 0
  OBVIOUS
<1>3. ReplayOf(none, 0) = Fresh
  <2>1. PICK z \in Nat : SameUpTo(z, none, none)
    BY DEF SameUpTo
  <2>2. /\ ReplayOf(none, 0) = Fresh
        /\ ReplayOf(none, z + 1) = With(ReplayOf(none, z), none[z + 1])
    BY <2>1, ReplayMore
  <2> QED BY <2>2
<1>4. Replay = Fresh
  BY <1>1, <1>2, <1>3 DEF Replay
<1>5. app = NewApp(Registered)
  BY DEF Init, app, NewApp
<1>6. Tale(app, sent, jobs[t]) = <<>>
  <2>1. PICK rs, S, a : rs = <<>> /\ S = {} /\ a = app
    OBVIOUS
  <2>2. rs \in Seq(S)
    BY <2>1
  <2>3. Tale(a, rs, <<>>) = SaidBy(rs)
    BY <2>2, NothingToCome
  <2>4. SaidBy(rs) = <<>>
    BY <2>1 DEF SaidBy
  <2> QED BY <1>1, <2>1, <2>3, <2>4
<1>7. Prospect(t) = [app |-> app, reports |-> Tale(app, sent, jobs[t])]
  <2>1. pc[t] \notin CallStages
    BY <1>1 DEF CallStages
  <2> QED BY <2>1, ProspectIs
<1> QED BY <1>1, <1>4, <1>5, <1>6, <1>7 DEF Fresh

\* ReplayInv is an invariant: at each step of a handler it is settled what the maps,
\* the exchange and the reports will be when it returns.
THEOREM ReplayInvAlways == ASSUME OneThread PROVE Spec => []ReplayInv
<1>1. Init => ReplayInv
  BY ReplayInit
<1>2. GatewayInv /\ NamesInv /\ ReplayInv /\ [Next]_vars => ReplayInv'
  BY ReplayStep
<1>3. Spec => []GatewayInv
  BY GatewayInvAlways
<1>4. Spec => []NamesInv
  BY NamesInvAlways
<1> QED BY <1>1, <1>2, <1>3, <1>4, PTL DEF Spec

\* HandlersAreFunctions is an invariant: with one thread, each handler is one step to
\* its clients, the one Acceptor.tla describes, whatever it reads again on the way.
THEOREM HandlersAreFunctionsAlways == ASSUME OneThread PROVE Spec => []HandlersAreFunctions
<1>1. GatewayInv /\ ReplayInv => HandlersAreFunctions
  <2> SUFFICES ASSUME GatewayInv, ReplayInv, Quiet
               PROVE  Replay = [app |-> app, reports |-> SaidBy(sent)]
    BY DEF HandlersAreFunctions
  <2>1. PICK t \in Threads : pc[t] = "idle"
    BY DEF OneThread, Quiet
  <2>2. PICK rs, a : rs = sent /\ a = app
    OBVIOUS
  <2>3. jobs[t] = <<>> /\ rs \in Seq(Reports)
    BY <2>1, <2>2, HandlerIs DEF JobsFit, TypeOK
  <2>4. Tale(a, rs, <<>>) = SaidBy(rs)
    BY <2>3, NothingToCome
  <2>5. pc[t] \notin CallStages /\ pc[t] # "thrown"
    BY <2>1 DEF CallStages
  <2>6. Replay = [app |-> a, reports |-> Tale(a, rs, jobs[t])]
    BY <2>2, <2>5, ProspectIs DEF ReplayInv
  <2> QED BY <2>2, <2>3, <2>4, <2>6
<1>2. Spec => []GatewayInv
  BY GatewayInvAlways
<1>3. Spec => []ReplayInv
  BY ReplayInvAlways
<1> QED BY <1>1, <1>2, <1>3, PTL
=============================================================================
