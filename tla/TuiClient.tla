------------------------------ MODULE TuiClient ------------------------------
(***************************************************************************)
(* Terminal clients (apps/fix_tui_client.py) and the acceptor they trade   *)
(* through.  A client is two threads over one dict of orders: the command  *)
(* thread (main) sends requests, the receive thread (_recv_loop) applies   *)
(* reports.  Each session is a pair of FIFO channels.  The acceptor        *)
(* handles a message in one step, by the functions of Acceptor.tla, and    *)
(* broadcasts its reports.                                                 *)
(***************************************************************************)
EXTENDS Acceptor

CONSTANTS
  Clients,      \* the client_id each FixTuiClient is started with
  Registered,   \* symbols given to register_symbol
  risk_ctx,     \* the RiskContext every check uses
  BgOrders,     \* the orders pre_populate_books submits: the same for every client
  Quantities,   \* the quantities a user may type
  MaxUsers,     \* bound: orders typed by the users of all clients
  MaxCancels,   \* bound: cancels typed by the users of all clients
  MaxStarts     \* bound: how often each client is started

\* What a NewOrderSingle of a client may ask for.
Asks == [symbol : Symbols, side : Side, price : Prices, quantity : Int]

ASSUME ClientSymbolsAssumption == Registered \subseteq Symbols
ASSUME ClientQuantitiesAssumption == Quantities \subseteq Int
ASSUME ClientBgOrdersAssumption == BgOrders \in Seq(Asks)
ASSUME ClientStartsAssumption == MaxStarts \in Nat

VARIABLES
  app,             \* the acceptor's maps and exchange
  active_sessions,
  to_exchange,     \* client -> requests on their way
  to_client,       \* client -> reports on their way
  orders,          \* client -> its orders: cl_ord_id -> entry
  trades,          \* client -> its trade prints
  bg_order_seq, user_order_seq,
  unwritten,       \* client -> Pending entries the command thread has yet to store
  typed,           \* counts towards MaxUsers, MaxCancels and MaxStarts
  executed,        \* history: every trade of the exchange
  joined,          \* history: client -> first order and trade after its logon
  reused           \* history: ClOrdIDs that more than one order was sent under

acceptor == <<app, active_sessions, executed>>
counters == <<bg_order_seq, user_order_seq, typed, joined>>
vars == <<acceptor, to_exchange, to_client, orders, trades, unwritten, counters, reused>>

-----------------------------------------------------------------------------
(* ClOrdIDs.                                                               *)

\* f"BG-{symbol[:3]}-{seq}": the same for every client.
BgId(seq) == <<"BG", seq>>

\* Plausible defect: the ids users' orders get lack the client's, as BG ids do.
UserId_NoClient(c, seq) == <<"USR", seq>>

UserId(c, seq) == <<"USR", c, seq>>

\* The ClOrdID that the order of a name was sent under, before any cancel.
Of(name) == IF name[1] = "CNL" THEN name[2] ELSE name

\* f"CNL-{cl_ord_id}".
CancelId(cl) == <<"CNL", Of(cl), cl>>

\* The acceptor has this name, or an order is on its way with it.
InUse(cl) ==
  \/ cl \in DOMAIN app.clordid_map
  \/ \E c \in Clients : \E i \in DOMAIN to_exchange[c] :
       to_exchange[c][i].kind = "D" /\ to_exchange[c][i].cl = cl

\* One order alone was sent under the name this one was made from.
Sole(name) == Of(name) \notin reused

-----------------------------------------------------------------------------
(* The life of a client.                                                   *)

Init ==
  /\ app = NewApp(Registered)
  /\ active_sessions = {}
  /\ to_exchange = [c \in Clients |-> <<>>] /\ to_client = [c \in Clients |-> <<>>]
  /\ orders = [c \in Clients |-> <<>>] /\ trades = [c \in Clients |-> <<>>]
  /\ bg_order_seq = [c \in Clients |-> 1] /\ user_order_seq = [c \in Clients |-> 1]
  /\ unwritten = [c \in Clients |-> <<>>]
  /\ typed = [users |-> 0, cancels |-> 0, starts |-> [c \in Clients |-> 0]]
  /\ executed = <<>> /\ joined = [c \in Clients |-> [order |-> 1, trade |-> 1]]
  /\ reused = {}

\* A new process connects and logs on: nothing of an earlier one is kept.
Start(c) ==
  /\ c \notin active_sessions /\ typed.starts[c] < MaxStarts
  /\ active_sessions' = active_sessions \cup {c}
  /\ orders' = [orders EXCEPT ![c] = <<>>]
  /\ trades' = [trades EXCEPT ![c] = <<>>]
  /\ bg_order_seq' = [bg_order_seq EXCEPT ![c] = 1]
  /\ user_order_seq' = [user_order_seq EXCEPT ![c] = 1]
  /\ typed' = [typed EXCEPT !.starts[c] = @ + 1]
  /\ joined' = [joined EXCEPT ![c] = [order |-> app.next_order_id,
                                      trade |-> Len(executed) + 1]]
  /\ UNCHANGED <<app, executed, to_exchange, to_client, unwritten, reused>>

\* The loop over commands runs once the books are pre-populated.
Commanding(c) ==
  /\ c \in active_sessions
  /\ bg_order_seq[c] > Len(BgOrders) /\ unwritten[c] = <<>>

\* "q": the socket is closed and the acceptor logs the session out.  (With
\* requests on their way the close may lose them; that case is left out.)
Quit(c) ==
  /\ Commanding(c) /\ to_exchange[c] = <<>>
  /\ active_sessions' = active_sessions \ {c}
  /\ to_client' = [to_client EXCEPT ![c] = <<>>]
  /\ UNCHANGED <<app, executed, to_exchange, orders, trades, unwritten, counters, reused>>

-----------------------------------------------------------------------------
(* The command thread.                                                     *)

Send(c, m) == to_exchange' = [to_exchange EXCEPT ![c] = Append(@, m)]

\* An order is sent under a name that may have been used before.
Ask(c, cl, order) ==
  /\ Send(c, [kind |-> "D", cl |-> cl, order |-> order])
  /\ reused' = IF InUse(cl) THEN reused \cup {cl} ELSE reused

\* submit_bg_order as far as the message is sent.
submit_bg_order(c) ==
  LET seq == bg_order_seq[c]
  IN  /\ c \in active_sessions
      /\ seq <= Len(BgOrders) /\ unwritten[c] = <<>>
      /\ Ask(c, BgId(seq), BgOrders[seq])
      /\ bg_order_seq' = [bg_order_seq EXCEPT ![c] = seq + 1]
      /\ unwritten' = [unwritten EXCEPT ![c] = <<BgId(seq), BgOrders[seq]>>]
      /\ UNCHANGED <<acceptor, to_client, orders, trades, user_order_seq, typed, joined>>

OrderEntry(symbol, side, price, leaves, status) ==
  [symbol |-> symbol, side |-> side, price |-> price, leaves_qty |-> leaves,
   status |-> status]

\* The rest of it: the entry is stored, over whatever the receive thread stored.
StorePending(c) ==
  LET cl == unwritten[c][1]
      o  == unwritten[c][2]
  IN  /\ unwritten[c] # <<>>
      /\ orders' = [orders EXCEPT ![c] =
           Put(@, cl, OrderEntry(o.symbol, o.side, o.price, o.quantity, "Pending"))]
      /\ unwritten' = [unwritten EXCEPT ![c] = <<>>]
      /\ UNCHANGED <<acceptor, to_exchange, to_client, trades, counters, reused>>

Typable == [symbol : Symbols, side : Side, price : Prices, quantity : Quantities]

submit_user_order(c) ==
  /\ Commanding(c) /\ typed.users < MaxUsers
  /\ \E order \in Typable : Ask(c, UserId(c, user_order_seq[c]), order)
  /\ user_order_seq' = [user_order_seq EXCEPT ![c] = @ + 1]
  /\ typed' = [typed EXCEPT !.users = @ + 1]
  /\ UNCHANGED <<acceptor, to_client, orders, trades, unwritten, bg_order_seq, joined>>

Finished == {"Filled", "Cancelled", "Rejected"}

\* Only orders the client tracks, and does not take for finished.
RequestCancel(c) ==
  /\ Commanding(c) /\ typed.cancels < MaxCancels
  /\ \E cl \in DOMAIN orders[c] :
       /\ orders[c][cl].status \notin Finished
       /\ Send(c, [kind |-> "F", cl |-> CancelId(cl), orig |-> cl])
  /\ typed' = [typed EXCEPT !.cancels = @ + 1]
  /\ UNCHANGED <<acceptor, to_client, orders, trades, unwritten, bg_order_seq,
                 user_order_seq, joined, reused>>

-----------------------------------------------------------------------------
(* The acceptor.                                                           *)

\* Plausible defect: reports go to the sender of the message alone.
Targets_Sender(c) == {c}

\* Every session that is logged on.
Targets(c) == active_sessions

\* The next request of a session is handled and its reports are broadcast.
Serve(c) ==
  /\ to_exchange[c] # <<>>
  /\ \E answer \in {Handled(app, risk_ctx, Head(to_exchange[c]))} :
       /\ app' = answer.app
       /\ to_client' = [x \in Clients |->
            to_client[x] \o IF x \in Targets(c) THEN answer.reports ELSE <<>>]
       /\ executed' = executed \o [i \in DOMAIN answer.trades |->
                                   [shares |-> answer.trades[i].quantity,
                                    px     |-> answer.trades[i].price]]
  /\ to_exchange' = [to_exchange EXCEPT ![c] = Tail(@)]
  /\ UNCHANGED <<active_sessions, orders, trades, unwritten, counters, reused>>

-----------------------------------------------------------------------------
(* The receive thread.                                                     *)

\* Plausible defect: an OrdStatus is shown by the exchange's own name of it.
Shown_Unmapped(status) == status

\* status_map of an OrdStatus.
Shown(status) == IF status = "Partial_Filled" THEN "PartialFill" ELSE status

\* Plausible defect: a report on a known order only brings a new status.
Tracked_StatusOnly(entries, r) ==
  LET known == r.cl \in DOMAIN entries
      v     == r.view
  IN  Put(entries, r.cl,
          [(IF known THEN entries[r.cl]
                     ELSE OrderEntry(v.symbol, v.side, v.price, v.leaves, ""))
             EXCEPT !.status = Shown(v.status)])

\* What a report makes of the dict: a new entry, or new shares and status.
Tracked(entries, r) ==
  LET v   == r.view
      old == IF r.cl \in DOMAIN entries
               THEN entries[r.cl]
               ELSE OrderEntry(v.symbol, v.side, v.price, v.leaves, "")
  IN  Put(entries, r.cl, [old EXCEPT !.leaves_qty = v.leaves, !.status = Shown(v.status)])

\* Plausible defect: both reports on a trade are printed.
IsPrint_BothSides(r) == r.shares > 0 /\ r.exec_type \in {"Fill", "PartialFill"}

\* Of the two reports on a trade the buyer's is printed.
IsPrint(r) ==
  r.shares > 0 /\ r.exec_type \in {"Fill", "PartialFill"} /\ r.view.side = "Buy"

TradePrint(r) == [shares |-> r.shares, px |-> r.px]

handle_message(c) ==
  LET r == Head(to_client[c])
  IN  /\ c \in active_sessions /\ to_client[c] # <<>>
      /\ orders' = [orders EXCEPT ![c] = Tracked(@, r)]
      /\ trades' = [trades EXCEPT ![c] = IF IsPrint(r) THEN Append(@, TradePrint(r)) ELSE @]
      /\ to_client' = [to_client EXCEPT ![c] = Tail(@)]
      /\ UNCHANGED <<acceptor, to_exchange, unwritten, counters, reused>>

-----------------------------------------------------------------------------
(* The screen.                                                             *)

\* render_tui: the shares of the entries on a side that look open, by price.
ShownAt(entries, symbol, side) ==
  {cl \in DOMAIN entries :
     /\ entries[cl].symbol = symbol /\ entries[cl].side = side
     /\ entries[cl].leaves_qty > 0 /\ entries[cl].status \notin Finished}

\* The shares of these entries added up, in some order.
LeavesOf(entries, names) ==
  LET listed == SetToSeq(names)
  IN  Summed([i \in DOMAIN listed |-> entries[listed[i]].leaves_qty], Len(listed))

Depth(entries, symbol, side) ==
  LET shown == ShownAt(entries, symbol, side)
  IN  [p \in {entries[cl].price : cl \in shown} |->
         LeavesOf(entries, {cl \in shown : entries[cl].price = p})]

-----------------------------------------------------------------------------
(* The specification.                                                      *)

Command(c) ==
  \/ Start(c) \/ Quit(c)
  \/ submit_bg_order(c) \/ StorePending(c)
  \/ submit_user_order(c) \/ RequestCancel(c)

Next == \E c \in Clients : Command(c) \/ Serve(c) \/ handle_message(c)

Spec == Init /\ [][Next]_vars

-----------------------------------------------------------------------------
(* Properties.                                                             *)

ShownStatus == {"Pending", "New", "PartialFill"} \cup Finished

\* The exchange is in order, and the maps and the OMS have the ids given so far.
AppOK(a) ==
  LET given == 1..(a.next_order_id - 1)
  IN  /\ a = [next_order_id |-> a.next_order_id, clordid_map |-> a.clordid_map,
              orderid_to_clordid_map |-> a.orderid_to_clordid_map, ex |-> a.ex]
      /\ a.next_order_id \in OrderId
      /\ a.clordid_map \in [DOMAIN a.clordid_map -> given]
      /\ a.orderid_to_clordid_map \in [given -> DOMAIN a.clordid_map]
      /\ IsExchange(a.ex, Registered) /\ DOMAIN a.ex.order_states = given

RequestOK(m) ==
  \/ m.kind = "D" /\ m = [kind |-> "D", cl |-> m.cl, order |-> m.order] /\ m.order \in Asks
  \/ m.kind = "F" /\ m = [kind |-> "F", cl |-> m.cl, orig |-> m.orig]

Views == [symbol : Symbols, side : Side, price : Prices, status : OrderStatus,
          leaves : Int, cum : Int]

\* Reports on orders that were named: answers have no shares, those on trades do.
ReportsOn(names) ==
  [order_id : OrderId, cl : names, exec_type : {"New", "Rejected", "Cancelled"},
   shares : {0}, px : {0}, view : Views]
  \cup [order_id : OrderId, cl : names, exec_type : {"Fill", "PartialFill"},
        shares : Shares, px : Prices, view : Views]

Tape == [shares : Shares, px : Prices]

Entries == [symbol : Symbols, side : Side, price : Prices, leaves_qty : Int,
            status : ShownStatus]

\* What the two threads of a client and its session hold.
ClientOK(c) ==
  /\ to_exchange[c] \in Seq(Range(to_exchange[c]))
  /\ \A i \in DOMAIN to_exchange[c] : RequestOK(to_exchange[c][i])
  /\ to_client[c] \in Seq(ReportsOn(DOMAIN app.clordid_map))
  /\ orders[c] \in [DOMAIN orders[c] -> Entries] /\ trades[c] \in Seq(Tape)
  /\ unwritten[c] # <<>> =>
       unwritten[c] = <<unwritten[c][1], unwritten[c][2]>> /\ unwritten[c][2] \in Asks
  /\ joined[c].order \in OrderId /\ joined[c].trade \in 1..(Len(executed) + 1)
  /\ c \notin active_sessions => to_client[c] = <<>>

\* Every variable has its type.
TypeOK ==
  /\ AppOK(app) /\ active_sessions \subseteq Clients /\ executed \in Seq(Tape)
  /\ DOMAIN to_exchange = Clients /\ DOMAIN to_client = Clients
  /\ DOMAIN orders = Clients /\ DOMAIN trades = Clients
  /\ DOMAIN unwritten = Clients /\ DOMAIN joined = Clients
  /\ bg_order_seq \in [Clients -> Nat \ {0}] /\ user_order_seq \in [Clients -> Nat \ {0}]
  /\ typed \in [users : Nat, cancels : Nat, starts : [Clients -> Nat]]
  /\ \A c \in Clients : ClientOK(c)

\* "Bidirectional ClOrdID <-> OrderID State Mapping": following an order to its
\* ClOrdID and back gives the order.
MapsBidirectional ==
  \A id \in DOMAIN app.orderid_to_clordid_map :
    LET cl == app.orderid_to_clordid_map[id]
    IN  cl \in DOMAIN app.clordid_map /\ app.clordid_map[cl] = id

\* What is left of it: an order loses its ClOrdID to a younger order only, and
\* only if its client or another sent that order under the same ClOrdID.
MapsAgree ==
  \A id \in DOMAIN app.orderid_to_clordid_map :
    LET cl == app.orderid_to_clordid_map[id]
    IN  /\ cl \in DOMAIN app.clordid_map /\ id <= app.clordid_map[cl]
        /\ Sole(cl) => app.clordid_map[cl] = id

\* While no other order was sent under its name, the name of an order on its way
\* is not taken, nor on its way twice.
OrderNamesFresh ==
  \A c \in Clients : \A i \in DOMAIN to_exchange[c] : to_exchange[c][i].kind = "D" =>
    LET name == to_exchange[c][i].cl
    IN  /\ name[1] # "CNL"
        /\ Sole(name) =>
             /\ name \notin DOMAIN app.clordid_map
             /\ \A d \in Clients : \A j \in DOMAIN to_exchange[d] :
                  to_exchange[d][j].kind = "D" /\ to_exchange[d][j].cl = name
                    => d = c /\ j = i

\* The name a cancel brought stands for the order of the name it was made from, or
\* for an older one that lost that name.
CancelNamesFollow ==
  /\ \A c \in Clients : \A i \in DOMAIN to_exchange[c] : to_exchange[c][i].kind # "D" =>
       to_exchange[c][i].kind = "F" /\ to_exchange[c][i].cl = CancelId(to_exchange[c][i].orig)
  /\ \A name \in DOMAIN app.clordid_map : name[1] = "CNL" =>
       /\ name = CancelId(name[3]) /\ name[3] \in DOMAIN app.clordid_map
       /\ app.clordid_map[name] <= app.clordid_map[name[3]]
       /\ Sole(name) => app.clordid_map[name] = app.clordid_map[name[3]]

\* The next number of a user's order is above those of its names in use.
Numbered(name) ==
  name[1] = "USR" => name[2] \in Clients /\ name[3] \in 1..(user_order_seq[name[2]] - 1)

\* A client that is started once does not send two orders of its user under one
\* ClOrdID, and its ClOrdIDs are not those of other clients.
UserNamesSole ==
  MaxStarts <= 1 =>
    /\ \A c \in Clients : typed.starts[c] = 0 => c \notin active_sessions /\ user_order_seq[c] = 1
    /\ \A name \in DOMAIN app.clordid_map : Numbered(name)
    /\ \A c \in Clients : \A i \in DOMAIN to_exchange[c] :
         to_exchange[c][i].kind = "D" => Numbered(to_exchange[c][i].cl)
    /\ \A name \in reused : name[1] = "BG"

\* From this TuiClient_proofs derives MapsAgree, for any number of clients,
\* starts and pre-populated orders.
NamesInv == OrderNamesFresh /\ CancelNamesFollow /\ MapsAgree /\ UserNamesSole

\* What a client prints of the first n of these reports.
Prints(reports, n) ==
  LET printed[i \in 0..n] ==
        IF i = 0 THEN <<>>
        ELSE IF IsPrint(reports[i]) THEN Append(printed[i - 1], TradePrint(reports[i]))
        ELSE printed[i - 1]
  IN  printed[n]

\* A client prints each trade made since it logged on once, in the order of the
\* trades: what it printed and the prints on their way to it are the tape.
\* Each trade is reported twice, to everyone, whoever made it.
TapeIsTrades ==
  \A c \in active_sessions :
    trades[c] \o Prints(to_client[c], Len(to_client[c]))
      = SubSeq(executed, joined[c].trade, Len(executed))

\* Nothing is on its way from or to the client.
CaughtUp(c) ==
  /\ c \in active_sessions
  /\ to_exchange[c] = <<>> /\ to_client[c] = <<>> /\ unwritten[c] = <<>>

\* The entry a client should have of an order.
TrueEntry(st) ==
  OrderEntry(st.symbol, st.side, st.price, remaining_quantity(st), Shown(st.order_status))

\* What a client has of an order: an entry under its latest ClOrdID that is so,
\* was stored as Pending too late, or has its ClOrdID in common with another
\* order; or none, when the order is older than its logon.
Settled(c, id) ==
  LET cl == app.orderid_to_clordid_map[id]
  IN  IF cl \in DOMAIN orders[c]
        THEN \/ orders[c][cl] = TrueEntry(app.ex.order_states[id])
             \/ orders[c][cl].status = "Pending"
             \/ ~Sole(cl)
        ELSE id < joined[c].order

\* A client that is caught up has an entry, under its latest ClOrdID, of every
\* order made since it logged on, and what its entries say of such an order or
\* an older one is so; but an entry of its own that was stored as Pending after
\* the last report on the order stays as it was stored, and of orders that were
\* sent under one ClOrdID there is one entry, which may be of any of them.
OrdersTracked ==
  \A c \in Clients : CaughtUp(c) => \A id \in DOMAIN app.ex.order_states : Settled(c, id)

\* A report on its way is on the order its name stands for, unless that was
\* given to another order.
ReportTrue(r) ==
  /\ r.order_id \in DOMAIN app.ex.order_states
  /\ SameTerms(r.view, app.ex.order_states[r.order_id])
  /\ Sole(r.cl) => app.clordid_map[r.cl] = r.order_id

\* What a client has under a name is in use; it is so of the order with that
\* name, whether on its way or taken, unless there are several.
NameTrue(cl, terms) ==
  /\ InUse(cl)
  /\ Sole(cl) =>
       /\ cl \in DOMAIN app.clordid_map =>
            SameTerms(terms, app.ex.order_states[app.clordid_map[cl]])
       /\ \A d \in Clients : \A i \in DOMAIN to_exchange[d] :
            to_exchange[d][i].kind = "D" /\ to_exchange[d][i].cl = cl =>
              SameTerms(terms, to_exchange[d][i].order)

\* The reports on an order that are on their way to a client.
Coming(c, id) == {i \in DOMAIN to_client[c] : to_client[c][i].order_id = id}

\* The last one shows the order as it is, under its latest name.
Current(c, id) ==
  /\ \A i \in Coming(c, id) : (\A j \in Coming(c, id) : j <= i) =>
       /\ to_client[c][i].cl = app.orderid_to_clordid_map[id]
       /\ to_client[c][i].view = View(app.ex.order_states[id])
  /\ Coming(c, id) = {} => Settled(c, id)

\* From this and NamesInv TuiClient_proofs derives OrdersTracked.
TrackInv ==
  \A c \in Clients :
    /\ \A i \in DOMAIN to_client[c] : ReportTrue(to_client[c][i])
    /\ \A cl \in DOMAIN orders[c] : NameTrue(cl, orders[c][cl])
    /\ unwritten[c] # <<>> => NameTrue(unwritten[c][1], unwritten[c][2])
    /\ c \in active_sessions => \A id \in DOMAIN app.ex.order_states : Current(c, id)

\* The shares resting at each price, of the orders for which `counts` holds.
DepthOf(symbol, side, counts(_)) ==
  LET levels == app.ex.books[symbol][side]
  IN  [p \in DOMAIN levels |->
         Summed([i \in DOMAIN levels[p] |->
                   IF counts(levels[p][i].order_id) THEN levels[p][i].quantity ELSE 0],
                Len(levels[p]))]

BookDepth(symbol, side) == DepthOf(symbol, side, LAMBDA id : TRUE)

\* Of the orders that have their ClOrdID for themselves.
SoleDepth(symbol, side) ==
  DepthOf(symbol, side, LAMBDA id : Sole(app.orderid_to_clordid_map[id]))

SharesAt(depth, p) == IF p \in DOMAIN depth THEN depth[p] ELSE 0

\* Caught up, and logged on before the first order.
SawAll(c) == CaughtUp(c) /\ joined[c].order = 1

\* "Dynamically display a unified public order book depth": a client that saw
\* every report shows the depth of the book.
DepthIsBook ==
  \A c \in Clients : SawAll(c) => \A s \in Registered, sd \in Side :
    Depth(orders[c], s, sd) = BookDepth(s, sd)

\* Entries that reports no longer reach, or that several orders share: those of
\* an order that a cancel has given another ClOrdID, those stored as Pending too
\* late, and those under a ClOrdID that more than one order was sent under.
Stale(c, cl) ==
  \/ orders[c][cl].status = "Pending"
  \/ app.orderid_to_clordid_map[app.clordid_map[cl]] # cl
  \/ ~Sole(cl)

\* At no price does the screen show less than what rests there of the orders
\* that have their ClOrdID for themselves, and where it shows no stale entry it
\* shows just that.
DepthErrsByStaleEntries ==
  \A c \in Clients : SawAll(c) => \A s \in Registered, sd \in Side, p \in Prices :
    LET shown == SharesAt(Depth(orders[c], s, sd), p)
        sole  == SharesAt(SoleDepth(s, sd), p)
    IN  /\ sole <= shown
        /\ (\A cl \in ShownAt(orders[c], s, sd) : orders[c][cl].price = p => ~Stale(c, cl))
             => shown = sole

\* An order with this name has, or comes with, no more shares than these.
AtMost(cl, shares) ==
  /\ cl \in DOMAIN app.clordid_map =>
       remaining_quantity(app.ex.order_states[app.clordid_map[cl]]) <= shares
  /\ \A d \in Clients : \A i \in DOMAIN to_exchange[d] :
       to_exchange[d][i].kind = "D" /\ to_exchange[d][i].cl = cl =>
         to_exchange[d][i].order.quantity <= shares

\* The acceptor has this name, or an order of client c is bringing it.
Arrives(c, cl) ==
  \/ cl \in DOMAIN app.clordid_map
  \/ \E i \in DOMAIN to_exchange[c] :
       to_exchange[c][i].kind = "D" /\ to_exchange[c][i].cl = cl

\* From this, TrackInv and NamesInv TuiClient_proofs derives
\* DepthErrsByStaleEntries.  The books hold what is open; what a client keeps is
\* of orders that arrive, and not too small where it was stored as Pending.
DepthInv ==
  /\ BooksMirror(app.ex)
  /\ \A c \in Clients :
       /\ IsFiniteSet(DOMAIN orders[c])
       /\ \A cl \in DOMAIN orders[c] :
            /\ Arrives(c, cl)
            /\ orders[c][cl].status = "Pending" /\ Sole(cl) =>
                 AtMost(cl, orders[c][cl].leaves_qty)
       /\ unwritten[c] # <<>> =>
            /\ Arrives(c, unwritten[c][1])
            /\ Sole(unwritten[c][1]) => AtMost(unwritten[c][1], unwritten[c][2].quantity)
=============================================================================
