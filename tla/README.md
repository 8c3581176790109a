# Verification of cpp-fix-engine

TLA+ models of the exchange in this repository, the TLC runs that check them,
and theorems about them that TLAPS proves. Paths below are relative to the
repository; `oms.cpp`, `order_book.cpp`, `risk_engine.cpp` and
`exchange_application.cpp` are the files of those names under `src/`.

## 1. The system

| Part | State | Operations | Called by |
| --- | --- | --- | --- |
| **OMS** (`oms.cpp`) | `order_states_`, `trades_`, `executions_`, `next_trade_id_` (atomic), `oms_mutex_` | `submit_order`, `cancel_order`, `modify_order`, accessors | the Exchange facade |
| **OrderBook** (`order_book.cpp`) | `bids`, `asks`: price -> FIFO queue of orders | `process_order` (`match_orders`, then rest), `cancel_order` | the OMS, outside `oms_mutex_` |
| **MatchingEngine** (`matching_engine.cpp`) | `books_`: symbol -> book | `register_symbol`, `get_book`, `has_symbol` | the OMS; symbols are registered by `main` |
| **RiskEngine** (`risk_engine.cpp`) | none; reads a `RiskContext` | `check_order`: eight checks, the first that rejects wins | the OMS |
| **RiskContext loader** (`risk_context.cpp`) | none | reads a JSON file | nobody while the exchange runs |
| **Exchange** (`exchange.cpp`) | owns the three above | forwards | the FIX application, the smoke test, the benchmark |
| **ExchangeApplication** (`exchange_application.cpp`) | ClOrdID maps, session sets, id counters under `global_state_mutex_`; one mutex per symbol | `onLogon`, `onLogout`, handlers of NewOrderSingle (D), OrderCancelRequest (F), OrderCancelReplaceRequest (G), `send_exec_report` | QuickFIX threads |
| **FIX acceptor** (`apps/exchange_fix_main.cpp`) | none | registers symbols, sets risk limits, starts QuickFIX's `SocketAcceptor` | - |
| **TUI client** (`apps/fix_tui_client.py`) | `orders` (ClOrdID -> entry), `trades`, id counters, stream buffer, `dirty` | a receive thread parses reports, the command thread pre-populates the books, sends orders and cancels, and draws | a user |
| **Test clients** (`apps/fix_client.py`, `apps/fix_test_client_pure.py`) | stream buffer | send one fixed sequence of messages and show the reports | - |
| **Smoke test, benchmark** (`apps/exchange_main.cpp`, `apps/benchmark.cpp`) | none | fixed sequences of calls | - |

How they interact. A QuickFIX thread calls a handler. The handler gives the
message ids under `global_state_mutex_`, locks the mutex of *the symbol the
message names*, calls the exchange, unlocks, and sends reports to every session
that is logged on; each fill report reads the order's state again under the
symbol's mutex. Inside the OMS, `oms_mutex_` is held only to touch the OMS's
own maps: a call's risk check, its matching and its work on the book run
outside it. So a call is a sequence of critical sections, and what keeps it in
one piece is the symbol mutex its caller holds.

Every client gets every report. A TUI client has no other source: it builds its
orders, its trade prints and the public depth from the reports it happens to be
logged on for, on a thread of its own, while the command thread writes to the
same dict.

What is hard: the book and `order_states_` are two halves of one state, updated
one after the other; `cancel_order` and `modify_order` work from a copy; a
replace is six steps, two of which can end it early; trade ids come from one
counter for all books; price-time priority has to survive fills, cancels and
replaces; maps and reports are updated after the symbol's mutex has been
released; orders change their ClOrdID when they are amended, and clients come
late, quit and choose the same ClOrdIDs. `PROJECT.json` lists the hazards line by line.

What makes each part correct:

- *OMS and books*: between calls they agree, no fill is lost or doubled, no order
  trades more than it asked for, finished orders stay finished, and the whole
  behaves like a market that serves one request at a time per symbol.
- *RiskEngine*: an approval means that every configured limit holds, and still
  holds after partial fills.
- *ExchangeApplication*: the maps lead from an order to its ClOrdID and back, each
  trade is reported once on each side, reports show the truth, each message is
  answered, and on one thread each handler is one function of the state.
- *TUI client*: what it printed is the tape since it logged on; what its entries
  say is true, as far as one ClOrdID stands for one order; the depth it shows is
  the book's; what it knows gets drawn; the stream is parsed alike however TCP
  cuts it.

The README speaks of handlers on "different CPU threads" (`README.md:151`), while
`exchange_fix_main.cpp:57` builds a `SocketAcceptor`, which runs all callbacks on
one thread (`ThreadedSocketAcceptor` would have one per session). The code is
written for many threads, with a mutex for every shared map, so the models take
the set of threads as a constant, and the runs say which number they use.

## 2. The modules

| Module | What it is |
| --- | --- |
| `OrderState` | `order_state.h` and the vocabulary of `enums.h` |
| `OrderBook` | one side of a book as a value, and the operations on it |
| `RiskEngine` | `check_order` as an operator |
| `Exchange` | OMS, engine, books and the handlers' locking: **the core**, one action per step between which other threads can interfere |
| `BookAgreement` | how books and OMS agree in the middle of a call: an inductive invariant |
| `Market` | the abstract specification: orders and a tape, no books, threads or locks |
| `Priority` | what keeps price-time priority during a call: the invariant behind the refinement of `Market` |
| `Matching` | the OMS's calls as functions of the whole state |
| `ExchangeCalls` | shows that the calls of `Exchange` compute the functions of `Matching`, symbol by symbol |
| `Acceptor` | the handlers of `ExchangeApplication` as functions: new maps and exchange, reports, trades |
| `FixGateway` | `ExchangeApplication` step by step, with sessions and threads |
| `GatewayCalls` | shows that on one thread the steps of `FixGateway` come to the functions of `Acceptor` |
| `TuiClient` | TUI clients and the acceptor they trade through, on top of `Acceptor` |
| `TuiScreen` | adds to a TUI client when it draws |
| `Scripts` | the fixed scripts and set-ups of `apps/` and what comes of them; `load_from_file` |
| `StreamParser` | the clients' `_recv_loop` and `_parse_buffer` |
| `RiskLimits` | what an approval means; quantities at their width |
| `MCExchange`, `MCExchangeCalls`, `MCFixGateway`, `MCGatewayCalls`, `MCTuiClient`, `MCTuiScreen`, `MCRiskLimits` | constants for TLC |
| `Operators_proofs` | lemmas about the operations on a book and about `check_order` |
| `Matching_proofs` | what the functions of `Matching` return and keep |
| `Exchange_proofs`, `BookAgreement_proofs`, `Market_proofs` | theorems about the exchange |
| `RiskLimits_proofs`, `FixGateway_proofs`, `TuiClient_proofs` | theorems about the modules they are named after |

### From code to `Exchange`

| Code | Model |
| --- | --- |
| a message reaches a handler, which gives it an OrderId | `ReceiveOrder`, `ReceiveAmend` |
| `submit_order` up to `process_order` | `SubmitRejected`, `SubmitAccepted` |
| one iteration of `match_orders` | `MatchOne` |
| the end of `process_order`: the remainder rests | `MatchedNothing`, `MatchedSome` |
| the loop over `apply_trade` under `oms_mutex_` | `ApplyTrade`, `ApplyLastTrade` |
| terminal-state check of the handlers | `AmendRefused` |
| `cancel_order`, `modify_order`: copy of the state | `AmendStarted` |
| `OrderBook::cancel_order` | `Pull` |
| `cancel_order`: last critical section | `CancelDone` |
| `modify_order`: nothing left, or risk rejects | `ReplaceAbandoned` |
| `modify_order`: commit, then `process_order` | `ReplaceCommitted`, `MatchOne`, ... |

Variables carry the names of the members. A thread's locals (`req`, `snap`,
`incoming`, `matched`) are functions of the thread and are reset when they go
out of scope. `symbol_mutexes[s]` and `oms_mutex` hold their owner. A critical
section that only reads or writes one map is one step; `oms_mutex` is a
variable of its own because the batch of `apply_trade` is several steps. The
first step of a handler takes the symbol's mutex and runs up to the first point
where another thread can matter. In it the terminal-state checks of handler and
OMS are one: both read the same state under the same mutex.

A `Price` is a whole number of ticks: the program only compares and copies
prices and multiplies them with quantities. A level's queue keeps id and
quantity of an order, since price, side and symbol are given by the place.
`executions_` is not a variable: it is one entry per side of each entry of
`trades_` by the code of `apply_trade`. `ahead` is a history variable (arrival
order of live orders), used only for the refinement of `Market`.

### From code to `FixGateway`

Each critical section of `global_state_mutex_`, each locked call, each read of a
state and each send is an action: `Arrives` (ids and maps), `Submit`, `Cancel`,
`Replace` (the call), `Remap` (renaming under the new ClOrdID), `Lookup` (ClOrdID
of the resting order), `ReadState` (state for a fill report), `Stamp` (ExecID and
targets), `Send`. `jobs[t]` is what the handler has yet to report. A cancel keeps
its symbol's mutex until its report is sent, as the `lock_guard` of
`exchange_application.cpp:261` does; a replace releases it first. Sending one
report to all its targets is one step, so the order of reports is the same for
every client; a lost connection is a logout between two steps.

A call into the exchange is one step here. That the steps of `Exchange` come to
exactly these functions is `CallsAreFunctions` of `ExchangeCalls`: when no call is
running on a symbol, its orders and its book are what the functions made of them,
in the order in which the calls took its mutex. `promised` remembers that; what
calls on other symbols do in the meantime is not felt. `exchange_one_symbol`
checks it and section 4 proves it, for any number of threads and symbols.

`inbound` (the messages received, in order) and `KnownTo` say what clients may
name: ClOrdIDs of their own, and those in the reports they were sent. A request for an order names its symbol, as all
clients in `apps/` do. A ClOrdID is the number of its message, so no two are
equal: that is a restriction on what clients send, under which `MapsAgree` is
stated here. `TuiClient` has the ids that clients really make, and what becomes
of the maps when one is used twice.

`Acceptor` has each handler as a function, which `FixGateway` shares where it
can (`Answer`, `FillReport`, `EmptyExchange`, the calls). `HandlersAreFunctions`
of `GatewayCalls` says that whenever no handler runs the maps, the exchange and
all reports are what the functions give for the messages in `inbound`, one after
the other, with the ExecIDs and targets left out (it is a theorem: section 4). It
needs the one thread that `SocketAcceptor` has: with two, a fill report may show what another handler did.

### From code to `TuiClient` and `TuiScreen`

| Code | Model |
| --- | --- |
| start, connect, logon | `Start` (a new process: empty dict, counters at 1) |
| `submit_bg_order`: send; then store the Pending entry | `submit_bg_order`; `StorePending` |
| `submit_user_order`, `cancel_order` | `submit_user_order`, `RequestCancel` |
| the loop over commands, which `main` enters after `pre_populate_books` | `Commanding` |
| `q`: `disconnect` | `Quit` |
| a handler of the acceptor, with its broadcast | `Serve` |
| `_handle_message` on the receive thread | `handle_message`, `Tracked`, `IsPrint` |
| the depth in `render_tui` | `Depth` |
| line 476 and the first drawing | `FirstDraw` |
| `if dirty: render; dirty = False` | `Redraw`, `Clean` |
| `if char_added: render` | `KeyPressed` |

Each session is a pair of FIFO channels, as TCP gives. The two threads of a
client interleave where they share the dict: after a send the command thread may
be overtaken by the report. The fields of a ClOrdID that matter are kept as
tuples: `BG` ids have no client in them, `USR` ids do, `CNL` ids wrap the id they
cancel. `main` pre-populates the books in every client, so `BgOrders` is one list
for all of them, and with a second client each `BG-` id is sent again while the
first order of that id rests. The second order takes the map entry over, and
in every dict one entry stands for both. The history variable `reused` has the
ids that more than one order was sent under; a name is `Sole` if it is not made
from one of these. What the properties promise of an entry they promise of sole
names; of the others they say how far the damage goes: an order loses its
ClOrdID to a younger order only (`MapsAgree`), clients still print each trade
(`TapeIsTrades`), and orders with names of their own are shown as they are
(`OrdersTracked`). `executed` (all trades) and `joined` (first order and trade
after a client's logon) are history variables too. The dict of one client is drawn for all
symbols, which covers `switch`. `TuiScreen` follows the non-blocking input loop;
with blocking input the client draws after each command only, and "immediately"
is not promised.

`StreamParser` takes bytes for numbers and one byte for each field, so a chunk may
end before, inside and after every delimiter. `Scripts` plays the calls of
`exchange_main.cpp`, the pre-population and the test clients' sequence on
`Matching` and `Acceptor` with the programs' own limits; its assumptions say how
they end, TLC evaluates them in `tui_clients`.

## 3. The runs

Every bound is a constant in a `.cfg`. `MaxOrders` bounds the orders of one
behaviour (the code's counters are 64 bits wide); cancels and replaces are
bounded only by the orders being finished, and can repeat.

| Run | Bounds | Shows |
| --- | --- | --- |
| `exchange_one_symbol` | 1 thread, 3 orders, 2 prices, quantities 1..2 | types, book = OMS, no empty level, never crossed, fills, both sides of trades, the invariants `Agreement` and `PriorityInv` of the proofs, `Market` is implemented, and the steps of calls add up to the functions of `Matching` |
| `exchange_two_symbols` | 2 threads, 2 symbols, 3 orders | locks cover the books; the refinement under interleaving; the inductive invariant `IndInv` of the proofs |
| `exchange_batches` | 2 threads, 2 symbols, 4 orders, fair | unique trade ids; batches of several trades are atomic; no handler stays in its critical section |
| `exchange_limits` | 1 thread, 2 orders, prices 1..3, quantities 0..3, an unregistered symbol, fair | limits hold for what rests, with the invariants `BooksSafe` of the proofs; an order without shares is on no book; finished orders are final; orders that cross trade |
| `risk_limits` | all combinations of absent, zero and binding limits | what an approval means; fills keep it; a replace that overflows is abandoned |
| `gateway_one_thread` | 1 thread, 2 sessions, 3 messages, quantities 1..3, market orders, a logout | the last report on an order is right and the first is its ack, with the inductive `ReportsInv` of the proofs; handlers are functions |
| `gateway_two_threads` | 2 threads, 2 orders and a third message, fair | types; maps; ExecIDs, with the inductive `GatewayInv` and `FillsInv` of the proofs; every fill reported once, every message answered |
| `tui_clients` | 2 clients that each pre-populate one sell order under the same id; 2 user orders of 1 share, 1 cancel, one start each, any time to quit; 2 prices | the inductive invariants of the proofs: types, names (`NamesInv`, with `MapsAgree`) and what clients have of orders (`TrackInv`); trade prints are the tape, entries of sole names are true, depth errs only by stale entries; the scripts and the stream parser |

Why these bounds are enough for the cases that matter: three orders give a
resting queue of two with an aggressor that fills one and part of the other, a
replace that loses priority behind another order, and a cancel out of the
middle of a queue. Two prices give two levels. Quantities 1 and 2 give partial
fills on either side; quantity 3 is above the limit of `MCRiskCtx`, quantity 0
is accepted and never rests, and price 3 is outside the circuit band. Two
threads on two symbols give two calls inside the OMS at once; two threads on one
symbol give one waiting for the other's mutex. `tui_clients` has four orders of two
clients, two of them under one id: a fill of one client's order by the other's, a
second fill of the same order or of its namesake, and a cancel before, between
or after them, under the shared id too; the second client may log on before,
between and after all that, and a client may quit with reports on their way. It
has over a million states up to exchanging the clients. Quantities up to 2 are
approved, and with `MaxQuantity` 5 a replace in `risk_limits` overflows when 1
to 5 shares are filled. Symmetry is used in safety runs only, over threads,
sessions and clients, which the models only compare.

Some cases need a run other than that of the property one would think of. A
replace that risk refuses happens in `exchange_limits`; `exchange_one_symbol`, where
`BookMirrorsOrders` and `CallsAreFunctions` are checked, has only replaces with
nothing left, which take the same branch, and theorems cover the rest. An order
for zero shares is in `exchange_limits` alone. Requests that name another symbol
than their order's are in no run (`NamesOwnSymbol`), and what happens to reports
when two handlers send at once is in no run about their order: see the end of
this section. `BatchesAtomic` is checked of the thread that owns `oms_mutex_`; that
it is kept over the whole loop is how the model takes `oms.cpp:75`, and the
readers behind the accessors are not modelled.

The `CHECK_DEADLOCK FALSE` runs are those whose behaviours end: no order is left
to send (`MaxOrders`, no cancels in `Kinds`, or `MaxMessages`, `MaxUsers` reached).

### Disagreements between code and documentation

Four runs check what a document or comment says and find a counterexample. Three
of them need nothing but the programs as they are. The first needs a client that
sends an order of another type than limit, which the handler is written to
receive and no client in `apps/` sends; and the comment it quotes is about an order
that risk rejected, in a test without the FIX layer:

| Run | Said | Done |
| --- | --- | --- |
| `gateway_unsupported` | rejected orders "must not throw" (`exchange_main.cpp:125`) | an order rejected for its type is unknown to the OMS, and its cancel throws |
| `tui_shared_ids` | bidirectional map (`README.md:23`) | two TUI clients pre-populate with the same `BG-` ids, which overwrite each other |
| `tui_depth` | unified public depth (`README.md:37`) | a cancel is reported under a new ClOrdID; the old entry stays in the depth for good |
| `tui_screen` | the book view is updated immediately (`README.md:38`) | a report handled while the client draws is not shown until the next report or keypress, because the flag is cleared after drawing |

`DepthErrsByStaleEntries` says what is left of the promise in `tui_depth`, for a
client that has seen every order. Counting only the orders that have their
ClOrdID for themselves, the depth it shows is nowhere short of the book, and
exceeds it only where it shows a stale entry: one of an order that a cancel has
renamed, one stored as Pending too late, or one that orders share. For orders that
share an id no more can be said: two `BG-` orders of two clients rest and one entry
shows one of them, so with two TUI clients the depth is short of the book at those
prices. If nobody cancels or pre-populates (`MaxCancels = 0`, and an empty
`BgOrders`, which no client has) `DepthIsBook` itself holds. With pre-population it
fails without any cancel: the entry stored as Pending at `fix_tui_client.py:208` may
overwrite the report of the fill that came first, where the comment says "status
will update on exec report". With `MaxStarts = 2` `MapsBidirectional` fails for
users' orders too: a client that is started again begins at `USR-0001` while its
old order of that id still rests.

`Scripts` shows two headings of `exchange_main.cpp` to be wrong: order 8 does not
match "INFY @1510 only" (line 100) but first what is left of the better order 5,
and order 10 does not "match modified #3" (line 136) but order 1, which is ahead
of it in the queue. `risk_context.h:35` promises `std::runtime_error` for a file
that cannot be parsed; for one that lacks a field, `at` throws
`json::out_of_range`, which is not one.

Four more need several handler threads, which `README.md:151` describes and
`SocketAcceptor` does not have; no run is kept for them, each is found by changing
constants: a cancel that names another symbol than its order's works on a book
whose mutex it does not hold (`NamesOwnSymbol = FALSE`, two threads:
`LockCoversBook` fails; `README.md:124`); an older report of an order may be sent
after a newer one (`LastReportIsCurrent`, two threads), a fill before the ack that
the comment at `exchange_application.cpp:169` puts first (`AckFirst`, two
threads); and all calls share `oms_mutex_`, so two tickers do wait for each
other, which `README.md:151` denies.

### Fairness

`Exchange!FairSpec` is weak fairness of the steps a handler takes *inside* its
critical section: the operating system runs a thread that can run. Nothing is
assumed about arriving messages, nor about which waiter gets a mutex.
`FixGateway!FairSpec` is weak fairness of all steps of a handler. It includes the
first one, which waits for a symbol's mutex; with finitely many orders the mutex
becomes free for good, so weak fairness is enough, and no claim is made about
starvation by endless traffic. `Market!FairSpec` is weak fairness of `FillSome`
only. The client models have safety properties only: their network and their
users promise nothing.

## 4. The proofs

The theorems hold for every set of symbols, prices (finite, as doubles are),
quantities and threads (finite for `FillsReported`), every `RiskContext`, any `MaxOrders` and a log of any
length, under the hypotheses each names:

| Hypothesis | Needed by | Why the code justifies it |
| --- | --- | --- |
| `NamesOwnSymbol`: cancels and replaces name their order's symbol | `LockCoversBook`, `Agreement` and what rests on it, `PriorityInv`, `ImplementsMarket`, `CallsInv`, `CallsAreFunctions` | all clients in `apps/` do; without it and with several threads the properties are false (section 3) |
| `LimitsAssumption`: limits are numbers, prices not negative | `RestsApproved`, `BookedWithinLimits` | what `load_from_file` and the price checks give; with a negative price the notional falls as the quantity grows |
| `OneThread`: one thread runs the handlers | `ReportsInv`, `AckFirst`, `LastReportIsCurrent`, `ReplayInv`, `HandlersAreFunctions` | `SocketAcceptor` has one; with two the properties are false (section 3) |
| `IsFiniteSet(Threads)` | `FillsInv`, `FillsReported` | a program has finitely many threads; the sum over them is one over a sequence of them |
| `Client...Assumption`: registered symbols are symbols, quantities integers, pre-populated orders well-formed, starts a number | the module `TuiClient`, which has no other hypothesis | `main` of the client reads a quantity with `int`, and `pre_populate_books` is a fixed list |

### The exchange, `Exchange_proofs`

- `TypeOKAlways`: every variable keeps its type;
- `LevelsNonEmptyAlways`: no price level is left empty, so `front()` in
  `match_orders` is defined;
- `TradesPairSidesAlways`: trades are between a buy and a sell order of one symbol,
  both known to the OMS, so `at()` in `apply_trade` does not throw;
- `LockCoversBookAlways`: threads work on a symbol's orders only while they hold
  its mutex.

None of these is inductive. `IndInv` is: `CoreInv` adds to `TypeOK` what the
locals of a handler hold at each place (`HandlerOK`), that what rests on a side
of a book are orders of that side and symbol (`BooksTidy`), that trades pair the
sides of a symbol (`TradesTidy`), that live orders have a book
(`LiveRegistered`), and that an id on its way to the OMS is new (`SubmitsFresh`):
without the last, `insert` could be a no-op for a waiting order, and the order
would be matched with another's symbol and side. `LocksHeld` is kept apart
because it needs `NamesOwnSymbol`: `CoreInv` holds even for requests that name a
wrong symbol, the locks do not. One lemma per action shows that it keeps
`CoreInv`, one per kind of step that it keeps `LocksHeld`. They rest on
`StatesKept` (no step changes the symbol or side of a recorded order) and on
`Operators_proofs`: the operations on one side of a book keep it tidy, and its best
price exists (by the least number of a finite counterexample).

### Books and OMS, `BookAgreement_proofs`

- `BookMirrorsOrdersAlways`: between calls every open order rests once, with its
  price and what remains of it, and nothing else rests;
- `FillsWithinOrderAlways`: no order trades more than it asked for;
- `TerminalIsFinalAlways`: no step changes a finished order.

All three come from `Agreement`, which says what `BookMirrorsOrders` is silent
about: the middle of a call, when the book has been changed and the OMS has not.
`Resting(x)` is what should rest of an order given the place of the call that
works on its symbol: less by the trades not yet applied, nothing for an order
that is pulled or being replaced, the remainder of the incoming one. Then each
side of a book holds exactly `Content` (`BooksHold`). For a step to keep it, the
copy in `snap` must still be the state (`SnapCurrent`), each waiting trade must
fit what is left of its resting order (`Covered`), no order may be hit twice and
only the last trade of a call may leave shares of the order it hit (`HitsOnce`),
and the trades must add up to what the incoming order lost (`AddsUp`). The last
is stated with a function of partial remainders instead of a sum, so that
applying a trade drops its first value and matching extends it by one, and no
induction is needed. `Agreement` is inductive given `IndInv`; a thread on another
symbol disturbs none of it because it works on other orders, which is where
`LocksHeld` enters.

### Single properties of books and trades, `Exchange_proofs`

- `UncrossedAlways`, from `NoCross`: a side never rests an order that crosses the
  other, and the order of a call that has stopped matching does not cross. It
  holds whatever symbols requests name;
- `BatchesAtomicAlways`, from `BatchOwner`: who holds `oms_mutex_` is applying;
- `BookedWithinLimitsAlways`, from `RestsApproved`: what rests, and what is on its
  way to the book, passes `check_order`; a fill only lowers the quantity;
- `BooksSafeAlways`: `NoCross`, `RestsApproved` and `BatchOwner` together;
- `TradeIdsUniqueAlways`: the counter is ahead of every id given out, and every
  step makes a trade, moves one, forgets some, or leaves them alone;
- `FilledIsExecutedAlways`: `filled_quantity` is the total of the order's
  executions in the log. `ExecutedUpTo` is a recursive function over the length
  of the log. The library's induction cannot be used, so that it exists, and
  that appending a trade leaves the earlier totals alone, is shown by the least
  length at which it would fail.

### The calls of the exchange

#### They implement the market, `Market_proofs`

`ImplementsMarketAlways`: the exchange implements `Market`, the specification in
which requests on a symbol are served one after the other and an order trades
with the best and oldest order of the other side at that order's price. The
initial states correspond, and each step is one of `Market` or a stutter:

| `Exchange` | `Market` |
| --- | --- |
| `SubmitRejected` | `Reject` |
| `SubmitAccepted` | `Accept`, whose guard, that the symbol is settled, is what a free mutex means |
| `CancelDone`, `ReplaceAbandoned` | `Cancel` |
| `ReplaceCommitted` | `Replace` |
| `ApplyTrade`, `ApplyLastTrade` | `Fill` |
| all others | stutter |

The work is in `Fill`: a trade is applied after the whole call has matched, when
the book no longer shows why the trade was right. `PriorityInv` remembers it. It
says of every waiting trade that the order it hit is better or older than every
open order that the call has not hit up to then (`HitBest`), that the incoming
order stands behind everything else on its symbol (`LastInLine`), and that the
queues stand in order of arrival (`QueuesInOrder`). So when the trade is
applied, the orders hit before are gone (`HitWhole`) and what it hit is the best
there is. `PriorityInv` is inductive given `Agreement` and `NoCross`.

#### What the functions return and keep, `Matching_proofs`

The FIX application makes each call in one step, so what is proved about it
needs to know what a call returns and keeps. `match_orders` is a recursive
function of the number of turns of its loop; `MostTurns`, the orders queued on
the other side, is a bound on them: every turn but the last takes an order
off (`TurnTakes`), so it is never short. The theorems here are lemmas for other
modules:

- `SubmitOK`, `CancelOK`, `ModifyOK`: a call keeps `IsExchange` (each side of a
  book holds orders of its side and symbol, no level is empty, live orders have a
  book), knows the orders it knew and a submitted one, and returns trades with
  orders it knows; the orders that it neither names nor trades with (`Touched`) stay as
  they are. `IsExchange` cannot be weakened to types: a level left empty, or
  an order on a book that the OMS does not have, would make the next call's
  `front()` or `at()` undefined;
- under them `MatchedOK` for the loop, `AppliedAre` for the batch of `apply_trade`,
  and `RecursionExists`: a recursive function over `0..n` exists and is what its
  equations say. The library's induction cannot be used, so this and every
  statement about all turns of a loop is shown by the least turn at which it
  would fail (`Inductive`, `Follows`);
- `SubmitAdds`, `CancelAdds`, `ModifyAdds`: a call adds to the filled quantity of
  every order exactly what its trades say (`TradedOf`). Sums are recursive
  functions over the length of a sequence (`Summed`), and what is needed of them
  (one more term, one term changed, two sequences one after the other, terms that
  are zero) are the lemmas `SummedStep`, `SummedChange`, `SummedBoth`, `SummedZero`.

#### Their steps come to the functions, `Market_proofs`

`CallsAreFunctionsAlways`: the loop of `match_orders`, the two halves of
`cancel_order` and the six steps of `modify_order` add up to one function each, for
any number of threads and symbols. It says nothing of a symbol on which a call
is running. `CallsInv`, which is inductive given `Agreement` and what that rests
on, does: what the rest of the call makes of its symbol when it goes on by itself
(`Coming`) is what was promised when it took the mutex. For a call that is
matching, `Coming` runs the loop from the turn it has reached (`RunOf`: the book as
it is, the shares left, the trades made so far as fills) and then applies its
fills; for one that is applying, it applies those that wait; for a replace, it
goes on from the copy in `snap`.

Each step of a call lands where `Coming` is what it was, or has the promise when it
ends (`Lands`, one lemma per action). The steps of `match_orders` are the turns of
the loop one by one (`MatchOneTurns`); a run that is taken one turn further ends
where it would have ended (`RunsGoOn`, `EndGoesOn`), because no more turns
remain than orders queued; a trade applied is the first of the batch
(`AppliedGoesOn`, `PartApplied`). `Agreement` is needed so that the state in `snap`
is the one the function reads (`SnapCurrent`), and so that the fill that the OMS
computes and the one the book makes are of the same order with the same shares.
A step of another call leaves the symbol's orders and book alone
(`PartElsewhere`, `ComingStays`), which is where `LocksHeld` enters.

### Handlers and clients, `FixGateway_proofs` and `TuiClient_proofs`

`TypeOKAlways` and `ExecIdsUniqueAlways` of `FixGateway`: every variable has its
type, and no two reports carry the same ExecID, for any number of threads. Both
come from `GatewayInv`, which is inductive. It adds that every handler is between
two of its steps: what its message says (`MessageOK`), that no two handlers submit
an order with one OrderId and that such an order is new to the OMS
(`SubmitsDiffer`), and that its reports fit its place (`JobsFit`: the first is as
far as the handler has come with it, the others are fills of orders that the OMS
knows, so that reading their state cannot throw). ExecIDs are unique because
those of the reports on their way count too (`ExecIdsTaken`). Which thread holds
what mutex plays no part in it.

`AckFirstAlways` and `LastReportIsCurrentAlways`, for one thread: the first report
on an order answers its NewOrderSingle, and when no handler runs the last one shows
the order as the OMS has it. Neither is inductive, because a call changes the
orders at once and the handler reports them one by one. `ReportsInv` says how what
was sent and what is still to be sent fit together: of every order the OMS has,
something was reported or the ack is the next report; and the last report on it
is right, or the handler has one more to make. A report that has its contents
already (`Drafted`) counts as right only if it shows the order as it is or the same
order comes again. A call keeps this because the orders it changes are the one it
names and the ones it trades with, and each of them gets a report
(`CallKeepsFit`); looking up, reading and sending a report keep it because no
other handler makes a call meanwhile, which is where one thread is needed.

`HandlersAreFunctionsAlways`, for one thread: when no handler runs, the maps, the
exchange and everything reported are what the functions of `Acceptor` give for the
messages received, one after the other. So what `TuiClient` assumes of the
acceptor, that a message is served in one step, is what the handlers come to,
although they look up names and read states again before each of their reports.
`ReplayInv` says it between the steps: what those functions give is already what
the handler will come to (`Prospect`), that is the state after the calls and map
entries it has yet to make, the reports sent, and each report to come with what
it will say (`Foretold`), filled in from the maps and states as they will be when
the handler is done with both. A call turns its stage into reports to come
(`CallForetold`: the reports of `FillReports` are those of `FillsOf`, read after the
call), and each later step fills in or sends a report that says what was foretold
(`HeadReplays`, `TaleGoesOn`), because no other handler changes the maps or the
exchange meanwhile. What was received before is not run again when a message
arrives (`ReplayMore`): a function over the first messages agrees with one over all.

`FillsReportedAlways`, for any finite number of threads: when no handler runs, the
shares in the reports on an order add up to what the OMS says it has filled, so
no trade was left out or reported twice on a side. Not inductive either: a call
fills at once and its handler reports trade by trade, while other handlers do
the same. `FillsInv` counts what is due too: filled is what was reported and,
summed over the handlers, what each has yet to report. A call makes due what it
fills (`FillsCall`, from `SubmitAdds` and its like), a report moves its shares from
due to sent, and no step of one handler touches what another has due. That no
handler forgets reports it owes is `JobsFit`, hence `GatewayInv`.

`MapsAgreeAlways` of `FixGateway`: from an order to its ClOrdID and back one gets to
the same order. The invariant is that no ClOrdID enters the maps twice
(`NamesInv`: a name in the maps or with a handler is the number of a message that
has arrived, and each message has one handler).

The theorems on `TuiClient` hold for any number of clients, every one of which
pre-populates the books, of starts, orders and cancels. Its `MapsAgreeAlways` is
about the ids that clients really make up: from an order to its ClOrdID and back
one gets to the same order, or to a younger one that was sent under the same
ClOrdID. `NamesInv` keeps it: a sole name of an order on its way is neither taken
nor on its way again (`OrderNamesFresh`), because a name that is used a second
time is `reused` from that step on. A cancel's name need not be free, as a client
may cancel twice, but then it wraps the same name, and so stands for the same
order already, or for an older one that has lost that name since
(`CancelNamesFollow`). `UserNamesSole` says which names can be `reused` when each
client is started once: only `BG-` ids.

`TypeOKAlways` of `TuiClient`: what a client keeps, what is on
its way to and from the acceptor and the acceptor's own state are of their types.
The parts depend on each other: a report names an order that the acceptor knows
(`ReportsOn`), a request's order is one that may be submitted (`RequestOK`), and the
acceptor's state is what `Matching_proofs` needs to say what a request does
(`AppOK`, with `IsExchange`).

`TapeIsTradesAlways`: what a client has printed and will print
of the reports on their way are the trades made since it logged on, in order.
The prints of a queue are a recursive function over its length (`Prints`); the
queue grows by a request's reports at the back and loses one at the front, so
what is needed of it are its values on two queues one after the other. That a
request's reports print its trades, each once, rests on `Matching_proofs`: a
trade has two reports, of the aggressor and of the order it hit, and these are on
opposite sides (`PairPrints`), so that one of the two is printed; and its shares
are positive.

`OrdersTrackedAlways`: what a client that is caught up shows of an order under a
sole name is the order, unless it stored it as Pending too late. Not inductive,
since nothing is said about clients that are behind.
`TrackInv` is, given `TypeOK` and `NamesInv`: of the reports on an
order on their way to a client the last shows it as it is, under its latest name,
and where none is on its way the entry does (`Current`); and whatever is on its
way or kept under a sole name has the symbol, side and price of the order the
name stands for (`ReportTrue`, `NameTrue`), also when that order has yet to arrive, since
a
report changes only shares and status of an entry that is there already. A
request keeps `Current` because its reports are made when the call is over, from
the state then, and there is one of every order the call changes.

`DepthErrsByStaleEntriesAlways`: at every price, the shares of the entries shown are
not less than those resting of orders with sole names, and just as many where no
shown entry is stale. Both are sums, one over the entries of a dict in some order
and one over a queue of the book. `OrdersTracked` and `BookMirrorsOrders` match them
term by term: an order that rests under a sole name has an entry that is shown,
with the shares it has or, when stored as Pending too late, no fewer
(`OpenIsShown`), and an entry that is shown and not stale is of an order that rests
(`ShownIsOpen`). Different orders have different entries and the other way round, so
each sum is at most the other (`SummedBelow`: numbers of which each but the zeros is
sent to a greater one, no two to the same, add up to no more; shown by the
least length at which it would fail). `DepthInv` is what else is needed and
inductive: the books of the acceptor hold the open orders (every handler keeps
that, `HandledMirrors`), and a Pending entry of a sole name has no fewer shares than
its order, whether that is on its way or was filled in part.

### Risk checks, `RiskLimits_proofs`

The properties of `risk_limits` for every context whose limits are numbers: an
approval is equivalent to the tightest configured limits; (for prices and
percentages that are not negative) it survives fills; and for every width a
replace that overflows is abandoned, as it would be without overflow, while a
quantity limit and the shares filled so far stay within the width together. The
last rests on the quantity checks alone: an overflow leaves an open quantity
above the limit.

### Only model-checked

- Liveness, since fairness and `ENABLED` are beyond the prover:
  `ImplementsFairMarket`, `CriticalSectionsEnd`, `EveryMessageAnswered`.
- The assumptions of `Scripts` and `StreamParser`: single computations.

Every invariant the proofs use is an invariant of a TLC run as well, except four:
of `DepthInv` the runs check what follows from it, `DepthErrsByStaleEntries`, of
`NamesInv` of `FixGateway` the runs check the part `MapsAgree`, of `ReplayInv`
what it says of an idle thread, `HandlersAreFunctions`, and of `CallsInv` what it
says of a free symbol, `CallsAreFunctions`. (`DepthInv`, `ReplayInv` and `CallsInv` hold
in `tui_clients.cfg`, `gateway_one_thread.cfg` and `exchange_one_symbol.cfg` too when
they are listed there.)

## 5. What is not modelled

- QuickFIX itself: logon, sequence numbers, resends, heartbeats, the socket; and
  with it what becomes of requests on their way when a client quits. The TUI
  client answers no TestRequest (`fix_tui_client.py:115`), so its session ends
  after a while of silence; here that is a logout at any time.
- `benchmark.cpp`: submits a million random orders and times them.
- The files behind `load_from_file`: opening, parsing, missing fields.
- The wording and layout of what the programs print, the commands that only
  redraw, and the spelling of ids: `README.md:161` shows `cancel USR-0001`, a key
  that no client has.
- The RuntimeError that Python raises when `render_tui` iterates over the dict while the
  receive thread adds to it (`fix_tui_client.py:283`).
- The width of integers other than the quantity of a replace, and rounding in
  `price * quantity`: accepted orders are far below 2^31 under the configured
  limits.

## 6. Plan

1. *Done*: the modules above and their runs; every part of the system except the
   benchmark and the scripts that build and launch has a model.
2. *Done*: the proofs of section 4. Every safety property of the exchange that a
   run checks has a theorem.
3. *Done*: `FillsReported` and `HandlersAreFunctions` of the handlers, and of the clients
   the types, the names, the tape, what they show of orders and the depth. Every
   safety property that a run finds to hold has a theorem.
4. What stays with TLC is listed under "Only model-checked".
