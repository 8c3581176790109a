-------------------------- MODULE RiskLimits_proofs --------------------------
(***************************************************************************)
(* What check_order's answers mean, for every RiskContext with whole       *)
(* numbers for limits and every order with a price that is not negative.   *)
(***************************************************************************)
EXTENDS RiskLimits, Operators_proofs

\* The order is one the run may ask about.
InputsOK ==
  /\ ctx \in Contexts
  /\ order \in [symbol : Symbols, price : Prices, quantity : Quantities]

\* Orders stay of the enumerated kind while they fill.
LEMMA InputsAlwaysOK == Spec => []InputsOK
<1>1. Init => InputsOK
  BY DEF Init, InputsOK
<1>2. InputsOK /\ [Fill]_vars => InputsOK'
  <2> SUFFICES ASSUME InputsOK, [Fill]_vars PROVE InputsOK'
    OBVIOUS
  <2>1. CASE Fill
    BY <2>1 DEF Fill, InputsOK
  <2>2. CASE UNCHANGED vars
    BY <2>2 DEF vars, InputsOK
  <2> QED BY <2>1, <2>2
<1> QED BY <1>1, <1>2, PTL DEF Spec

\* However an approved order is filled, what is left of it passes every check
\* of check_order, in any well-formed context.
THEOREM FillKeepsApprovalAlways ==
  ASSUME Quantities \subseteq Int, Prices \subseteq Nat,
         \A c \in Contexts : WellFormed(c)
  PROVE  Spec => FillKeepsApproval
<1>1. InputsOK /\ [Fill]_vars => [Approved(ctx, order) => Approved(ctx', order')]_vars
  <2> SUFFICES ASSUME InputsOK, Fill, Approved(ctx, order)
               PROVE  Approved(ctx', order')
    OBVIOUS
  <2>1. PICK quantity \in Quantities :
          quantity < order.quantity /\ order' = [order EXCEPT !.quantity = quantity]
    BY DEF Fill
  <2>2. /\ order.price \in Nat /\ order.quantity \in Int /\ order'.quantity \in Int
        /\ order'.symbol = order.symbol /\ order'.price = order.price
        /\ order'.quantity <= order.quantity
    BY <2>1 DEF InputsOK
  <2>3. WellFormed(ctx) /\ ctx' = ctx
    BY DEF InputsOK, Fill
  <2> QED BY <2>2, <2>3, FewerSharesPass
<1> QED BY <1>1, InputsAlwaysOK, PTL DEF Spec, FillKeepsApproval

\* check_order approves exactly the orders within the tightest configured
\* limit of each kind, in any well-formed context.
THEOREM ApprovedMeansWithinLimitsAlways ==
  ASSUME Quantities \subseteq Int, Prices \subseteq Nat,
         \A c \in Contexts : WellFormed(c)
  PROVE  Spec => []ApprovedMeansWithinLimits
<1>1. InputsOK => ApprovedMeansWithinLimits
  <2> SUFFICES ASSUME InputsOK PROVE ApprovedMeansWithinLimits
    OBVIOUS
  <2>1. /\ WellFormed(ctx) /\ order.price \in Nat /\ order.quantity \in Int
    BY DEF InputsOK
  <2>2. notional(order) \in Int
    BY <2>1 DEF notional
  <2>3. check_circuit_limits(ctx, order) <=> InBand
    BY <2>1 DEF check_circuit_limits, InBand, WellFormed, MapsInto
  <2>4. check_margin(ctx, order) <=>
          \A var \in PerSymbol(ctx.var_percentage), elm \in PerSymbol(ctx.elm_percentage) :
            notional(order) * (var + elm) <= 100 * ctx.available_margin
    <3> DEFINE s == order.symbol
               k == ctx.var_percentage[s] + ctx.elm_percentage[s]
    <3>1. CASE s \in DOMAIN ctx.var_percentage /\ s \in DOMAIN ctx.elm_percentage
      <4>1. k \in Int
        BY <2>1, <3>1 DEF WellFormed, MapsInto
      <4>2. notional(order) * k \in Int /\ 100 * ctx.available_margin \in Int
        BY <2>1, <2>2, <4>1 DEF WellFormed
      <4>3. check_margin(ctx, order) <=> notional(order) * k <= 100 * ctx.available_margin
        BY <3>1, <4>2 DEF check_margin
      <4> QED BY <3>1, <4>3 DEF PerSymbol
    <3>2. CASE ~(s \in DOMAIN ctx.var_percentage /\ s \in DOMAIN ctx.elm_percentage)
      BY <3>2 DEF check_margin, PerSymbol
    <3> QED BY <3>1, <3>2
  <2>5. /\ check_qty_per_order(ctx, order) /\ check_qty_per_symbol(ctx, order)
        /\ check_qty_per_account(ctx, order)
        <=>
        \A limit \in QuantityLimits : order.quantity <= limit
    BY <2>1 DEF check_qty_per_order, check_qty_per_symbol, check_qty_per_account,
       NoLimit, QuantityLimits, Configured, PerSymbol, WellFormed, MapsInto
  <2>6. /\ check_notional_per_order(ctx, order) /\ check_notional_per_symbol(ctx, order)
        /\ check_notional_per_account(ctx, order)
        <=>
        \A limit \in Configured({ctx.max_notional_per_order, ctx.max_notional_per_account}
                                  \cup PerSymbol(ctx.max_notional_per_symbol)) :
          notional(order) <= limit
    BY <2>1, <2>2 DEF check_notional_per_order, check_notional_per_symbol,
       check_notional_per_account, NoLimit, Configured, PerSymbol, WellFormed, MapsInto
  <2> QED BY <2>3, <2>4, <2>5, <2>6, ApprovedIsAllChecks
          DEF AllChecks, ApprovedMeansWithinLimits
<1> QED BY <1>1, InputsAlwaysOK, PTL

\* An overflow in a replace never puts shares on the book: for every width, and
\* every well-formed context with a quantity limit that leaves room for the
\* shares filled so far.
THEOREM OverflowIsRefusedAlways ==
  ASSUME MaxQuantity \in Nat, \A c \in Contexts : WellFormed(c)
  PROVE  Spec => []OverflowIsRefused
<1>1. InputsOK => OverflowIsRefused
  <2> SUFFICES ASSUME InputsOK,
                      NEW filled \in 0..MaxQuantity,
                      NEW new_qty \in (-MaxQuantity - 1)..MaxQuantity,
                      NEW limit \in QuantityLimits, filled + limit <= MaxQuantity
               PROVE  Rebooked(OpenQuantity(new_qty, filled)) = Rebooked(new_qty - filled)
    BY DEF OverflowIsRefused
  <2> DEFINE open == OpenQuantity(new_qty, filled)
  <2>1. CASE new_qty - filled >= -MaxQuantity - 1
    BY <2>1 DEF OpenQuantity
  <2>2. CASE new_qty - filled < -MaxQuantity - 1
    <3>1. WellFormed(ctx) /\ limit \in Int
      BY DEF InputsOK, QuantityLimits, Configured, PerSymbol, WellFormed, MapsInto
    <3>2. open \in Int /\ open > limit
      BY <2>2, <3>1 DEF OpenQuantity
    <3> HIDE DEF open
    <3> DEFINE revised == [order EXCEPT !.quantity = open]
    <3>3. revised.quantity = open /\ revised.symbol = order.symbol
      BY DEF InputsOK
    <3> HIDE DEF revised
    <3>4. ~(/\ check_qty_per_order(ctx, revised) /\ check_qty_per_symbol(ctx, revised)
            /\ check_qty_per_account(ctx, revised))
      BY <3>1, <3>2, <3>3 DEF check_qty_per_order, check_qty_per_symbol,
         check_qty_per_account, NoLimit, QuantityLimits, Configured, PerSymbol
    <3>5. ~Approved(ctx, revised)
      BY <3>4, ApprovedIsAllChecks DEF AllChecks
    <3>6. Rebooked(open) = 0
      BY <3>5 DEF Rebooked, revised
    <3>7. Rebooked(new_qty - filled) = 0
      BY <2>2 DEF Rebooked
    <3> QED BY <3>6, <3>7 DEF open
  <2> QED BY <2>1, <2>2
<1> QED BY <1>1, InputsAlwaysOK, PTL
=============================================================================
