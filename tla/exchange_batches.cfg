SPECIFICATION FairSpec
CHECK_DEADLOCK FALSE
CONSTANTS
  Symbols = {"A", "B"}
  Registered = {"A", "B"}
  Prices = {1}
  Quantities = {1, 2}
  Threads = {t1, t2}
  NoThread = NoThread
  NamesOwnSymbol = TRUE
  Kinds = {"D"}
  MaxOrders = 4
  risk_ctx <- MCRiskCtx
INVARIANTS
  TradeIdsUnique
PROPERTIES
  BatchesAtomic CriticalSectionsEnd
