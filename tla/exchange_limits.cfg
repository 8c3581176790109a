SPECIFICATION FairSpec
CONSTANTS
  Symbols = {"A", "U"}
  Registered = {"A"}
  Prices = {1, 2, 3}
  Quantities = {0, 1, 2, 3}
  Threads = {t1}
  NoThread = NoThread
  NamesOwnSymbol = TRUE
  Kinds = {"D", "F", "G"}
  MaxOrders = 2
  risk_ctx <- MCRiskCtx
INVARIANTS
  BookedWithinLimits BooksSafe
PROPERTIES
  TerminalIsFinal ImplementsFairMarket
