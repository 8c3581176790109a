SPECIFICATION CallsSpec
CONSTANTS
  Symbols = {"A"}
  Registered = {"A"}
  Prices = {1, 2}
  Quantities = {1, 2}
  Threads = {t1}
  NoThread = NoThread
  NamesOwnSymbol = TRUE
  Kinds = {"D", "F", "G"}
  MaxOrders = 3
  risk_ctx <- MCRiskCtx
INVARIANTS
  TypeOK BookMirrorsOrders LevelsNonEmpty Uncrossed FillsWithinOrder FilledIsExecuted Agreement PriorityInv TradesPairSides CallsAreFunctions
PROPERTIES
  ImplementsMarket
