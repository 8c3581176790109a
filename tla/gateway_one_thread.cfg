SPECIFICATION Spec
SYMMETRY GatewaySymmetry
CONSTANTS
  Sessions = {s1, s2}
  Threads = {t1}
  NoThread = NoThread
  MaxMessages = 3
  OrdTypes = {"Limit", "Market"}
  Symbols = {"A"}
  Registered = {"A"}
  Prices = {1}
  Quantities = {1, 2, 3}
  MaxOrders = 3
  MaxLogouts = 1
  risk_ctx <- MCRiskCtx
CHECK_DEADLOCK FALSE
INVARIANTS
  ReportsInv LastReportIsCurrent AckFirst HandlersAreFunctions
