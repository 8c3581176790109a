SPECIFICATION FairSpec
CONSTANTS
  Sessions = {s1, s2}
  Threads = {t1, t2}
  NoThread = NoThread
  MaxMessages = 3
  OrdTypes = {"Limit"}
  Symbols = {"A"}
  Registered = {"A"}
  Prices = {1}
  Quantities = {1, 2}
  MaxOrders = 2
  MaxLogouts = 0
  risk_ctx <- MCRiskCtx
CHECK_DEADLOCK FALSE
INVARIANTS
  MapsAgree FillsInv GatewayInv ExecIdsUnique FillsReported
PROPERTIES
  EveryMessageAnswered
