SPECIFICATION Spec
CONSTANTS
  Clients = {c1}
  Symbols = {"A"}
  Registered = {"A"}
  Prices = {1, 2}
  Quantities = {1, 3}
  MaxUsers = 2
  MaxCancels = 1
  MaxStarts = 1
  risk_ctx <- MCRiskCtx
  BgOrders <- MCBgOrders
CHECK_DEADLOCK FALSE
INVARIANTS
  DepthIsBook
