SPECIFICATION Spec
CONSTANTS
  Clients = {c1, c2}
  Symbols = {"A"}
  Registered = {"A"}
  Prices = {1, 2}
  Quantities = {1}
  MaxUsers = 2
  MaxCancels = 1
  MaxStarts = 1
  risk_ctx <- MCRiskCtx
  BgOrders <- MCBgOrders
SYMMETRY Symmetry
CHECK_DEADLOCK FALSE
INVARIANTS
  TypeOK NamesInv TrackInv TapeIsTrades OrdersTracked DepthErrsByStaleEntries
