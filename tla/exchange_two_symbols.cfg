SPECIFICATION Spec
SYMMETRY ThreadSymmetry
CONSTANTS
  Symbols = {"A", "B"}
  Registered = {"A", "B"}
  Prices = {1}
  Quantities = {1}
  Threads = {t1, t2}
  NoThread = NoThread
  NamesOwnSymbol = TRUE
  Kinds = {"D", "F", "G"}
  MaxOrders = 3
  risk_ctx <- MCRiskCtx
INVARIANTS
  LockCoversBook IndInv
PROPERTIES
  ImplementsMarket
