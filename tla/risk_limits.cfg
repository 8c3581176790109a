SPECIFICATION Spec
CONSTANTS
  Symbols = {"A", "B"}
  Prices = {0, 1, 2, 3}
  Quantities <- MCQuantities
  MaxQuantity = 5
  Contexts <- MCContexts
CHECK_DEADLOCK FALSE
INVARIANTS
  ApprovedMeansWithinLimits OverflowIsRefused
PROPERTIES
  FillKeepsApproval
