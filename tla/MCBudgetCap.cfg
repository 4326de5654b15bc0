CONSTANTS
  c1 = c1
  c2 = c2
  c3 = c3
  Callers <- MCCallers
  Amounts = {1, 2}
  HardCap = 2
  TierLimits = {2}
  MaxReservations = 2
CHECK_DEADLOCK FALSE
SPECIFICATION BudgetSpec
INVARIANT HardCapHolds
