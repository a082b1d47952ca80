SPECIFICATION Spec
CONSTANTS
  Workers = {w1}
  Days = 2
  Accrual = 2
  Opening = 3
  None = None
  MaxDay = 3
  MaxRows = 3
  MaxFaults = 0
INVARIANT BalanceIsSum
CHECK_DEADLOCK FALSE
