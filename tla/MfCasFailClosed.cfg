SPECIFICATION Spec
CONSTANTS
  Requests = {r1}
  LastDay = 3
  Deltas <- Units
  Windows <- AllPeriods
  LossyParser = FALSE
  MaxFaults = 1
INVARIANT StaleIsNotTaxSafe
