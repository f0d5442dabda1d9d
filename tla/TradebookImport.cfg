SPECIFICATION Spec
CONSTANTS
  Requests = {r1, r2}
  Trades = 3
  Sizes <- Units
  SameDay = FALSE
  Lots <- KnownLots
  MaxImports = 2
  MaxFaults = 1
SYMMETRY RequestSymmetry
CHECK_DEADLOCK FALSE
INVARIANTS OrderIndependent CostBasisIsSolvent RecomputeReachesChanges TradesStoredOnce
