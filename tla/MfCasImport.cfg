SPECIFICATION Spec
CONSTANTS
  Requests = {r1}
  LastDay = 4
  Deltas <- Units
  Windows <- OnePartial
  LossyParser = TRUE
  MaxFaults = 1
INVARIANTS AnyOrderConverges CostBasisIsTrue PartialKeepsSnapshot
PROPERTY NeverDowngraded
