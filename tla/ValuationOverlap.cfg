SPECIFICATION Spec
CONSTANTS
  Investors = {i1}
  Requests = {r1}
  Refreshers = {w1}
  Scheduler = sched
  LastDay = 0
  MaxAttempts = 2
  MaxImports = 2
  MaxEdits = 1
  MaxFaults = 1
INVARIANTS TypeOK ReadyHasNoMarker ErrorIsScheduledOrExhausted
PROPERTIES NeverBlanked ErrorKeepsMarker
