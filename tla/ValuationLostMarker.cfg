SPECIFICATION Spec
CONSTANTS
  Investors = {i1}
  Requests = {r1}
  Refreshers = {}
  Scheduler = sched
  LastDay = 2
  MaxAttempts = 2
  MaxImports = 2
  MaxEdits = 0
  MaxFaults = 0
INVARIANT ReadyIsCurrent
