\* One actor at a time (server: one scheduler replica; desktop: one user).
SPECIFICATION SerialSpec
CONSTANTS
  Investors = {i1}
  Requests = {r1}
  Refreshers = {w1}
  Scheduler = sched
  LastDay = 3
  MaxAttempts = 2
  MaxImports = 2
  MaxEdits = 0
  MaxFaults = 1
INVARIANT ReadyIsCurrent
PROPERTY KeepsPromise
