SPECIFICATION FairSpec
CONSTANTS
  Investors = {i1, i2}
  Requests = {r1}
  Refreshers = {}
  Scheduler = sched
  LastDay = 0
  MaxAttempts = 2
  MaxImports = 1
  MaxEdits = 0
  MaxFaults = 1
PROPERTIES RecoveredFeedIsValued QueuedIsAttempted
