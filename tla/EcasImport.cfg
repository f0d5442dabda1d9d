SPECIFICATION Spec
CONSTANTS
  Requests = {r1}
  Isins = {a, b}
  Folios = {f1, f2, f3}
  LastDate = 2
  MaxBadLines = 0
  MaxImports = 2
  MaxTradebooks = 2
  MaxFaults = 1
CHECK_DEADLOCK FALSE
PROPERTIES RemovalIsConfirmed NewestWins 
