\* Edits of an investor are not overlapped by an import.
SPECIFICATION Spec
CONSTANTS
  Imports = {j1, j2}
  Ids = {i1, i2}
  p1 = p1
  p2 = p2
  a = a
  b = b
  Pans = {p1, p2}
  Lines = {a, b}
  NoLine = NoLine
  Files <- Uploads
  EditsAlone = TRUE
SYMMETRY AnyOrder
CHECK_DEADLOCK FALSE
INVARIANTS TypeOK DataFollowsPan CorrectedIsCleared RejectsOutliveTheirImport
