CONSTANTS
  page = page
  log = log
  Child = {c1, c2, c3}
  Path = {page, log}
  Log = log
  None = None
  Disk = Disk
  Requests <- Asked
SPECIFICATION Spec
SYMMETRY Symmetry
INVARIANT TypeOK
INVARIANT PutAlone
INVARIANT GetAlone
INVARIANT InOrder
CHECK_DEADLOCK FALSE
