CONSTANTS
  f1 = f1
  f2 = f2
  old = old
  new = new
  x = x
  y = y
  Files = {f1, f2}
  Bodies = {old, new}
  Absent = Absent
  Torn = Torn
  N = 2
  Appenders = {2}
  Lines = {x, y}
  Archives <- PlainArchives
  MaxRuns = 3
SPECIFICATION Spec
CHECK_DEADLOCK FALSE
INVARIANTS
  RefusedLeavesNoTrace
  SuccessConverges
  RefusalHasCause
PROPERTY
  ImplementsImportBatch
