SPECIFICATION Spec
CONSTANTS
  Device = {d1}
  Code = {c1}
  Attempt = {t1}
  Fault = {}
  FreshCode = TRUE
  MaxAppear = 2
  MaxMain = 1
CHECK_DEADLOCK FALSE
SYMMETRY Symmetry
INVARIANTS CodeIsSaved
