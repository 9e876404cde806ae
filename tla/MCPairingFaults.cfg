SPECIFICATION Spec
CONSTANTS
  Device = {d1, d2}
  Code = {c1, c2}
  Attempt = {t1}
  Fault = {"kill", "offline", "error", "reject"}
  FreshCode = TRUE
  MaxAppear = 2
  MaxMain = 1
CHECK_DEADLOCK FALSE
SYMMETRY Symmetry
INVARIANTS Consent
PROPERTIES IndexTrapOnlyUnregistered
