SPECIFICATION FairSpec
CONSTANTS
  Device = {d1, d2}
  Code = {c1, c2}
  Attempt = {t1}
  Fault = {"resend"}
  FreshCode = TRUE
  MaxAppear = 1
  MaxMain = 2
CHECK_DEADLOCK FALSE
PROPERTY Converges
