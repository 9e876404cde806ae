SPECIFICATION FairSpec
CONSTANTS
  User = {u, p, q}
  Send = {m1}
  Text = {}
  Time = {1}
  MaxOpen = 2
  MaxLink = 1
  MaxRefused = 1
CHECK_DEADLOCK FALSE
INVARIANT ListComplete
PROPERTY Received
