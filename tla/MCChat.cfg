SPECIFICATION Spec
CONSTANTS
  User = {u, p}
  Send = {m1, m2}
  Text = {a}
  Time = {1, 2}
  MaxOpen = 2
  MaxLink = 1
  MaxRefused = 1
CHECK_DEADLOCK FALSE
SYMMETRY Symmetry
INVARIANTS TypeOK ReplyOrder TypedKept ListComplete
 
