SPECIFICATION Spec
CONSTANTS
  User = {u, p, q}
  Editor = {p, q}
  Viewer = {u}
  Category = {top}
  Cloth = {k1}
  MaxSave = 1
  MaxListen = 2
  MaxLink = 2
CHECK_DEADLOCK FALSE
SYMMETRY Symmetry
INVARIANTS PresentItemsShown
