SPECIFICATION Spec
CONSTANTS
  User = {u, p}
  Editor = {p}
  Viewer = {u}
  Category = {top}
  Cloth = {k1}
  MaxSave = 2
  MaxListen = 3
  MaxLink = 1
CHECK_DEADLOCK FALSE
SYMMETRY Symmetry
INVARIANTS PartnerSeesOutfit
