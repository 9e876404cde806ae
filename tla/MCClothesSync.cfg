SPECIFICATION FairSpec
CONSTANTS
  User = {u, p}
  Editor = {p}
  Viewer = {u}
  Category = {top}
  Cloth = {k1, k2}
  MaxSave = 2
  MaxListen = 3
  MaxLink = 2
CHECK_DEADLOCK FALSE
INVARIANTS TypeOK OwnScreenAgrees PresentItemsShown NothingInvented
PROPERTIES Delivered EditsKept
