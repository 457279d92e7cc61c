SPECIFICATION Spec
CONSTANTS
  Types <- TypesMain
  Kind <- KindMain
  Parts <- PartsMain
  Keys <- KeysMain
  Depth <- DepthMain
  Roots <- RootsMain
  Typecodes <- TypecodesMain
  PrimitiveTC = PrimitiveTC
  Foreign = {s1, s2}
  NULL = NULL
  Faults <- AllFaults
  Managers = {m1, m2}
  SafeTcs = {t1}
  Data = {d1}
  MaxLeft = 1
SYMMETRY Symmetry
INVARIANTS TypeOK OneOwner NothingLeaks StaticsStay BorrowedAlive
CHECK_DEADLOCK FALSE
