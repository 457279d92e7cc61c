SPECIFICATION Spec
CONSTANTS
  Objects = {o1, o2, o3}
  Temp = temp
  TypeSupports = {t1, t2}
  Instances = {i1, i2, i3, i4}
  Contents = {c1, c2}
  Blank = Blank
  Free = Free
  NULL = NULL
  NoObject = NoObject
  Moved = Moved
  Faults <- AllFaults
  HasRvalueRef = TRUE
SYMMETRY Symmetry
INVARIANTS SoleOwner HeldIsDeletable
PROPERTY ValueSemantics
