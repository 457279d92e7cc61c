SPECIFICATION MoveSpec
CONSTANTS
  Objects = {o1, o2}
  Temp = temp
  TypeSupports = {t1, t2}
  Instances = {i1, i2, i3}
  Contents = {c1, c2}
  Blank = Blank
  Free = Free
  NULL = NULL
  NoObject = NoObject
  Moved = Moved
  Faults <- NoFaults
  HasRvalueRef = TRUE
PROPERTY MoveAssignDeletes
