SPECIFICATION Spec
CONSTANTS
  Writers = {w1}
  Kind <- KindsTwo
  Values = {v1, v2}
  Zero = Zero
  None = None
  Faults <- NoFaults
  ReuseWriter = TRUE
  ReuseVector = FALSE
  MaxWrites = 2
  MaxQueue = 2
INVARIANT WriteCopiesData
CHECK_DEADLOCK FALSE
