SPECIFICATION Spec
CONSTANTS
  Writers = {w1, w2}
  Kind <- KindsMain
  Values = {v1, v2}
  Zero = Zero
  None = None
  Faults <- AllFaults
  ReuseWriter = TRUE
  ReuseVector = TRUE
  MaxWrites = 2
  MaxQueue = 2
SYMMETRY Symmetry
INVARIANTS TypeOK PresentMembersArrive RoundTrip
PROPERTY QueueOfValues
