SPECIFICATION Spec
CONSTANTS
  Writers = {w1, w2, w3}
  NULL = NULL
  Supports = {ts1, ts2, ts3}
  DataWriters = {dw1, dw2, dw3}
  TopicNames = {Square, Circle, Triangle}
  Faults <- AllFaults
SYMMETRY Symmetry
INVARIANTS SupportOutlivesInstance DataWriterWhileHeld
CHECK_DEADLOCK FALSE
