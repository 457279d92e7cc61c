SPECIFICATION Spec
CONSTANTS
  Writers = {w1, w2}
  NULL = NULL
  Supports = {ts1, ts2, ts3}
  DataWriters = {dw1, dw2, dw3}
  TopicNames = {Square, Circle, Triangle}
  Faults <- NoFaults
INVARIANT InstanceIsDeleted
CHECK_DEADLOCK FALSE
