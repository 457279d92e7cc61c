SPECIFICATION Spec
CONSTANTS
  Handles = {h1, h2}
  NULL = NULL
  Samples = {s1, s2}
  BadSamples = {s1}
  MaxLoans = 2
  Faults <- NoFaults
  Copying = FALSE
  QuietStart = TRUE
  QuietStop = TRUE
INVARIANT CallbackHasReader
CHECK_DEADLOCK FALSE
