SPECIFICATION Spec
CONSTANTS
  Handles = {h1, h2, h3}
  NULL = NULL
  Samples = {s1, s2, s3}
  BadSamples = {s1}
  MaxLoans = 2
  Faults <- AllFaults
  Copying = TRUE
  QuietStart = FALSE
  QuietStop = FALSE
SYMMETRY Symmetry
INVARIANTS TypeOK LoansAccounted NoSampleVanishes ListenerOutlivesReader CleanShutdown
           DefectHasCause
CHECK_DEADLOCK FALSE
