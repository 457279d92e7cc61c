SPECIFICATION FairSpec
CONSTANTS
  Handles = {h1, h2}
  NULL = NULL
  Samples = {s1, s2, s3}
  BadSamples = {}
  MaxLoans = 2
  Faults <- CtorFaults
  Copying = FALSE
  QuietStart = TRUE
  QuietStop = TRUE
INVARIANT CallbackHasReader
PROPERTY EventuallyTaken
CHECK_DEADLOCK FALSE
