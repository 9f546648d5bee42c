CONSTANTS
  None = None
  Torn = Torn
  MaxInput = 1
  MaxRuns = 4

SPECIFICATION Spec
CHECK_DEADLOCK FALSE

PROPERTY
  FinishedBundlesVerify
