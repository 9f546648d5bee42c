SPECIFICATION Spec
CONSTANTS
  Commands <- AllCommands
  TestTargets <- SomeTargets
  Removable <- SomeFiles
  Editable <- SomeParts
  Cuts <- SomeCuts
  MaxRuns = 2
  MaxEdits = 1
  MaxFaults = 1
CHECK_DEADLOCK FALSE
INVARIANTS
  VerdictVouches
  RefreshFailsIffWedged
  RefreshSettles
  ManifestsRecordTheDisk
PROPERTIES
  ParallelTestsRebuildNothing
  LostResultsStayLost
