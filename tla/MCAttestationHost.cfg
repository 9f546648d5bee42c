CONSTANTS
  None = None
  Torn = Torn
  MaxInput = 2
  MaxRuns = 4

SPECIFICATION Spec
CHECK_DEADLOCK FALSE

INVARIANTS
  TypeOK
  WrapIsCached
  FixtureVouchesForKey

PROPERTY
  RetriesFailOnlyOnTornFiles
