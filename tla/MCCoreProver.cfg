CONSTANTS
  Core = {1, 2}
  Memory = {}
  Precompile = {3, 4}
  None = None

SPECIFICATION FairSpec

INVARIANTS
  TypeOK
  TasksFindTheirInputs

PROPERTIES
  OneWholeAnswer
  EveryCallAnswers
