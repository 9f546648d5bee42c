CONSTANTS
  BodyLength = 1
  Undef = Undef
  Requests <- EightSlots

SPECIFICATION Spec

INVARIANT PlanKeepsOutputs
