CONSTANTS
  Length = 4
  Undef = Undef
  Arithmetic <- LeafRegisters
  Control <- ControlRegisters
  Programs <- SmallLeaves

SPECIFICATION Spec

INVARIANT ExactCounts
