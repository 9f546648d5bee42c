CONSTANTS
  FieldBits = 256
  MagnitudeBits = 15
  PhaseBits = 512
  LeafCalls = 31
  LowGate = 70000000
  Undef = Undef
  Families <- MCFamilies
  StreamLeaf <- MCStreamLeaf
SPECIFICATION Spec
INVARIANTS
  CountsAgree
  EveryPartOnce
  MacroIsItsKernels
  LedgerIsARebuild
