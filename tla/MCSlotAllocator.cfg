CONSTANTS
  Length = 4
  Undef = Undef
  Arithmetic <- LeafRegisters
  Control <- ControlRegisters
  Programs <- MCPrograms

SPECIFICATION Spec

INVARIANTS
  TypeOK
  SlotsHoldVersions
  BudgetCoversPeak
  OutputsSurvive
  FlagClearedInPlace
  ShippedCounts

PROPERTY LiveSlotsApart
