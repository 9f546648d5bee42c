CONSTANTS
  BodyLength = 3
  Undef = Undef
  Requests <- AllRequests

SPECIFICATION Spec

INVARIANTS
  TypeOK
  SearchIsExact
  VerdictHoldsOutputs
  OperandsHeld
  OrdersCanBeNamed
