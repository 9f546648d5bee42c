\* y^2 = x^3 + 7 modulo 13 has 7 points, no point of order two.
CONSTANTS
  P = 13
  B = 7
  Undef = Undef
  NoRequest = NoRequest
  Leaves = {"base", "lookup_fed", "streamed_tail"}
  Callers = {"raw32_check", "flat_replay"}

SPECIFICATION Spec

INVARIANTS
  TypeOK
  LeafComputesMixedAdd
  MatchesReference
  FlagUncomputed
  GuestAcceptsOnlyTheResult

PROPERTY AddsInGroup
