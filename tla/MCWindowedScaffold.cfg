\* 4093 is a prime below 2^12.
CONSTANTS
  Order = 4093
  WordBits = 4
  Windows = 3
  TailLength = 1
  Scalars <- MCScalars
  PublicKeys = {1, 1234}
  Replays = {"scaffold_schedule", "raw32", "flat_folded"}

SPECIFICATION Spec

INVARIANTS
  TypeOK
  RunningSum
  AuditPasses
  FoldedAuditVerdict
