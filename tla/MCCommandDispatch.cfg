CONSTANTS
  x = x
  Resource = {x}
  Ticket = {t1, t2, t3}
  ClaimSet <- MCClaimSet
SPECIFICATION Spec
INVARIANTS
  TypeOK
  OpenStreamsExclude
  WaitsForAStream
