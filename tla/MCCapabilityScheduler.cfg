CONSTANTS
  x = x
  y = y
  Resource = {x, y}
  Ticket = {t1, t2, t3}
  ClaimSet <- MCClaimSet
SPECIFICATION FairSpec
INVARIANTS
  TypeOK
  Exclusion
  ConflictFIFO
  NoLostWakeup
  NoLeak
PROPERTIES
  NoStarvation
  LoopReturnsThat
