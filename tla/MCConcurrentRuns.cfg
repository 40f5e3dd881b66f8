CONSTANTS
  x = x
  y = y
  a = a
  b = b
  commit = commit
  ra = ra
  rb = rb
  rc = rc
  Resource = {x, y}
  Ticket = {a, b, commit}
  Commit = {commit}
  Run = {ra, rb, rc}
  RunOf <- MCRunOf
  ClaimSet <- MCClaimSet
  InboxSize = 1
SPECIFICATION MCSpec
CHECK_DEADLOCK FALSE
INVARIANTS
  RunsTypeOK
PROPERTIES
  StallContained
  CloseReleases
