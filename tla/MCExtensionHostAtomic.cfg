CONSTANTS
  base = base
  sub = sub
  Extension = {1, 2}
  CommandType = {command}
  EventType = {base, sub}
  SuperTypes <- MCSuperTypes
  MaxRequirements = 2
  MaxRegistrations = 2
  MaxCalls = 3
  None = None
SPECIFICATION Spec
INVARIANTS
  AtomicReplay
CHECK_DEADLOCK FALSE
