CONSTANTS
  base = base
  sub = sub
  Extension = {1, 2}
  CommandType = {command}
  EventType = {base, sub}
  SuperTypes <- MCSuperTypes
  MaxRequirements = 2
  MaxRegistrations = 2
  MaxCalls = 3
  None = None
SPECIFICATION Spec
INVARIANTS
  TypeOK
  StagedFirst
  StartedComplete
  RoutedToItsOwner
  DependenciesReactFirst
  RequiredInstalled
  InstallOnce
CHECK_DEADLOCK FALSE
