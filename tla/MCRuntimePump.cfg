CONSTANTS
  InboxSize = 1
  Limits = {2, 3}
  MaxCommands = 3
  MaxEvents = 1
  EmitsAfterCancel = TRUE
SPECIFICATION Spec
INVARIANTS
  TypeOK
  CountersExact
  QuiescentStop
PROPERTIES
  ImplementsWorkGraph
CHECK_DEADLOCK FALSE
