CONSTANTS
  InboxSize = 1
  Limits = {1, 2}
  MaxCommands = 2
  MaxEvents = 2
  EmitsAfterCancel = FALSE
SPECIFICATION PullingSpec
PROPERTIES
  RunEnds
  CleanupEnds
  ImplementsWorkGraph
