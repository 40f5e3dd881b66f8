CONSTANTS
  InboxSize = 1
  Limits = {2}
  MaxCommands = 1
  MaxEvents = 2
  EmitsAfterCancel = TRUE
SPECIFICATION FairSpec
PROPERTIES
  CleanupEnds
CHECK_DEADLOCK FALSE
