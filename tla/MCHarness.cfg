CONSTANTS
  MaxPrimary = 3
SPECIFICATION PullingSpec
INVARIANTS
  TypeOK
  CommitAfterWork
  CancelPrompt
  CancelDecides
PROPERTIES
  ImplementsProtocol
  CancelEnds
  WorkCleanedUp
