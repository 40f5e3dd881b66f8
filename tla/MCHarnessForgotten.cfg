CONSTANTS
  MaxPrimary = 3
SPECIFICATION Spec
INVARIANTS
  RunForgotten
