CONSTANTS
  Id = {1, 2, 3}
SPECIFICATION Spec
INVARIANTS
  TypeOK
  LeastTopologicalOrder
  RightVerdict
  CycleIsReal
  NoDeadEnd
