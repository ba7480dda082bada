SPECIFICATION Spec
CONSTANTS
  c1 = c1
  c2 = c2
  Callers <- TwoCallers
  Types <- SharedTypes
  ColdFused = FALSE
  Uncoordinated = FALSE
  MaxArrays = 9
SYMMETRY CallerSymmetry
INVARIANTS
  ReadsFinishedTables
  NothingLeaks
CHECK_DEADLOCK FALSE
