SPECIFICATION Spec
CONSTANTS
  c1 = c1
  c2 = c2
  Callers <- TwoCallers
  Types <- OtherTypes
  ColdFused = TRUE
  Uncoordinated = FALSE
  MaxArrays = 3
SYMMETRY CallerSymmetry
INVARIANTS
  TablesInitialized
CHECK_DEADLOCK FALSE
