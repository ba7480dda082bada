SPECIFICATION Spec
CONSTANTS
  c1 = c1
  c2 = c2
  Callers <- TwoCallers
  Types <- SharedTypes
  ColdFused = FALSE
  Uncoordinated = TRUE
  MaxArrays = 3
SYMMETRY CallerSymmetry
INVARIANTS
  TablesInitialized
CHECK_DEADLOCK FALSE
