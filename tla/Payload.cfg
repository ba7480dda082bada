SPECIFICATION Spec
CONSTANTS
  Plans <- SmallPlans
  MaxPlans = 2
  MaxRows = 3
  SourceSizes = {16, 20}
  Starts = {0, 3}
  Alignment = 5
  ScratchBytes = 10
  ZeroBlock = 2
  NeedsImatrix = {"IQ2_XS"}
INVARIANTS
  OutputIsAsReported
  ImatrixIsWhole
  VectorsAreLargeEnough
  ReadsInsideSource
PROPERTIES
  StreamSpec
CHECK_DEADLOCK FALSE
