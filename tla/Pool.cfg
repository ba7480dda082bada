SPECIFICATION Spec
CONSTANTS
  MaxThreads = 3
  ParallelRows = 2
  MaxRows = 4
  MaxTasks = 2
  Plans <- AllPlans
INVARIANTS
  TypeOK
  QuiescentOutsideTask
  RowsWrittenAtMostOnce
  TrueMeansEncoded
  ScratchFits
CHECK_DEADLOCK FALSE
