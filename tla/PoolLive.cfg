SPECIFICATION Spec
CONSTANTS
  MaxThreads = 3
  ParallelRows = 2
  MaxRows = 3
  MaxTasks = 2
  Plans <- EncodablePlans
PROPERTIES
  DestructorReturns
  PromiseSpec
CHECK_DEADLOCK FALSE
