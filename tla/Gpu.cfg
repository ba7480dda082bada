SPECIFICATION Spec
CONSTANTS
  Shapes <- MixedShapes
  MaxRows = 4
  MaxTensors = 2
INVARIANTS
  BuffersAreSettled
  VerifiedIsRight
PROPERTIES
  ReplacedWhenUnused
  PromiseSpec
CHECK_DEADLOCK FALSE
