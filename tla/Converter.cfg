SPECIFICATION Spec
CONSTANTS
  Tensors <- MixedTensors
  MaxTensors = 3
  HeaderSizes = {40, 64}
  Options <- SomeOptions
  ShortWrites = {50}
INVARIANTS
  PayloadIsWhereHeaderSays
  SuccessIsComplete
  VerifiedAsAsked
  GpuMeansGpu
PROPERTIES
  OldOutputIsKept
CHECK_DEADLOCK FALSE
