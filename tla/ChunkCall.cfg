SPECIFICATION ChunkSpec
CONSTANTS
  MaxThreads = 4
  ParallelRows = 3
  MaxRows = 6
  Dim = 2
  Levels = 4
  MapSize = 12
  NWant = 2
  MaxGrid = 4
  Choices <- AllButOne
  Chosen <- BitsOf
  Memories <- AllOnes
  Held <- SameByte
  Inputs <- Numbers243
  Rounded <- DigitsOfByte
INVARIANTS
  PlaceExists
  VerdictIsTrue
  FillsWhatWasAllocated
  LookupIsNearest
  BlocksComeBack
PROPERTIES
  Returns
(* A call returns, a table is finished, a block is packed at some time. *)
CHECK_DEADLOCK FALSE
