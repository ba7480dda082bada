SPECIFICATION ReadersSpec
CONSTANTS
  HalfWord = 16
  LengthBytes = 2
  Files <- AnyFile
  DecoderGate <- Gate
  Templates <- Architectures
  Specs <- TwoSpecs
  Descriptors <- SomeDescriptors
  MostTensors = 3
  Alignment = 4
  HeaderEnd = 5
  Passed = {0, 1}
  Sizes = {4, 8, 15, 20, 30}
  FileTensors <- SomeTensors
  FileItems <- SomeItems
  SameValue <- EqualNumbers
  Comparisons <- SomeComparisons
INVARIANTS
  AcceptedLiesInFile
  NamesAreKept
  OverlapsAreNamed
  ReportsVouch
  ComparisonIsExact
(* Every reader comes to an end. *)
CHECK_DEADLOCK FALSE
