SPECIFICATION CommandSpec
CONSTANTS
  Tensors <- AllTensors
  MaxTensors = 4
  FileTypes <- OutputTypes
  Policies = {"comfy", "uniform", "dynamic"}
  ShapeFix = TRUE
  Letters = {"a", "["}
  MaxPattern = 5
  MaxText = 4
INVARIANTS
  PlansFit
  NothingIsLost
  FirstValuesGetMore
  DynamicOnlyPromotes
  OptionsAreObeyed
  MatchIsExact
CHECK_DEADLOCK FALSE
