SPECIFICATION Spec
CONSTANTS
  Letters = {"a", "[", "]"}
  MaxPattern = 3
  MaxText = 1
INVARIANTS
  MatchIsShell
CHECK_DEADLOCK FALSE
