SPECIFICATION FairSpec
CONSTANTS
  Letters = {"a", "b"}
  MaxLen = 5
  Registries <- NoneOrThree
  Bases = {0, 1, 5}
  Caps = {4, 12}
  MaxAttempts = 4
  Backlog = 1
INVARIANTS
  SplitIsFields
  WithinBounds
PROPERTIES
  ServedInTurn
CHECK_DEADLOCK FALSE
