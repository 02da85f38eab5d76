SPECIFICATION Spec
CONSTANTS
  Letters = {"a"}
  MaxLen = 5
  Registries <- NoneOrThree
  Bases = {5}
  Caps = {4}
  MaxAttempts = 2
  Backlog = 1
INVARIANT
  CappedAtMax
CHECK_DEADLOCK FALSE
