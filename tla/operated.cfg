SPECIFICATION Spec
CONSTANTS
  t1 = t1
  t2 = t2
  Tasks = {t1, t2}
  NoTask = NoTask
  Types = {"a", "b"}
  Request <- Mixed
  Handled = {"a"}
  Workers = {w1, w2}
  NoWorker = NoWorker
  Budget <- Operated
  ScoreWeight = 100
  PromoteLimit = 1
  Slots = {s1}
  TaskTypes <- TwoTypes
  Booted = {w1, w2}
SYMMETRY WorkerSymmetry
INVARIANTS
  NoDoubleExecution
  ExecutionsBounded
  TerminalIsFinal
  DeadLettersRecorded
PROPERTIES
  ImplementsLifecycle
