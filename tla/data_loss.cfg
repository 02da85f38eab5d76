SPECIFICATION Spec
CONSTANTS
  t1 = t1
  t2 = t2
  Tasks = {t1}
  NoTask = NoTask
  Types = {"a"}
  Request <- TwoAttempts
  Handled = {"a"}
  Workers = {w1, w2}
  NoWorker = NoWorker
  Budget <- OneCrash
  ScoreWeight = 100
  PromoteLimit = 1
  Slots = {s1}
  TaskTypes <- OneType
  Booted = {w1, w2}
INVARIANTS
  ZeroDataLoss
