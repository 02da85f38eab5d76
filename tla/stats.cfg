SPECIFICATION StatsSpec
CONSTANTS
  t1 = t1
  t2 = t2
  Tasks = {t1, t2}
  NoTask = NoTask
  Types = {"a"}
  Request <- OneAttempt
  Handled = {"a"}
  Workers = {w1}
  NoWorker = NoWorker
  Budget <- Counted
  ScoreWeight = 100
  PromoteLimit = 1
  Slots = {s1}
  TaskTypes <- OneType
  Booted = {w1}
INVARIANTS
  CountsAgree
  DeadAccounted
