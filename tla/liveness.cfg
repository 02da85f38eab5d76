SPECIFICATION FairSpec
CONSTANTS
  t1 = t1
  t2 = t2
  Tasks = {t1, t2}
  NoTask = NoTask
  Types = {"a"}
  Request <- Pair
  Handled = {"a"}
  Workers = {w1, w2}
  NoWorker = NoWorker
  Budget <- OneCrash
  ScoreWeight = 100
  PromoteLimit = 1
  Slots = {s1}
  TaskTypes <- OneType
  Booted = {w1, w2}
PROPERTIES
  EventuallySettled
  LeasesMostUrgent
