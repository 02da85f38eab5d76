SPECIFICATION Spec
CONSTANTS
  Interval = 3
  TTL = 12
  Sweep = 2
  Latency = 2
  Work = 1
  Misses = 1
  Skips = 1
INVARIANTS
  DetectionTypeOK
  NoFalseSuspicion
  RecoveredInTime
