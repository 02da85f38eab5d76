SPECIFICATION Spec
CONSTANTS
  Interval = 3
  TTL = 9
  Sweep = 1
  Latency = 1
  Work = 1
  Misses = 0
  Skips = 0
INVARIANT
  RecoveredWithinTarget
