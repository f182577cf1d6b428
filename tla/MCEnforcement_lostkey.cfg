\* Two users over a verb limit, whose checks race; no failure.
SPECIFICATION Spec
CONSTANTS
  Users = {u1, u2}
  Invalid = {}
  Workers = {w1, w2}
  Null = Null
  Kinds = {"verb"}
  Limit = 2
  UnblockMax = 0
  Counts = {}
  Backoff = 0
  TicksPerSecond = 3
  QueueSize = 2
  MaxLag = 1
  MaxTime = 2
  MaxScans = 2
  MaxEvents = 2
SYMMETRY Symmetry
INVARIANT ExceededIsThrottled
