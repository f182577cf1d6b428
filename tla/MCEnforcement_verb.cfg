\* Two users over a verb limit in two seconds, with checks that cross from one to the other.
SPECIFICATION Spec
CONSTANTS
  Users = {u1, u2}
  Invalid = {}
  Workers = {w1, w2}
  Null = Null
  Kinds = {"verb"}
  Limit = 2
  UnblockMax = 0
  Counts = {}
  Backoff = 0
  TicksPerSecond = 6
  QueueSize = 2
  MaxLag = 2
  MaxTime = 11
  MaxScans = 1
  MaxEvents = 2
SYMMETRY Symmetry
INVARIANTS  ThrottledOnlyIfExceeded
