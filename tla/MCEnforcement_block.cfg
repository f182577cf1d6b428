\* A user, and one whose key is refused, with checks that overlap and cross seconds.
SPECIFICATION Spec
CONSTANTS
  Users = {u1, u2}
  Invalid = {u2}
  Workers = {w1, w2}
  Null = Null
  Kinds = {"conn"}
  Limit = 2
  UnblockMax = 0
  Counts = {0, 1, 2}
  Backoff = 1
  TicksPerSecond = 5
  QueueSize = 2
  MaxLag = 2
  MaxTime = 12
  MaxScans = 1
  MaxEvents = 3
SYMMETRY Symmetry
INVARIANTS TypeOK OverloadIsBlocked CalmIsUnblocked OnlyViolatorsReported NoKeyForgotten
