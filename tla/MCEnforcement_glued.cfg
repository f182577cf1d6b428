\* Two messages in one batch.
SPECIFICATION Spec
CONSTANTS
  Users = {u1, u2}
  Invalid = {}
  Workers = {w1, w2}
  Null = Null
  Kinds = {"conn"}
  Limit = 2
  UnblockMax = 0
  Counts = {0, 1, 2}
  Backoff = 0
  TicksPerSecond = 2
  QueueSize = 2
  MaxLag = 1
  MaxTime = 1
  MaxScans = 2
  MaxEvents = 4
SYMMETRY Symmetry
PROPERTY MessagesApplyToTheirUsers
