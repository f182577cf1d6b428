\* Two connections on one key, one of them also without; seconds of two ticks, a clock of five
\* seconds that wraps.
SPECIFICATION Spec
CONSTANTS
  c1 = c1
  c2 = c2
  k1 = k1
  none = none
  Conns = {c1, c2}
  Keys = {k1, none}
  EmptyKey = none
  KeysOf <- MCKeysOf
  ReportedKeys = {k1, none}
  Null = Null
  DataDirections = {"dwn"}
  PolicyTimes = {5}
  Ratios = {3}
  TickRange = 10
  TicksPerSecond = 2
  MIN_RUN_TIME = 1
  BACKOFF_WINDOW_EPOCHS = 2
  SPEED_TABLE_STALE_POLICY_AGE_SEC = 3
  MaxLag = 1
  MaxCount = 2
INVARIANTS TypeOK DataIsOwners NumConnectionsCovered
PROPERTIES ThrottleTakesEffect ThrottleLogsSpaced StartOfSecondIsOpen
