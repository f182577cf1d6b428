\* Any configuration: denials after activate-weir, activate-weir in both rule sets, streams
\* without an inet address, fetches that fail; limit shares out of order and too large. A
\* WEIR_BUG_ON stops the process.
SPECIFICATION Spec
CONSTANTS
  Streams = {s1, s2}
  Keys = {k1, k2}
  Null = Null
  VerbDirections = {"up"}
  RemoteAddrs = {TRUE, FALSE}
  FetchedKeys = {k1, k2, Null}
  FetchedDirections = {"up", "unknown", Null}
  RuleSets = {"http-request", "http-response"}
  MayReject = TRUE
  ShareTimestamps = {0, 1}
  ShareDirections = {"up", "unknown"}
  Shares = {4}
  UINT_MAX = 3
  INT_MAX = 2
  USERMAP_CLEANUP_INTERVAL_MS = 1
  USERMAP_CLEANUP_MIN_MS_SINCE_DISCONNECT = 1
  TickRange = 3
SYMMETRY Symmetry
INVARIANTS TypeOK LimitPointerValid HoldersCounted
PROPERTY ShareNeverGoesBack
CHECK_DEADLOCK FALSE
