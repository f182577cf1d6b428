\* The shipped configuration: activate-weir once, in http-request rules, after every deny.
SPECIFICATION Spec
CONSTANTS
  Streams = {s1, s2, s3}
  Keys = {k1, k2}
  Null = Null
  VerbDirections = {"up", "dwn"}
  RemoteAddrs = {TRUE}
  FetchedKeys = {k1, k2}
  FetchedDirections = {"up"}
  RuleSets = {"http-request"}
  MayReject = FALSE
  ShareTimestamps = {}
  ShareDirections = {}
  Shares = {}
  UINT_MAX = 3
  INT_MAX = 3
  USERMAP_CLEANUP_INTERVAL_MS = 2
  USERMAP_CLEANUP_MIN_MS_SINCE_DISCONNECT = 1
  TickRange = 4
SYMMETRY Symmetry
INVARIANTS LimitPointerValid ActiveCountExact ReportedCountsSane
