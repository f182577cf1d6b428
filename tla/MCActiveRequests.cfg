\* Two requests of one user, whose fetched direction may differ from their method's; lost and
\* reordered datagrams, and a crash of the instance.
SPECIFICATION PathSpec
CONSTANTS
  Streams = {s1, s2}
  Keys = {k1}
  Null = Null
  VerbDirections = {"dwn"}
  RemoteAddrs = {TRUE}
  FetchedKeys = {k1}
  FetchedDirections = {"dwn", "up"}
  RuleSets = {"http-request"}
  MayReject = FALSE
  ShareTimestamps = {}
  ShareDirections = {}
  Shares = {}
  UINT_MAX = 1
  INT_MAX = 2
  USERMAP_CLEANUP_INTERVAL_MS = 1
  USERMAP_CLEANUP_MIN_MS_SINCE_DISCONNECT = 1
  TickRange = 2
  MaxInFlight = 2
  Reordering = TRUE
  RedisQosConnTtl = 1
  MayCrash = TRUE
INVARIANT PathTypeOK
PROPERTIES IdleCountsExpire SteadyCountsConverge
