\* One user; three datagrams, two flush periods, one second to live.
SPECIFICATION Spec
CONSTANTS
  Users = {u1}
  Null = Null
  Categories = {"PUT", "LISTBUCKETS"}
  ReqTokens = {7, 8}
  MsgQueueSize = 2
  BatchCount = 2
  RedisQosTtl = 1
  MaxMessages = 3
  MaxActive = 1
  XferLens = {2}
  MaxExecuted = 6
  MaxRefused = 2
INVARIANTS TypeOK UsageConserved
PROPERTIES ImplementsLedger FlushWritesNewestReport UsageReachesRedis
