---------------------------- MODULE SyslogServer ----------------------------
(***************************************************************************)
(* One worker of the syslog server: the producer thread that moves          *)
(* datagrams from the socket to a bounded queue (syslog_server.cpp) and the  *)
(* consumer thread that aggregates them per user, category and second and   *)
(* flushes the aggregates to Redis (msg_processor.cpp).                     *)
(*                                                                         *)
(* Time is cut into seconds, the granularity of RedisCmdKey; within one, the *)
(* flush period (milliseconds) may or may not have elapsed when the consumer *)
(* looks. The connection is RedisLink, which RedisConnection implements.     *)
(***************************************************************************)
EXTENDS Integers, Sequences, FiniteSets, Functions

CONSTANTS
  Users, Null,
  Categories,        \* verbs, request classes, and bandwidth directions
  ReqTokens,         \* the numbers of fields a "req" datagram may have
  MsgQueueSize,      \* msg_queue_size
  BatchCount,        \* metrics_batching_count
  RedisQosTtl,       \* redis_qos_ttl, in seconds
  MaxMessages,       \* bound: datagrams received
  MaxActive,         \* bound: active-request counts in datagrams
  XferLens,          \* the numbers of bytes a "data_xfer" datagram may count
  MaxExecuted,       \* bound: the amount of one key executed when a connection fails
  MaxRefused         \* bound: the amount of one key answered with an error

ASSUME ServerAssumption ==
  /\ Null \notin Users
  /\ ReqTokens \subseteq Nat
  /\ MsgQueueSize \in Nat \ {0} /\ BatchCount \in Nat \ {0}
  /\ RedisQosTtl \in Nat \ {0}
  /\ MaxMessages \in Nat /\ MaxActive \in Nat
  /\ MaxExecuted \in Nat /\ MaxRefused \in Nat
  /\ XferLens \subseteq Nat

\* A key's age, in seconds. Keys one older than the time to live are gone at the next
\* flush, and the consumer, which wakes up every 100 microseconds, flushes every second.
Ages == 0 .. RedisQosTtl + 1

CmdKey == Users \X Categories \X Ages

VARIABLES
  queue,             \* m_haprxy_mesg_q
  commands,          \* m_qos_redis_commands: the amount for every key, 0 for none
  active_reqs,       \* m_qos_redis_active_reqs: the count for every user, or Null
  not_send_count,    \* m_qos_not_send_count
  link,              \* the connection: "up" when m_qos_redis_conn->connected()
  pipeline,          \* amounts given to addCommand and not answered, for every user and category
  redisAmount,       \* the sum of all hincrby in Redis, for every user and category
  redisActive,       \* the value last sent for the user's active-request key, or Null
  accepted,          \* history: the amount enqueued, for every user and category
  discarded,         \* history: the amount erased while disconnected, lost on the way, or refused
  lastReported,      \* history: the last count processed for a user, or Null
  received           \* history: datagrams received

vars == <<queue, commands, active_reqs, not_send_count, link, pipeline, redisAmount,
          redisActive, accepted, discarded, lastReported, received>>

\* Datagrams. "req" counts one request of a verb, and of a class if it has one, and
\* reports active requests; "data_xfer" counts bytes of a direction; "report" stands for
\* req_end and active_reqs, which only report; "malformed" for whatever fails to parse,
\* names no user, or is of no known type, and is logged.
Message ==
  [type : {"req"}, user : Users, cats : {C \in SUBSET Categories : Cardinality(C) \in {1, 2}},
   tokens : ReqTokens, n : 1 .. MaxActive]
    \cup [type : {"data_xfer"}, user : Users, cats : {{c} : c \in Categories},
          n : XferLens]
    \cup [type : {"report"}, user : Users, n : 0 .. MaxActive]
    \cup [type : {"malformed"}]

Amounts == [Users -> [Categories -> Nat]]
NoAmounts == [u \in Users |-> [c \in Categories |-> 0]]
Plus(a, b) == [u \in Users |-> [c \in Categories |-> a[u][c] + b[u][c]]]

\* External: the connection, as RedisConnection implements it.
Link == INSTANCE RedisLink WITH inflight <- pipeline # NoAmounts

\* The types of a worker: amounts are natural numbers, its queue (moodycamel's try_enqueue) holds
\* at most MsgQueueSize messages.
TypeOK ==
  /\ queue \in Seq(Message) /\ Len(queue) <= MsgQueueSize
  /\ commands \in [CmdKey -> Nat]
  /\ active_reqs \in [Users -> 0 .. MaxActive \cup {Null}]
  /\ not_send_count \in 0 .. BatchCount
  /\ Link!LinkTypeOK /\ pipeline \in Amounts
  /\ redisAmount \in Amounts /\ accepted \in Amounts /\ discarded \in Amounts
  /\ redisActive \in [Users -> 0 .. MaxActive \cup {Null}]
  /\ lastReported \in [Users -> 0 .. MaxActive \cup {Null}]
  /\ received \in 0 .. MaxMessages

Init ==
  /\ queue = <<>>
  /\ commands = [k \in CmdKey |-> 0]
  /\ active_reqs = [u \in Users |-> Null]
  /\ not_send_count = 0
  /\ pipeline = NoAmounts
  /\ Link!Init
  /\ redisAmount = NoAmounts
  /\ redisActive = [u \in Users |-> Null]
  /\ accepted = NoAmounts
  /\ discarded = NoAmounts
  /\ lastReported = [u \in Users |-> Null]
  /\ received = 0

-----------------------------------------------------------------------------
\* processReq wants every field of RequestToken, the request class included.
RequestTokenCount == 8

\* Does the datagram parse?
WellFormed(m) ==
  m.type # "malformed" /\ (m.type = "req" => m.tokens = RequestTokenCount)

\* What processing a datagram adds to the amount of one user and category.
Amount(m, u, c) ==
  IF WellFormed(m) /\ m.type # "report" /\ m.user = u /\ c \in m.cats
  THEN IF m.type = "req" THEN 1 ELSE m.n
  ELSE 0

\* Mutant: a full queue grows.
EnqueueAlways(m) == queue' = Append(queue, m) /\ UNCHANGED accepted

\* try_enqueue: a full queue refuses the new datagram, which is dropped.
try_enqueue(m) ==
  \/ /\ Len(queue) < MsgQueueSize
     /\ queue' = Append(queue, m)
     /\ accepted' = [u \in Users |-> [c \in Categories |-> accepted[u][c] + Amount(m, u, c)]]
  \/ /\ Len(queue) = MsgQueueSize
     /\ UNCHANGED <<queue, accepted>>

\* msgProducerThread; datagrams without an event marker go to the logs.
msgProducerThread ==
  /\ received < MaxMessages
  /\ received' = received + 1
  /\ \E m \in Message : try_enqueue(m)
  /\ UNCHANGED <<commands, active_reqs, not_send_count, link, pipeline, redisAmount,
                 redisActive, discarded, lastReported>>

-----------------------------------------------------------------------------
\* processReq, processDataXfer, processActiveRequests and processReqEnd: the amount goes
\* to the key of the current second, the count replaces what an earlier message reported.
AfterProcessing(m) ==
  [k \in CmdKey |-> commands[k] + IF k[3] = 0 THEN Amount(m, k[1], k[2]) ELSE 0]

\* Mutant: an earlier report in the batch is not replaced.
FirstReport(m, counts) ==
  IF WellFormed(m) /\ m.type \in {"req", "report"} /\ counts[m.user] = Null
  THEN [counts EXCEPT ![m.user] = m.n] ELSE counts

Reported(m, counts) ==
  IF WellFormed(m) /\ m.type \in {"req", "report"}
  THEN [counts EXCEPT ![m.user] = m.n] ELSE counts

\* Mutant: keys of the last second are erased too.
ErasableTooYoung == {{a \in Ages : a >= RedisQosTtl - 1}}

\* Keys erased while disconnected: their first timestamp is older than the time to live.
\* A key exactly that many seconds old is erased or not, depending on the milliseconds.
ErasableAges ==
  {{RedisQosTtl + 1}, {RedisQosTtl, RedisQosTtl + 1}}

SumAges(cmds, u, c, ages) ==
  SumFunctionOnSet([a \in ages |-> cmds[<<u, c, a>>]], ages)

OfAges(cmds, ages) == [u \in Users |-> [c \in Categories |-> SumAges(cmds, u, c, ages)]]

\* Mutant: the flush forgets to clear the commands it has sent.
FlushKeepsCommands(cmds, areqs) ==
  /\ link = "up"
  /\ pipeline' = Plus(pipeline, OfAges(cmds, Ages))
  /\ commands' = cmds
  /\ redisActive' = [u \in Users |-> IF areqs[u] = Null THEN redisActive[u] ELSE areqs[u]]
  /\ active_reqs' = [u \in Users |-> Null]
  /\ UNCHANGED <<redisAmount, discarded>>

\* sendToRedisQos with a connection: an hincrby per key, a set per reported count, and the
\* aggregates are cleared whatever addCommand says.
FlushConnected(cmds, areqs) ==
  /\ link = "up"
  /\ pipeline' = Plus(pipeline, OfAges(cmds, Ages))
  /\ commands' = [k \in CmdKey |-> 0]
  /\ redisActive' = [u \in Users |-> IF areqs[u] = Null THEN redisActive[u] ELSE areqs[u]]
  /\ active_reqs' = [u \in Users |-> Null]
  /\ UNCHANGED <<redisAmount, discarded>>

\* sendToRedisQos without one: old keys are erased and all reported counts forgotten.
FlushDisconnected(cmds, areqs) ==
  /\ link # "up"
  /\ \E old \in ErasableAges :
       /\ commands' = [k \in CmdKey |-> IF k[3] \in old THEN 0 ELSE cmds[k]]
       /\ discarded' = Plus(discarded, OfAges(cmds, old))
  /\ active_reqs' = [u \in Users |-> Null]
  /\ UNCHANGED <<pipeline, redisAmount, redisActive>>

\* sendToRedisQos: the batch is full, or the flush period is over.
sendToRedisQos(cmds, areqs, unsent) ==
  \/ /\ not_send_count' = 0
     /\ FlushConnected(cmds, areqs) \/ FlushDisconnected(cmds, areqs)
  \/ /\ unsent < BatchCount   \* the period is not over
     /\ not_send_count' = unsent
     /\ commands' = cmds
     /\ active_reqs' = areqs
     /\ UNCHANGED <<pipeline, redisAmount, redisActive, discarded>>

\* An iteration of messageConsumerThread that dequeues a datagram.
messageConsumerThread ==
  /\ queue # <<>>
  /\ queue' = Tail(queue)
  /\ LET m == Head(queue)
     IN  /\ sendToRedisQos(AfterProcessing(m), Reported(m, active_reqs),
                           not_send_count + IF WellFormed(m) THEN 1 ELSE 0)
         /\ lastReported' = [u \in Users |->
              IF WellFormed(m) /\ m.type \in {"req", "report"} /\ m.user = u
              THEN m.n ELSE lastReported[u]]
  /\ UNCHANGED <<link, accepted, received>>

\* Mutant: only an iteration that dequeued something flushes.
TimeoutSkipsFlush ==
  /\ queue = <<>>
  /\ UNCHANGED vars

\* An iteration whose wait for a datagram times out, and whose flush period is over.
ConsumerTimeout ==
  /\ queue = <<>>
  /\ not_send_count' = 0
  /\ FlushConnected(commands, active_reqs) \/ FlushDisconnected(commands, active_reqs)
  /\ UNCHANGED <<queue, lastReported, link, accepted, received>>

\* The next second starts. The consumer has flushed whatever was over-age (see Ages).
NextSecond ==
  /\ \A k \in CmdKey : k[3] = RedisQosTtl + 1 => commands[k] = 0
  /\ \E k \in CmdKey : commands[k] > 0
  /\ commands' = [k \in CmdKey |-> IF k[3] = 0 THEN 0
                                   ELSE commands[<<k[1], k[2], k[3] - 1>>]]
  /\ UNCHANGED <<queue, active_reqs, not_send_count, link, pipeline, redisAmount,
                 redisActive, accepted, discarded, lastReported, received>>

\* External: a connection is made, or closed to reconnect elsewhere.
LinkChanges ==
  /\ UNCHANGED <<queue, commands, active_reqs, not_send_count, pipeline, redisAmount,
                 redisActive, accepted, discarded, lastReported, received>>
  /\ Link!Connects \/ Link!Closes \/ Link!Closed

\* The commands in flight are answered: replyCallback. Redis has executed them, or refuses
\* some (READONLY, OOM, LOADING): an error is logged and counted like one of addCommand, the
\* connection stays, and nothing is sent again.
LinkAnswers ==
  /\ \E refused \in [Users -> [Categories -> 0 .. MaxRefused]] :
       /\ \A u \in Users, c \in Categories : refused[u][c] <= pipeline[u][c]
       /\ redisAmount' = [u \in Users |-> [c \in Categories |->
                            redisAmount[u][c] + pipeline[u][c] - refused[u][c]]]
       /\ discarded' = Plus(discarded, refused)
  /\ pipeline' = NoAmounts
  /\ Link!Answers
  /\ UNCHANGED <<queue, commands, active_reqs, not_send_count, redisActive, accepted,
                 lastReported, received>>

\* External: the connection fails. Some of the commands in flight have been executed.
LinkFails ==
  /\ \E executed \in [Users -> [Categories -> 0 .. MaxExecuted]] :
       /\ \A u \in Users, c \in Categories : executed[u][c] <= pipeline[u][c]
       /\ redisAmount' = Plus(redisAmount, executed)
       /\ discarded' = [u \in Users |-> [c \in Categories |->
                          discarded[u][c] + pipeline[u][c] - executed[u][c]]]
  /\ pipeline' = NoAmounts
  /\ Link!Fails
  /\ UNCHANGED <<queue, commands, active_reqs, not_send_count, redisActive, accepted,
                 lastReported, received>>

\* External: Redis expires the key of idle users.
RedisExpires ==
  /\ \E u \in Users :
       /\ redisActive[u] # Null
       /\ redisActive' = [redisActive EXCEPT ![u] = Null]
  /\ UNCHANGED <<queue, commands, active_reqs, not_send_count, link, pipeline, redisAmount,
                 accepted, discarded, lastReported, received>>

Next ==
  \/ msgProducerThread
  \/ messageConsumerThread
  \/ ConsumerTimeout
  \/ NextSecond
  \/ LinkChanges
  \/ LinkAnswers
  \/ LinkFails
  \/ RedisExpires

\* The consumer loop never stops, and Redis answers.
Fairness ==
  WF_vars(messageConsumerThread) /\ WF_vars(ConsumerTimeout) /\ WF_vars(LinkAnswers)

Spec == Init /\ [][Next]_vars /\ Fairness

-----------------------------------------------------------------------------
QueuedAmount(u, c) ==
  SumFunction([i \in DOMAIN queue |-> Amount(queue[i], u, c)])

\* Usage is neither lost nor counted twice between the queue and Redis: whatever was
\* enqueued is still queued, aggregated, on its way, in Redis, or was given up, across any
\* pattern of flushes, reconnections and failures.
UsageConserved ==
  \A u \in Users, c \in Categories :
     accepted[u][c] = QueuedAmount(u, c) + SumAges(commands, u, c, Ages) + pipeline[u][c]
                        + redisAmount[u][c] + discarded[u][c]

\* The ledger: what is owed is queued, aggregated or in flight; what flushes without a
\* connection, error replies and failures may give up is in flight, or as old as its time to
\* live.
Ledger == INSTANCE UsageLedger WITH
  owed <- [u \in Users |-> [c \in Categories |->
            QueuedAmount(u, c) + SumAges(commands, u, c, Ages) + pipeline[u][c]]],
  atRisk <- Plus(pipeline, OfAges(commands, {a \in Ages : a >= RedisQosTtl})),
  stored <- redisAmount,
  lost <- discarded

\* SyslogServer implements the ledger: a step counts or gives up only what is owed, no
\* amount is taken back from Redis or sent twice, and aggregates younger than the time to
\* live survive a flush that finds no connection.
ImplementsLedger == Ledger!Spec

\* Reports of one user pile up between two flushes, and a flush that finds no connection
\* forgets them: what a flush does write is the newest report that was processed.
FlushWritesNewestReport ==
  [][\A u \in Users :
       redisActive'[u] # redisActive[u] /\ redisActive'[u] # Null
          => redisActive'[u] = lastReported'[u]]_vars

\* Nothing stays behind: while the connection holds, all usage reaches Redis but what was given
\* up, which is then only what Redis refuses (sendToRedisQos clears what it has sent, and
\* replyCallback just logs an error).
UsageReachesRedis ==
  \A u \in Users, c \in Categories :
     <>[](link = "up") => <>[](redisAmount[u][c] = accepted[u][c] - discarded[u][c])
=============================================================================
