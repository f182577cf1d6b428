--------------------------- MODULE ActiveRequests ---------------------------
(***************************************************************************)
(* The path of a user's active-request count from an HAProxy instance to    *)
(* Redis: the filter (WeirFilter) logs a count when a request starts, when  *)
(* it ends, and periodically while it is positive; the log lines travel as  *)
(* UDP datagrams to the syslog server, whose workers write the last count   *)
(* they saw under the instance's key with a time to live.                   *)
(*                                                                         *)
(* The worker's batching is left to SyslogServer: here a datagram is     *)
(* applied in one step. The refresh task reads and logs every entry under   *)
(* the read lock, so each entry is one step.                                *)
(***************************************************************************)
EXTENDS WeirFilter, Sequences, SequencesExt

CONSTANTS
  MaxInFlight,        \* datagrams the socket buffers hold; one more is dropped
  Reordering,         \* whether several workers may apply datagrams out of order
  RedisQosConnTtl,    \* redis_qos_conn_ttl, in ticks
  MayCrash            \* whether the instance may be killed and restarted

ASSUME PathAssumption ==
  /\ MaxInFlight \in Nat \ {0} /\ RedisQosConnTtl \in Nat \ {0}
  /\ Reordering \in BOOLEAN /\ MayCrash \in BOOLEAN

VARIABLES
  wire,   \* datagrams on their way, oldest first
  redis   \* the key conn_v2_user_<direction>_<instance>_<user>: its value and time to live

pathVars == <<wire, redis>>
allVars == <<vars, pathVars>>

Datagram == [key : Keys, dir : Directions, n : Nat]

\* The types of the path: a datagram names its user and direction, and neither it nor a key in
\* Redis ever holds a negative count (the req, req_end and active_reqs logs).
PathTypeOK ==
  /\ TypeOK
  /\ wire \in Seq(Datagram) /\ Len(wire) <= MaxInFlight
  /\ redis \in [Keys -> [Directions -> [n : Nat, ttl : 0 .. RedisQosConnTtl]]]

\* What the policy generator reads: a key that has expired counts nothing.
RedisCount(key, d) == IF redis[key][d].ttl > 0 THEN redis[key][d].n ELSE 0

Absent == [n |-> 0, ttl |-> 0]

PathInit ==
  /\ Init
  /\ wire = <<>>
  /\ redis = [k \in Keys |-> [d \in Directions |-> Absent]]

-----------------------------------------------------------------------------
\* External: send_log. The datagram is dropped when the socket's buffers are full.
Send(key, d, n) ==
  wire' = IF Len(wire) < MaxInFlight
          THEN Append(wire, [key |-> key, dir |-> d, n |-> n])
          ELSE wire

\* Both logs carry the count of the method's direction, under the direction that the
\* activate-weir line fetched.
FilterStep(s) ==
  \/ /\ SendReqLog(s) \/ SendReqEndLog(s)
     /\ Send(limit[s], st[s].bandwidth_limit_direction, count[s])
     /\ UNCHANGED redis
  \/ /\ StreamStep(s)
     /\ pc[s] \notin {"headers_log", "detach_log"}
     /\ UNCHANGED pathVars

\* Mutant: the refresh reports idle users by the last count it knows of them.
RefreshReportsIdle(key, d) ==
  /\ ~crashed
  /\ key \in users
  /\ Send(key, d, IF active_requests[key][d] > 0 THEN active_requests[key][d] ELSE 1)
  /\ UNCHANGED <<vars, redis>>

\* Mutant: the refresh task stops rescheduling itself.
RefreshNever(key, d) ==
  /\ FALSE
  /\ UNCHANGED allVars

\* emit_active_request_refresh for one entry: only positive counts are reported.
emit_active_request_refresh(key, d) ==
  /\ ~crashed
  /\ key \in users
  /\ active_requests[key][d] > 0
  /\ Send(key, d, active_requests[key][d])
  /\ UNCHANGED <<vars, redis>>

\* processReq, processReqEnd and processActiveRequests: the last count seen is stored,
\* and sendToRedisQos writes it with "set <key> <n> ex <ttl>".
Apply(i) ==
  /\ redis' = [redis EXCEPT ![wire[i].key][wire[i].dir] =
                 [n |-> wire[i].n, ttl |-> RedisQosConnTtl]]
  /\ wire' = RemoveAt(wire, i)
  /\ UNCHANGED vars

DeliverFirst == wire # <<>> /\ Apply(1)

DeliverLater == \E i \in 2 .. Len(wire) : Reordering /\ Apply(i)

\* A tick of time, for HAProxy's clock and for the keys of Redis. External: Redis.
Tock ==
  /\ ClockTick
  /\ redis' = [k \in Keys |-> [d \in Directions |->
                 IF redis[k][d].ttl <= 1 THEN Absent
                 ELSE [redis[k][d] EXCEPT !.ttl = @ - 1]]]
  /\ UNCHANGED wire

\* The HAProxy process is killed and starts again with an empty table.
Restart ==
  /\ MayCrash
  /\ pc' = [s \in Streams |-> "free"]
  /\ st' = [s \in Streams |-> FreshState("dwn", TRUE)]
  /\ limit' = [s \in Streams |-> Null]
  /\ count' = [s \in Streams |-> 0]
  /\ users' = {}
  /\ active_requests' = [k \in Keys |-> ZeroCounts]
  /\ last_request_end_tick' = [k \in Keys |-> 0]
  /\ share' = [k \in Keys |-> ZeroShares]
  /\ next_cleanup_tick' = tick_add(now_ms, USERMAP_CLEANUP_INTERVAL_MS)
  /\ crashed' = FALSE
  /\ UNCHANGED <<now_ms, pathVars>>

PathNext ==
  \/ \E s \in Streams : FilterStep(s)
  \/ \E key \in Keys, d \in Directions : emit_active_request_refresh(key, d)
  \/ DeliverFirst
  \/ DeliverLater
  \/ Tock
  \/ Restart

\* The syslog server drains its socket, time passes, and HAProxy's scheduler runs the
\* refresh task again and again; requests and crashes are up to the clients and the
\* operator, and carry no fairness.
PathFairness ==
  /\ WF_allVars(DeliverFirst)
  /\ WF_allVars(Tock)
  /\ \A key \in Keys, d \in Directions : WF_allVars(emit_active_request_refresh(key, d))

PathSpec == PathInit /\ [][PathNext]_allVars /\ PathFairness

-----------------------------------------------------------------------------
\* Threads read a count under the lock and log it after: two logs of one user may leave
\* in either order, be reordered by the workers, or be lost with a crash, and nothing
\* reports a zero again. Once a user's requests are over for good, Redis still ends up
\* counting none, because the refresh stops reporting and the key expires.
IdleCountsExpire ==
  \A key \in Keys, d \in Directions :
     <>[](\A s \in Streams : pc[s] = "free") => <>[](RedisCount(key, d) = 0)

\* While a user keeps n > 0 requests open, a wrong count in Redis (late, reordered,
\* dropped or expired) is put right again and again by the refresh.
SteadyCountsConverge ==
  \A key \in Keys, d \in Directions : \A n \in 1 .. INT_MAX :
     <>[](active_requests[key][d] = n) => []<>(RedisCount(key, d) = n)
=============================================================================
