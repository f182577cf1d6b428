----------------------------- MODULE RateLimit -----------------------------
(***************************************************************************)
(* Bandwidth throttling in an HAProxy instance: the tables of               *)
(* haproxy-lua/added-files/src/rate_limit.c (connection -> key, key ->      *)
(* number of connections, key -> violation policy, each under a lock), the  *)
(* thread that removes old policies, and weir_http_payload of flt_weir.c,   *)
(* which asks them before it forwards data and logs one throttle per user   *)
(* and second.                                                              *)
(*                                                                         *)
(* Connections carry one request at a time (HTTP/1) over IPv4: others get   *)
(* no key ("bad ip address"), their remote_addr is NULL and their data is   *)
(* forwarded unasked. A step is what a thread does between two points where *)
(* another may come in: the clock of a callback is read before the policy   *)
(* is looked up, and the tick of the next log is loaded before it is        *)
(* exchanged. Both clocks, now_ms and gettimeofday, advance together,       *)
(* TicksPerSecond ticks a second, and a policy keeps its age where the code *)
(* keeps the second it was received in.                                     *)
(***************************************************************************)
EXTENDS Ticks, FiniteSets

CONSTANTS
  Conns,             \* client addresses: ip and port
  Keys,              \* access keys
  EmptyKey,          \* the key of a request that names none: the empty string
  Null,              \* a NULL pointer, or an entry a table does not hold
  KeysOf,            \* keys of the requests each connection may carry
  ReportedKeys,      \* keys that policies may report
  DataDirections,    \* directions of the data and of the policies
  PolicyTimes,       \* their times, in ticks of the second they are received in
  Ratios,            \* diff_ratio of the policies: usage by limit
  TicksPerSecond,    \* 1000 in the build
  MIN_RUN_TIME,      \* MIN_RUN_TIME_USEC, in ticks
  BACKOFF_WINDOW_EPOCHS,
  SPEED_TABLE_STALE_POLICY_AGE_SEC,
  MaxLag,            \* bound: ticks between reading the clock and the lookup
  MaxCount           \* bound: connections counted for a key

Directions == {"up", "dwn"}

ASSUME RateLimitAssumption ==
  /\ IsFiniteSet(Conns)
  /\ EmptyKey \in Keys /\ Null \notin Keys /\ Null \notin Directions
  /\ KeysOf \in [Conns -> SUBSET Keys]
  /\ ReportedKeys \subseteq Keys
  /\ DataDirections \subseteq Directions
  /\ PolicyTimes \subseteq Nat
  /\ Ratios \subseteq Nat \ {0}
  /\ TicksPerSecond \in Nat \ {0}
  /\ TickRange % TicksPerSecond = 0 /\ TickRange > 2 * (TicksPerSecond + MaxLag + 1)
  /\ MIN_RUN_TIME \in 1 .. TicksPerSecond
  /\ BACKOFF_WINDOW_EPOCHS \in Nat \ {0}
  /\ SPEED_TABLE_STALE_POLICY_AGE_SEC \in Nat
  /\ SPEED_TABLE_STALE_POLICY_AGE_SEC > BACKOFF_WINDOW_EPOCHS
  /\ MaxLag \in 0 .. TicksPerSecond
  /\ MaxCount \in Nat

VARIABLES
  now_ms,                    \* the clock
  ip_port_key,               \* ip_port_key_hashmap
  key_ip_port_count,         \* key_ip_port_count_hashmap; 0 is no entry
  policy,                    \* key_{upload,download}_speed_epoch_hashmap
  next_throttle_log_tick,    \* user_limit.{upload,download}.next_throttle_log_tick
  next_allowed_send_tick,    \* weir_lim_state.next_allowed_send_tick
  pc,                        \* where the request of every connection is
  owner,                     \* the key of that request
  call,                      \* locals of its weir_http_payload
  sinceLog                   \* history: ticks since a throttle was logged

tables == <<ip_port_key, key_ip_port_count, policy>>
stream == <<next_allowed_send_tick, pc, owner, call>>
vars == <<now_ms, tables, next_throttle_log_tick, stream, sinceLog>>

Tock == now_ms % TicksPerSecond  \* the part of the current second that is over

\* A speed_hash_value_t as it is stored. Its age is in seconds and stops growing
\* where nothing tells it from an older one.
MaxAge == SPEED_TABLE_STALE_POLICY_AGE_SEC + 1
speed_hash_value ==
  [age : 0 .. MaxAge, elapsed : 0 .. TicksPerSecond - 1, diff_ratio : Ratios]

\* The direction, current_epoch (as a tick, and the seconds that began after it)
\* and next_throttle_log_tick of a callback.
Locals ==
  [direction : Directions \cup {Null}, at : Tick, late : 0 .. 1, next_log : Tick]
NoCall == [direction |-> Null, at |-> 0, late |-> 0, next_log |-> 0]

Phases == {"idle", "rules", "data", "lookup", "throttled"}

\* The types of the tables and callbacks: a policy is stored with the part of its second in which
\* it was received (throttle_key_speed), connections are counted from 0.
TypeOK ==
  /\ now_ms \in Tick
  /\ ip_port_key \in [Conns -> Keys \cup {Null}]
  /\ key_ip_port_count \in [Keys -> 0 .. MaxCount]
  /\ policy \in [Directions -> [Keys -> speed_hash_value \cup {Null}]]
  /\ next_throttle_log_tick \in [Directions -> [Keys -> Tick]]
  /\ next_allowed_send_tick \in [Conns -> Tick]
  /\ pc \in [Conns -> Phases]
  /\ owner \in [Conns -> Keys \cup {Null}]
  /\ call \in [Conns -> Locals]
  /\ sinceLog \in [Directions -> [Keys -> 0 .. TicksPerSecond]]

-----------------------------------------------------------------------------
\* init_speed_epoch_hashmaps: empty tables.
Init ==
  /\ now_ms \in Tick
  /\ ip_port_key = [c \in Conns |-> Null]
  /\ key_ip_port_count = [k \in Keys |-> 0]
  /\ policy = [d \in Directions |-> [k \in Keys |-> Null]]
  /\ next_throttle_log_tick = [d \in Directions |-> [k \in Keys |-> TICK_ETERNITY]]
  /\ next_allowed_send_tick = [c \in Conns |-> TICK_ETERNITY]
  /\ pc = [c \in Conns |-> "idle"]
  /\ owner = [c \in Conns |-> Null]
  /\ call = [c \in Conns |-> NoCall]
  /\ sinceLog = [d \in Directions |-> [k \in Keys |-> TicksPerSecond]]

-----------------------------------------------------------------------------
\* Mutant: the connection's entry is made only when the entry of the key's count is.
SetNewKey(c, k) ==
  \/ k = EmptyKey /\ UNCHANGED <<ip_port_key, key_ip_port_count>>
  \/ /\ k # EmptyKey
     /\ ip_port_key' =
          [ip_port_key EXCEPT ![c] = IF key_ip_port_count[k] = 0 THEN k ELSE @]
     /\ key_ip_port_count' = [key_ip_port_count EXCEPT ![k] = @ + 1]

\* A key's connections with one more; the first makes the entry.
incr_num_connections_of_a_key(k) == [key_ip_port_count EXCEPT ![k] = @ + 1]

\* An empty key is only warned about: the connection keeps the key it has, if any, which is
\* that of a denied request. Otherwise the connection's key is replaced and the new one
\* counted; the old one is not counted down.
set_ip_port_key(c, k) ==
  \/ k = EmptyKey /\ UNCHANGED <<ip_port_key, key_ip_port_count>>
  \/ /\ k # EmptyKey
     /\ ip_port_key' = [ip_port_key EXCEPT ![c] = k]
     /\ key_ip_port_count' = incr_num_connections_of_a_key(k)

\* A request arrives and the Lua check registers its key before it decides.
weir_should_block_request(c, k) ==
  /\ pc[c] = "idle"
  /\ k = EmptyKey \/ key_ip_port_count[k] < MaxCount
  /\ set_ip_port_key(c, k)
  /\ pc' = [pc EXCEPT ![c] = "rules"]
  /\ owner' = [owner EXCEPT ![c] = k]
  /\ UNCHANGED <<now_ms, policy, next_throttle_log_tick,
                 next_allowed_send_tick, call, sinceLog>>

\* The request is denied: its stream was never enabled, so that weir_detach does
\* not call rl_request_end and the connection keeps the key.
Deny(c) ==
  /\ pc[c] = "rules"
  /\ pc' = [pc EXCEPT ![c] = "idle"]
  /\ owner' = [owner EXCEPT ![c] = Null]
  /\ UNCHANGED <<now_ms, tables, next_throttle_log_tick, next_allowed_send_tick,
                 call, sinceLog>>

\* The request is let through with the filter enabled.
Admit(c) ==
  /\ pc[c] = "rules"
  /\ pc' = [pc EXCEPT ![c] = "data"]
  /\ next_allowed_send_tick' = [next_allowed_send_tick EXCEPT ![c] = TICK_ETERNITY]
  /\ UNCHANGED <<now_ms, tables, next_throttle_log_tick, owner, call, sinceLog>>

\* Mutant: the entry of a key goes with the first of its connections.
DecrementRemoves(k) == [key_ip_port_count EXCEPT ![k] = 0]

\* A key's connections with one fewer; a key without an entry is left alone.
decr_num_connections_of_a_key(k) ==
  [key_ip_port_count EXCEPT ![k] = IF @ = 0 THEN 0 ELSE @ - 1]

\* remove_from_ip_port_key_hash: the connection's key goes, counted down, whichever request
\* registered it.
rl_request_end(c) ==
  /\ pc[c] = "data"
  /\ ip_port_key' = [ip_port_key EXCEPT ![c] = Null]
  /\ key_ip_port_count' =
       IF ip_port_key[c] = Null THEN key_ip_port_count
       ELSE decr_num_connections_of_a_key(ip_port_key[c])
  /\ pc' = [pc EXCEPT ![c] = "idle"]
  /\ owner' = [owner EXCEPT ![c] = Null]
  /\ next_allowed_send_tick' = [next_allowed_send_tick EXCEPT ![c] = TICK_ETERNITY]
  /\ UNCHANGED <<now_ms, policy, next_throttle_log_tick, call, sinceLog>>

-----------------------------------------------------------------------------
\* weir_http_payload with data to forward: it has waited long enough, and
\* rl_speed_throttle reads the time.
weir_http_payload(c, d) ==
  /\ pc[c] = "data"
  /\ \/ ~tick_isset(next_allowed_send_tick[c])
     \/ tick_is_expired(next_allowed_send_tick[c], now_ms)
  /\ next_allowed_send_tick' = [next_allowed_send_tick EXCEPT ![c] = TICK_ETERNITY]
  /\ pc' = [pc EXCEPT ![c] = "lookup"]
  /\ call' = [call EXCEPT ![c] = [NoCall EXCEPT !.direction = d, !.at = now_ms]]
  /\ UNCHANGED <<now_ms, tables, next_throttle_log_tick, owner, sinceLog>>

\* curr_sec - received_epoch_sec is unsigned: a policy of a later second than
\* curr_sec is as good as too old.
is_valid_violation_policy(p, late) ==
  p.age - late \in 0 .. BACKOFF_WINDOW_EPOCHS

\* External: pow(2, n).
pow2[n \in Nat] == IF n = 0 THEN 1 ELSE 2 * pow2[n - 1]

\* Mutant: no run time is guaranteed.
RunTimeWithoutMinimum(p, late) ==
  LET age == p.age - late
      doubled == (p.elapsed \div p.diff_ratio) * pow2[age - 1]
  IN  IF age = 0 THEN 0
      ELSE IF doubled < TicksPerSecond THEN doubled ELSE TicksPerSecond

\* Mutant: the second of the violation is not special.
RunTimeInViolationSecond(p, late) == MIN_RUN_TIME

\* The part of the second in which data is forwarded: none in the second of the
\* violation, then twice as long in every second.
compute_allowed_run_time(p, late) ==
  LET age == p.age - late
      fair == p.elapsed \div p.diff_ratio
      doubled == (IF fair < MIN_RUN_TIME THEN MIN_RUN_TIME ELSE fair) * pow2[age - 1]
  IN  IF age = 0 THEN 0
      ELSE IF doubled < TicksPerSecond THEN doubled ELSE TicksPerSecond

\* The policy of the key that the connection of the callback is registered under.
get_epoch_sec(c) ==
  IF ip_port_key[c] = Null THEN Null ELSE policy[call[c].direction][ip_port_key[c]]

\* There is a valid policy, and the run time it allows in this second is over.
rl_speed_throttle(c) ==
  LET p == get_epoch_sec(c)
  IN  /\ p # Null
      /\ is_valid_violation_policy(p, call[c].late)
      /\ call[c].at % TicksPerSecond >= compute_allowed_run_time(p, call[c].late)

\* The callback may not forward: it waits for a tick and loads the tick of the next log.
Throttle(c) ==
  /\ pc[c] = "lookup"
  /\ rl_speed_throttle(c)
  /\ pc' = [pc EXCEPT ![c] = "throttled"]
  /\ next_allowed_send_tick' =
       [next_allowed_send_tick EXCEPT ![c] = tick_add(call[c].at, 1)]
  /\ call' = [call EXCEPT
       ![c].next_log = next_throttle_log_tick[call[c].direction][owner[c]]]
  /\ UNCHANGED <<now_ms, tables, next_throttle_log_tick, owner, sinceLog>>

\* The bytes are forwarded and logged under the key of the connection, which nobody else
\* changes meanwhile; the callback is over.
rl_data_transferred(c) ==
  /\ pc' = [pc EXCEPT ![c] = "data"]
  /\ call' = [call EXCEPT ![c] = NoCall]
  /\ UNCHANGED <<now_ms, tables, next_throttle_log_tick, next_allowed_send_tick,
                 owner, sinceLog>>

\* The callback may forward, after a random delay under some ratios (get_jitter_usec).
Pass(c) == pc[c] = "lookup" /\ ~rl_speed_throttle(c) /\ rl_data_transferred(c)

LogIsDue(c) ==
  \/ ~tick_isset(call[c].next_log)
  \/ tick_is_expired(call[c].next_log, call[c].at)

\* A throttled callback that finds a log due and wins the exchange logs the throttle.
WriteLog(c) ==
  LET d == call[c].direction
  IN  /\ next_throttle_log_tick' = [next_throttle_log_tick EXCEPT
           ![d][owner[c]] = tick_add(call[c].at, TicksPerSecond)]
      /\ sinceLog' = [sinceLog EXCEPT ![d][owner[c]] = 0]
      /\ pc' = [pc EXCEPT ![c] = "data"]
      /\ call' = [call EXCEPT ![c] = NoCall]
      /\ UNCHANGED <<now_ms, tables, next_allowed_send_tick, owner>>

\* HA_ATOMIC_CAS finds the tick that the callback loaded.
ExchangeSucceeds(c) ==
  next_throttle_log_tick[call[c].direction][owner[c]] = call[c].next_log

\* Mutant: the tick is stored, whoever changed it meanwhile.
LogAlways(c) == pc[c] = "throttled" /\ LogIsDue(c) /\ WriteLog(c)

LogThrottle(c) ==
  /\ pc[c] = "throttled"
  /\ LogIsDue(c)
  /\ ExchangeSucceeds(c)
  /\ WriteLog(c)

\* No log is due, or another thread wrote it.
SkipLog(c) ==
  /\ pc[c] = "throttled"
  /\ ~(LogIsDue(c) /\ ExchangeSucceeds(c))
  /\ pc' = [pc EXCEPT ![c] = "data"]
  /\ call' = [call EXCEPT ![c] = NoCall]
  /\ UNCHANGED <<now_ms, tables, next_throttle_log_tick, next_allowed_send_tick,
                 owner, sinceLog>>

-----------------------------------------------------------------------------
\* Mutant: the policy's time is not reduced to its second.
PolicyAtEpoch(epoch, ratio) == [age |-> 0, elapsed |-> epoch, diff_ratio |-> ratio]

\* The policy that is stored for a violation at time epoch.
NewPolicy(epoch, ratio) ==
  [age |-> 0, elapsed |-> epoch % TicksPerSecond, diff_ratio |-> ratio]

\* A policies message reports a key, not the empty one: the policy replaces the key's last one and
\* belongs to the second it is received in. Its own time is of that second or, where
\* the generator's clock is ahead, of the next.
set_throttle_epoch_us(k, d, epoch, ratio) ==
  /\ k # EmptyKey
  /\ policy' = [policy EXCEPT ![d][k] = NewPolicy(epoch, ratio)]
  /\ UNCHANGED <<now_ms, ip_port_key, key_ip_port_count,
                 next_throttle_log_tick, stream, sinceLog>>

\* A round of the clean-up thread over one of the tables; it takes them in turn, one
\* a minute, which is at any time here.
remove_old_epochs(d) ==
  /\ policy' = [policy EXCEPT ![d] = [k \in Keys |->
       IF @[k] # Null /\ @[k].age > SPEED_TABLE_STALE_POLICY_AGE_SEC THEN Null ELSE @[k]]]
  /\ UNCHANGED <<now_ms, ip_port_key, key_ip_port_count, next_throttle_log_tick,
                 stream, sinceLog>>

\* A policy a second later.
Older(p) == IF p = Null THEN Null ELSE [p EXCEPT !.age = IF @ = MaxAge THEN @ ELSE @ + 1]

\* Time passes, unless a callback has taken as long as it may; between loading the
\* tick of the next log and exchanging it there is no time to speak of.
ClockTick ==
  /\ \A c \in Conns :
       /\ pc[c] = "lookup" => (now_ms - call[c].at) % TickRange < MaxLag
       /\ pc[c] # "throttled"
  /\ now_ms' = NextTick(now_ms)
  /\ sinceLog' = [d \in Directions |-> [k \in Keys |->
       IF sinceLog[d][k] = TicksPerSecond THEN TicksPerSecond ELSE sinceLog[d][k] + 1]]
  /\ \/ /\ Tock = TicksPerSecond - 1
        /\ policy' = [d \in Directions |-> [k \in Keys |-> Older(policy[d][k])]]
        /\ call' = [c \in Conns |->
             IF pc[c] = "lookup" THEN [call[c] EXCEPT !.late = 1] ELSE call[c]]
     \/ /\ Tock # TicksPerSecond - 1
        /\ UNCHANGED <<policy, call>>
  /\ UNCHANGED <<ip_port_key, key_ip_port_count, next_throttle_log_tick,
                 next_allowed_send_tick, pc, owner>>

RequestStep(c) ==
  \/ \E k \in KeysOf[c] : weir_should_block_request(c, k)
  \/ Deny(c) \/ Admit(c) \/ rl_request_end(c)

PayloadStep(c) ==
  \/ \E d \in DataDirections : weir_http_payload(c, d)
  \/ Throttle(c) \/ Pass(c)
  \/ LogThrottle(c) \/ SkipLog(c)

PolicyArrives ==
  \E k \in ReportedKeys, d \in DataDirections, epoch \in PolicyTimes, r \in Ratios :
    set_throttle_epoch_us(k, d, epoch, r)

Next ==
  \/ \E c \in Conns : RequestStep(c) \/ PayloadStep(c)
  \/ PolicyArrives
  \/ \E d \in Directions : remove_old_epochs(d)
  \/ ClockTick

Spec == Init /\ [][Next]_vars

-----------------------------------------------------------------------------
(* Properties *)

\* While data of a request with a key is asked about, forwarded and logged, the connection
\* is registered under the request's own key, whatever requests the connection carried
\* before, with a key or without, and however they ended (get_key_from_ip_port,
\* set_ip_port_key). A request without a key may run under its predecessor's.
DataIsOwners ==
  \A c \in Conns :
    /\ pc[c] \in {"data", "lookup", "throttled"}
    /\ owner[c] # EmptyKey
    => ip_port_key[c] = owner[c]

\* The count of a key covers the connections registered under it, so that it is never
\* counted down below them (incr_ and decr_num_connections_of_a_key). It may be larger:
\* a connection that changes its key stays counted for the old one.
NumConnectionsCovered ==
  \A k \in Keys :
    Cardinality({c \in Conns : ip_port_key[c] = k}) <= key_ip_port_count[k]

\* Once a violation of a user is received, no callback that began in that second
\* decides to forward the user's data in it (compute_allowed_run_time, get_epoch_sec).
\* A callback that read the clock in the second before is not held: to it the policy
\* is one of the future.
ThrottleTakesEffect ==
  [][\A c \in Conns :
       /\ pc[c] = "lookup" /\ pc'[c] = "data"
       /\ call[c].late = 0
       => LET p == policy[call[c].direction][owner[c]]
          IN  p = Null \/ p.age # 0]_vars

\* Throttles of a user are logged at most once a second, less the time between reading
\* the clock and the lookup, by whichever threads (weir_http_payload, HA_ATOMIC_CAS).
ThrottleLogsSpaced ==
  [][\A c \in Conns :
       LogThrottle(c) => sinceLog[call[c].direction][owner[c]] >= TicksPerSecond - MaxLag]_vars

\* No user is starved by its policies, even if it is reported in every second: a callback
\* at the start of a second is not throttled unless a report came in during that second
\* (compute_allowed_run_time grants MIN_RUN_TIME_USEC from the next second on).
StartOfSecondIsOpen ==
  [][\A c \in Conns :
       /\ pc[c] = "lookup" /\ pc'[c] = "throttled"
       /\ call[c].at % TicksPerSecond < MIN_RUN_TIME
       => get_epoch_sec(c).age = call[c].late]_vars
=============================================================================
