# Weir: a TLA+ model of distributed quality of service for HAProxy

Weir limits what the users of a service may do: requests per second and verb,
bandwidth, and concurrent (active) requests, summed over all HAProxy instances
in front of it. HAProxy logs what users do over UDP; a syslog server aggregates
the logs into Redis; a policy generator reads Redis, finds users over their
limits and tells every HAProxy instance whom to deny. This directory models
that loop in TLA+, checks it with TLC and proves its safety properties with TLAPS.

## 1. Inventory

| Component | State | Operations | Talks to |
|---|---|---|---|
| Weir filter (`haproxy-lua/added-files/src/flt_weir.c`) | table user -> counts and limit shares under `state_lock`, next clean-up tick; per stream a `weir_lim_state` with a raw pointer into the table | `weir_attach`, `weir_enable_filter` (activate-weir, with the clean-up), `weir_http_headers`, `weir_http_payload`, `weir_detach`, `emit_active_request_refresh`, `weir_ingest_limit_share_update` | syslog server (UDP logs), rate limiter (calls), Lua (limit shares) |
| Rate limiter (`rate_limit.c`) | maps connection -> key, key -> number of connections, key -> throttle epoch per direction, each under a lock; a clean-up thread | `set_ip_port_key`, `rl_speed_throttle`, `rl_data_transferred`, `rl_request_end`, `throttle_key_speed` | filter, Lua |
| Lua policies (`haproxy-lua/src/haproxy_lua.lua`) | `reqs_map`, `vio_map` | `ingest_policies` (policies and limit_share messages), `weir_should_block_request` | policy generator (TCP), rate limiter |
| S3 bindings (`weir-s3.lua`) | none | parse a request into key, class and direction | filter, Lua |
| Syslog server (`syslog_server.cpp`, `msg_processor.cpp`) | a bounded queue per worker; usage per user, category and second; last active count per key | `msgProducerThread`, `messageConsumerThread` with the four `process...`, `sendToRedisQos` | Redis |
| Redis connection (`redis_utils.cpp`) | hiredis context, status, reconnect flag, address; shared by the consumer and a check thread without a lock | `connect`, `reconnectIfNeeded`, `checkIfNeedsReconnect`, `addCommand`, the callbacks of hiredis | Redis, name service |
| Policy generator (`polygen/policy_generator.py`, `weir/models/violations.py`) | `blocked_users`, the `Policies` of the second (new and sent keys per usage), a queue per HAProxy, limits | `check_loop` (verb, conn), `_check_violation` in a thread pool, `HaproxyServer.run`, `demand_check_loop`, reload | Redis, HAProxy |
| Metrics exposer and publisher | counters | read logs and Redis | dashboards |

What is hard here, and what makes each part correct:

- Filter: streams of many threads follow raw pointers into a table that other
  streams clean up; a count is taken in one callback and given back in another
  under a different condition; counts are read under a lock and logged after
  it. Correct when no freed entry is followed and the counts are those of the
  live requests.
- Rate limiter: data finds its user through the address of a connection that
  requests share one after the other; clocks are read before the tables they are
  compared with. Correct when data is throttled and counted for its own user,
  a throttle holds in its second, and nobody is throttled for good.
- Reporting path: UDP loses and reorders, instances crash. Correct when Redis
  is eventually right about idle and about busy users.
- Syslog server: batches, a lost connection, a full queue. Correct when usage
  is neither lost nor doubled and what is written is the newest.
- Redis connection: callbacks run from inside other calls, a second thread looks
  names up and writes its verdict late, servers and names change. Correct when the
  status is that of the context, a planned reconnection loses no command, and a
  failover completes.
- Limit shares: rounds of messages are lost, late and read in part. Correct when the
  shares of a round stay within the limit and follow the demand.
- Policy generator: checks overlap in a pool and share dictionaries with no
  lock; seconds roll over under them; messages are dropped, batched and lost.
  Correct when users over a limit are denied within a deadline and stay so,
  and others are not.
- Lua: a block times out after two seconds, a throttle belongs to one second.

`PROJECT.json` lists the hazards line by line with the properties that cover
them.

## 2. Modules

| Module | Models | Composes |
|---|---|---|
| `Ticks` | HAProxy's wrapping clock (external, as `flt_weir.c` uses it) | |
| `WeirFilter` | the filter and its table | `Ticks` |
| `RateLimit` | the rate limiter's tables and `weir_http_payload` | `Ticks` |
| `ActiveRequests` | the path of the counts to Redis | `WeirFilter` |
| `SyslogServer` | one worker of the syslog server | `RedisLink`, `UsageLedger` |
| `UsageLedger` | abstract: what a worker promises about usage | |
| `RedisConnection` | the worker's connection, its callbacks and the check thread | `RedisLink` |
| `RedisLink` | abstract: what `SyslogServer` relies on of the connection | |
| `LimitShare` | the demand loop and the way of its shares to every instance | |
| `PolicyGenerator` | the checks, policies and queue of the generator | |
| `Enforcement` | generator, `reqs_map` and `vio_map`, failures and time | `PolicyGenerator` |
| `MC*` | instances for TLC | |
| `WeirFilterProofs`, `ActiveRequestsProofs`, `RateLimitProofs`, `SyslogServerProofs`, `RedisConnectionProofs`, `LimitShareProofs`, `EnforcementProofs` | theorems about the module they are named after (section 4) | that module |
| `FunctionSums` | induction and sums over finite sets, for the proofs | |

### WeirFilter

`users`, `active_requests`, `last_request_end_tick` and `share` are the table,
one function per field; a key outside `users` holds the values `pool_zalloc`
would give it. `limit[s]` is the raw pointer of stream `s`, so a pointer to a
freed entry is a key outside `users`. A stream is sequential: `free`, `rules`
(attached, its http-request rules run), `headers_log`, `forward`, `detach_log`.
A step ends where the code releases `state_lock`, which is why `headers_log` and
`detach_log` exist: the count of that stream has been read and not yet logged.
The clean-up is part of `weir_enable_filter`. What a HAProxy configuration may
do is in constants: which rule sets hold an activate-weir line, whether a later
rule may deny, what its fetches may return. `WEIR_BUG_ON` sets `crashed`, after
which nothing happens. The logs to the syslog server are in `ActiveRequests`,
the rate limiter's tables (which `weir_detach` also updates) share no state with
this module. `INT_MAX` bounds a count.

### RateLimit

`ip_port_key`, `key_ip_port_count` and `policy` are the tables of `rate_limit.c`;
a policy has an age in seconds where the code stores the second of its receipt. A
request is `idle`, `rules` (its key is registered, the Lua check decides), `data`
(enabled, between callbacks), and within a callback `lookup` (the clock is read,
the tables not yet) or `throttled` (the tick of the next log is loaded, not yet
exchanged). Forwarding after the lookup is part of the same step, its random delay
included: nobody changes the connection's key meanwhile. `call` holds the locals of a
callback, with `late` set when a second began since it read its clock: the age of a
policy is then one less, and below 0 it is a huge unsigned number. A denied request
leaves its key registered, as `weir_detach` only calls `rl_request_end` for an
enabled stream. A request may have no key (`EmptyKey`): `set_ip_port_key` ignores it, so
that on a connection where the last request was denied it runs under that request's key,
and its end counts that key down; elsewhere its data is forwarded unasked, like that of
addresses that are not IPv4 (`bad ip address`), which are left out. Requests share a
connection one after the other (HTTP/1), which is also why the key that `get_key_from_ip_port` returns without its lock is not
replaced while it is used. Times are in ticks, `TicksPerSecond` a second; `owner`
and `sinceLog` are history, `MaxLag` and `MaxCount` bounds. Limit entries keep
their log tick: an entry is only freed after 5 idle seconds, longer than that tick
matters.

### ActiveRequests

Adds the datagrams in flight and the Redis key of every user and direction with
its time to live. A full socket buffer drops a datagram, several workers may
apply them out of order, and the instance may be killed and start again empty.
A log carries the count of the method's direction under the direction the
activate-weir line fetched; in the run the two may differ, so that the refresh
writes to another key than the request's own logs, and both must come right.

### SyslogServer

`commands` maps user, category and age in seconds to an amount, because the
code's key compares timestamps by second. Messages are records, and whether
they parse is `WellFormed`. `accepted`, `discarded`, `redisAmount` and
`lastReported` are history for the properties. Whether the flush period is over
is a free choice in `sendToRedisQos`, except that a full batch always flushes.

The connection takes the steps of `RedisLink`: `link` is up, down or closing (a
reconnection waits for answers), and `pipeline` holds what was sent and not
answered. Redis executes each command or refuses it: an error reply is logged and no
more, and the amount is lost while the connection holds (`LinkAnswers`). A command that
`redisAsyncCommand` does not take has the same fate, since the aggregates are cleared all the
same, and is modelled the same way. When a connection fails, any part of the pipeline has been
executed and the rest is lost (`LinkFails`): the code sends nothing again.
`RedisConnection` implements the same `RedisLink`, so that the steps of the connection in `SyslogServer` are those that
the real one has.

`UsageLedger` is what a worker promises: usage is owed, stored or lost, a step settles
only what is owed, and gives up at most what is at risk. `SyslogServer` implements
it (`ImplementsLedger`) with: owed is what is queued, aggregated or in flight; at
risk is what is in flight or as old as its time to live; stored is in Redis. With
`UsageConserved` alone a flush without a connection might throw fresh usage away.

### RedisConnection

The fields are those of `RedisServerConnection`, `pc` is where the consumer is (top of
its loop, in `ev_run`, within `connectCallback`, at `reconnectIfNeeded`), `check` the
check thread with its local variables. `ctx` is what hiredis holds: the peer, the
phase, whether replies are outstanding, and whether the peer is out of reach. Steps of
the two threads end where the other may see a field change: the check thread reads
the status, then the flag, looks the name up, compares with `m_redis_ip` (which
`connectCallback` may be writing: the comparison then has any result) and writes the
flag. `disconnectCallback` runs at once when no reply is outstanding, else from within
`ev_run` (`DisconnectCompletes`). There, `connect` destroys the event loop that is
running (`loop_destroyed`): from then on the process may die at any time until `ev_run`
has returned, or go on. A failing `redisLibevAttach` throws and ends the process too. The
counters of the connection are left out, as is shutdown.

### LimitShare

A round of the demand loop collects the keys (`scan_iter`), then their values, which
may have changed or gone, computes the shares (`compute_bandwidth_limit_share`) and
sends one message to one server after the other. Any of these sends may fail without
the loop noticing; a new connection leaves messages in the old one, which another
applet of HAProxy reads, so that messages of several rounds are in flight and overtake
each other. The parser gives up at a line without shares, which is what a user with a
limit of 0 gets; the order of lines is that of a Python set, so that any of the other
users may be behind it (`Readable`). Timestamps are ages in rounds, as only their order
matters; `MaxAge` bounds how many rounds a message may take. Division is exact where
the code's floats may be a byte lower; clamping to `UINT_MAX` is in `WeirFilter`.

### PolicyGenerator and Enforcement

A pool thread's check is a record with a program counter; a step ends where
another Python thread may see or change what the check reads next: between
reading `blocked_users` and reporting, between the comparison with the epoch, the new
epoch and the new violations (two assignments of `Policies.new_epoch`, between which
other checks see the new epoch and the old violations), between making messages and
marking their keys as sent. Single dictionary and set operations are atomic, as under
CPython's GIL. A check that has made its messages goes on with the `Violations` object
it took them from: once another check has replaced that object it marks nothing that
anybody reads (`stale`). A key that others add after the loop over the keys and before
the assignment of an empty set is removed without being marked (`late`); the iteration
over a set that another thread grows may raise (`mark_raises`), which loses the
messages. A `del` of an entry that another check has deleted raises too, but is caught
in `_check_violation`: that check skips its other users and still sends (`record`). A user
of `Invalid` has a key that `create_user_level_metric` refuses. A verb check skips it; a
check of active requests raises before it has examined anybody
(`create_user_level_metric_raises`) and still sends what others have left. Keys of the three
usage values are made into messages and marked in two steps, where the code takes one value
after the other.
`Concatenated` is what HAProxy reads when several messages were drained
together: the first message's head, with the last key of each message but the
last fused with what follows.

`Enforcement` adds time and failures: Redis errors, batches whose two send
attempts fail, restarts of either side. A check may take up to `MaxLag` ticks, cross seconds
and overlap with the checks of later ones. `overSince`, `calmSince` and `verbSince` are history
that the deadlines start from; `overSince` is only set while no refused key is in Redis.
`carried` are the users whom some check was on its way with when the second began, `quiet`
those that got over their limit when nothing older was under way. `MaxTime`, `MaxScans`
(scans of a loop in a tick) and `MaxEvents` (changes of counts, limits exceeded and failures)
are bounds.

## 3. Runs

| Run | Checks | Bounds |
|---|---|---|
| `filter_requests` | `LimitPointerValid`, `ActiveCountExact`, `ReportedCountsSane` under the shipped configuration (one activate-weir, after every deny) | 3 streams, 2 users, a clock of 4 values that wraps, clean-up every 2 ticks |
| `filter_anyconfig` | `TypeOK`, `LimitPointerValid`, `HoldersCounted`, `ShareNeverGoesBack` under any configuration, with failing fetches and limit shares | 2 streams, 2 users, 2 timestamps, a share above `UINT_MAX`; deadlock is allowed because a `WEIR_BUG_ON` stops the process |
| `rate_limit` | `TypeOK`, `DataIsOwners`, `NumConnectionsCovered`, `ThrottleTakesEffect`, `ThrottleLogsSpaced`, `StartOfSecondIsOpen` | 2 connections on one key, one of them also with requests without a key; seconds of 2 ticks, a clock of 10 ticks that wraps, backoff of 2 seconds |
| `active_requests` | `PathTypeOK`, `IdleCountsExpire`, `SteadyCountsConverge` | 2 streams, directions that may differ, 2 datagrams in flight, reordering, crashes, time to live 1 |
| `syslog` | `TypeOK`, `UsageConserved`, `ImplementsLedger`, `FlushWritesNewestReport`, `UsageReachesRedis` | 3 datagrams, queue and batch of 2, time to live 1 s, any number of connections and failures, commands refused up to an amount of 2 at a time |
| `redis_connection` | `TypeOK`, `StatusMatchesContext`, `ReconnectLosesNothing`, `FailoverCompletes`, `ImplementsLink` | 2 addresses, of which the name may mean any set at any time, and servers that come and go; deadlock is allowed because the process may die |
| `limit_share` | `TypeOK`, `SharesAddUp`, `SharesConverge` | 2 instances, a user with a limit of 5 and one with 0, messages of 2 rounds in flight |
| `enforce_block` | `TypeOK`, `OverloadIsBlocked`, `CalmIsUnblocked`, `OnlyViolatorsReported`, `NoKeyForgotten` | a user and one with a key that is refused, 2 pool threads, seconds of 5 ticks, 12 ticks, checks of up to 2 ticks, one scan a tick, backoff of a tick, 3 events (counts and failures) |
| `enforce_verb` | `LoneExceededIsThrottled`, `ThrottledOnlyIfExceeded` | 2 users, 2 threads, two seconds of 6 ticks, checks of up to 2 ticks, one scan a tick, 2 events (limits exceeded and failures) |

The bounds let every interesting case happen: two streams are enough for one to
clean up under another, a third holds an entry meanwhile; a clock of 3, 4
or 10 values wraps in every behaviour; two datagrams are the fewest that can be
reordered; two pool threads the fewest that can race, and two users the fewest for a key
to be added between making a message and marking its keys; with checks of two
ticks some are under way whenever a second begins, and the runs are as long as the
deadlines: 11 ticks for a block (a second, the backoff and 5 times what a check may lag), 12
for an unblock, 4 for a throttle, and a user may reach its limit and leave it in the first; two addresses are enough for the one to be stale, and a
limit of 5 that is split 2 to 1 or 1 to 2 leaves a rest to round. `enforce_block`
has one user that is checked: the deadlines of
`OverloadIsBlocked` and `CalmIsUnblocked` are stated for the only user that has
been at the limit, because the reports of several share batches and marks, with
the losses that `enforce_lostkey` and `enforce_glued` show. A connection of `rate_limit` does not
change between two keys, which would take more than TLC can enumerate in minutes; the theorem
`DataUnderOwnKey` is for any keys.

Runs that must fail show where code and documentation disagree:

| Run | Shows |
|---|---|
| `filter_deny` | a request denied after activate-weir is counted for ever (`ActiveCountExact`), though the flag that is meant to account for it exists |
| `enforce_lostkey` | a key added between making a message and marking its keys is taken as sent, and its user is not throttled in that second |
| `enforce_glued` | messages drained together are applied as one line, to the wrong users |

Disagreements met while modelling that need no run: an unknown direction makes
`weir_enable_filter` return with the stream enabled and without an entry, and the
headers callback then hits a `WEIR_BUG_ON` (`weir_http_headers_bug`), where the comment
above the rule says "On error, the rule is ignored"; a verb check that ends once another
has started the next second adds its user there (`add_violation` only looks for a later
epoch), so that it is throttled in a second in which it exceeded nothing, although throttling
is to last "until the end of the second" (`docs/limit-enforcement.md:15`); if it exceeds its
limit in that second too, the late check may have marked it as sent with a message of the old
second, which HAProxy drops as stale (`haproxy_lua.lua:190`), and it is not throttled at all
(`carried` and `quiet` leave these two cases out of `ThrottledOnlyIfExceeded` and
`LoneExceededIsThrottled`); one key in Redis with an access key that is not alphanumeric keeps
every check of active requests from blocking anybody (`OverloadIsBlocked` holds while there is
none); `replyCallback` expects the "connection closed callback eventually" after an error
reply (`redis_utils.cpp:246`), but a command that Redis refuses (OOM, READONLY) closes nothing and
its usage is lost; a request without a key on a keep-alive connection runs under the key of
the denied request before it, although the comment at `rate_limit.c:482` has it that "simply
updating the ip_port -> key map should be enough" (`DataIsOwners` is about requests with a
key); `redis_utils.h` warns that a
`RedisServerConnection` "can be used only by 1 thread", and two use it; a reconnection with
replies outstanding destroys its event loop while it runs (see `RedisConnection`),
though the comment in `disconnectCallback` has it called "inside redisAsyncDisconnect";
`~Processor` joins the consumer thread without asking it to stop; a user with a limit of 0
keeps others from their shares, and one with an underscore in its name ends the
demand loop (`SharesConverge` says when); the count in a `req` message
is read under the lock and sent after it, so it need not be the count "at the
time that this message was sent" (`docs/syslog-server-api.md`); a full queue drops
the newest entry, where `syslog_server.localdev.yml` says older ones; `processReq`
rejects the seven-field request message that `docs/syslog-server-api.md` shows,
because it wants an eighth field, possibly empty; and the number of connections of
a key, which the debug logs call active connections, is never counted down for a
connection that changes its key or whose request is denied (`NumConnectionsCovered`
is an inequality for that reason).

### Fairness and timing

`ActiveRequests` assumes that the syslog server drains its socket, that time
passes, and that HAProxy's scheduler keeps running the refresh task, which
reschedules itself at each run. Requests and crashes have no fairness.
`SyslogServer` assumes that the consumer's loop, which waits at most 100
microseconds, goes on, and that a Redis that stays connected answers, be it with an error;
the connection has no fairness otherwise. `UsageReachesRedis` supposes that it stays up in the
end: then all usage is in Redis but for what was refused, lost with an earlier connection or
erased, and nothing waits in queue, aggregates or pipeline.

`RedisConnection` assumes weak fairness of the consumer's loop, of time and of the
steps of a check that has begun. Strong fairness where a step is only possible now and
then: the flush that tries to connect needs the consumer at its place with the
interval over, an event needs `ev_run` to be running, and the check thread, which wakes up
once an interval, needs to find the connection up. All three recur for as long as the
loops run. `FailoverCompletes` supposes that in the end the name means one address with a
server behind it, and that the consumer, which iterates every 100 microseconds, acts on
a request to reconnect before the next check one interval (seconds) later
(`ActsBeforeNextCheck`). Without the latter a check that began before each
reconnection could ask for the next one for ever.

`LimitShare` assumes that the demand loop goes on and instances read what they have
(weak), and that Redis answers and each server can be reached again and again (strong:
single failures are possible at any time).

`RateLimit` has no fairness: that a throttled stream goes on is stated as safety
(`StartOfSecondIsOpen`), as it asks again every millisecond and the start of a second
lasts at least 50. A callback reads its clock at most `MaxLag` ticks before the lookup.

`Enforcement` has deadlines instead of fairness. Loops sleep for milliseconds
and a tick is a fraction of a second, so that within a tick every loop scans and every queue is
drained. Nothing in the code bounds a check but the answers of Redis; `MaxLag` is what it takes
at most, and the deadlines grow with it. A user at the limit is blocked after a second, the
backoff and five times what a check may lag (`OverloadIsBlocked`): when the limit is reached
again just after an unblock, a check that saw the old count may unblock once more, the reminder of
that second has been sent, the next second may begin within the backoff, and late checks may
start its epoch over. A calm user is unblocked after two seconds and twice what a check may lag
(`CalmIsUnblocked`): a check that saw the old count may leave its key to another one that began
just before the first ended. A user alone over its verb limit is throttled within three
checks (`LoneExceededIsThrottled`): one that reports it, one that replaces the violations
meanwhile and one that sends what the others have left. A failure restarts the deadline of
users at the limit; `CalmIsUnblocked` holds across failures. Both hosts have one clock.

## 4. Proofs

Every theorem is of the form `Spec => []Inv`, an action property or a refinement, for
all values of the constants under the named assumptions of the modules. Besides types
(finite sets of streams, connections and instances, positive intervals, `Null` outside
the sets it is joined with), the assumptions that carry an argument are
`TickRange > 2 * (TicksPerSecond + MaxLag + 1)` in `RateLimit` (comparing two ticks by the
sign of their difference means something only within half of the clock's range; the
code's is 2^32 milliseconds), `UnblockMax < Limit` in `PolicyGenerator` (by default a
user is unblocked at 95% of the limit), and that a count may be 0 in `LimitShare` (a key that does not
exist). Four theorems of `EnforcementProofs` have hypotheses of their own, given in the table
and explained below it.

| Module | Theorem | States |
|---|---|---|
| `WeirFilterProofs` | `TypeCorrect`, `PointerSafety`, `CountsCoverHolders`, `ReportsSane` | `TypeOK`, `LimitPointerValid`, `HoldersCounted`, `ReportedCountsSane`, under any configuration |
| | `SharesAdvance` | `ShareNeverGoesBack` |
| | `CountsExact` | `ActiveCountExact`, under `ShippedConfig` |
| `ActiveRequestsProofs` | `PathTypeCorrect` | `PathTypeOK`: no datagram and no key in Redis has a negative count |
| | `PointerSafetyWithRestarts` | `LimitPointerValid` in the composition, across crashes |
| `RateLimitProofs` | `TypeCorrect`, `DataUnderOwnKey`, `ConnectionsCovered` | `TypeOK`, `DataIsOwners`, `NumConnectionsCovered` |
| | `ViolationTakesEffect`, `LogsSpaced`, `SecondStartsOpen` | `ThrottleTakesEffect`, `ThrottleLogsSpaced`, `StartOfSecondIsOpen` |
| `SyslogServerProofs` | `TypeCorrect`, `UsageIsConserved`, `NewestReportWritten` | `TypeOK`, `UsageConserved`, `FlushWritesNewestReport` |
| | `LedgerImplemented` | `ImplementsLedger`: the refinement of `UsageLedger` |
| `RedisConnectionProofs` | `TypeCorrect`, `ContextOwnership`, `NothingLost` | `TypeOK`, `StatusMatchesContext`, `ReconnectLosesNothing` |
| | `LinkImplemented` | `ImplementsLink`: the refinement of `RedisLink` |
| `LimitShareProofs` | `TypeCorrect`, `LimitNotExceeded` | `TypeOK`, `SharesAddUp` |
| `EnforcementProofs` | `TypeCorrect`, `ViolatorsOnly`, `KeysNotForgotten` | `TypeOK`, `OnlyViolatorsReported`, `NoKeyForgotten` |
| | `ThrottledOnly` | `ThrottledOnlyIfExceeded`, if only verb limits are checked, for every `MaxLag` |
| | `LoneThrottled` | `LoneExceededIsThrottled`, if verb limits are checked, alone, for every `MaxLag` |
| | `CalmUnblocked` | `CalmIsUnblocked`, if only active requests are checked, for every `MaxLag` |
| | `OverloadBlocked` | `OverloadIsBlocked`, if active requests are checked, alone, and `Delay + 3 * (MaxLag - 1) < TicksPerSecond` |

The arguments, each along an inductive invariant (`IndInv`, or `PathInv`):

- **WeirFilter.** `LimitPointerValid` is not inductive: that the clean-up spares an entry
  follows from its count being positive, and the count is positive because the streams
  that hold the entry are counted in it. `IndInv` joins `TypeOK`, `PointerFollowsFlags`
  (which flags a stream with or without a pointer may have: without it a stream could be
  counted down without having been counted), `HoldersCounted`, `LimitPointerValid` and
  `ReportedCountsSane`. Each action adds or removes at most one stream to the holders of
  one user and direction, so the cardinality lemmas are about one element of a finite set.
  `CountsExact` needs the other inequality (`NoCountLeft`), which the run `filter_deny`
  shows to be false in general. Its hypothesis `ShippedConfig` says what the shipped
  `haproxy_localdev.conf` has: no rule denies after activate-weir, activate-weir is only in
  http-request rules, clients have IPv4 addresses. Then a stream with a pointer that is
  past its rules has had its headers processed (`HoldersProcessed`), so that `weir_detach`
  counts it down.
- **ActiveRequests.** Steps of the composition are steps of the filter, or a restart,
  which establishes the filter's invariant anew. That a log names a known direction is
  `DirectionKnown`; that its count is not negative is the filter's `ReportedCountsSane`.
- **RateLimit.** `RequestRegistered` ties the connection's key to its request from the
  http-request rules on, not only while there is data,
  unless the request has no key. Two times matter to the logs: a
  callback under way read the clock at most `MaxLag` ticks ago (`CallRecent`), and within a
  second of a log the tick of the next one is set and lies at the right distance ahead
  (`NextLogAhead`). Both are stated as differences modulo `TickRange`. That the run time
  after the second of the violation is at least `MIN_RUN_TIME` needs that powers of 2 are
  positive (`PowersPositive`).
- **SyslogServer.** `UsageConserved` is itself inductive with `TypeOK`: each step moves an
  amount from one place to another. What has to be proved is how sums over the ages of keys
  and the places of the queue change with one step: a second passes (every key moves one
  age up), a flush empties some ages, a message enters or leaves the queue.
  `PendingIsNewest` says that the count a flush will write is the last one processed. The
  ledger follows from the same sums: what a step settles is no more than what is owed, and
  what it discards no more than what is at risk.
- **RedisConnection.** Between the two writes of `connectCallback` status and context
  disagree (`CallbackUnderWay`); a context that is connecting has no replies outstanding
  (`ConnectingIsIdle`), which is why giving one up loses nothing. With them every step of
  consumer, callbacks and network is a step of `RedisLink` or a stutter.
- **LimitShare.** The shares of a round are in no single variable once they are sent, and
  instances hold shares of different rounds. `RoundsAddUp` says that for each age there are
  shares that add up to no more than the limit and bound all that is left of that round in
  messages, inboxes and tables; `SharesBounded` keeps each below the limit. That the
  computed shares add up is the sum of quotients rounded down.
- **Enforcement.** A count at the limit travels from Redis into a check's locals,
  `new_keys`, messages, the queue and `blocked_users`, while other threads do the same.
  `IndInv` says of each of these places that what would block a user is about a user that
  has been at the limit, and bounds all times by the clock, which the rules of the epoch
  need. The other invariants build on `Base`, which adds `NoKeyForgotten` and that every
  check ends in time (`Timely`). `NoKeyForgotten` is inductive with `IndInv`: a check ends
  with keys left over only when its loop raised, which takes a key that its messages do not
  hold. So it was not the check that covers the keys, and the one that does is still there.
  - `ThrottledOnly`: everything on the way from the counts to `vio_map` (values, reports,
    keys, messages, queue) is about users that are over their limit in this second or were on
    the way when it began (`VerbInv`, with `Culprits` for these users). Messages of one kind may
    be glued together and still only name such users.
  - `LoneThrottled`: `LoneParts` follows the report of a user that is alone over its limit since
    `s`. Everything under way is about this user in this second (`LoneOnly`), because nothing
    older was when it got over the limit. Once the check of tick `s + 1` has reported it, the key
    is in `vio_map`, in a message, or a check that began by `s + MaxLag` will make a message of it
    (`Chain`), and checks that will replace the violations began by then too (`Wipers`) and
    report it themselves. When that check is over, `MaxLag` ticks later, so is the chain.
    `SentSound` says which keys may be marked as sent before. The iteration cannot raise, as
    nobody else has a key to add.
  - `CalmUnblocked`: what checks, keys and queue may still say of a user that is low since `c` is
    bounded by scan times (`Fading`): a check that reports a block scanned by `c`, one that sends
    such a report scanned by `c + MaxLag - 1`, a block is queued at most `MaxLag - 1` ticks after
    that, and `reqs_map` holds no later second (`CalmInv`). The rest is that a block is kept for
    two seconds.
  - `OverloadBlocked`: the other way round, unblocks fade after the limit was reached
    (`Fading("reqs_unblock", ...)`). `OverSecond` then follows one second `k`. Until a check of
    it has reported the user (`Caught`), `blocked_users` has no time of this second
    (`OverRecorded`), so that the scan after the backoff reports the user at the latest
    (`OverScanned`). From then on HAProxy has been told in this second (`Told`), or a message is
    on its way to it or will be made by a check that began by `Settled(k)`, the time by which the
    late checks of the last second are over and the backoff has passed. Such late checks may
    start the old epoch over and replace the violations, but then insert the user themselves
    (`OverRenewals`, `OverWipers`). So `Told` holds two lags after `Settled(k)`, within the
    second by the hypothesis. Every full second renews the block, and a block lasts two.

  The hypotheses: with both kinds of checks a block and a throttle message may be glued
  together, and the second is then applied as the first (`enforce_glued`); a backoff or checks
  of about a second would let whole seconds pass without a reminder (the default backoff is
  200 ms, which leaves checks up to a quarter of a second). The program always runs both
  loops, so `Kinds` with one element stands for times in which the other loop has nothing to report.

Induction over data: the library's induction theorems have an operator as parameter, which
the provers here cannot instantiate. `FunctionSums` therefore takes the set of numbers, or
of subsets, for which a fact holds, and derives from well-foundedness that it is the set of
all (`NatSetInduction`, `SubsetInduction`). `SumFunctionOnSet` is characterised that way,
and so is the recursive function `pow2`. There are no `RECURSIVE` operators.

Checked by TLC only:

- liveness (`IdleCountsExpire`, `SteadyCountsConverge`, `UsageReachesRedis`,
  `FailoverCompletes`, `SharesConverge`): the prover handles neither fairness nor `ENABLED`;
- the properties of `Enforcement` outside the hypotheses of their theorems. The runs have
  one kind of check as well, since gluing breaks the deadlines otherwise; with both kinds or
  with several users at the limit nothing is claimed beyond `TypeOK`, `OnlyViolatorsReported`
  and `NoKeyForgotten` (all three for any configuration).

## 5. Not modelled

- Throughput policies in the generator (their receipt is in `RateLimit`); data of
  connections that are not IPv4, which is forwarded unasked; HTTP/2, where requests
  of one connection overlap. `apply_bandwidth_limit` is called by nothing.
- Shutdown of the syslog server; amounts over `INT_MAX`, which overflow the `int` of a
  key and second (2 GB in a second for one user and worker).
- What an instance does with its limit share: nothing, as long as
  `apply_bandwidth_limit` is called by nothing. Restarts of an instance in `LimitShare`,
  clocks that go back between rounds.
- Several endpoints and several HAProxy instances in the policy generator;
  limits that are reloaded, and limits of 0.
- S3 parsing, configuration, CLI output, metrics: strings and output, no state
  that enforcement depends on.

## 6. Plan

Done: all modules of section 2; every invariant and action property that a passing run
checks, and both refinements, are theorems (section 4). Next, in this order:

1. Two endpoints in `PolicyGenerator`; throughput policies with their ratios; limits
   of 0 and their reload.
2. Both check loops together in `Enforcement`, with what gluing leaves of the deadlines.
