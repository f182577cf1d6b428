--------------------------- MODULE RedisConnection ---------------------------
(***************************************************************************)
(* The connection of a syslog worker to Redis (redis_utils.cpp) and the two  *)
(* threads around it (msg_processor.cpp): the consumer, which connects, sends *)
(* commands, runs hiredis' event loop and reconnects, and the check thread,  *)
(* which looks the server's name up again and asks for a reconnection when   *)
(* the address has changed. They share the fields of RedisServerConnection   *)
(* and have no lock.                                                         *)
(*                                                                         *)
(* hiredis, libev, the name service and the Redis servers are external.     *)
(***************************************************************************)
CONSTANTS
  Addrs,             \* addresses that the server's name may resolve to
  Null

ASSUME AddrAssumption == Null \notin Addrs

VARIABLES
  pc,                \* the consumer: see Positions
  m_connection_status,
  m_async_context,   \* is the pointer set?
  m_needs_reconnect,
  m_redis_ip,        \* Null while there is none, or while it is being written
  retry_due,         \* m_check_conn_interval has passed since m_last_redis_connect_time
  check,             \* the check thread: its position and local variables
  ctx,               \* external: the context that hiredis holds, or Null
  loop_destroyed,    \* m_loop was destroyed, and ev_run is still running it
  dns,               \* external: what a lookup answers, {} when it fails
  up                 \* external: the addresses where a server answers

vars == <<pc, m_connection_status, m_async_context, m_needs_reconnect, m_redis_ip,
          retry_due, check, ctx, loop_destroyed, dns, up>>

environment == <<dns, up>>
flags == <<m_needs_reconnect, retry_due>>
connection == <<m_connection_status, m_async_context, ctx, loop_destroyed>>

\* The consumer is at the top of its loop, in ev_run, within connectCallback, at
\* reconnectIfNeeded, or the process is gone.
Positions == {"start", "loop", "ev_run", "connected", "reconnect", "dead"}

RedisConnectionState == {"DISCONNECTING", "DISCONNECTED", "CONNECTING", "CONNECTED"}

\* A context of hiredis: the peer, whether commands wait for their replies, and whether the
\* peer is out of reach, which the kernel reports sooner or later.
Context ==
  [ip : Addrs, phase : {"connecting", "connected", "disconnecting"},
   replies_pending : BOOLEAN, broken : BOOLEAN]

\* A null pointer is no context.
ASSUME ContextAssumption == Null \notin Context

\* The types of the connection: the fields of RedisServerConnection and the context of hiredis.
TypeOK ==
  /\ pc \in Positions
  /\ m_connection_status \in RedisConnectionState
  /\ m_async_context \in BOOLEAN /\ m_needs_reconnect \in BOOLEAN
  /\ m_redis_ip \in Addrs \cup {Null}
  /\ retry_due \in BOOLEAN
  /\ check \in [at : {"wait", "flag", "lookup", "compare", "write"},
                answer : SUBSET Addrs, ip_changed : BOOLEAN]
  /\ ctx \in Context \cup {Null}
  /\ loop_destroyed \in BOOLEAN
  /\ dns \in SUBSET Addrs /\ up \in SUBSET Addrs

Idle == [at |-> "wait", answer |-> {}, ip_changed |-> FALSE]

Init ==
  /\ pc = "start"
  /\ m_connection_status = "DISCONNECTED"
  /\ m_async_context = FALSE
  /\ m_needs_reconnect = FALSE
  /\ m_redis_ip = Null
  /\ retry_due = FALSE
  /\ check = Idle
  /\ ctx = Null
  /\ loop_destroyed = FALSE
  /\ dns \in SUBSET Addrs
  /\ up \in SUBSET Addrs

-----------------------------------------------------------------------------
\* External: redisAsyncConnect gives a context for one of the addresses.
NewContext(a) ==
  [ip |-> a, phase |-> "connecting", replies_pending |-> FALSE, broken |-> a \notin up]

\* redisAsyncConnect gives no context, or one with an error that is freed at once.
ConnectFails(then) ==
  /\ dns = {}
  /\ m_connection_status' = "DISCONNECTED"
  /\ m_async_context' = FALSE
  /\ ctx' = Null
  /\ pc' = then
  /\ UNCHANGED loop_destroyed

\* A context: m_loop is replaced. Within ev_run this is the loop that is running.
ConnectStarts(then) ==
  /\ \E a \in dns : ctx' = NewContext(a)
  /\ m_async_context' = TRUE
  /\ loop_destroyed' = (pc = "ev_run")
  /\ \/ /\ m_connection_status' = "CONNECTING"
        /\ pc' = then
     \/ /\ m_connection_status' = "DISCONNECTED"   \* redisLibevAttach fails and connect throws
        /\ pc' = "dead"

\* Mutant: the error of the new context is not looked at.
ConnectUnchecked(then) ==
  /\ ctx' \in {NewContext(a) : a \in IF dns = {} THEN {Null} ELSE dns}
  /\ m_async_context' = TRUE /\ m_connection_status' = "CONNECTING" /\ pc' = then
  /\ UNCHANGED loop_destroyed

\* connect in state DISCONNECTED; the consumer goes on at "then".
ConnectAttempt(then) == ConnectFails(then) \/ ConnectStarts(then)

\* connect: nothing to do in the other states.
connect(then) ==
  \/ m_connection_status = "DISCONNECTED" /\ ConnectAttempt(then)
  \/ /\ m_connection_status # "DISCONNECTED"
     /\ pc' = then
     /\ UNCHANGED connection

\* Mutant: the pointer to the freed context is kept.
PointerKept(ok, then) ==
  \/ ok /\ ConnectAttempt(then)
  \/ /\ ~ok /\ m_connection_status' = "DISCONNECTED" /\ ctx' = Null /\ pc' = then
     /\ UNCHANGED <<m_async_context, loop_destroyed>>

\* disconnectCallback: hiredis frees the context. After a disconnection that was asked for
\* the callback connects again, after an error the consumer will.
disconnectCallback(ok, then) ==
  \/ ok /\ ConnectAttempt(then)
  \/ /\ ~ok
     /\ m_connection_status' = "DISCONNECTED"
     /\ m_async_context' = FALSE
     /\ ctx' = Null
     /\ pc' = then
     /\ UNCHANGED loop_destroyed

-----------------------------------------------------------------------------
\* The consumer thread.
ConsumerStarts ==
  /\ pc = "start"
  /\ retry_due' = FALSE
  /\ connect("loop")
  /\ UNCHANGED <<m_needs_reconnect, m_redis_ip, check, environment>>

\* An iteration whose sendToRedisQos has nothing to flush, or no connection and tried to
\* connect too recently. Aggregates are in SyslogServer.
NoFlush ==
  /\ pc = "loop"
  /\ pc' = "ev_run"
  /\ UNCHANGED <<connection, flags, m_redis_ip, check, environment>>

\* sendToRedisQos while connected: addCommand queues commands on the context.
addCommand ==
  /\ pc = "loop"
  /\ m_connection_status = "CONNECTED"
  /\ ctx' = [ctx EXCEPT !.replies_pending = TRUE]
  /\ pc' = "ev_run"
  /\ UNCHANGED <<m_connection_status, m_async_context, loop_destroyed, flags, m_redis_ip,
                 check, environment>>

\* sendToRedisQos without a connection, an interval after the last attempt made here.
FlushConnects ==
  /\ pc = "loop"
  /\ m_connection_status # "CONNECTED"
  /\ retry_due
  /\ retry_due' = FALSE
  /\ connect("ev_run")
  /\ UNCHANGED <<m_needs_reconnect, m_redis_ip, check, environment>>

\* A change of the address was found, and there is a connection to give up.
Reconnects == m_needs_reconnect /\ m_connection_status = "CONNECTED"

\* Mutant: the context is freed without waiting for its replies.
ReconnectAtOnce ==
  /\ pc = "reconnect"
  /\ IF Reconnects THEN disconnectCallback(TRUE, "loop") ELSE pc' = "loop" /\ UNCHANGED connection
  /\ m_needs_reconnect' = FALSE
  /\ UNCHANGED <<m_redis_ip, retry_due, check, environment>>

\* Mutant: the connection counts as closed while its replies are outstanding.
ReconnectForgetsReplies ==
  /\ pc = "reconnect"
  /\ m_connection_status' = IF Reconnects THEN "DISCONNECTED" ELSE m_connection_status
  /\ m_needs_reconnect' = FALSE
  /\ pc' = "loop"
  /\ UNCHANGED <<m_async_context, ctx, loop_destroyed, m_redis_ip, retry_due, check, environment>>

\* reconnectIfNeeded. redisAsyncDisconnect runs the callback at once when no reply is
\* outstanding; otherwise the event loop will.
reconnectIfNeeded ==
  /\ pc = "reconnect"
  /\ \/ /\ Reconnects
        /\ \/ ~ctx.replies_pending /\ disconnectCallback(TRUE, "loop")
           \/ /\ ctx.replies_pending
              /\ m_connection_status' = "DISCONNECTING"
              /\ ctx' = [ctx EXCEPT !.phase = "disconnecting"]
              /\ pc' = "loop"
              /\ UNCHANGED <<m_async_context, loop_destroyed>>
     \/ ~Reconnects /\ pc' = "loop" /\ UNCHANGED connection
  /\ m_needs_reconnect' = FALSE
  /\ UNCHANGED <<m_redis_ip, retry_due, check, environment>>

-----------------------------------------------------------------------------
\* drainRedisCmdPipeline: ev_run takes any number of the events that are there, and ends.
Event(phases) ==
  /\ pc = "ev_run"
  /\ ~loop_destroyed
  /\ ctx # Null /\ ctx.phase \in phases
  /\ UNCHANGED <<flags, check, environment>>

\* connectCallback writes m_redis_ip, a string that the check thread may be reading, and
\* then the status.
ConnectSucceeds ==
  /\ Event({"connecting"})
  /\ ~ctx.broken
  /\ ctx' = [ctx EXCEPT !.phase = "connected"]
  /\ m_redis_ip' = Null
  /\ pc' = "connected"
  /\ UNCHANGED <<m_connection_status, m_async_context, loop_destroyed>>

connectCallback ==
  /\ pc = "connected"
  /\ m_redis_ip' = ctx.ip
  /\ m_connection_status' = "CONNECTED"
  /\ pc' = "ev_run"
  /\ UNCHANGED <<m_async_context, flags, check, ctx, loop_destroyed, environment>>

\* Mutant: the status is left as it was.
ErrorKeepsStatus ==
  /\ Event({"connecting"}) /\ ctx.broken
  /\ m_async_context' = FALSE /\ ctx' = Null
  /\ UNCHANGED <<pc, m_connection_status, m_redis_ip, loop_destroyed>>

\* connectCallback with an error; hiredis then frees the context.
ConnectError ==
  /\ Event({"connecting"})
  /\ ctx.broken
  /\ m_connection_status' = "DISCONNECTED"
  /\ m_async_context' = FALSE
  /\ ctx' = Null
  /\ UNCHANGED <<pc, m_redis_ip, loop_destroyed>>

\* replyCallback, for all commands outstanding.
replyCallback ==
  /\ Event({"connected", "disconnecting"})
  /\ ctx.replies_pending /\ ~ctx.broken
  /\ ctx' = [ctx EXCEPT !.replies_pending = FALSE]
  /\ UNCHANGED <<pc, m_connection_status, m_async_context, m_redis_ip, loop_destroyed>>

\* With the last reply, hiredis completes a disconnection that waited for it.
Completing == ctx # Null /\ ctx.phase = "disconnecting" /\ ~ctx.replies_pending

DisconnectCompletes ==
  /\ pc = "ev_run"
  /\ Completing
  /\ disconnectCallback(TRUE, "ev_run")
  /\ UNCHANGED <<flags, m_redis_ip, check, environment>>

\* The connection fails: null replies, then disconnectCallback with an error.
ConnectionLost ==
  /\ Event({"connected", "disconnecting"})
  /\ ctx.broken /\ ~Completing
  /\ disconnectCallback(FALSE, "ev_run")
  /\ UNCHANGED m_redis_ip

\* ev_run returns. If its loop was destroyed under it, it may as well crash.
EvRunEnds ==
  /\ pc = "ev_run"
  /\ ~Completing
  /\ pc' \in {"reconnect"} \cup IF loop_destroyed THEN {"dead"} ELSE {}
  /\ loop_destroyed' = FALSE
  /\ UNCHANGED <<m_connection_status, m_async_context, flags, m_redis_ip, check, ctx,
                 environment>>

-----------------------------------------------------------------------------
\* The check thread: checkRedisServerConnThread wakes up once an interval and calls
\* checkIfNeedsReconnect, which reads the status and then the flag.
consumerVars == <<pc, connection, m_redis_ip, retry_due>>

checkRedisServerConnThread ==
  /\ pc # "dead"
  /\ check.at = "wait" /\ m_connection_status = "CONNECTED"
  /\ check' = [check EXCEPT !.at = "flag"]
  /\ UNCHANGED <<consumerVars, m_needs_reconnect, environment>>

CheckFlag ==
  /\ pc # "dead"
  /\ check.at = "flag"
  /\ check' = [check EXCEPT !.at = IF m_needs_reconnect THEN "wait" ELSE "lookup"]
  /\ UNCHANGED <<consumerVars, m_needs_reconnect, environment>>

CheckLookup ==
  /\ pc # "dead"
  /\ check.at = "lookup"
  /\ check' = IF dns = {} THEN Idle ELSE [check EXCEPT !.at = "compare", !.answer = dns]
  /\ UNCHANGED <<consumerVars, m_needs_reconnect, environment>>

\* Whether the addresses hold m_redis_ip; anything if it is being written.
CheckCompare ==
  /\ pc # "dead"
  /\ check.at = "compare"
  /\ \E changed \in IF m_redis_ip = Null THEN BOOLEAN ELSE {m_redis_ip \notin check.answer} :
       check' = [at |-> "write", answer |-> {}, ip_changed |-> changed]
  /\ UNCHANGED <<consumerVars, m_needs_reconnect, environment>>

checkIfNeedsReconnect ==
  /\ pc # "dead"
  /\ check.at = "write"
  /\ m_needs_reconnect' = check.ip_changed
  /\ check' = Idle
  /\ UNCHANGED <<consumerVars, environment>>

-----------------------------------------------------------------------------
\* External: time, name service and servers.
IntervalPasses ==
  /\ pc # "dead"
  /\ ~retry_due
  /\ retry_due' = TRUE
  /\ UNCHANGED <<pc, connection, m_needs_reconnect, m_redis_ip, check, environment>>

DnsChanges ==
  /\ dns' \in SUBSET Addrs
  /\ dns' # dns
  /\ UNCHANGED <<consumerVars, m_needs_reconnect, check, up>>

\* A server that stops breaks its connections; one that starts may answer an attempt that
\* is under way.
ContextsAfter(a) ==
  IF ctx = Null \/ ctx.ip # a THEN {ctx}
  ELSE IF a \in up THEN {[ctx EXCEPT !.broken = TRUE]}
  ELSE {ctx, [ctx EXCEPT !.broken = @ /\ ctx.phase # "connecting"]}

ServerChanges ==
  \E a \in Addrs :
    /\ up' = IF a \in up THEN up \ {a} ELSE up \cup {a}
    /\ ctx' \in ContextsAfter(a)
    /\ UNCHANGED <<pc, m_connection_status, m_async_context, flags, m_redis_ip, check,
                   loop_destroyed, dns>>

Consumer ==
  \/ ConsumerStarts \/ NoFlush \/ addCommand \/ FlushConnects
  \/ connectCallback \/ DisconnectCompletes \/ EvRunEnds \/ reconnectIfNeeded

Events == ConnectSucceeds \/ ConnectError \/ replyCallback \/ ConnectionLost

CheckThread ==
  \/ checkRedisServerConnThread \/ CheckFlag \/ CheckLookup \/ CheckCompare
  \/ checkIfNeedsReconnect

Next ==
  \/ Consumer
  \/ Events
  \/ CheckThread
  \/ IntervalPasses
  \/ DnsChanges
  \/ ServerChanges

\* Both threads go on, time passes, a flush becomes due, and ev_run, which is called over and
\* over, gets what the kernel has for the connection.
Fairness ==
  /\ WF_vars(Consumer)
  /\ SF_vars(FlushConnects)
  /\ SF_vars(Events)
  /\ WF_vars(IntervalPasses)
  /\ WF_vars(CheckFlag \/ CheckLookup \/ CheckCompare \/ checkIfNeedsReconnect)
  /\ SF_vars(checkRedisServerConnThread)

Spec == Init /\ [][Next]_vars /\ Fairness

-----------------------------------------------------------------------------
\* The status and the pointer, which callbacks and the consumer update, agree with the
\* context that hiredis really holds: connect never starts from a context that is still
\* there (its assertion), commands are only queued on an established one, and none is
\* leaked or used after hiredis has freed it.
StatusMatchesContext ==
  pc \notin {"dead", "connected"} =>
    /\ m_async_context = (ctx # Null)
    /\ m_connection_status = "DISCONNECTED" <=> ctx = Null
    /\ ctx # Null => m_connection_status = CASE ctx.phase = "connecting" -> "CONNECTING"
                                             [] ctx.phase = "connected" -> "CONNECTED"
                                             [] ctx.phase = "disconnecting" -> "DISCONNECTING"

\* A reconnection that follows a change of the address loses no usage: a context is only
\* given up when all its commands were answered, or its server was out of reach.
ReconnectLosesNothing ==
  [][ctx # Null /\ (ctx' = Null \/ ctx'.ip # ctx.ip \/ ctx'.phase = "connecting")
        => ctx.broken \/ ~ctx.replies_pending]_vars

\* The consumer, which iterates every 100 microseconds, acts on a request to reconnect before
\* the next check, m_check_conn_interval later.
ActsBeforeNextCheck == m_needs_reconnect => check.at = "wait"

\* Failover: once the server's name means one address for good and a server is there, the
\* worker ends up connected to it, wherever it was connected before and whatever stale answer
\* the check thread still holds, unless the process died.
FailoverCompletes ==
  \A a \in Addrs :
    <>[](dns = {a} /\ a \in up /\ ActsBeforeNextCheck)
      => <>[](pc = "dead" \/ (m_connection_status = "CONNECTED" /\ ctx.ip = a))

\* What SyslogServer takes for granted: commands are only queued on an established
\* connection, nothing is sent on one that is being closed, and a new connection starts
\* with nothing in flight.
Link == INSTANCE RedisLink WITH
  link <- CASE m_connection_status = "CONNECTED" -> "up"
            [] m_connection_status = "DISCONNECTING" -> "closing"
            [] OTHER -> "down",
  inflight <- ctx # Null /\ ctx.replies_pending

ImplementsLink == Link!Spec
=============================================================================
