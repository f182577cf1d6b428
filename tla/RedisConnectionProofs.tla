------------------------ MODULE RedisConnectionProofs ------------------------
(***************************************************************************)
(* Proofs about RedisConnection for every set of addresses: its types, that  *)
(* the status and the pointer agree with the context hiredis holds, that a   *)
(* reconnection gives up no context with answers outstanding, and that the   *)
(* connection implements RedisLink, on which SyslogServer is built.          *)
(***************************************************************************)
EXTENDS RedisConnection, TLAPS

\* Commands are only queued once the connection is established.
ConnectingIsIdle == ctx # Null /\ ctx.phase = "connecting" => ~ctx.replies_pending

\* Between the two writes of connectCallback the context is established and fresh, while the
\* status still says that it is not.
CallbackUnderWay ==
  pc = "connected" =>
    /\ m_async_context
    /\ m_connection_status = "CONNECTING"
    /\ ctx # Null /\ ctx.phase = "connected" /\ ~ctx.replies_pending

\* The inductive invariant.
IndInv ==
  /\ TypeOK
  /\ ConnectingIsIdle
  /\ CallbackUnderWay
  /\ StatusMatchesContext

-----------------------------------------------------------------------------
\* What an attempt to connect leaves behind: no context, or a fresh one that the status and
\* the pointer agree with, unless redisLibevAttach failed and the process is gone.
LEMMA AttemptResult ==
  ASSUME TypeOK, NEW then \in {"loop", "ev_run"}, ConnectAttempt(then)
  PROVE  /\ pc' \in {then, "dead"}
         /\ m_connection_status' \in RedisConnectionState
         /\ m_connection_status' \in {"CONNECTING", "DISCONNECTED"}
         /\ m_async_context' \in BOOLEAN
         /\ ctx' \in Context \cup {Null}
         /\ loop_destroyed' \in BOOLEAN
         /\ ctx' # Null => ctx'.phase = "connecting" /\ ~ctx'.replies_pending
         /\ pc' # "dead" => /\ m_async_context' = (ctx' # Null)
                            /\ m_connection_status' = IF ctx' = Null THEN "DISCONNECTED"
                                                                   ELSE "CONNECTING"
<1>1. CASE ConnectFails(then)
  BY <1>1 DEF ConnectFails, TypeOK, RedisConnectionState
<1>2. CASE ConnectStarts(then)
  <2>1. PICK a \in dns : ctx' = NewContext(a)
    BY <1>2 DEF ConnectStarts
  <2>2. ctx' \in Context /\ ctx'.phase = "connecting" /\ ctx'.replies_pending = FALSE
    BY <2>1 DEF NewContext, Context, TypeOK
  <2>3. ctx' # Null
    BY <2>2, ContextAssumption
  <2>4. QED
    BY <1>2, <2>2, <2>3 DEF ConnectStarts, RedisConnectionState
<1>3. QED
  BY <1>1, <1>2 DEF ConnectAttempt

\* A server that stops or starts only changes whether the context is broken.
LEMMA ServerChangeResult ==
  ASSUME TypeOK, ctx # Null, NEW a \in Addrs, NEW c \in ContextsAfter(a)
  PROVE  /\ c \in Context /\ c # Null /\ c.ip = ctx.ip /\ c.phase = ctx.phase
         /\ c.replies_pending = ctx.replies_pending
<1>1. ctx \in Context
  BY DEF TypeOK
<1>2. PICK b \in BOOLEAN : c = ctx \/ c = [ctx EXCEPT !.broken = b]
  <2>1. (ctx.broken /\ ctx.phase # "connecting") \in BOOLEAN
    OBVIOUS
  <2>2. c \in {ctx, [ctx EXCEPT !.broken = TRUE],
              [ctx EXCEPT !.broken = (ctx.broken /\ ctx.phase # "connecting")]}
    BY Zenon DEF ContextsAfter
  <2>3. QED
    BY <2>1, <2>2, Zenon
<1>3. QED
  BY <1>1, <1>2, ContextAssumption DEF Context

\* Every step of either thread, of hiredis and of the environment keeps the types.
LEMMA TypeStep == TypeOK /\ StatusMatchesContext /\ CallbackUnderWay /\ [Next]_vars => TypeOK'
<1> SUFFICES ASSUME TypeOK, StatusMatchesContext, CallbackUnderWay, [Next]_vars
             PROVE  TypeOK'
  OBVIOUS
<1>1. ASSUME NEW then \in {"loop", "ev_run"}, ConnectAttempt(then),
             UNCHANGED <<m_redis_ip, check, environment>>,
             m_needs_reconnect' \in BOOLEAN, retry_due' \in BOOLEAN
      PROVE  TypeOK'
  BY <1>1, AttemptResult DEF TypeOK, Positions, environment
<1>2. CASE ConsumerStarts
  BY <1>1, <1>2 DEF ConsumerStarts, connect, connection, TypeOK, Positions, environment
<1>3. CASE NoFlush
  BY <1>3 DEF NoFlush, TypeOK, Positions, connection, flags, environment
<1>4. CASE addCommand
  <2>1. ctx \in Context
    BY <1>4 DEF addCommand, TypeOK, StatusMatchesContext
  <2>2. ctx' \in Context
    BY <1>4, <2>1 DEF addCommand, Context
  <2>3. QED
    BY <1>4, <2>2 DEF addCommand, TypeOK, Positions, flags, environment
<1>5. CASE FlushConnects
  BY <1>1, <1>5 DEF FlushConnects, connect, connection, TypeOK, Positions, environment
<1>6. CASE connectCallback
  <2>1. ctx.ip \in Addrs
    BY <1>6 DEF connectCallback, CallbackUnderWay, TypeOK, Context
  <2>2. QED
    BY <1>6, <2>1
    DEF connectCallback, TypeOK, Positions, flags, environment, RedisConnectionState
<1>7. CASE DisconnectCompletes
  BY <1>1, <1>7 DEF DisconnectCompletes, disconnectCallback, flags, TypeOK
<1>8. CASE EvRunEnds
  BY <1>8 DEF EvRunEnds, TypeOK, Positions, flags, environment
<1>9. CASE reconnectIfNeeded
  <2>1. CASE Reconnects /\ ctx.replies_pending
    <3>1. ctx \in Context
      BY <1>9, <2>1 DEF reconnectIfNeeded, Reconnects, TypeOK, StatusMatchesContext
    <3>2. m_connection_status' = "DISCONNECTING" /\ ctx' = [ctx EXCEPT !.phase = "disconnecting"]
          /\ pc' = "loop" /\ UNCHANGED <<m_async_context, loop_destroyed>>
      BY <1>9, <2>1 DEF reconnectIfNeeded
    <3>3. ctx' \in Context
      BY <3>1, <3>2 DEF Context
    <3>4. QED
      BY <1>9, <3>2, <3>3
      DEF reconnectIfNeeded, TypeOK, Positions, environment, RedisConnectionState
  <2>2. CASE Reconnects /\ ~ctx.replies_pending
    <3>1. ConnectAttempt("loop")
      BY <1>9, <2>2 DEF reconnectIfNeeded, disconnectCallback
    <3>2. QED
      BY <1>1, <1>9, <3>1 DEF reconnectIfNeeded, TypeOK
  <2>3. CASE ~Reconnects
    BY <1>9, <2>3 DEF reconnectIfNeeded, connection, TypeOK, Positions, environment
  <2>4. QED
    BY <2>1, <2>2, <2>3
<1>10. CASE ConnectSucceeds
  <2>1. ctx \in Context
    BY <1>10 DEF ConnectSucceeds, Event, TypeOK
  <2>2. ctx' \in Context
    BY <1>10, <2>1 DEF ConnectSucceeds, Context
  <2>3. QED
    BY <1>10, <2>2 DEF ConnectSucceeds, Event, TypeOK, Positions, flags, environment
<1>11. CASE ConnectError
  BY <1>11 DEF ConnectError, Event, TypeOK, flags, environment, RedisConnectionState
<1>12. CASE replyCallback
  <2>1. ctx \in Context
    BY <1>12 DEF replyCallback, Event, TypeOK
  <2>2. ctx' \in Context
    BY <1>12, <2>1 DEF replyCallback, Context
  <2>3. QED
    BY <1>12, <2>2 DEF replyCallback, Event, TypeOK, flags, environment
<1>13. CASE ConnectionLost
  BY <1>13 DEF ConnectionLost, disconnectCallback, Event, TypeOK, Positions, flags,
               environment, RedisConnectionState
<1>14. CASE CheckThread
  <2> USE DEF TypeOK, consumerVars, connection, environment, Idle
  <2>1. CASE checkRedisServerConnThread
    BY <2>1 DEF checkRedisServerConnThread
  <2>2. CASE CheckFlag
    BY <2>2 DEF CheckFlag
  <2>3. CASE CheckLookup
    BY <2>3 DEF CheckLookup
  <2>4. CASE CheckCompare
    <3>1. PICK changed \in IF m_redis_ip = Null THEN BOOLEAN
                           ELSE {m_redis_ip \notin check.answer} :
            check' = [at |-> "write", answer |-> {}, ip_changed |-> changed]
      BY <2>4 DEF CheckCompare
    <3>2. changed \in BOOLEAN
      BY <3>1, Zenon
    <3>3. UNCHANGED <<consumerVars, m_needs_reconnect, environment>>
      BY <2>4 DEF CheckCompare
    <3>4. QED
      BY <3>1, <3>2, <3>3
  <2>5. CASE checkIfNeedsReconnect
    BY <2>5 DEF checkIfNeedsReconnect
  <2>6. QED
    BY <1>14, <2>1, <2>2, <2>3, <2>4, <2>5 DEF CheckThread
<1>15. CASE IntervalPasses
  BY <1>15 DEF IntervalPasses, TypeOK, connection, environment
<1>16. CASE DnsChanges
  BY <1>16 DEF DnsChanges, TypeOK, consumerVars, connection
<1>17. CASE ServerChanges
  <2>1. PICK a \in Addrs :
          /\ up' = IF a \in up THEN up \ {a} ELSE up \cup {a}
          /\ ctx' \in ContextsAfter(a)
          /\ UNCHANGED <<pc, m_connection_status, m_async_context, flags, m_redis_ip, check,
                         loop_destroyed, dns>>
    BY <1>17 DEF ServerChanges
  <2>2. ctx' \in Context \cup {Null}
    BY <2>1, ServerChangeResult DEF ContextsAfter, TypeOK
  <2>3. QED
    BY <2>1, <2>2 DEF TypeOK, flags
<1>18. CASE UNCHANGED vars
  BY <1>18 DEF vars, TypeOK
<1>19. QED
  BY <1>2, <1>3, <1>4, <1>5, <1>6, <1>7, <1>8, <1>9, <1>10, <1>11, <1>12, <1>13, <1>14,
     <1>15, <1>16, <1>17, <1>18
  DEF Next, Consumer, Events

\* The other conjuncts only depend on the consumer's variables, which the check thread and
\* the environment leave alone.
LEMMA ContextUnchanged ==
  ASSUME IndInv, UNCHANGED <<pc, m_connection_status, m_async_context, ctx>>
  PROVE  ConnectingIsIdle' /\ CallbackUnderWay' /\ StatusMatchesContext'
BY DEF IndInv, ConnectingIsIdle, CallbackUnderWay, StatusMatchesContext

\* The callbacks and the consumer leave status, pointer and context in agreement.
LEMMA ContextStep ==
  IndInv /\ [Next]_vars => ConnectingIsIdle' /\ CallbackUnderWay' /\ StatusMatchesContext'
<1> DEFINE Goal == ConnectingIsIdle /\ CallbackUnderWay /\ StatusMatchesContext
<1> SUFFICES ASSUME IndInv, [Next]_vars PROVE Goal'
  BY DEF Goal
<1> USE DEF ConnectingIsIdle, CallbackUnderWay, StatusMatchesContext
<1>1. ASSUME NEW then \in {"loop", "ev_run"}, ConnectAttempt(then)
      PROVE  Goal'
  BY <1>1, AttemptResult DEF IndInv
<1>2. CASE ConsumerStarts
  <2>1. CASE m_connection_status = "DISCONNECTED"
    BY <1>1, <1>2, <2>1 DEF ConsumerStarts, connect
  <2>2. CASE m_connection_status # "DISCONNECTED"
    BY <1>2, <2>2 DEF ConsumerStarts, connect, connection, IndInv
  <2>3. QED
    BY <2>1, <2>2
<1>3. CASE NoFlush
  BY <1>3 DEF NoFlush, connection, IndInv
<1>4. CASE addCommand
  <2>1. ctx \in Context /\ ctx # Null /\ ctx.phase = "connected" /\ m_async_context = TRUE
    BY <1>4 DEF addCommand, TypeOK, IndInv, Context
  <2>2. ctx' \in Context /\ ctx'.phase = "connected"
    BY <1>4, <2>1 DEF addCommand, Context
  <2>3. QED
    BY <1>4, <2>1, <2>2, ContextAssumption DEF addCommand
<1>5. CASE FlushConnects
  <2>1. CASE m_connection_status = "DISCONNECTED"
    BY <1>1, <1>5, <2>1 DEF FlushConnects, connect
  <2>2. CASE m_connection_status # "DISCONNECTED"
    BY <1>5, <2>2 DEF FlushConnects, connect, connection, IndInv
  <2>3. QED
    BY <2>1, <2>2
<1>6. CASE connectCallback
  BY <1>6 DEF connectCallback, IndInv, TypeOK
<1>7. CASE DisconnectCompletes
  BY <1>1, <1>7 DEF DisconnectCompletes, disconnectCallback
<1>8. CASE EvRunEnds
  BY <1>8 DEF EvRunEnds, IndInv
<1>9. CASE reconnectIfNeeded
  <2>1. CASE Reconnects /\ ctx.replies_pending
    <3>1. ctx \in Context /\ m_async_context = TRUE
      BY <1>9, <2>1 DEF reconnectIfNeeded, Reconnects, TypeOK, IndInv
    <3>2. m_connection_status' = "DISCONNECTING" /\ ctx' = [ctx EXCEPT !.phase = "disconnecting"]
          /\ pc' = "loop" /\ UNCHANGED m_async_context
      BY <1>9, <2>1 DEF reconnectIfNeeded
    <3>3. ctx' \in Context /\ ctx'.phase = "disconnecting"
      BY <3>1, <3>2 DEF Context
    <3>4. QED
      BY <3>1, <3>2, <3>3, ContextAssumption
  <2>2. CASE Reconnects /\ ~ctx.replies_pending
    BY <1>1, <1>9, <2>2 DEF reconnectIfNeeded, disconnectCallback
  <2>3. CASE ~Reconnects
    BY <1>9, <2>3 DEF reconnectIfNeeded, connection, IndInv
  <2>4. QED
    BY <2>1, <2>2, <2>3
<1>10. CASE ConnectSucceeds
  <2>1. ctx \in Context /\ ctx.phase = "connecting" /\ pc = "ev_run"
        /\ m_connection_status = "CONNECTING" /\ m_async_context = TRUE
        /\ ~ctx.replies_pending
    BY <1>10 DEF ConnectSucceeds, Event, TypeOK, IndInv
  <2>2. ctx' \in Context /\ ctx'.phase = "connected" /\ ~ctx'.replies_pending
    BY <1>10, <2>1 DEF ConnectSucceeds, Context
  <2>3. QED
    BY <1>10, <2>1, <2>2, ContextAssumption DEF ConnectSucceeds
<1>11. CASE ConnectError
  BY <1>11 DEF ConnectError, Event
<1>12. CASE replyCallback
  <2>1. ctx \in Context /\ ctx # Null /\ pc = "ev_run"
    BY <1>12 DEF replyCallback, Event, TypeOK, IndInv
  <2>2. ctx' \in Context /\ ctx'.phase = ctx.phase /\ ~ctx'.replies_pending
    BY <1>12, <2>1 DEF replyCallback, Context
  <2>3. UNCHANGED <<pc, m_connection_status, m_async_context>>
    BY <1>12 DEF replyCallback
  <2>4. QED
    BY <2>1, <2>2, <2>3, ContextAssumption DEF IndInv
<1>13. CASE ConnectionLost
  BY <1>13 DEF ConnectionLost, disconnectCallback
<1>14. CASE ServerChanges
  <2>1. PICK a \in Addrs :
          /\ ctx' \in ContextsAfter(a)
          /\ UNCHANGED <<pc, m_connection_status, m_async_context>>
    BY <1>14 DEF ServerChanges
  <2>2. ctx = Null => ctx' = Null
    BY <2>1 DEF ContextsAfter
  <2>3. ctx # Null => /\ ctx' \in Context /\ ctx' # Null /\ ctx'.phase = ctx.phase
                      /\ ctx'.replies_pending = ctx.replies_pending
    BY <2>1, ServerChangeResult DEF IndInv
  <2>4. QED
    BY <2>1, <2>2, <2>3 DEF IndInv
<1>15. CASE CheckThread \/ IntervalPasses \/ DnsChanges \/ UNCHANGED vars
  <2>1. UNCHANGED <<pc, m_connection_status, m_async_context, ctx>>
    BY <1>15
    DEF CheckThread, checkRedisServerConnThread, CheckFlag, CheckLookup, CheckCompare,
        checkIfNeedsReconnect, IntervalPasses, DnsChanges, consumerVars, connection, vars
  <2>2. QED
    BY <2>1, ContextUnchanged
<1>16. QED
  BY <1>2, <1>3, <1>4, <1>5, <1>6, <1>7, <1>8, <1>9, <1>10, <1>11, <1>12, <1>13, <1>14,
     <1>15
  DEF Next, Consumer, Events

\* IndInv is an inductive invariant of the connection.
LEMMA Invariance == Spec => []IndInv
<1>1. Init => IndInv
  <2>1. Init => TypeOK
    <3>1. Idle \in [at : {"wait", "flag", "lookup", "compare", "write"},
                   answer : SUBSET Addrs, ip_changed : BOOLEAN]
      BY DEF Idle
    <3>2. QED
      BY <3>1 DEF Init, TypeOK, Positions, RedisConnectionState
  <2>2. Init => ConnectingIsIdle /\ CallbackUnderWay /\ StatusMatchesContext
    BY DEF Init, ConnectingIsIdle, CallbackUnderWay, StatusMatchesContext
  <2>3. QED
    BY <2>1, <2>2 DEF IndInv
<1>2. IndInv /\ [Next]_vars => IndInv'
  BY TypeStep, ContextStep DEF IndInv
<1>3. QED
  BY <1>1, <1>2, PTL DEF Spec

\* For every set of addresses, the fields that the consumer and the check thread share, and
\* the context that hiredis holds, keep their types.
THEOREM TypeCorrect == Spec => []TypeOK
<1>1. IndInv => TypeOK
  BY DEF IndInv
<1>2. QED
  BY <1>1, Invariance, PTL

\* For every set of addresses, the status and the pointer of RedisServerConnection agree with
\* the context of hiredis whenever the consumer may look: no context is leaked, none is used
\* after it was freed, and the assertion of connect holds.
THEOREM ContextOwnership == Spec => []StatusMatchesContext
<1>1. IndInv => StatusMatchesContext
  BY DEF IndInv
<1>2. QED
  BY <1>1, Invariance, PTL

-----------------------------------------------------------------------------
\* connect changes nothing that hiredis holds, or starts from no context at all.
LEMMA ConnectWithoutContext ==
  ASSUME IndInv, NEW then \in {"loop", "ev_run"}, pc \in {"start", "loop"}, connect(then)
  PROVE  \/ UNCHANGED <<m_connection_status, ctx>>
         \/ m_connection_status = "DISCONNECTED" /\ ctx = Null /\ ConnectAttempt(then)
BY DEF connect, connection, IndInv, StatusMatchesContext

\* For every set of addresses, no step of the program, of hiredis or of the environment gives
\* up a context whose commands are unanswered while its server can be reached.
THEOREM NothingLost == Spec => ReconnectLosesNothing
<1> DEFINE Given == ctx # Null /\ (ctx' = Null \/ ctx'.ip # ctx.ip \/ ctx'.phase = "connecting")
           Kept == Given => ctx.broken \/ ~ctx.replies_pending
<1>1. ASSUME IndInv, Next PROVE Kept
  <2>1. ASSUME ctx' = ctx PROVE Kept
    BY <1>1, <2>1 DEF IndInv, ConnectingIsIdle
  <2>2. CASE ConsumerStarts \/ FlushConnects
    BY <1>1, <2>1, <2>2, ConnectWithoutContext DEF ConsumerStarts, FlushConnects
  <2>3. CASE addCommand
    <3>1. ctx \in Context /\ ctx.phase = "connected"
      BY <1>1, <2>3 DEF addCommand, IndInv, TypeOK, StatusMatchesContext, Context
    <3>2. ctx' \in Context /\ ctx'.ip = ctx.ip /\ ctx'.phase = "connected"
      BY <2>3, <3>1 DEF addCommand, Context
    <3>3. QED
      BY <3>2, ContextAssumption
  <2>4. CASE DisconnectCompletes
    BY <2>4 DEF DisconnectCompletes, Completing
  <2>5. CASE reconnectIfNeeded
    <3>1. CASE Reconnects /\ ctx.replies_pending
      <4>1. ctx \in Context /\ ctx' = [ctx EXCEPT !.phase = "disconnecting"]
        BY <1>1, <2>5, <3>1
        DEF reconnectIfNeeded, Reconnects, IndInv, TypeOK, StatusMatchesContext
      <4>2. ctx' \in Context /\ ctx'.ip = ctx.ip /\ ctx'.phase = "disconnecting"
        BY <4>1 DEF Context
      <4>3. QED
        BY <4>2, ContextAssumption
    <3>2. CASE ~ctx.replies_pending
      BY <3>2
    <3>3. CASE ~Reconnects
      BY <2>1, <2>5, <3>3 DEF reconnectIfNeeded, connection
    <3>4. QED
      BY <3>1, <3>2, <3>3
  <2>6. CASE ConnectSucceeds \/ ConnectError
    BY <1>1, <2>6 DEF ConnectSucceeds, ConnectError, Event, IndInv, ConnectingIsIdle
  <2>7. CASE replyCallback
    <3>1. ctx \in Context /\ ctx.phase # "connecting"
      BY <1>1, <2>7 DEF replyCallback, Event, IndInv, TypeOK
    <3>2. ctx' \in Context /\ ctx'.ip = ctx.ip /\ ctx'.phase = ctx.phase
      BY <2>7, <3>1 DEF replyCallback, Context
    <3>3. QED
      BY <3>1, <3>2, ContextAssumption
  <2>8. CASE ConnectionLost
    BY <2>8 DEF ConnectionLost
  <2>9. CASE ServerChanges
    BY <1>1, <2>9, ServerChangeResult DEF ServerChanges, IndInv, ConnectingIsIdle
  <2>10. CASE NoFlush \/ connectCallback \/ EvRunEnds \/ CheckThread \/ IntervalPasses
              \/ DnsChanges
    <3>1. ctx' = ctx
      BY <2>10
      DEF NoFlush, connectCallback, EvRunEnds, CheckThread, checkRedisServerConnThread,
          CheckFlag, CheckLookup, CheckCompare, checkIfNeedsReconnect, IntervalPasses,
          DnsChanges, consumerVars, connection
    <3>2. QED
      BY <2>1, <3>1
  <2>11. QED
    BY <1>1, <2>2, <2>3, <2>4, <2>5, <2>6, <2>7, <2>8, <2>9, <2>10
    DEF Next, Consumer, Events
<1>2. QED
  BY <1>1, Invariance, PTL DEF Spec, ReconnectLosesNothing

-----------------------------------------------------------------------------
\* The refinement mapping, under the names of RedisLink's variables.
link == CASE m_connection_status = "CONNECTED" -> "up"
          [] m_connection_status = "DISCONNECTING" -> "closing"
          [] OTHER -> "down"

inflight == ctx # Null /\ ctx.replies_pending

\* RedisLink's specification, read through the mapping.
LEMMA LinkMapping ==
  /\ Link!Init <=> link = "down" /\ inflight = FALSE
  /\ Link!Connects <=> link = "down" /\ link' = "up" /\ inflight' = inflight
  /\ Link!Sends <=> link = "up" /\ inflight' = TRUE /\ link' = link
  /\ Link!Answers <=> inflight /\ inflight' = FALSE /\ link' = link
  /\ Link!Closes <=> link = "up" /\ link' = (IF inflight THEN "closing" ELSE "down")
                    /\ inflight' = inflight
  /\ Link!Closed <=> link = "closing" /\ ~inflight /\ link' = "down" /\ inflight' = inflight
  /\ Link!Fails <=> link # "down" /\ link' = "down" /\ inflight' = FALSE
  /\ UNCHANGED Link!linkVars <=> link' = link /\ inflight' = inflight
BY DEF Link!Init, Link!Connects, Link!Sends, Link!Answers, Link!Closes, Link!Closed,
       Link!Fails, Link!linkVars, link, inflight

\* Each step of the connection is a step of the link or a stutter.
LEMMA LinkStep == IndInv /\ [Next]_vars => [Link!Next]_Link!linkVars
<1> SUFFICES ASSUME IndInv, [Next]_vars PROVE [Link!Next]_Link!linkVars
  OBVIOUS
<1> DEFINE Stutter == link' = link /\ inflight' = inflight
<1>0. ASSUME Stutter \/ Link!Connects \/ Link!Sends \/ Link!Answers \/ Link!Closes
             \/ Link!Closed \/ Link!Fails
      PROVE  [Link!Next]_Link!linkVars
  BY <1>0, LinkMapping DEF Link!Next
<1> HIDE DEF Stutter
<1>1. ASSUME NEW then \in {"loop", "ev_run"}, ConnectAttempt(then)
      PROVE  link' = "down" /\ inflight' = FALSE
  BY <1>1, AttemptResult DEF IndInv, link, inflight
<1>2. ASSUME UNCHANGED <<m_connection_status, ctx>> PROVE Stutter
  BY <1>2 DEF Stutter, link, inflight
<1>3. CASE ConsumerStarts \/ FlushConnects
  <2>1. PICK then \in {"loop", "ev_run"} : pc \in {"start", "loop"} /\ connect(then)
    BY <1>3 DEF ConsumerStarts, FlushConnects
  <2>2. ASSUME m_connection_status = "DISCONNECTED", ctx = Null, ConnectAttempt(then)
        PROVE  Stutter
    BY <1>1, <2>2 DEF Stutter, link, inflight
  <2>3. QED
    BY <1>0, <1>2, <2>1, <2>2, ConnectWithoutContext
<1>4. CASE addCommand
  <2>1. ctx \in Context /\ link = "up" /\ link' = link
    BY <1>4 DEF addCommand, IndInv, TypeOK, StatusMatchesContext, link
  <2>2. ctx' \in Context /\ ctx'.replies_pending = TRUE
    BY <1>4, <2>1 DEF addCommand, Context
  <2>3. inflight' = TRUE
    BY <2>2, ContextAssumption DEF inflight
  <2>4. QED
    BY <1>0, <2>1, <2>3, LinkMapping
<1>5. CASE connectCallback
  <2>1. link = "down" /\ link' = "up" /\ inflight' = inflight
    BY <1>5 DEF connectCallback, IndInv, CallbackUnderWay, link, inflight
  <2>2. QED
    BY <1>0, <2>1, LinkMapping
<1>6. CASE DisconnectCompletes
  <2>1. link = "closing" /\ inflight = FALSE
    BY <1>6 DEF DisconnectCompletes, Completing, IndInv, StatusMatchesContext, link, inflight
  <2>2. link' = "down" /\ inflight' = FALSE
    BY <1>1, <1>6 DEF DisconnectCompletes, disconnectCallback
  <2>3. QED
    BY <1>0, <2>1, <2>2, LinkMapping
<1>7. CASE reconnectIfNeeded
  <2>1. CASE Reconnects /\ ctx.replies_pending
    <3>1. ctx \in Context /\ link = "up" /\ inflight = TRUE
      BY <1>7, <2>1, ContextAssumption
      DEF reconnectIfNeeded, Reconnects, IndInv, TypeOK, StatusMatchesContext, link, inflight
    <3>2. m_connection_status' = "DISCONNECTING" /\ ctx' = [ctx EXCEPT !.phase = "disconnecting"]
      BY <1>7, <2>1 DEF reconnectIfNeeded
    <3>3. ctx' \in Context /\ ctx'.replies_pending = ctx.replies_pending
      BY <3>1, <3>2 DEF Context
    <3>4. link' = "closing" /\ inflight' = TRUE
      BY <2>1, <3>2, <3>3, ContextAssumption DEF link, inflight
    <3>5. QED
      BY <1>0, <3>1, <3>4, LinkMapping
  <2>2. CASE Reconnects /\ ~ctx.replies_pending
    <3>1. link = "up" /\ inflight = FALSE
      BY <2>2 DEF Reconnects, link, inflight
    <3>2. link' = "down" /\ inflight' = FALSE
      BY <1>1, <1>7, <2>2 DEF reconnectIfNeeded, disconnectCallback
    <3>3. QED
      BY <1>0, <3>1, <3>2, LinkMapping
  <2>3. CASE ~Reconnects
    BY <1>0, <1>2, <1>7, <2>3 DEF reconnectIfNeeded, connection
  <2>4. QED
    BY <2>1, <2>2, <2>3
<1>8. CASE ConnectSucceeds
  <2>1. ctx \in Context /\ inflight = FALSE /\ ctx.replies_pending = FALSE
    BY <1>8 DEF ConnectSucceeds, Event, IndInv, TypeOK, ConnectingIsIdle, inflight, Context
  <2>2. ctx' \in Context /\ ctx'.replies_pending = FALSE
    BY <1>8, <2>1 DEF ConnectSucceeds, Context
  <2>3. Stutter
    BY <1>8, <2>1, <2>2 DEF ConnectSucceeds, Stutter, link, inflight
  <2>4. QED
    BY <1>0, <2>3
<1>9. CASE ConnectError
  <2>1. m_connection_status = "CONNECTING" /\ inflight = FALSE
    BY <1>9 DEF ConnectError, Event, IndInv, StatusMatchesContext, ConnectingIsIdle, inflight
  <2>2. m_connection_status' = "DISCONNECTED" /\ inflight' = FALSE
    BY <1>9 DEF ConnectError, inflight
  <2>3. Stutter
    BY <2>1, <2>2 DEF Stutter, link
  <2>4. QED
    BY <1>0, <2>3
<1>10. CASE replyCallback
  <2>1. ctx \in Context /\ inflight = TRUE /\ link' = link
    BY <1>10 DEF replyCallback, Event, IndInv, TypeOK, inflight, link
  <2>2. ctx' \in Context /\ ctx'.replies_pending = FALSE
    BY <1>10, <2>1 DEF replyCallback, Context
  <2>3. inflight' = FALSE
    BY <2>2 DEF inflight
  <2>4. QED
    BY <1>0, <2>1, <2>3, LinkMapping
<1>11. CASE ConnectionLost
  <2>1. link # "down"
    BY <1>11 DEF ConnectionLost, Event, IndInv, StatusMatchesContext, link
  <2>2. link' = "down" /\ inflight' = FALSE
    BY <1>11 DEF ConnectionLost, disconnectCallback, link, inflight
  <2>3. QED
    BY <1>0, <2>1, <2>2, LinkMapping
<1>12. CASE ServerChanges
  <2>1. PICK a \in Addrs : ctx' \in ContextsAfter(a) /\ UNCHANGED m_connection_status
    BY <1>12 DEF ServerChanges
  <2>2. CASE ctx = Null
    BY <1>0, <1>2, <2>1, <2>2 DEF ContextsAfter
  <2>3. CASE ctx # Null
    <3>1. ctx' # Null /\ ctx'.replies_pending = ctx.replies_pending
      BY <2>1, <2>3, ServerChangeResult DEF IndInv
    <3>2. Stutter
      BY <2>1, <2>3, <3>1 DEF Stutter, link, inflight
    <3>3. QED
      BY <1>0, <3>2
  <2>4. QED
    BY <2>2, <2>3
<1>13. CASE NoFlush \/ EvRunEnds \/ CheckThread \/ IntervalPasses \/ DnsChanges
            \/ UNCHANGED vars
  <2>1. UNCHANGED <<m_connection_status, ctx>>
    BY <1>13
    DEF NoFlush, EvRunEnds, CheckThread, checkRedisServerConnThread, CheckFlag, CheckLookup,
        CheckCompare, checkIfNeedsReconnect, IntervalPasses, DnsChanges, consumerVars,
        connection, vars
  <2>2. QED
    BY <1>0, <1>2, <2>1
<1>14. QED
  BY <1>3, <1>4, <1>5, <1>6, <1>7, <1>8, <1>9, <1>10, <1>11, <1>12, <1>13
  DEF Next, Consumer, Events

\* For every set of addresses, RedisConnection implements RedisLink: what SyslogServer relies
\* on (commands only on an established link, answers before a link that was asked to close
\* is closed, nothing in flight on a new one) is what the callbacks of redis_utils.cpp do.
THEOREM LinkImplemented == Spec => ImplementsLink
<1>1. Init => Link!Init
  BY LinkMapping DEF Init, link, inflight
<1>2. IndInv /\ [Next]_vars => [Link!Next]_Link!linkVars
  BY LinkStep
<1>3. QED
  BY <1>1, <1>2, Invariance, PTL DEF Spec, ImplementsLink, Link!Spec
=============================================================================
