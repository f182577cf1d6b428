------------------------ MODULE ActiveRequestsProofs ------------------------
(***************************************************************************)
(* Proofs about ActiveRequests: what the filter logs, in whichever order,    *)
(* after whichever configuration and crashes, is a datagram that names a      *)
(* user and a direction and carries a count that is not negative, and so is   *)
(* what ends up in Redis. The filter's invariant is that of WeirFilterProofs, *)
(* which a restart of the process establishes anew.                         *)
(***************************************************************************)
EXTENDS ActiveRequests, WeirFilterProofs, SequenceTheorems

\* A stream whose headers were processed, and one about to log, has a direction; a stream
\* with a pointer has one or its fetch returned nothing.
DirectionKnown ==
  \A s \in Streams :
    /\ limit[s] # Null => st[s].bandwidth_limit_direction \in Directions \cup {Null}
    /\ st[s].headers_processed => st[s].bandwidth_limit_direction \in Directions
    /\ pc[s] \in {"headers_log", "detach_log"} => st[s].headers_processed

WireSound == wire \in Seq(Datagram) /\ Len(wire) <= MaxInFlight

RedisSound == redis \in [Keys -> [Directions -> [n : Nat, ttl : 0 .. RedisQosConnTtl]]]

\* The inductive invariant.
PathInv == IndInv /\ DirectionKnown /\ WireSound /\ RedisSound

-----------------------------------------------------------------------------
\* A restarted process starts as the first one did.
LEMMA RestartIsInit == TypeOK /\ Restart => Init'
BY DEF TypeOK, Restart, Init

\* What holds at start-up holds after a restart.
LEMMA InitAgain == Init' => IndInv'
<1>1. Init => IndInv
  BY IndInit
<1>2. QED
  BY <1>1, PTL

\* But for a restart, the filter takes the steps of WeirFilter.
LEMMA FilterSteps == [PathNext]_allVars => [Next]_vars \/ Restart
<1> SUFFICES ASSUME [PathNext]_allVars PROVE [Next]_vars \/ Restart
  OBVIOUS
<1>1. ASSUME NEW s \in Streams, FilterStep(s) PROVE Next
  BY <1>1 DEF FilterStep, StreamStep, Next
<1>2. ASSUME NEW key \in Keys, NEW d \in Directions, emit_active_request_refresh(key, d)
      PROVE  UNCHANGED vars
  BY <1>2 DEF emit_active_request_refresh
<1>3. ASSUME DeliverFirst \/ DeliverLater PROVE UNCHANGED vars
  BY <1>3 DEF DeliverFirst, DeliverLater, Apply
<1>4. ASSUME Tock PROVE Next
  BY <1>4 DEF Tock, Next
<1>5. ASSUME UNCHANGED allVars PROVE UNCHANGED vars
  BY <1>5 DEF allVars
<1>6. QED
  BY <1>1, <1>2, <1>3, <1>4, <1>5 DEF PathNext

\* The headers callback gives up on a stream without a direction, and no later activate-weir
\* line changes the direction of an enabled stream.
LEMMA DirectionStep ==
  ASSUME TypeOK, PointerFollowsFlags, DirectionKnown, [Next]_vars \/ Restart
  PROVE  DirectionKnown'
<1> USE DEF TypeOK, PointerFollowsFlags, DirectionKnown, weir_lim_state
<1>1. ASSUME NEW s \in Streams, NEW meth \in VerbDirections, NEW a \in RemoteAddrs,
             weir_attach(s, meth, a)
      PROVE  DirectionKnown'
  BY <1>1 DEF weir_attach, FreshState
<1>2. ASSUME NEW s \in Streams, weir_enable_filter_bad_direction(s)
      PROVE  DirectionKnown'
  BY <1>2 DEF weir_enable_filter_bad_direction, ActivateWeir
<1>3. ASSUME NEW s \in Streams, NEW key \in FetchedKeys \ {Null},
             NEW dir \in FetchedDirections \ {"unknown"}, weir_enable_filter(s, key, dir)
      PROVE  DirectionKnown'
  <2>1. dir \in Directions \cup {Null} /\ ~st[s].headers_processed
    BY <1>3, FilterAssumption DEF weir_enable_filter, ActivateWeir, Directions
  <2>2. QED
    BY <1>3, <2>1 DEF weir_enable_filter, ActivateWeir
<1>4. ASSUME NEW s \in Streams, weir_http_headers(s)
      PROVE  DirectionKnown'
  BY <1>4 DEF weir_http_headers
<1>5. ASSUME NEW s \in Streams, weir_http_headers_skip(s) \/ SendReqLog(s) \/ weir_detach(s)
      PROVE  DirectionKnown'
  BY <1>5 DEF weir_http_headers_skip, SendReqLog, weir_detach, Counted
<1>6. ASSUME NEW s \in Streams, FreeState(s)
      PROVE  DirectionKnown'
  BY <1>6 DEF FreeState, FreshState
<1>7. ASSUME UNCHANGED <<pc, st, limit>>
      PROVE  DirectionKnown'
  BY <1>7
<1>8. ASSUME Restart PROVE DirectionKnown'
  BY <1>8 DEF Restart, FreshState
<1>9. QED
  BY <1>1, <1>2, <1>3, <1>4, <1>5, <1>6, <1>7, <1>8
  DEF Next, StreamStep, ShareUpdate, SendReqEndLog, weir_detach_uncounted, vars,
      weir_enable_filter_no_key, weir_http_headers_bug, ClockTick,
      weir_ingest_limit_share_update

\* A datagram joins the others or is dropped.
LEMMA SendSound ==
  ASSUME WireSound, NEW key \in Keys, NEW d \in Directions, NEW n \in Nat, Send(key, d, n)
  PROVE  WireSound'
<1> DEFINE g == [key |-> key, dir |-> d, n |-> n]
<1>1. g \in Datagram
  BY DEF Datagram
<1>2. wire' = IF Len(wire) < MaxInFlight THEN Append(wire, g) ELSE wire
  BY DEF Send
<1> HIDE DEF g
<1>3. wire \in Seq(Datagram) /\ Len(wire) \in Nat /\ Len(wire) <= MaxInFlight
  BY DEF WireSound
<1>4. Append(wire, g) \in Seq(Datagram) /\ Len(Append(wire, g)) = Len(wire) + 1
  BY <1>1, <1>3, AppendProperties
<1>5. CASE Len(wire) < MaxInFlight
  <2>1. Len(wire') <= MaxInFlight
    BY <1>2, <1>3, <1>4, <1>5, PathAssumption
  <2>2. QED
    BY <1>2, <1>4, <1>5, <2>1 DEF WireSound
<1>6. CASE ~(Len(wire) < MaxInFlight)
  BY <1>2, <1>3, <1>6 DEF WireSound
<1>7. QED
  BY <1>5, <1>6

\* The filter logs under the user and direction of a request, and counts that are not
\* negative: the thread that logs a count it read under the lock was counted in it.
LEMMA FilterSends ==
  ASSUME PathInv, NEW s \in Streams, FilterStep(s)
  PROVE  WireSound' /\ RedisSound'
<1>1. WireSound /\ RedisSound
  BY DEF PathInv
<1>2. CASE UNCHANGED pathVars
  BY <1>1, <1>2 DEF pathVars, WireSound, RedisSound
<1>3. CASE /\ SendReqLog(s) \/ SendReqEndLog(s)
           /\ Send(limit[s], st[s].bandwidth_limit_direction, count[s])
           /\ UNCHANGED redis
  <2>1. pc[s] \in {"headers_log", "detach_log"}
    BY <1>3 DEF SendReqLog, SendReqEndLog
  <2>2. st[s].bandwidth_limit_direction \in Directions /\ limit[s] \in Keys
    BY <2>1 DEF PathInv, DirectionKnown, IndInv, PointerFollowsFlags, TypeOK
  <2>3. count[s] \in Nat
    BY <2>1 DEF PathInv, IndInv, TypeOK, ReportedCountsSane
  <2>4. WireSound'
    BY <1>1, <1>3, <2>2, <2>3, SendSound
  <2>5. QED
    BY <1>1, <1>3, <2>4 DEF RedisSound
<1>4. QED
  BY <1>2, <1>3 DEF FilterStep

\* A worker of the syslog server writes a datagram's count under its key.
LEMMA ApplySound ==
  ASSUME WireSound, RedisSound, NEW i \in 1 .. Len(wire), Apply(i)
  PROVE  WireSound' /\ RedisSound'
<1> DEFINE front == SubSeq(wire, 1, i - 1)
           back == SubSeq(wire, i + 1, Len(wire))
           g == wire[i]
<1>1. wire \in Seq(Datagram) /\ Len(wire) \in Nat /\ Len(wire) <= MaxInFlight
  BY DEF WireSound
<1>2. \A j \in 1 .. Len(wire) : wire[j] \in Datagram
  BY <1>1, ElementOfSeq
<1>3. i \in Int /\ i >= 1 /\ i <= Len(wire)
  BY <1>1
<1>4. front \in Seq(Datagram) /\ Len(front) = i - 1
  <2>1. 1 \in Int /\ i - 1 \in Int /\ \A j \in 1 .. i - 1 : wire[j] \in Datagram
    BY <1>1, <1>2, <1>3
  <2>2. front \in Seq(Datagram) /\ Len(front) = IF 1 <= i - 1 THEN (i - 1) - 1 + 1 ELSE 0
    BY <2>1, SubSeqProperties
  <2> HIDE DEF front
  <2>3. QED
    BY <1>3, <2>2
<1>5. back \in Seq(Datagram) /\ Len(back) = Len(wire) - i
  <2>1. i + 1 \in Int /\ Len(wire) \in Int /\ \A j \in i + 1 .. Len(wire) : wire[j] \in Datagram
    BY <1>1, <1>2, <1>3
  <2>2. /\ back \in Seq(Datagram)
        /\ Len(back) = IF i + 1 <= Len(wire) THEN Len(wire) - (i + 1) + 1 ELSE 0
    BY <2>1, SubSeqProperties
  <2> HIDE DEF back
  <2>3. QED
    BY <1>1, <1>3, <2>2
<1>6. wire' = front \o back
  BY DEF Apply, RemoveAt
<1>7. g \in Datagram
  BY <1>2
<1>8. redis' = [redis EXCEPT ![g.key][g.dir] = [n |-> g.n, ttl |-> RedisQosConnTtl]]
  BY DEF Apply
<1> HIDE DEF front, back, g
<1>9. front \o back \in Seq(Datagram) /\ Len(front \o back) = Len(front) + Len(back)
  BY <1>4, <1>5, ConcatProperties
<1>10. WireSound'
  <2>1. Len(wire') <= MaxInFlight
    BY <1>1, <1>3, <1>4, <1>5, <1>6, <1>9, PathAssumption
  <2>2. QED
    BY <1>6, <1>9, <2>1 DEF WireSound
<1>11. RedisSound'
  <2>1. g.key \in Keys /\ g.dir \in Directions /\ g.n \in Nat
    BY <1>7 DEF Datagram
  <2>2. [n |-> g.n, ttl |-> RedisQosConnTtl] \in [n : Nat, ttl : 0 .. RedisQosConnTtl]
    BY <2>1, PathAssumption
  <2>3. QED
    BY <1>8, <2>1, <2>2 DEF RedisSound
<1>12. QED
  BY <1>10, <1>11

\* Time passes for the keys of Redis.
LEMMA ExpirySound ==
  ASSUME RedisSound, Tock
  PROVE  RedisSound'
<1> DEFINE Entry == [n : Nat, ttl : 0 .. RedisQosConnTtl]
<1>1. Absent \in Entry
  BY PathAssumption DEF Absent
<1>2. ASSUME NEW e \in Entry
      PROVE  (IF e.ttl <= 1 THEN Absent ELSE [e EXCEPT !.ttl = @ - 1]) \in Entry
  BY <1>1, PathAssumption
<1>3. \A k \in Keys, d \in Directions : redis[k][d] \in Entry
  BY DEF RedisSound
<1>4. redis' = [k \in Keys |-> [d \in Directions |->
                 IF redis[k][d].ttl <= 1 THEN Absent ELSE [redis[k][d] EXCEPT !.ttl = @ - 1]]]
  BY DEF Tock
<1>5. redis' \in [Keys -> [Directions -> Entry]]
  <2> HIDE DEF Entry
  <2>1. QED
    BY <1>2, <1>3, <1>4
<1>6. QED
  BY <1>5 DEF RedisSound

\* The invariant holds at start-up.
LEMMA PathInvInit == PathInit => PathInv
<1> SUFFICES ASSUME PathInit PROVE PathInv
  OBVIOUS
<1>1. IndInv
  BY IndInit DEF PathInit
<1>2. DirectionKnown
  BY DEF PathInit, Init, DirectionKnown, FreshState
<1>3. WireSound
  <2>1. <<>> \in Seq(Datagram) /\ Len(<<>>) = 0
    BY EmptySeq
  <2>2. QED
    BY <2>1, PathAssumption DEF PathInit, WireSound
<1>4. RedisSound
  <2>1. Absent \in [n : Nat, ttl : 0 .. RedisQosConnTtl]
    BY PathAssumption DEF Absent
  <2>2. QED
    BY <2>1 DEF PathInit, RedisSound
<1>5. QED
  BY <1>1, <1>2, <1>3, <1>4 DEF PathInv

\* Every step of the filter, the wire, the workers and the clock keeps it, and every crash.
LEMMA PathInvStep == PathInv /\ [PathNext]_allVars => PathInv'
<1> SUFFICES ASSUME PathInv, [PathNext]_allVars PROVE PathInv'
  OBVIOUS
<1>1. IndInv /\ DirectionKnown /\ WireSound /\ RedisSound /\ TypeOK /\ PointerFollowsFlags
  BY DEF PathInv, IndInv
<1>2. [Next]_vars \/ Restart
  BY FilterSteps
<1>3. IndInv'
  BY <1>1, <1>2, IndStep, RestartIsInit, InitAgain
<1>4. DirectionKnown'
  BY <1>1, <1>2, DirectionStep
<1>5. WireSound' /\ RedisSound'
  <2>1. ASSUME NEW s \in Streams, FilterStep(s) PROVE WireSound' /\ RedisSound'
    BY <2>1, FilterSends
  <2>2. ASSUME NEW key \in Keys, NEW d \in Directions, emit_active_request_refresh(key, d)
        PROVE  WireSound' /\ RedisSound'
    <3>1. /\ Send(key, d, active_requests[key][d]) /\ active_requests[key][d] > 0
          /\ UNCHANGED redis
      BY <2>2 DEF emit_active_request_refresh
    <3>2. active_requests[key][d] \in Nat
      BY <1>1, <3>1 DEF TypeOK
    <3>3. PICK n \in Nat : n = active_requests[key][d]
      BY <3>2
    <3>4. QED
      BY <1>1, <3>1, <3>3, SendSound DEF RedisSound
  <2>3. ASSUME DeliverFirst \/ DeliverLater PROVE WireSound' /\ RedisSound'
    <3>1. wire \in Seq(Datagram) /\ Len(wire) \in Nat
      BY <1>1 DEF WireSound
    <3>2. PICK i \in 1 .. Len(wire) : Apply(i)
      <4>1. CASE DeliverFirst
        <5>1. Apply(1) /\ wire # <<>>
          BY <4>1 DEF DeliverFirst
        <5>2. 1 \in 1 .. Len(wire)
          BY <3>1, <5>1, EmptySeq
        <5>3. QED
          BY <5>1, <5>2
      <4>2. CASE DeliverLater
        <5>1. PICK i \in 2 .. Len(wire) : Apply(i)
          BY <4>2 DEF DeliverLater
        <5>2. i \in 1 .. Len(wire)
          BY <3>1
        <5>3. QED
          BY <5>1, <5>2
      <4>3. QED
        BY <2>3, <4>1, <4>2
    <3>3. QED
      BY <1>1, <3>2, ApplySound
  <2>4. ASSUME Tock PROVE WireSound' /\ RedisSound'
    <3>1. UNCHANGED wire
      BY <2>4 DEF Tock
    <3>2. QED
      BY <1>1, <2>4, <3>1, ExpirySound DEF WireSound
  <2>5. ASSUME UNCHANGED pathVars PROVE WireSound' /\ RedisSound'
    BY <1>1, <2>5 DEF pathVars, WireSound, RedisSound
  <2>6. QED
    BY <2>1, <2>2, <2>3, <2>4, <2>5 DEF PathNext, Restart, allVars, pathVars
<1>6. QED
  BY <1>3, <1>4, <1>5 DEF PathInv

\* Whatever the configuration, the order of the logs, the losses and the crashes: every
\* datagram and every entry of Redis is of a user and a direction with a count that is not
\* negative, and the buffers are not exceeded (weir_http_headers, weir_detach,
\* emit_active_request_refresh, processReq).
THEOREM PathTypeCorrect == PathSpec => []PathTypeOK
<1>1. PathInv => PathTypeOK
  BY DEF PathInv, IndInv, WireSound, RedisSound, PathTypeOK
<1>2. QED
  BY <1>1, PathInvInit, PathInvStep, PTL DEF PathSpec

\* A crash does not take the safety of the table's pointers away: the streams go with the
\* table they point into, and the logs of the dead process are only numbers.
THEOREM PointerSafetyWithRestarts == PathSpec => []LimitPointerValid
<1>1. PathInv => LimitPointerValid
  BY DEF PathInv, IndInv
<1>2. QED
  BY <1>1, PathInvInit, PathInvStep, PTL DEF PathSpec
=============================================================================
