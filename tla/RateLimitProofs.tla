-------------------------- MODULE RateLimitProofs --------------------------
(***************************************************************************)
(* Proofs about RateLimit for any connections, keys, policies, clocks and    *)
(* delays: its types, that data is accounted to the key of its own request,   *)
(* that connection counts cover the connections, that a violation takes       *)
(* effect and leaves every user the start of the next second, and that        *)
(* throttle logs are spaced.                                                *)
(***************************************************************************)
EXTENDS RateLimit, FunctionSums

\* The tables of the first powers.
Powers(n) == {g \in [0 .. n -> Nat] : g[0] = 1 /\ \A i \in 1 .. n : g[i] = 2 * g[i - 1]}

\* There is one for every number of powers.
LEMMA PowersExist == \A n \in Nat : Powers(n) # {}
<1> DEFINE G == {n \in Nat : Powers(n) # {}}
<1>1. 0 \in G
  <2>1. [i \in 0 .. 0 |-> 1] \in Powers(0)
    BY DEF Powers
  <2>2. QED
    BY <2>1
<1>2. ASSUME NEW n \in G PROVE n + 1 \in G
  <2>1. PICK g : g \in Powers(n)
    OBVIOUS
  <2>2. g \in [0 .. n -> Nat] /\ g[0] = 1 /\ \A i \in 1 .. n : g[i] = 2 * g[i - 1]
    BY <2>1 DEF Powers
  <2> DEFINE h == [i \in 0 .. n + 1 |-> IF i = n + 1 THEN 2 * g[n] ELSE g[i]]
  <2>3. h \in [0 .. n + 1 -> Nat]
    BY <2>2
  <2>4. h[0] = 1 /\ h[n + 1] = 2 * g[n] /\ \A i \in 0 .. n : h[i] = g[i]
    BY <2>2
  <2>5. ASSUME NEW i \in 1 .. n + 1 PROVE h[i] = 2 * h[i - 1]
    <3>1. i - 1 \in 0 .. n /\ h[i - 1] = g[i - 1]
      BY <2>4
    <3>2. CASE i = n + 1
      <4>1. i - 1 = n
        BY <3>2
      <4>2. QED
        BY <2>4, <3>1, <3>2, <4>1
    <3>3. CASE i # n + 1
      <4>1. i \in 1 .. n
        BY <3>3
      <4> HIDE DEF h
      <4>2. QED
        BY <2>2, <2>4, <3>1, <4>1
    <3>4. QED
      BY <3>2, <3>3
  <2>6. h \in Powers(n + 1)
    <3> HIDE DEF h
    <3>1. QED
      BY <2>3, <2>4, <2>5 DEF Powers
  <2>7. QED
    BY <2>6
<1>3. G = Nat
  <2>1. G \in SUBSET Nat
    OBVIOUS
  <2> HIDE DEF G
  <2>2. QED
    BY <1>1, <1>2, <2>1, NatSetInduction
<1>4. QED
  BY <1>3

\* Tables of the first powers agree.
LEMMA PowersAgree ==
  ASSUME NEW n \in Nat, NEW m \in Nat, n <= m, NEW g \in Powers(n), NEW h \in Powers(m)
  PROVE  \A i \in 0 .. n : g[i] = h[i]
<1> DEFINE G == {i \in Nat : i <= n => g[i] = h[i]}
<1>1. /\ g[0] = 1 /\ \A i \in 1 .. n : g[i] = 2 * g[i - 1]
      /\ h[0] = 1 /\ \A i \in 1 .. m : h[i] = 2 * h[i - 1]
  BY DEF Powers
<1>2. 0 \in G
  BY <1>1
<1>3. ASSUME NEW i \in G PROVE i + 1 \in G
  <2> SUFFICES ASSUME i + 1 <= n PROVE g[i + 1] = h[i + 1]
    OBVIOUS
  <2>1. i + 1 \in 1 .. n /\ i + 1 \in 1 .. m /\ (i + 1) - 1 = i
    OBVIOUS
  <2>2. g[i + 1] = 2 * g[i] /\ h[i + 1] = 2 * h[i]
    BY <1>1, <2>1
  <2>3. QED
    BY <2>1, <2>2
<1>4. G = Nat
  <2>1. G \in SUBSET Nat
    OBVIOUS
  <2> HIDE DEF G
  <2>2. QED
    BY <1>2, <1>3, <2>1, NatSetInduction
<1>5. QED
  BY <1>4

\* A power of two is positive.
LEMMA PowersPositive == \A n \in Nat : pow2[n] \in Nat /\ pow2[n] >= 1
<1> DEFINE F(f) == [n \in Nat |-> IF n = 0 THEN 1 ELSE 2 * f[n - 1]]
           f == [n \in Nat |-> (CHOOSE g : g \in Powers(n))[n]]
<1>1. ASSUME NEW n \in Nat, NEW g \in Powers(n) PROVE f[n] = g[n] /\ f[n] \in Nat
  <2>1. (CHOOSE h : h \in Powers(n)) \in Powers(n)
    OBVIOUS
  <2>2. n \in 0 .. n /\ n <= n
    OBVIOUS
  <2>3. (CHOOSE h : h \in Powers(n))[n] = g[n]
    BY <2>1, <2>2, PowersAgree
  <2>4. g[n] \in Nat
    BY <2>2 DEF Powers
  <2>5. QED
    BY <2>3, <2>4
<1>2. f[0] = 1
  <2>1. PICK g : g \in Powers(0)
    BY PowersExist
  <2>2. g[0] = 1
    BY <2>1 DEF Powers
  <2>3. QED
    BY <1>1, <2>1, <2>2
<1>3. ASSUME NEW n \in Nat, n # 0 PROVE f[n] = 2 * f[n - 1]
  <2>1. n - 1 \in Nat /\ n - 1 <= n /\ n - 1 \in 0 .. n - 1
    BY <1>3
  <2>2. PICK g : g \in Powers(n)
    BY PowersExist
  <2>3. PICK h : h \in Powers(n - 1)
    BY <2>1, PowersExist
  <2>4. h[n - 1] = g[n - 1]
    BY <2>1, <2>2, <2>3, PowersAgree
  <2>5. f[n] = g[n] /\ f[n - 1] = h[n - 1]
    <3> HIDE DEF f
    <3>1. QED
      BY <1>1, <2>1, <2>2, <2>3
  <2>6. g[n] = 2 * g[n - 1]
    BY <1>3, <2>2 DEF Powers
  <2> HIDE DEF f
  <2>7. QED
    BY <2>4, <2>5, <2>6
<1>4. f = F(f)
  <2>1. ASSUME NEW n \in Nat PROVE f[n] = IF n = 0 THEN 1 ELSE 2 * f[n - 1]
    <3> HIDE DEF f
    <3>1. QED
      BY <1>2, <1>3
  <2>2. f = [n \in Nat |-> f[n]]
    OBVIOUS
  <2> HIDE DEF f
  <2>3. QED
    BY <2>1, <2>2
<1>5. pow2 = F(pow2)
  <2>1. \E g : g = F(g)
    <3> HIDE DEF f, F
    <3>1. QED
      BY <1>4
  <2>2. QED
    BY <2>1 DEF pow2
<1> DEFINE G == {n \in Nat : pow2[n] \in Nat /\ pow2[n] >= 1}
<1>6. \A n \in Nat : pow2[n] = IF n = 0 THEN 1 ELSE 2 * pow2[n - 1]
  BY <1>5
<1>7. 0 \in G
  BY <1>6
<1>8. ASSUME NEW n \in G PROVE n + 1 \in G
  <2>1. n + 1 \in Nat /\ n + 1 # 0 /\ (n + 1) - 1 = n
    OBVIOUS
  <2>2. pow2[n + 1] = 2 * pow2[n]
    BY <1>6, <2>1
  <2>3. QED
    BY <2>1, <2>2
<1>9. G = Nat
  <2>1. G \in SUBSET Nat
    OBVIOUS
  <2> HIDE DEF G
  <2>2. QED
    BY <1>7, <1>8, <2>1, NatSetInduction
<1>10. QED
  BY <1>9

-----------------------------------------------------------------------------
(* Types, and the key of a connection with a request. *)

\* A request that passed the check has a key, its connection is registered under it unless it
\* is the empty one, which has no policies, and a callback under way has a direction.
RequestRegistered ==
  /\ \A c \in Conns :
       /\ pc[c] # "idle"
            => owner[c] \in Keys /\ (owner[c] # EmptyKey => ip_port_key[c] = owner[c])
       /\ pc[c] \in {"lookup", "throttled"} => call[c].direction \in Directions
  /\ \A d \in Directions : policy[d][EmptyKey] = Null

\* The stored policies are well typed, whatever their age.
LEMMA OlderType == \A p \in speed_hash_value \cup {Null} : Older(p) \in speed_hash_value \cup {Null}
<1> SUFFICES ASSUME NEW p \in speed_hash_value \cup {Null}
             PROVE  Older(p) \in speed_hash_value \cup {Null}
  OBVIOUS
<1>1. CASE p = Null
  BY <1>1 DEF Older
<1>2. CASE p # Null
  BY <1>2, RateLimitAssumption DEF Older, speed_hash_value, MaxAge
<1>3. QED
  BY <1>1, <1>2

\* Ticks stay within the machine word.
LEMMA TickTypes ==
  /\ TICK_ETERNITY \in Tick
  /\ \A t \in Tick : NextTick(t) \in Tick
  /\ \A t \in Tick, d \in Nat : tick_add(t, d) \in Tick
<1> USE TickRangeAssumption
<1>1. TICK_ETERNITY \in Tick
  BY DEF TICK_ETERNITY, Tick
<1>2. \A t \in Tick : NextTick(t) \in Tick
  BY DEF NextTick, Tick
<1>3. \A t \in Tick, d \in Nat : tick_add(t, d) \in Tick
  BY DEF tick_add, Tick, TICK_ETERNITY
<1>4. QED
  BY <1>1, <1>2, <1>3

\* A callback starts and ends with well-typed locals.
LEMMA LocalTypes ==
  /\ NoCall \in Locals
  /\ \A d \in Directions, t \in Tick :
       /\ [NoCall EXCEPT !.direction = d, !.at = t] \in Locals
       /\ [NoCall EXCEPT !.direction = d, !.at = t].direction = d
       /\ [NoCall EXCEPT !.direction = d, !.at = t].at = t
  /\ \A l \in Locals, t \in Tick :
       /\ [l EXCEPT !.next_log = t] \in Locals /\ [l EXCEPT !.late = 1] \in Locals
       /\ [l EXCEPT !.next_log = t].direction = l.direction
       /\ [l EXCEPT !.late = 1].direction = l.direction
       /\ [l EXCEPT !.next_log = t].at = l.at /\ [l EXCEPT !.late = 1].at = l.at
<1>1. 0 \in Tick
  BY TickRangeAssumption DEF Tick
<1>2. NoCall \in Locals
  BY <1>1 DEF NoCall, Locals
<1>3. ASSUME NEW d \in Directions, NEW t \in Tick
      PROVE  /\ [NoCall EXCEPT !.direction = d, !.at = t] \in Locals
             /\ [NoCall EXCEPT !.direction = d, !.at = t].direction = d
             /\ [NoCall EXCEPT !.direction = d, !.at = t].at = t
  BY <1>2 DEF Locals
<1>4. ASSUME NEW l \in Locals, NEW t \in Tick
      PROVE  /\ [l EXCEPT !.next_log = t] \in Locals /\ [l EXCEPT !.late = 1] \in Locals
             /\ [l EXCEPT !.next_log = t].direction = l.direction
             /\ [l EXCEPT !.late = 1].direction = l.direction
             /\ [l EXCEPT !.next_log = t].at = l.at /\ [l EXCEPT !.late = 1].at = l.at
  BY DEF Locals
<1>5. QED
  BY <1>2, <1>3, <1>4

\* Every step of a request, a callback, the clean-up and the clock keeps types and keys.
LEMMA TypeStep == TypeOK /\ RequestRegistered /\ [Next]_vars => TypeOK' /\ RequestRegistered'
<1> SUFFICES ASSUME TypeOK, RequestRegistered, [Next]_vars PROVE TypeOK' /\ RequestRegistered'
  OBVIOUS
<1> USE RateLimitAssumption
<1>0. NoCall \in Locals
  BY LocalTypes
<1>1. ASSUME NEW c \in Conns, NEW k \in KeysOf[c], weir_should_block_request(c, k)
      PROVE  TypeOK' /\ RequestRegistered'
  <2>1. k \in Keys
    OBVIOUS
  <2>2. TypeOK'
    <3>1. /\ ip_port_key' \in [Conns -> Keys \cup {Null}]
          /\ key_ip_port_count' \in [Keys -> 0 .. MaxCount]
      <4>1. CASE k = EmptyKey
        BY <1>1, <4>1 DEF weir_should_block_request, set_ip_port_key, TypeOK
      <4>2. CASE k # EmptyKey
        <5>1. key_ip_port_count[k] + 1 \in 0 .. MaxCount
          BY <1>1, <2>1, <4>2 DEF weir_should_block_request, TypeOK
        <5>2. /\ ip_port_key' = [ip_port_key EXCEPT ![c] = k]
              /\ key_ip_port_count' = [key_ip_port_count EXCEPT ![k] = @ + 1]
          BY <1>1, <4>2 DEF weir_should_block_request, set_ip_port_key,
             incr_num_connections_of_a_key
        <5>3. ip_port_key' \in [Conns -> Keys \cup {Null}]
          BY <2>1, <5>2 DEF TypeOK
        <5>4. key_ip_port_count' \in [Keys -> 0 .. MaxCount]
          BY <2>1, <5>1, <5>2 DEF TypeOK
        <5>5. QED
          BY <5>3, <5>4
      <4>3. QED
        BY <4>1, <4>2
    <3>2. QED
      BY <1>1, <2>1, <3>1 DEF weir_should_block_request, TypeOK, Phases
  <2>3. RequestRegistered'
    BY <1>1, <2>1 DEF weir_should_block_request, set_ip_port_key, TypeOK, RequestRegistered
  <2>4. QED
    BY <2>2, <2>3
<1>2. ASSUME NEW c \in Conns, Deny(c) PROVE TypeOK' /\ RequestRegistered'
  BY <1>2 DEF Deny, tables, TypeOK, Phases, RequestRegistered
<1>3. ASSUME NEW c \in Conns, Admit(c) PROVE TypeOK' /\ RequestRegistered'
  BY <1>3, TickTypes DEF Admit, tables, TypeOK, Phases, RequestRegistered
<1>4. ASSUME NEW c \in Conns, rl_request_end(c) PROVE TypeOK' /\ RequestRegistered'
  <2>1. key_ip_port_count' \in [Keys -> 0 .. MaxCount]
    BY <1>4 DEF rl_request_end, decr_num_connections_of_a_key, TypeOK
  <2>2. TypeOK'
    BY <1>4, <2>1, TickTypes DEF rl_request_end, TypeOK, Phases
  <2>3. RequestRegistered'
    BY <1>4 DEF rl_request_end, TypeOK, RequestRegistered
  <2>4. QED
    BY <2>2, <2>3
<1>5. ASSUME NEW c \in Conns, NEW d \in DataDirections, weir_http_payload(c, d)
      PROVE  TypeOK' /\ RequestRegistered'
  <2> DEFINE l == [NoCall EXCEPT !.direction = d, !.at = now_ms]
  <2>1. l \in Locals /\ l.direction \in Directions
    <3>1. now_ms \in Tick /\ d \in Directions
      BY DEF TypeOK
    <3>2. /\ [NoCall EXCEPT !.direction = d, !.at = now_ms] \in Locals
          /\ [NoCall EXCEPT !.direction = d, !.at = now_ms].direction = d
      BY <3>1, LocalTypes
    <3>3. QED
      BY <3>1, <3>2
  <2>2. call' = [call EXCEPT ![c] = l]
    BY <1>5 DEF weir_http_payload
  <2> HIDE DEF l
  <2>3. TypeOK'
    <3>1. /\ next_allowed_send_tick' = [next_allowed_send_tick EXCEPT ![c] = TICK_ETERNITY]
          /\ pc' = [pc EXCEPT ![c] = "lookup"]
          /\ UNCHANGED <<now_ms, tables, next_throttle_log_tick, owner, sinceLog>>
      BY <1>5 DEF weir_http_payload
    <3>2. call' \in [Conns -> Locals]
      BY <2>1, <2>2 DEF TypeOK
    <3>3. next_allowed_send_tick' \in [Conns -> Tick] /\ pc' \in [Conns -> Phases]
      BY <3>1, TickTypes DEF TypeOK, Phases
    <3>4. QED
      BY <3>1, <3>2, <3>3 DEF tables, TypeOK
  <2>4. RequestRegistered'
    <3>1. pc[c] = "data" /\ pc' = [pc EXCEPT ![c] = "lookup"] /\ UNCHANGED <<tables, owner>>
      BY <1>5 DEF weir_http_payload
    <3>2. \A x \in Conns : pc'[x] # "idle" => pc[x] # "idle"
      BY <3>1 DEF TypeOK
    <3>3. \A x \in Conns : pc'[x] \in {"lookup", "throttled"} => call'[x].direction \in Directions
      BY <2>1, <2>2, <3>1 DEF TypeOK, RequestRegistered
    <3>4. ASSUME NEW x \in Conns, pc'[x] # "idle"
          PROVE  owner'[x] \in Keys /\ (owner'[x] # EmptyKey => ip_port_key'[x] = owner'[x])
      BY <3>1, <3>2, <3>4 DEF tables, RequestRegistered
    <3>5. \A x \in Directions : policy'[x][EmptyKey] = Null
      BY <3>1 DEF tables, RequestRegistered
    <3>6. QED
      BY <3>3, <3>4, <3>5 DEF RequestRegistered
  <2>5. QED
    BY <2>3, <2>4
<1>6. ASSUME NEW c \in Conns, Throttle(c) PROVE TypeOK' /\ RequestRegistered'
  <2> DEFINE t == next_throttle_log_tick[call[c].direction][owner[c]]
             l == [call[c] EXCEPT !.next_log = t]
  <2>1. call[c].direction \in Directions /\ owner[c] \in Keys /\ pc[c] = "lookup"
    BY <1>6 DEF Throttle, RequestRegistered
  <2>2. t \in Tick /\ call[c] \in Locals /\ call[c].at \in Tick
    BY <2>1 DEF TypeOK, Locals
  <2>3. l \in Locals /\ l.direction = call[c].direction
    BY <2>2, LocalTypes
  <2>4. call' = [call EXCEPT ![c] = l]
    BY <1>6 DEF Throttle
  <2>5. tick_add(call[c].at, 1) \in Tick
    BY <2>2, TickTypes
  <2> HIDE DEF l
  <2>6. TypeOK'
    <3>1. /\ call' \in [Conns -> Locals] /\ next_allowed_send_tick' \in [Conns -> Tick]
          /\ pc' \in [Conns -> Phases]
      <4>1. call' \in [Conns -> Locals]
        BY <2>3, <2>4 DEF TypeOK
      <4>2. next_allowed_send_tick' \in [Conns -> Tick]
        BY <1>6, <2>5 DEF Throttle, TypeOK
      <4>3. pc' \in [Conns -> Phases]
        BY <1>6 DEF Throttle, TypeOK, Phases
      <4>4. QED
        BY <4>1, <4>2, <4>3
    <3>2. QED
      BY <1>6, <3>1 DEF Throttle, tables, TypeOK
  <2>7. RequestRegistered'
    BY <1>6, <2>1, <2>3, <2>4 DEF Throttle, tables, TypeOK, RequestRegistered
  <2>8. QED
    BY <2>6, <2>7
<1>7. ASSUME NEW c \in Conns, Pass(c) \/ SkipLog(c) PROVE TypeOK' /\ RequestRegistered'
  <2>1. /\ pc' = [pc EXCEPT ![c] = "data"]
        /\ pc[c] \in {"lookup", "throttled"}
        /\ call' = [call EXCEPT ![c] = NoCall]
        /\ UNCHANGED <<now_ms, tables, next_throttle_log_tick, next_allowed_send_tick,
                       owner, sinceLog>>
    BY <1>7 DEF Pass, rl_data_transferred, SkipLog
  <2>2. call' \in [Conns -> Locals] /\ pc' \in [Conns -> Phases]
    BY <1>0, <2>1 DEF TypeOK, Phases
  <2>3. TypeOK'
    BY <2>1, <2>2 DEF tables, TypeOK
  <2>4. RequestRegistered'
    BY <2>1 DEF tables, TypeOK, RequestRegistered
  <2>5. QED
    BY <2>3, <2>4
<1>9. ASSUME NEW c \in Conns, LogThrottle(c) PROVE TypeOK' /\ RequestRegistered'
  <2> DEFINE d == call[c].direction
             t == tick_add(call[c].at, TicksPerSecond)
  <2>1. d \in Directions /\ owner[c] \in Keys /\ pc[c] = "throttled"
    BY <1>9 DEF LogThrottle, RequestRegistered
  <2>2. call[c].at \in Tick
    BY DEF TypeOK, Locals
  <2>3. t \in Tick
    BY <2>2, TickTypes
  <2>4. /\ next_throttle_log_tick' = [next_throttle_log_tick EXCEPT ![d][owner[c]] = t]
        /\ sinceLog' = [sinceLog EXCEPT ![d][owner[c]] = 0]
        /\ pc' = [pc EXCEPT ![c] = "data"]
        /\ call' = [call EXCEPT ![c] = NoCall]
        /\ UNCHANGED <<now_ms, tables, next_allowed_send_tick, owner>>
    BY <1>9 DEF LogThrottle, WriteLog
  <2> HIDE DEF d, t
  <2>5. TypeOK'
    <3>1. /\ next_throttle_log_tick' \in [Directions -> [Keys -> Tick]]
          /\ sinceLog' \in [Directions -> [Keys -> 0 .. TicksPerSecond]]
      BY <2>1, <2>3, <2>4 DEF TypeOK
    <3>2. call' \in [Conns -> Locals] /\ pc' \in [Conns -> Phases]
      BY <1>0, <2>4 DEF TypeOK, Phases
    <3>3. QED
      BY <2>4, <3>1, <3>2 DEF tables, TypeOK
  <2>6. RequestRegistered'
    BY <2>1, <2>4 DEF tables, TypeOK, RequestRegistered
  <2>7. QED
    BY <2>5, <2>6
<1>10. ASSUME NEW k \in ReportedKeys, NEW d \in DataDirections, NEW epoch \in PolicyTimes,
              NEW r \in Ratios, set_throttle_epoch_us(k, d, epoch, r)
       PROVE  TypeOK' /\ RequestRegistered'
  <2>1. NewPolicy(epoch, r) \in speed_hash_value
    BY DEF NewPolicy, speed_hash_value, MaxAge
  <2>2. policy' = [policy EXCEPT ![d][k] = NewPolicy(epoch, r)]
    BY <1>10 DEF set_throttle_epoch_us
  <2>3. policy' \in [Directions -> [Keys -> speed_hash_value \cup {Null}]]
    BY <2>1, <2>2 DEF TypeOK
  <2>4. k # EmptyKey
    BY <1>10 DEF set_throttle_epoch_us
  <2>5. \A e \in Directions : policy'[e][EmptyKey] = Null
    BY <2>2, <2>4 DEF TypeOK, RequestRegistered
  <2>6. QED
    BY <1>10, <2>3, <2>5 DEF set_throttle_epoch_us, stream, TypeOK, RequestRegistered
<1>11. ASSUME NEW d \in Directions, remove_old_epochs(d) PROVE TypeOK' /\ RequestRegistered'
  <2>1. policy' \in [Directions -> [Keys -> speed_hash_value \cup {Null}]]
    BY <1>11 DEF remove_old_epochs, TypeOK
  <2>2. \A e \in Directions : policy'[e][EmptyKey] = Null
    BY <1>11 DEF remove_old_epochs, TypeOK, RequestRegistered
  <2>3. QED
    BY <1>11, <2>1, <2>2 DEF remove_old_epochs, stream, TypeOK, RequestRegistered
<1>12. CASE ClockTick
  <2>1. policy' \in [Directions -> [Keys -> speed_hash_value \cup {Null}]]
    <3>1. CASE policy' = [d \in Directions |-> [k \in Keys |-> Older(policy[d][k])]]
      BY <3>1, OlderType DEF TypeOK
    <3>2. CASE UNCHANGED policy
      BY <3>2 DEF TypeOK
    <3>3. QED
      BY <1>12, <3>1, <3>2 DEF ClockTick
  <2>2. ASSUME NEW c \in Conns
        PROVE  call'[c] \in Locals /\ call'[c].direction = call[c].direction
    <3>1. call[c] \in Locals
      BY DEF TypeOK
    <3>2. call'[c] = call[c] \/ call'[c] = [call[c] EXCEPT !.late = 1]
      BY <1>12 DEF ClockTick
    <3>3. /\ [call[c] EXCEPT !.late = 1] \in Locals
          /\ [call[c] EXCEPT !.late = 1].direction = call[c].direction
      BY <3>1, LocalTypes, TickTypes
    <3>4. QED
      BY <3>1, <3>2, <3>3
  <2>3. call' \in [Conns -> Locals]
    <3>1. call' = [c \in Conns |-> call'[c]]
      BY <1>12 DEF ClockTick, TypeOK
    <3>2. QED
      BY <2>2, <3>1
  <2>4. sinceLog' \in [Directions -> [Keys -> 0 .. TicksPerSecond]]
    <3>1. ASSUME NEW d \in Directions, NEW k \in Keys
          PROVE  (IF sinceLog[d][k] = TicksPerSecond THEN TicksPerSecond
                  ELSE sinceLog[d][k] + 1) \in 0 .. TicksPerSecond
      <4>1. sinceLog[d][k] \in 0 .. TicksPerSecond /\ TicksPerSecond \in Nat
        BY DEF TypeOK
      <4>2. QED
        BY <4>1
    <3>2. QED
      BY <1>12, <3>1 DEF ClockTick
  <2>5. TypeOK'
    BY <1>12, <2>1, <2>3, <2>4, TickTypes DEF ClockTick, TypeOK
  <2>6. RequestRegistered'
    <3>1. \A d \in Directions : policy'[d][EmptyKey] = Null
      BY <1>12 DEF ClockTick, Older, RequestRegistered
    <3>2. QED
      BY <1>12, <2>2, <3>1 DEF ClockTick, RequestRegistered
  <2>7. QED
    BY <2>5, <2>6
<1>13. CASE UNCHANGED vars
  BY <1>13 DEF vars, tables, stream, TypeOK, RequestRegistered
<1>14. QED
  BY <1>1, <1>2, <1>3, <1>4, <1>5, <1>6, <1>7, <1>9, <1>10, <1>11, <1>12, <1>13
     DEF Next, RequestStep, PayloadStep, PolicyArrives

-----------------------------------------------------------------------------
(* Connection counts. *)

Registered(k) == {c \in Conns : ip_port_key[c] = k}

\* Sets of connections are finite, and change by one.
LEMMA ConnSets ==
  ASSUME NEW S \in SUBSET Conns, NEW c \in Conns
  PROVE  /\ Cardinality(S) \in Nat
         /\ Cardinality(S \cup {c}) \in Nat
         /\ Cardinality(S \cup {c}) <= Cardinality(S) + 1
         /\ c \in S => Cardinality(S \ {c}) = Cardinality(S) - 1
         /\ \A A \in SUBSET S : Cardinality(A) \in Nat /\ Cardinality(A) <= Cardinality(S)
<1>1. IsFiniteSet(S)
  BY RateLimitAssumption, FS_Subset
<1>2. Cardinality(S) \in Nat
  BY <1>1, FS_CardinalityType
<1>3. IsFiniteSet(S \cup {c}) /\ Cardinality(S \cup {c})
        = IF c \in S THEN Cardinality(S) ELSE Cardinality(S) + 1
  BY <1>1, FS_AddElement
<1>4. c \in S => Cardinality(S \ {c}) = Cardinality(S) - 1
  BY <1>1, FS_RemoveElement
<1>5. \A A \in SUBSET S : Cardinality(A) \in Nat /\ Cardinality(A) <= Cardinality(S)
  BY <1>1, FS_Subset, FS_CardinalityType
<1>6. QED
  BY <1>2, <1>3, <1>4, <1>5

\* A connection that takes or changes a key adds one to the new key's connections; one whose
\* request ends takes itself away, and was counted.
LEMMA CountStep == TypeOK /\ NumConnectionsCovered /\ [Next]_vars => NumConnectionsCovered'
<1> SUFFICES ASSUME TypeOK, NumConnectionsCovered, [Next]_vars, NEW k \in Keys
             PROVE  Cardinality(Registered(k)') <= key_ip_port_count'[k]
  BY DEF NumConnectionsCovered, Registered
<1> USE RateLimitAssumption
<1>1. /\ Registered(k) \in SUBSET Conns /\ key_ip_port_count[k] \in Nat
      /\ Cardinality(Registered(k)) <= key_ip_port_count[k]
  BY DEF Registered, NumConnectionsCovered, TypeOK
<1>2. ASSUME NEW c \in Conns, NEW j \in KeysOf[c], weir_should_block_request(c, j)
      PROVE  Cardinality(Registered(k)') <= key_ip_port_count'[k]
  <2> SUFFICES ASSUME j # EmptyKey PROVE Cardinality(Registered(k)') <= key_ip_port_count'[k]
    BY <1>1, <1>2 DEF weir_should_block_request, set_ip_port_key, Registered
  <2>1. /\ ip_port_key' = [ip_port_key EXCEPT ![c] = j]
        /\ key_ip_port_count' = [key_ip_port_count EXCEPT ![j] = @ + 1]
    BY <1>2 DEF weir_should_block_request, set_ip_port_key, incr_num_connections_of_a_key
  <2>2. CASE k = j
    <3>1. Registered(k)' = Registered(k) \cup {c}
      BY <2>1, <2>2 DEF Registered, TypeOK
    <3>2. key_ip_port_count'[k] = key_ip_port_count[k] + 1
      BY <2>1, <2>2 DEF TypeOK
    <3>3. Cardinality(Registered(k) \cup {c}) \in Nat /\ Cardinality(Registered(k)) \in Nat
          /\ Cardinality(Registered(k) \cup {c}) <= Cardinality(Registered(k)) + 1
      BY <1>1, ConnSets
    <3>4. QED
      BY <1>1, <3>1, <3>2, <3>3
  <2>3. CASE k # j
    <3>1. Registered(k)' \in SUBSET Registered(k)
      BY <2>1, <2>3 DEF Registered, TypeOK
    <3>2. key_ip_port_count'[k] = key_ip_port_count[k]
      BY <2>1, <2>3 DEF TypeOK
    <3>3. /\ Cardinality(Registered(k)') \in Nat /\ Cardinality(Registered(k)) \in Nat
          /\ Cardinality(Registered(k)') <= Cardinality(Registered(k))
      BY <1>1, <3>1, ConnSets
    <3>4. QED
      BY <1>1, <3>2, <3>3
  <2>4. QED
    BY <2>2, <2>3
<1>3. ASSUME NEW c \in Conns, rl_request_end(c)
      PROVE  Cardinality(Registered(k)') <= key_ip_port_count'[k]
  <2>1. /\ ip_port_key' = [ip_port_key EXCEPT ![c] = Null]
        /\ key_ip_port_count' = IF ip_port_key[c] = Null THEN key_ip_port_count
             ELSE [key_ip_port_count EXCEPT ![ip_port_key[c]] = IF @ = 0 THEN 0 ELSE @ - 1]
    BY <1>3 DEF rl_request_end, decr_num_connections_of_a_key
  <2>2. CASE ip_port_key[c] = k
    <3>1. Registered(k)' = Registered(k) \ {c} /\ c \in Registered(k)
      BY <2>1, <2>2 DEF Registered, TypeOK
    <3>2. k # Null
      OBVIOUS
    <3>3. key_ip_port_count'[k] = IF key_ip_port_count[k] = 0 THEN 0
                                  ELSE key_ip_port_count[k] - 1
      BY <2>1, <2>2, <3>2 DEF TypeOK
    <3>4. Cardinality(Registered(k) \ {c}) = Cardinality(Registered(k)) - 1
          /\ Cardinality(Registered(k)) \in Nat
      BY <1>1, <3>1, ConnSets
    <3>5. Cardinality(Registered(k) \ {c}) \in Nat
      BY <1>1, ConnSets
    <3>6. QED
      BY <1>1, <3>1, <3>3, <3>4, <3>5
  <2>3. CASE ip_port_key[c] # k
    <3>1. Registered(k)' = Registered(k)
      BY <2>1, <2>3 DEF Registered, TypeOK
    <3>2. key_ip_port_count'[k] = key_ip_port_count[k]
      BY <2>1, <2>3 DEF TypeOK
    <3>3. QED
      BY <1>1, <3>1, <3>2
  <2>4. QED
    BY <2>2, <2>3
<1>4. CASE UNCHANGED <<ip_port_key, key_ip_port_count>>
  BY <1>1, <1>4 DEF Registered
<1>5. QED
  BY <1>2, <1>3, <1>4 DEF Next, RequestStep, PayloadStep, PolicyArrives, vars, tables, Deny,
     Admit, weir_http_payload, Throttle, Pass, rl_data_transferred, LogThrottle, WriteLog,
     SkipLog, set_throttle_epoch_us, remove_old_epochs, ClockTick

-----------------------------------------------------------------------------
(* The clock: distances between ticks, on a machine word that wraps. *)

\* Tick t is e ticks after the clock, or -e before it.
Away(t, e) == t = now_ms + e \/ t = now_ms + e - TickRange \/ t = now_ms + e + TickRange

\* A callback under way read the clock at most MaxLag ticks ago.
CallRecent ==
  \A c \in Conns :
    pc[c] \in {"lookup", "throttled"} => \E l \in 0 .. MaxLag : Away(call[c].at, -l)

\* In the second after a log the tick of the next one is set, and lies that second less the
\* lag of the callback, or one tick more, after the log.
NextLogAhead ==
  \A d \in Directions, k \in Keys :
    sinceLog[d][k] < TicksPerSecond =>
      /\ tick_isset(next_throttle_log_tick[d][k])
      /\ \E e \in TicksPerSecond - MaxLag - sinceLog[d][k]
                    .. TicksPerSecond + 1 - sinceLog[d][k] :
           Away(next_throttle_log_tick[d][k], e)

\* One tick later everything is a tick less ahead.
LEMMA AwayAfterTick ==
  ASSUME NEW now \in Tick, NEW t \in Tick, NEW e \in Int, e > - TickRange,
         t = now + e \/ t = now + e - TickRange \/ t = now + e + TickRange
  PROVE  LET next == NextTick(now)
         IN  \/ t = next + (e - 1)
             \/ t = next + (e - 1) - TickRange
             \/ t = next + (e - 1) + TickRange
<1> USE TickRangeAssumption
<1>1. CASE now + 1 < TickRange
  <2>1. NextTick(now) = now + 1
    BY <1>1 DEF NextTick, Tick
  <2>2. QED
    BY <2>1 DEF Tick
<1>2. CASE now + 1 = TickRange
  <2>1. NextTick(now) = 0
    BY <1>2 DEF NextTick, Tick
  <2>2. QED
    BY <1>2, <2>1 DEF Tick
<1>3. QED
  BY <1>1, <1>2 DEF Tick

\* How long ago a tick was is what the subtraction of machine words gives.
LEMMA AgoDifference ==
  ASSUME NEW now \in Tick, NEW t \in Tick, NEW l \in Nat, l < TickRange,
         t = now - l \/ t = now - l - TickRange \/ t = now - l + TickRange
  PROVE  (now - t) % TickRange = l
<1> USE TickRangeAssumption
<1>1. CASE now - t = l
  BY <1>1
<1>2. CASE now - t = l - TickRange
  BY <1>2 DEF Tick
<1>3. CASE now - t = l + TickRange
  BY <1>3 DEF Tick
<1>4. QED
  BY <1>1, <1>2, <1>3 DEF Tick

\* tick_add of at most a second to a tick that was read l ticks ago.
LEMMA AddToRecent ==
  ASSUME NEW now \in Tick, NEW t \in Tick, NEW l \in 0 .. MaxLag, NEW n,
         t = now - l \/ t = now - l - TickRange \/ t = now - l + TickRange,
         n = tick_add(t, TicksPerSecond)
  PROVE  /\ n \in Tick /\ tick_isset(n)
         /\ \E e \in TicksPerSecond - l .. TicksPerSecond + 1 - l :
              n = now + e \/ n = now + e - TickRange \/ n = now + e + TickRange
<1> USE TickRangeAssumption, RateLimitAssumption
<1> DEFINE sum == (t + TicksPerSecond) % TickRange
<1>1. sum = t + TicksPerSecond \/ sum = t + TicksPerSecond - TickRange
  BY DEF Tick
<1>2. sum \in Tick
  BY DEF Tick
<1>3. n = IF sum = 0 THEN 1 ELSE sum
  BY DEF tick_add, TICK_ETERNITY
<1> HIDE DEF sum
<1>4. n \in Tick /\ tick_isset(n)
  BY <1>2, <1>3 DEF Tick, tick_isset, TICK_ETERNITY
<1>5. PICK b \in 0 .. 1 : n = sum + b
  BY <1>2, <1>3 DEF Tick
<1>6. PICK e \in TicksPerSecond - l .. TicksPerSecond + 1 - l : e = TicksPerSecond - l + b
  BY <1>5
<1>7. n = now + e \/ n = now + e - TickRange \/ n = now + e + TickRange
  BY <1>1, <1>2, <1>4, <1>5, <1>6 DEF Tick
<1>8. QED
  BY <1>4, <1>7

\* A tick ahead of the clock has not expired for a callback that read the clock recently.
LEMMA AheadNotExpired ==
  ASSUME NEW now \in Tick, NEW t \in Tick, NEW l \in 0 .. MaxLag,
         t = now - l \/ t = now - l - TickRange \/ t = now - l + TickRange,
         NEW n \in Tick, NEW e \in 1 .. TicksPerSecond + 1,
         n = now + e \/ n = now + e - TickRange \/ n = now + e + TickRange
  PROVE  ~tick_is_expired(n, t)
<1> USE TickRangeAssumption, RateLimitAssumption
<1> DEFINE g == l + e
<1>1. g \in Nat /\ g > 0 /\ 2 * g < TickRange
  OBVIOUS
<1>2. t - n = -g \/ t - n = TickRange - g
  BY DEF Tick
<1> HIDE DEF g
<1>3. (t - n) % TickRange = TickRange - g
  <2>1. CASE t - n = -g
    BY <1>1, <2>1
  <2>2. CASE t - n = TickRange - g
    BY <1>1, <2>2
  <2>3. QED
    BY <1>2, <2>1, <2>2
<1>4. QED
  BY <1>1, <1>3 DEF tick_is_expired

\* Only the clock and the callbacks themselves bear on how long ago they began.
LEMMA RecentStep ==
  TypeOK /\ RequestRegistered /\ CallRecent /\ [Next]_vars => CallRecent'
<1> SUFFICES ASSUME TypeOK, RequestRegistered, CallRecent, [Next]_vars, NEW c \in Conns,
                    pc'[c] \in {"lookup", "throttled"}
             PROVE  \E l \in 0 .. MaxLag : Away(call[c].at, -l)'
  BY DEF CallRecent
<1> USE RateLimitAssumption, TickRangeAssumption
<1>1. now_ms \in Tick /\ call[c].at \in Tick /\ MaxLag \in Nat /\ MaxLag < TickRange
  BY DEF TypeOK, Locals
<1>2. CASE ClockTick
  <2>1. pc[c] = "lookup" /\ (now_ms - call[c].at) % TickRange < MaxLag
        /\ now_ms' = NextTick(now_ms)
    BY <1>2 DEF ClockTick
  <2>2. PICK l \in 0 .. MaxLag : Away(call[c].at, -l)
    BY <2>1 DEF CallRecent
  <2>3. l < MaxLag
    <3>1. l \in Nat /\ l < TickRange
      BY <1>1
    <3>2. \/ call[c].at = now_ms - l
          \/ call[c].at = now_ms - l - TickRange
          \/ call[c].at = now_ms - l + TickRange
      BY <1>1, <2>2 DEF Away, Tick
    <3>3. (now_ms - call[c].at) % TickRange = l
      BY <1>1, <3>1, <3>2, AgoDifference
    <3>4. QED
      BY <2>1, <3>3
  <2>4. call'[c].at = call[c].at
    <3>1. call[c] \in Locals
      BY DEF TypeOK
    <3>2. call'[c] = call[c] \/ call'[c] = [call[c] EXCEPT !.late = 1]
      BY <1>2 DEF ClockTick
    <3>3. [call[c] EXCEPT !.late = 1].at = call[c].at
      BY <3>1, LocalTypes, TickTypes
    <3>4. QED
      BY <3>2, <3>3
  <2>5. -l \in Int /\ -l > - TickRange /\ l + 1 \in 0 .. MaxLag /\ (-l) - 1 = -(l + 1)
    BY <1>1, <2>3
  <2>6. \/ call[c].at = now_ms' + ((-l) - 1)
        \/ call[c].at = now_ms' + ((-l) - 1) - TickRange
        \/ call[c].at = now_ms' + ((-l) - 1) + TickRange
    BY <1>1, <2>1, <2>2, <2>5, AwayAfterTick DEF Away
  <2>7. Away(call[c].at, -(l + 1))'
    BY <2>4, <2>5, <2>6 DEF Away
  <2>8. QED
    BY <2>5, <2>7
<1>3. ASSUME now_ms' = now_ms, call'[c].at = call[c].at, pc[c] \in {"lookup", "throttled"}
      PROVE  \E l \in 0 .. MaxLag : Away(call[c].at, -l)'
  BY <1>3 DEF CallRecent, Away
<1>4. ASSUME NEW b \in Conns, NEW d \in DataDirections, weir_http_payload(b, d)
      PROVE  \E l \in 0 .. MaxLag : Away(call[c].at, -l)'
  <2>1. call' = [call EXCEPT ![b] = [NoCall EXCEPT !.direction = d, !.at = now_ms]]
        /\ now_ms' = now_ms /\ pc' = [pc EXCEPT ![b] = "lookup"]
    BY <1>4 DEF weir_http_payload
  <2>2. CASE b = c
    <3>1. [NoCall EXCEPT !.direction = d, !.at = now_ms].at = now_ms
      BY <1>1, LocalTypes
    <3>2. call'[c].at = now_ms
      BY <2>1, <2>2, <3>1 DEF TypeOK
    <3>3. Away(call[c].at, -0)'
      BY <1>1, <2>1, <3>2 DEF Away, Tick
    <3>4. QED
      BY <1>1, <3>3
  <2>3. CASE b # c
    BY <1>3, <2>1, <2>3 DEF TypeOK
  <2>4. QED
    BY <2>2, <2>3
<1>5. ASSUME NEW b \in Conns, Throttle(b)
      PROVE  \E l \in 0 .. MaxLag : Away(call[c].at, -l)'
  <2> DEFINE t == next_throttle_log_tick[call[b].direction][owner[b]]
  <2>1. call' = [call EXCEPT ![b].next_log = t]
        /\ now_ms' = now_ms /\ pc' = [pc EXCEPT ![b] = "throttled"] /\ pc[b] = "lookup"
    BY <1>5 DEF Throttle
  <2> HIDE DEF t
  <2>2. call'[c].at = call[c].at
    BY <2>1 DEF TypeOK, Locals
  <2>3. pc[c] \in {"lookup", "throttled"}
    BY <2>1 DEF TypeOK
  <2>4. QED
    BY <1>3, <2>1, <2>2, <2>3
<1>6. ASSUME NEW b \in Conns,
             \/ Deny(b) \/ Admit(b) \/ rl_request_end(b) \/ Pass(b) \/ rl_data_transferred(b)
             \/ LogThrottle(b) \/ SkipLog(b) \/ \E k \in KeysOf[b] : weir_should_block_request(b, k)
      PROVE  \E l \in 0 .. MaxLag : Away(call[c].at, -l)'
  <2>1. now_ms' = now_ms /\ (call' = call \/ call' = [call EXCEPT ![b] = NoCall])
        /\ \E p \in {"idle", "rules", "data"} : pc' = [pc EXCEPT ![b] = p]
    BY <1>6 DEF Deny, Admit, rl_request_end, Pass, rl_data_transferred, LogThrottle, WriteLog,
       SkipLog, weir_should_block_request
  <2>2. b # c
    BY <2>1 DEF TypeOK
  <2>3. QED
    BY <1>3, <2>1, <2>2 DEF TypeOK
<1>7. CASE UNCHANGED <<now_ms, pc, call>>
  BY <1>3, <1>7
<1>8. QED
  BY <1>2, <1>4, <1>5, <1>6, <1>7 DEF Next, RequestStep, PayloadStep, PolicyArrives, vars,
     stream, set_throttle_epoch_us, remove_old_epochs

\* A log puts the next one a second ahead, and the clock brings it nearer.
LEMMA AheadStep ==
  TypeOK /\ RequestRegistered /\ CallRecent /\ NextLogAhead /\ [Next]_vars => NextLogAhead'
<1> SUFFICES ASSUME TypeOK, RequestRegistered, CallRecent, NextLogAhead, [Next]_vars,
                    NEW d \in Directions, NEW k \in Keys, sinceLog'[d][k] < TicksPerSecond
             PROVE  /\ tick_isset(next_throttle_log_tick'[d][k])
                    /\ \E e \in TicksPerSecond - MaxLag - sinceLog'[d][k]
                                  .. TicksPerSecond + 1 - sinceLog'[d][k] :
                         Away(next_throttle_log_tick[d][k], e)'
  BY DEF NextLogAhead, tick_isset
<1> USE RateLimitAssumption, TickRangeAssumption
<1> DEFINE n == next_throttle_log_tick[d][k]
           s == sinceLog[d][k]
<1>1. now_ms \in Tick /\ n \in Tick /\ s \in 0 .. TicksPerSecond
  BY DEF TypeOK
<1>2. ASSUME UNCHANGED now_ms, next_throttle_log_tick'[d][k] = n, sinceLog'[d][k] = s
      PROVE  /\ tick_isset(next_throttle_log_tick'[d][k])
             /\ \E e \in TicksPerSecond - MaxLag - sinceLog'[d][k]
                           .. TicksPerSecond + 1 - sinceLog'[d][k] :
                  Away(next_throttle_log_tick[d][k], e)'
  BY <1>2 DEF NextLogAhead, Away
<1>3. CASE ClockTick
  <2>1. /\ next_throttle_log_tick'[d][k] = n /\ now_ms' = NextTick(now_ms)
        /\ sinceLog'[d][k] = IF s = TicksPerSecond THEN TicksPerSecond ELSE s + 1
    BY <1>3 DEF ClockTick
  <2>2. s < TicksPerSecond /\ sinceLog'[d][k] = s + 1
    BY <1>1, <2>1
  <2>3. tick_isset(n) /\ \E e \in TicksPerSecond - MaxLag - s .. TicksPerSecond + 1 - s :
                           Away(n, e)
    BY <2>2 DEF NextLogAhead
  <2>4. PICK e \in TicksPerSecond - MaxLag - s .. TicksPerSecond + 1 - s : Away(n, e)
    BY <2>3
  <2>5. /\ e \in Int /\ e > - TickRange
        /\ e - 1 \in TicksPerSecond - MaxLag - (s + 1) .. TicksPerSecond + 1 - (s + 1)
    BY <1>1, <2>2
  <2>6. \/ n = now_ms + e \/ n = now_ms + e - TickRange \/ n = now_ms + e + TickRange
    BY <2>4 DEF Away
  <2> HIDE DEF n, s
  <2>7. \/ n = now_ms' + (e - 1) \/ n = now_ms' + (e - 1) - TickRange
        \/ n = now_ms' + (e - 1) + TickRange
    BY <1>1, <2>1, <2>5, <2>6, AwayAfterTick
  <2>8. Away(next_throttle_log_tick[d][k], e - 1)'
    BY <2>1, <2>7 DEF Away
  <2>9. QED
    BY <2>1, <2>2, <2>3, <2>5, <2>8
<1>4. ASSUME NEW c \in Conns, LogThrottle(c), call[c].direction = d, owner[c] = k
      PROVE  /\ tick_isset(next_throttle_log_tick'[d][k])
             /\ \E e \in TicksPerSecond - MaxLag - sinceLog'[d][k]
                           .. TicksPerSecond + 1 - sinceLog'[d][k] :
                  Away(next_throttle_log_tick[d][k], e)'
  <2> DEFINE t == call[c].at
             nn == tick_add(t, TicksPerSecond)
  <2>1. /\ next_throttle_log_tick'[d][k] = nn /\ sinceLog'[d][k] = 0 /\ now_ms' = now_ms
        /\ pc[c] = "throttled"
    BY <1>4 DEF LogThrottle, WriteLog, TypeOK
  <2>2. t \in Tick
    BY DEF TypeOK, Locals
  <2>3. PICK l \in 0 .. MaxLag : Away(t, -l)
    BY <2>1 DEF CallRecent
  <2>4. t = now_ms - l \/ t = now_ms - l - TickRange \/ t = now_ms - l + TickRange
    BY <1>1, <2>3 DEF Away, Tick
  <2>5. nn = tick_add(t, TicksPerSecond)
    OBVIOUS
  <2> HIDE DEF t, nn
  <2>6. /\ tick_isset(nn)
        /\ \E e \in TicksPerSecond - l .. TicksPerSecond + 1 - l :
             nn = now_ms + e \/ nn = now_ms + e - TickRange \/ nn = now_ms + e + TickRange
    BY <1>1, <2>2, <2>4, <2>5, AddToRecent
  <2>7. PICK e \in TicksPerSecond - l .. TicksPerSecond + 1 - l :
          nn = now_ms + e \/ nn = now_ms + e - TickRange \/ nn = now_ms + e + TickRange
    BY <2>6
  <2>8. Away(next_throttle_log_tick[d][k], e)'
    BY <2>1, <2>7 DEF Away
  <2>9. e \in TicksPerSecond - MaxLag - 0 .. TicksPerSecond + 1 - 0
    OBVIOUS
  <2>10. QED
    BY <2>1, <2>6, <2>8, <2>9
<1>5. ASSUME NEW c \in Conns, LogThrottle(c), ~(call[c].direction = d /\ owner[c] = k)
      PROVE  UNCHANGED now_ms /\ next_throttle_log_tick'[d][k] = n /\ sinceLog'[d][k] = s
  BY <1>5 DEF LogThrottle, WriteLog, TypeOK
<1>6. CASE UNCHANGED <<now_ms, next_throttle_log_tick, sinceLog>>
  BY <1>2, <1>6
<1>7. QED
  BY <1>2, <1>3, <1>4, <1>5, <1>6 DEF Next, RequestStep, PayloadStep, PolicyArrives, vars,
     stream, tables, set_throttle_epoch_us, remove_old_epochs, weir_should_block_request, Deny,
     Admit, rl_request_end, weir_http_payload, Throttle, Pass, rl_data_transferred, SkipLog

-----------------------------------------------------------------------------
(* The inductive invariant and the theorems. *)

IndInv ==
  /\ TypeOK /\ RequestRegistered
  /\ NumConnectionsCovered
  /\ CallRecent /\ NextLogAhead

\* It holds when the tables are empty and no throttle was logged in the last second.
LEMMA InitInv == Init => IndInv
<1> SUFFICES ASSUME Init PROVE IndInv
  OBVIOUS
<1> USE RateLimitAssumption, TickRangeAssumption
<1>1. TypeOK
  <2>1. call \in [Conns -> Locals] /\ next_allowed_send_tick \in [Conns -> Tick]
        /\ next_throttle_log_tick \in [Directions -> [Keys -> Tick]]
    BY LocalTypes, TickTypes DEF Init
  <2>2. pc \in [Conns -> Phases] /\ owner \in [Conns -> Keys \cup {Null}]
        /\ ip_port_key \in [Conns -> Keys \cup {Null}]
    BY DEF Init, Phases
  <2>3. sinceLog \in [Directions -> [Keys -> 0 .. TicksPerSecond]]
        /\ key_ip_port_count \in [Keys -> 0 .. MaxCount]
    BY DEF Init
  <2>4. policy \in [Directions -> [Keys -> speed_hash_value \cup {Null}]]
    BY DEF Init
  <2>5. QED
    BY <2>1, <2>2, <2>3, <2>4 DEF Init, TypeOK
<1>2. RequestRegistered
  BY DEF Init, RequestRegistered
<1>3. NumConnectionsCovered
  <2>1. ASSUME NEW k \in Keys
        PROVE  Cardinality({c \in Conns : ip_port_key[c] = k}) <= key_ip_port_count[k]
    <3>1. {c \in Conns : ip_port_key[c] = k} = {}
      BY DEF Init
    <3>2. key_ip_port_count[k] = 0
      BY DEF Init
    <3>3. Cardinality({}) = 0
      BY FS_EmptySet
    <3>4. Cardinality({c \in Conns : ip_port_key[c] = k}) = 0
      BY <3>1, <3>3
    <3>5. QED
      BY <3>2, <3>4
  <2>2. QED
    BY <2>1 DEF NumConnectionsCovered
<1>4. CallRecent
  BY DEF Init, CallRecent
<1>5. NextLogAhead
  BY DEF Init, NextLogAhead
<1>6. QED
  BY <1>1, <1>2, <1>3, <1>4, <1>5 DEF IndInv

\* Every step keeps it.
LEMMA Invariance == Spec => []IndInv
<1>1. IndInv /\ [Next]_vars => IndInv'
  BY TypeStep, CountStep, RecentStep, AheadStep DEF IndInv
<1>2. QED
  BY <1>1, InitInv, PTL DEF Spec

\* The tables, policies, callbacks and logs have their types for any number of connections
\* and keys and any clock.
THEOREM TypeCorrect == Spec => []TypeOK
<1>1. IndInv => TypeOK
  BY DEF IndInv
<1>2. QED
  BY <1>1, Invariance, PTL

\* Data of a request with a key is asked about, forwarded and logged under that key, whatever
\* requests the connection carried before, with a key or without (set_ip_port_key,
\* get_key_from_ip_port).
THEOREM DataUnderOwnKey == Spec => []DataIsOwners
<1>1. IndInv => DataIsOwners
  BY DEF IndInv, RequestRegistered, DataIsOwners
<1>2. QED
  BY <1>1, Invariance, PTL

\* However connections change their keys, the count of a key is never below the number of
\* connections under it (incr_ and decr_num_connections_of_a_key).
THEOREM ConnectionsCovered == Spec => []NumConnectionsCovered
<1>1. IndInv => NumConnectionsCovered
  BY DEF IndInv
<1>2. QED
  BY <1>1, Invariance, PTL

\* The only steps after a lookup: the callback is throttled or passes.
LEMMA AfterLookup ==
  ASSUME TypeOK, [Next]_vars, NEW c \in Conns, pc[c] = "lookup", pc'[c] # "lookup"
  PROVE  \/ Throttle(c) /\ pc'[c] = "throttled"
         \/ Pass(c) /\ pc'[c] = "data"
<1>1. ASSUME NEW b \in Conns, RequestStep(b) \/ PayloadStep(b)
      PROVE  Throttle(c) \/ Pass(c)
  <2>1. CASE b = c
    BY <1>1, <2>1 DEF RequestStep, PayloadStep, weir_should_block_request, Deny, Admit,
       rl_request_end, weir_http_payload, rl_data_transferred, LogThrottle, SkipLog
  <2>2. CASE b # c
    <3>1. \E p \in Phases : pc' = [pc EXCEPT ![b] = p]
      BY <1>1 DEF RequestStep, PayloadStep, weir_should_block_request, Deny, Admit, Phases,
         rl_request_end, weir_http_payload, Throttle, Pass, rl_data_transferred, LogThrottle,
         WriteLog, SkipLog
    <3>2. QED
      BY <2>2, <3>1 DEF TypeOK
  <2>3. QED
    BY <2>1, <2>2
<1>2. Throttle(c) \/ Pass(c)
  BY <1>1 DEF Next, PolicyArrives, vars, stream, set_throttle_epoch_us, remove_old_epochs,
     ClockTick
<1>3. QED
  BY <1>2 DEF Throttle, Pass, rl_data_transferred, TypeOK

\* Once a violation is received no callback of that second decides to forward the user's
\* data, for any policy, clock and interleaving (compute_allowed_run_time, get_epoch_sec).
THEOREM ViolationTakesEffect == Spec => ThrottleTakesEffect
<1> DEFINE Effect == \A c \in Conns :
       /\ pc[c] = "lookup" /\ pc'[c] = "data"
       /\ call[c].late = 0
       => LET p == policy[call[c].direction][owner[c]]
          IN  p = Null \/ p.age # 0
<1>1. IndInv /\ [Next]_vars => Effect
  <2> SUFFICES ASSUME IndInv, [Next]_vars, NEW c \in Conns, pc[c] = "lookup",
                      pc'[c] = "data", call[c].late = 0,
                      policy[call[c].direction][owner[c]] # Null,
                      policy[call[c].direction][owner[c]].age = 0
               PROVE  FALSE
    OBVIOUS
  <2> DEFINE p == policy[call[c].direction][owner[c]]
  <2>1. TypeOK /\ RequestRegistered
    BY DEF IndInv
  <2>2. ~rl_speed_throttle(c)
    BY <2>1, AfterLookup DEF Pass
  <2>3. get_epoch_sec(c) = p
    <3>1. owner[c] # EmptyKey
      BY <2>1 DEF RequestRegistered
    <3>2. QED
      BY <2>1, <3>1, RateLimitAssumption DEF RequestRegistered, get_epoch_sec
  <2>4. p.age - call[c].late = 0
    OBVIOUS
  <2>5. is_valid_violation_policy(p, call[c].late)
    BY <2>4, RateLimitAssumption DEF is_valid_violation_policy
  <2>6. compute_allowed_run_time(p, call[c].late) = 0
    BY <2>4 DEF compute_allowed_run_time
  <2>7. call[c].at % TicksPerSecond >= 0
    <3>1. call[c].at \in Nat
      BY <2>1, TickRangeAssumption DEF TypeOK, Locals, Tick
    <3>2. QED
      BY <3>1, RateLimitAssumption
  <2>8. QED
    BY <2>2, <2>3, <2>5, <2>6, <2>7 DEF rl_speed_throttle
<1>2. QED
  BY <1>1, Invariance, PTL DEF Spec, ThrottleTakesEffect

\* Whichever threads log the throttles of a user, and wherever the clock wraps, two logs lie
\* a second less a callback's lag apart (weir_http_payload, HA_ATOMIC_CAS).
THEOREM LogsSpaced == Spec => ThrottleLogsSpaced
<1> DEFINE Spaced == \A c \in Conns :
       LogThrottle(c) => sinceLog[call[c].direction][owner[c]] >= TicksPerSecond - MaxLag
<1>1. IndInv => Spaced
  <2> SUFFICES ASSUME IndInv, NEW c \in Conns, LogThrottle(c)
               PROVE  sinceLog[call[c].direction][owner[c]] >= TicksPerSecond - MaxLag
    OBVIOUS
  <2> USE RateLimitAssumption, TickRangeAssumption
  <2> DEFINE d == call[c].direction
             k == owner[c]
             s == sinceLog[d][k]
             n == next_throttle_log_tick[d][k]
             t == call[c].at
  <2>1. TypeOK /\ RequestRegistered /\ CallRecent /\ NextLogAhead
    BY DEF IndInv
  <2>2. /\ pc[c] = "throttled" /\ call[c].next_log = n
        /\ ~tick_isset(n) \/ tick_is_expired(n, t)
    BY DEF LogThrottle, LogIsDue, ExchangeSucceeds
  <2>3. d \in Directions /\ k \in Keys
    BY <2>1, <2>2 DEF RequestRegistered
  <2>4. s \in 0 .. TicksPerSecond /\ n \in Tick /\ t \in Tick /\ now_ms \in Tick
    BY <2>1, <2>3 DEF TypeOK, Locals
  <2> SUFFICES ASSUME s < TicksPerSecond - MaxLag PROVE FALSE
    BY <2>4
  <2>5. s < TicksPerSecond
    BY <2>4
  <2>6. tick_isset(n) /\ \E e \in TicksPerSecond - MaxLag - s .. TicksPerSecond + 1 - s :
                           Away(n, e)
    BY <2>1, <2>3, <2>5 DEF NextLogAhead
  <2>7. PICK e \in TicksPerSecond - MaxLag - s .. TicksPerSecond + 1 - s : Away(n, e)
    BY <2>6
  <2>8. PICK l \in 0 .. MaxLag : Away(t, -l)
    BY <2>1, <2>2 DEF CallRecent
  <2> HIDE DEF d, k, s, n, t
  <2>9. e \in 1 .. TicksPerSecond + 1
    BY <2>4
  <2>10. t = now_ms - l \/ t = now_ms - l - TickRange \/ t = now_ms - l + TickRange
    BY <2>4, <2>8 DEF Away, Tick
  <2>11. n = now_ms + e \/ n = now_ms + e - TickRange \/ n = now_ms + e + TickRange
    BY <2>7 DEF Away
  <2>12. ~tick_is_expired(n, t)
    BY <2>4, <2>9, <2>10, <2>11, AheadNotExpired
  <2>13. QED
    BY <2>2, <2>6, <2>12
<1>2. QED
  BY <1>1, Invariance, PTL DEF Spec, ThrottleLogsSpaced

\* A policy that a later second asks about allows at least MIN_RUN_TIME of it, whatever its
\* ratio and time.
LEMMA RunTimeGranted ==
  ASSUME NEW p \in speed_hash_value, NEW late \in 0 .. 1,
         is_valid_violation_policy(p, late), p.age # late
  PROVE  /\ compute_allowed_run_time(p, late) \in Nat
         /\ compute_allowed_run_time(p, late) >= MIN_RUN_TIME
<1> USE RateLimitAssumption
<1> DEFINE age == p.age - late
           fair == p.elapsed \div p.diff_ratio
           longer == IF fair < MIN_RUN_TIME THEN MIN_RUN_TIME ELSE fair
           power == pow2[age - 1]
<1>1. p.age \in Nat /\ p.elapsed \in Nat /\ p.diff_ratio \in Nat \ {0}
  <2>1. /\ p.age \in 0 .. MaxAge /\ p.elapsed \in 0 .. TicksPerSecond - 1
        /\ p.diff_ratio \in Ratios
    BY DEF speed_hash_value
  <2>2. p.age \in Nat /\ p.elapsed \in Nat
    <3> HIDE DEF age, fair, longer, power
    <3>1. QED
      BY <2>1 DEF MaxAge
  <2>3. p.diff_ratio \in Nat \ {0}
    BY <2>1
  <2>4. QED
    BY <2>2, <2>3
<1>2. age \in Nat /\ age # 0 /\ age - 1 \in Nat
  BY <1>1 DEF is_valid_violation_policy
<1>3. fair \in Nat
  BY <1>1
<1>4. longer \in Nat /\ longer >= MIN_RUN_TIME
  <2> HIDE DEF fair
  <2>1. QED
    BY <1>3
<1>5. power \in Nat /\ power >= 1
  <2> HIDE DEF age
  <2>1. QED
    BY <1>2, PowersPositive
<1>6. compute_allowed_run_time(p, late) =
        IF age = 0 THEN 0
        ELSE IF longer * power < TicksPerSecond THEN longer * power ELSE TicksPerSecond
  BY DEF compute_allowed_run_time
<1> HIDE DEF age, longer, power
<1>7. longer * power >= longer
  <2>1. PICK q \in Nat : power = q + 1
    <3>1. power - 1 \in Nat /\ power = (power - 1) + 1
      BY <1>5
    <3>2. QED
      BY <3>1
  <2>2. longer * power = longer * q + longer /\ longer * q >= 0
    BY <1>4, <2>1
  <2>3. longer * q \in Nat
    BY <1>4
  <2>4. QED
    BY <1>4, <2>2, <2>3
<1>8. longer * power \in Nat
  BY <1>4, <1>5
<1>9. QED
  BY <1>2, <1>4, <1>6, <1>7, <1>8

\* No user is starved by its policies: whatever is reported and however often, a callback at
\* the start of a second is throttled only by a report of that second
\* (compute_allowed_run_time, MIN_RUN_TIME_USEC).
THEOREM SecondStartsOpen == Spec => StartOfSecondIsOpen
<1> DEFINE Open == \A c \in Conns :
       /\ pc[c] = "lookup" /\ pc'[c] = "throttled"
       /\ call[c].at % TicksPerSecond < MIN_RUN_TIME
       => get_epoch_sec(c).age = call[c].late
<1>1. IndInv /\ [Next]_vars => Open
  <2> SUFFICES ASSUME IndInv, [Next]_vars, NEW c \in Conns, pc[c] = "lookup",
                      pc'[c] = "throttled", call[c].at % TicksPerSecond < MIN_RUN_TIME,
                      get_epoch_sec(c).age # call[c].late
               PROVE  FALSE
    OBVIOUS
  <2> DEFINE p == get_epoch_sec(c)
             late == call[c].late
             at == call[c].at % TicksPerSecond
             run == compute_allowed_run_time(p, late)
  <2>1. TypeOK /\ RequestRegistered
    BY DEF IndInv
  <2>2. rl_speed_throttle(c)
    BY <2>1, AfterLookup DEF Throttle
  <2>3. p \in speed_hash_value \cup {Null}
    BY <2>1 DEF TypeOK, RequestRegistered, get_epoch_sec
  <2>4. p # Null /\ is_valid_violation_policy(p, late) /\ at >= run
    BY <2>2 DEF rl_speed_throttle
  <2>5. p \in speed_hash_value /\ late \in 0 .. 1
    BY <2>1, <2>3, <2>4 DEF TypeOK, Locals
  <2>6. call[c].at \in Nat
    BY <2>1, TickRangeAssumption DEF TypeOK, Locals, Tick
  <2>7. at \in Nat /\ at < MIN_RUN_TIME
    BY <2>6, RateLimitAssumption
  <2>8. p.age # late
    OBVIOUS
  <2> HIDE DEF p, late, at
  <2>9. run >= MIN_RUN_TIME
    BY <2>4, <2>5, <2>8, RunTimeGranted
  <2>10. run \in Nat
    BY <2>5, <2>4, <2>8, RunTimeGranted
  <2> HIDE DEF run
  <2>11. QED
    BY <2>4, <2>7, <2>9, <2>10, RateLimitAssumption
<1>2. QED
  BY <1>1, Invariance, PTL DEF Spec, StartOfSecondIsOpen
=============================================================================
