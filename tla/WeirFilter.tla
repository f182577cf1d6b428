----------------------------- MODULE WeirFilter -----------------------------
(***************************************************************************)
(* The HAProxy filter of haproxy-lua/added-files/src/flt_weir.c: the life of*)
(* a stream's weir_lim_state (attach, activate-weir, http_headers, detach)  *)
(* against the table of per-user limits that all worker threads share under *)
(* state_lock, the clean-up of that table, and the limit shares the policy  *)
(* generator pushes into it.                                                *)
(*                                                                         *)
(* Every stream is run by one thread at a time, so a stream is a sequential *)
(* process; a step ends where the code releases state_lock, because the     *)
(* count read under the lock is only logged after it. The connection tables *)
(* of rate_limit.c, which weir_detach also tells about the end of a request,*)
(* share nothing with this state and are not part of this module.           *)
(***************************************************************************)
EXTENDS Ticks, FiniteSets

CONSTANTS
  Streams,            \* streams (one HTTP request each) alive at one time
  Keys,               \* user keys
  Null,               \* a NULL pointer, or a sample fetch that failed
  VerbDirections,     \* directions of the methods clients use
  RemoteAddrs,        \* whether conn->src may be an inet address: a subset of BOOLEAN
  FetchedKeys,        \* what the user-key fetch of activate-weir may return
  FetchedDirections,  \* what its operation-direction fetch may return
  RuleSets,           \* rule sets of the config that hold an activate-weir line
  MayReject,          \* whether a rule after activate-weir may deny the request
  ShareTimestamps, ShareDirections, Shares,  \* limit-share updates that may arrive
  UINT_MAX, INT_MAX,  \* limits of the C types; INT_MAX bounds active_requests
  USERMAP_CLEANUP_INTERVAL_MS, USERMAP_CLEANUP_MIN_MS_SINCE_DISCONNECT

Directions == {"up", "dwn"}

ASSUME FilterAssumption ==
  /\ IsFiniteSet(Streams)
  /\ Null \notin Keys /\ Null \notin {"up", "dwn", "unknown"}
  /\ VerbDirections \subseteq Directions
  /\ RemoteAddrs \subseteq BOOLEAN
  /\ FetchedKeys \subseteq Keys \cup {Null}
  /\ FetchedDirections \subseteq {"up", "dwn", "unknown", Null}
  /\ RuleSets \subseteq {"http-request", "http-response"}
  /\ MayReject \in BOOLEAN
  /\ ShareTimestamps \subseteq Nat
  /\ ShareDirections \subseteq {"up", "dwn", "unknown"}
  /\ Shares \subseteq Nat
  /\ UINT_MAX \in Nat /\ INT_MAX \in Nat
  /\ USERMAP_CLEANUP_INTERVAL_MS \in Nat
  /\ USERMAP_CLEANUP_MIN_MS_SINCE_DISCONNECT \in Nat

VARIABLES
  now_ms,                 \* the clock
  next_cleanup_tick,
  users,                  \* the keys in the hash table user_limit_state
  active_requests,        \* user_limit.{upload,download}.active_requests
  last_request_end_tick,  \* user_limit.last_request_end_tick
  share,                  \* user_limit.{upload,download}.{limit_received,...}
  pc,                     \* where every stream is
  st,                     \* weir_lim_state of every stream, but for its pointer
  limit,                  \* weir_lim_state.limit: whose entry the stream points to
  count,                  \* local active_requests of the handler about to log it
  crashed                 \* a WEIR_BUG_ON fired and took the process down

table == <<users, active_requests, last_request_end_tick, share>>
vars == <<now_ms, next_cleanup_tick, table, pc, st, limit, count, crashed>>

limit_share ==
  [limit_received : BOOLEAN, limit_timestamp : Nat, bytes_per_second : 0 .. UINT_MAX]

weir_lim_state ==
  [meth : Directions,           \* the direction of the method of s->txn
   remote_addr : BOOLEAN,       \* whether it is set
   bandwidth_limit_direction : {"up", "dwn", "unknown", Null},
   enabled : BOOLEAN,
   headers_processed : BOOLEAN]

Phases == {"free", "rules", "headers_log", "forward", "detach_log"}

\* A user_limit, and a field of it per direction, as pool_zalloc returns it. The
\* fields of a key that is not in the table hold these values.
ZeroCounts == [d \in Directions |-> 0]
ZeroShares ==
  [d \in Directions |->
     [limit_received |-> FALSE, limit_timestamp |-> 0, bytes_per_second |-> 0]]

\* A weir_lim_state as weir_attach leaves it.
FreshState(meth, remote_addr) ==
  [meth |-> meth, remote_addr |-> remote_addr, bandwidth_limit_direction |-> Null,
   enabled |-> FALSE, headers_processed |-> FALSE]

\* The types of the filter: table and streams, with shares clamped to UINT_MAX.
TypeOK ==
  /\ now_ms \in Tick
  /\ next_cleanup_tick \in Tick
  /\ users \in SUBSET Keys
  /\ active_requests \in [Keys -> [Directions -> Int]]
  /\ last_request_end_tick \in [Keys -> Tick]
  /\ share \in [Keys -> [Directions -> limit_share]]
  /\ pc \in [Streams -> Phases]
  /\ st \in [Streams -> weir_lim_state]
  /\ limit \in [Streams -> Keys \cup {Null}]
  /\ count \in [Streams -> Int]
  /\ crashed \in BOOLEAN

-----------------------------------------------------------------------------
\* parse_weir_flt at start-up: an empty table, the first clean-up one interval away.
Init ==
  /\ now_ms \in Tick
  /\ next_cleanup_tick = tick_add(now_ms, USERMAP_CLEANUP_INTERVAL_MS)
  /\ users = {}
  /\ active_requests = [k \in Keys |-> ZeroCounts]
  /\ last_request_end_tick = [k \in Keys |-> 0]
  /\ share = [k \in Keys |-> ZeroShares]
  /\ pc = [s \in Streams |-> "free"]
  /\ st = [s \in Streams |-> FreshState("dwn", TRUE)]
  /\ limit = [s \in Streams |-> Null]
  /\ count = [s \in Streams |-> 0]
  /\ crashed = FALSE

-----------------------------------------------------------------------------
weir_attach(s, meth, remote_addr) ==
  /\ ~crashed
  /\ pc[s] = "free"
  /\ pc' = [pc EXCEPT ![s] = "rules"]
  /\ st' = [st EXCEPT ![s] = FreshState(meth, remote_addr)]
  /\ UNCHANGED <<now_ms, next_cleanup_tick, table, limit, count, crashed>>

\* An activate-weir line runs: in http-request rules before the headers callback,
\* in http-response rules after it. On a stream that is already enabled it does nothing.
ActivateWeir(s) ==
  /\ ~crashed
  /\ \/ pc[s] = "rules" /\ "http-request" \in RuleSets
     \/ pc[s] = "forward" /\ "http-response" \in RuleSets
  /\ ~st[s].enabled

\* The direction fetch returned something unknown: an early return, with enabled set.
weir_enable_filter_bad_direction(s) ==
  /\ ActivateWeir(s)
  /\ "unknown" \in FetchedDirections
  /\ st' = [st EXCEPT ![s].enabled = TRUE, ![s].bandwidth_limit_direction = "unknown"]
  /\ UNCHANGED <<now_ms, next_cleanup_tick, table, pc, limit, count, crashed>>

\* The key fetch returned nothing: WEIR_BUG_ON(st->limit_key == NULL).
weir_enable_filter_no_key(s) ==
  /\ ActivateWeir(s)
  /\ Null \in FetchedKeys
  /\ FetchedDirections # {"unknown"}
  /\ crashed' = TRUE
  /\ UNCHANGED <<now_ms, next_cleanup_tick, table, pc, st, limit, count>>

\* Mutant: the request is counted as a download whatever its method.
CountAsDownload(key, meth) ==
  [active_requests EXCEPT ![key]["dwn"] = @ + 1]

\* The new request is counted in its user's entry.
CountRequest(key, meth) ==
  [active_requests EXCEPT ![key][meth] = @ + 1]

\* Mutant: the clean-up looks at the downloads only.
RemovableByDownloads(key, counts) ==
  /\ counts[key]["dwn"] <= 0
  /\ tick_is_expired(tick_add(last_request_end_tick[key],
                              USERMAP_CLEANUP_MIN_MS_SINCE_DISCONNECT), now_ms)

\* Mutant: the clean-up looks at the time of the last request only.
RemovableByTime(key, counts) ==
  tick_is_expired(tick_add(last_request_end_tick[key],
                           USERMAP_CLEANUP_MIN_MS_SINCE_DISCONNECT), now_ms)

\* An entry the clean-up frees: nobody active, and the last request ended long enough ago.
Removable(key, counts) ==
  /\ \A d \in Directions : counts[key][d] <= 0
  /\ tick_is_expired(tick_add(last_request_end_tick[key],
                              USERMAP_CLEANUP_MIN_MS_SINCE_DISCONNECT), now_ms)

\* The critical section of weir_enable_filter once the request is counted: every
\* removable entry is freed when the clean-up is due.
CleanUp(present, counts) ==
  LET removed == {k \in present : Removable(k, counts)}
  IN  /\ tick_is_expired(next_cleanup_tick, now_ms)
      /\ users' = present \ removed
      /\ active_requests' = [k \in Keys |-> IF k \in removed THEN ZeroCounts ELSE counts[k]]
      /\ last_request_end_tick' =
           [k \in Keys |-> IF k \in removed THEN 0 ELSE last_request_end_tick[k]]
      /\ share' = [k \in Keys |-> IF k \in removed THEN ZeroShares ELSE share[k]]
      /\ next_cleanup_tick' = tick_add(now_ms, USERMAP_CLEANUP_INTERVAL_MS)

NoCleanUp(present, counts) ==
  /\ ~tick_is_expired(next_cleanup_tick, now_ms)
  /\ users' = present
  /\ active_requests' = counts
  /\ UNCHANGED <<last_request_end_tick, share, next_cleanup_tick>>

\* The entry is looked up or inserted, the request counted, the table cleaned up.
weir_enable_filter(s, key, direction) ==
  /\ ActivateWeir(s)
  /\ active_requests[key][st[s].meth] < INT_MAX
  /\ st' = [st EXCEPT ![s].enabled = TRUE, ![s].bandwidth_limit_direction = direction]
  /\ limit' = [limit EXCEPT ![s] = key]
  /\ \/ CleanUp(users \cup {key}, CountRequest(key, st[s].meth))
     \/ NoCleanUp(users \cup {key}, CountRequest(key, st[s].meth))
  /\ UNCHANGED <<now_ms, pc, count, crashed>>

\* weir_http_headers of the request, up to the release of the read lock.
weir_http_headers(s) ==
  /\ ~crashed
  /\ pc[s] = "rules"
  /\ st[s].enabled /\ st[s].remote_addr
  /\ limit[s] # Null /\ st[s].bandwidth_limit_direction # Null
  /\ st' = [st EXCEPT ![s].headers_processed = TRUE]
  /\ count' = [count EXCEPT ![s] = active_requests[limit[s]][st[s].meth]]
  /\ pc' = [pc EXCEPT ![s] = "headers_log"]
  /\ UNCHANGED <<now_ms, next_cleanup_tick, table, limit, crashed>>

\* The callback finds nothing to do on this stream.
weir_http_headers_skip(s) ==
  /\ ~crashed
  /\ pc[s] = "rules"
  /\ ~(st[s].enabled /\ st[s].remote_addr)
  /\ pc' = [pc EXCEPT ![s] = "forward"]
  /\ UNCHANGED <<now_ms, next_cleanup_tick, table, st, limit, count, crashed>>

\* WEIR_BUG_ON(st->limit == NULL) and WEIR_BUG_ON(st->bandwidth_limit_direction == NULL).
weir_http_headers_bug(s) ==
  /\ ~crashed
  /\ pc[s] = "rules"
  /\ st[s].enabled /\ st[s].remote_addr
  /\ limit[s] = Null \/ st[s].bandwidth_limit_direction = Null
  /\ crashed' = TRUE
  /\ UNCHANGED <<now_ms, next_cleanup_tick, table, pc, st, limit, count>>

\* send_log("req~|~...") with the count read above.
SendReqLog(s) ==
  /\ ~crashed
  /\ pc[s] = "headers_log"
  /\ pc' = [pc EXCEPT ![s] = "forward"]
  /\ count' = [count EXCEPT ![s] = 0]
  /\ UNCHANGED <<now_ms, next_cleanup_tick, table, st, limit, crashed>>

\* The condition under which weir_detach counts the request down.
Counted(s) == st[s].enabled /\ st[s].headers_processed /\ st[s].remote_addr

\* weir_detach of a request the filter counted, up to the release of the write lock.
weir_detach(s) ==
  /\ ~crashed
  /\ pc[s] = "forward"
  /\ Counted(s)
  /\ last_request_end_tick' = [last_request_end_tick EXCEPT ![limit[s]] = now_ms]
  /\ active_requests' = [active_requests EXCEPT ![limit[s]][st[s].meth] = @ - 1]
  /\ count' = [count EXCEPT ![s] = active_requests[limit[s]][st[s].meth] - 1]
  /\ pc' = [pc EXCEPT ![s] = "detach_log"]
  /\ UNCHANGED <<now_ms, next_cleanup_tick, users, share, st, limit, crashed>>

\* The weir_lim_state of a stream is freed.
FreeState(s) ==
  /\ pc' = [pc EXCEPT ![s] = "free"]
  /\ st' = [st EXCEPT ![s] = FreshState("dwn", TRUE)]
  /\ limit' = [limit EXCEPT ![s] = Null]
  /\ count' = [count EXCEPT ![s] = 0]
  /\ UNCHANGED <<now_ms, next_cleanup_tick, table, crashed>>

\* send_log("req_end~|~...") with that count, then the state is freed.
SendReqEndLog(s) ==
  /\ ~crashed
  /\ pc[s] = "detach_log"
  /\ FreeState(s)

\* Mutant: a stream's state is freed without a look at whether it was counted.
DetachForgetsCount(s) ==
  /\ ~crashed
  /\ \/ pc[s] = "forward"
     \/ pc[s] = "rules" /\ (MayReject \/ ~st[s].enabled)
  /\ FreeState(s)

\* weir_detach of any other stream frees its state and nothing else: the filter
\* was not enabled, its headers callback did nothing, or a rule denied the request.
weir_detach_uncounted(s) ==
  /\ ~crashed
  /\ \/ pc[s] = "forward"
     \/ pc[s] = "rules" /\ (MayReject \/ ~st[s].enabled)
  /\ ~Counted(s)
  /\ FreeState(s)

\* Mutant: a share is stored whatever its timestamp.
AnyShare(old, timestamp, new_limit_share) ==
  [limit_received |-> TRUE, limit_timestamp |-> timestamp,
   bytes_per_second |-> IF new_limit_share > UINT_MAX THEN UINT_MAX ELSE new_limit_share]

\* Mutant: a share is not clamped to an unsigned int.
UnclampedShare(old, timestamp, new_limit_share) ==
  [limit_received |-> TRUE, limit_timestamp |-> timestamp,
   bytes_per_second |-> new_limit_share]

\* A share is clamped to an unsigned int; one with an older timestamp than the one
\* stored leaves the limit alone.
NewShare(old, timestamp, new_limit_share) ==
  IF timestamp >= old.limit_timestamp
  THEN [limit_received |-> TRUE, limit_timestamp |-> timestamp,
        bytes_per_second |-> IF new_limit_share > UINT_MAX THEN UINT_MAX ELSE new_limit_share]
  ELSE [limit_received |-> TRUE, limit_timestamp |-> old.limit_timestamp,
        bytes_per_second |-> old.bytes_per_second]

\* Only for this instance's id; an update for another instance changes nothing. A
\* direction that is neither "up" nor "dwn" only inserts the entry.
weir_ingest_limit_share_update(timestamp, key, direction, new_limit_share) ==
  /\ ~crashed
  /\ users' = users \cup {key}
  /\ \/ /\ direction \in Directions
        /\ share' = [share EXCEPT ![key][direction] =
                       NewShare(share[key][direction], timestamp, new_limit_share)]
     \/ /\ direction \notin Directions
        /\ UNCHANGED share
  /\ UNCHANGED <<now_ms, next_cleanup_tick, active_requests, last_request_end_tick,
                 pc, st, limit, count, crashed>>

\* External: HAProxy's clock.
ClockTick ==
  /\ ~crashed
  /\ now_ms' = NextTick(now_ms)
  /\ UNCHANGED <<next_cleanup_tick, table, pc, st, limit, count, crashed>>

StreamStep(s) ==
  \/ \E meth \in VerbDirections, a \in RemoteAddrs : weir_attach(s, meth, a)
  \/ weir_enable_filter_bad_direction(s)
  \/ weir_enable_filter_no_key(s)
  \/ \E key \in FetchedKeys \ {Null}, dir \in FetchedDirections \ {"unknown"} :
        weir_enable_filter(s, key, dir)
  \/ weir_http_headers(s)
  \/ weir_http_headers_skip(s)
  \/ weir_http_headers_bug(s)
  \/ SendReqLog(s)
  \/ weir_detach(s)
  \/ SendReqEndLog(s)
  \/ weir_detach_uncounted(s)

ShareUpdate ==
  \E ts \in ShareTimestamps, key \in Keys, dir \in ShareDirections, new \in Shares :
     weir_ingest_limit_share_update(ts, key, dir, new)

Next ==
  \/ \E s \in Streams : StreamStep(s)
  \/ ShareUpdate
  \/ ClockTick

Spec == Init /\ [][Next]_vars

-----------------------------------------------------------------------------
\* Streams that were counted for a user and a direction and not yet uncounted.
Holders(key, d) ==
  {s \in Streams : /\ pc[s] \in {"rules", "headers_log", "forward"}
                   /\ limit[s] = key
                   /\ st[s].meth = d}

\* weir_lim_state.limit is dereferenced without a lookup by weir_http_headers and
\* weir_detach, on the ground that the entry outlives every filter of its user: the
\* clean-up another stream runs never frees an entry that a stream may still follow.
LimitPointerValid ==
  \A s \in Streams : limit[s] # Null /\ pc[s] # "detach_log" => limit[s] \in users

\* No request is missing from the counts, whatever the config does: every stream that
\* holds a user's entry is counted in it. This is what keeps the clean-up away from
\* entries in use, and active_requests from going below zero (the WARN_ONs).
HoldersCounted ==
  \A key \in Keys, d \in Directions :
     Cardinality(Holders(key, d)) <= active_requests[key][d]

\* The converse: active_requests counts nothing but live requests, so a user whose
\* requests have all ended has the count 0.
ActiveCountExact ==
  \A key \in users, d \in Directions :
     active_requests[key][d] = Cardinality(Holders(key, d))

\* The count a thread reads under the lock and logs after it: a starting request sees
\* at least itself, whatever the other threads did in between, and an ending one never
\* reports a negative number.
ReportedCountsSane ==
  \A s \in Streams :
     /\ pc[s] = "headers_log" => count[s] >= 1
     /\ pc[s] = "detach_log" => count[s] >= 0

\* Limit shares come from several policy-generator connections in any order: while an
\* entry lives, a share is only replaced by one at least as recent.
ShareNeverGoesBack ==
  [][\A key \in users \cap users', d \in Directions :
       /\ share'[key][d].limit_timestamp >= share[key][d].limit_timestamp
       /\ share[key][d].limit_received => share'[key][d].limit_received]_vars
=============================================================================
