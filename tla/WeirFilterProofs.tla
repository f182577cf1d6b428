-------------------------- MODULE WeirFilterProofs --------------------------
(***************************************************************************)
(* Proofs about WeirFilter for every set of streams and keys, every clock   *)
(* width and every configuration: its types, that every request which holds *)
(* a user's entry is counted in it, and hence that no stream follows a      *)
(* pointer to an entry the clean-up has freed.                              *)
(***************************************************************************)
EXTENDS WeirFilter, FiniteSetTheorems, TLAPS

\* How a stream's pointer goes with its flags: only an enabled stream has one, a
\* stream whose headers were processed has one, and a freed stream has none.
PointerFollowsFlags ==
  \A s \in Streams :
     /\ limit[s] # Null => st[s].enabled
     /\ st[s].headers_processed => limit[s] # Null
     /\ pc[s] = "free" => limit[s] = Null

\* The inductive invariant.
IndInv ==
  /\ TypeOK
  /\ PointerFollowsFlags
  /\ HoldersCounted
  /\ LimitPointerValid
  /\ ReportedCountsSane

-----------------------------------------------------------------------------
\* tick_add stays within the machine word.
LEMMA TickAddType ==
  ASSUME NEW t \in Tick, NEW delay \in Nat
  PROVE  tick_add(t, delay) \in Tick
<1>1. (t + delay) % TickRange \in 0 .. TickRange - 1
  BY TickRangeAssumption DEF Tick
<1>2. QED
  BY <1>1, TickRangeAssumption DEF tick_add, Tick, TICK_ETERNITY

\* The clock stays within the machine word.
LEMMA NextTickType ==
  ASSUME NEW t \in Tick
  PROVE  NextTick(t) \in Tick
BY TickRangeAssumption DEF NextTick, Tick

\* A freshly allocated entry and a freshly attached stream have their types.
LEMMA FreshTypes ==
  /\ 0 \in Tick
  /\ ZeroCounts \in [Directions -> Int]
  /\ ZeroShares \in [Directions -> limit_share]
  /\ \A meth \in Directions, a \in BOOLEAN : FreshState(meth, a) \in weir_lim_state
  /\ "dwn" \in Directions
<1>1. 0 \in Tick /\ 0 \in 0 .. UINT_MAX
  BY TickRangeAssumption, FilterAssumption DEF Tick
<1>2. QED
  BY <1>1 DEF ZeroCounts, ZeroShares, limit_share, FreshState, weir_lim_state, Directions

\* Storing a limit share keeps its type: this is what the clamp is for.
LEMMA ShareType ==
  ASSUME NEW old \in limit_share, NEW ts \in Nat, NEW new \in Nat
  PROVE  NewShare(old, ts, new) \in limit_share
BY FilterAssumption DEF NewShare, limit_share

-----------------------------------------------------------------------------
\* Every handler keeps the types.
LEMMA TypeStep == TypeOK /\ PointerFollowsFlags /\ [Next]_vars => TypeOK'
<1> SUFFICES ASSUME TypeOK, PointerFollowsFlags, [Next]_vars PROVE TypeOK'
  OBVIOUS
<1>1. ASSUME NEW s \in Streams, NEW meth \in VerbDirections, NEW a \in RemoteAddrs,
             weir_attach(s, meth, a)
      PROVE  TypeOK'
  <2>1. FreshState(meth, a) \in weir_lim_state
    BY FreshTypes, FilterAssumption
  <2>2. QED
    BY <1>1, <2>1 DEF TypeOK, weir_attach, Phases, table
<1>2. ASSUME NEW s \in Streams, weir_enable_filter_bad_direction(s)
      PROVE  TypeOK'
  BY <1>2, ZenonT(60) DEF TypeOK, weir_enable_filter_bad_direction, weir_lim_state, table
<1>3. ASSUME NEW s \in Streams, weir_enable_filter_no_key(s)
      PROVE  TypeOK'
  BY <1>3 DEF TypeOK, weir_enable_filter_no_key, table
<1>4. ASSUME NEW s \in Streams, NEW key \in FetchedKeys \ {Null},
             NEW dir \in FetchedDirections \ {"unknown"}, weir_enable_filter(s, key, dir)
      PROVE  TypeOK'
  <2> DEFINE counts == CountRequest(key, st[s].meth)
             present == users \cup {key}
  <2>1. key \in Keys /\ dir \in {"up", "dwn", "unknown", Null}
    BY FilterAssumption
  <2>2. counts \in [Keys -> [Directions -> Int]]
    BY <2>1 DEF TypeOK, CountRequest, weir_lim_state
  <2>3. present \in SUBSET Keys
    BY <2>1 DEF TypeOK
  <2>4. st' \in [Streams -> weir_lim_state] /\ limit' \in [Streams -> Keys \cup {Null}]
    BY <1>4, <2>1, ZenonT(60) DEF TypeOK, weir_enable_filter, weir_lim_state
  <2> HIDE DEF counts, present
  <2>5. CASE CleanUp(present, counts)
    <3>1. tick_add(now_ms, USERMAP_CLEANUP_INTERVAL_MS) \in Tick
      BY TickAddType, FilterAssumption DEF TypeOK
    <3>2. QED
      BY <1>4, <2>2, <2>3, <2>4, <2>5, <3>1, FreshTypes
      DEF TypeOK, weir_enable_filter, CleanUp
  <2>6. CASE NoCleanUp(present, counts)
    BY <1>4, <2>2, <2>3, <2>4, <2>6 DEF TypeOK, weir_enable_filter, NoCleanUp
  <2>7. QED
    BY <1>4, <2>5, <2>6 DEF weir_enable_filter, counts, present
<1>5. ASSUME NEW s \in Streams, weir_http_headers(s)
      PROVE  TypeOK'
  <2>1. active_requests[limit[s]][st[s].meth] \in Int
    BY <1>5 DEF TypeOK, weir_http_headers, weir_lim_state
  <2>2. QED
    BY <1>5, <2>1 DEF TypeOK, weir_http_headers, weir_lim_state, Phases, table
<1>6. ASSUME NEW s \in Streams, weir_http_headers_skip(s)
      PROVE  TypeOK'
  BY <1>6 DEF TypeOK, weir_http_headers_skip, Phases, table
<1>7. ASSUME NEW s \in Streams, weir_http_headers_bug(s)
      PROVE  TypeOK'
  BY <1>7 DEF TypeOK, weir_http_headers_bug, table
<1>8. ASSUME NEW s \in Streams, SendReqLog(s)
      PROVE  TypeOK'
  BY <1>8 DEF TypeOK, SendReqLog, Phases, table
<1>9. ASSUME NEW s \in Streams, weir_detach(s)
      PROVE  TypeOK'
  <2>1. limit[s] \in Keys /\ st[s].meth \in Directions
    BY <1>9 DEF TypeOK, PointerFollowsFlags, weir_detach, Counted, weir_lim_state
  <2>2. QED
    BY <1>9, <2>1 DEF TypeOK, weir_detach, Phases
<1>10. ASSUME NEW s \in Streams, FreeState(s)
       PROVE  TypeOK'
  <2>1. FreshState("dwn", TRUE) \in weir_lim_state
    BY FreshTypes
  <2> DEFINE fresh == FreshState("dwn", TRUE)
  <2>2. st' = [st EXCEPT ![s] = fresh]
    BY <1>10 DEF FreeState
  <2> HIDE DEF fresh
  <2>3. st' \in [Streams -> weir_lim_state]
    BY <2>1, <2>2 DEF TypeOK, fresh
  <2>4. pc' \in [Streams -> Phases] /\ limit' \in [Streams -> Keys \cup {Null}]
        /\ count' \in [Streams -> Int]
    BY <1>10 DEF TypeOK, FreeState, Phases
  <2>5. UNCHANGED <<now_ms, next_cleanup_tick, users, active_requests,
                    last_request_end_tick, share, crashed>>
    BY <1>10 DEF FreeState, table
  <2>6. QED
    BY <2>3, <2>4, <2>5 DEF TypeOK
<1>11. ASSUME NEW ts \in ShareTimestamps, NEW key \in Keys, NEW dir \in ShareDirections,
              NEW new \in Shares, weir_ingest_limit_share_update(ts, key, dir, new)
       PROVE  TypeOK'
  <2>1. CASE dir \in Directions
    <3>1. NewShare(share[key][dir], ts, new) \in limit_share
      BY <2>1, ShareType, FilterAssumption DEF TypeOK
    <3>2. share' = [share EXCEPT ![key][dir] = NewShare(share[key][dir], ts, new)]
          /\ share \in [Keys -> [Directions -> limit_share]]
      BY <1>11, <2>1 DEF TypeOK, weir_ingest_limit_share_update
    <3>3. share' \in [Keys -> [Directions -> limit_share]]
      BY <2>1, <3>1, <3>2
    <3>4. QED
      BY <1>11, <3>3 DEF TypeOK, weir_ingest_limit_share_update
  <2>2. CASE dir \notin Directions
    BY <1>11, <2>2 DEF TypeOK, weir_ingest_limit_share_update
  <2>3. QED
    BY <2>1, <2>2
<1>12. CASE ClockTick
  BY <1>12, NextTickType DEF TypeOK, ClockTick, table
<1>13. CASE UNCHANGED vars
  BY <1>13 DEF TypeOK, vars, table
<1>14. QED
  BY <1>1, <1>2, <1>3, <1>4, <1>5, <1>6, <1>7, <1>8, <1>9, <1>10, <1>11, <1>12, <1>13
  DEF Next, StreamStep, ShareUpdate, SendReqEndLog, weir_detach_uncounted

-----------------------------------------------------------------------------
\* Sets of streams are finite, and their cardinalities behave as expected.
LEMMA StreamSets ==
  ASSUME NEW A \in SUBSET Streams
  PROVE  /\ IsFiniteSet(A) /\ Cardinality(A) \in Nat
         /\ \A B \in SUBSET A : Cardinality(B) <= Cardinality(A)
         /\ \A s \in Streams : Cardinality(A \cup {s}) <= Cardinality(A) + 1
         /\ \A s \in A : Cardinality(A) >= 1 /\ Cardinality(A \ {s}) = Cardinality(A) - 1
<1>1. IsFiniteSet(A) /\ Cardinality(A) \in Nat
  BY FS_Subset, FS_CardinalityType, FilterAssumption
<1>2. \A B \in SUBSET A : Cardinality(B) <= Cardinality(A)
  BY <1>1, FS_Subset
<1>3. \A s \in Streams : Cardinality(A \cup {s}) <= Cardinality(A) + 1
  BY <1>1, FS_AddElement
<1>4. ASSUME NEW s \in A
      PROVE  Cardinality(A) >= 1 /\ Cardinality(A \ {s}) = Cardinality(A) - 1
  <2>1. Cardinality(A \ {s}) = Cardinality(A) - 1 /\ IsFiniteSet(A \ {s})
    BY <1>1, FS_RemoveElement
  <2>2. Cardinality(A \ {s}) \in Nat
    BY <2>1, FS_CardinalityType
  <2>3. QED
    BY <1>1, <2>1, <2>2
<1>5. QED
  BY <1>1, <1>2, <1>3, <1>4

\* A step that leaves the counts alone and lets nobody new hold an entry keeps every
\* holder counted.
LEMMA HoldersShrink ==
  ASSUME TypeOK, HoldersCounted, UNCHANGED active_requests,
         \A key \in Keys, d \in Directions : Holders(key, d)' \subseteq Holders(key, d)
  PROVE  HoldersCounted'
<1> SUFFICES ASSUME NEW key \in Keys, NEW d \in Directions
             PROVE  Cardinality(Holders(key, d)') <= active_requests[key][d]
  BY DEF HoldersCounted
<1>1. Holders(key, d) \in SUBSET Streams
  BY DEF Holders
<1>2. Holders(key, d)' \subseteq Holders(key, d)
  OBVIOUS
<1> DEFINE A == Holders(key, d)
           B == Holders(key, d)'
<1>3. Cardinality(A) <= active_requests[key][d]
  BY DEF HoldersCounted
<1>4. active_requests[key][d] \in Int
  BY DEF TypeOK
<1> HIDE DEF A, B
<1>5. B \in SUBSET A /\ A \in SUBSET Streams
  BY <1>1, <1>2 DEF A, B
<1>6. Cardinality(B) <= Cardinality(A) /\ Cardinality(A) \in Nat /\ Cardinality(B) \in Nat
  BY <1>5, StreamSets
<1>7. Cardinality(B) <= active_requests[key][d]
  BY <1>3, <1>4, <1>6
<1>8. QED
  BY <1>7 DEF B

\* A stream that follows its pointer is one of the holders the entry counts.
LEMMA HolderIsCounted ==
  ASSUME IndInv, NEW s \in Streams, limit[s] # Null, pc[s] # "detach_log"
  PROVE  /\ limit[s] \in Keys /\ st[s].meth \in Directions
         /\ s \in Holders(limit[s], st[s].meth)
         /\ active_requests[limit[s]][st[s].meth] >= 1
<1>1. limit[s] \in Keys /\ st[s].meth \in Directions
  BY DEF IndInv, TypeOK, weir_lim_state
<1>2. pc[s] \in {"rules", "headers_log", "forward"}
  BY DEF IndInv, TypeOK, PointerFollowsFlags, Phases
<1>3. s \in Holders(limit[s], st[s].meth)
  BY <1>1, <1>2 DEF Holders
<1> DEFINE A == Holders(limit[s], st[s].meth)
<1>4. A \in SUBSET Streams /\ s \in A
  BY <1>3 DEF Holders
<1>5. Cardinality(A) <= active_requests[limit[s]][st[s].meth]
  BY <1>1 DEF IndInv, HoldersCounted
<1>6. active_requests[limit[s]][st[s].meth] \in Int
  BY <1>1 DEF IndInv, TypeOK
<1> HIDE DEF A
<1>7. Cardinality(A) >= 1 /\ Cardinality(A) \in Nat
  BY <1>4, StreamSets
<1>8. active_requests[limit[s]][st[s].meth] >= 1
  BY <1>5, <1>6, <1>7
<1>9. QED
  BY <1>1, <1>3, <1>8

\* Pointers keep going with the flags.
LEMMA PointerStep == TypeOK /\ PointerFollowsFlags /\ [Next]_vars => PointerFollowsFlags'
<1> SUFFICES ASSUME TypeOK, PointerFollowsFlags, [Next]_vars PROVE PointerFollowsFlags'
  OBVIOUS
<1> USE DEF TypeOK, PointerFollowsFlags, weir_lim_state
<1>1. ASSUME NEW s \in Streams, NEW meth \in VerbDirections, NEW a \in RemoteAddrs,
             weir_attach(s, meth, a)
      PROVE  PointerFollowsFlags'
  BY <1>1 DEF weir_attach, FreshState
<1>2. ASSUME NEW s \in Streams, weir_enable_filter_bad_direction(s)
      PROVE  PointerFollowsFlags'
  BY <1>2 DEF weir_enable_filter_bad_direction
<1>3. ASSUME NEW s \in Streams, NEW key \in FetchedKeys \ {Null},
             NEW dir \in FetchedDirections \ {"unknown"}, weir_enable_filter(s, key, dir)
      PROVE  PointerFollowsFlags'
  BY <1>3 DEF weir_enable_filter, ActivateWeir
<1>4. ASSUME NEW s \in Streams, weir_http_headers(s)
      PROVE  PointerFollowsFlags'
  BY <1>4 DEF weir_http_headers
<1>5. ASSUME NEW s \in Streams,
             weir_http_headers_skip(s) \/ SendReqLog(s) \/ weir_detach(s)
      PROVE  PointerFollowsFlags'
  BY <1>5 DEF weir_http_headers_skip, SendReqLog, weir_detach
<1>6. ASSUME NEW s \in Streams, FreeState(s)
      PROVE  PointerFollowsFlags'
  BY <1>6 DEF FreeState, FreshState
<1>7. ASSUME UNCHANGED <<pc, st, limit>>
      PROVE  PointerFollowsFlags'
  BY <1>7
<1>8. QED
  BY <1>1, <1>2, <1>3, <1>4, <1>5, <1>6, <1>7
  DEF Next, StreamStep, ShareUpdate, SendReqEndLog, weir_detach_uncounted, vars,
      weir_enable_filter_no_key, weir_http_headers_bug, ClockTick,
      weir_ingest_limit_share_update

\* weir_enable_filter, the step that frees entries: the new request is counted before
\* the clean-up looks, so every holder's entry has a positive count and survives.
LEMMA EnableStep ==
  ASSUME IndInv, NEW s \in Streams, NEW key \in FetchedKeys \ {Null},
         NEW dir \in FetchedDirections \ {"unknown"}, weir_enable_filter(s, key, dir)
  PROVE  HoldersCounted' /\ LimitPointerValid' /\ ReportedCountsSane'
<1> DEFINE meth == st[s].meth
           counts == CountRequest(key, meth)
           present == users \cup {key}
<1>1. key \in Keys /\ meth \in Directions /\ key # Null
  BY FilterAssumption DEF IndInv, TypeOK, weir_lim_state
<1>2. counts \in [Keys -> [Directions -> Int]]
      /\ \A k \in Keys, d \in Directions :
           counts[k][d] = IF k = key /\ d = meth THEN active_requests[k][d] + 1
                                                 ELSE active_requests[k][d]
  BY <1>1 DEF IndInv, TypeOK, CountRequest
<1>3. /\ limit' = [limit EXCEPT ![s] = key]
      /\ UNCHANGED <<pc, count>>
      /\ pc[s] \in {"rules", "forward"} /\ ~st[s].enabled
      /\ \A x \in Streams : st'[x].meth = st[x].meth
  BY DEF IndInv, TypeOK, weir_lim_state, weir_enable_filter, ActivateWeir
<1>4. ASSUME NEW k \in Keys, NEW d \in Directions
      PROVE  Cardinality(Holders(k, d)') <= counts[k][d]
  <2> DEFINE A == Holders(k, d)
             B == Holders(k, d)'
  <2>1. A \in SUBSET Streams /\ B \in SUBSET Streams
    BY DEF Holders
  <2>2. B \subseteq A \cup {s} /\ ((k # key \/ d # meth) => B \subseteq A)
    BY <1>1, <1>3 DEF Holders, IndInv, TypeOK
  <2>3. Cardinality(A) <= active_requests[k][d] /\ active_requests[k][d] \in Int
    BY DEF IndInv, HoldersCounted, TypeOK
  <2> HIDE DEF A, B
  <2>4. Cardinality(A) \in Nat /\ Cardinality(B) \in Nat
        /\ Cardinality(A \cup {s}) <= Cardinality(A) + 1
        /\ Cardinality(A \cup {s}) \in Nat
    <3>1. A \cup {s} \in SUBSET Streams
      BY <2>1
    <3>2. QED
      BY <2>1, <3>1, StreamSets
  <2>5. Cardinality(B) <= Cardinality(A \cup {s})
    BY <2>1, <2>2, StreamSets
  <2>6. (k # key \/ d # meth) => Cardinality(B) <= Cardinality(A)
    BY <2>1, <2>2, StreamSets
  <2> HIDE DEF counts, meth
  <2>7. Cardinality(B) <= counts[k][d]
    BY <1>2, <2>3, <2>4, <2>5, <2>6
  <2>8. QED
    BY <2>7 DEF B
<1>5. ASSUME NEW x \in Streams, limit'[x] # Null, pc[x] # "detach_log"
      PROVE  limit'[x] \in present /\ limit'[x] \in Keys
             /\ \E d \in Directions : counts[limit'[x]][d] >= 1
  <2>1. CASE x = s
    <3>1. limit'[x] = key
      BY <1>3, <2>1 DEF IndInv, TypeOK
    <3>9. PICK m \in Directions : m = st[s].meth
      BY <1>1
    <3>2. s \in Holders(key, m)'
      BY <1>1, <1>3, <3>9 DEF Holders, IndInv, TypeOK
    <3> DEFINE B == Holders(key, m)'
    <3>3. B \in SUBSET Streams /\ s \in B /\ Cardinality(B) <= counts[key][m]
      BY <1>1, <1>4, <3>2 DEF Holders
    <3> HIDE DEF B
    <3>4. Cardinality(B) >= 1 /\ Cardinality(B) \in Nat
      BY <3>3, StreamSets
    <3>5. counts[key][m] \in Int
      BY <1>1, <1>2
    <3> HIDE DEF counts
    <3>6. counts[key][m] >= 1
      BY <3>3, <3>4, <3>5
    <3>7. QED
      BY <1>1, <3>1, <3>6 DEF present
  <2>2. CASE x # s
    <3>1. limit'[x] = limit[x]
      BY <1>3, <2>2 DEF IndInv, TypeOK
    <3>2. limit[x] \in users
      BY <1>5, <3>1 DEF IndInv, LimitPointerValid
    <3>3. limit[x] \in Keys /\ st[x].meth \in Directions
          /\ active_requests[limit[x]][st[x].meth] >= 1
      BY <1>5, <3>1, HolderIsCounted
    <3>4. active_requests[limit[x]][st[x].meth] \in Int
      BY <3>3 DEF IndInv, TypeOK
    <3> HIDE DEF counts
    <3>5. counts[limit[x]][st[x].meth] >= 1
      BY <1>2, <3>3, <3>4
    <3>6. QED
      BY <3>1, <3>2, <3>3, <3>5
  <2>3. QED
    BY <2>1, <2>2
<1>6. CleanUp(present, counts) \/ NoCleanUp(present, counts)
  BY DEF weir_enable_filter
<1> HIDE DEF counts, present, meth
<1>7. ReportedCountsSane'
  BY <1>3 DEF IndInv, ReportedCountsSane
<1>8. CASE NoCleanUp(present, counts)
  <2>1. HoldersCounted'
    BY <1>4, <1>8 DEF NoCleanUp, HoldersCounted
  <2>2. LimitPointerValid'
    BY <1>3, <1>5, <1>8 DEF NoCleanUp, LimitPointerValid
  <2>3. QED
    BY <1>7, <2>1, <2>2
<1>9. CASE CleanUp(present, counts)
  <2> DEFINE removed == {k \in present : Removable(k, counts)}
  <2>1. /\ users' = present \ removed
        /\ active_requests' =
             [k \in Keys |-> IF k \in removed THEN ZeroCounts ELSE counts[k]]
    BY <1>9 DEF CleanUp
  <2>2. \A k \in removed : \A d \in Directions : counts[k][d] <= 0
    BY DEF Removable
  <2>3. HoldersCounted'
    <3> SUFFICES ASSUME NEW k \in Keys, NEW d \in Directions
                 PROVE  Cardinality(Holders(k, d)') <= active_requests'[k][d]
      BY DEF HoldersCounted
    <3> DEFINE B == Holders(k, d)'
    <3>1. Cardinality(B) <= counts[k][d] /\ counts[k][d] \in Int
      BY <1>2, <1>4
    <3>2. B \in SUBSET Streams
      BY DEF Holders
    <3> HIDE DEF B, removed
    <3>3. Cardinality(B) \in Nat
      BY <3>2, StreamSets
    <3>4. Cardinality(B) <= active_requests'[k][d]
      BY <2>1, <2>2, <3>1, <3>3 DEF ZeroCounts
    <3>5. QED
      BY <3>4 DEF B
  <2>4. LimitPointerValid'
    <3> SUFFICES ASSUME NEW x \in Streams, limit'[x] # Null, pc'[x] # "detach_log"
                 PROVE  limit'[x] \in users'
      BY DEF LimitPointerValid
    <3>1. PICK d \in Directions : counts[limit'[x]][d] >= 1
      BY <1>3, <1>5
    <3>2. limit'[x] \in present /\ limit'[x] \in Keys
      BY <1>3, <1>5
    <3>3. counts[limit'[x]][d] \in Int
      BY <1>2, <3>2
    <3> HIDE DEF removed
    <3>4. limit'[x] \notin removed
      BY <2>2, <3>1, <3>3
    <3>5. QED
      BY <2>1, <3>2, <3>4
  <2>5. QED
    BY <1>7, <2>3, <2>4
<1>10. QED
  BY <1>6, <1>8, <1>9

\* weir_detach: the count goes down with the set of holders, so what is logged is not
\* negative.
LEMMA DetachStep ==
  ASSUME IndInv, NEW s \in Streams, weir_detach(s)
  PROVE  HoldersCounted' /\ LimitPointerValid' /\ ReportedCountsSane'
<1>1. limit[s] # Null /\ pc[s] = "forward" /\ pc' = [pc EXCEPT ![s] = "detach_log"]
      /\ UNCHANGED <<st, limit, users>>
  BY DEF IndInv, PointerFollowsFlags, weir_detach, Counted
<1>2. PICK key \in Keys, m \in Directions : key = limit[s] /\ m = st[s].meth
  BY <1>1 DEF IndInv, TypeOK, weir_lim_state
<1>3. s \in Holders(key, m) /\ active_requests[key][m] >= 1
  BY <1>1, <1>2, HolderIsCounted
<1>4. /\ active_requests' = [active_requests EXCEPT ![key][m] = @ - 1]
      /\ count' = [count EXCEPT ![s] = active_requests[key][m] - 1]
  BY <1>2 DEF weir_detach
<1>5. active_requests \in [Keys -> [Directions -> Int]] /\ pc \in [Streams -> Phases]
      /\ count \in [Streams -> Int]
  BY DEF IndInv, TypeOK
<1>6. HoldersCounted'
  <2> SUFFICES ASSUME NEW k \in Keys, NEW d \in Directions
               PROVE  Cardinality(Holders(k, d)') <= active_requests'[k][d]
    BY DEF HoldersCounted
  <2> DEFINE A == Holders(k, d)
             B == Holders(k, d)'
  <2>1. A \in SUBSET Streams /\ B \in SUBSET A
    BY <1>1, <1>5 DEF Holders
  <2>2. (k = key /\ d = m) => s \in A /\ B \in SUBSET (A \ {s})
    BY <1>1, <1>3, <1>5, <2>1 DEF Holders
  <2>3. Cardinality(A) <= active_requests[k][d]
    BY DEF IndInv, HoldersCounted
  <2> HIDE DEF A, B
  <2>4. Cardinality(A) \in Nat /\ Cardinality(B) \in Nat /\ Cardinality(B) <= Cardinality(A)
    <3>1. B \in SUBSET Streams
      BY <2>1
    <3>2. QED
      BY <2>1, <3>1, StreamSets
  <2>5. (k = key /\ d = m) => Cardinality(B) <= Cardinality(A) - 1
    <3>1. SUFFICES ASSUME k = key, d = m PROVE Cardinality(B) <= Cardinality(A) - 1
      OBVIOUS
    <3>2. A \ {s} \in SUBSET Streams /\ s \in A /\ B \in SUBSET (A \ {s})
      BY <2>1, <2>2, <3>1
    <3>3. Cardinality(A \ {s}) = Cardinality(A) - 1
      BY <2>1, <3>2, StreamSets
    <3>4. Cardinality(B) <= Cardinality(A \ {s})
      BY <3>2, StreamSets
    <3>5. QED
      BY <3>3, <3>4
  <2>6. Cardinality(B) <= active_requests'[k][d]
    BY <1>4, <1>5, <2>3, <2>4, <2>5
  <2>7. QED
    BY <2>6 DEF B
<1>7. LimitPointerValid'
  BY <1>1, <1>5 DEF IndInv, LimitPointerValid
<1>8. ReportedCountsSane'
  <2> SUFFICES ASSUME NEW x \in Streams
               PROVE  /\ pc'[x] = "headers_log" => count'[x] >= 1
                      /\ pc'[x] = "detach_log" => count'[x] >= 0
    BY DEF ReportedCountsSane
  <2>1. CASE x = s
    <3>1. pc'[x] = "detach_log" /\ count'[x] = active_requests[key][m] - 1
      BY <1>1, <1>4, <1>5, <2>1
    <3>2. QED
      BY <1>3, <1>5, <3>1
  <2>2. CASE x # s
    BY <1>1, <1>4, <1>5, <2>2 DEF IndInv, ReportedCountsSane
  <2>3. QED
    BY <2>1, <2>2
<1>9. QED
  BY <1>6, <1>7, <1>8

\* weir_http_headers reads a count that includes the stream itself.
LEMMA HeadersStep ==
  ASSUME IndInv, NEW s \in Streams, weir_http_headers(s)
  PROVE  HoldersCounted' /\ LimitPointerValid' /\ ReportedCountsSane'
<1>1. /\ limit[s] # Null /\ pc[s] = "rules" /\ pc' = [pc EXCEPT ![s] = "headers_log"]
      /\ count' = [count EXCEPT ![s] = active_requests[limit[s]][st[s].meth]]
      /\ UNCHANGED <<limit, users, active_requests>>
      /\ \A x \in Streams : st'[x].meth = st[x].meth
  BY DEF IndInv, TypeOK, weir_lim_state, weir_http_headers, table
<1>2. pc \in [Streams -> Phases] /\ count \in [Streams -> Int]
  BY DEF IndInv, TypeOK
<1>3. HoldersCounted'
  <2>1. \A key \in Keys, d \in Directions : Holders(key, d)' \subseteq Holders(key, d)
    BY <1>1, <1>2 DEF Holders
  <2>2. QED
    BY <1>1, <2>1, HoldersShrink DEF IndInv
<1>4. LimitPointerValid'
  BY <1>1, <1>2 DEF IndInv, LimitPointerValid
<1>5. ReportedCountsSane'
  <2>1. active_requests[limit[s]][st[s].meth] >= 1
    BY <1>1, HolderIsCounted
  <2>2. QED
    BY <1>1, <1>2, <2>1 DEF IndInv, ReportedCountsSane
<1>6. QED
  BY <1>3, <1>4, <1>5

\* Freeing a stream's state only takes a holder away.
LEMMA FreeStep ==
  ASSUME IndInv, NEW s \in Streams, FreeState(s)
  PROVE  HoldersCounted' /\ LimitPointerValid' /\ ReportedCountsSane'
<1>1. /\ pc' = [pc EXCEPT ![s] = "free"] /\ limit' = [limit EXCEPT ![s] = Null]
      /\ count' = [count EXCEPT ![s] = 0]
      /\ UNCHANGED <<users, active_requests>>
      /\ \A x \in Streams : x # s => st'[x] = st[x]
  BY DEF IndInv, TypeOK, FreeState, table
<1>2. pc \in [Streams -> Phases] /\ count \in [Streams -> Int]
      /\ limit \in [Streams -> Keys \cup {Null}]
  BY DEF IndInv, TypeOK
<1>3. HoldersCounted'
  <2>1. \A key \in Keys, d \in Directions : Holders(key, d)' \subseteq Holders(key, d)
    BY <1>1, <1>2 DEF Holders
  <2>2. QED
    BY <1>1, <2>1, HoldersShrink DEF IndInv
<1>4. LimitPointerValid'
  BY <1>1, <1>2 DEF IndInv, LimitPointerValid
<1>5. ReportedCountsSane'
  BY <1>1, <1>2 DEF IndInv, ReportedCountsSane
<1>6. QED
  BY <1>3, <1>4, <1>5

\* A stream that moves on without touching counts or pointers.
LEMMA MoveStep ==
  ASSUME IndInv, NEW s \in Streams, UNCHANGED <<limit, users, active_requests>>,
         \/ \E meth \in VerbDirections, a \in RemoteAddrs : weir_attach(s, meth, a)
         \/ weir_http_headers_skip(s)
         \/ SendReqLog(s)
  PROVE  HoldersCounted' /\ LimitPointerValid' /\ ReportedCountsSane'
<1>1. PICK p \in {"rules", "forward"} : pc' = [pc EXCEPT ![s] = p]
  BY DEF weir_attach, weir_http_headers_skip, SendReqLog
<1>2. \A x \in Streams : x # s => st'[x] = st[x] /\ count'[x] = count[x]
  BY DEF IndInv, TypeOK, weir_attach, weir_http_headers_skip, SendReqLog
<1>3. limit[s] = Null \/ (st'[s] = st[s] /\ pc[s] \in {"rules", "headers_log"})
  BY DEF IndInv, PointerFollowsFlags, weir_attach, weir_http_headers_skip, SendReqLog
<1>4. pc \in [Streams -> Phases] /\ Null \notin Keys
  BY FilterAssumption DEF IndInv, TypeOK
<1>5. HoldersCounted'
  <2>1. \A key \in Keys, d \in Directions : Holders(key, d)' \subseteq Holders(key, d)
    BY <1>1, <1>2, <1>3, <1>4 DEF Holders
  <2>2. QED
    BY <2>1, HoldersShrink DEF IndInv
<1>6. LimitPointerValid'
  BY <1>1, <1>3, <1>4 DEF IndInv, LimitPointerValid
<1>7. ReportedCountsSane'
  BY <1>1, <1>2, <1>4 DEF IndInv, ReportedCountsSane
<1>8. QED
  BY <1>5, <1>6, <1>7

\* A step that leaves streams, counts and the table's keys alone, or only adds a key.
LEMMA QuietStep ==
  ASSUME IndInv, UNCHANGED <<pc, limit, count, active_requests>>, users \subseteq users',
         \A x \in Streams : st'[x].meth = st[x].meth
  PROVE  HoldersCounted' /\ LimitPointerValid' /\ ReportedCountsSane'
<1>1. \A key \in Keys, d \in Directions : Holders(key, d)' \subseteq Holders(key, d)
  BY DEF Holders
<1>2. HoldersCounted'
  BY <1>1, HoldersShrink DEF IndInv
<1>3. LimitPointerValid' /\ ReportedCountsSane'
  BY DEF IndInv, LimitPointerValid, ReportedCountsSane
<1>4. QED
  BY <1>2, <1>3

-----------------------------------------------------------------------------
\* The invariant holds at start-up.
LEMMA IndInit == Init => IndInv
<1> SUFFICES ASSUME Init PROVE IndInv
  OBVIOUS
<1>1. TypeOK
  <2>1. FreshState("dwn", TRUE) \in weir_lim_state
    BY FreshTypes
  <2>2. next_cleanup_tick \in Tick
    BY TickAddType, FilterAssumption DEF Init
  <2>3. st \in [Streams -> weir_lim_state]
    BY <2>1 DEF Init
  <2>4. active_requests \in [Keys -> [Directions -> Int]]
        /\ last_request_end_tick \in [Keys -> Tick]
        /\ share \in [Keys -> [Directions -> limit_share]]
    BY FreshTypes DEF Init
  <2>5. pc \in [Streams -> Phases] /\ limit \in [Streams -> Keys \cup {Null}]
        /\ count \in [Streams -> Int]
    BY DEF Init, Phases
  <2>6. now_ms \in Tick /\ users \in SUBSET Keys /\ crashed \in BOOLEAN
    BY DEF Init
  <2>7. QED
    BY <2>2, <2>3, <2>4, <2>5, <2>6 DEF TypeOK
<1>2. PointerFollowsFlags /\ LimitPointerValid /\ ReportedCountsSane
  BY DEF Init, PointerFollowsFlags, LimitPointerValid, ReportedCountsSane, FreshState
<1>3. HoldersCounted
  <2> SUFFICES ASSUME NEW key \in Keys, NEW d \in Directions
               PROVE  Cardinality(Holders(key, d)) <= active_requests[key][d]
    BY DEF HoldersCounted
  <2>1. Holders(key, d) = {} /\ active_requests[key][d] = 0
    BY DEF Init, Holders, ZeroCounts
  <2>2. QED
    BY <2>1, FS_EmptySet
<1>4. QED
  BY <1>1, <1>2, <1>3 DEF IndInv

\* Every step of every handler keeps it.
LEMMA IndStep == IndInv /\ [Next]_vars => IndInv'
<1> SUFFICES ASSUME IndInv, [Next]_vars PROVE IndInv'
  OBVIOUS
<1>1. TypeOK' /\ PointerFollowsFlags'
  BY TypeStep, PointerStep DEF IndInv
<1> DEFINE Safe == HoldersCounted /\ LimitPointerValid /\ ReportedCountsSane
<1>2. ASSUME NEW s \in Streams, StreamStep(s)
      PROVE  Safe'
  <2>1. CASE \E meth \in VerbDirections, a \in RemoteAddrs : weir_attach(s, meth, a)
    BY <2>1, MoveStep DEF weir_attach, table
  <2>2. CASE weir_enable_filter_bad_direction(s)
    <3>1. \A x \in Streams : st'[x].meth = st[x].meth
      BY <2>2 DEF weir_enable_filter_bad_direction, IndInv, TypeOK, weir_lim_state
    <3>2. QED
      BY <2>2, <3>1, QuietStep DEF weir_enable_filter_bad_direction, table
  <2>3. CASE weir_enable_filter_no_key(s) \/ weir_http_headers_bug(s)
    BY <2>3, QuietStep DEF weir_enable_filter_no_key, weir_http_headers_bug, table
  <2>4. CASE \E key \in FetchedKeys \ {Null}, dir \in FetchedDirections \ {"unknown"} :
                weir_enable_filter(s, key, dir)
    BY <2>4, EnableStep
  <2>5. CASE weir_http_headers(s)
    BY <2>5, HeadersStep
  <2>6. CASE weir_http_headers_skip(s) \/ SendReqLog(s)
    BY <2>6, MoveStep DEF weir_http_headers_skip, SendReqLog, table
  <2>7. CASE weir_detach(s)
    BY <2>7, DetachStep
  <2>8. CASE SendReqEndLog(s) \/ weir_detach_uncounted(s)
    BY <2>8, FreeStep DEF SendReqEndLog, weir_detach_uncounted
  <2>9. QED
    BY <1>2, <2>1, <2>2, <2>3, <2>4, <2>5, <2>6, <2>7, <2>8 DEF StreamStep
<1>3. ASSUME ShareUpdate PROVE Safe'
  <2>1. UNCHANGED <<pc, st, limit, count, active_requests>> /\ users \subseteq users'
    BY <1>3 DEF ShareUpdate, weir_ingest_limit_share_update
  <2>2. QED
    BY <2>1, QuietStep
<1>4. ASSUME ClockTick \/ UNCHANGED vars PROVE Safe'
  <2>1. UNCHANGED <<pc, st, limit, count, active_requests>> /\ users \subseteq users'
    BY <1>4 DEF ClockTick, vars, table
  <2>2. QED
    BY <2>1, QuietStep
<1> HIDE DEF Safe
<1>5. Safe'
  BY <1>2, <1>3, <1>4 DEF Next
<1>6. QED
  BY <1>1, <1>5 DEF IndInv, Safe

\* The variables of the filter keep their types, for any number of streams and users,
\* any clock width and any configuration; the clamp of weir_ingest_limit_share_update is
\* what keeps bytes_per_second an unsigned int.
THEOREM TypeCorrect == Spec => []TypeOK
<1>1. Spec => []IndInv
  BY IndInit, IndStep, PTL DEF Spec
<1>2. IndInv => TypeOK
  BY DEF IndInv
<1>3. QED
  BY <1>1, <1>2, PTL

\* The pointer weir_lim_state keeps instead of a lookup is valid whenever a handler may
\* follow it: no clean-up, run by whichever thread, frees an entry in use.
THEOREM PointerSafety == Spec => []LimitPointerValid
<1>1. Spec => []IndInv
  BY IndInit, IndStep, PTL DEF Spec
<1>2. IndInv => LimitPointerValid
  BY DEF IndInv
<1>3. QED
  BY <1>1, <1>2, PTL

\* Every live request that holds an entry is counted in it, even when other requests
\* have leaked their counts, so active_requests never goes below zero.
THEOREM CountsCoverHolders == Spec => []HoldersCounted
<1>1. Spec => []IndInv
  BY IndInit, IndStep, PTL DEF Spec
<1>2. IndInv => HoldersCounted
  BY DEF IndInv
<1>3. QED
  BY <1>1, <1>2, PTL

\* A request that starts reports a count of at least one, a request that ends never a
\* negative one, however the threads interleave between the lock and the log.
THEOREM ReportsSane == Spec => []ReportedCountsSane
<1>1. Spec => []IndInv
  BY IndInit, IndStep, PTL DEF Spec
<1>2. IndInv => ReportedCountsSane
  BY DEF IndInv
<1>3. QED
  BY <1>1, <1>2, PTL

-----------------------------------------------------------------------------
(* Limit shares. *)

\* However many generator connections deliver limit shares in whatever order, and whichever
\* thread cleans the table up, the share of an entry that lives is only replaced by one at
\* least as recent (weir_ingest_limit_share_update).
THEOREM SharesAdvance == Spec => ShareNeverGoesBack
<1> DEFINE Advance == \A key \in users \cap users', d \in Directions :
       /\ share'[key][d].limit_timestamp >= share[key][d].limit_timestamp
       /\ share[key][d].limit_received => share'[key][d].limit_received
<1>1. IndInv /\ [Next]_vars => Advance
  <2> SUFFICES ASSUME IndInv, [Next]_vars, NEW key \in users \cap users', NEW d \in Directions
               PROVE  /\ share'[key][d].limit_timestamp >= share[key][d].limit_timestamp
                      /\ share[key][d].limit_received => share'[key][d].limit_received
    OBVIOUS
  <2>1. key \in Keys /\ share[key][d] \in limit_share
    BY DEF IndInv, TypeOK
  <2>2. share[key][d].limit_timestamp \in Nat
    BY <2>1 DEF limit_share
  <2>3. CASE share'[key] = share[key]
    BY <2>2, <2>3
  <2>4. ASSUME NEW s \in Streams, NEW k \in FetchedKeys \ {Null},
               NEW dir \in FetchedDirections \ {"unknown"}, weir_enable_filter(s, k, dir)
        PROVE  share'[key] = share[key]
    <3> DEFINE present == users \cup {k}
               counts == CountRequest(k, st[s].meth)
    <3>1. CleanUp(present, counts) \/ NoCleanUp(present, counts)
      BY <2>4 DEF weir_enable_filter
    <3> HIDE DEF present, counts
    <3>2. CASE CleanUp(present, counts)
      BY <2>1, <3>2 DEF CleanUp
    <3>3. CASE NoCleanUp(present, counts)
      BY <3>3 DEF NoCleanUp
    <3>4. QED
      BY <3>1, <3>2, <3>3
  <2>5. ASSUME NEW ts \in ShareTimestamps, NEW k \in Keys, NEW dir \in ShareDirections,
               NEW new \in Shares, weir_ingest_limit_share_update(ts, k, dir, new)
        PROVE  /\ share'[key][d].limit_timestamp >= share[key][d].limit_timestamp
               /\ share[key][d].limit_received => share'[key][d].limit_received
    <3>1. CASE share'[key][d] = share[key][d]
      BY <2>2, <3>1
    <3>2. CASE share'[key][d] = NewShare(share[key][d], ts, new)
      <4>1. ts \in Nat
        BY FilterAssumption
      <4>2. CASE ts >= share[key][d].limit_timestamp
        BY <2>2, <3>2, <4>1, <4>2 DEF NewShare
      <4>3. CASE ~(ts >= share[key][d].limit_timestamp)
        BY <2>2, <3>2, <4>3 DEF NewShare
      <4>4. QED
        BY <4>2, <4>3
    <3>3. share'[key][d] = share[key][d] \/ share'[key][d] = NewShare(share[key][d], ts, new)
      <4>1. CASE UNCHANGED share
        BY <4>1
      <4>2. CASE share' = [share EXCEPT ![k][dir] = NewShare(share[k][dir], ts, new)]
                 /\ dir \in Directions
        BY <2>1, <4>2 DEF IndInv, TypeOK
      <4>3. QED
        BY <2>5, <4>1, <4>2 DEF weir_ingest_limit_share_update
    <3>4. QED
      BY <3>1, <3>2, <3>3
  <2>6. QED
    BY <2>3, <2>4, <2>5 DEF Next, StreamStep, ShareUpdate, ClockTick, vars, table, weir_attach,
       weir_enable_filter_bad_direction, weir_enable_filter_no_key, weir_http_headers,
       weir_http_headers_skip, weir_http_headers_bug, SendReqLog, weir_detach, SendReqEndLog,
       weir_detach_uncounted, FreeState
<1>2. Spec => []IndInv
  BY IndInit, IndStep, PTL DEF Spec
<1>3. QED
  BY <1>1, <1>2, PTL DEF Spec, ShareNeverGoesBack

-----------------------------------------------------------------------------
(* Exact counts: what the configuration that ships is good for. *)

\* activate-weir stands in http-request rules only, after every rule that may deny the
\* request, and clients have inet addresses. What the fetches return is left open.
ShippedConfig ==
  /\ MayReject = FALSE
  /\ RuleSets \subseteq {"http-request"}
  /\ RemoteAddrs \subseteq {TRUE}

\* Under it a stream with a pointer is past the rules only with its headers processed, so
\* that weir_detach will count it down.
HoldersProcessed ==
  \A s \in Streams :
    /\ st[s].remote_addr
    /\ pc[s] \in {"headers_log", "forward"} /\ limit[s] # Null => st[s].headers_processed

\* No count is left behind by a request that ended.
NoCountLeft ==
  \A key \in Keys, d \in Directions :
    active_requests[key][d] <= Cardinality(Holders(key, d))

\* The headers callback, which sees every stream that activate-weir saw, keeps it so.
LEMMA ProcessedStep ==
  ASSUME ShippedConfig, IndInv, HoldersProcessed, [Next]_vars
  PROVE  HoldersProcessed'
<1> USE DEF IndInv, TypeOK, PointerFollowsFlags, HoldersProcessed, weir_lim_state
<1>1. ASSUME NEW s \in Streams, NEW meth \in VerbDirections, NEW a \in RemoteAddrs,
             weir_attach(s, meth, a)
      PROVE  HoldersProcessed'
  <2>1. a = TRUE
    BY DEF ShippedConfig
  <2>2. QED
    BY <1>1, <2>1 DEF weir_attach, FreshState
<1>2. ASSUME NEW s \in Streams, weir_enable_filter_bad_direction(s)
      PROVE  HoldersProcessed'
  BY <1>2 DEF weir_enable_filter_bad_direction
<1>3. ASSUME NEW s \in Streams, NEW key \in FetchedKeys \ {Null},
             NEW dir \in FetchedDirections \ {"unknown"}, weir_enable_filter(s, key, dir)
      PROVE  HoldersProcessed'
  <2>1. pc[s] = "rules"
    BY <1>3 DEF weir_enable_filter, ActivateWeir, ShippedConfig
  <2>2. QED
    BY <1>3, <2>1 DEF weir_enable_filter
<1>4. ASSUME NEW s \in Streams, weir_http_headers(s)
      PROVE  HoldersProcessed'
  BY <1>4 DEF weir_http_headers
<1>5. ASSUME NEW s \in Streams, weir_http_headers_skip(s) \/ SendReqLog(s) \/ weir_detach(s)
      PROVE  HoldersProcessed'
  BY <1>5 DEF weir_http_headers_skip, SendReqLog, weir_detach
<1>6. ASSUME NEW s \in Streams, FreeState(s)
      PROVE  HoldersProcessed'
  BY <1>6 DEF FreeState, FreshState
<1>7. ASSUME UNCHANGED <<pc, st, limit>>
      PROVE  HoldersProcessed'
  BY <1>7
<1>8. QED
  BY <1>1, <1>2, <1>3, <1>4, <1>5, <1>6, <1>7
  DEF Next, StreamStep, ShareUpdate, SendReqEndLog, weir_detach_uncounted, vars,
      weir_enable_filter_no_key, weir_http_headers_bug, ClockTick,
      weir_ingest_limit_share_update

\* A step that leaves the counts alone and takes no holder away leaves no count behind.
LEMMA HoldersStay ==
  ASSUME TypeOK, NoCountLeft, UNCHANGED active_requests,
         \A key \in Keys, d \in Directions : Holders(key, d) \subseteq Holders(key, d)'
  PROVE  NoCountLeft'
<1> SUFFICES ASSUME NEW key \in Keys, NEW d \in Directions
             PROVE  active_requests[key][d] <= Cardinality(Holders(key, d)')
  BY DEF NoCountLeft
<1> DEFINE A == Holders(key, d)
           B == Holders(key, d)'
<1>1. A \in SUBSET B /\ B \in SUBSET Streams /\ A \in SUBSET Streams
  BY DEF Holders
<1>2. active_requests[key][d] <= Cardinality(A) /\ active_requests[key][d] \in Int
  BY DEF NoCountLeft, TypeOK
<1> HIDE DEF A, B
<1>3. Cardinality(A) <= Cardinality(B) /\ Cardinality(A) \in Nat /\ Cardinality(B) \in Nat
  BY <1>1, StreamSets
<1>4. active_requests[key][d] <= Cardinality(B)
  BY <1>2, <1>3
<1>5. QED
  BY <1>4 DEF B

\* weir_enable_filter: one count and one holder more, and a removed entry has neither.
LEMMA EnableExact ==
  ASSUME IndInv, NoCountLeft, NEW s \in Streams, NEW key \in FetchedKeys \ {Null},
         NEW dir \in FetchedDirections \ {"unknown"}, weir_enable_filter(s, key, dir)
  PROVE  NoCountLeft'
<1> SUFFICES ASSUME NEW k \in Keys, NEW d \in Directions
             PROVE  active_requests'[k][d] <= Cardinality(Holders(k, d)')
  BY DEF NoCountLeft
<1> DEFINE meth == st[s].meth
           counts == CountRequest(key, meth)
           present == users \cup {key}
           A == Holders(k, d)
           B == Holders(k, d)'
<1>1. key \in Keys /\ meth \in Directions /\ key # Null
  BY FilterAssumption DEF IndInv, TypeOK, weir_lim_state
<1>2. counts[k][d] = IF k = key /\ d = meth THEN active_requests[k][d] + 1
                                            ELSE active_requests[k][d]
  BY <1>1 DEF IndInv, TypeOK, CountRequest
<1>3. /\ limit' = [limit EXCEPT ![s] = key] /\ limit[s] = Null
      /\ UNCHANGED pc /\ pc[s] \in {"rules", "forward"}
      /\ \A x \in Streams : st'[x].meth = st[x].meth
  BY DEF IndInv, TypeOK, PointerFollowsFlags, weir_lim_state, weir_enable_filter, ActivateWeir
<1>4. A \in SUBSET Streams /\ B \in SUBSET Streams /\ A \in SUBSET B /\ s \notin A
      /\ (k = key /\ d = meth => s \in B)
  BY <1>1, <1>3, FilterAssumption DEF Holders, IndInv, TypeOK
<1>5. active_requests[k][d] <= Cardinality(A) /\ active_requests[k][d] \in Int
  BY DEF NoCountLeft, IndInv, TypeOK
<1>6. \/ active_requests' = counts
      \/ active_requests'[k] = counts[k]
      \/ active_requests'[k][d] = 0
  <2>1. CleanUp(present, counts) \/ NoCleanUp(present, counts)
    BY DEF weir_enable_filter
  <2> HIDE DEF present, counts
  <2>2. QED
    BY <2>1 DEF CleanUp, NoCleanUp, ZeroCounts
<1> HIDE DEF A, B, counts, meth
<1>7. Cardinality(A) \in Nat /\ Cardinality(B) \in Nat /\ Cardinality(A) <= Cardinality(B)
  BY <1>4, StreamSets
<1>8. k = key /\ d = meth => Cardinality(B) >= Cardinality(A) + 1
  <2> SUFFICES ASSUME k = key, d = meth PROVE Cardinality(B) >= Cardinality(A) + 1
    OBVIOUS
  <2> DEFINE C == B \ {s}
  <2>1. s \in B /\ A \in SUBSET C /\ C \in SUBSET Streams
    BY <1>4
  <2>2. Cardinality(C) = Cardinality(B) - 1
    BY <1>4, <2>1, StreamSets
  <2> HIDE DEF C
  <2>3. Cardinality(A) <= Cardinality(C)
    BY <2>1, StreamSets
  <2>4. QED
    BY <1>7, <2>2, <2>3
<1>9. active_requests'[k][d] <= Cardinality(B)
  BY <1>2, <1>5, <1>6, <1>7, <1>8
<1>10. QED
  BY <1>9 DEF B

\* weir_detach: one count and one holder fewer.
LEMMA DetachExact ==
  ASSUME IndInv, NoCountLeft, NEW s \in Streams, weir_detach(s)
  PROVE  NoCountLeft'
<1> SUFFICES ASSUME NEW k \in Keys, NEW d \in Directions
             PROVE  active_requests'[k][d] <= Cardinality(Holders(k, d)')
  BY DEF NoCountLeft
<1> DEFINE A == Holders(k, d)
           B == Holders(k, d)'
<1>1. limit[s] # Null /\ pc[s] = "forward" /\ pc' = [pc EXCEPT ![s] = "detach_log"]
      /\ UNCHANGED <<st, limit, users>>
  BY DEF IndInv, PointerFollowsFlags, weir_detach, Counted
<1>2. PICK key \in Keys, m \in Directions : key = limit[s] /\ m = st[s].meth
  BY <1>1 DEF IndInv, TypeOK, weir_lim_state
<1>3. active_requests' = [active_requests EXCEPT ![key][m] = @ - 1]
  BY <1>2 DEF weir_detach
<1>4. active_requests'[k][d] = IF k = key /\ d = m THEN active_requests[k][d] - 1
                                                   ELSE active_requests[k][d]
  BY <1>3 DEF IndInv, TypeOK
<1>5. A \in SUBSET Streams /\ B = IF k = key /\ d = m THEN A \ {s} ELSE A
  BY <1>1, <1>2 DEF Holders, IndInv, TypeOK
<1>6. k = key /\ d = m => s \in A
  BY <1>1, <1>2 DEF Holders
<1>7. active_requests[k][d] <= Cardinality(A) /\ active_requests[k][d] \in Int
  BY DEF NoCountLeft, IndInv, TypeOK
<1> HIDE DEF A, B
<1>8. /\ Cardinality(A) \in Nat
      /\ Cardinality(B) = IF k = key /\ d = m THEN Cardinality(A) - 1 ELSE Cardinality(A)
  BY <1>5, <1>6, StreamSets
<1>9. active_requests'[k][d] <= Cardinality(B)
  BY <1>4, <1>7, <1>8
<1>10. QED
  BY <1>9 DEF B

\* Every step of the shipped configuration keeps the counts exact: a stream that frees its
\* state without being counted down holds no entry.
LEMMA ExactStep ==
  ASSUME ShippedConfig, IndInv, HoldersProcessed, NoCountLeft, [Next]_vars
  PROVE  NoCountLeft'
<1>1. ASSUME NEW s \in Streams, NEW key \in FetchedKeys \ {Null},
             NEW dir \in FetchedDirections \ {"unknown"}, weir_enable_filter(s, key, dir)
      PROVE  NoCountLeft'
  BY <1>1, EnableExact
<1>2. ASSUME NEW s \in Streams, weir_detach(s)
      PROVE  NoCountLeft'
  BY <1>2, DetachExact
<1>3. ASSUME UNCHANGED active_requests, NEW s \in Streams,
             \A x \in Streams \ {s} :
               pc'[x] = pc[x] /\ limit'[x] = limit[x] /\ st'[x].meth = st[x].meth,
             \A key \in Keys, d \in Directions : s \in Holders(key, d) => s \in Holders(key, d)'
      PROVE  NoCountLeft'
  <2>1. \A key \in Keys, d \in Directions : Holders(key, d) \subseteq Holders(key, d)'
    BY <1>3 DEF Holders
  <2>2. QED
    BY <1>3, <2>1, HoldersStay DEF IndInv
<1>4. ASSUME NEW s \in Streams, FreeState(s), SendReqEndLog(s) \/ weir_detach_uncounted(s)
      PROVE  NoCountLeft'
  <2>1. pc[s] = "detach_log" \/ limit[s] = Null
    <3>1. CASE SendReqEndLog(s)
      BY <3>1 DEF SendReqEndLog
    <3>2. CASE weir_detach_uncounted(s)
      BY <3>2 DEF weir_detach_uncounted, ShippedConfig, Counted, HoldersProcessed, IndInv,
         PointerFollowsFlags
    <3>3. QED
      BY <1>4, <3>1, <3>2
  <2>2. \A key \in Keys, d \in Directions : s \notin Holders(key, d)
    BY <2>1, FilterAssumption DEF Holders
  <2>3. UNCHANGED active_requests
    BY <1>4 DEF FreeState, table
  <2>4. \A x \in Streams \ {s} :
          pc'[x] = pc[x] /\ limit'[x] = limit[x] /\ st'[x].meth = st[x].meth
    BY <1>4 DEF FreeState, IndInv, TypeOK
  <2>5. QED
    BY <1>3, <2>2, <2>3, <2>4
<1>5. ASSUME NEW s \in Streams,
             \/ \E meth \in VerbDirections, a \in RemoteAddrs : weir_attach(s, meth, a)
             \/ weir_enable_filter_bad_direction(s) \/ weir_http_headers(s)
             \/ weir_http_headers_skip(s) \/ SendReqLog(s)
      PROVE  NoCountLeft'
  <2>1. UNCHANGED <<active_requests, limit>>
    BY <1>5 DEF weir_attach, weir_enable_filter_bad_direction, weir_http_headers,
       weir_http_headers_skip, SendReqLog, table
  <2>2. \A x \in Streams \ {s} : pc'[x] = pc[x] /\ st'[x].meth = st[x].meth
    BY <1>5 DEF weir_attach, weir_enable_filter_bad_direction, weir_http_headers,
       weir_http_headers_skip, SendReqLog, IndInv, TypeOK
  <2>3. \A key \in Keys, d \in Directions : s \in Holders(key, d) => s \in Holders(key, d)'
    <3>1. CASE \E meth \in VerbDirections, a \in RemoteAddrs : weir_attach(s, meth, a)
      BY <3>1 DEF weir_attach, Holders
    <3>2. CASE \/ weir_enable_filter_bad_direction(s) \/ weir_http_headers(s)
               \/ weir_http_headers_skip(s) \/ SendReqLog(s)
      <4>1. st'[s].meth = st[s].meth /\ pc'[s] \in {"rules", "headers_log", "forward"}
        BY <3>2 DEF weir_enable_filter_bad_direction, ActivateWeir, weir_http_headers,
           weir_http_headers_skip, SendReqLog, IndInv, TypeOK, weir_lim_state, ShippedConfig
      <4>2. QED
        BY <2>1, <4>1 DEF Holders
    <3>3. QED
      BY <1>5, <3>1, <3>2
  <2>4. QED
    BY <1>3, <2>1, <2>2, <2>3
<1>6. ASSUME UNCHANGED <<pc, st, limit, active_requests>>
      PROVE  NoCountLeft'
  BY <1>6 DEF NoCountLeft, Holders
<1>7. QED
  BY <1>1, <1>2, <1>4, <1>5, <1>6 DEF Next, StreamStep, ShareUpdate, ClockTick, vars, table,
     weir_enable_filter_no_key, weir_http_headers_bug, SendReqEndLog, weir_detach_uncounted,
     weir_ingest_limit_share_update

\* With the shipped configuration active_requests is exactly the number of live requests of
\* the user and direction, for any number of streams and users and any clock. (With another
\* one only CountsCoverHolders holds.)
THEOREM CountsExact == ASSUME ShippedConfig PROVE Spec => []ActiveCountExact
<1> DEFINE Exact == IndInv /\ HoldersProcessed /\ NoCountLeft
<1>1. Init => Exact
  <2> SUFFICES ASSUME Init PROVE Exact
    OBVIOUS
  <2>1. HoldersProcessed
    BY DEF Init, HoldersProcessed, FreshState
  <2>2. NoCountLeft
    <3> SUFFICES ASSUME NEW key \in Keys, NEW d \in Directions
                 PROVE  active_requests[key][d] <= Cardinality(Holders(key, d))
      BY DEF NoCountLeft
    <3>1. Holders(key, d) = {} /\ active_requests[key][d] = 0
      BY DEF Init, Holders, ZeroCounts
    <3>2. QED
      BY <3>1, FS_EmptySet
  <2>3. QED
    BY <2>1, <2>2, IndInit
<1>2. Exact /\ [Next]_vars => Exact'
  BY IndStep, ProcessedStep, ExactStep
<1>3. Exact => ActiveCountExact
  <2> SUFFICES ASSUME Exact, NEW key \in users, NEW d \in Directions
               PROVE  active_requests[key][d] = Cardinality(Holders(key, d))
    BY DEF ActiveCountExact
  <2> DEFINE A == Holders(key, d)
  <2>1. key \in Keys /\ A \in SUBSET Streams
    BY DEF IndInv, TypeOK, Holders
  <2>2. /\ Cardinality(A) <= active_requests[key][d] /\ active_requests[key][d] \in Int
        /\ active_requests[key][d] <= Cardinality(A)
    BY <2>1 DEF IndInv, TypeOK, HoldersCounted, NoCountLeft
  <2> HIDE DEF A
  <2>3. Cardinality(A) \in Nat
    BY <2>1, StreamSets
  <2>4. active_requests[key][d] = Cardinality(A)
    BY <2>2, <2>3
  <2>5. QED
    BY <2>4 DEF A
<1> HIDE DEF Exact
<1>4. QED
  BY <1>1, <1>2, <1>3, PTL DEF Spec
=============================================================================
