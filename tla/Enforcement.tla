----------------------------- MODULE Enforcement -----------------------------
(***************************************************************************)
(* The enforcement loop: the policy generator (PolicyGenerator) and the      *)
(* tables of an HAProxy instance (haproxy-lua/src/haproxy_lua.lua) that its  *)
(* policies fill and that every request is checked against.                 *)
(*                                                                         *)
(* The loops of the generator sleep for milliseconds, a tick is a fraction   *)
(* of a second: within a tick every loop runs and every queue is drained. A  *)
(* check may take several ticks, MaxLag at most, cross seconds and overlap   *)
(* with others. Both hosts have one clock.                                   *)
(***************************************************************************)
EXTENDS PolicyGenerator

CONSTANTS
  MaxLag,        \* ticks a check may take, from its scan to its last message
  MaxTime,       \* bound: the run ends here
  MaxScans,      \* bound: scans of a loop in a tick
  MaxEvents      \* bound: changes of counts, limits reached and failures

ASSUME LoopAssumption ==
  /\ MaxLag \in Nat \ {0} /\ MaxTime \in Nat
  /\ MaxScans \in Nat \ {0} /\ MaxEvents \in Nat

VARIABLES
  reqs_map,      \* when HAProxy was last told to block a user, Null for nil
  vio_map,       \* <<second, user>>: vio_map["user_GET"][second][user]
  scanned,       \* history: how often every loop has run in this tick
  events,        \* history: what has happened so far
  overSince,     \* history: since when a user is at the limit, all scanned keys are
                 \*   parsable and nothing has failed, or Null
  verbSince,     \* history: since when a user is over the verb limit in this second, likewise
  quiet,         \* history: users that got over it with nothing older under way
  carried,       \* history: users on their way to be throttled when this second began
  calmSince,     \* history: since when a user is low enough to be unblocked, or Null
  reached        \* history: users that have been at the limit

verbHistory == <<verbSince, quiet, carried>>
history == <<scanned, events, overSince, verbHistory, calmSince, reached>>
vars == <<genVars, reqs_map, vio_map, history>>

Calm(n) == n = Null \/ n \in 0 .. UnblockMax
Over(n) == n # Null /\ n >= Limit

\* The types of generator and HAProxy: times are past ones, the queue keeps its maxsize.
TypeOK ==
  /\ GenTypeOK
  /\ now <= MaxTime
  /\ reqs_map \in [Users -> (0 .. Second(now)) \cup {Null}]
  /\ vio_map \subseteq (0 .. Second(now)) \X Users
  /\ scanned \in [Kinds -> 0 .. MaxScans]
  /\ events \in 0 .. MaxEvents
  /\ overSince \in [Users -> (0 .. now) \cup {Null}]
  /\ verbSince \in [Users -> (0 .. now) \cup {Null}]
  /\ quiet \subseteq Users /\ carried \subseteq Users
  /\ calmSince \in [Users -> (0 .. now) \cup {Null}]
  /\ reached \subseteq Users

Init ==
  /\ GenInit
  /\ reqs_map = [u \in Users |-> Null]
  /\ vio_map = {}
  /\ scanned = [k \in Kinds |-> 0]
  /\ events = 0
  /\ overSince = [u \in Users |-> Null]
  /\ verbSince = [u \in Users |-> Null] /\ quiet = {} /\ carried = {}
  /\ calmSince = [u \in Users |-> 0]
  /\ reached = {}

-----------------------------------------------------------------------------
\* Mutant: an entry of reqs_map blocks until an unblock message removes it.
BlockedUntilTold(curr_time, u) == reqs_map[u] # Null

\* A block holds in the second it was received and in the next one.
is_reqs_violator(curr_time, u) ==
  reqs_map[u] # Null /\ reqs_map[u] + 2 > curr_time

\* A user's GET request is denied.
is_violater(curr_time, u) ==
  is_reqs_violator(curr_time, u) \/ <<curr_time, u>> \in vio_map

update_violates_reqs(line, curr_time) ==
  /\ reqs_map' = [u \in Users |->
       IF u \notin line.keys THEN reqs_map[u]
       ELSE IF line.usage = "reqs_block" THEN curr_time ELSE Null]
  /\ UNCHANGED vio_map

\* A policy for an earlier second is stale and ignored; otherwise the seconds more than
\* three older than the policy are removed, and the policy is added.
update_violates_map(line, curr_time) ==
  LET poli_time == Second(line.at)
  IN  /\ \/ /\ poli_time >= curr_time
            /\ vio_map' = {v \in vio_map : v[1] + 3 >= poli_time}
                            \cup {<<poli_time, u>> : u \in line.keys}
         \/ /\ poli_time < curr_time
            /\ UNCHANGED vio_map
      /\ UNCHANGED reqs_map

\* update_violates on the line of a policies message.
update_violates(line, curr_time) ==
  \/ line.usage \in {"reqs_block", "reqs_unblock"} /\ update_violates_reqs(line, curr_time)
  \/ line.usage = "GET" /\ update_violates_map(line, curr_time)

-----------------------------------------------------------------------------
\* What the sender thread drains reaches ingest_policies.
ingest_policies ==
  /\ queue # <<>>
  /\ \E line \in Concatenated(queue) :
       send_policy_to_haproxy(line) /\ update_violates(line, Second(now))
  /\ UNCHANGED history

ScanStep(w, k) ==
  /\ check_loop(w, k)
  /\ scanned[k] < MaxScans
  /\ scanned' = [scanned EXCEPT ![k] = @ + 1]
  /\ UNCHANGED <<reqs_map, vio_map, events, overSince, verbHistory, calmSince, reached>>

WorkerStep(w) ==
  /\ CheckStep(w)
  /\ UNCHANGED <<reqs_map, vio_map, history>>

\* The bound on what happens around generator and HAProxy.
Happens == events < MaxEvents /\ events' = events + 1

\* External: the count of a user changes in Redis. While a key is there that cannot be parsed,
\* nobody's deadline runs.
CountChanges(u, n) ==
  /\ SetCount(u, n) /\ Happens
  /\ overSince' = [x \in Users |->
       IF ~Over(redis'[x]) \/ \E y \in Invalid : redis'[y] # Null THEN Null
       ELSE IF overSince[x] = Null THEN now ELSE overSince[x]]
  /\ calmSince' = [calmSince EXCEPT ![u] =
       IF ~Calm(n) THEN Null ELSE IF @ = Null THEN now ELSE @]
  /\ reached' = IF Over(n) THEN reached \cup {u} ELSE reached
  /\ UNCHANGED <<reqs_map, vio_map, scanned, verbHistory>>

\* No check of an earlier second is under way, and nothing found is waiting to be sent.
Quiet ==
  /\ \A w \in Workers :
       task[w] # Null => Second(task[w].at) = Second(now) /\ task[w].out = <<>>
  /\ new_keys["GET"] = {} /\ queue = <<>>

\* External: a user reaches its verb limit in this second.
VerbExceeded(u) ==
  /\ Exceed(u) /\ Happens
  /\ verbSince' = [verbSince EXCEPT ![u] = now]
  /\ quiet' = IF Quiet THEN quiet \cup {u} ELSE quiet
  /\ UNCHANGED <<reqs_map, vio_map, scanned, overSince, carried, calmSince, reached>>

\* A failure: the deadline of users at the limit starts again. A verb policy that got lost
\* is marked as sent and comes back in the next second only.
Failure ==
  /\ Happens
  /\ overSince' = [u \in Users |-> IF overSince[u] = Null THEN Null ELSE now]
  /\ verbSince' = [u \in Users |-> Null]
  /\ UNCHANGED <<scanned, quiet, carried, calmSince, reached>>

RedisError(w) ==
  /\ RedisFails(w)
  /\ Failure
  /\ UNCHANGED <<reqs_map, vio_map>>

\* _send_policies: both attempts fail, and the drained messages are gone.
_send_policies_fails ==
  /\ queue # <<>>
  /\ \E line \in Concatenated(queue) : send_policy_to_haproxy(line)
  /\ Failure
  /\ UNCHANGED <<reqs_map, vio_map>>

GeneratorRestarts ==
  /\ RestartGenerator
  /\ Failure
  /\ UNCHANGED <<reqs_map, vio_map>>

HaproxyRestarts ==
  /\ reqs_map' = [u \in Users |-> Null]
  /\ vio_map' = {}
  /\ Failure
  /\ UNCHANGED genVars

\* The users that a check is going to report, or has in its messages.
Found(c) ==
  IF c.pc = "eval" THEN {u \in Users : <<Second(c.at), u>> \in exceeded}
  ELSE {u \in Users : c.val[u] = 1} \cup UNION {m.keys : m \in Range(c.out)}

\* All users on their way to be throttled.
OnTheWay == new_keys["GET"] \cup UNION {Found(task[w]) : w \in {x \in Workers : task[x] # Null}}

\* Time passes once everything that takes less than a tick is done. A new second has no
\* verb counts yet.
Tick ==
  /\ now < MaxTime
  /\ \A w \in Workers : task[w] # Null => now + 1 - task[w].at < MaxLag
  /\ queue = <<>>
  /\ \A k \in Kinds : scanned[k] > 0 \/ (k = "conn" /\ \A u \in Users : redis[u] = Null)
  /\ now' = now + 1
  /\ scanned' = [k \in Kinds |-> 0]
  /\ \/ Second(now') = Second(now) /\ UNCHANGED verbHistory
     \/ /\ Second(now') # Second(now)
        /\ verbSince' = [u \in Users |-> Null] /\ quiet' = {} /\ carried' = OnTheWay
  /\ UNCHANGED <<redis, exceeded, blocked_users, policies, queue, task, reqs_map, vio_map,
                 events, overSince, calmSince, reached>>

\* The bounded run is over.
EndOfRun == now = MaxTime /\ UNCHANGED vars

Next ==
  \/ \E w \in Workers, k \in Kinds : ScanStep(w, k)
  \/ \E w \in Workers : WorkerStep(w)
  \/ ingest_policies
  \/ \E w \in Workers : RedisError(w)
  \/ _send_policies_fails
  \/ \E u \in Users, n \in Counts \cup {Null} : CountChanges(u, n)
  \/ "verb" \in Kinds /\ \E u \in Users : VerbExceeded(u)
  \/ GeneratorRestarts
  \/ HaproxyRestarts
  \/ Tick
  \/ EndOfRun

Spec == Init /\ [][Next]_vars

-----------------------------------------------------------------------------
\* The backoff of the reminders, or the length of a check when that is longer.
Delay == IF Backoff < MaxLag THEN MaxLag - 1 ELSE Backoff

\* A user at the limit for a second, the backoff of its reminders and the length of a few checks
\* is being blocked, and stays blocked from then on, as long as no key keeps the checks from
\* being made (overSince): the reminders, sent at most once per second and user, never come
\* too late for the two seconds that HAProxy keeps a block, whatever the order of checks that
\* saw older counts or began in earlier seconds, and wherever in the second the limit was
\* reached again. Other users' reports may delay a user's (see ExceededIsThrottled,
\* MessagesApplyToTheirUsers); this is about the only user that has been at the limit.
OverloadIsBlocked ==
  \A u \in Users :
     /\ overSince[u] # Null
     /\ now > overSince[u] + TicksPerSecond + Delay + 5 * (MaxLag - 1)
     /\ reached \subseteq {u}
     => is_reqs_violator(Second(now), u)

\* A user low enough to be unblocked, or gone from Redis, is unblocked after two seconds and
\* the length of two checks (one that saw the old count, and one that found what the first
\* had reported and sends it), even when the unblock message was never made, suppressed as
\* already sent, overtaken by a block message, or lost; for the only user that has been at
\* the limit, likewise.
CalmIsUnblocked ==
  \A u \in Users :
     /\ calmSince[u] # Null /\ now >= calmSince[u] + 2 * TicksPerSecond + 2 * (MaxLag - 1)
     /\ reached \subseteq {u}
     => ~is_reqs_violator(Second(now), u)

\* Only users that have been at the limit are ever blocked or reported, for all the checks
\* that race on blocked_users: a user between the two thresholds is kept blocked, and
\* never becomes blocked.
OnlyViolatorsReported ==
  \A u \in Users :
     \/ blocked_users[u] # Null
     \/ \E i \in DOMAIN queue : queue[i].usage = "reqs_block" /\ u \in queue[i].keys
     => u \in reached

\* A check that will still turn the keys to send into messages.
Working(c) ==
  c # Null /\ c.pc \in {"check", "add", "new_epoch", "renew", "insert", "record"}

\* A check whose messages hold all the keys to send, and that will remove them.
Covers(c) ==
  /\ c # Null /\ c.pc = "mark" /\ ~c.stale
  /\ \A v \in Usages : new_keys[v] # {} => \E m \in Range(c.out) : m.usage = v
  /\ \A m \in Range(c.out) : new_keys[m.usage] \subseteq m.keys

\* No key that waits to be sent is forgotten: some check under way will send it, also after
\* another one died of a KeyError or of a set that changed under its loop, or has replaced
\* the violations by those of a new second. A key left over would be sent in another second,
\* or never.
NoKeyForgotten ==
  (\E v \in Usages : new_keys[v] # {})
    => \E w \in Workers : Working(task[w]) \/ Covers(task[w])

\* "If a user has exceeded their limit for a given verb in the current second, a message
\* is sent to each HAProxy instance": a user over its verb limit is denied within a tick
\* and the length of a check.
ExceededIsThrottled ==
  \A u \in Users \ Invalid :
     verbSince[u] # Null /\ now > verbSince[u] + MaxLag => is_violater(Second(now), u)

\* The same, after the length of three checks, for a user who is alone over its limit in a second,
\* in every second anew: the keys sent in an earlier second, checks that start a second twice and
\* checks of an earlier second that others take over do not keep it from being sent in this one.
\* It got over the limit when nothing of an earlier second was under way (quiet): a late check
\* that finds the same user marks it as sent with a message of the old second, which HAProxy
\* drops.
LoneExceededIsThrottled ==
  \A u \in quiet \ Invalid :
     /\ verbSince[u] # Null /\ now > verbSince[u] + 3 * MaxLag - 2
     /\ \A v \in Users \ {u} : <<Second(now), v>> \notin exceeded
     => is_violater(Second(now), u)

\* "to throttle requests for that user/verb combination until the end of the second": a
\* user is throttled in a second only for what it did in that second, or because a check of
\* an earlier one was still on its way with it when the second began.
ThrottledOnlyIfExceeded ==
  \A u \in Users :
     <<Second(now), u>> \in vio_map => <<Second(now), u>> \in exceeded \/ u \in carried

\* Messages are lines of their own: a batch blocks and throttles nobody but the users that
\* its messages of that kind name.
MessagesApplyToTheirUsers ==
  [][\A u \in Users :
       reqs_map'[u] # reqs_map[u] /\ reqs_map'[u] # Null
          => \E i \in DOMAIN queue : queue[i].usage = "reqs_block" /\ u \in queue[i].keys]_vars
=============================================================================
