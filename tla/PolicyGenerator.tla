--------------------------- MODULE PolicyGenerator ---------------------------
(***************************************************************************)
(* The violation checks of the policy generator (polygen/policy_generator.py *)
(* and polygen/weir/models/violations.py): two loops scan Redis and submit   *)
(* checks to a thread pool; the checks share blocked_users and the policies  *)
(* of the current second with no lock, and queue policy messages for an      *)
(* HAProxy server, whose sender thread drains the queue.                     *)
(*                                                                         *)
(* One endpoint with one HAProxy; a user's counts over all instances are     *)
(* merged. "GET" stands for any verb or operation class; throughput          *)
(* violations are left out. A step ends wherever another Python thread may   *)
(* see or change what the check reads next. Time is in ticks.                *)
(***************************************************************************)
EXTENDS Integers, Sequences, Functions, FiniteSets

CONSTANTS
  Users, Workers, Null,
  Invalid,          \* users whose key create_user_level_metric refuses: not alphanumeric
  Kinds,            \* the check loops that run: a subset of {"conn", "verb"}
  Limit,            \* the limit on active requests
  UnblockMax,       \* the largest count whose ratio to Limit is <= requests_unblock_ratio
  Counts,           \* active-request counts that may be found in Redis
  Backoff,          \* requests_unblock_backoff_time_ms, in ticks
  TicksPerSecond,
  QueueSize         \* the size of a HaproxyServer's queue

ASSUME GeneratorAssumption ==
  /\ Invalid \subseteq Users
  /\ Kinds \subseteq {"conn", "verb"}
  /\ Limit \in Nat \ {0} /\ UnblockMax \in Nat /\ UnblockMax < Limit
  /\ Counts \subseteq Nat /\ Null \notin Nat \cup Users
  /\ Backoff \in Nat /\ TicksPerSecond \in Nat \ {0} /\ QueueSize \in Nat \ {0}

VARIABLES
  now,            \* time.time()
  redis,          \* the active-request count of every user, Null when the key is gone
  exceeded,       \* <<second, user>>: users over their verb limit, in Redis's verb_ keys
  blocked_users,  \* when every blocked user was last reported, Null for the others
  epoch,          \* policies.epoch
  new_keys,       \* policies.violations: the keys to send, for every usage value
  sent_keys,      \*   and the keys sent in this epoch
  queue,          \* HaproxyServer.queue
  task            \* of every pool thread: the check it runs

policies == <<epoch, new_keys, sent_keys>>
genVars == <<now, redis, exceeded, blocked_users, policies, queue, task>>

Second(t) == t \div TicksPerSecond

Usages == {"GET", "reqs_block", "reqs_unblock"}
NoKeys == [v \in Usages |-> {}]
NothingToCheck == [u \in Users |-> Null]

Message == [usage : Usages, keys : SUBSET Users, at : Nat]

\* The locals of _check_violation and of what it calls.
Check ==
  [pc : {"eval", "check", "add", "new_epoch", "renew", "insert", "record", "mark", "put"},
   kind : {"conn", "verb"},
   at : Nat,                               \* epoch_time
   val : [Users -> Nat \cup {Null}],       \* the values of the users still to examine
   cur : Users \cup {Null}, act : Usages,  \* the user being reported, and as what
   out : Seq(Message),                     \* messages generated and not yet queued
   stale : BOOLEAN]                        \* the violations they come from were replaced

\* No check is None.
ASSUME NullAssumption == Null \notin Check

GenTypeOK ==
  /\ now \in Nat
  /\ redis \in [Users -> Counts \cup {Null}]
  /\ exceeded \subseteq (0 .. Second(now)) \X Users
  /\ blocked_users \in [Users -> (0 .. now) \cup {Null}]
  /\ epoch \in 0 .. Second(now)
  /\ new_keys \in [Usages -> SUBSET Users] /\ sent_keys \in [Usages -> SUBSET Users]
  /\ queue \in Seq(Message) /\ Len(queue) <= QueueSize
  /\ task \in [Workers -> Check \cup {Null}]
  /\ \A w \in Workers : task[w] # Null => task[w].at <= now

\* PolicyGenerator.__init__ and Policies.__init__, at any time with the keys of Redis.
GenInit ==
  /\ now = 0
  /\ redis = [u \in Users |-> Null]
  /\ exceeded = {}
  /\ blocked_users = [u \in Users |-> Null]
  /\ epoch = 0 /\ new_keys = NoKeys /\ sent_keys = NoKeys
  /\ queue = <<>>
  /\ task = [w \in Workers |-> Null]

-----------------------------------------------------------------------------
\* The checks of one loop scan the keys and submit a check of all of them to the pool.
\* A scan that spills over to the next second submits nothing, and is no step.
check_loop(w, k) ==
  /\ task[w] = Null
  /\ k = "conn" => \E u \in Users : redis[u] # Null
  /\ task' = [task EXCEPT ![w] =
       [pc |-> "eval", kind |-> k, at |-> now, cur |-> Null, act |-> "GET",
        out |-> <<>>, stale |-> FALSE,
        val |-> [u \in Users |-> IF k = "conn" /\ redis[u] = Null THEN Null ELSE 0]]]
  /\ UNCHANGED <<now, redis, exceeded, blocked_users, policies, queue>>

\* Thread w is at a point of its check.
At(w, pc) == task[w] # Null /\ task[w].pc = pc

\* Mutant: the verb loop scans the keys of all seconds.
EvalAllSeconds(w) ==
  /\ At(w, "eval")
  /\ task' = [task EXCEPT ![w].pc = "check", ![w].val = [u \in Users |->
       CASE @[u] = Null            -> Null
         [] task[w].kind = "verb"  -> IF \E v \in exceeded : v[2] = u THEN 1 ELSE 0
         [] OTHER                  -> IF redis[u] = Null THEN 0 ELSE redis[u]]]
  /\ UNCHANGED <<now, redis, exceeded, blocked_users, policies, queue>>

\* The values of the scanned keys. A conn key that is gone by now counts 0; a verb key is
\* the one of the second of the scan, and its value is whether the limit is reached.
call_redis_eval(w) ==
  /\ At(w, "eval")
  /\ task' = [task EXCEPT ![w].pc = "check", ![w].val = [u \in Users |->
       CASE @[u] = Null            -> Null
         [] task[w].kind = "verb"  -> IF <<Second(task[w].at), u>> \in exceeded THEN 1 ELSE 0
         [] OTHER                  -> IF redis[u] = Null THEN 0 ELSE redis[u]]]
  /\ UNCHANGED <<now, redis, exceeded, blocked_users, policies, queue>>

\* Redis fails: the exception is logged and the check goes on to its messages.
RedisFails(w) ==
  /\ At(w, "eval")
  /\ task' = [task EXCEPT ![w].pc = "check", ![w].val = NothingToCheck]
  /\ UNCHANGED <<now, redis, exceeded, blocked_users, policies, queue>>

-----------------------------------------------------------------------------
ReadyForHeartbeat(u, t) == blocked_users[u] # Null => blocked_users[u] + Backoff < t

\* Mutant: a user is reported when the limit is reached, and never again while blocked.
BlockOnce(n, u, t) == n >= Limit /\ blocked_users[u] = Null

\* Mutant: a user between the two thresholds is blocked whether it was before or not.
BlockBetween(n, u, t) == n > UnblockMax /\ ReadyForHeartbeat(u, t)

\* Not blocked and should be; blocked and not told for a while; or blocked, below the
\* limit and not far enough below.
ShouldBlock(n, u, t) ==
  \/ n >= Limit /\ ReadyForHeartbeat(u, t)
  \/ /\ n < Limit /\ n > UnblockMax
     /\ blocked_users[u] # Null /\ ReadyForHeartbeat(u, t)

ShouldUnblock(n, u, t) ==
  /\ ~ShouldBlock(n, u, t)
  /\ blocked_users[u] # Null /\ n <= UnblockMax

\* The check of a user goes on to report it, or is over.
Report(w, u, usage) ==
  task' = [task EXCEPT ![w].pc = "add", ![w].cur = u, ![w].act = usage]

Examined(w, u) ==
  task' = [task EXCEPT ![w].val[u] = Null]

\* Every scanned conn key is one that create_user_level_metric accepts.
Parsable(w) == \A u \in Invalid : task[w].val[u] = Null

\* The first loop of _check_all_conn_key_violations makes the metrics of all keys; one that
\* is refused raises before any user is examined, and the check goes on to its messages.
create_user_level_metric_raises(w) ==
  /\ At(w, "check") /\ task[w].kind = "conn" /\ ~Parsable(w)
  /\ task' = [task EXCEPT ![w].val = NothingToCheck]
  /\ UNCHANGED <<now, redis, exceeded, blocked_users, policies, queue>>

\* The body of its second loop, up to add_violation.
_check_all_conn_key_violations(w, u) ==
  /\ At(w, "check") /\ task[w].kind = "conn" /\ task[w].val[u] # Null
  /\ Parsable(w)
  /\ LET n == task[w].val[u]
         t == task[w].at
     IN  \/ ShouldBlock(n, u, t) /\ Report(w, u, "reqs_block")
         \/ ShouldUnblock(n, u, t) /\ Report(w, u, "reqs_unblock")
         \/ ~ShouldBlock(n, u, t) /\ ~ShouldUnblock(n, u, t) /\ Examined(w, u)
  /\ UNCHANGED <<now, redis, exceeded, blocked_users, policies, queue>>

\* Here a key that is refused is skipped by itself.
_check_violation_per_key_verb(w, u) ==
  /\ At(w, "check") /\ task[w].kind = "verb" /\ task[w].val[u] # Null
  /\ \/ task[w].val[u] = 1 /\ u \notin Invalid /\ Report(w, u, "GET")
     \/ (task[w].val[u] = 0 \/ u \in Invalid) /\ Examined(w, u)
  /\ UNCHANGED <<now, redis, exceeded, blocked_users, policies, queue>>

\* Violations.add_violation: a key sent in this epoch is not sent again.
WithKey(keys, sent, usage, u) ==
  [keys EXCEPT ![usage] = IF u \in sent[usage] THEN @ ELSE @ \cup {u}]

\* A reported user has been examined; active-request checks also update blocked_users.
AfterAdding(w) ==
  /\ task' = [task EXCEPT
       ![w].pc = IF task[w].kind = "conn" THEN "record" ELSE "check",
       ![w].val[task[w].cur] = Null]
  /\ UNCHANGED <<now, redis, exceeded, blocked_users, queue>>

\* Policies.add_violation in the epoch of the policies, in an earlier one, or once it has
\* started its own: the key joins those of the current violations.
add_violation(w) ==
  /\ At(w, "insert") \/ (At(w, "add") /\ Second(task[w].at) <= epoch)
  /\ new_keys' = WithKey(new_keys, sent_keys, task[w].act, task[w].cur)
  /\ UNCHANGED <<epoch, sent_keys>>
  /\ AfterAdding(w)

\* Policies.add_violation in a later epoch: the decision to start it.
see_new_epoch(w) ==
  /\ At(w, "add")
  /\ Second(task[w].at) > epoch
  /\ task' = [task EXCEPT ![w].pc = "new_epoch"]
  /\ UNCHANGED <<now, redis, exceeded, blocked_users, policies, queue>>

\* Policies.new_epoch, first assignment: other threads see the new epoch and still the old
\* violations.
new_epoch(w) ==
  /\ At(w, "new_epoch")
  /\ epoch' = Second(task[w].at)
  /\ task' = [task EXCEPT ![w].pc = "renew"]
  /\ UNCHANGED <<now, redis, exceeded, blocked_users, new_keys, sent_keys, queue>>

\* The check goes on with new violations, and what others have not marked yet is stale.
AfterRenewal(w) ==
  /\ task' = [x \in Workers |->
       IF x = w THEN [task[x] EXCEPT !.pc = "insert"]
       ELSE IF At(x, "mark") THEN [task[x] EXCEPT !.stale = TRUE] ELSE task[x]]
  /\ UNCHANGED <<now, redis, exceeded, blocked_users, epoch, queue>>

\* Mutant: the keys sent in the last epoch are kept.
RenewKeepsSent(w) ==
  /\ At(w, "renew")
  /\ new_keys' = NoKeys /\ UNCHANGED sent_keys
  /\ AfterRenewal(w)

\* Policies.new_epoch, second assignment: it may undo what other threads have added since,
\* also to the new violations of a thread that started the same epoch.
new_violations(w) ==
  /\ At(w, "renew")
  /\ new_keys' = NoKeys /\ sent_keys' = NoKeys
  /\ AfterRenewal(w)

\* Mutant: the KeyError ends the check, its messages included.
RecordRaises(w) ==
  /\ At(w, "record")
  /\ LET u == task[w].cur
     IN  \/ /\ task[w].act = "reqs_block"
            /\ blocked_users' = [blocked_users EXCEPT ![u] = task[w].at]
            /\ task' = [task EXCEPT ![w].pc = "check"]
         \/ /\ task[w].act = "reqs_unblock" /\ blocked_users[u] # Null
            /\ blocked_users' = [blocked_users EXCEPT ![u] = Null]
            /\ task' = [task EXCEPT ![w].pc = "check"]
         \/ /\ task[w].act = "reqs_unblock" /\ blocked_users[u] = Null
            /\ task' = [task EXCEPT ![w] = Null]
            /\ UNCHANGED blocked_users
  /\ UNCHANGED <<now, redis, exceeded, policies, queue>>

\* blocked_users is updated. When another check has deleted the entry, del raises a
\* KeyError and the users not yet examined are skipped.
record(w) ==
  /\ At(w, "record")
  /\ LET u == task[w].cur
     IN  \/ /\ task[w].act = "reqs_block"
            /\ blocked_users' = [blocked_users EXCEPT ![u] = task[w].at]
            /\ task' = [task EXCEPT ![w].pc = "check"]
         \/ /\ task[w].act = "reqs_unblock" /\ blocked_users[u] # Null
            /\ blocked_users' = [blocked_users EXCEPT ![u] = Null]
            /\ task' = [task EXCEPT ![w].pc = "check"]
         \/ /\ task[w].act = "reqs_unblock" /\ blocked_users[u] = Null
            /\ task' = [task EXCEPT ![w].pc = "check", ![w].val = NothingToCheck]
            /\ UNCHANGED blocked_users
  /\ UNCHANGED <<now, redis, exceeded, policies, queue>>

-----------------------------------------------------------------------------
\* The message of a usage value, if it has new keys.
MessageOf(usage, t) ==
  IF new_keys[usage] = {} THEN <<>>
  ELSE << [usage |-> usage, keys |-> new_keys[usage], at |-> t] >>

\* generate_violation_message, first half: the messages of all usage values, in the order
\* of UsageValue and with the time of the check. Without any, the check is over.
generate_violation_message(w) ==
  /\ At(w, "check") /\ task[w].val = NothingToCheck
  /\ LET t == task[w].at
         msgs == MessageOf("GET", t) \o MessageOf("reqs_block", t)
                   \o MessageOf("reqs_unblock", t)
     IN  task' = [task EXCEPT ![w] =
           IF msgs = <<>> THEN Null
           ELSE [@ EXCEPT !.pc = "mark", !.out = msgs, !.stale = FALSE]]
  /\ UNCHANGED <<now, redis, exceeded, blocked_users, policies, queue>>

Generated(w) == {m.usage : m \in Range(task[w].out)}

\* The keys that the messages of a check hold for a usage value.
Sent(w, v) == UNION {m.keys : m \in {x \in Range(task[w].out) : x.usage = v}}

\* Second half: whatever is in new_keys when the loop over it begins is marked as sent, and
\* all is removed, late keys too, in the violations the messages were made from.
mark_sent(w) ==
  /\ At(w, "mark")
  /\ task' = [task EXCEPT ![w].pc = "put"]
  /\ \/ /\ ~task[w].stale
        /\ \E late \in [Usages -> SUBSET Users] :
             /\ \A v \in Usages : late[v] \subseteq new_keys[v] \ Sent(w, v)
             /\ sent_keys' = [v \in Usages |->
                  IF v \in Generated(w) THEN sent_keys[v] \cup (new_keys[v] \ late[v])
                  ELSE sent_keys[v]]
        /\ new_keys' = [v \in Usages |-> IF v \in Generated(w) THEN {} ELSE new_keys[v]]
     \/ /\ task[w].stale
        /\ UNCHANGED <<sent_keys, new_keys>>
  /\ UNCHANGED <<now, redis, exceeded, blocked_users, epoch, queue>>

\* A key added during the loop: iterating over the set raises, and the messages are lost
\* with the check. The usage values before it are marked, and some of its keys may be.
mark_raises(w) ==
  /\ At(w, "mark")
  /\ ~task[w].stale
  /\ \E i \in DOMAIN task[w].out :
       LET m == task[w].out[i]
           done == {task[w].out[j].usage : j \in 1 .. i - 1}
       IN  /\ \E marked \in SUBSET (m.keys \cup new_keys[m.usage]),
                 late \in [Usages -> SUBSET Users] :
                /\ ~(new_keys[m.usage] \subseteq m.keys \cup marked)
                /\ \A v \in Usages : late[v] \subseteq new_keys[v] \ Sent(w, v)
                /\ sent_keys' = [v \in Usages |->
                     CASE v \in done   -> sent_keys[v] \cup (new_keys[v] \ late[v])
                       [] v = m.usage  -> sent_keys[v] \cup marked
                       [] OTHER        -> sent_keys[v]]
           /\ new_keys' = [v \in Usages |-> IF v \in done THEN {} ELSE new_keys[v]]
  /\ task' = [task EXCEPT ![w] = Null]
  /\ UNCHANGED <<now, redis, exceeded, blocked_users, epoch, queue>>

\* Mutant: the queue takes one message too many.
AddOneMore(w) ==
  /\ At(w, "put")
  /\ LET rest == Tail(task[w].out)
     IN  task' = [task EXCEPT ![w] = IF rest = <<>> THEN Null ELSE [@ EXCEPT !.out = rest]]
  /\ queue' = IF Len(queue) <= QueueSize THEN Append(queue, Head(task[w].out)) ELSE queue
  /\ UNCHANGED <<now, redis, exceeded, blocked_users, policies>>

\* HaproxyServer.add_message: a full queue drops the new message.
add_message(w) ==
  /\ At(w, "put")
  /\ LET rest == Tail(task[w].out)
     IN  task' = [task EXCEPT ![w] = IF rest = <<>> THEN Null ELSE [@ EXCEPT !.out = rest]]
  /\ queue' = IF Len(queue) < QueueSize THEN Append(queue, Head(task[w].out)) ELSE queue
  /\ UNCHANGED <<now, redis, exceeded, blocked_users, policies>>

-----------------------------------------------------------------------------
\* HaproxyServer.run drains the queue and concatenates the messages with nothing between
\* them: HAProxy reads one line with the head of the first message, in which the last key
\* of every message but the last is fused with the head of the next and names nobody.
Concatenated(msgs) ==
  LET n == Len(msgs)
  IN  {[usage |-> msgs[1].usage, at |-> msgs[1].at,
        keys |-> (UNION {msgs[i].keys \ {last[i]} : i \in 1 .. n - 1}) \cup msgs[n].keys] :
         last \in {f \in [1 .. n - 1 -> Users] : \A i \in 1 .. n - 1 : f[i] \in msgs[i].keys}}

\* The drained line leaves the generator.
send_policy_to_haproxy(line) ==
  /\ line \in Concatenated(queue)
  /\ queue' = <<>>
  /\ UNCHANGED <<now, redis, exceeded, blocked_users, policies, task>>

-----------------------------------------------------------------------------
\* External: the syslog server writes a count, or the key expires.
SetCount(u, n) ==
  /\ redis[u] # n
  /\ redis' = [redis EXCEPT ![u] = n]
  /\ UNCHANGED <<now, exceeded, blocked_users, policies, queue, task>>

\* External: a user's requests of this second reach their limit.
Exceed(u) ==
  /\ <<Second(now), u>> \notin exceeded
  /\ exceeded' = exceeded \cup {<<Second(now), u>>}
  /\ UNCHANGED <<now, redis, blocked_users, policies, queue, task>>

\* The generator is killed and starts again; Redis and the clock go on.
RestartGenerator ==
  /\ blocked_users' = [u \in Users |-> Null]
  /\ epoch' = 0 /\ new_keys' = NoKeys /\ sent_keys' = NoKeys
  /\ queue' = <<>>
  /\ task' = [w \in Workers |-> Null]
  /\ UNCHANGED <<now, redis, exceeded>>

\* A step of a check that finds Redis up.
CheckStep(w) ==
  \/ call_redis_eval(w)
  \/ create_user_level_metric_raises(w)
  \/ \E u \in Users : _check_all_conn_key_violations(w, u)
  \/ \E u \in Users : _check_violation_per_key_verb(w, u)
  \/ add_violation(w)
  \/ see_new_epoch(w)
  \/ new_epoch(w)
  \/ new_violations(w)
  \/ record(w)
  \/ generate_violation_message(w)
  \/ mark_sent(w)
  \/ mark_raises(w)
  \/ add_message(w)
=============================================================================
