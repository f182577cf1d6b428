----------------------------- MODULE LimitShare -----------------------------
(***************************************************************************)
(* Limit shares: the demand loop of the policy generator reads the active   *)
(* requests of every user and HAProxy instance from Redis, splits each       *)
(* user's bandwidth limit in proportion and sends all shares to all          *)
(* instances (policy_generator.py); an instance picks its own out of the     *)
(* message and keeps them in the filter's table (haproxy_lua.lua,           *)
(* flt_weir.c).                                                             *)
(*                                                                         *)
(* Timestamps only matter by their order, so that they are ages: the number  *)
(* of rounds of the loop since.                                            *)
(***************************************************************************)
EXTENDS Integers, FiniteSets, Functions

CONSTANTS
  DemandKeys,        \* a user and a direction
  Instances,         \* HAProxy instances, each one server of the configuration
  Null,
  Limit,             \* the bandwidth limit of each key, below UINT_MAX (see WeirFilter)
  CountsOf,          \* the active requests that a key may have at an instance
  UnderscoredUsers,  \* may users with an underscore in their names turn up?
  MaxAge             \* bound: a message is read before that many rounds have passed

ASSUME ShareAssumption ==
  /\ IsFiniteSet(DemandKeys) /\ IsFiniteSet(Instances)
  /\ Limit \in [DemandKeys -> Nat]
  /\ CountsOf \in [DemandKeys -> [Instances -> SUBSET Nat]]
  /\ \A k \in DemandKeys, i \in Instances : 0 \in CountsOf[k][i]
  /\ UnderscoredUsers \in BOOLEAN
  /\ MaxAge \in Nat \ {0}

VARIABLES
  counts,            \* external: the values of the conn_v2 keys in Redis, 0 for none
  loop,              \* the demand loop: its position and local variables
  inbox,             \* messages on their way to an instance, on one connection or several
  held               \* the share that an instance has for a key, or Null

vars == <<counts, loop, inbox, held>>

\* The shares of a round, and the keys whose lines the parser reaches.
Message == [shares : [DemandKeys -> [Instances -> Nat]], readable : SUBSET DemandKeys]

\* What an instance gets out of it: its shares, 0 where it has none.
Part == [age : 0 .. MaxAge, shares : [DemandKeys -> Nat]]

\* The loop sleeps, waits for mget, sends to the servers that are left, or its thread is gone.
Loop ==
  [at : {"sleep", "mget", "send", "dead"}, keys : SUBSET (DemandKeys \X Instances),
   message : Message \cup {Null}, servers : SUBSET Instances]

\* The types of the demand loop, its messages and the shares held: a share in force is
\* positive and at most the limit (compute_bandwidth_limit_share).
TypeOK ==
  /\ counts \in [DemandKeys -> [Instances -> Nat]]
  /\ \A k \in DemandKeys, i \in Instances : counts[k][i] \in CountsOf[k][i]
  /\ loop \in Loop
  /\ inbox \in [Instances -> SUBSET Part]
  /\ held \in [Instances -> [DemandKeys ->
               [share : Nat \ {0}, age : 0 .. MaxAge] \cup {Null}]]
  /\ \A i \in Instances, k \in DemandKeys :
       held[i][k] = Null \/ held[i][k].share <= Limit[k]

Sleeping == [at |-> "sleep", keys |-> {}, message |-> Null, servers |-> {}]

Init ==
  /\ counts = [k \in DemandKeys |-> [i \in Instances |-> 0]]
  /\ loop = Sleeping
  /\ inbox = [i \in Instances |-> {}]
  /\ held = [i \in Instances |-> [k \in DemandKeys |-> Null]]

-----------------------------------------------------------------------------
\* limit_share_check_loop collects the keys; an mget of none is an error that ends the round.
scan_iter ==
  /\ loop.at = "sleep"
  /\ LET found == {ki \in DemandKeys \X Instances : counts[ki[1]][ki[2]] > 0}
     IN  /\ found # {}
         /\ loop' = [Sleeping EXCEPT !.at = "mget", !.keys = found]
  /\ UNCHANGED <<counts, inbox, held>>

\* aggregate_demand_from_conn_v2: keys that are gone since have no value, new ones are not
\* asked for. A count of 0 has the effect of none.
Demand ==
  [k \in DemandKeys |-> [i \in Instances |-> IF <<k, i>> \in loop.keys THEN counts[k][i] ELSE 0]]

Total(demand, k) == SumFunctionOnSet(demand[k], Instances)

\* Mutant: the share is rounded up.
ShareRoundedUp(demand, k) ==
  LET total == Total(demand, k)
  IN  [i \in Instances |-> (Limit[k] * demand[k][i] + total - 1) \div total]

\* Mutant: the demand is not divided by the total.
ShareOfCount(demand, k) == [i \in Instances |-> Limit[k] * demand[k][i]]

\* compute_bandwidth_limit_share for a key that is in demand, rounded down.
compute_bandwidth_limit_share(demand, k) ==
  [i \in Instances |-> (Limit[k] * demand[k][i]) \div Total(demand, k)]

NoShares == [i \in Instances |-> 0]

SharesOf(demand) ==
  [k \in DemandKeys |->
     IF Total(demand, k) = 0 THEN NoShares ELSE compute_bandwidth_limit_share(demand, k)]

\* A key in demand whose shares are all 0 makes a line without any, at which the parser gives
\* up. The lines come in the order of a Python set: any keys may be behind it.
Readable(demand) ==
  LET inDemand == {k \in DemandKeys : Total(demand, k) > 0}
      short == {k \in inDemand : SharesOf(demand)[k] = NoShares}
  IN  IF short = {} THEN {inDemand} ELSE SUBSET (inDemand \ short)

Older(age) == IF age < MaxAge THEN age + 1 ELSE age

\* The values arrive, a timestamp is taken, and the message of the round is made.
limit_share_check_loop ==
  /\ loop.at = "mget"
  /\ \/ /\ \E k \in DemandKeys : Total(Demand, k) > 0
        /\ \A i \in Instances : \A m \in inbox[i] : m.age + 1 < MaxAge
        /\ \E readable \in Readable(Demand) :
             loop' = [at |-> "send", keys |-> {}, servers |-> Instances,
                      message |-> [shares |-> SharesOf(Demand), readable |-> readable]]
        /\ inbox' = [i \in Instances |-> {[m EXCEPT !.age = Older(@)] : m \in inbox[i]}]
        /\ held' = [i \in Instances |-> [k \in DemandKeys |->
             IF held[i][k] = Null THEN Null ELSE [held[i][k] EXCEPT !.age = Older(@)]]]
     \/ /\ \A k \in DemandKeys : Total(Demand, k) = 0
        /\ loop' = Sleeping
        /\ UNCHANGED <<inbox, held>>
  /\ UNCHANGED counts

\* scan_iter or mget fails.
RedisFails ==
  /\ loop.at = "mget"
  /\ loop' = Sleeping
  /\ UNCHANGED <<counts, inbox, held>>

\* A user with an underscore in its name has requests, and its Redis key more components than
\* are unpacked: the exception ends the thread.
UnpackingRaises ==
  /\ UnderscoredUsers
  /\ loop.at = "mget"
  /\ loop' = [Sleeping EXCEPT !.at = "dead"]
  /\ UNCHANGED <<counts, inbox, held>>

\* One server after the other, in the order of the configuration, which may be any.
NextServer(i) ==
  loop' = IF loop.servers = {i} THEN Sleeping ELSE [loop EXCEPT !.servers = @ \ {i}]

\* What ingest_policies at instance i will make of a message.
PartOf(i, m) ==
  [age |-> 0,
   shares |-> [k \in DemandKeys |-> IF k \in m.readable THEN m.shares[k][i] ELSE 0]]

\* _send_policies, on the connection there is or on a new one. An older connection may still
\* hold messages, which another applet of HAProxy reads.
_send_policies(i) ==
  /\ loop.at = "send" /\ i \in loop.servers
  /\ inbox' = [inbox EXCEPT ![i] = @ \cup {PartOf(i, loop.message)}]
  /\ NextServer(i)
  /\ UNCHANGED <<counts, held>>

\* Both attempts fail, or the connection breaks with the message still in it.
SendFails(i) ==
  /\ loop.at = "send" /\ i \in loop.servers
  /\ NextServer(i)
  /\ UNCHANGED <<counts, inbox, held>>

-----------------------------------------------------------------------------
\* Mutant: the timestamps are compared the other way round.
KeepNewer(i, m, k) ==
  IF held[i][k] # Null /\ held[i][k].age > m.age THEN held[i][k]
  ELSE [share |-> m.shares[k], age |-> m.age]

\* weir_ingest_limit_share_update: an older share changes nothing.
weir_ingest_limit_share_update(i, m, k) ==
  IF held[i][k] # Null /\ held[i][k].age < m.age THEN held[i][k]
  ELSE [share |-> m.shares[k], age |-> m.age]

\* ingest_policies reads a limit_share message: an instance has a part in the lines where its
\* share is positive. The lines are of different keys, so that it may read them at once.
ingest_policies(i) ==
  \E m \in inbox[i] :
    /\ inbox' = [inbox EXCEPT ![i] = @ \ {m}]
    /\ held' = [held EXCEPT ![i] = [k \in DemandKeys |->
                  IF m.shares[k] > 0 THEN weir_ingest_limit_share_update(i, m, k)
                  ELSE held[i][k]]]
    /\ UNCHANGED <<counts, loop>>

\* The clean-up in weir_enable_filter frees the entry of an idle user.
CleanUp(i, k) ==
  /\ counts[k][i] = 0 /\ held[i][k] # Null
  /\ held' = [held EXCEPT ![i][k] = Null]
  /\ UNCHANGED <<counts, loop, inbox>>

\* External: the syslog server writes a count, or one expires.
CountChanges(k, i) ==
  /\ \E n \in CountsOf[k][i] \ {counts[k][i]} : counts' = [counts EXCEPT ![k][i] = n]
  /\ UNCHANGED <<loop, inbox, held>>

Next ==
  \/ scan_iter \/ limit_share_check_loop \/ RedisFails \/ UnpackingRaises
  \/ \E i \in Instances :
       \/ _send_policies(i) \/ SendFails(i) \/ ingest_policies(i)
       \/ \E k \in DemandKeys : CleanUp(i, k) \/ CountChanges(k, i)

\* The loop goes on, and Redis and the instances can be reached again and again.
Fairness ==
  /\ WF_vars(scan_iter)
  /\ SF_vars(limit_share_check_loop)
  /\ \A i \in Instances : SF_vars(_send_policies(i)) /\ WF_vars(ingest_policies(i))

Spec == Init /\ [][Next]_vars /\ Fairness

-----------------------------------------------------------------------------
\* The shares of one round add up to no more than the limit of their user over all the
\* instances that hold one, however they were delayed, overtaken, lost or read in part.
SharesAddUp ==
  \A k \in DemandKeys, age \in 0 .. MaxAge - 1 :
    SumFunction([i \in {j \in Instances : held[j][k] # Null /\ held[j][k].age = age} |->
                   held[i][k].share]) <= Limit[k]

Spreads(k) ==
  {c \in [Instances -> UNION {CountsOf[k][i] : i \in Instances}] :
     \A i \in Instances : c[i] \in CountsOf[k][i]}

\* Shares follow the demand: once a user's requests are spread over the instances in one way,
\* each instance ends up with that fraction of its limit, whatever it held before and whatever
\* was lost, unless a user with an underscore in its name has ended the loop. Only while a
\* user without any bandwidth has requests may the others wait.
SharesConverge ==
  \A k \in {j \in DemandKeys : Limit[j] > 0} : \A c \in Spreads(k) :
    <>[](counts[k] = c /\ \A j \in DemandKeys : Limit[j] = 0 => counts[j] = NoShares)
      => <>[](\/ loop.at = "dead"
              \/ \A i \in Instances : c[i] > 0 =>
                   /\ held[i][k] # Null
                   /\ held[i][k].share =
                        (Limit[k] * c[i]) \div SumFunctionOnSet(c, Instances))
=============================================================================
