------------------------- MODULE EnforcementProofs -------------------------
(***************************************************************************)
(* Proofs about Enforcement for any users, pool threads, limits, clocks and  *)
(* failures: its types; that only a user that has been at the limit is ever  *)
(* blocked or reported, along the way of a count from Redis through the      *)
(* checks, the keys to send and the messages to blocked_users and the queue, *)
(* which the threads share with no lock; that no key to send is forgotten;   *)
(* and the deadlines: who is over a limit is throttled or blocked in time,   *)
(* who is not is let through in time.                                       *)
(***************************************************************************)
EXTENDS Enforcement, SequenceTheorems, TLAPS

\* A message made by time t that blocks no one but users of R.
SoundMessage(m, t, R) ==
  /\ m \in Message /\ m.at <= t
  /\ m.usage = "reqs_block" => m.keys \subseteq R

\* A check under way at time t: the user it is about to report as a violator, the counts it
\* read and the messages it holds are about users of R.
Sound(c, t, R) ==
  /\ c \in Check /\ c.at <= t
  /\ c.pc \in {"add", "new_epoch", "renew", "insert", "record"} =>
       c.cur \in Users /\ (c.act = "reqs_block" => c.cur \in R)
  /\ c.pc \in {"mark", "put"} => c.out # <<>>
  /\ c.kind = "conn" => \A u \in Users : Over(c.val[u]) => u \in R
  /\ \A i \in 1 .. Len(c.out) : SoundMessage(c.out[i], t, R)

TasksSound ==
  /\ task \in [Workers -> Check \cup {Null}]
  /\ \A w \in Workers : task[w] # Null => Sound(task[w], now, reached)

KeysSound ==
  /\ epoch \in 0 .. Second(now)
  /\ new_keys \in [Usages -> SUBSET Users] /\ sent_keys \in [Usages -> SUBSET Users]
  /\ new_keys["reqs_block"] \subseteq reached

BlockedSound ==
  /\ blocked_users \in [Users -> (0 .. now) \cup {Null}]
  /\ \A u \in Users : blocked_users[u] # Null => u \in reached

QueueSound ==
  /\ queue \in Seq(Message) /\ Len(queue) <= QueueSize
  /\ \A i \in 1 .. Len(queue) : SoundMessage(queue[i], now, reached)

CountsSound ==
  /\ now \in Nat /\ now <= MaxTime
  /\ redis \in [Users -> Counts \cup {Null}]
  /\ exceeded \subseteq (0 .. Second(now)) \X Users
  /\ reached \subseteq Users
  /\ \A u \in Users : Over(redis[u]) => u \in reached

HaproxySound ==
  /\ reqs_map \in [Users -> (0 .. Second(now)) \cup {Null}]
  /\ vio_map \subseteq (0 .. Second(now)) \X Users
  /\ scanned \in [Kinds -> 0 .. MaxScans]
  /\ events \in 0 .. MaxEvents
  /\ overSince \in [Users -> (0 .. now) \cup {Null}]
  /\ verbSince \in [Users -> (0 .. now) \cup {Null}]
  /\ quiet \subseteq Users /\ carried \subseteq Users
  /\ calmSince \in [Users -> (0 .. now) \cup {Null}]

\* The inductive invariant.
IndInv ==
  TasksSound /\ KeysSound /\ BlockedSound /\ QueueSound /\ CountsSound /\ HaproxySound

-----------------------------------------------------------------------------
\* Seconds are natural numbers and do not go back.
LEMMA SecondMonotone ==
  ASSUME NEW s \in Nat, NEW t \in Nat, s <= t
  PROVE  Second(s) \in Nat /\ Second(t) \in Nat /\ Second(s) <= Second(t)
<1> DEFINE T == TicksPerSecond
           p == s \div T
           q == t \div T
<1>1. T \in Nat \ {0}
  BY GeneratorAssumption
<1>2. p \in Nat /\ q \in Nat /\ T * p <= s /\ t < T * q + T
  BY <1>1
<1> HIDE DEF T, p, q
<1>3. T * p < T * (q + 1)
  <2>1. T * p \in Nat /\ T * q \in Nat /\ T * (q + 1) = T * q + T
    BY <1>1, <1>2
  <2>2. QED
    BY <1>1, <1>2, <2>1
<1>4. p < q + 1
  <2> SUFFICES ASSUME p >= q + 1 PROVE FALSE
    BY <1>2
  <2>1. PICK e \in Nat : p = (q + 1) + e
    <3>1. p - (q + 1) \in Nat /\ p = (q + 1) + (p - (q + 1))
      BY <1>2
    <3>2. QED
      BY <3>1
  <2>2. T * p = T * (q + 1) + T * e
    BY <1>1, <1>2, <2>1
  <2>3. T * e \in Nat /\ T * (q + 1) \in Nat
    BY <1>1, <1>2, <2>1
  <2>4. QED
    BY <1>3, <2>2, <2>3
<1>5. QED
  BY <1>2, <1>4 DEF p, q, T, Second

\* Time passes and users reach their limits: what was sound stays sound.
LEMMA SoundMessageGrows ==
  ASSUME NEW m, NEW t \in Nat, NEW R, NEW t2 \in Nat, NEW R2, t <= t2, R \subseteq R2,
         SoundMessage(m, t, R)
  PROVE  SoundMessage(m, t2, R2)
BY DEF SoundMessage, Message

\* The same for a check.
LEMMA SoundGrows ==
  ASSUME NEW c, NEW t \in Nat, NEW R, NEW t2 \in Nat, NEW R2, t <= t2, R \subseteq R2,
         Sound(c, t, R)
  PROVE  Sound(c, t2, R2)
<1>1. c \in Check /\ c.at \in Nat /\ c.at <= t2
  BY DEF Sound, Check
<1>2. \A i \in 1 .. Len(c.out) : SoundMessage(c.out[i], t2, R2)
  BY SoundMessageGrows DEF Sound
<1>3. QED
  BY <1>1, <1>2 DEF Sound

\* A thread's check goes on as c, or ends.
LEMMA TaskReplaced ==
  ASSUME TasksSound, NEW w \in Workers, NEW c, task' = [task EXCEPT ![w] = c],
         c = Null \/ Sound(c, now, reached), UNCHANGED <<now, reached>>
  PROVE  TasksSound'
<1>1. c \in Check \cup {Null}
  BY DEF Sound
<1>2. \A x \in Workers : task'[x] # Null => Sound(task'[x], now, reached)
  BY DEF TasksSound
<1>3. QED
  BY <1>1, <1>2 DEF TasksSound

-----------------------------------------------------------------------------
(* The steps of a check. *)

\* A scan starts a check with nothing read yet.
LEMMA ScanSound ==
  ASSUME IndInv, NEW w \in Workers, NEW k \in Kinds, check_loop(w, k), UNCHANGED reached
  PROVE  TasksSound'
<1> DEFINE c == [pc |-> "eval", kind |-> k, at |-> now, cur |-> Null, act |-> "GET",
                 out |-> <<>>, stale |-> FALSE,
                 val |-> [u \in Users |-> IF k = "conn" /\ redis[u] = Null THEN Null ELSE 0]]
<1> USE GeneratorAssumption
<1>1. now \in Nat /\ TasksSound
  BY DEF IndInv, CountsSound
<1>2. <<>> \in Seq(Message) /\ Len(<<>>) = 0
  BY EmptySeq
<1>3. c \in Check
  BY <1>1, <1>2 DEF Check, Usages
<1>4. \A u \in Users : ~Over(c.val[u])
  BY DEF Over
<1>5. /\ c.at = now /\ c.pc = "eval" /\ c.out = <<>>
  OBVIOUS
<1>6. task' = [task EXCEPT ![w] = c] /\ UNCHANGED <<now, reached>>
  BY DEF check_loop
<1> HIDE DEF c
<1>7. Sound(c, now, reached)
  BY <1>1, <1>2, <1>3, <1>4, <1>5 DEF Sound
<1>8. QED
  <2>1. PICK d : d = c
    OBVIOUS
  <2>2. QED
    BY <1>1, <1>6, <1>7, <2>1, TaskReplaced

\* The check reads the counts, or Redis fails.
LEMMA EvalSound ==
  ASSUME IndInv, NEW w \in Workers, call_redis_eval(w) \/ RedisFails(w), UNCHANGED reached
  PROVE  TasksSound'
<1> USE GeneratorAssumption
<1> DEFINE c == task[w]
           read == [u \in Users |->
             CASE c.val[u] = Null     -> Null
               [] c.kind = "verb"     -> IF <<Second(c.at), u>> \in exceeded THEN 1 ELSE 0
               [] OTHER               -> IF redis[u] = Null THEN 0 ELSE redis[u]]
<1>1. TasksSound /\ CountsSound /\ UNCHANGED <<now, reached>> /\ c # Null /\ c.pc = "eval"
  BY DEF IndInv, call_redis_eval, RedisFails, At
<1>2. c \in Check /\ Sound(c, now, reached)
  BY <1>1 DEF TasksSound, Sound
<1>3. PICK v : /\ v = read \/ v = NothingToCheck
               /\ task' = [task EXCEPT ![w] = [c EXCEPT !.pc = "check", !.val = v]]
  <2>1. CASE call_redis_eval(w)
    <3>1. task' = [task EXCEPT ![w] = [c EXCEPT !.pc = "check", !.val = read]]
      BY <1>1, <1>2, <2>1 DEF call_redis_eval, TasksSound, Check
    <3>2. QED
      BY <3>1
  <2>2. CASE RedisFails(w)
    <3>1. task' = [task EXCEPT ![w] = [c EXCEPT !.pc = "check", !.val = NothingToCheck]]
      BY <1>1, <1>2, <2>2 DEF RedisFails, TasksSound, Check
    <3>2. QED
      BY <3>1
  <2>3. QED
    BY <2>1, <2>2
<1>4. v \in [Users -> Nat \cup {Null}]
  <2>1. read \in [Users -> Nat \cup {Null}]
    <3>1. ASSUME NEW u \in Users PROVE read[u] \in Nat \cup {Null}
      <4>1. redis[u] \in Nat \cup {Null}
        BY <1>1 DEF CountsSound
      <4>2. read[u] \in {Null, 0, 1, redis[u]}
        OBVIOUS
      <4>3. QED
        BY <4>1, <4>2
    <3>2. QED
      BY <3>1
  <2>2. NothingToCheck \in [Users -> Nat \cup {Null}]
    BY DEF NothingToCheck
  <2>3. QED
    BY <1>3, <2>1, <2>2
<1>5. c.kind = "conn" => \A u \in Users : Over(v[u]) => u \in reached
  BY <1>1, <1>3 DEF CountsSound, NothingToCheck, Over
<1> HIDE DEF c, read
<1>6. PICK d : d = [c EXCEPT !.pc = "check", !.val = v]
  OBVIOUS
<1>7. /\ d \in Check /\ d.pc = "check" /\ d.val = v /\ d.out = c.out /\ d.at = c.at
      /\ d.kind = c.kind
  BY <1>2, <1>4, <1>6 DEF Check
<1>8. Sound(d, now, reached)
  BY <1>2, <1>5, <1>7 DEF Sound
<1>9. QED
  BY <1>1, <1>3, <1>6, <1>8, TaskReplaced

\* A key that cannot be parsed: nothing is left to examine.
LEMMA UnparsableSound ==
  ASSUME IndInv, NEW w \in Workers, create_user_level_metric_raises(w), UNCHANGED reached
  PROVE  TasksSound'
<1> DEFINE c == task[w]
<1>1. TasksSound /\ UNCHANGED <<now, reached>> /\ c # Null /\ c.pc = "check"
  BY DEF IndInv, create_user_level_metric_raises, At
<1>2. c \in Check /\ Sound(c, now, reached)
  BY <1>1 DEF TasksSound, Sound
<1>3. task' = [task EXCEPT ![w] = [c EXCEPT !.val = NothingToCheck]]
  BY <1>1, <1>2 DEF create_user_level_metric_raises, TasksSound, Check
<1>4. NothingToCheck \in [Users -> Nat \cup {Null}]
  BY DEF NothingToCheck
<1> HIDE DEF c
<1>5. PICK d : d = [c EXCEPT !.val = NothingToCheck]
  OBVIOUS
<1>6. /\ d \in Check /\ d.pc = "check" /\ d.val = NothingToCheck /\ d.out = c.out /\ d.at = c.at
      /\ d.kind = c.kind
  BY <1>1, <1>2, <1>4, <1>5 DEF Check, c
<1>7. \A u \in Users : ~Over(d.val[u])
  BY <1>6 DEF NothingToCheck, Over
<1>8. Sound(d, now, reached)
  BY <1>2, <1>6, <1>7 DEF Sound
<1>9. QED
  BY <1>1, <1>3, <1>5, <1>8, TaskReplaced

\* The user that is reported as a violator was at the limit when its count was read, or is
\* blocked already.
LEMMA ExamineSound ==
  ASSUME IndInv, NEW w \in Workers, NEW u \in Users, UNCHANGED reached,
         _check_all_conn_key_violations(w, u) \/ _check_violation_per_key_verb(w, u)
  PROVE  TasksSound'
<1> USE GeneratorAssumption
<1> DEFINE c == task[w]
<1>1. /\ TasksSound /\ BlockedSound /\ UNCHANGED <<now, reached>>
      /\ c # Null /\ c.pc = "check" /\ c.val[u] # Null
  BY DEF IndInv, _check_all_conn_key_violations, _check_violation_per_key_verb, At
<1>2. c \in Check /\ Sound(c, now, reached)
  BY <1>1 DEF TasksSound, Sound
<1>3. ASSUME NEW usage \in Usages, Report(w, u, usage), usage = "reqs_block" => u \in reached
      PROVE  TasksSound'
  <2>1. task' = [task EXCEPT ![w] = [c EXCEPT !.pc = "add", !.cur = u, !.act = usage]]
    BY <1>1, <1>2, <1>3 DEF Report, TasksSound, Check
  <2> HIDE DEF c
  <2>2. PICK d : d = [c EXCEPT !.pc = "add", !.cur = u, !.act = usage]
    OBVIOUS
  <2>3. /\ d \in Check /\ d.pc = "add" /\ d.val = c.val /\ d.out = c.out /\ d.at = c.at
        /\ d.kind = c.kind /\ d.cur = u /\ d.act = usage
    BY <1>2, <2>2 DEF Check
  <2>4. Sound(d, now, reached)
    BY <1>2, <1>3, <2>3 DEF Sound
  <2>5. QED
    BY <1>1, <2>1, <2>2, <2>4, TaskReplaced
<1>4. ASSUME Examined(w, u) PROVE TasksSound'
  <2>1. PICK d : d = [c EXCEPT !.val = [c.val EXCEPT ![u] = Null]]
    OBVIOUS
  <2>2. task' = [task EXCEPT ![w] = d]
    BY <1>1, <1>2, <1>4, <2>1 DEF Examined, TasksSound, Check
  <2> HIDE DEF c
  <2>3. c.val \in [Users -> Nat \cup {Null}]
    BY <1>2 DEF Check
  <2>4. /\ d \in Check /\ d.pc = c.pc /\ d.val = [c.val EXCEPT ![u] = Null]
        /\ d.out = c.out /\ d.at = c.at /\ d.kind = c.kind
    BY <1>2, <2>1, <2>3 DEF Check
  <2>5. \A x \in Users : Over(d.val[x]) => Over(c.val[x])
    BY <2>3, <2>4 DEF Over
  <2>6. Sound(d, now, reached)
    BY <1>1, <1>2, <2>4, <2>5 DEF Sound
  <2>7. QED
    BY <1>1, <2>2, <2>6, TaskReplaced
<1>5. CASE _check_all_conn_key_violations(w, u)
  <2>1. c.kind = "conn" /\ (Over(c.val[u]) => u \in reached)
    BY <1>2, <1>5 DEF _check_all_conn_key_violations, Sound
  <2>2. ShouldBlock(c.val[u], u, c.at) => u \in reached
    BY <1>1, <2>1 DEF ShouldBlock, Over, BlockedSound
  <2>3. "reqs_block" \in Usages /\ "reqs_unblock" \in Usages
    BY DEF Usages
  <2>4. \/ ShouldBlock(c.val[u], u, c.at) /\ Report(w, u, "reqs_block")
        \/ Report(w, u, "reqs_unblock")
        \/ Examined(w, u)
    BY <1>5 DEF _check_all_conn_key_violations
  <2>5. QED
    BY <1>3, <1>4, <2>2, <2>3, <2>4
<1>6. CASE _check_violation_per_key_verb(w, u)
  <2>1. "GET" \in Usages
    BY DEF Usages
  <2>2. QED
    BY <1>3, <1>4, <1>6, <2>1 DEF _check_violation_per_key_verb
<1>7. QED
  BY <1>5, <1>6

\* A key joins the keys to send, and its check goes on.
LEMMA AddSound ==
  ASSUME IndInv, NEW w \in Workers, UNCHANGED reached, add_violation(w)
  PROVE  TasksSound' /\ KeysSound'
<1> USE GeneratorAssumption
<1> DEFINE c == task[w]
<1>1. /\ TasksSound /\ KeysSound /\ CountsSound /\ UNCHANGED <<now, reached>>
      /\ c # Null /\ c.pc \in {"add", "insert"} /\ AfterAdding(w)
  BY DEF IndInv, add_violation, AfterAdding, At
<1>2. c \in Check /\ Sound(c, now, reached)
  BY <1>1 DEF TasksSound, Sound
<1>3. c.cur \in Users /\ (c.act = "reqs_block" => c.cur \in reached) /\ c.act \in Usages
      /\ c.at \in Nat /\ c.at <= now
  BY <1>1, <1>2 DEF Sound, Check
<1>4. TasksSound'
  <2>1. PICK p \in {"record", "check"} : p = IF c.kind = "conn" THEN "record" ELSE "check"
    OBVIOUS
  <2>2. PICK d : d = [c EXCEPT !.pc = p, !.val = [c.val EXCEPT ![c.cur] = Null]]
    OBVIOUS
  <2>3. task' = [task EXCEPT ![w] = d]
    BY <1>1, <1>2, <2>1, <2>2 DEF AfterAdding, TasksSound, Check
  <2> HIDE DEF c
  <2>4. c.val \in [Users -> Nat \cup {Null}]
    BY <1>2 DEF Check
  <2>5. /\ d \in Check /\ d.pc = p /\ d.val = [c.val EXCEPT ![c.cur] = Null]
        /\ d.out = c.out /\ d.at = c.at /\ d.kind = c.kind /\ d.cur = c.cur /\ d.act = c.act
    BY <1>2, <2>2, <2>4 DEF Check
  <2>6. \A x \in Users : Over(d.val[x]) => Over(c.val[x])
    BY <2>4, <2>5 DEF Over
  <2>7. Sound(d, now, reached)
    BY <1>2, <1>3, <2>1, <2>5, <2>6 DEF Sound
  <2>8. QED
    BY <1>1, <2>3, <2>7, TaskReplaced
<1>5. KeysSound'
  <2>1. ASSUME NEW keys \in [Usages -> SUBSET Users], NEW sent, keys["reqs_block"] \subseteq reached
        PROVE  /\ WithKey(keys, sent, c.act, c.cur) \in [Usages -> SUBSET Users]
               /\ WithKey(keys, sent, c.act, c.cur)["reqs_block"] \subseteq reached
    <3> HIDE DEF c
    <3>1. "reqs_block" \in Usages
      BY DEF Usages
    <3>2. QED
      BY <1>3, <2>1, <3>1 DEF WithKey
  <2>2. QED
    BY <1>1, <2>1 DEF add_violation, KeysSound
<1>6. QED
  BY <1>4, <1>5

\* The decision to start a new epoch, and its first assignment, leave the check as it is.
LEMMA SeeEpochSound ==
  ASSUME IndInv, NEW w \in Workers, UNCHANGED reached, see_new_epoch(w) \/ new_epoch(w)
  PROVE  TasksSound'
<1> DEFINE c == task[w]
<1>1. /\ TasksSound /\ UNCHANGED <<now, reached>>
      /\ c # Null /\ c.pc \in {"add", "new_epoch"}
  BY DEF IndInv, see_new_epoch, new_epoch, At
<1>2. c \in Check /\ Sound(c, now, reached)
  BY <1>1 DEF TasksSound, Sound
<1>3. PICK p \in {"new_epoch", "renew"} : task' = [task EXCEPT ![w].pc = p]
  BY DEF see_new_epoch, new_epoch
<1>4. PICK d : d = [c EXCEPT !.pc = p]
  OBVIOUS
<1>5. task' = [task EXCEPT ![w] = d]
  BY <1>1, <1>2, <1>3, <1>4 DEF TasksSound, Check
<1> HIDE DEF c
<1>6. /\ d \in Check /\ d.pc = p /\ d.val = c.val /\ d.out = c.out
      /\ d.at = c.at /\ d.kind = c.kind /\ d.cur = c.cur /\ d.act = c.act
  BY <1>2, <1>4 DEF Check
<1>7. Sound(d, now, reached)
  BY <1>1, <1>2, <1>6 DEF Sound
<1>8. QED
  BY <1>1, <1>5, <1>7, TaskReplaced

\* The first assignment of new_epoch: an epoch that is not in the future.
LEMMA EpochSound ==
  ASSUME IndInv, NEW w \in Workers, UNCHANGED reached, new_epoch(w)
  PROVE  KeysSound'
<1>1. task[w] \in Check /\ Sound(task[w], now, reached) /\ now \in Nat
  BY GeneratorAssumption DEF IndInv, TasksSound, Sound, CountsSound, new_epoch, At
<1>2. task[w].at \in Nat /\ task[w].at <= now
  BY <1>1 DEF Sound, Check
<1>3. epoch' \in 0 .. Second(now)
  BY <1>1, <1>2, SecondMonotone DEF new_epoch
<1>4. QED
  BY <1>3 DEF IndInv, KeysSound, new_epoch

\* The second assignment: no keys, and nothing else of other checks than their staleness.
LEMMA RenewSound ==
  ASSUME IndInv, NEW w \in Workers, UNCHANGED reached, new_violations(w)
  PROVE  TasksSound' /\ KeysSound'
<1>1. TasksSound /\ KeysSound /\ UNCHANGED <<now, reached, epoch>> /\ At(w, "renew")
  BY DEF IndInv, new_violations, AfterRenewal
<1>2. ASSUME NEW x \in Workers
      PROVE  task'[x] \in Check \cup {Null} /\ (task'[x] # Null => Sound(task'[x], now, reached))
  <2>1. CASE task[x] = Null
    BY <1>1, <2>1 DEF new_violations, AfterRenewal, At
  <2>2. CASE task[x] # Null
    <3> DEFINE c == task[x]
    <3>1. c \in Check /\ Sound(c, now, reached)
      BY <1>1, <2>2 DEF TasksSound, Sound
    <3>2. \/ task'[x] = c
          \/ x = w /\ task'[x] = [c EXCEPT !.pc = "insert"]
          \/ x # w /\ task'[x] = [c EXCEPT !.stale = TRUE]
      BY DEF new_violations, AfterRenewal
    <3>3. x = w => c.pc = "renew"
      BY <1>1 DEF At
    <3>4. PICK d : d = task'[x]
      OBVIOUS
    <3> HIDE DEF c
    <3>5. CASE d = c
      BY <3>1, <3>4, <3>5
    <3>6. CASE x = w /\ d = [c EXCEPT !.pc = "insert"]
      <4>1. /\ d \in Check /\ d.pc = "insert" /\ d.val = c.val /\ d.out = c.out
            /\ d.at = c.at /\ d.kind = c.kind /\ d.cur = c.cur /\ d.act = c.act
        BY <3>1, <3>6 DEF Check
      <4>2. QED
        BY <3>1, <3>3, <3>4, <3>6, <4>1 DEF Sound
    <3>7. CASE d = [c EXCEPT !.stale = TRUE]
      <4>1. /\ d \in Check /\ d.pc = c.pc /\ d.val = c.val /\ d.out = c.out
            /\ d.at = c.at /\ d.kind = c.kind /\ d.cur = c.cur /\ d.act = c.act
        BY <3>1, <3>7 DEF Check
      <4>2. QED
        BY <3>1, <3>4, <4>1 DEF Sound
    <3>8. QED
      BY <3>2, <3>4, <3>5, <3>6, <3>7
  <2>3. QED
    BY <2>1, <2>2
<1>3. TasksSound'
  <2>1. task' \in [Workers -> Check \cup {Null}]
    BY <1>2 DEF new_violations, AfterRenewal
  <2>2. QED
    BY <1>1, <1>2, <2>1 DEF TasksSound
<1>4. NoKeys \in [Usages -> SUBSET Users] /\ NoKeys["reqs_block"] = {}
  BY DEF NoKeys, Usages
<1>5. KeysSound'
  BY <1>1, <1>4 DEF new_violations, KeysSound
<1>6. QED
  BY <1>3, <1>5

\* blocked_users gains nobody but the reported violator, whichever check deleted entries in
\* between.
LEMMA RecordSound ==
  ASSUME IndInv, NEW w \in Workers, UNCHANGED reached, record(w)
  PROVE  TasksSound' /\ BlockedSound'
<1> USE GeneratorAssumption
<1> DEFINE c == task[w]
<1>1. /\ TasksSound /\ BlockedSound /\ CountsSound /\ UNCHANGED <<now, reached>>
      /\ c # Null /\ c.pc = "record"
  BY DEF IndInv, record, At
<1>2. c \in Check /\ Sound(c, now, reached)
  BY <1>1 DEF TasksSound, Sound
<1>3. c.cur \in Users /\ (c.act = "reqs_block" => c.cur \in reached)
      /\ c.at \in Nat /\ c.at <= now /\ now \in Nat
  BY <1>1, <1>2 DEF Sound, Check, CountsSound
<1>4. PICK v : /\ v = c.val \/ v = NothingToCheck
               /\ task' = [task EXCEPT ![w] = [c EXCEPT !.pc = "check", !.val = v]]
  <2>1. CASE task' = [task EXCEPT ![w].pc = "check"]
    <3>1. task' = [task EXCEPT ![w] = [c EXCEPT !.pc = "check", !.val = c.val]]
      BY <1>1, <1>2, <2>1 DEF TasksSound, Check
    <3>2. QED
      BY <3>1
  <2>2. CASE task' = [task EXCEPT ![w].pc = "check", ![w].val = NothingToCheck]
    <3>1. task' = [task EXCEPT ![w] = [c EXCEPT !.pc = "check", !.val = NothingToCheck]]
      BY <1>1, <1>2, <2>2 DEF TasksSound, Check
    <3>2. QED
      BY <3>1
  <2>3. QED
    BY <2>1, <2>2 DEF record
<1>5. TasksSound'
  <2>1. v \in [Users -> Nat \cup {Null}]
    BY <1>2, <1>4 DEF NothingToCheck, Check
  <2>2. \A x \in Users : Over(v[x]) => Over(c.val[x])
    BY <1>4 DEF NothingToCheck, Over
  <2> HIDE DEF c
  <2>3. PICK d : d = [c EXCEPT !.pc = "check", !.val = v]
    OBVIOUS
  <2>4. /\ d \in Check /\ d.pc = "check" /\ d.val = v /\ d.out = c.out
        /\ d.at = c.at /\ d.kind = c.kind
    BY <1>2, <2>1, <2>3 DEF Check
  <2>5. Sound(d, now, reached)
    BY <1>2, <2>2, <2>4 DEF Sound
  <2>6. QED
    BY <1>1, <1>4, <2>3, <2>5, TaskReplaced
<1>6. BlockedSound'
  <2>1. c.at \in 0 .. now
    BY <1>3
  <2>2. \/ c.act = "reqs_block" /\ blocked_users' = [blocked_users EXCEPT ![c.cur] = c.at]
        \/ blocked_users' = [blocked_users EXCEPT ![c.cur] = Null]
        \/ UNCHANGED blocked_users
    BY DEF record
  <2> HIDE DEF c
  <2>3. QED
    BY <1>1, <1>3, <2>1, <2>2 DEF BlockedSound
<1>7. QED
  BY <1>5, <1>6

-----------------------------------------------------------------------------
(* Messages. *)

\* Sequences of sound messages.
SoundMessages(s, t, R) ==
  s \in Seq(Message) /\ \A i \in 1 .. Len(s) : SoundMessage(s[i], t, R)

\* They are closed under concatenation, tail and append.
LEMMA SoundSequences ==
  ASSUME NEW t, NEW R
  PROVE  /\ SoundMessages(<<>>, t, R)
         /\ \A m : SoundMessage(m, t, R) => SoundMessages(<<m>>, t, R)
         /\ \A s, r : SoundMessages(s, t, R) /\ SoundMessages(r, t, R)
                        => SoundMessages(s \o r, t, R)
         /\ \A s : SoundMessages(s, t, R) /\ s # <<>>
                     => /\ SoundMessage(Head(s), t, R) /\ SoundMessages(Tail(s), t, R)
         /\ \A s, m : SoundMessages(s, t, R) /\ SoundMessage(m, t, R)
                     => SoundMessages(Append(s, m), t, R) /\ Len(Append(s, m)) = Len(s) + 1
<1>1. SoundMessages(<<>>, t, R)
  BY DEF SoundMessages
<1>2. ASSUME NEW m, SoundMessage(m, t, R) PROVE SoundMessages(<<m>>, t, R)
  BY <1>2 DEF SoundMessages, SoundMessage
<1>3. ASSUME NEW s, NEW r, SoundMessages(s, t, R), SoundMessages(r, t, R)
      PROVE  SoundMessages(s \o r, t, R)
  <2>1. s \in Seq(Message) /\ r \in Seq(Message)
    BY <1>3 DEF SoundMessages
  <2>2. /\ s \o r \in Seq(Message) /\ Len(s \o r) = Len(s) + Len(r)
        /\ \A i \in 1 .. Len(s) + Len(r) :
             (s \o r)[i] = IF i <= Len(s) THEN s[i] ELSE r[i - Len(s)]
    BY <2>1, ConcatProperties
  <2>3. Len(s) \in Nat /\ Len(r) \in Nat
    BY <2>1
  <2>4. ASSUME NEW i \in 1 .. Len(s) + Len(r) PROVE SoundMessage((s \o r)[i], t, R)
    <3>1. CASE i <= Len(s)
      <4>1. i \in 1 .. Len(s) /\ (s \o r)[i] = s[i]
        BY <2>2, <2>3, <3>1
      <4>2. QED
        BY <1>3, <4>1 DEF SoundMessages
    <3>2. CASE ~(i <= Len(s))
      <4>1. i - Len(s) \in 1 .. Len(r) /\ (s \o r)[i] = r[i - Len(s)]
        BY <2>2, <2>3, <3>2
      <4>2. QED
        BY <1>3, <4>1 DEF SoundMessages
    <3>3. QED
      BY <3>1, <3>2
  <2>5. QED
    BY <2>2, <2>4 DEF SoundMessages
<1>4. ASSUME NEW s, SoundMessages(s, t, R), s # <<>>
      PROVE  SoundMessage(Head(s), t, R) /\ SoundMessages(Tail(s), t, R)
  <2>1. /\ s \in Seq(Message) /\ Len(s) \in Nat /\ Len(s) > 0
        /\ Tail(s) \in Seq(Message) /\ Len(Tail(s)) = Len(s) - 1 /\ Head(s) = s[1]
        /\ \A i \in 1 .. Len(Tail(s)) : Tail(s)[i] = s[i + 1]
    BY <1>4, HeadTailProperties DEF SoundMessages
  <2>2. \A i \in 1 .. Len(Tail(s)) : i + 1 \in 1 .. Len(s)
    BY <2>1
  <2>3. SoundMessage(s[1], t, R)
    BY <1>4, <2>1 DEF SoundMessages
  <2>4. QED
    BY <1>4, <2>1, <2>2, <2>3 DEF SoundMessages
<1>5. ASSUME NEW s, NEW m, SoundMessages(s, t, R), SoundMessage(m, t, R)
      PROVE  SoundMessages(Append(s, m), t, R) /\ Len(Append(s, m)) = Len(s) + 1
  <2>1. s \in Seq(Message) /\ m \in Message /\ Len(s) \in Nat
    BY <1>5 DEF SoundMessages, SoundMessage
  <2>2. /\ Append(s, m) \in Seq(Message) /\ Len(Append(s, m)) = Len(s) + 1
        /\ \A i \in 1 .. Len(s) : Append(s, m)[i] = s[i] /\ Append(s, m)[Len(s) + 1] = m
    BY <2>1, AppendProperties
  <2>3. ASSUME NEW i \in 1 .. Len(s) + 1 PROVE SoundMessage(Append(s, m)[i], t, R)
    <3>1. CASE i = Len(s) + 1
      <4>1. Append(s, m)[i] = m
        BY <2>1, <3>1
      <4>2. QED
        BY <1>5, <4>1
    <3>2. CASE i # Len(s) + 1
      <4>1. i \in 1 .. Len(s) /\ Append(s, m)[i] = s[i]
        BY <2>1, <2>2, <3>2
      <4>2. QED
        BY <1>5, <4>1 DEF SoundMessages
    <3>3. QED
      BY <3>1, <3>2
  <2>4. QED
    BY <2>2, <2>3 DEF SoundMessages
<1>6. QED
  BY <1>1, <1>2, <1>3, <1>4, <1>5

\* The messages that a check generates carry the keys to send.
LEMMA GenerateSound ==
  ASSUME IndInv, NEW w \in Workers, UNCHANGED reached, generate_violation_message(w)
  PROVE  TasksSound'
<1> DEFINE c == task[w]
           msgs == MessageOf("GET", c.at) \o MessageOf("reqs_block", c.at)
                     \o MessageOf("reqs_unblock", c.at)
<1>1. /\ TasksSound /\ KeysSound /\ CountsSound /\ UNCHANGED <<now, reached>>
      /\ c # Null /\ c.pc = "check"
  BY DEF IndInv, generate_violation_message, At
<1>2. c \in Check /\ Sound(c, now, reached) /\ c.at \in Nat /\ c.at <= now
  BY <1>1 DEF TasksSound, Sound, Check
<1>3. ASSUME NEW v \in Usages PROVE SoundMessages(MessageOf(v, c.at), now, reached)
  <2> HIDE DEF c
  <2>1. CASE new_keys[v] = {}
    BY <2>1, SoundSequences DEF MessageOf
  <2>2. CASE new_keys[v] # {}
    <3> DEFINE m == [usage |-> v, keys |-> new_keys[v], at |-> c.at]
    <3>1. SoundMessage(m, now, reached)
      BY <1>1, <1>2 DEF SoundMessage, Message, KeysSound
    <3>2. MessageOf(v, c.at) = <<m>>
      BY <2>2 DEF MessageOf
    <3> HIDE DEF m
    <3>3. QED
      BY <3>1, <3>2, SoundSequences
  <2>3. QED
    BY <2>1, <2>2
<1>4. SoundMessages(msgs, now, reached)
  <2>1. /\ SoundMessages(MessageOf("GET", c.at), now, reached)
        /\ SoundMessages(MessageOf("reqs_block", c.at), now, reached)
        /\ SoundMessages(MessageOf("reqs_unblock", c.at), now, reached)
    BY <1>3 DEF Usages
  <2>2. SoundMessages(MessageOf("GET", c.at) \o MessageOf("reqs_block", c.at), now, reached)
    BY <2>1, SoundSequences
  <2>3. QED
    BY <2>1, <2>2, SoundSequences
<1>5. task' = [task EXCEPT ![w] = IF msgs = <<>> THEN Null
                 ELSE [c EXCEPT !.pc = "mark", !.out = msgs, !.stale = FALSE]]
  BY DEF generate_violation_message
<1> HIDE DEF c, msgs
<1>7. CASE msgs = <<>>
  BY <1>1, <1>5, <1>7, TaskReplaced
<1>8. CASE msgs # <<>>
  <2>1. PICK d : d = [c EXCEPT !.pc = "mark", !.out = msgs, !.stale = FALSE]
    OBVIOUS
  <2>2. /\ d \in Check /\ d.pc = "mark" /\ d.out = msgs /\ d.at = c.at /\ d.val = c.val
        /\ d.kind = c.kind
    BY <1>2, <1>4, <2>1 DEF Check, SoundMessages
  <2>3. Sound(d, now, reached)
    BY <1>2, <1>4, <1>8, <2>2 DEF Sound, SoundMessages
  <2>4. task' = [task EXCEPT ![w] = d]
    BY <1>5, <1>8, <2>1
  <2>5. QED
    BY <1>1, <2>3, <2>4, TaskReplaced
<1>9. QED
  BY <1>7, <1>8

\* Marking keys as sent takes keys away, also where it raises in the middle.
LEMMA MarkSound ==
  ASSUME IndInv, NEW w \in Workers, UNCHANGED reached, mark_sent(w) \/ mark_raises(w)
  PROVE  TasksSound' /\ KeysSound'
<1> DEFINE c == task[w]
<1>1. /\ TasksSound /\ KeysSound /\ CountsSound /\ UNCHANGED <<now, reached, epoch>>
      /\ c # Null /\ c.pc = "mark"
  BY DEF IndInv, mark_sent, mark_raises, At
<1>2. c \in Check /\ Sound(c, now, reached)
  BY <1>1 DEF TasksSound, Sound
<1>3. "reqs_block" \in Usages
  BY DEF Usages
<1>4. CASE mark_sent(w)
  <2>1. PICK d : d = [c EXCEPT !.pc = "put"]
    OBVIOUS
  <2>2. task' = [task EXCEPT ![w] = d]
    BY <1>1, <1>2, <1>4, <2>1 DEF mark_sent, TasksSound, Check
  <2> HIDE DEF c
  <2>3. /\ d \in Check /\ d.pc = "put" /\ d.out = c.out /\ d.at = c.at /\ d.val = c.val
        /\ d.kind = c.kind
    BY <1>2, <2>1 DEF Check
  <2>4. Sound(d, now, reached)
    BY <1>1, <1>2, <2>3 DEF Sound
  <2>5. TasksSound'
    BY <1>1, <2>2, <2>4, TaskReplaced
  <2>6. KeysSound'
    <3>1. CASE UNCHANGED <<sent_keys, new_keys>>
      BY <1>1, <3>1 DEF KeysSound
    <3>2. ASSUME NEW late \in [Usages -> SUBSET Users],
                 sent_keys' = [v \in Usages |->
                    IF v \in Generated(w) THEN sent_keys[v] \cup (new_keys[v] \ late[v])
                    ELSE sent_keys[v]],
                 new_keys' = [v \in Usages |-> IF v \in Generated(w) THEN {} ELSE new_keys[v]]
          PROVE  KeysSound'
      BY <1>1, <1>3, <3>2 DEF KeysSound
    <3>3. QED
      BY <1>4, <3>1, <3>2 DEF mark_sent
  <2>7. QED
    BY <2>5, <2>6
<1>5. CASE mark_raises(w)
  <2>1. task' = [task EXCEPT ![w] = Null]
    BY <1>5 DEF mark_raises
  <2>2. TasksSound'
    BY <1>1, <2>1, TaskReplaced
  <2>3. PICK i \in DOMAIN c.out : LET m == c.out[i]
                                      done == {c.out[j].usage : j \in 1 .. i - 1}
       IN  /\ \E marked \in SUBSET (m.keys \cup new_keys[m.usage]),
                 late \in [Usages -> SUBSET Users] :
                /\ ~(new_keys[m.usage] \subseteq m.keys \cup marked)
                /\ \A v \in Usages : late[v] \subseteq new_keys[v] \ Sent(w, v)
                /\ sent_keys' = [v \in Usages |->
                     CASE v \in done   -> sent_keys[v] \cup (new_keys[v] \ late[v])
                       [] v = m.usage  -> sent_keys[v] \cup marked
                       [] OTHER        -> sent_keys[v]]
           /\ new_keys' = [v \in Usages |-> IF v \in done THEN {} ELSE new_keys[v]]
    BY <1>5 DEF mark_raises
  <2> DEFINE m == c.out[i]
             done == {c.out[j].usage : j \in 1 .. i - 1}
  <2>4. m \in Message
    <3>1. c.out \in Seq(Message)
      BY <1>2 DEF Check
    <3>2. QED
      BY <3>1, ElementOfSeq
  <2>5. m.keys \subseteq Users
    BY <2>4 DEF Message
  <2>6. PICK marked \in SUBSET (m.keys \cup new_keys[m.usage]), late \in [Usages -> SUBSET Users] :
          sent_keys' = [v \in Usages |->
                  CASE v \in done   -> sent_keys[v] \cup (new_keys[v] \ late[v])
                    [] v = m.usage  -> sent_keys[v] \cup marked
                    [] OTHER        -> sent_keys[v]]
    BY <2>3
  <2>7. new_keys' = [v \in Usages |-> IF v \in done THEN {} ELSE new_keys[v]]
    BY <2>3
  <2> HIDE DEF m, done, c
  <2>8. sent_keys' \in [Usages -> SUBSET Users]
    <3>1. ASSUME NEW v \in Usages PROVE sent_keys'[v] \in SUBSET Users
      <4>1. \/ sent_keys'[v] = sent_keys[v] \cup (new_keys[v] \ late[v])
            \/ sent_keys'[v] = sent_keys[v] \cup marked
            \/ sent_keys'[v] = sent_keys[v]
        BY <2>6
      <4>2. sent_keys[v] \subseteq Users /\ new_keys[v] \subseteq Users
        BY <1>1 DEF KeysSound
      <4>3. marked \subseteq Users
        <5>1. m.usage \in Usages /\ new_keys \in [Usages -> SUBSET Users]
          BY <1>1, <2>4 DEF KeysSound, Message
        <5>2. marked \subseteq m.keys \cup new_keys[m.usage]
          BY <2>6
        <5>3. QED
          BY <2>5, <5>1, <5>2
      <4>4. QED
        BY <4>1, <4>2, <4>3
    <3>2. QED
      BY <2>6, <3>1
  <2>9. new_keys' \in [Usages -> SUBSET Users] /\ new_keys'["reqs_block"] \subseteq reached
    BY <1>1, <1>3, <2>7 DEF KeysSound
  <2>10. KeysSound'
    BY <1>1, <2>8, <2>9 DEF KeysSound
  <2>11. QED
    BY <2>2, <2>10
<1>6. QED
  BY <1>4, <1>5

\* A message joins the queue, or is dropped when the queue is full.
LEMMA PutSound ==
  ASSUME IndInv, NEW w \in Workers, UNCHANGED reached, add_message(w)
  PROVE  TasksSound' /\ QueueSound'
<1> DEFINE c == task[w]
           rest == Tail(c.out)
           m == Head(c.out)
<1>1. /\ TasksSound /\ QueueSound /\ CountsSound /\ UNCHANGED <<now, reached>>
      /\ c # Null /\ c.pc = "put"
  BY DEF IndInv, add_message, At
<1>2. c \in Check /\ Sound(c, now, reached)
  BY <1>1 DEF TasksSound, Sound
<1>3. SoundMessages(c.out, now, reached) /\ c.out # <<>>
  BY <1>1, <1>2 DEF Sound, SoundMessages, Check
<1>4. SoundMessage(m, now, reached) /\ SoundMessages(rest, now, reached)
  BY <1>3, SoundSequences
<1>5. /\ task' = [task EXCEPT ![w] = IF rest = <<>> THEN Null ELSE [c EXCEPT !.out = rest]]
      /\ queue' = IF Len(queue) < QueueSize THEN Append(queue, m) ELSE queue
  BY DEF add_message
<1> HIDE DEF c, rest, m
<1>6. TasksSound'
  <2>1. CASE rest = <<>>
    BY <1>1, <1>5, <2>1, TaskReplaced
  <2>2. CASE rest # <<>>
    <3>1. PICK d : d = [c EXCEPT !.out = rest]
      OBVIOUS
    <3>2. /\ d \in Check /\ d.pc = "put" /\ d.out = rest /\ d.at = c.at /\ d.val = c.val
          /\ d.kind = c.kind
      BY <1>1, <1>2, <1>4, <3>1 DEF Check, SoundMessages
    <3>3. Sound(d, now, reached)
      BY <1>2, <1>4, <2>2, <3>2 DEF Sound, SoundMessages
    <3>4. task' = [task EXCEPT ![w] = d]
      BY <1>5, <2>2, <3>1
    <3>5. QED
      BY <1>1, <3>3, <3>4, TaskReplaced
  <2>3. QED
    BY <2>1, <2>2
<1>7. QueueSound'
  <2>1. SoundMessages(queue, now, reached) /\ Len(queue) \in Nat /\ Len(queue) <= QueueSize
    BY <1>1 DEF QueueSound, SoundMessages
  <2>2. CASE Len(queue) < QueueSize
    <3>1. /\ queue' = Append(queue, m) /\ SoundMessages(Append(queue, m), now, reached)
          /\ Len(Append(queue, m)) = Len(queue) + 1
      <4>1. queue' = Append(queue, m)
        BY <1>5, <2>2
      <4>2. ASSUME NEW s, SoundMessages(s, now, reached)
            PROVE  /\ SoundMessages(Append(s, m), now, reached)
                   /\ Len(Append(s, m)) = Len(s) + 1
        <5> HIDE DEF m, c
        <5>1. SoundMessage(m, now, reached)
          BY <1>4
        <5>2. \A r, x : SoundMessages(r, now, reached) /\ SoundMessage(x, now, reached)
                => SoundMessages(Append(r, x), now, reached) /\ Len(Append(r, x)) = Len(r) + 1
          BY SoundSequences
        <5>3. QED
          BY <4>2, <5>1, <5>2, Zenon
      <4>3. QED
        BY <2>1, <4>1, <4>2
    <3>2. Len(queue') <= QueueSize
      BY <2>1, <2>2, <3>1, GeneratorAssumption
    <3>3. QED
      BY <1>1, <3>1, <3>2 DEF QueueSound, SoundMessages
  <2>3. CASE ~(Len(queue) < QueueSize)
    BY <1>1, <1>5, <2>3 DEF QueueSound
  <2>4. QED
    BY <2>2, <2>3
<1>8. QED
  BY <1>6, <1>7

-----------------------------------------------------------------------------
(* The steps of the loop. *)

\* A step of a check.
LEMMA WorkerSound ==
  ASSUME IndInv, NEW w \in Workers, CheckStep(w), UNCHANGED reached
  PROVE  TasksSound' /\ KeysSound' /\ BlockedSound' /\ QueueSound'
<1>1. TasksSound /\ KeysSound /\ BlockedSound /\ QueueSound
  BY DEF IndInv
<1>2. ASSUME UNCHANGED <<now, reached, policies>> PROVE KeysSound'
  BY <1>1, <1>2 DEF KeysSound, policies
<1>3. ASSUME UNCHANGED <<now, reached, blocked_users>> PROVE BlockedSound'
  BY <1>1, <1>3 DEF BlockedSound
<1>4. ASSUME UNCHANGED <<now, reached, queue>> PROVE QueueSound'
  BY <1>1, <1>4 DEF QueueSound
<1>5. CASE call_redis_eval(w)
  BY <1>2, <1>3, <1>4, <1>5, EvalSound DEF call_redis_eval
<1>14. CASE create_user_level_metric_raises(w)
  BY <1>2, <1>3, <1>4, <1>14, UnparsableSound DEF create_user_level_metric_raises
<1>6. ASSUME NEW u \in Users,
             _check_all_conn_key_violations(w, u) \/ _check_violation_per_key_verb(w, u)
      PROVE  TasksSound' /\ KeysSound' /\ BlockedSound' /\ QueueSound'
  BY <1>2, <1>3, <1>4, <1>6, ExamineSound
     DEF _check_all_conn_key_violations, _check_violation_per_key_verb
<1>7. CASE add_violation(w)
  BY <1>3, <1>4, <1>7, AddSound DEF add_violation, AfterAdding
<1>8. CASE see_new_epoch(w) \/ new_epoch(w) \/ new_violations(w)
  BY <1>2, <1>3, <1>4, <1>8, SeeEpochSound, EpochSound, RenewSound
     DEF see_new_epoch, new_epoch, new_violations, AfterRenewal
<1>9. CASE record(w)
  BY <1>2, <1>4, <1>9, RecordSound DEF record
<1>10. CASE generate_violation_message(w)
  BY <1>2, <1>3, <1>4, <1>10, GenerateSound DEF generate_violation_message
<1>11. CASE mark_sent(w) \/ mark_raises(w)
  BY <1>3, <1>4, <1>11, MarkSound DEF mark_sent, mark_raises
<1>12. CASE add_message(w)
  BY <1>2, <1>3, <1>12, PutSound DEF add_message
<1>13. QED
  BY <1>5, <1>6, <1>7, <1>8, <1>9, <1>10, <1>11, <1>12, <1>14 DEF CheckStep

\* Everything of the generator and HAProxy stays sound when only time passes or users reach
\* their limits.
LEMMA EverythingGrows ==
  ASSUME IndInv, now' \in Nat, now <= now', reached \subseteq reached'
  PROVE  /\ UNCHANGED task => TasksSound'
         /\ UNCHANGED policies => KeysSound'
         /\ UNCHANGED blocked_users => BlockedSound'
         /\ UNCHANGED queue => QueueSound'
         /\ Second(now) \in Nat /\ Second(now') \in Nat /\ Second(now) <= Second(now')
<1>1. now \in Nat
  BY DEF IndInv, CountsSound
<1>2. Second(now) \in Nat /\ Second(now') \in Nat /\ Second(now) <= Second(now')
  BY <1>1, SecondMonotone
<1>3. ASSUME UNCHANGED task PROVE TasksSound'
  <2>1. ASSUME NEW w \in Workers, task[w] # Null PROVE Sound(task[w], now', reached')
    <3>1. Sound(task[w], now, reached)
      BY <2>1 DEF IndInv, TasksSound
    <3>2. QED
      BY <1>1, <3>1, SoundGrows
  <2>2. QED
    BY <1>3, <2>1 DEF IndInv, TasksSound
<1>4. ASSUME UNCHANGED policies PROVE KeysSound'
  BY <1>2, <1>4 DEF IndInv, KeysSound, policies
<1>5. ASSUME UNCHANGED blocked_users PROVE BlockedSound'
  <2>1. 0 .. now \subseteq 0 .. now'
    BY <1>1
  <2>2. QED
    BY <1>5, <2>1 DEF IndInv, BlockedSound
<1>6. ASSUME UNCHANGED queue PROVE QueueSound'
  <2>1. ASSUME NEW i \in 1 .. Len(queue) PROVE SoundMessage(queue[i], now', reached')
    <3>1. SoundMessage(queue[i], now, reached)
      BY DEF IndInv, QueueSound
    <3>2. QED
      BY <1>1, <3>1, SoundMessageGrows
  <2>2. QED
    BY <1>6, <2>1 DEF IndInv, QueueSound
<1>7. QED
  BY <1>2, <1>3, <1>4, <1>5, <1>6

\* A drained line names users only and was made by now.
LEMMA LineType ==
  ASSUME IndInv, queue # <<>>, NEW line \in Concatenated(queue)
  PROVE  line.keys \subseteq Users /\ line.at \in Nat /\ line.at <= now /\ line.usage \in Usages
<1>1. queue \in Seq(Message) /\ Len(queue) \in Nat /\ Len(queue) >= 1
  BY EmptySeq DEF IndInv, QueueSound
<1>2. \A i \in 1 .. Len(queue) : queue[i] \in Message /\ queue[i].at <= now
  BY DEF IndInv, QueueSound, SoundMessage
<1>3. \A i \in 1 .. Len(queue) : queue[i].keys \subseteq Users
  BY <1>2 DEF Message
<1>4. PICK last : line = [usage |-> queue[1].usage, at |-> queue[1].at,
        keys |-> (UNION {queue[i].keys \ {last[i]} : i \in 1 .. Len(queue) - 1})
                   \cup queue[Len(queue)].keys]
  BY DEF Concatenated
<1>5. 1 \in 1 .. Len(queue) /\ Len(queue) \in 1 .. Len(queue)
      /\ \A i \in 1 .. Len(queue) - 1 : i \in 1 .. Len(queue)
  BY <1>1
<1>6. line.keys \subseteq Users
  <2> SUFFICES ASSUME NEW u \in line.keys PROVE u \in Users
    OBVIOUS
  <2>1. line.keys = (UNION {queue[i].keys \ {last[i]} : i \in 1 .. Len(queue) - 1})
                      \cup queue[Len(queue)].keys
    BY <1>4
  <2>2. \/ \E i \in 1 .. Len(queue) - 1 : u \in queue[i].keys
        \/ u \in queue[Len(queue)].keys
    BY <2>1
  <2>3. QED
    BY <1>3, <1>5, <2>2
<1>7. line.at = queue[1].at /\ line.usage = queue[1].usage
  BY <1>4
<1>8. QED
  BY <1>2, <1>5, <1>6, <1>7 DEF Message

\* HAProxy's tables after a line.
LEMMA IngestSound ==
  ASSUME IndInv, ingest_policies
  PROVE  HaproxySound' /\ QueueSound'
<1>1. PICK line \in Concatenated(queue) :
        send_policy_to_haproxy(line) /\ update_violates(line, Second(now))
  BY DEF ingest_policies
<1>2. /\ line.keys \subseteq Users /\ line.at \in Nat /\ line.at <= now
      /\ line.usage \in Usages
  BY LineType DEF ingest_policies
<1>3. now \in Nat /\ HaproxySound /\ UNCHANGED <<now, history>> /\ queue' = <<>>
  BY <1>1 DEF IndInv, CountsSound, send_policy_to_haproxy, ingest_policies
<1>4. Second(line.at) \in 0 .. Second(now) /\ Second(now) \in 0 .. Second(now)
  BY <1>2, <1>3, SecondMonotone
<1>5. /\ reqs_map' \in [Users -> (0 .. Second(now)) \cup {Null}]
      /\ vio_map' \subseteq (0 .. Second(now)) \X Users
  <2>1. CASE update_violates_reqs(line, Second(now))
    BY <1>3, <1>4, <2>1 DEF update_violates_reqs, HaproxySound
  <2>2. CASE update_violates_map(line, Second(now))
    <3>1. \/ UNCHANGED vio_map
          \/ vio_map' \subseteq vio_map \cup {<<Second(line.at), u>> : u \in line.keys}
      BY <2>2 DEF update_violates_map
    <3>2. {<<Second(line.at), u>> : u \in line.keys} \subseteq (0 .. Second(now)) \X Users
      BY <1>2, <1>4
    <3>3. QED
      BY <1>3, <2>2, <3>1, <3>2 DEF update_violates_map, HaproxySound
  <2>3. QED
    BY <1>1, <2>1, <2>2 DEF update_violates
<1>6. QueueSound'
  <2>1. <<>> \in Seq(Message) /\ Len(<<>>) = 0
    BY EmptySeq
  <2>2. QED
    BY <1>3, <2>1, GeneratorAssumption DEF QueueSound
<1>7. QED
  BY <1>3, <1>5, <1>6 DEF HaproxySound, history, verbHistory

\* The generator's start-up leaves nothing that is not sound.
LEMMA EmptySound ==
  ASSUME now \in Nat, epoch = 0, new_keys = NoKeys, sent_keys = NoKeys, queue = <<>>,
         blocked_users = [u \in Users |-> Null], task = [w \in Workers |-> Null]
  PROVE  TasksSound /\ KeysSound /\ BlockedSound /\ QueueSound
<1>1. <<>> \in Seq(Message) /\ Len(<<>>) = 0
  BY EmptySeq
<1>2. Second(now) \in Nat
  BY SecondMonotone
<1>3. NoKeys \in [Usages -> SUBSET Users] /\ NoKeys["reqs_block"] = {}
  BY DEF NoKeys, Usages
<1>4. KeysSound
  BY <1>2, <1>3 DEF KeysSound
<1>5. TasksSound /\ BlockedSound
  BY DEF TasksSound, BlockedSound
<1>6. QueueSound
  BY <1>1, GeneratorAssumption DEF QueueSound
<1>7. QED
  BY <1>4, <1>5, <1>6

\* A failure starts the deadlines again and keeps the rest of the history.
LEMMA FailureTypes ==
  ASSUME HaproxySound, now \in Nat, Failure
  PROVE  /\ events' \in 0 .. MaxEvents
         /\ overSince' \in [Users -> (0 .. now) \cup {Null}]
         /\ verbSince' \in [Users -> (0 .. now) \cup {Null}]
         /\ UNCHANGED <<scanned, quiet, carried, calmSince, reached>>
<1>1. now \in 0 .. now
  OBVIOUS
<1>2. events' \in 0 .. MaxEvents
  BY LoopAssumption DEF HaproxySound, Failure, Happens
<1>3. overSince' \in [Users -> (0 .. now) \cup {Null}]
  BY <1>1 DEF HaproxySound, Failure
<1>4. QED
  BY <1>2, <1>3 DEF Failure

\* Who is on the way to be throttled is a user.
LEMMA OnTheWayType ==
  ASSUME TasksSound, KeysSound
  PROVE  OnTheWay \subseteq Users
<1>1. new_keys["GET"] \subseteq Users
  BY DEF KeysSound, Usages
<1>2. ASSUME NEW w \in Workers, task[w] # Null PROVE Found(task[w]) \subseteq Users
  <2>1. task[w].out \in Seq(Message)
    BY <1>2 DEF TasksSound, Sound, Check
  <2>2. ASSUME NEW m \in Range(task[w].out) PROVE m.keys \subseteq Users
    <3>1. PICK i \in DOMAIN task[w].out : m = task[w].out[i]
      BY DEF Range
    <3>2. m \in Message
      BY <2>1, <3>1
    <3>3. QED
      BY <3>2 DEF Message
  <2>3. QED
    BY <2>2 DEF Found
<1>3. QED
  BY <1>1, <1>2 DEF OnTheWay

\* The invariant holds at start-up.
LEMMA IndInit == Init => IndInv
<1> SUFFICES ASSUME Init PROVE IndInv
  OBVIOUS
<1>1. now = 0 /\ now \in Nat
  BY DEF Init, GenInit
<1>2. TasksSound /\ KeysSound /\ BlockedSound /\ QueueSound
  BY <1>1, EmptySound DEF Init, GenInit
<1>3. Second(now) \in Nat
  BY <1>1, SecondMonotone
<1>4. CountsSound
  BY <1>1, <1>3, LoopAssumption DEF Init, GenInit, CountsSound, Over
<1>5. HaproxySound
  BY <1>1, <1>3, LoopAssumption DEF Init, HaproxySound
<1>6. QED
  BY <1>2, <1>4, <1>5 DEF IndInv

\* Every step of the generator, of HAProxy, of Redis and of the clock keeps it, and every
\* failure.
LEMMA IndStep == IndInv /\ [Next]_vars => IndInv'
<1> SUFFICES ASSUME IndInv, [Next]_vars PROVE IndInv'
  OBVIOUS
<1> USE GeneratorAssumption, LoopAssumption
<1>1. /\ TasksSound /\ KeysSound /\ BlockedSound /\ QueueSound /\ CountsSound /\ HaproxySound
      /\ now \in Nat /\ now \in 0 .. now /\ now <= now
  BY DEF IndInv, CountsSound
<1>2. ASSUME UNCHANGED <<now, redis, exceeded, reached>> PROVE CountsSound'
  BY <1>1, <1>2 DEF CountsSound
<1>3. ASSUME UNCHANGED <<now, reached>>
      PROVE  /\ UNCHANGED task => TasksSound'
             /\ UNCHANGED policies => KeysSound'
             /\ UNCHANGED blocked_users => BlockedSound'
             /\ UNCHANGED queue => QueueSound'
  BY <1>1, <1>3, EverythingGrows
<1>4. ASSUME NEW w \in Workers, NEW k \in Kinds, ScanStep(w, k) PROVE IndInv'
  <2>1. check_loop(w, k) /\ UNCHANGED <<now, reached, redis, exceeded, policies,
                                        blocked_users, queue>>
    BY <1>4 DEF ScanStep, check_loop
  <2>2. TasksSound' /\ KeysSound' /\ BlockedSound' /\ QueueSound' /\ CountsSound'
    BY <1>2, <1>3, <2>1, ScanSound
  <2>3. HaproxySound'
    BY <1>1, <1>4, <2>1 DEF ScanStep, HaproxySound, verbHistory
  <2>4. QED
    BY <2>2, <2>3 DEF IndInv
<1>5. ASSUME NEW w \in Workers, WorkerStep(w) PROVE IndInv'
  <2>1. CheckStep(w) /\ UNCHANGED <<reqs_map, vio_map, history>>
    BY <1>5 DEF WorkerStep
  <2>2. UNCHANGED <<now, redis, exceeded>>
    BY <2>1 DEF CheckStep, call_redis_eval, _check_all_conn_key_violations,
       create_user_level_metric_raises,
       _check_violation_per_key_verb, add_violation, see_new_epoch, new_epoch, AfterAdding,
       new_violations, AfterRenewal, record, generate_violation_message, mark_sent, mark_raises, add_message
  <2>3. TasksSound' /\ KeysSound' /\ BlockedSound' /\ QueueSound'
    BY <2>1, WorkerSound DEF history
  <2>4. CountsSound' /\ HaproxySound'
    BY <1>1, <1>2, <2>1, <2>2 DEF HaproxySound, history, verbHistory
  <2>5. QED
    BY <2>3, <2>4 DEF IndInv
<1>6. ASSUME ingest_policies PROVE IndInv'
  <2>1. UNCHANGED <<now, redis, exceeded, blocked_users, policies, task, reached>>
    BY <1>6 DEF ingest_policies, send_policy_to_haproxy, history
  <2>2. QED
    BY <1>2, <1>3, <1>6, <2>1, IngestSound DEF IndInv
<1>7. ASSUME NEW w \in Workers, RedisError(w) PROVE IndInv'
  <2>1. /\ RedisFails(w) /\ Failure
        /\ UNCHANGED <<now, redis, exceeded, blocked_users, policies, queue, reqs_map, vio_map>>
    BY <1>7 DEF RedisError, RedisFails
  <2>2. /\ events' \in 0 .. MaxEvents
        /\ overSince' \in [Users -> (0 .. now) \cup {Null}]
        /\ verbSince' \in [Users -> (0 .. now) \cup {Null}]
        /\ UNCHANGED <<scanned, quiet, carried, calmSince, reached>>
    BY <1>1, <2>1, FailureTypes
  <2>3. TasksSound' /\ KeysSound' /\ BlockedSound' /\ QueueSound' /\ CountsSound'
    BY <1>2, <1>3, <2>1, <2>2, EvalSound
  <2>4. HaproxySound'
    BY <1>1, <2>1, <2>2 DEF HaproxySound
  <2>5. QED
    BY <2>3, <2>4 DEF IndInv
<1>8. ASSUME _send_policies_fails \/ GeneratorRestarts \/ HaproxyRestarts PROVE IndInv'
  <2>1. Failure /\ UNCHANGED <<now, redis, exceeded>>
    BY <1>8 DEF _send_policies_fails, GeneratorRestarts, HaproxyRestarts,
       send_policy_to_haproxy, RestartGenerator, genVars
  <2>2. /\ events' \in 0 .. MaxEvents
        /\ overSince' \in [Users -> (0 .. now) \cup {Null}]
        /\ verbSince' \in [Users -> (0 .. now) \cup {Null}]
        /\ UNCHANGED <<scanned, quiet, carried, calmSince, reached>>
    BY <1>1, <2>1, FailureTypes
  <2>3. CountsSound'
    BY <1>2, <2>1, <2>2
  <2>4. HaproxySound'
    <3>1. \/ reqs_map' = reqs_map /\ vio_map' = vio_map
          \/ reqs_map' = [u \in Users |-> Null] /\ vio_map' = {}
      <4>1. CASE _send_policies_fails
        BY <4>1 DEF _send_policies_fails
      <4>2. CASE GeneratorRestarts
        BY <4>2 DEF GeneratorRestarts
      <4>3. CASE HaproxyRestarts
        BY <4>3 DEF HaproxyRestarts
      <4>4. QED
        BY <1>8, <4>1, <4>2, <4>3
    <3>2. QED
      BY <1>1, <2>1, <2>2, <3>1 DEF HaproxySound
  <2>5. TasksSound' /\ KeysSound' /\ BlockedSound' /\ QueueSound'
    <3>1. CASE _send_policies_fails
      <4>1. UNCHANGED <<now, blocked_users, policies, task>> /\ queue' = <<>>
        BY <3>1 DEF _send_policies_fails, send_policy_to_haproxy
      <4>2. <<>> \in Seq(Message) /\ Len(<<>>) = 0
        BY EmptySeq
      <4>3. QueueSound'
        BY <4>1, <4>2 DEF QueueSound
      <4>4. QED
        BY <1>3, <2>2, <4>1, <4>3
    <3>2. CASE GeneratorRestarts
      <4>1. /\ now' \in Nat /\ epoch' = 0 /\ new_keys' = NoKeys /\ sent_keys' = NoKeys
            /\ queue' = <<>> /\ blocked_users' = [u \in Users |-> Null]
            /\ task' = [w \in Workers |-> Null]
        BY <1>1, <2>1, <3>2 DEF GeneratorRestarts, RestartGenerator
      <4>2. <<>> \in Seq(Message) /\ Len(<<>>) = 0
        BY EmptySeq
      <4>3. Second(now') \in Nat
        BY <4>1, SecondMonotone
      <4>4. NoKeys \in [Usages -> SUBSET Users] /\ NoKeys["reqs_block"] = {}
        BY DEF NoKeys, Usages
      <4>5. KeysSound'
        BY <4>1, <4>3, <4>4 DEF KeysSound
      <4>6. TasksSound' /\ BlockedSound'
        BY <4>1 DEF TasksSound, BlockedSound
      <4>7. QueueSound'
        BY <4>1, <4>2 DEF QueueSound
      <4>8. QED
        BY <4>5, <4>6, <4>7
    <3>3. CASE HaproxyRestarts
      BY <1>3, <2>1, <2>2, <3>3 DEF HaproxyRestarts, genVars
    <3>4. QED
      BY <1>8, <3>1, <3>2, <3>3
  <2>6. QED
    BY <2>3, <2>4, <2>5 DEF IndInv
<1>9. ASSUME NEW u \in Users, NEW n \in Counts \cup {Null}, CountChanges(u, n) PROVE IndInv'
  <2>1. /\ redis' = [redis EXCEPT ![u] = n]
        /\ UNCHANGED <<now, exceeded, blocked_users, policies, queue, task>>
        /\ UNCHANGED <<reqs_map, vio_map, scanned, verbSince, quiet, carried>>
        /\ events' \in 0 .. MaxEvents
        /\ reached' = IF Over(n) THEN reached \cup {u} ELSE reached
    BY <1>1, <1>9 DEF CountChanges, SetCount, Happens, HaproxySound, verbHistory
  <2>2. reached \subseteq reached' /\ now' \in Nat /\ now <= now'
    BY <1>1, <2>1
  <2>3. TasksSound' /\ KeysSound' /\ BlockedSound' /\ QueueSound'
    BY <2>1, <2>2, EverythingGrows
  <2>4. CountsSound'
    BY <1>1, <2>1 DEF CountsSound, Over
  <2>5. /\ overSince' \in [Users -> (0 .. now) \cup {Null}]
        /\ calmSince' \in [Users -> (0 .. now) \cup {Null}]
    BY <1>1, <1>9 DEF CountChanges, HaproxySound
  <2>6. HaproxySound'
    BY <1>1, <2>1, <2>5 DEF HaproxySound
  <2>7. QED
    BY <2>3, <2>4, <2>6 DEF IndInv
<1>10. ASSUME NEW u \in Users, VerbExceeded(u) PROVE IndInv'
  <2>1. /\ exceeded' = exceeded \cup {<<Second(now), u>>}
        /\ UNCHANGED <<now, redis, blocked_users, policies, queue, task>>
        /\ UNCHANGED <<reqs_map, vio_map, scanned, overSince, carried, calmSince, reached>>
        /\ events' \in 0 .. MaxEvents
        /\ verbSince' = [verbSince EXCEPT ![u] = now]
        /\ quiet' \subseteq Users
    BY <1>1, <1>10 DEF VerbExceeded, Exceed, Happens, HaproxySound
  <2>2. Second(now) \in 0 .. Second(now)
    BY <1>1, SecondMonotone
  <2>3. CountsSound'
    BY <1>1, <2>1, <2>2 DEF CountsSound
  <2>4. HaproxySound'
    BY <1>1, <2>1 DEF HaproxySound
  <2>5. QED
    BY <1>3, <2>1, <2>3, <2>4 DEF IndInv
<1>11. ASSUME Tick PROVE IndInv'
  <2>1. /\ now' = now + 1 /\ now' <= MaxTime
        /\ UNCHANGED <<redis, exceeded, blocked_users, policies, queue, task, reqs_map, vio_map,
                       events, overSince, calmSince, reached>>
        /\ scanned' \in [Kinds -> 0 .. MaxScans]
        /\ verbSince' = verbSince \/ verbSince' = [u \in Users |-> Null]
    BY <1>1, <1>11 DEF Tick, verbHistory
  <2>2. now' \in Nat /\ now <= now' /\ reached \subseteq reached'
    BY <1>1, <2>1
  <2>3. /\ TasksSound' /\ KeysSound' /\ BlockedSound' /\ QueueSound'
        /\ Second(now) \in Nat /\ Second(now') \in Nat /\ Second(now) <= Second(now')
    BY <2>1, <2>2, EverythingGrows
  <2>4. 0 .. now \subseteq 0 .. now' /\ 0 .. Second(now) \subseteq 0 .. Second(now')
    BY <1>1, <2>2, <2>3
  <2>5. CountsSound'
    <3>1. exceeded' \subseteq (0 .. Second(now')) \X Users
      BY <1>1, <2>1, <2>4 DEF CountsSound
    <3>2. QED
      BY <1>1, <2>1, <2>2, <3>1 DEF CountsSound
  <2>6. HaproxySound'
    <3>1. vio_map' \subseteq (0 .. Second(now')) \X Users
      BY <1>1, <2>1, <2>4 DEF HaproxySound
    <3>2. /\ reqs_map' \in [Users -> (0 .. Second(now')) \cup {Null}]
          /\ overSince' \in [Users -> (0 .. now') \cup {Null}]
          /\ calmSince' \in [Users -> (0 .. now') \cup {Null}]
      BY <1>1, <2>1, <2>4 DEF HaproxySound
    <3>3. verbSince' \in [Users -> (0 .. now') \cup {Null}]
      BY <1>1, <2>1, <2>4 DEF HaproxySound
    <3>4. quiet' \subseteq Users /\ carried' \subseteq Users
      BY <1>1, <1>11, OnTheWayType DEF Tick, verbHistory, HaproxySound
    <3>5. QED
      BY <1>1, <2>1, <3>1, <3>2, <3>3, <3>4 DEF HaproxySound
  <2>7. QED
    BY <2>3, <2>5, <2>6 DEF IndInv
<1>12. CASE UNCHANGED vars
  <2>1. UNCHANGED <<now, redis, exceeded, reached, task, policies, blocked_users, queue,
                    reqs_map, vio_map, history>>
    BY <1>12 DEF vars, genVars, history
  <2>2. HaproxySound'
    BY <1>1, <2>1 DEF HaproxySound, history, verbHistory
  <2>3. QED
    BY <1>2, <1>3, <2>1, <2>2 DEF IndInv
<1>13. QED
  BY <1>4, <1>5, <1>6, <1>7, <1>8, <1>9, <1>10, <1>11, <1>12 DEF Next, EndOfRun

\* The shared state of the checks, the queue and HAProxy's tables have their types for any
\* users, threads, limits and failures: in particular no thread that races on blocked_users
\* or the keys to send leaves a time of the future, an unknown user or a queue over its
\* size.
THEOREM TypeCorrect == Spec => []TypeOK
<1>1. IndInv => TypeOK
  BY DEF IndInv, TypeOK, GenTypeOK, TasksSound, Sound, KeysSound, BlockedSound, QueueSound,
     CountsSound, HaproxySound
<1>2. QED
  BY <1>1, IndInit, IndStep, PTL DEF Spec

\* Only a user that has been at its limit is ever blocked or reported, however the checks
\* interleave on blocked_users and the keys to send, with stale counts, restarts and losses
\* (_check_all_conn_key_violations, add_violation, generate_violation_message).
THEOREM ViolatorsOnly == Spec => []OnlyViolatorsReported
<1>1. IndInv => OnlyViolatorsReported
  <2> SUFFICES ASSUME IndInv, NEW u \in Users,
                      \/ blocked_users[u] # Null
                      \/ \E i \in DOMAIN queue :
                           queue[i].usage = "reqs_block" /\ u \in queue[i].keys
               PROVE  u \in reached
    BY DEF OnlyViolatorsReported
  <2>1. CASE blocked_users[u] # Null
    BY <2>1 DEF IndInv, BlockedSound
  <2>2. ASSUME NEW i \in DOMAIN queue, queue[i].usage = "reqs_block", u \in queue[i].keys
        PROVE  u \in reached
    <3>1. i \in 1 .. Len(queue)
      BY DEF IndInv, QueueSound
    <3>2. QED
      BY <2>2, <3>1 DEF IndInv, QueueSound, SoundMessage
  <2>3. QED
    BY <2>1, <2>2
<1>2. QED
  BY <1>1, IndInit, IndStep, PTL DEF Spec

-----------------------------------------------------------------------------
(* What a step does to the check of its thread, field by field. *)

\* The check of thread w goes on at point p, with the time and kind of its scan.
Goes(w, p) ==
  /\ task[w] # Null /\ task'[w] # Null
  /\ task[w] \in Check /\ task'[w] \in Check
  /\ task'[w].pc = p /\ task'[w].kind = task[w].kind /\ task'[w].at = task[w].at

\* The check keeps its values, the user it reports, and its messages.
KeepsVal(w) == task'[w].val = task[w].val
KeepsCur(w) == task'[w].cur = task[w].cur /\ task'[w].act = task[w].act
KeepsOut(w) == task'[w].out = task[w].out /\ task'[w].stale = task[w].stale

\* No other check changes.
Alone(w) == \A x \in Workers \ {w} : task'[x] = task[x]

\* A check that is replaced by another.
LEMMA Replaced ==
  ASSUME TasksSound, NEW w \in Workers, task[w] # Null,
         NEW d \in Check, task' = [task EXCEPT ![w] = d],
         NEW p, d.pc = p, d.kind = task[w].kind, d.at = task[w].at
  PROVE  Goes(w, p) /\ Alone(w) /\ task'[w] = d
<1>1. task'[w] = d /\ d # Null /\ Alone(w)
  BY NullAssumption DEF TasksSound, Alone
<1>2. QED
  BY <1>1 DEF Goes, TasksSound

\* A check that ends.
LEMMA Ended ==
  ASSUME TasksSound, NEW w \in Workers, task' = [task EXCEPT ![w] = Null]
  PROVE  Alone(w) /\ task'[w] = Null
BY DEF TasksSound, Alone

\* check_loop: a new check.
LEMMA ScanResult ==
  ASSUME IndInv, NEW w \in Workers, NEW k \in Kinds, check_loop(w, k)
  PROVE  /\ task[w] = Null /\ task'[w] # Null /\ task'[w] \in Check /\ Alone(w)
         /\ task'[w].pc = "eval" /\ task'[w].kind = k /\ task'[w].at = now
         /\ Range(task'[w].out) = {} /\ ~task'[w].stale
         /\ \A x \in Users : task'[w].val[x] = IF k = "conn" /\ redis[x] = Null THEN Null ELSE 0
         /\ UNCHANGED <<now, redis, exceeded, blocked_users, epoch, new_keys, sent_keys, queue>>
<1> DEFINE d == [pc |-> "eval", kind |-> k, at |-> now, cur |-> Null, act |-> "GET",
                 out |-> <<>>, stale |-> FALSE,
                 val |-> [u \in Users |-> IF k = "conn" /\ redis[u] = Null THEN Null ELSE 0]]
<1> USE GeneratorAssumption
<1>1. now \in Nat /\ TasksSound
  BY DEF IndInv, CountsSound
<1>2. <<>> \in Seq(Message) /\ Len(<<>>) = 0
  BY EmptySeq
<1>3. d \in Check
  BY <1>1, <1>2 DEF Check, Usages
<1>4. task' = [task EXCEPT ![w] = d] /\ task[w] = Null
  BY DEF check_loop
<1>5. /\ d.pc = "eval" /\ d.kind = k /\ d.at = now /\ Range(d.out) = {} /\ ~d.stale
      /\ \A x \in Users : d.val[x] = IF k = "conn" /\ redis[x] = Null THEN Null ELSE 0
  BY DEF Range
<1> HIDE DEF d
<1>6. task'[w] = d /\ d # Null /\ Alone(w)
  BY <1>1, <1>3, <1>4, NullAssumption DEF TasksSound, Alone
<1>7. QED
  BY <1>3, <1>4, <1>5, <1>6 DEF check_loop, policies

\* call_redis_eval: the values.
LEMMA EvalResult ==
  ASSUME IndInv, NEW w \in Workers, call_redis_eval(w)
  PROVE  /\ task[w].pc = "eval" /\ Goes(w, "check") /\ Alone(w) /\ KeepsCur(w) /\ KeepsOut(w)
         /\ \A x \in Users : task'[w].val[x] =
              CASE task[w].val[x] = Null    -> Null
                [] task[w].kind = "verb"    -> IF <<Second(task[w].at), x>> \in exceeded THEN 1 ELSE 0
                [] OTHER                    -> IF redis[x] = Null THEN 0 ELSE redis[x]
         /\ UNCHANGED <<now, redis, exceeded, blocked_users, epoch, new_keys, sent_keys, queue>>
<1> USE GeneratorAssumption
<1> DEFINE c == task[w]
           read == [u \in Users |->
             CASE c.val[u] = Null     -> Null
               [] c.kind = "verb"     -> IF <<Second(c.at), u>> \in exceeded THEN 1 ELSE 0
               [] OTHER               -> IF redis[u] = Null THEN 0 ELSE redis[u]]
<1>1. TasksSound /\ CountsSound /\ c # Null /\ c.pc = "eval"
  BY DEF IndInv, call_redis_eval, At
<1>2. c \in Check
  BY <1>1 DEF TasksSound
<1>3. PICK d : d = [c EXCEPT !.pc = "check", !.val = read]
  OBVIOUS
<1>4. task' = [task EXCEPT ![w] = d]
  BY <1>1, <1>2, <1>3 DEF call_redis_eval, TasksSound, Check
<1>5. read \in [Users -> Nat \cup {Null}]
  <2>1. ASSUME NEW u \in Users PROVE read[u] \in Nat \cup {Null}
    <3>1. redis[u] \in Nat \cup {Null}
      BY <1>1 DEF CountsSound
    <3>2. read[u] \in {Null, 0, 1, redis[u]}
      OBVIOUS
    <3>3. QED
      BY <3>1, <3>2
  <2>2. QED
    BY <2>1
<1>6. \A x \in Users : read[x] =
              CASE c.val[x] = Null    -> Null
                [] c.kind = "verb"    -> IF <<Second(c.at), x>> \in exceeded THEN 1 ELSE 0
                [] OTHER              -> IF redis[x] = Null THEN 0 ELSE redis[x]
  OBVIOUS
<1>7. UNCHANGED <<now, redis, exceeded, blocked_users, epoch, new_keys, sent_keys, queue>>
  BY DEF call_redis_eval, policies
<1> HIDE DEF read
<1>8. /\ d \in Check /\ d.pc = "check" /\ d.val = read /\ d.out = c.out /\ d.at = c.at
      /\ d.kind = c.kind /\ d.cur = c.cur /\ d.act = c.act /\ d.stale = c.stale
  BY <1>2, <1>3, <1>5 DEF Check
<1>9. Goes(w, "check") /\ Alone(w) /\ task'[w] = d
  <2>1. task'[w] = d /\ d # Null /\ Alone(w)
    BY <1>1, <1>4, <1>8, NullAssumption DEF TasksSound, Alone
  <2>2. QED
    BY <1>1, <1>2, <1>8, <2>1 DEF Goes
<1>10. QED
  BY <1>1, <1>6, <1>7, <1>8, <1>9 DEF KeepsCur, KeepsOut

\* RedisFails: no values.
LEMMA FailResult ==
  ASSUME IndInv, NEW w \in Workers, RedisFails(w)
  PROVE  /\ task[w].pc = "eval" /\ Goes(w, "check") /\ Alone(w) /\ KeepsCur(w) /\ KeepsOut(w)
         /\ \A x \in Users : task'[w].val[x] = Null
         /\ UNCHANGED <<now, redis, exceeded, blocked_users, epoch, new_keys, sent_keys, queue>>
<1> DEFINE c == task[w]
<1>1. TasksSound /\ c # Null /\ c.pc = "eval"
  BY DEF IndInv, RedisFails, At
<1>2. c \in Check
  BY <1>1 DEF TasksSound
<1>3. PICK d : d = [c EXCEPT !.pc = "check", !.val = NothingToCheck]
  OBVIOUS
<1>4. task' = [task EXCEPT ![w] = d]
  BY <1>1, <1>2, <1>3 DEF RedisFails, TasksSound, Check
<1>5. NothingToCheck \in [Users -> Nat \cup {Null}] /\ \A x \in Users : NothingToCheck[x] = Null
  BY DEF NothingToCheck
<1>6. UNCHANGED <<now, redis, exceeded, blocked_users, epoch, new_keys, sent_keys, queue>>
  BY DEF RedisFails, policies
<1>7. /\ d \in Check /\ d.pc = "check" /\ d.val = NothingToCheck /\ d.out = c.out /\ d.at = c.at
      /\ d.kind = c.kind /\ d.cur = c.cur /\ d.act = c.act /\ d.stale = c.stale
  BY <1>2, <1>3, <1>5 DEF Check
<1>8. Goes(w, "check") /\ Alone(w) /\ task'[w] = d
  BY <1>1, <1>4, <1>7, Replaced
<1>9. QED
  BY <1>1, <1>5, <1>6, <1>7, <1>8 DEF KeepsCur, KeepsOut

\* create_user_level_metric_raises: nothing left to examine.
LEMMA UnparsableResult ==
  ASSUME IndInv, NEW w \in Workers, create_user_level_metric_raises(w)
  PROVE  /\ task[w].pc = "check" /\ task[w].kind = "conn" /\ ~Parsable(w)
         /\ Goes(w, "check") /\ Alone(w) /\ KeepsCur(w) /\ KeepsOut(w)
         /\ \A x \in Users : task'[w].val[x] = Null
         /\ UNCHANGED <<now, redis, exceeded, blocked_users, epoch, new_keys, sent_keys, queue>>
<1> DEFINE c == task[w]
<1>1. TasksSound /\ c # Null /\ c.pc = "check" /\ c.kind = "conn" /\ ~Parsable(w)
  BY DEF IndInv, create_user_level_metric_raises, At
<1>2. c \in Check
  BY <1>1 DEF TasksSound
<1>3. PICK d : d = [c EXCEPT !.val = NothingToCheck]
  OBVIOUS
<1>4. task' = [task EXCEPT ![w] = d]
  BY <1>1, <1>2, <1>3 DEF create_user_level_metric_raises, TasksSound, Check
<1>5. NothingToCheck \in [Users -> Nat \cup {Null}] /\ \A x \in Users : NothingToCheck[x] = Null
  BY DEF NothingToCheck
<1>6. UNCHANGED <<now, redis, exceeded, blocked_users, epoch, new_keys, sent_keys, queue>>
  BY DEF create_user_level_metric_raises, policies
<1>7. /\ d \in Check /\ d.pc = "check" /\ d.val = NothingToCheck /\ d.out = c.out /\ d.at = c.at
      /\ d.kind = c.kind /\ d.cur = c.cur /\ d.act = c.act /\ d.stale = c.stale
  BY <1>1, <1>2, <1>3, <1>5 DEF Check
<1>8. Goes(w, "check") /\ Alone(w) /\ task'[w] = d
  BY <1>1, <1>4, <1>7, Replaced
<1>9. QED
  BY <1>1, <1>5, <1>6, <1>7, <1>8 DEF KeepsCur, KeepsOut

\* A user is about to be reported.
LEMMA ReportResult ==
  ASSUME IndInv, NEW w \in Workers, task[w] # Null, NEW u \in Users, NEW v \in Usages,
         Report(w, u, v)
  PROVE  /\ Goes(w, "add") /\ Alone(w) /\ KeepsVal(w) /\ KeepsOut(w)
         /\ task'[w].cur = u /\ task'[w].act = v
<1> DEFINE c == task[w]
<1>1. TasksSound /\ c \in Check
  BY DEF IndInv, TasksSound
<1>2. PICK d : d = [c EXCEPT !.pc = "add", !.cur = u, !.act = v]
  OBVIOUS
<1>3. task' = [task EXCEPT ![w] = d]
  BY <1>1, <1>2 DEF Report, TasksSound, Check
<1>4. /\ d \in Check /\ d.pc = "add" /\ d.val = c.val /\ d.out = c.out /\ d.at = c.at
      /\ d.kind = c.kind /\ d.cur = u /\ d.act = v /\ d.stale = c.stale
  BY <1>1, <1>2 DEF Check
<1>5. Goes(w, "add") /\ Alone(w) /\ task'[w] = d
  BY <1>1, <1>3, <1>4, Replaced
<1>6. QED
  BY <1>4, <1>5 DEF KeepsVal, KeepsOut

\* A user needs no report.
LEMMA ExaminedResult ==
  ASSUME IndInv, NEW w \in Workers, task[w] # Null, NEW u \in Users, Examined(w, u)
  PROVE  /\ Goes(w, task[w].pc) /\ Alone(w) /\ KeepsCur(w) /\ KeepsOut(w)
         /\ \A x \in Users : task'[w].val[x] = IF x = u THEN Null ELSE task[w].val[x]
<1> DEFINE c == task[w]
<1>1. TasksSound /\ c \in Check
  BY DEF IndInv, TasksSound
<1>2. c.val \in [Users -> Nat \cup {Null}]
  BY <1>1 DEF Check
<1>3. PICK d : d = [c EXCEPT !.val = [c.val EXCEPT ![u] = Null]]
  OBVIOUS
<1>4. task' = [task EXCEPT ![w] = d]
  BY <1>1, <1>3 DEF Examined, TasksSound, Check
<1>5. /\ d \in Check /\ d.pc = c.pc /\ d.val = [c.val EXCEPT ![u] = Null] /\ d.out = c.out
      /\ d.at = c.at /\ d.kind = c.kind /\ d.cur = c.cur /\ d.act = c.act /\ d.stale = c.stale
  BY <1>1, <1>2, <1>3 DEF Check
<1>6. Goes(w, c.pc) /\ Alone(w) /\ task'[w] = d
  BY <1>1, <1>4, <1>5, Replaced
<1>7. \A x \in Users : d.val[x] = IF x = u THEN Null ELSE c.val[x]
  BY <1>2, <1>5
<1>8. QED
  BY <1>5, <1>6, <1>7 DEF KeepsCur, KeepsOut

\* add_violation: the user has been reported, and its key is to send or was sent.
LEMMA AddResult ==
  ASSUME IndInv, NEW w \in Workers, add_violation(w)
  PROVE  /\ task[w].pc \in {"add", "insert"}
         /\ task[w].pc = "add" => Second(task[w].at) <= epoch
         /\ Goes(w, IF task[w].kind = "conn" THEN "record" ELSE "check")
         /\ Alone(w) /\ KeepsCur(w) /\ KeepsOut(w)
         /\ task[w].cur \in Users /\ task[w].act \in Usages
         /\ \A x \in Users : task'[w].val[x] = IF x = task[w].cur THEN Null ELSE task[w].val[x]
         /\ \A v \in Usages : new_keys'[v] =
              IF v = task[w].act /\ task[w].cur \notin sent_keys[v]
              THEN new_keys[v] \cup {task[w].cur} ELSE new_keys[v]
         /\ UNCHANGED <<now, redis, exceeded, blocked_users, epoch, sent_keys, queue>>
<1> USE GeneratorAssumption
<1> DEFINE c == task[w]
<1>1. /\ TasksSound /\ KeysSound /\ c # Null /\ c.pc \in {"add", "insert"} /\ AfterAdding(w)
      /\ c.pc = "add" => Second(c.at) <= epoch
  BY DEF IndInv, add_violation, AfterAdding, At
<1>2. c \in Check /\ Sound(c, now, reached)
  BY <1>1 DEF TasksSound, Sound
<1>3. c.cur \in Users /\ c.act \in Usages /\ c.val \in [Users -> Nat \cup {Null}]
  BY <1>1, <1>2 DEF Sound, Check
<1>4. PICK p \in {"record", "check"} : p = IF c.kind = "conn" THEN "record" ELSE "check"
  OBVIOUS
<1>5. PICK d : d = [c EXCEPT !.pc = p, !.val = [c.val EXCEPT ![c.cur] = Null]]
  OBVIOUS
<1>6. task' = [task EXCEPT ![w] = d]
  BY <1>1, <1>2, <1>4, <1>5 DEF AfterAdding, TasksSound, Check
<1>7. \A v \in Usages : new_keys'[v] =
        IF v = c.act /\ c.cur \notin sent_keys[v] THEN new_keys[v] \cup {c.cur} ELSE new_keys[v]
  <2>1. new_keys' = [new_keys EXCEPT ![c.act] = IF c.cur \in sent_keys[c.act] THEN @ ELSE @ \cup {c.cur}]
    BY DEF add_violation, WithKey
  <2> HIDE DEF c
  <2>2. QED
    BY <1>1, <1>3, <2>1 DEF KeysSound
<1>8. UNCHANGED <<now, redis, exceeded, blocked_users, epoch, sent_keys, queue>>
  BY DEF add_violation, AfterAdding
<1> HIDE DEF c
<1>9. /\ d \in Check /\ d.pc = p /\ d.val = [c.val EXCEPT ![c.cur] = Null] /\ d.out = c.out
      /\ d.at = c.at /\ d.kind = c.kind /\ d.cur = c.cur /\ d.act = c.act /\ d.stale = c.stale
  BY <1>2, <1>3, <1>5 DEF Check
<1>10. Goes(w, p) /\ Alone(w) /\ task'[w] = d
  <2>1. task'[w] = d /\ d # Null /\ Alone(w)
    BY <1>1, <1>6, <1>9, NullAssumption DEF TasksSound, Alone
  <2>2. QED
    BY <1>1, <1>2, <1>9, <2>1 DEF Goes, c
<1>11. \A x \in Users : d.val[x] = IF x = c.cur THEN Null ELSE c.val[x]
  BY <1>3, <1>9
<1>12. QED
  BY <1>1, <1>3, <1>4, <1>7, <1>8, <1>9, <1>10, <1>11 DEF KeepsCur, KeepsOut, c

\* see_new_epoch, the first half of new_epoch, and mark_sent move on and nothing else.
LEMMA PcResult ==
  ASSUME IndInv, NEW w \in Workers, task[w] # Null,
         NEW p \in {"new_epoch", "renew", "put"}, task' = [task EXCEPT ![w].pc = p]
  PROVE  Goes(w, p) /\ Alone(w) /\ KeepsVal(w) /\ KeepsCur(w) /\ KeepsOut(w)
<1> DEFINE c == task[w]
<1>1. TasksSound /\ c \in Check
  BY DEF IndInv, TasksSound
<1>2. PICK d : d = [c EXCEPT !.pc = p]
  OBVIOUS
<1>3. task' = [task EXCEPT ![w] = d]
  BY <1>1, <1>2 DEF TasksSound, Check
<1>4. /\ d \in Check /\ d.pc = p /\ d.val = c.val /\ d.out = c.out /\ d.at = c.at
      /\ d.kind = c.kind /\ d.cur = c.cur /\ d.act = c.act /\ d.stale = c.stale
  BY <1>1, <1>2 DEF Check
<1>5. Goes(w, p) /\ Alone(w) /\ task'[w] = d
  BY <1>1, <1>3, <1>4, Replaced
<1>6. QED
  BY <1>4, <1>5 DEF KeepsVal, KeepsCur, KeepsOut

\* see_new_epoch.
LEMMA SeeResult ==
  ASSUME IndInv, NEW w \in Workers, see_new_epoch(w)
  PROVE  /\ task[w].pc = "add" /\ Second(task[w].at) > epoch
         /\ Goes(w, "new_epoch") /\ Alone(w) /\ KeepsVal(w) /\ KeepsCur(w) /\ KeepsOut(w)
         /\ UNCHANGED <<now, redis, exceeded, blocked_users, epoch, new_keys, sent_keys, queue>>
BY PcResult DEF see_new_epoch, At, policies

\* new_epoch, the first assignment.
LEMMA EpochResult ==
  ASSUME IndInv, NEW w \in Workers, new_epoch(w)
  PROVE  /\ task[w].pc = "new_epoch" /\ epoch' = Second(task[w].at)
         /\ Goes(w, "renew") /\ Alone(w) /\ KeepsVal(w) /\ KeepsCur(w) /\ KeepsOut(w)
         /\ UNCHANGED <<now, redis, exceeded, blocked_users, new_keys, sent_keys, queue>>
BY PcResult DEF new_epoch, At

\* new_epoch, the second assignment.
LEMMA RenewResult ==
  ASSUME IndInv, NEW w \in Workers, new_violations(w)
  PROVE  /\ task[w].pc = "renew"
         /\ Goes(w, "insert") /\ KeepsVal(w) /\ KeepsCur(w) /\ KeepsOut(w)
         /\ \A x \in Workers \ {w} :
              \/ task'[x] = task[x] /\ (task[x] # Null => task[x].pc # "mark")
              \/ /\ task[x] # Null /\ task[x].pc = "mark" /\ Goes(x, "mark")
                 /\ KeepsVal(x) /\ KeepsCur(x)
                 /\ task'[x].out = task[x].out /\ task'[x].stale
         /\ \A v \in Usages : new_keys'[v] = {} /\ sent_keys'[v] = {}
         /\ UNCHANGED <<now, redis, exceeded, blocked_users, epoch, queue>>
<1>1. TasksSound /\ At(w, "renew")
  BY DEF IndInv, new_violations
<1>2. ASSUME NEW x \in Workers, NEW d, d = task'[x], task[x] # Null,
             d = [task[x] EXCEPT !.stale = TRUE]
      PROVE  /\ Goes(x, task[x].pc) /\ KeepsVal(x) /\ KeepsCur(x)
             /\ task'[x].out = task[x].out /\ task'[x].stale
  <2> DEFINE c == task[x]
  <2>1. c \in Check
    BY <1>1, <1>2 DEF TasksSound
  <2>2. /\ d \in Check /\ d.pc = c.pc /\ d.val = c.val /\ d.out = c.out /\ d.at = c.at
        /\ d.kind = c.kind /\ d.cur = c.cur /\ d.act = c.act /\ d.stale = TRUE
    BY <1>2, <2>1 DEF Check
  <2>3. d # Null
    BY <2>2, NullAssumption
  <2>4. QED
    BY <1>2, <2>1, <2>2, <2>3 DEF Goes, KeepsVal, KeepsCur
<1>3. /\ Goes(w, "insert") /\ KeepsVal(w) /\ KeepsCur(w) /\ KeepsOut(w)
  <2> DEFINE c == task[w]
  <2>1. c \in Check /\ c # Null
    BY <1>1 DEF TasksSound, At
  <2>2. PICK d : d = task'[w]
    OBVIOUS
  <2>3. d = [c EXCEPT !.pc = "insert"]
    BY <2>2 DEF new_violations, AfterRenewal
  <2>4. /\ d \in Check /\ d.pc = "insert" /\ d.val = c.val /\ d.out = c.out /\ d.at = c.at
        /\ d.kind = c.kind /\ d.cur = c.cur /\ d.act = c.act /\ d.stale = c.stale
    BY <2>1, <2>3 DEF Check
  <2>5. d # Null
    BY <2>4, NullAssumption
  <2>6. QED
    BY <2>1, <2>2, <2>4, <2>5 DEF Goes, KeepsVal, KeepsCur, KeepsOut
<1>4. ASSUME NEW x \in Workers \ {w}
      PROVE  \/ task'[x] = task[x] /\ (task[x] # Null => task[x].pc # "mark")
             \/ /\ task[x] # Null /\ task[x].pc = "mark" /\ Goes(x, "mark")
                /\ KeepsVal(x) /\ KeepsCur(x)
                /\ task'[x].out = task[x].out /\ task'[x].stale
  <2>1. task'[x] = IF At(x, "mark") THEN [task[x] EXCEPT !.stale = TRUE] ELSE task[x]
    BY DEF new_violations, AfterRenewal
  <2>2. CASE At(x, "mark")
    <3>1. PICK d : d = task'[x]
      OBVIOUS
    <3>2. QED
      BY <1>2, <2>1, <2>2, <3>1 DEF At
  <2>3. CASE ~At(x, "mark")
    BY <2>1, <2>3 DEF At
  <2>4. QED
    BY <2>2, <2>3
<1>5. \A v \in Usages : new_keys'[v] = {} /\ sent_keys'[v] = {}
  BY DEF new_violations, NoKeys
<1>6. QED
  BY <1>1, <1>3, <1>4, <1>5 DEF new_violations, AfterRenewal, At

\* record: blocked_users is updated, or the rest of the check is skipped.
LEMMA RecordResult ==
  ASSUME IndInv, NEW w \in Workers, record(w)
  PROVE  /\ task[w].pc = "record" /\ task[w].cur \in Users
         /\ Goes(w, "check") /\ Alone(w) /\ KeepsCur(w) /\ KeepsOut(w)
         /\ \/ KeepsVal(w)
            \/ task[w].act = "reqs_unblock" /\ \A x \in Users : task'[w].val[x] = Null
         /\ \/ task[w].act = "reqs_block"
               /\ blocked_users' = [blocked_users EXCEPT ![task[w].cur] = task[w].at]
            \/ task[w].act = "reqs_unblock"
               /\ blocked_users' = [blocked_users EXCEPT ![task[w].cur] = Null]
            \/ task[w].act = "reqs_unblock" /\ UNCHANGED blocked_users
         /\ UNCHANGED <<now, redis, exceeded, epoch, new_keys, sent_keys, queue>>
<1> DEFINE c == task[w]
<1>1. TasksSound /\ c # Null /\ c.pc = "record"
  BY DEF IndInv, record, At
<1>2. c \in Check /\ Sound(c, now, reached)
  BY <1>1 DEF TasksSound, Sound
<1>3. c.cur \in Users /\ c.val \in [Users -> Nat \cup {Null}]
  BY <1>1, <1>2 DEF Sound, Check
<1>4. PICK v : /\ v = c.val \/ (v = NothingToCheck /\ c.act = "reqs_unblock")
               /\ task' = [task EXCEPT ![w] = [c EXCEPT !.pc = "check", !.val = v]]
  <2>1. CASE task' = [task EXCEPT ![w].pc = "check"]
    <3>1. task' = [task EXCEPT ![w] = [c EXCEPT !.pc = "check", !.val = c.val]]
      BY <1>1, <1>2, <2>1 DEF TasksSound, Check
    <3>2. QED
      BY <3>1
  <2>2. CASE task' = [task EXCEPT ![w].pc = "check", ![w].val = NothingToCheck]
             /\ c.act = "reqs_unblock"
    <3>1. task' = [task EXCEPT ![w] = [c EXCEPT !.pc = "check", !.val = NothingToCheck]]
      BY <1>1, <1>2, <2>2 DEF TasksSound, Check
    <3>2. QED
      BY <2>2, <3>1
  <2>3. QED
    BY <2>1, <2>2 DEF record
<1>5. /\ NothingToCheck \in [Users -> Nat \cup {Null}]
      /\ \A x \in Users : NothingToCheck[x] = Null
  BY DEF NothingToCheck
<1>6. /\ \/ c.act = "reqs_block" /\ blocked_users' = [blocked_users EXCEPT ![c.cur] = c.at]
         \/ c.act = "reqs_unblock" /\ blocked_users' = [blocked_users EXCEPT ![c.cur] = Null]
         \/ c.act = "reqs_unblock" /\ UNCHANGED blocked_users
      /\ UNCHANGED <<now, redis, exceeded, epoch, new_keys, sent_keys, queue>>
  BY DEF record, policies
<1>7. PICK d : d = [c EXCEPT !.pc = "check", !.val = v]
  OBVIOUS
<1> HIDE DEF c
<1>8. /\ d \in Check /\ d.pc = "check" /\ d.val = v /\ d.out = c.out /\ d.at = c.at
      /\ d.kind = c.kind /\ d.cur = c.cur /\ d.act = c.act /\ d.stale = c.stale
  BY <1>2, <1>3, <1>4, <1>5, <1>7 DEF Check
<1>9. Goes(w, "check") /\ Alone(w) /\ task'[w] = d
  BY <1>1, <1>4, <1>7, <1>8, Replaced DEF c
<1>10. QED
  BY <1>1, <1>3, <1>4, <1>5, <1>6, <1>8, <1>9 DEF KeepsCur, KeepsOut, KeepsVal, c

\* The messages in a sequence: of a concatenation, a tail, an append.
LEMMA Ranges ==
  /\ Range(<<>>) = {}
  /\ \A m : Range(<<m>>) = {m}
  /\ \A s, r \in Seq(Message) : s \o r \in Seq(Message) /\ Range(s \o r) = Range(s) \cup Range(r)
  /\ \A s \in Seq(Message) :
       s # <<>> => /\ Tail(s) \in Seq(Message) /\ Head(s) \in Message
                   /\ Range(Tail(s)) \subseteq Range(s) /\ Head(s) \in Range(s)
  /\ \A s \in Seq(Message), m \in Message : Range(Append(s, m)) = Range(s) \cup {m}
  /\ \A s \in Seq(Message) : Range(s) = {} <=> s = <<>>
<1>1. Range(<<>>) = {}
  BY DEF Range
<1>2. ASSUME NEW m PROVE Range(<<m>>) = {m}
  BY DEF Range
<1>3. ASSUME NEW s \in Seq(Message), NEW r \in Seq(Message)
      PROVE  s \o r \in Seq(Message) /\ Range(s \o r) = Range(s) \cup Range(r)
  <2> DEFINE n == Len(s)
             k == Len(r)
  <2>1. n \in Nat /\ k \in Nat /\ DOMAIN s = 1 .. n /\ DOMAIN r = 1 .. k
    OBVIOUS
  <2>2. /\ s \o r \in Seq(Message) /\ DOMAIN (s \o r) = 1 .. n + k
        /\ \A i \in 1 .. n + k : (s \o r)[i] = IF i <= n THEN s[i] ELSE r[i - n]
    BY ConcatProperties
  <2>3. ASSUME NEW m \in Range(s \o r) PROVE m \in Range(s) \cup Range(r)
    <3>1. PICK i \in 1 .. n + k : m = (s \o r)[i]
      BY <2>2, <2>3 DEF Range
    <3> HIDE DEF n, k
    <3>2. CASE i <= n
      <4>1. i \in 1 .. n /\ m = s[i]
        BY <2>1, <2>2, <3>1, <3>2
      <4>2. QED
        BY <2>1, <4>1 DEF Range
    <3>3. CASE ~(i <= n)
      <4>1. i - n \in 1 .. k /\ m = r[i - n]
        BY <2>1, <2>2, <3>1, <3>3
      <4>2. QED
        BY <2>1, <4>1 DEF Range
    <3>4. QED
      BY <3>2, <3>3
  <2> HIDE DEF n, k
  <2>4. ASSUME NEW m \in Range(s) PROVE m \in Range(s \o r)
    <3>1. PICK i \in 1 .. n : m = s[i]
      BY <2>1, <2>4 DEF Range
    <3>2. i \in 1 .. n + k /\ (s \o r)[i] = s[i]
      BY <2>1, <2>2, <3>1
    <3>3. QED
      BY <2>2, <3>1, <3>2 DEF Range
  <2>5. ASSUME NEW m \in Range(r) PROVE m \in Range(s \o r)
    <3>1. PICK i \in 1 .. k : m = r[i]
      BY <2>1, <2>5 DEF Range
    <3>2. i + n \in 1 .. n + k /\ ~(i + n <= n) /\ (i + n) - n = i
      BY <2>1, <3>1
    <3>3. (s \o r)[i + n] = r[i]
      BY <2>2, <3>2
    <3>4. QED
      BY <2>2, <3>1, <3>2, <3>3 DEF Range
  <2>6. QED
    BY <2>2, <2>3, <2>4, <2>5
<1>4. ASSUME NEW s \in Seq(Message), s # <<>>
      PROVE  /\ Tail(s) \in Seq(Message) /\ Head(s) \in Message
             /\ Range(Tail(s)) \subseteq Range(s) /\ Head(s) \in Range(s)
  <2>1. /\ Len(s) \in Nat /\ Len(s) > 0 /\ DOMAIN s = 1 .. Len(s)
        /\ Tail(s) \in Seq(Message) /\ Len(Tail(s)) = Len(s) - 1 /\ Head(s) = s[1]
        /\ DOMAIN Tail(s) = 1 .. Len(Tail(s))
        /\ \A i \in 1 .. Len(Tail(s)) : Tail(s)[i] = s[i + 1]
    BY <1>4, HeadTailProperties
  <2>2. \A i \in 1 .. Len(Tail(s)) : i + 1 \in 1 .. Len(s)
    BY <2>1
  <2>3. Head(s) \in Message /\ Head(s) \in Range(s)
    <3>1. 1 \in 1 .. Len(s)
      BY <2>1
    <3>2. QED
      BY <2>1, <3>1, ElementOfSeq DEF Range
  <2>4. ASSUME NEW m \in Range(Tail(s)) PROVE m \in Range(s)
    <3>1. PICK i \in 1 .. Len(Tail(s)) : m = Tail(s)[i]
      BY <2>1, <2>4 DEF Range
    <3>2. m = s[i + 1] /\ i + 1 \in DOMAIN s
      BY <2>1, <2>2, <3>1
    <3>3. QED
      BY <3>2 DEF Range
  <2>5. QED
    BY <2>1, <2>3, <2>4
<1>5. ASSUME NEW s \in Seq(Message), NEW m \in Message
      PROVE  Range(Append(s, m)) = Range(s) \cup {m}
  <2>1. Len(s) \in Nat /\ DOMAIN s = 1 .. Len(s)
    OBVIOUS
  <2>2. /\ DOMAIN Append(s, m) = 1 .. Len(s) + 1
        /\ \A i \in 1 .. Len(s) : Append(s, m)[i] = s[i]
        /\ Append(s, m)[Len(s) + 1] = m
    BY AppendProperties
  <2>3. 1 .. Len(s) + 1 = (1 .. Len(s)) \cup {Len(s) + 1}
    BY <2>1
  <2>4. QED
    BY <2>1, <2>2, <2>3 DEF Range
<1>6. ASSUME NEW s \in Seq(Message) PROVE Range(s) = {} <=> s = <<>>
  <2>1. CASE s = <<>>
    BY <1>1, <2>1
  <2>2. CASE s # <<>>
    BY <1>4, <2>2
  <2>3. QED
    BY <2>1, <2>2
<1>7. QED
  BY <1>1, <1>2, <1>3, <1>4, <1>5, <1>6

\* The messages of all keys to send, with a time.
Messages(t) ==
  {[usage |-> v, keys |-> new_keys[v], at |-> t] : v \in {x \in Usages : new_keys[x] # {}}}

\* generate_violation_message: a message for every usage value that has keys to send, or the
\* end of the check.
LEMMA GenerateResult ==
  ASSUME IndInv, NEW w \in Workers, generate_violation_message(w)
  PROVE  /\ task[w] # Null /\ task[w].pc = "check" /\ \A x \in Users : task[w].val[x] = Null
         /\ Alone(w)
         /\ \/ task'[w] = Null /\ \A v \in Usages : new_keys[v] = {}
            \/ /\ Goes(w, "mark") /\ KeepsVal(w) /\ KeepsCur(w) /\ ~task'[w].stale
               /\ Range(task'[w].out) = Messages(task[w].at)
         /\ UNCHANGED <<now, redis, exceeded, blocked_users, epoch, new_keys, sent_keys, queue>>
<1> DEFINE c == task[w]
           M(v) == MessageOf(v, c.at)
           msgs == M("GET") \o M("reqs_block") \o M("reqs_unblock")
<1>1. TasksSound /\ KeysSound /\ c # Null /\ c.pc = "check" /\ c.val = NothingToCheck
  BY DEF IndInv, generate_violation_message, At
<1>2. c \in Check /\ c.at \in Nat
  BY <1>1 DEF TasksSound, Check
<1>3. ASSUME NEW v \in Usages
      PROVE  /\ M(v) \in Seq(Message)
             /\ Range(M(v)) = IF new_keys[v] = {} THEN {}
                              ELSE {[usage |-> v, keys |-> new_keys[v], at |-> c.at]}
  <2> HIDE DEF c
  <2>1. CASE new_keys[v] = {}
    BY <2>1, Ranges DEF MessageOf
  <2>2. CASE new_keys[v] # {}
    <3> DEFINE m == [usage |-> v, keys |-> new_keys[v], at |-> c.at]
    <3>1. m \in Message
      BY <1>1, <1>2 DEF Message, KeysSound
    <3>2. MessageOf(v, c.at) = <<m>>
      BY <2>2 DEF MessageOf
    <3> HIDE DEF m
    <3>3. <<m>> \in Seq(Message) /\ Range(<<m>>) = {m}
      BY <3>1, Ranges
    <3>4. QED
      BY <2>2, <3>2, <3>3 DEF m
  <2>3. QED
    BY <2>1, <2>2
<1>4. /\ msgs \in Seq(Message)
      /\ Range(msgs) = Range(M("GET")) \cup Range(M("reqs_block")) \cup Range(M("reqs_unblock"))
  <2>1. M("GET") \in Seq(Message) /\ M("reqs_block") \in Seq(Message) /\ M("reqs_unblock") \in Seq(Message)
    BY <1>3 DEF Usages
  <2> HIDE DEF M
  <2>2. /\ M("GET") \o M("reqs_block") \in Seq(Message)
        /\ Range(M("GET") \o M("reqs_block")) = Range(M("GET")) \cup Range(M("reqs_block"))
    BY <2>1, Ranges
  <2>3. PICK a \in Seq(Message) : a = M("GET") \o M("reqs_block")
    BY <2>2
  <2>4. /\ a \o M("reqs_unblock") \in Seq(Message)
        /\ Range(a \o M("reqs_unblock")) = Range(a) \cup Range(M("reqs_unblock"))
    BY <2>1, Ranges
  <2>5. QED
    BY <2>2, <2>3, <2>4
<1>5. Range(msgs) = Messages(c.at)
  <2>1. /\ Range(M("GET")) = IF new_keys["GET"] = {} THEN {}
             ELSE {[usage |-> "GET", keys |-> new_keys["GET"], at |-> c.at]}
        /\ Range(M("reqs_block")) = IF new_keys["reqs_block"] = {} THEN {}
             ELSE {[usage |-> "reqs_block", keys |-> new_keys["reqs_block"], at |-> c.at]}
        /\ Range(M("reqs_unblock")) = IF new_keys["reqs_unblock"] = {} THEN {}
             ELSE {[usage |-> "reqs_unblock", keys |-> new_keys["reqs_unblock"], at |-> c.at]}
    BY <1>3 DEF Usages
  <2>2. Range(msgs) = Range(M("GET")) \cup Range(M("reqs_block")) \cup Range(M("reqs_unblock"))
    BY <1>4
  <2> DEFINE m(v) == [usage |-> v, keys |-> new_keys[v], at |-> c.at]
  <2>3. Messages(c.at) = {m(v) : v \in {x \in Usages : new_keys[x] # {}}}
    BY DEF Messages
  <2>4. /\ Range(M("GET")) = IF new_keys["GET"] = {} THEN {} ELSE {m("GET")}
        /\ Range(M("reqs_block")) = IF new_keys["reqs_block"] = {} THEN {} ELSE {m("reqs_block")}
        /\ Range(M("reqs_unblock")) = IF new_keys["reqs_unblock"] = {} THEN {} ELSE {m("reqs_unblock")}
    BY <2>1
  <2> HIDE DEF M, m, msgs, c
  <2>5. QED
    BY <2>2, <2>3, <2>4 DEF Usages
<1>6. task' = [task EXCEPT ![w] = IF msgs = <<>> THEN Null
                 ELSE [c EXCEPT !.pc = "mark", !.out = msgs, !.stale = FALSE]]
  BY DEF generate_violation_message
<1>7. UNCHANGED <<now, redis, exceeded, blocked_users, epoch, new_keys, sent_keys, queue>>
  BY DEF generate_violation_message, policies
<1>8. \A x \in Users : c.val[x] = Null
  BY <1>1 DEF NothingToCheck
<1> HIDE DEF c, msgs
<1>9. CASE msgs = <<>>
  <2>1. task' = [task EXCEPT ![w] = Null] /\ Messages(c.at) = {}
    BY <1>5, <1>6, <1>9, Ranges
  <2>2. Alone(w) /\ task'[w] = Null
    BY <1>1, <2>1, Ended
  <2>3. \A v \in Usages : new_keys[v] = {}
    BY <2>1 DEF Messages
  <2>4. QED
    BY <1>1, <1>7, <1>8, <2>2, <2>3 DEF c
<1>10. CASE msgs # <<>>
  <2>1. PICK d : d = [c EXCEPT !.pc = "mark", !.out = msgs, !.stale = FALSE]
    OBVIOUS
  <2>2. /\ d \in Check /\ d.pc = "mark" /\ d.out = msgs /\ d.at = c.at /\ d.val = c.val
        /\ d.kind = c.kind /\ d.cur = c.cur /\ d.act = c.act /\ d.stale = FALSE
    BY <1>2, <1>4, <2>1 DEF Check
  <2>3. task' = [task EXCEPT ![w] = d]
    BY <1>6, <1>10, <2>1
  <2>4. Goes(w, "mark") /\ Alone(w) /\ task'[w] = d
    BY <1>1, <2>2, <2>3, Replaced DEF c
  <2>5. QED
    BY <1>1, <1>5, <1>7, <1>8, <2>2, <2>4 DEF KeepsVal, KeepsCur, c
<1>11. QED
  BY <1>9, <1>10

\* mark_sent: the keys to send of the usage values of its messages are gone; the sent keys
\* grow by no key that is neither to send nor in a message.
LEMMA MarkResult ==
  ASSUME IndInv, NEW w \in Workers, mark_sent(w)
  PROVE  /\ task[w].pc = "mark"
         /\ Goes(w, "put") /\ Alone(w) /\ KeepsVal(w) /\ KeepsCur(w) /\ KeepsOut(w)
         /\ \/ task[w].stale /\ UNCHANGED <<new_keys, sent_keys>>
            \/ /\ ~task[w].stale
               /\ \A v \in Usages :
                    /\ new_keys'[v] = IF v \in Generated(w) THEN {} ELSE new_keys[v]
                    /\ sent_keys[v] \subseteq sent_keys'[v]
                    /\ sent_keys'[v] \subseteq sent_keys[v] \cup new_keys[v]
         /\ UNCHANGED <<now, redis, exceeded, blocked_users, epoch, queue>>
<1>1. task[w] # Null /\ task[w].pc = "mark" /\ task' = [task EXCEPT ![w].pc = "put"]
  BY DEF mark_sent, At
<1>2. Goes(w, "put") /\ Alone(w) /\ KeepsVal(w) /\ KeepsCur(w) /\ KeepsOut(w)
  BY <1>1, PcResult
<1>3. \/ task[w].stale /\ UNCHANGED <<new_keys, sent_keys>>
      \/ /\ ~task[w].stale
         /\ \A v \in Usages :
              /\ new_keys'[v] = IF v \in Generated(w) THEN {} ELSE new_keys[v]
              /\ sent_keys[v] \subseteq sent_keys'[v]
              /\ sent_keys'[v] \subseteq sent_keys[v] \cup new_keys[v]
  BY DEF mark_sent
<1>4. QED
  BY <1>1, <1>2, <1>3 DEF mark_sent

\* mark_raises: the check ends, after a key that none of its messages holds.
LEMMA RaiseResult ==
  ASSUME IndInv, NEW w \in Workers, mark_raises(w)
  PROVE  /\ task[w] # Null /\ task[w].pc = "mark" /\ ~task[w].stale
         /\ Alone(w) /\ task'[w] = Null
         /\ \E m \in Range(task[w].out) : ~(new_keys[m.usage] \subseteq m.keys)
         /\ \A v \in Usages :
              /\ new_keys'[v] \subseteq new_keys[v]
              /\ sent_keys'[v] \subseteq
                   sent_keys[v] \cup new_keys[v] \cup UNION {m.keys : m \in Range(task[w].out)}
         /\ UNCHANGED <<now, redis, exceeded, blocked_users, epoch, queue>>
<1> DEFINE c == task[w]
<1>1. TasksSound /\ c # Null /\ c.pc = "mark" /\ ~c.stale
  BY DEF mark_raises, At, IndInv
<1>2. task' = [task EXCEPT ![w] = Null] /\ UNCHANGED <<now, redis, exceeded, blocked_users, epoch, queue>>
  BY DEF mark_raises
<1>3. PICK i \in DOMAIN c.out :
        /\ \E marked \in SUBSET (c.out[i].keys \cup new_keys[c.out[i].usage]),
              late \in [Usages -> SUBSET Users] :
             /\ ~(new_keys[c.out[i].usage] \subseteq c.out[i].keys \cup marked)
             /\ \A v \in Usages : late[v] \subseteq new_keys[v] \ Sent(w, v)
             /\ sent_keys' = [v \in Usages |->
                  CASE v \in {c.out[j].usage : j \in 1 .. i - 1} ->
                         sent_keys[v] \cup (new_keys[v] \ late[v])
                    [] v = c.out[i].usage  -> sent_keys[v] \cup marked
                    [] OTHER        -> sent_keys[v]]
        /\ new_keys' = [v \in Usages |->
             IF v \in {c.out[j].usage : j \in 1 .. i - 1} THEN {} ELSE new_keys[v]]
  BY DEF mark_raises
<1> DEFINE done == {c.out[j].usage : j \in 1 .. i - 1}
           m == c.out[i]
<1>4. PICK marked \in SUBSET (m.keys \cup new_keys[m.usage]), late \in [Usages -> SUBSET Users] :
             sent_keys' = [v \in Usages |->
               CASE v \in done -> sent_keys[v] \cup (new_keys[v] \ late[v])
                 [] v = m.usage  -> sent_keys[v] \cup marked
                 [] OTHER        -> sent_keys[v]]
  BY <1>3
<1>5. new_keys' = [v \in Usages |-> IF v \in done THEN {} ELSE new_keys[v]]
  BY <1>3
<1>6. m \in Range(c.out) /\ ~(new_keys[m.usage] \subseteq m.keys)
  BY <1>3 DEF Range
<1> HIDE DEF done, m
<1>7. ASSUME NEW v \in Usages
      PROVE  /\ new_keys'[v] \subseteq new_keys[v]
             /\ sent_keys'[v] \subseteq
                  sent_keys[v] \cup new_keys[v] \cup UNION {x.keys : x \in Range(c.out)}
  <2>1. new_keys'[v] \subseteq new_keys[v]
    BY <1>5
  <2>2. sent_keys'[v] \subseteq sent_keys[v] \cup new_keys[v] \cup m.keys
    <3>1. sent_keys'[v] = CASE v \in done -> sent_keys[v] \cup (new_keys[v] \ late[v])
                            [] v = m.usage  -> sent_keys[v] \cup marked
                            [] OTHER        -> sent_keys[v]
      BY <1>4
    <3>2. v = m.usage => marked \subseteq m.keys \cup new_keys[v]
      BY <1>4
    <3>3. QED
      BY <3>1, <3>2
  <2>3. m.keys \subseteq UNION {x.keys : x \in Range(c.out)}
    BY <1>6
  <2>4. QED
    BY <2>1, <2>2, <2>3
<1>8. Alone(w) /\ task'[w] = Null
  BY <1>1, <1>2, Ended
<1>9. QED
  BY <1>1, <1>2, <1>6, <1>7, <1>8

\* add_message: one message goes to the queue, unless it is full.
LEMMA PutResult ==
  ASSUME IndInv, NEW w \in Workers, add_message(w)
  PROVE  /\ task[w] # Null /\ task[w].pc = "put" /\ Alone(w)
         /\ \/ task'[w] = Null
            \/ /\ Goes(w, "put") /\ KeepsVal(w) /\ KeepsCur(w)
               /\ task'[w].stale = task[w].stale
               /\ Range(task'[w].out) \subseteq Range(task[w].out)
         /\ queue' # <<>> /\ Range(queue') \subseteq Range(queue) \cup Range(task[w].out)
         /\ UNCHANGED <<now, redis, exceeded, blocked_users, epoch, new_keys, sent_keys>>
<1> DEFINE c == task[w]
           rest == Tail(c.out)
           m == Head(c.out)
<1>1. TasksSound /\ QueueSound /\ c # Null /\ c.pc = "put"
  BY DEF IndInv, add_message, At
<1>2. c \in Check /\ c.out # <<>> /\ c.out \in Seq(Message)
  BY <1>1 DEF TasksSound, Sound, Check
<1>3. /\ m \in Message /\ m \in Range(c.out) /\ rest \in Seq(Message)
      /\ Range(rest) \subseteq Range(c.out)
  BY <1>2, Ranges
<1>4. /\ task' = [task EXCEPT ![w] = IF rest = <<>> THEN Null ELSE [c EXCEPT !.out = rest]]
      /\ queue' = IF Len(queue) < QueueSize THEN Append(queue, m) ELSE queue
  BY DEF add_message
<1>5. UNCHANGED <<now, redis, exceeded, blocked_users, epoch, new_keys, sent_keys>>
  BY DEF add_message, policies
<1> HIDE DEF c, rest, m
<1>6. /\ Alone(w)
      /\ \/ task'[w] = Null
         \/ /\ Goes(w, "put") /\ KeepsVal(w) /\ KeepsCur(w) /\ task'[w].stale = c.stale
            /\ Range(task'[w].out) \subseteq Range(c.out)
  <2>1. CASE rest = <<>>
    BY <1>1, <1>4, <2>1, Ended
  <2>2. CASE rest # <<>>
    <3>1. PICK d : d = [c EXCEPT !.out = rest]
      OBVIOUS
    <3>2. /\ d \in Check /\ d.pc = "put" /\ d.out = rest /\ d.at = c.at /\ d.val = c.val
          /\ d.kind = c.kind /\ d.cur = c.cur /\ d.act = c.act /\ d.stale = c.stale
      BY <1>1, <1>2, <1>3, <3>1 DEF Check
    <3>3. task' = [task EXCEPT ![w] = d]
      BY <1>4, <2>2, <3>1
    <3>4. Goes(w, "put") /\ Alone(w) /\ task'[w] = d
      BY <1>1, <3>2, <3>3, Replaced DEF c
    <3>5. QED
      BY <1>3, <3>2, <3>4 DEF KeepsVal, KeepsCur, c
  <2>3. QED
    BY <2>1, <2>2
<1>7. queue' # <<>> /\ Range(queue') \subseteq Range(queue) \cup Range(c.out)
  <2>1. queue \in Seq(Message) /\ Len(queue) \in Nat
    BY <1>1 DEF QueueSound
  <2>2. CASE Len(queue) < QueueSize
    <3>1. Range(queue') = Range(queue) \cup {m}
      BY <1>3, <1>4, <2>1, <2>2, Ranges
    <3>2. queue' # <<>>
      BY <3>1, Ranges
    <3>3. QED
      BY <1>3, <3>1, <3>2
  <2>3. CASE ~(Len(queue) < QueueSize)
    <3>1. queue' = queue /\ Len(queue) > 0
      BY <1>4, <2>1, <2>3, GeneratorAssumption
    <3>2. QED
      BY <3>1
  <2>4. QED
    BY <2>2, <2>3
<1>8. QED
  BY <1>1, <1>5, <1>6, <1>7 DEF c

\* A drained line has the head of a message and the keys of one, and names no other users.
LEMMA LineResult ==
  ASSUME IndInv, queue # <<>>, NEW line \in Concatenated(queue)
  PROVE  /\ \E m \in Range(queue) : line.usage = m.usage /\ line.at = m.at
         /\ \E m \in Range(queue) : m.keys \subseteq line.keys
         /\ \A u \in line.keys : \E m \in Range(queue) : u \in m.keys
<1>1. queue \in Seq(Message) /\ Len(queue) \in Nat /\ Len(queue) >= 1 /\ DOMAIN queue = 1 .. Len(queue)
  BY EmptySeq DEF IndInv, QueueSound
<1>2. PICK last : line = [usage |-> queue[1].usage, at |-> queue[1].at,
        keys |-> (UNION {queue[i].keys \ {last[i]} : i \in 1 .. Len(queue) - 1})
                   \cup queue[Len(queue)].keys]
  BY DEF Concatenated
<1>3. 1 \in DOMAIN queue /\ Len(queue) \in DOMAIN queue
      /\ \A i \in 1 .. Len(queue) - 1 : i \in DOMAIN queue
  BY <1>1
<1>4. line.keys = (UNION {queue[i].keys \ {last[i]} : i \in 1 .. Len(queue) - 1})
                      \cup queue[Len(queue)].keys
  BY <1>2
<1>5. \A i \in DOMAIN queue : queue[i] \in Range(queue)
  BY DEF Range
<1>6. \E m \in Range(queue) : line.usage = m.usage /\ line.at = m.at
  BY <1>2, <1>3, <1>5
<1>7. \E m \in Range(queue) : m.keys \subseteq line.keys
  BY <1>3, <1>4, <1>5
<1>8. ASSUME NEW u \in line.keys PROVE \E m \in Range(queue) : u \in m.keys
  <2>1. \/ \E i \in 1 .. Len(queue) - 1 : u \in queue[i].keys
        \/ u \in queue[Len(queue)].keys
    BY <1>4
  <2>2. QED
    BY <1>3, <1>5, <2>1
<1>9. QED
  BY <1>6, <1>7, <1>8

-----------------------------------------------------------------------------
(* What holds of checks and keys for all configurations. *)

\* Every check ends within MaxLag ticks.
Timely == \A w \in Workers : task[w] # Null => now < task[w].at + MaxLag

\* The invariant that the ones below build on.
Base == IndInv /\ NoKeyForgotten /\ Timely

\* The messages of a sequence have a usage value, users as keys, and a time.
LEMMA MessageOfRange ==
  ASSUME NEW s \in Seq(Message), NEW m \in Range(s)
  PROVE  m \in Message /\ m.usage \in Usages /\ m.keys \subseteq Users /\ m.at \in Nat
<1>1. m \in Message
  BY ElementOfSeq DEF Range
<1>2. QED
  BY <1>1 DEF Message

\* The messages of checks and queue.
LEMMA MessagesKnown ==
  ASSUME IndInv
  PROVE  /\ \A w \in Workers : task[w] # Null =>
              /\ task[w] \in Check /\ task[w].at \in Nat /\ task[w].at <= now
              /\ task[w].out \in Seq(Message)
              /\ \A m \in Range(task[w].out) :
                   m \in Message /\ m.usage \in Usages /\ m.keys \subseteq Users
         /\ \A m \in Range(queue) : m \in Message /\ m.usage \in Usages /\ m.keys \subseteq Users
         /\ queue \in Seq(Message)
<1>1. queue \in Seq(Message)
  BY DEF IndInv, QueueSound
<1>2. ASSUME NEW w \in Workers, task[w] # Null
      PROVE  /\ task[w] \in Check /\ task[w].at \in Nat /\ task[w].at <= now
             /\ task[w].out \in Seq(Message)
  BY <1>2 DEF IndInv, TasksSound, Sound, Check
<1>3. QED
  BY <1>1, <1>2, MessageOfRange

\* A step of a check changes no check's kind or scan time.
LEMMA ScanKept ==
  ASSUME IndInv, NEW w \in Workers, CheckStep(w) \/ RedisFails(w), NEW x \in Workers,
         task'[x] # Null
  PROVE  task[x] # Null /\ task'[x].at = task[x].at /\ task'[x].kind = task[x].kind
<1>1. ASSUME NEW p, Goes(w, p), Alone(w)
      PROVE  task[x] # Null /\ task'[x].at = task[x].at /\ task'[x].kind = task[x].kind
  BY <1>1 DEF Goes, Alone
<1>2. ASSUME task'[w] = Null, Alone(w)
      PROVE  task[x] # Null /\ task'[x].at = task[x].at /\ task'[x].kind = task[x].kind
  BY <1>2 DEF Alone
<1>3. CASE call_redis_eval(w) \/ RedisFails(w) \/ create_user_level_metric_raises(w)
  BY <1>1, <1>3, EvalResult, FailResult, UnparsableResult
<1>4. ASSUME NEW u \in Users, NEW v \in Usages, task[w] # Null, Report(w, u, v) \/ Examined(w, u)
      PROVE  task[x] # Null /\ task'[x].at = task[x].at /\ task'[x].kind = task[x].kind
  BY <1>1, <1>4, ReportResult, ExaminedResult
<1>5. ASSUME NEW u \in Users,
             _check_all_conn_key_violations(w, u) \/ _check_violation_per_key_verb(w, u)
      PROVE  task[x] # Null /\ task'[x].at = task[x].at /\ task'[x].kind = task[x].kind
  BY <1>4, <1>5 DEF _check_all_conn_key_violations, _check_violation_per_key_verb, At, Usages
<1>6. CASE add_violation(w)
  BY <1>1, <1>6, AddResult
<1>7. CASE see_new_epoch(w) \/ new_epoch(w)
  BY <1>1, <1>7, SeeResult, EpochResult
<1>8. CASE new_violations(w)
  <2>1. Goes(w, "insert") /\ \A y \in Workers \ {w} : task'[y] = task[y] \/ Goes(y, "mark")
    BY <1>8, RenewResult
  <2>2. QED
    BY <2>1 DEF Goes
<1>9. CASE record(w)
  BY <1>1, <1>9, RecordResult
<1>10. CASE generate_violation_message(w)
  BY <1>1, <1>2, <1>10, GenerateResult
<1>11. CASE mark_sent(w) \/ mark_raises(w)
  BY <1>1, <1>2, <1>11, MarkResult, RaiseResult
<1>12. CASE add_message(w)
  BY <1>1, <1>2, <1>12, PutResult
<1>13. QED
  BY <1>3, <1>5, <1>6, <1>7, <1>8, <1>9, <1>10, <1>11, <1>12 DEF CheckStep

\* A check that covers the keys goes on covering them when another thread removes some.
LEMMA CoverKept ==
  ASSUME IndInv, NEW x \in Workers, Working(task[x]) \/ Covers(task[x]),
         task'[x] = task[x], \A v \in Usages : new_keys'[v] \subseteq new_keys[v]
  PROVE  NoKeyForgotten'
<1>1. Working(task'[x]) \/ Covers(task[x])'
  <2>1. CASE Working(task[x])
    BY <2>1
  <2>2. CASE Covers(task[x])
    <3>1. \A m \in Range(task[x].out) : m.usage \in Usages
      BY <2>2, MessagesKnown DEF Covers
    <3>2. QED
      BY <2>2, <3>1 DEF Covers
  <2>3. QED
    BY <2>1, <2>2
<1>2. QED
  BY <1>1 DEF NoKeyForgotten

\* A step of a check keeps the keys to send covered.
LEMMA CoveredCheckStep ==
  ASSUME IndInv, NoKeyForgotten, NEW w \in Workers, CheckStep(w) \/ RedisFails(w)
  PROVE  NoKeyForgotten'
<1>1. ASSUME NEW p \in {"check", "add", "new_epoch", "renew", "insert", "record"}, Goes(w, p)
      PROVE  NoKeyForgotten'
  BY <1>1 DEF NoKeyForgotten, Working, Goes
<1>2. ASSUME Alone(w), \A v \in Usages : new_keys'[v] \subseteq new_keys[v],
             ~(Working(task[w]) \/ Covers(task[w]))
      PROVE  NoKeyForgotten'
  <2>1. CASE \A v \in Usages : new_keys[v] = {}
    <3>1. \A v \in Usages : new_keys'[v] = {}
      BY <1>2, <2>1
    <3>2. QED
      BY <3>1 DEF NoKeyForgotten
  <2>2. CASE \E v \in Usages : new_keys[v] # {}
    <3>1. PICK x \in Workers : Working(task[x]) \/ Covers(task[x])
      BY <2>2 DEF NoKeyForgotten
    <3>2. x # w /\ task'[x] = task[x]
      BY <1>2, <3>1 DEF Alone
    <3>3. QED
      BY <1>2, <3>1, <3>2, CoverKept
  <2>3. QED
    BY <2>1, <2>2
<1>3. CASE call_redis_eval(w) \/ RedisFails(w) \/ create_user_level_metric_raises(w)
  BY <1>1, <1>3, EvalResult, FailResult, UnparsableResult
<1>4. ASSUME NEW u \in Users, NEW v \in Usages, task[w] # Null, task[w].pc = "check",
             Report(w, u, v) \/ Examined(w, u)
      PROVE  NoKeyForgotten'
  BY <1>1, <1>4, ReportResult, ExaminedResult
<1>5. ASSUME NEW u \in Users,
             _check_all_conn_key_violations(w, u) \/ _check_violation_per_key_verb(w, u)
      PROVE  NoKeyForgotten'
  BY <1>4, <1>5 DEF _check_all_conn_key_violations, _check_violation_per_key_verb, At, Usages
<1>6. CASE add_violation(w)
  BY <1>1, <1>6, AddResult
<1>7. CASE see_new_epoch(w) \/ new_epoch(w) \/ new_violations(w)
  BY <1>1, <1>7, SeeResult, EpochResult, RenewResult
<1>8. CASE record(w)
  BY <1>1, <1>8, RecordResult
<1>9. CASE generate_violation_message(w)
  <2>1. UNCHANGED new_keys
    BY <1>9, GenerateResult
  <2>2. CASE task'[w] = Null /\ \A v \in Usages : new_keys[v] = {}
    BY <2>1, <2>2 DEF NoKeyForgotten
  <2>3. CASE /\ Goes(w, "mark") /\ ~task'[w].stale
             /\ Range(task'[w].out) = Messages(task[w].at)
    <3>1. Covers(task[w])'
      <4>1. PICK M : M = Messages(task[w].at) /\ M = Range(task'[w].out)
        BY <2>3
      <4>2. /\ \A v \in Usages : new_keys[v] # {} => \E m \in M : m.usage = v
            /\ \A m \in M : new_keys[m.usage] \subseteq m.keys
        <5> DEFINE f(v) == [usage |-> v, keys |-> new_keys[v], at |-> task[w].at]
        <5>1. M = {f(v) : v \in {x \in Usages : new_keys[x] # {}}}
          BY <4>1 DEF Messages
        <5>2. \A v \in Usages : f(v).usage = v /\ f(v).keys = new_keys[v]
          OBVIOUS
        <5> HIDE DEF f
        <5>3. QED
          BY <5>1, <5>2
      <4>3. QED
        BY <2>1, <2>3, <4>1, <4>2 DEF Covers, Goes
    <3>2. QED
      BY <3>1 DEF NoKeyForgotten
  <2>4. QED
    BY <1>9, <2>2, <2>3, GenerateResult
<1>10. CASE mark_sent(w)
  <2>1. Alone(w) /\ task[w].pc = "mark"
    BY <1>10, MarkResult
  <2>2. ~Working(task[w])
    BY <2>1 DEF Working
  <2>3. CASE task[w].stale /\ UNCHANGED <<new_keys, sent_keys>>
    BY <1>2, <2>1, <2>2, <2>3 DEF Covers
  <2>4. CASE \A v \in Usages : new_keys'[v] = IF v \in Generated(w) THEN {} ELSE new_keys[v]
    <3>1. CASE Covers(task[w])
      <4>1. \A v \in Usages : new_keys[v] # {} => v \in Generated(w)
        BY <3>1 DEF Covers, Generated
      <4>2. \A v \in Usages : new_keys'[v] = {}
        BY <2>4, <4>1
      <4>3. QED
        BY <4>2 DEF NoKeyForgotten
    <3>2. CASE ~Covers(task[w])
      BY <1>2, <2>1, <2>2, <2>4, <3>2
    <3>3. QED
      BY <3>1, <3>2
  <2>5. QED
    BY <1>10, <2>3, <2>4, MarkResult
<1>11. CASE mark_raises(w)
  <2>1. /\ Alone(w) /\ task[w].pc = "mark"
        /\ \E m \in Range(task[w].out) : ~(new_keys[m.usage] \subseteq m.keys)
        /\ \A v \in Usages : new_keys'[v] \subseteq new_keys[v]
    BY <1>11, RaiseResult
  <2>2. ~(Working(task[w]) \/ Covers(task[w]))
    BY <2>1 DEF Working, Covers
  <2>3. QED
    BY <1>2, <2>1, <2>2
<1>12. CASE add_message(w)
  <2>1. Alone(w) /\ task[w].pc = "put" /\ UNCHANGED new_keys
    BY <1>12, PutResult
  <2>2. ~(Working(task[w]) \/ Covers(task[w]))
    BY <2>1 DEF Working, Covers
  <2>3. QED
    BY <1>2, <2>1, <2>2
<1>13. QED
  BY <1>3, <1>5, <1>6, <1>7, <1>8, <1>9, <1>10, <1>11, <1>12 DEF CheckStep

\* The base invariant holds at start-up.
LEMMA BaseInit == Init => Base
<1> SUFFICES ASSUME Init PROVE Base
  OBVIOUS
<1>1. NoKeyForgotten /\ Timely
  BY DEF Init, GenInit, NoKeyForgotten, Timely, NoKeys
<1>2. QED
  BY <1>1, IndInit DEF Base

\* Every step keeps it.
LEMMA BaseStep == Base /\ [Next]_vars => Base'
<1> SUFFICES ASSUME Base, [Next]_vars PROVE Base'
  OBVIOUS
<1>1. IndInv /\ NoKeyForgotten /\ Timely /\ now \in Nat
  BY DEF Base, IndInv, CountsSound
<1>2. IndInv'
  BY <1>1, IndStep
<1>3. ASSUME UNCHANGED <<now, task, new_keys>> PROVE NoKeyForgotten' /\ Timely'
  BY <1>1, <1>3 DEF NoKeyForgotten, Covers, Timely
<1>4. ASSUME NEW w \in Workers, NEW k \in Kinds, ScanStep(w, k) PROVE NoKeyForgotten' /\ Timely'
  <2>1. /\ task[w] = Null /\ task'[w].at = now /\ Alone(w) /\ UNCHANGED <<now, new_keys>>
    BY <1>1, <1>4, ScanResult DEF ScanStep
  <2>2. Timely'
    BY <1>1, <2>1, LoopAssumption DEF Timely, Alone
  <2>3. NoKeyForgotten'
    <3>1. CASE \A v \in Usages : new_keys[v] = {}
      BY <2>1, <3>1 DEF NoKeyForgotten
    <3>2. CASE \E v \in Usages : new_keys[v] # {}
      <4>1. PICK x \in Workers : Working(task[x]) \/ Covers(task[x])
        BY <1>1, <3>2 DEF NoKeyForgotten
      <4>2. task'[x] = task[x]
        BY <2>1, <4>1 DEF Working, Covers, Alone
      <4>3. QED
        BY <1>1, <2>1, <4>1, <4>2, CoverKept
    <3>3. QED
      BY <3>1, <3>2
  <2>4. QED
    BY <2>2, <2>3
<1>5. ASSUME NEW w \in Workers, CheckStep(w) \/ RedisFails(w), UNCHANGED now
      PROVE NoKeyForgotten' /\ Timely'
  <2>1. NoKeyForgotten'
    BY <1>1, <1>5, CoveredCheckStep
  <2>2. \A x \in Workers : task'[x] # Null => task[x] # Null /\ task'[x].at = task[x].at
    BY <1>1, <1>5, ScanKept
  <2>3. QED
    BY <1>1, <1>5, <2>1, <2>2 DEF Timely
<1>6. ASSUME NEW w \in Workers, WorkerStep(w) PROVE NoKeyForgotten' /\ Timely'
  <2>1. CheckStep(w)
    BY <1>6 DEF WorkerStep
  <2>2. UNCHANGED now
    BY <2>1 DEF CheckStep, call_redis_eval, _check_all_conn_key_violations,
       create_user_level_metric_raises,
       _check_violation_per_key_verb, add_violation, see_new_epoch, new_epoch, AfterAdding,
       new_violations, AfterRenewal, record, generate_violation_message, mark_sent,
       mark_raises, add_message
  <2>3. QED
    BY <1>5, <2>1, <2>2
<1>7. ASSUME NEW w \in Workers, RedisError(w) PROVE NoKeyForgotten' /\ Timely'
  BY <1>5, <1>7 DEF RedisError, RedisFails
<1>8. ASSUME ingest_policies \/ _send_policies_fails PROVE NoKeyForgotten' /\ Timely'
  <2>1. UNCHANGED <<now, task, new_keys>>
    BY <1>8 DEF ingest_policies, _send_policies_fails, send_policy_to_haproxy, policies
  <2>2. QED
    BY <1>3, <2>1
<1>9. ASSUME HaproxyRestarts \/ UNCHANGED vars PROVE NoKeyForgotten' /\ Timely'
  <2>1. UNCHANGED <<now, task, new_keys>>
    BY <1>9 DEF HaproxyRestarts, vars, genVars, policies
  <2>2. QED
    BY <1>3, <2>1
<1>10. ASSUME GeneratorRestarts PROVE NoKeyForgotten' /\ Timely'
  <2>1. (\A v \in Usages : new_keys'[v] = {}) /\ \A w \in Workers : task'[w] = Null
    BY <1>10 DEF GeneratorRestarts, RestartGenerator, NoKeys
  <2>2. QED
    BY <2>1 DEF NoKeyForgotten, Timely
<1>11. ASSUME NEW u \in Users, (\E n \in Counts \cup {Null} : CountChanges(u, n)) \/ VerbExceeded(u)
       PROVE  NoKeyForgotten' /\ Timely'
  BY <1>3, <1>11 DEF CountChanges, SetCount, VerbExceeded, Exceed, policies
<1>12. ASSUME Tick PROVE NoKeyForgotten' /\ Timely'
  <2>1. /\ UNCHANGED <<task, new_keys>> /\ now' = now + 1
        /\ \A w \in Workers : task[w] # Null => now + 1 - task[w].at < MaxLag
    BY <1>12 DEF Tick, policies
  <2>2. NoKeyForgotten'
    BY <1>1, <2>1 DEF NoKeyForgotten, Covers
  <2>3. ASSUME NEW w \in Workers, task[w] # Null PROVE now + 1 < task[w].at + MaxLag
    <3>1. task[w].at \in Nat
      BY <1>1, <2>3, MessagesKnown
    <3>2. QED
      BY <1>1, <2>1, <2>3, <3>1, LoopAssumption
  <2>4. QED
    BY <2>1, <2>2, <2>3 DEF Timely
<1>13. NoKeyForgotten' /\ Timely'
  BY <1>4, <1>6, <1>7, <1>8, <1>9, <1>10, <1>11, <1>12 DEF Next, EndOfRun
<1>14. QED
  BY <1>2, <1>13 DEF Base

\* A key that waits to be sent has a check that will send it (Policies.add_violation,
\* generate_violation_message, prepare_message), for any users, threads, limits and length of
\* a check, and whichever of them raise or start a second.
THEOREM KeysNotForgotten == Spec => []NoKeyForgotten
<1>1. Base => NoKeyForgotten
  BY DEF Base
<1>2. QED
  BY BaseInit, BaseStep, <1>1, PTL DEF Spec

-----------------------------------------------------------------------------
(* Verb limits. *)

\* The users over their verb limit in this second, and those that may be throttled in it.
Exceeders == {x \in Users : <<Second(now), x>> \in exceeded}
Culprits == Exceeders \cup carried

\* A message that throttles nobody but users of X, and somebody.
VerbMessage(m, X) == m.usage = "GET" /\ m.keys # {} /\ m.keys \subseteq X

\* A check of verb limits: the values it will read or has read, the user it reports and its
\* messages.
VerbCheck(c, X) ==
  /\ c.kind = "verb" /\ c.pc # "record"
  /\ \A x \in Users :
       IF c.pc = "eval" THEN c.val[x] = 0 /\ (<<Second(c.at), x>> \in exceeded => x \in X)
       ELSE c.val[x] \in {Null, 0, 1} /\ (c.val[x] = 1 => x \in X /\ <<Second(c.at), x>> \in exceeded)
  /\ c.pc \in {"add", "new_epoch", "renew", "insert"} => c.act = "GET" /\ c.val[c.cur] = 1
  /\ \A m \in Range(c.out) : VerbMessage(m, X) /\ m.at = c.at
  /\ IF c.pc \in {"mark", "put"} THEN \A x \in Users : c.val[x] = Null ELSE Range(c.out) = {}

\* Everything on the way from the counts to HAProxy is about violators of this second, or was
\* on its way when the second began.
VerbTasks == \A w \in Workers : task[w] # Null => VerbCheck(task[w], Culprits)
VerbKeys == \A v \in Usages : new_keys[v] \subseteq Culprits /\ (v # "GET" => new_keys[v] = {})
VerbQueue == \A m \in Range(queue) : VerbMessage(m, Culprits)
VerbThrottled == \A u \in Users : <<Second(now), u>> \in vio_map => u \in Culprits
VerbInv == VerbTasks /\ VerbKeys /\ VerbQueue /\ VerbThrottled

\* The culprits depend on the clock, the counts and the beginning of the second only.
LEMMA CulpritsKept ==
  ASSUME UNCHANGED <<now, exceeded, carried>>
  PROVE  Culprits' = Culprits
BY DEF Culprits, Exceeders

\* One check changes.
LEMMA VerbTaskReplaced ==
  ASSUME VerbTasks, NEW w \in Workers, Alone(w), UNCHANGED <<now, exceeded, carried>>,
         task'[w] = Null \/ VerbCheck(task'[w], Culprits)
  PROVE  VerbTasks'
<1>1. Culprits' = Culprits /\ exceeded' = exceeded
  BY CulpritsKept
<1>2. ASSUME NEW x \in Workers, task'[x] # Null PROVE VerbCheck(task[x], Culprits)'
  <2>1. VerbCheck(task'[x], Culprits)
    BY <1>2 DEF VerbTasks, Alone
  <2>2. QED
    BY <1>1, <2>1 DEF VerbCheck, VerbMessage
<1>3. QED
  BY <1>2 DEF VerbTasks

\* The steps of a check that leave keys and queue alone.
LEMMA VerbTaskStep ==
  ASSUME Base, VerbInv, UNCHANGED carried, NEW w \in Workers,
         \/ call_redis_eval(w) \/ RedisFails(w) \/ create_user_level_metric_raises(w)
         \/ \E u \in Users : \/ _check_all_conn_key_violations(w, u)
                             \/ _check_violation_per_key_verb(w, u)
         \/ see_new_epoch(w) \/ new_epoch(w) \/ generate_violation_message(w)
  PROVE  VerbTasks' /\ UNCHANGED <<now, exceeded, new_keys, queue>>
<1> USE GeneratorAssumption
<1>1. IndInv /\ VerbTasks
  BY DEF Base, VerbInv
<1>2. task[w] # Null => VerbCheck(task[w], Culprits)
  BY <1>1 DEF VerbTasks
<1>3. CASE call_redis_eval(w)
  <2>1. /\ task[w].pc = "eval" /\ Goes(w, "check") /\ Alone(w) /\ KeepsCur(w) /\ KeepsOut(w)
        /\ UNCHANGED <<now, exceeded, new_keys, queue>>
        /\ \A x \in Users : task'[w].val[x] =
              CASE task[w].val[x] = Null    -> Null
                [] task[w].kind = "verb"    -> IF <<Second(task[w].at), x>> \in exceeded THEN 1 ELSE 0
                [] OTHER                    -> IF redis[x] = Null THEN 0 ELSE redis[x]
    BY <1>1, <1>3, EvalResult
  <2>2. VerbCheck(task[w], Culprits)
    BY <1>2, <2>1 DEF Goes
  <2>3. ASSUME NEW x \in Users
        PROVE /\ task'[w].val[x] \in {Null, 0, 1}
              /\ task'[w].val[x] = 1 => x \in Culprits /\ <<Second(task[w].at), x>> \in exceeded
    <3>1. /\ task[w].val[x] = 0 /\ task[w].kind = "verb"
          /\ <<Second(task[w].at), x>> \in exceeded => x \in Culprits
      BY <2>1, <2>2 DEF VerbCheck
    <3>2. task'[w].val[x] = IF <<Second(task[w].at), x>> \in exceeded THEN 1 ELSE 0
      BY <2>1, <2>2, <3>1
    <3>3. QED
      BY <3>1, <3>2
  <2>4. VerbCheck(task'[w], Culprits)
    BY <2>1, <2>2, <2>3 DEF VerbCheck, Goes, KeepsOut
  <2>5. QED
    BY <1>1, <2>1, <2>4, VerbTaskReplaced
<1>4. CASE RedisFails(w)
  <2>1. /\ task[w].pc = "eval" /\ Goes(w, "check") /\ Alone(w) /\ KeepsCur(w) /\ KeepsOut(w)
        /\ UNCHANGED <<now, exceeded, new_keys, queue>>
        /\ \A x \in Users : task'[w].val[x] = Null
    BY <1>1, <1>4, FailResult
  <2>2. VerbCheck(task[w], Culprits)
    BY <1>2, <2>1 DEF Goes
  <2>3. Null # 1
    OBVIOUS
  <2>4. VerbCheck(task'[w], Culprits)
    BY <2>1, <2>2, <2>3 DEF VerbCheck, Goes, KeepsOut
  <2>5. QED
    BY <1>1, <2>1, <2>4, VerbTaskReplaced
<1>5. ASSUME \/ create_user_level_metric_raises(w)
             \/ \E u \in Users : _check_all_conn_key_violations(w, u)
      PROVE  FALSE
  BY <1>2, <1>5 DEF _check_all_conn_key_violations, create_user_level_metric_raises, At, VerbCheck
<1>6. ASSUME NEW u \in Users, _check_violation_per_key_verb(w, u)
      PROVE  VerbTasks' /\ UNCHANGED <<now, exceeded, new_keys, queue>>
  <2>1. /\ task[w] # Null /\ task[w].pc = "check"
        /\ UNCHANGED <<now, exceeded, new_keys, queue>>
        /\ \/ task[w].val[u] = 1 /\ Report(w, u, "GET")
           \/ Examined(w, u)
    BY <1>6 DEF _check_violation_per_key_verb, At, policies
  <2>2. VerbCheck(task[w], Culprits)
    BY <1>2, <2>1
  <2>3. CASE task[w].val[u] = 1 /\ Report(w, u, "GET")
    <3>1. /\ Goes(w, "add") /\ Alone(w) /\ KeepsVal(w) /\ KeepsOut(w)
          /\ task'[w].cur = u /\ task'[w].act = "GET"
      BY <1>1, <2>1, <2>3, ReportResult DEF Usages
    <3>2. task[w].val[u] = 1
      BY <2>3
    <3>3. VerbCheck(task'[w], Culprits)
      BY <2>1, <2>2, <3>1, <3>2 DEF VerbCheck, Goes, KeepsVal, KeepsOut
    <3>4. QED
      BY <1>1, <2>1, <3>1, <3>3, VerbTaskReplaced
  <2>4. CASE Examined(w, u)
    <3>1. /\ Goes(w, "check") /\ Alone(w) /\ KeepsCur(w) /\ KeepsOut(w)
          /\ \A x \in Users : task'[w].val[x] = IF x = u THEN Null ELSE task[w].val[x]
      BY <1>1, <2>1, <2>4, ExaminedResult
    <3>2. VerbCheck(task'[w], Culprits)
      BY <2>1, <2>2, <3>1 DEF VerbCheck, Goes, KeepsOut
    <3>3. QED
      BY <1>1, <2>1, <3>1, <3>2, VerbTaskReplaced
  <2>5. QED
    BY <2>1, <2>3, <2>4
<1>7. CASE see_new_epoch(w) \/ new_epoch(w)
  <2>1. PICK p \in {"new_epoch", "renew"} :
          /\ task[w].pc \in {"add", "new_epoch"}
          /\ Goes(w, p) /\ Alone(w) /\ KeepsVal(w) /\ KeepsCur(w) /\ KeepsOut(w)
          /\ UNCHANGED <<now, exceeded, new_keys, queue>>
    BY <1>1, <1>7, SeeResult, EpochResult
  <2>2. VerbCheck(task[w], Culprits)
    BY <1>2, <2>1 DEF Goes
  <2>3. VerbCheck(task'[w], Culprits)
    BY <2>1, <2>2 DEF VerbCheck, Goes, KeepsVal, KeepsCur, KeepsOut
  <2>4. QED
    BY <1>1, <2>1, <2>3, VerbTaskReplaced
<1>8. CASE generate_violation_message(w)
  <2>1. /\ task[w] # Null /\ task[w].pc = "check" /\ Alone(w)
        /\ \A x \in Users : task[w].val[x] = Null
        /\ UNCHANGED <<now, exceeded, new_keys, queue>>
        /\ \/ task'[w] = Null
           \/ /\ Goes(w, "mark") /\ KeepsVal(w) /\ KeepsCur(w)
              /\ Range(task'[w].out) = Messages(task[w].at)
    BY <1>1, <1>8, GenerateResult
  <2>2. VerbCheck(task[w], Culprits)
    BY <1>2, <2>1
  <2>3. ASSUME NEW m \in Messages(task[w].at)
        PROVE  VerbMessage(m, Culprits) /\ m.at = task[w].at
    <3>1. PICK v \in Usages :
            new_keys[v] # {} /\ m = [usage |-> v, keys |-> new_keys[v], at |-> task[w].at]
      BY <2>3 DEF Messages
    <3>2. v = "GET" /\ new_keys[v] \subseteq Culprits
      BY <3>1 DEF VerbInv, VerbKeys
    <3>3. QED
      BY <3>1, <3>2 DEF VerbMessage
  <2>4. task'[w] = Null \/ VerbCheck(task'[w], Culprits)
    BY <2>1, <2>2, <2>3 DEF VerbCheck, Goes, KeepsVal, KeepsCur
  <2>5. QED
    BY <1>1, <2>1, <2>4, VerbTaskReplaced
<1>9. QED
  BY <1>3, <1>4, <1>5, <1>6, <1>7, <1>8

\* Every step of a check.
LEMMA VerbCheckStep ==
  ASSUME Base, VerbInv, UNCHANGED carried, NEW w \in Workers, CheckStep(w) \/ RedisFails(w),
         UNCHANGED vio_map
  PROVE  VerbInv'
<1> USE GeneratorAssumption
<1>1. IndInv /\ VerbTasks /\ VerbKeys /\ VerbQueue /\ VerbThrottled
  BY DEF Base, VerbInv
<1>2. task[w] # Null => VerbCheck(task[w], Culprits)
  BY <1>1 DEF VerbTasks
<1>3. ASSUME VerbTasks', UNCHANGED <<now, exceeded, new_keys, queue>> PROVE VerbInv'
  BY <1>1, <1>3, CulpritsKept DEF VerbInv, VerbKeys, VerbQueue, VerbThrottled
<1>4. CASE \/ call_redis_eval(w) \/ RedisFails(w) \/ create_user_level_metric_raises(w)
           \/ \E u \in Users : \/ _check_all_conn_key_violations(w, u)
                               \/ _check_violation_per_key_verb(w, u)
           \/ see_new_epoch(w) \/ new_epoch(w) \/ generate_violation_message(w)
  BY <1>3, <1>4, VerbTaskStep
<1>5. CASE add_violation(w)
  <2>1. /\ task[w].pc \in {"add", "insert"}
        /\ Goes(w, IF task[w].kind = "conn" THEN "record" ELSE "check")
        /\ Alone(w) /\ KeepsCur(w) /\ KeepsOut(w)
        /\ \A x \in Users : task'[w].val[x] = IF x = task[w].cur THEN Null ELSE task[w].val[x]
        /\ \A v \in Usages : new_keys'[v] =
              IF v = task[w].act /\ task[w].cur \notin sent_keys[v]
              THEN new_keys[v] \cup {task[w].cur} ELSE new_keys[v]
        /\ UNCHANGED <<now, exceeded, queue>>
    BY <1>1, <1>5, AddResult
  <2>2. VerbCheck(task[w], Culprits)
    BY <1>2, <2>1 DEF Goes
  <2>3. Goes(w, "check")
    BY <2>1, <2>2 DEF VerbCheck
  <2>4. VerbCheck(task'[w], Culprits)
    BY <2>1, <2>2, <2>3 DEF VerbCheck, Goes, KeepsOut
  <2>5. VerbTasks'
    BY <1>1, <2>1, <2>4, VerbTaskReplaced
  <2>6. task[w].act = "GET" /\ task[w].cur \in Culprits
    <3>1. task[w].cur \in Users
      BY <1>1, <1>5, AddResult
    <3>2. QED
      BY <2>1, <2>2, <3>1 DEF VerbCheck
  <2>7. VerbKeys'
    <3>1. ASSUME NEW v \in Usages
          PROVE  new_keys'[v] \subseteq Culprits /\ (v # "GET" => new_keys'[v] = {})
      <4>1. new_keys[v] \subseteq Culprits /\ (v # "GET" => new_keys[v] = {})
        BY <1>1 DEF VerbKeys
      <4>2. new_keys'[v] = new_keys[v] \/ (v = "GET" /\ new_keys'[v] = new_keys[v] \cup {task[w].cur})
        BY <2>1, <2>6
      <4>3. QED
        BY <2>6, <4>1, <4>2
    <3>2. QED
      BY <2>1, <3>1, CulpritsKept DEF VerbKeys
  <2>8. QED
    BY <1>1, <2>1, <2>5, <2>7, CulpritsKept DEF VerbInv, VerbQueue, VerbThrottled
<1>6. CASE new_violations(w)
  <2>1. /\ task[w].pc = "renew"
        /\ Goes(w, "insert") /\ KeepsVal(w) /\ KeepsCur(w) /\ KeepsOut(w)
        /\ \A x \in Workers \ {w} :
             \/ task'[x] = task[x]
             \/ /\ task[x] # Null /\ task[x].pc = "mark" /\ Goes(x, "mark")
                /\ KeepsVal(x) /\ KeepsCur(x) /\ task'[x].out = task[x].out
        /\ \A v \in Usages : new_keys'[v] = {}
        /\ UNCHANGED <<now, exceeded, queue>>
    BY <1>1, <1>6, RenewResult
  <2>2. VerbTasks'
    <3>1. ASSUME NEW x \in Workers, task'[x] # Null PROVE VerbCheck(task'[x], Culprits)
      <4>1. CASE x = w
        BY <1>2, <2>1, <4>1 DEF VerbCheck, Goes, KeepsVal, KeepsCur, KeepsOut
      <4>2. CASE x # w /\ task'[x] = task[x]
        BY <1>1, <3>1, <4>2 DEF VerbTasks
      <4>3. CASE /\ task[x] # Null /\ task[x].pc = "mark" /\ Goes(x, "mark")
                 /\ KeepsVal(x) /\ KeepsCur(x) /\ task'[x].out = task[x].out
        BY <1>1, <4>3 DEF VerbTasks, VerbCheck, Goes, KeepsVal, KeepsCur
      <4>4. QED
        BY <2>1, <4>1, <4>2, <4>3
    <3>2. ASSUME NEW x \in Workers, task'[x] # Null PROVE VerbCheck(task[x], Culprits)'
      BY <2>1, <3>1, <3>2, CulpritsKept DEF VerbCheck, VerbMessage
    <3>3. QED
      BY <3>2 DEF VerbTasks
  <2>3. QED
    BY <1>1, <2>1, <2>2, CulpritsKept DEF VerbInv, VerbKeys, VerbQueue, VerbThrottled
<1>7. ASSUME record(w) PROVE FALSE
  BY <1>1, <1>2, <1>7, RecordResult DEF VerbCheck, Goes
<1>8. CASE mark_sent(w) \/ mark_raises(w)
  <2>1. /\ task[w] # Null /\ task[w].pc = "mark" /\ Alone(w)
        /\ \/ task'[w] = Null
           \/ Goes(w, "put") /\ KeepsVal(w) /\ KeepsCur(w) /\ KeepsOut(w)
        /\ \A v \in Usages : new_keys'[v] \subseteq new_keys[v]
        /\ UNCHANGED <<now, exceeded, queue>>
    BY <1>1, <1>8, MarkResult, RaiseResult DEF Goes
  <2>2. task'[w] = Null \/ VerbCheck(task'[w], Culprits)
    BY <1>2, <2>1 DEF VerbCheck, Goes, KeepsVal, KeepsCur, KeepsOut
  <2>3. VerbTasks'
    BY <1>1, <2>1, <2>2, VerbTaskReplaced
  <2>4. VerbKeys'
    BY <1>1, <2>1, CulpritsKept DEF VerbKeys
  <2>5. QED
    BY <1>1, <2>1, <2>3, <2>4, CulpritsKept DEF VerbInv, VerbQueue, VerbThrottled
<1>9. CASE add_message(w)
  <2>1. /\ task[w] # Null /\ task[w].pc = "put" /\ Alone(w)
        /\ \/ task'[w] = Null
           \/ /\ Goes(w, "put") /\ KeepsVal(w) /\ KeepsCur(w)
              /\ Range(task'[w].out) \subseteq Range(task[w].out)
        /\ Range(queue') \subseteq Range(queue) \cup Range(task[w].out)
        /\ UNCHANGED <<now, exceeded, new_keys>>
    BY <1>1, <1>9, PutResult
  <2>2. VerbCheck(task[w], Culprits)
    BY <1>2, <2>1
  <2>3. task'[w] = Null \/ VerbCheck(task'[w], Culprits)
    BY <2>1, <2>2 DEF VerbCheck, Goes, KeepsVal, KeepsCur
  <2>4. VerbTasks'
    BY <1>1, <2>1, <2>3, VerbTaskReplaced
  <2>5. \A m \in Range(queue') : VerbMessage(m, Culprits)
    BY <1>1, <2>1, <2>2 DEF VerbQueue, VerbCheck
  <2>6. VerbQueue'
    BY <2>1, <2>5, CulpritsKept DEF VerbQueue
  <2>7. QED
    BY <1>1, <2>1, <2>4, <2>6, CulpritsKept DEF VerbInv, VerbKeys, VerbThrottled
<1>10. QED
  BY <1>4, <1>5, <1>6, <1>7, <1>8, <1>9 DEF CheckStep

\* Messages and checks stay right when there are more culprits.
LEMMA VerbGrows ==
  ASSUME NEW X, NEW Y, X \subseteq Y
  PROVE  /\ \A m : VerbMessage(m, X) => VerbMessage(m, Y)
         /\ \A c : VerbCheck(c, X) => VerbCheck(c, Y)
<1>1. \A m : VerbMessage(m, X) => VerbMessage(m, Y)
  BY DEF VerbMessage
<1>2. QED
  BY <1>1 DEF VerbCheck

\* The invariant at start-up.
LEMMA VerbInit == Init => VerbInv
<1> SUFFICES ASSUME Init PROVE VerbInv
  OBVIOUS
<1>1. Range(queue) = {}
  BY Ranges DEF Init, GenInit
<1>2. QED
  BY <1>1 DEF Init, GenInit, VerbInv, VerbTasks, VerbKeys, VerbQueue, VerbThrottled, NoKeys

\* What a check has found is among what is on the way when a second begins.
LEMMA VerbFound ==
  ASSUME IndInv, VerbTasks, NEW w \in Workers, task[w] # Null
  PROVE  VerbCheck(task[w], OnTheWay)
<1> DEFINE c == task[w]
<1>1. VerbCheck(c, Culprits)
  BY DEF VerbTasks
<1>2. Found(c) \subseteq OnTheWay
  BY DEF OnTheWay
<1> HIDE DEF c
<1>3. ASSUME NEW x \in Users, c.pc = "eval", <<Second(c.at), x>> \in exceeded PROVE x \in OnTheWay
  BY <1>2, <1>3 DEF Found
<1>4. ASSUME NEW x \in Users, c.pc # "eval", c.val[x] = 1 PROVE x \in OnTheWay
  BY <1>2, <1>4 DEF Found
<1>5. ASSUME NEW m \in Range(c.out) PROVE VerbMessage(m, OnTheWay) /\ m.at = c.at
  <2>1. VerbMessage(m, Culprits) /\ m.at = c.at
    BY <1>1 DEF VerbCheck
  <2>2. CASE c.pc = "eval"
    BY <1>1, <2>2 DEF VerbCheck
  <2>3. CASE c.pc # "eval"
    <3>1. m.keys \subseteq Found(c)
      BY <2>3 DEF Found
    <3>2. QED
      BY <1>2, <2>1, <3>1 DEF VerbMessage
  <2>4. QED
    BY <2>2, <2>3
<1>6. QED
  BY <1>1, <1>3, <1>4, <1>5 DEF VerbCheck, c

\* Every step of the loop.
LEMMA VerbStep ==
  ASSUME Kinds \subseteq {"verb"}, Base, VerbInv, [Next]_vars
  PROVE  VerbInv'
<1> USE GeneratorAssumption
<1>1. IndInv /\ VerbTasks /\ VerbKeys /\ VerbQueue /\ VerbThrottled /\ now \in Nat
  BY DEF Base, VerbInv, IndInv, CountsSound
<1>2. ASSUME UNCHANGED <<now, exceeded, carried, task, new_keys, queue>>, vio_map' \subseteq vio_map
      PROVE  VerbInv'
  <2>1. Culprits' = Culprits
    BY <1>2, CulpritsKept
  <2>2. VerbTasks'
    BY <1>1, <1>2, <2>1 DEF VerbTasks, VerbCheck
  <2>3. QED
    BY <1>1, <1>2, <2>1, <2>2 DEF VerbInv, VerbKeys, VerbQueue, VerbThrottled
<1>2a. ASSUME UNCHANGED <<now, exceeded, carried, task, new_keys>>, queue' = <<>>, VerbThrottled'
      PROVE  VerbInv'
  <2>1. Culprits' = Culprits /\ Range(queue') = {}
    BY <1>2a, CulpritsKept, Ranges
  <2>2. VerbTasks'
    BY <1>1, <1>2a, <2>1 DEF VerbTasks, VerbCheck
  <2>3. QED
    BY <1>1, <1>2a, <2>1, <2>2 DEF VerbInv, VerbKeys, VerbQueue
<1>3. ASSUME NEW w \in Workers, NEW k \in Kinds, ScanStep(w, k) PROVE VerbInv'
  <2>1. /\ task'[w] # Null /\ Alone(w) /\ UNCHANGED vio_map
        /\ task'[w].pc = "eval" /\ task'[w].kind = "verb" /\ Range(task'[w].out) = {}
        /\ \A x \in Users : task'[w].val[x] = 0
        /\ task'[w].at = now
        /\ UNCHANGED <<now, exceeded, new_keys, queue>>
        /\ UNCHANGED carried
    <3>1. k = "verb" /\ check_loop(w, k) /\ UNCHANGED <<carried, vio_map>>
      BY <1>3 DEF ScanStep, verbHistory
    <3>2. QED
      BY <1>1, <3>1, ScanResult
  <2>2. VerbCheck(task'[w], Culprits)
    BY <2>1 DEF VerbCheck, Culprits, Exceeders
  <2>3. VerbTasks'
    BY <1>1, <2>1, <2>2, VerbTaskReplaced
  <2>4. QED
    BY <1>1, <2>1, <2>3, CulpritsKept DEF VerbInv, VerbKeys, VerbQueue, VerbThrottled
<1>4. ASSUME NEW w \in Workers, WorkerStep(w) \/ RedisError(w) PROVE VerbInv'
  BY <1>4, VerbCheckStep DEF WorkerStep, RedisError, Failure, history, verbHistory
<1>5. ASSUME ingest_policies PROVE VerbInv'
  <2>1. /\ queue # <<>>
        /\ UNCHANGED <<now, exceeded, carried, task, new_keys>> /\ queue' = <<>>
    BY <1>5 DEF ingest_policies, send_policy_to_haproxy, policies, history, verbHistory
  <2>2. PICK line \in Concatenated(queue) : update_violates(line, Second(now))
    BY <1>5 DEF ingest_policies
  <2>3. line.usage = "GET" /\ line.at \in Nat /\ line.at <= now /\ line.keys \subseteq Culprits
    <3>1. \A m \in Range(queue) : m.usage = "GET" /\ m.keys \subseteq Culprits
      BY <1>1 DEF VerbQueue, VerbMessage
    <3>2. \A m \in Range(queue) : m.at \in Nat /\ m.at <= now
      <4>1. ASSUME NEW m \in Range(queue) PROVE m.at \in Nat /\ m.at <= now
        <5>1. m \in Message
          BY <1>1, MessagesKnown
        <5>2. PICK i \in DOMAIN queue : m = queue[i]
          BY DEF Range
        <5>3. i \in 1 .. Len(queue)
          BY <1>1 DEF IndInv, QueueSound
        <5>4. QED
          BY <1>1, <5>1, <5>2, <5>3 DEF IndInv, QueueSound, SoundMessage, Message
      <4>2. QED
        BY <4>1
    <3>3. QED
      BY <1>1, <2>1, <3>1, <3>2, LineResult
  <2>4. Second(line.at) <= Second(now)
    BY <1>1, <2>3, SecondMonotone
  <2>5. Second(line.at) \in Nat /\ Second(now) \in Nat
    BY <1>1, <2>3, SecondMonotone
  <2>6. \/ UNCHANGED vio_map
        \/ /\ Second(line.at) = Second(now)
           /\ vio_map' \subseteq vio_map \cup {<<Second(now), x>> : x \in line.keys}
    <3>1. update_violates_map(line, Second(now))
      BY <2>2, <2>3 DEF update_violates
    <3>2. QED
      BY <2>4, <2>5, <3>1 DEF update_violates_map
  <2>7. VerbThrottled'
    BY <1>1, <2>1, <2>3, <2>6, CulpritsKept DEF VerbThrottled
  <2>8. QED
    BY <1>2a, <2>1, <2>7
<1>6. ASSUME _send_policies_fails PROVE VerbInv'
  <2>1. UNCHANGED <<now, exceeded, carried, task, new_keys, vio_map>> /\ queue' = <<>>
    BY <1>6 DEF _send_policies_fails, send_policy_to_haproxy, policies, Failure
  <2>2. QED
    BY <1>1, <1>2a, <2>1, CulpritsKept DEF VerbThrottled
<1>7. ASSUME GeneratorRestarts PROVE VerbInv'
  <2>1. /\ \A w \in Workers : task'[w] = Null
        /\ \A v \in Usages : new_keys'[v] = {}
        /\ queue' = <<>> /\ UNCHANGED <<now, exceeded, carried, vio_map>>
    BY <1>7 DEF GeneratorRestarts, RestartGenerator, NoKeys, Failure
  <2>2. VerbQueue'
    BY <2>1, Ranges DEF VerbQueue
  <2>3. QED
    BY <1>1, <2>1, <2>2, CulpritsKept DEF VerbInv, VerbTasks, VerbKeys, VerbThrottled
<1>8. ASSUME HaproxyRestarts \/ UNCHANGED vars PROVE VerbInv'
  <2>1. UNCHANGED <<now, exceeded, carried, task, new_keys, queue>> /\ vio_map' \subseteq vio_map
    BY <1>8 DEF HaproxyRestarts, Failure, vars, genVars, policies, history, verbHistory
  <2>2. QED
    BY <1>2, <2>1
<1>9. ASSUME NEW u \in Users, NEW n \in Counts \cup {Null}, CountChanges(u, n) PROVE VerbInv'
  BY <1>2, <1>9 DEF CountChanges, SetCount, policies, verbHistory
<1>10. ASSUME NEW u \in Users, VerbExceeded(u) PROVE VerbInv'
  <2>1. /\ exceeded' = exceeded \cup {<<Second(now), u>>}
        /\ UNCHANGED <<now, carried, task, new_keys, queue, vio_map>>
    BY <1>10 DEF VerbExceeded, Exceed, policies
  <2>2. Culprits \subseteq Culprits' /\ u \in Culprits'
    BY <2>1 DEF Culprits, Exceeders
  <2>3. VerbQueue'
    BY <1>1, <2>1, <2>2, VerbGrows DEF VerbQueue
  <2>4. ASSUME NEW w \in Workers, task[w] # Null PROVE VerbCheck(task[w], Culprits)'
    <3>1. VerbCheck(task[w], Culprits')
      BY <1>1, <2>2, <2>4, VerbGrows DEF VerbTasks
    <3>2. \A x \in Users : <<Second(task[w].at), x>> \in exceeded' =>
             <<Second(task[w].at), x>> \in exceeded \/ x = u
      BY <2>1
    <3>3. QED
      BY <2>1, <2>2, <3>1, <3>2 DEF VerbCheck, VerbMessage
  <2>5. VerbTasks'
    BY <2>1, <2>4 DEF VerbTasks
  <2>6. QED
    BY <1>1, <2>1, <2>2, <2>3, <2>5 DEF VerbInv, VerbKeys, VerbThrottled
<1>11. ASSUME Tick PROVE VerbInv'
  <2>1. /\ UNCHANGED <<task, new_keys, exceeded, vio_map>> /\ queue' = <<>> /\ now' = now + 1
    BY <1>11 DEF Tick, policies
  <2>2. VerbQueue'
    BY <2>1, Ranges DEF VerbQueue
  <2>3. CASE Second(now') = Second(now) /\ UNCHANGED carried
    <3>1. Culprits' = Culprits
      BY <2>1, <2>3 DEF Culprits, Exceeders
    <3>2. VerbTasks'
      BY <1>1, <2>1, <3>1 DEF VerbTasks, VerbCheck
    <3>3. QED
      BY <1>1, <2>1, <2>2, <2>3, <3>1, <3>2 DEF VerbInv, VerbKeys, VerbThrottled
  <2>4. CASE Second(now') # Second(now) /\ carried' = OnTheWay
    <3>1. OnTheWay \subseteq Culprits'
      BY <2>4 DEF Culprits
    <3>2. VerbTasks'
      <4>1. ASSUME NEW w \in Workers, task[w] # Null PROVE VerbCheck(task[w], Culprits)'
        <5>1. VerbCheck(task[w], Culprits')
          BY <1>1, <3>1, <4>1, VerbFound, VerbGrows
        <5>2. QED
          BY <2>1, <5>1 DEF VerbCheck, VerbMessage
      <4>2. QED
        BY <2>1, <4>1 DEF VerbTasks
    <3>3. VerbKeys'
      <4>1. new_keys["GET"] \subseteq OnTheWay
        BY DEF OnTheWay
      <4>2. QED
        BY <1>1, <2>1, <3>1, <4>1 DEF VerbKeys
    <3>4. VerbThrottled'
      <4>1. Second(now) <= Second(now') /\ Second(now) \in Nat /\ Second(now') \in Nat
        BY <1>1, <2>1, SecondMonotone
      <4>2. \A u \in Users : <<Second(now'), u>> \notin vio_map
        BY <1>1, <2>4, <4>1 DEF IndInv, HaproxySound
      <4>3. QED
        BY <2>1, <4>2 DEF VerbThrottled
    <3>5. QED
      BY <2>2, <3>2, <3>3, <3>4 DEF VerbInv
  <2>5. QED
    BY <1>11, <2>3, <2>4 DEF Tick, verbHistory
<1>12. QED
  BY <1>3, <1>4, <1>5, <1>6, <1>7, <1>8, <1>9, <1>10, <1>11 DEF Next, EndOfRun

\* A user is throttled in a second only for what it did in that second, or because it was on
\* its way to be throttled when the second began (update_violates_map, Policies.add_violation):
\* for any users, threads, restarts and losses and any length of a check, when only verb limits
\* are checked.
THEOREM ThrottledOnly ==
  ASSUME Kinds \subseteq {"verb"}
  PROVE  Spec => []ThrottledOnlyIfExceeded
<1>1. Init => Base /\ VerbInv
  BY BaseInit, VerbInit
<1>2. Base /\ VerbInv /\ [Next]_vars => (Base /\ VerbInv)'
  BY BaseStep, VerbStep
<1>3. VerbInv => ThrottledOnlyIfExceeded
  BY DEF VerbInv, VerbThrottled, Culprits, Exceeders, ThrottledOnlyIfExceeded
<1>4. QED
  BY <1>1, <1>2, <1>3, PTL DEF Spec

-----------------------------------------------------------------------------
(* The way of a reported key to HAProxy. *)

\* A check that has decided to report a user.
Reporting(c) == c.pc \in {"add", "new_epoch", "renew", "insert", "record"}

\* User u is reported as v, and nobody as anything else.
OnlyReports(v, u) ==
  /\ new_keys[v] \subseteq {u} /\ \A x \in Usages \ {v} : new_keys[x] = {}
  /\ \A w \in Workers : task[w] # Null =>
       /\ Reporting(task[w]) => task[w].act = v /\ task[w].cur = u
       /\ \A m \in Range(task[w].out) : m.usage = v /\ m.keys = {u}

\* A message is on its way to HAProxy, at the latest with a check that began a check's length
\* after t.
Sending(t) ==
  \/ queue # <<>>
  \/ \E w \in Workers : /\ task[w] # Null /\ task[w].pc \in {"mark", "put"}
                        /\ task[w].at < t + MaxLag

\* A check that will see to it that the key of u is sent.
Keeps(c, v, u) ==
  \/ c.pc = "renew"
  \/ c.pc = "insert" /\ u \notin sent_keys[v]
  \/ Working(c) /\ u \in new_keys[v]

\* A message with the key of u is on its way, or a check that began by t will make one.
Chain(v, u, t) ==
  Sending(t) \/ \E w \in Workers : task[w] # Null /\ task[w].at <= t /\ Keeps(task[w], v, u)

\* The checks that are going to replace the violations began by t.
Wipers(t) ==
  \A w \in Workers : task[w] # Null /\ task[w].pc \in {"new_epoch", "renew"} => task[w].at <= t

\* The other checks keep everything but their staleness.
OthersKeep(w) ==
  \A x \in Workers \ {w} :
    /\ task'[x] # Null <=> task[x] # Null
    /\ task[x] # Null => /\ task'[x].pc = task[x].pc /\ task'[x].val = task[x].val
                         /\ task'[x].act = task[x].act /\ task'[x].cur = task[x].cur
                         /\ task'[x].out = task[x].out /\ task'[x].at = task[x].at

\* No other check changes, or new_violations makes it stale.
LEMMA OthersKept ==
  ASSUME IndInv, NEW w \in Workers, Alone(w) \/ new_violations(w)
  PROVE  OthersKeep(w)
<1>1. CASE Alone(w)
  BY <1>1 DEF Alone, OthersKeep
<1>2. CASE new_violations(w)
  <2>1. \A x \in Workers \ {w} :
              \/ task'[x] = task[x]
              \/ /\ task[x] # Null /\ task[x].pc = "mark" /\ Goes(x, "mark")
                 /\ KeepsVal(x) /\ KeepsCur(x) /\ task'[x].out = task[x].out
    BY <1>2, RenewResult
  <2>2. QED
    BY <2>1 DEF OthersKeep, Goes, KeepsVal, KeepsCur
<1>3. QED
  BY <1>1, <1>2

\* A step of a check leaves the other ones alone, but for their staleness.
LEMMA OthersOfStep ==
  ASSUME IndInv, NEW w \in Workers, CheckStep(w) \/ RedisFails(w)
  PROVE  OthersKeep(w) /\ (task'[w] # Null => task[w] # Null)
<1>1. ASSUME NEW x \in Users,
             _check_all_conn_key_violations(w, x) \/ _check_violation_per_key_verb(w, x)
      PROVE  Alone(w)
  <2>1. task[w] # Null /\ (Examined(w, x) \/ \E v \in Usages : Report(w, x, v))
    BY <1>1 DEF _check_all_conn_key_violations, _check_violation_per_key_verb, At, Usages
  <2>2. QED
    BY <2>1, ReportResult, ExaminedResult
<1>2. Alone(w) \/ new_violations(w)
  BY <1>1, EvalResult, FailResult, UnparsableResult, AddResult, SeeResult, EpochResult,
     RecordResult, GenerateResult, MarkResult, RaiseResult, PutResult DEF CheckStep
<1>3. QED
  BY <1>2, OthersKept, ScanKept

\* The clock, the counts and the exceeded limits are not the check's to change.
LEMMA CheckKeeps ==
  ASSUME NEW w \in Workers, CheckStep(w) \/ RedisFails(w)
  PROVE  UNCHANGED <<now, redis, exceeded>>
BY DEF CheckStep, call_redis_eval, RedisFails, _check_all_conn_key_violations,
   create_user_level_metric_raises, _check_violation_per_key_verb, add_violation,
   see_new_epoch, new_epoch, AfterAdding, new_violations, AfterRenewal, record,
   generate_violation_message, mark_sent, mark_raises, add_message

\* When only one user is reported, no key joins while a check marks.
LEMMA NoRaise ==
  ASSUME IndInv, NEW v \in Usages, NEW u \in Users, OnlyReports(v, u),
         NEW w \in Workers, mark_raises(w)
  PROVE  FALSE
<1>1. PICK m \in Range(task[w].out) : task[w] # Null /\ ~(new_keys[m.usage] \subseteq m.keys)
  BY RaiseResult
<1>2. m.keys = {u} /\ m.usage = v
  BY <1>1 DEF OnlyReports
<1>3. QED
  BY <1>1, <1>2 DEF OnlyReports

\* The key goes on from check to check and from message to queue: threads that mark it sent
\* have it in a message, and threads that replace the violations insert it again.
LEMMA ChainCheckStep ==
  ASSUME Base, NEW v \in Usages, NEW u \in Users, NEW t \in Nat, OnlyReports(v, u),
         Chain(v, u, t), NEW w \in Workers, CheckStep(w), new_violations(w) => task[w].at <= t
  PROVE  Chain(v, u, t)'
<1> USE GeneratorAssumption, LoopAssumption
<1>1. /\ IndInv /\ now \in Nat /\ UNCHANGED now /\ OthersKeep(w)
      /\ \A x \in Workers : task[x] # Null =>
           task[x].at \in Nat /\ task[x].at <= now /\ now < task[x].at + MaxLag
  BY CheckKeeps, OthersOfStep, MessagesKnown DEF Base, IndInv, CountsSound, Timely
<1>2. ASSUME queue' # <<>> PROVE Chain(v, u, t)'
  BY <1>2 DEF Chain, Sending
<1>3. ASSUME NEW p \in {"mark", "put"}, Goes(w, p), task[w].at < t + MaxLag PROVE Chain(v, u, t)'
  BY <1>3 DEF Chain, Sending, Goes
<1>4. ASSUME Sending(t), UNCHANGED queue, task[w] # Null => task[w].pc \notin {"mark", "put"}
      PROVE  Chain(v, u, t)'
  BY <1>1, <1>4 DEF Chain, Sending, OthersKeep
<1>5. ASSUME NEW p, Goes(w, p), task[w].at <= t, Keeps(task[w], v, u)' PROVE Chain(v, u, t)'
  BY <1>5 DEF Chain, Goes
<1>6. ASSUME NEW x \in Workers \ {w}, task[x] # Null, task[x].at <= t, Keeps(task[x], v, u),
             sent_keys'[v] = sent_keys[v], new_keys[v] \subseteq new_keys'[v]
      PROVE  Chain(v, u, t)'
  <2>1. task'[x] # Null /\ task'[x].pc = task[x].pc /\ task'[x].at = task[x].at
    BY <1>1, <1>6 DEF OthersKeep
  <2>2. Keeps(task[x], v, u)'
    BY <1>6, <2>1 DEF Keeps, Working
  <2>3. QED
    BY <1>6, <2>1, <2>2 DEF Chain
\* A step that moves on from one of the points at which keys are waited for.
<1>7. ASSUME task[w] # Null, task[w].pc \notin {"mark", "put"}, UNCHANGED queue,
             sent_keys'[v] = sent_keys[v], new_keys[v] \subseteq new_keys'[v],
             task[w].at <= t /\ Keeps(task[w], v, u) => Chain(v, u, t)'
      PROVE  Chain(v, u, t)'
  <2>1. CASE Sending(t)
    BY <1>4, <1>7, <2>1
  <2>2. ASSUME NEW x \in Workers, task[x] # Null, task[x].at <= t, Keeps(task[x], v, u)
        PROVE  Chain(v, u, t)'
    BY <1>6, <1>7, <2>2
  <2>3. QED
    BY <2>1, <2>2 DEF Chain
<1>8. CASE call_redis_eval(w)
  <2>1. /\ task[w] # Null /\ task[w].pc = "eval" /\ UNCHANGED <<new_keys, sent_keys, queue>>
    BY <1>1, <1>8, EvalResult DEF Goes
  <2>2. ~Keeps(task[w], v, u)
    BY <2>1 DEF Keeps, Working
  <2>3. QED
    BY <1>7, <2>1, <2>2
<1>9. ASSUME NEW p \in {"check", "add", "new_epoch", "renew", "record"}, Goes(w, p),
             task[w].pc \in {"check", "add", "new_epoch", "record"},
             UNCHANGED <<new_keys, sent_keys, queue>>
      PROVE  Chain(v, u, t)'
  <2>1. task[w].at <= t /\ Keeps(task[w], v, u) => Chain(v, u, t)'
    <3> SUFFICES ASSUME task[w].at <= t, Keeps(task[w], v, u) PROVE Chain(v, u, t)'
      OBVIOUS
    <3>1. u \in new_keys'[v] /\ Working(task'[w])
      BY <1>9 DEF Keeps, Working, Goes
    <3>2. QED
      BY <1>5, <1>9, <3>1 DEF Keeps
  <2>2. task[w] # Null
    BY <1>9 DEF Goes
  <2>3. QED
    BY <1>7, <1>9, <2>1, <2>2
<1>10. CASE create_user_level_metric_raises(w)
  BY <1>1, <1>9, <1>10, UnparsableResult
<1>11. ASSUME NEW x \in Users,
              _check_all_conn_key_violations(w, x) \/ _check_violation_per_key_verb(w, x)
       PROVE  Chain(v, u, t)'
  <2>1. /\ task[w] # Null /\ task[w].pc = "check" /\ UNCHANGED <<new_keys, sent_keys, queue>>
        /\ Examined(w, x) \/ \E y \in Usages : Report(w, x, y)
    BY <1>11 DEF _check_all_conn_key_violations, _check_violation_per_key_verb, At, policies,
       Usages
  <2>2. Goes(w, "add") \/ Goes(w, "check")
    BY <1>1, <2>1, ReportResult, ExaminedResult
  <2>3. QED
    BY <1>9, <2>1, <2>2
<1>12. CASE add_violation(w)
  <2>1. PICK p \in {"record", "check"} :
        /\ task[w].pc \in {"add", "insert"} /\ Goes(w, p)
        /\ new_keys'[v] = IF v = task[w].act /\ task[w].cur \notin sent_keys[v]
                          THEN new_keys[v] \cup {task[w].cur} ELSE new_keys[v]
        /\ UNCHANGED <<sent_keys, queue>>
    BY <1>1, <1>12, AddResult
  <2>2. task[w] # Null /\ task[w].act = v /\ task[w].cur = u
    BY <2>1 DEF Goes, OnlyReports, Reporting
  <2>3. new_keys[v] \subseteq new_keys'[v] /\ (u \notin sent_keys[v] => u \in new_keys'[v])
    BY <2>1, <2>2
  <2>4. task[w].at <= t /\ Keeps(task[w], v, u) => Chain(v, u, t)'
    <3> SUFFICES ASSUME task[w].at <= t, Keeps(task[w], v, u) PROVE Chain(v, u, t)'
      OBVIOUS
    <3>1. u \in new_keys'[v] /\ Working(task'[w])
      BY <2>1, <2>3 DEF Keeps, Working, Goes
    <3>2. QED
      BY <1>5, <2>1, <3>1 DEF Keeps
  <2>5. QED
    BY <1>7, <2>1, <2>2, <2>3, <2>4
<1>13. CASE see_new_epoch(w)
  BY <1>1, <1>9, <1>13, SeeResult
<1>14. CASE new_epoch(w)
  BY <1>1, <1>9, <1>14, EpochResult
<1>15. CASE new_violations(w)
  <2>1. /\ task[w].pc = "renew" /\ Goes(w, "insert") /\ sent_keys'[v] = {}
    BY <1>1, <1>15, RenewResult
  <2>2. task[w].at <= t /\ Keeps(task[w], v, u)'
    BY <1>15, <2>1 DEF Keeps, Goes
  <2>3. QED
    BY <1>5, <2>1, <2>2
<1>16. CASE record(w)
  BY <1>1, <1>9, <1>16, RecordResult
<1>17. CASE generate_violation_message(w)
  <2>1. /\ task[w] # Null /\ task[w].pc = "check" /\ UNCHANGED <<new_keys, sent_keys, queue>>
        /\ (task'[w] = Null /\ new_keys[v] = {}) \/ Goes(w, "mark")
    BY <1>1, <1>17, GenerateResult
  <2>2. task[w].at <= t /\ Keeps(task[w], v, u) => Chain(v, u, t)'
    <3> SUFFICES ASSUME task[w].at <= t, Keeps(task[w], v, u) PROVE Chain(v, u, t)'
      OBVIOUS
    <3>1. u \in new_keys[v]
      BY <2>1 DEF Keeps
    <3>2. Goes(w, "mark") /\ task[w].at < t + MaxLag
      BY <1>1, <2>1, <3>1
    <3>3. QED
      BY <1>3, <3>2
  <2>3. QED
    BY <1>7, <2>1, <2>2
<1>18. CASE mark_sent(w)
  <2>1. Goes(w, "put") /\ task[w] # Null /\ task[w].pc = "mark" /\ UNCHANGED queue
    BY <1>1, <1>18, MarkResult DEF Goes
  <2>2. ASSUME NEW x \in Workers, task[x] # Null, task[x].at <= t PROVE task[w].at < t + MaxLag
    BY <1>1, <2>1, <2>2
  <2>3. CASE task[w].at < t + MaxLag
    BY <1>3, <2>1, <2>3
  <2>4. CASE ~(task[w].at < t + MaxLag)
    <3>1. Sending(t)
      BY <2>2, <2>4 DEF Chain
    <3>2. CASE queue # <<>>
      BY <1>2, <2>1, <3>2
    <3>3. ASSUME NEW x \in Workers, task[x] # Null, task[x].pc \in {"mark", "put"},
                 task[x].at < t + MaxLag
          PROVE  Chain(v, u, t)'
      BY <1>1, <2>4, <3>3 DEF Chain, Sending, OthersKeep
    <3>4. QED
      BY <3>1, <3>2, <3>3 DEF Sending
  <2>5. QED
    BY <2>3, <2>4
<1>19. ASSUME mark_raises(w) PROVE FALSE
  BY <1>1, <1>19, NoRaise
<1>20. CASE add_message(w)
  BY <1>1, <1>2, <1>20, PutResult
<1>21. QED
  BY <1>8, <1>10, <1>11, <1>12, <1>13, <1>14, <1>15, <1>16, <1>17, <1>18, <1>19, <1>20
  DEF CheckStep

\* The clock does not go on past the time by which the message is delivered.
LEMMA ChainTick ==
  ASSUME Base, NEW v, NEW u, NEW t \in Nat, Chain(v, u, t), Tick
  PROVE  now < t + 2 * MaxLag - 2
<1> USE LoopAssumption
<1>1. /\ now \in Nat /\ queue = <<>>
      /\ \A w \in Workers : task[w] # Null => task[w].at \in Nat /\ now + 1 - task[w].at < MaxLag
  BY MessagesKnown DEF Base, IndInv, CountsSound, Tick
<1>2. ASSUME NEW w \in Workers, task[w] # Null, task[w].at < t + MaxLag
      PROVE  now < t + 2 * MaxLag - 2
  BY <1>1, <1>2
<1>3. QED
  BY <1>1, <1>2 DEF Chain, Sending

\* A scan, and the clock, leave the key on its way; so do steps that change nothing of it.
LEMMA ChainKept ==
  ASSUME NEW v, NEW u, NEW t, Chain(v, u, t),
         \A w \in Workers : task[w] # Null => task'[w] = task[w],
         UNCHANGED <<queue, new_keys, sent_keys>>
  PROVE  Chain(v, u, t)'
<1>1. Sending(t) => Sending(t)'
  BY DEF Sending
<1>2. \A c : Keeps(c, v, u) => Keeps(c, v, u)'
  BY DEF Keeps
<1>3. QED
  BY <1>1, <1>2 DEF Chain

-----------------------------------------------------------------------------
(* A user alone over its verb limit. *)

\* In the first second, the keys sent are of its violators; any other epoch is one in which
\* somebody exceeded a limit. Quiet users are over their limit.
SentSound ==
  /\ quiet \subseteq Exceeders
  /\ Second(now) = 0 => carried = {} /\ sent_keys["GET"] \subseteq Exceeders
  /\ epoch # 0 => \E x \in Users : <<epoch, x>> \in exceeded

\* Every check, key and message is about u in this second.
LoneOnly(u) ==
  /\ \A w \in Workers : task[w] # Null =>
       /\ Second(task[w].at) = Second(now)
       /\ \A m \in Range(task[w].out) : m.keys \subseteq {u}
       /\ task[w].pc \in {"renew", "insert"} => epoch = Second(now)
  /\ new_keys["GET"] \subseteq {u}
  /\ \A m \in Range(queue) : m.keys \subseteq {u} /\ Second(m.at) = Second(now)

\* The user is throttled, or on the way to it by t.
LoneWay(u, t) == <<Second(now), u>> \in vio_map \/ Chain("GET", u, t)
LoneDone(u, t) == epoch = Second(now) /\ LoneWay(u, t)

\* No check has reported the user yet.
LoneFresh(u) == Second(now) = 0 /\ u \notin sent_keys["GET"] /\ u \notin new_keys["GET"]

\* A check that began after s found the user over its limit and is done with it only when it
\* is reported.
LoneTask(c, u, s) ==
  c.at > s /\ c.pc # "eval" => c.val[u] = 1 \/ (c.val[u] = Null /\ LoneDone(u, s + MaxLag))

\* The scan of the tick after s has reported the user, or will.
LoneScanned(u, s) ==
  now > s + 1 \/ (now = s + 1 /\ scanned["verb"] > 0) =>
    \/ LoneDone(u, s + MaxLag)
    \/ \E w \in Workers : task[w] # Null /\ task[w].at = s + 1 /\ task[w].val[u] # Null

\* For a user that is alone over its limit since s.
LoneParts(u, s) ==
  /\ LoneOnly(u) /\ Wipers(s + MaxLag)
  /\ epoch = Second(now) => LoneWay(u, s + MaxLag) \/ LoneFresh(u)
  /\ \A w \in Workers : task[w] # Null => LoneTask(task[w], u, s)
  /\ LoneScanned(u, s)
  /\ now > s + 3 * MaxLag - 2 => <<Second(now), u>> \in vio_map

\* For every user that got over its limit with nothing older under way.
LoneUser(u) ==
  verbSince[u] # Null /\ u \in quiet \ Invalid =>
    /\ u \in Exceeders
    /\ Exceeders \subseteq {u} => LoneParts(u, verbSince[u])

\* The invariant of LoneThrottled.
ThrottleInv == VerbInv /\ SentSound /\ \A u \in Users : LoneUser(u)

\* The keys sent in the first second stay those of its violators, and epochs those in which
\* somebody exceeded a limit.
LEMMA SentCheckStep ==
  ASSUME Base, VerbInv, SentSound, NEW w \in Workers, CheckStep(w) \/ RedisFails(w),
         UNCHANGED <<quiet, carried>>
  PROVE  SentSound'
<1>1. /\ IndInv /\ VerbTasks /\ "GET" \in Usages /\ UNCHANGED <<now, exceeded>>
      /\ Exceeders' = Exceeders
      /\ Second(now) = 0 => carried = {} /\ new_keys["GET"] \subseteq Exceeders
  BY CheckKeeps DEF Base, VerbInv, VerbKeys, Usages, Exceeders, Culprits, SentSound
<1>2. ASSUME UNCHANGED epoch,
             Second(now) = 0 => sent_keys'["GET"] \subseteq sent_keys["GET"] \cup Exceeders
      PROVE  SentSound'
  BY <1>1, <1>2 DEF SentSound
<1>3. CASE \/ call_redis_eval(w) \/ RedisFails(w) \/ create_user_level_metric_raises(w)
           \/ see_new_epoch(w) \/ add_violation(w)
  <2>1. UNCHANGED <<epoch, sent_keys>>
    BY <1>1, <1>3, EvalResult, FailResult, UnparsableResult, SeeResult, AddResult
  <2>2. QED
    BY <1>2, <2>1
<1>4. ASSUME NEW x \in Users,
             _check_all_conn_key_violations(w, x) \/ _check_violation_per_key_verb(w, x)
      PROVE  SentSound'
  <2>1. UNCHANGED <<epoch, sent_keys>>
    BY <1>4 DEF _check_all_conn_key_violations, _check_violation_per_key_verb, policies
  <2>2. QED
    BY <1>2, <2>1
<1>5. CASE new_epoch(w)
  <2>1. /\ task[w] # Null /\ task[w].pc = "new_epoch" /\ epoch' = Second(task[w].at)
        /\ UNCHANGED sent_keys
    BY <1>1, <1>5, EpochResult DEF Goes
  <2>2. task[w].cur \in Users /\ task[w].val[task[w].cur] = 1 /\ VerbCheck(task[w], Culprits)
    BY <1>1, <2>1 DEF VerbTasks, VerbCheck, IndInv, TasksSound, Sound
  <2>3. <<epoch', task[w].cur>> \in exceeded
    BY <2>1, <2>2 DEF VerbCheck
  <2>4. QED
    BY <1>1, <2>1, <2>2, <2>3 DEF SentSound
<1>6. CASE new_violations(w)
  <2>1. UNCHANGED epoch /\ sent_keys'["GET"] = {}
    BY <1>1, <1>6, RenewResult
  <2>2. QED
    BY <1>2, <2>1
<1>7. CASE record(w) \/ generate_violation_message(w) \/ add_message(w)
  <2>1. UNCHANGED <<epoch, sent_keys>>
    BY <1>1, <1>7, RecordResult, GenerateResult, PutResult
  <2>2. QED
    BY <1>2, <2>1
<1>8. CASE mark_sent(w)
  <2>1. /\ UNCHANGED epoch
        /\ sent_keys'["GET"] \subseteq sent_keys["GET"] \cup new_keys["GET"]
    BY <1>1, <1>8, MarkResult
  <2>2. QED
    BY <1>1, <1>2, <2>1
<1>9. CASE mark_raises(w)
  <2>1. /\ UNCHANGED epoch /\ task[w] # Null
        /\ sent_keys'["GET"] \subseteq
             sent_keys["GET"] \cup new_keys["GET"] \cup UNION {m.keys : m \in Range(task[w].out)}
    BY <1>1, <1>9, RaiseResult
  <2>2. \A m \in Range(task[w].out) : m.keys \subseteq Culprits
    BY <1>1, <2>1 DEF VerbTasks, VerbCheck, VerbMessage
  <2>3. UNION {m.keys : m \in Range(task[w].out)} \subseteq Culprits
    BY <2>2
  <2>4. QED
    BY <1>1, <1>2, <2>1, <2>3 DEF Culprits
<1>10. QED
  BY <1>3, <1>4, <1>5, <1>6, <1>7, <1>8, <1>9 DEF CheckStep

\* Every step keeps them so.
LEMMA SentStep ==
  ASSUME Base, VerbInv, SentSound, [Next]_vars
  PROVE  SentSound'
<1> USE GeneratorAssumption
<1>1. /\ IndInv /\ now \in Nat /\ Second(now) \in Nat
  BY SecondMonotone DEF Base, IndInv, CountsSound
<1>2. ASSUME UNCHANGED <<now, exceeded, quiet, carried, epoch, sent_keys>> PROVE SentSound'
  BY <1>2 DEF SentSound, Exceeders
<1>3. ASSUME NEW w \in Workers, NEW k \in Kinds, ScanStep(w, k) PROVE SentSound'
  BY <1>2, <1>3 DEF ScanStep, check_loop, policies, verbHistory
<1>4. ASSUME NEW w \in Workers, WorkerStep(w) \/ RedisError(w) PROVE SentSound'
  BY <1>4, SentCheckStep DEF WorkerStep, RedisError, Failure, history, verbHistory
<1>5. ASSUME ingest_policies \/ _send_policies_fails PROVE SentSound'
  <2>1. UNCHANGED <<now, exceeded, quiet, carried, epoch, sent_keys>>
    BY <1>5 DEF ingest_policies, _send_policies_fails, send_policy_to_haproxy, policies, Failure,
       history, verbHistory
  <2>2. QED
    BY <1>2, <2>1
<1>6. ASSUME GeneratorRestarts PROVE SentSound'
  <2>1. /\ sent_keys'["GET"] = {} /\ epoch' = 0
        /\ UNCHANGED <<now, exceeded, quiet, carried>>
    BY <1>6 DEF GeneratorRestarts, RestartGenerator, NoKeys, Usages, Failure
  <2>2. QED
    BY <2>1 DEF SentSound, Exceeders
<1>7. ASSUME HaproxyRestarts \/ UNCHANGED vars PROVE SentSound'
  <2>1. UNCHANGED <<now, exceeded, quiet, carried, epoch, sent_keys>>
    BY <1>7 DEF HaproxyRestarts, Failure, vars, genVars, policies, history, verbHistory
  <2>2. QED
    BY <1>2, <2>1
<1>8. ASSUME NEW u \in Users, NEW n \in Counts \cup {Null}, CountChanges(u, n) PROVE SentSound'
  BY <1>2, <1>8 DEF CountChanges, SetCount, policies, verbHistory
<1>9. ASSUME NEW u \in Users, VerbExceeded(u) PROVE SentSound'
  <2>1. /\ exceeded' = exceeded \cup {<<Second(now), u>>} /\ quiet' \subseteq quiet \cup {u}
        /\ UNCHANGED <<now, carried, epoch, sent_keys>>
    BY <1>9 DEF VerbExceeded, Exceed, policies
  <2>2. Exceeders \subseteq Exceeders' /\ u \in Exceeders'
    BY <2>1 DEF Exceeders
  <2>3. QED
    BY <2>1, <2>2 DEF SentSound
<1>10. ASSUME Tick PROVE SentSound'
  <2>1. UNCHANGED <<epoch, sent_keys, exceeded>> /\ now' = now + 1
    BY <1>10 DEF Tick, policies
  <2>2. CASE Second(now') = Second(now) /\ UNCHANGED <<quiet, carried>>
    <3>1. Exceeders' = Exceeders
      BY <2>1, <2>2 DEF Exceeders
    <3>2. QED
      BY <2>1, <2>2, <3>1 DEF SentSound
  <2>3. CASE Second(now') # Second(now) /\ quiet' = {}
    <3>1. Second(now') \in Nat /\ Second(now) <= Second(now')
      BY <1>1, <2>1, SecondMonotone
    <3>2. Second(now') # 0
      BY <1>1, <2>3, <3>1
    <3>3. QED
      BY <2>1, <2>3, <3>2 DEF SentSound
  <2>4. QED
    BY <1>10, <2>2, <2>3 DEF Tick, verbHistory
<1>11. QED
  BY <1>3, <1>4, <1>5, <1>6, <1>7, <1>8, <1>9, <1>10 DEF Next, EndOfRun

-----------------------------------------------------------------------------
\* Then the user is the only one to be reported.
LEMMA LoneReports ==
  ASSUME Base, VerbInv, NEW u \in Users, Exceeders \subseteq {u}, LoneOnly(u)
  PROVE  OnlyReports("GET", u)
<1>1. IndInv /\ VerbTasks /\ VerbKeys
  BY DEF Base, VerbInv
<1>2. ASSUME NEW w \in Workers, task[w] # Null
      PROVE  /\ Reporting(task[w]) => task[w].act = "GET" /\ task[w].cur = u
             /\ \A m \in Range(task[w].out) : m.usage = "GET" /\ m.keys = {u}
  <2>1. VerbCheck(task[w], Culprits) /\ Second(task[w].at) = Second(now)
    BY <1>1, <1>2 DEF VerbTasks, LoneOnly
  <2>2. ASSUME Reporting(task[w]) PROVE task[w].act = "GET" /\ task[w].cur = u
    <3>1. task[w].cur \in Users /\ task[w].pc # "eval"
      BY <1>1, <1>2, <2>2 DEF Reporting, IndInv, TasksSound, Sound
    <3>2. task[w].act = "GET" /\ task[w].val[task[w].cur] = 1
      BY <2>1, <2>2 DEF VerbCheck, Reporting
    <3>3. <<Second(now), task[w].cur>> \in exceeded
      BY <2>1, <3>1, <3>2 DEF VerbCheck
    <3>4. QED
      BY <3>1, <3>2, <3>3 DEF Exceeders
  <2>3. \A m \in Range(task[w].out) : m.usage = "GET" /\ m.keys = {u}
    BY <1>2, <2>1 DEF VerbCheck, VerbMessage, LoneOnly
  <2>4. QED
    BY <2>2, <2>3
<1>3. QED
  BY <1>1, <1>2 DEF OnlyReports, LoneOnly, VerbKeys

\* A step of a check is about the user, too.
LEMMA LoneOnlyStep ==
  ASSUME Base, VerbInv, NEW u \in Users, Exceeders \subseteq {u}, LoneOnly(u),
         NEW w \in Workers, CheckStep(w)
  PROVE  LoneOnly(u)' /\ epoch' \in {epoch, Second(now)}
<1>1. /\ IndInv /\ VerbInv /\ "GET" \in Usages /\ UNCHANGED now /\ OthersKeep(w)
      /\ task'[w] # Null => task[w] # Null /\ task'[w].at = task[w].at
      /\ OnlyReports("GET", u)
  BY CheckKeeps, OthersOfStep, ScanKept, LoneReports DEF Base, Usages
<1>2. task[w] # Null => Second(task[w].at) = Second(now)
  BY DEF LoneOnly
<1>3. ASSUME epoch' \in {epoch, Second(now)},
             new_keys'["GET"] \subseteq {u}, Range(queue') \subseteq Range(queue) \cup
                (IF task[w] = Null THEN {} ELSE Range(task[w].out)),
             task'[w] # Null =>
               /\ \A m \in Range(task'[w].out) : m.keys \subseteq {u}
               /\ task'[w].pc \in {"renew", "insert"} => epoch' = Second(now)
      PROVE  LoneOnly(u)' /\ epoch' \in {epoch, Second(now)}
  <2>1. ASSUME NEW x \in Workers, task'[x] # Null
        PROVE  /\ Second(task'[x].at) = Second(now)
               /\ \A m \in Range(task'[x].out) : m.keys \subseteq {u}
               /\ task'[x].pc \in {"renew", "insert"} => epoch' = Second(now)
    <3>1. CASE x = w
      BY <1>1, <1>2, <1>3, <2>1, <3>1
    <3>2. CASE x # w
      <4>1. /\ task[x] # Null /\ task'[x].at = task[x].at /\ task'[x].out = task[x].out
            /\ task'[x].pc = task[x].pc
        BY <1>1, <2>1, <3>2 DEF OthersKeep
      <4>2. /\ Second(task[x].at) = Second(now)
            /\ \A m \in Range(task[x].out) : m.keys \subseteq {u}
            /\ task[x].pc \in {"renew", "insert"} => epoch = Second(now)
        BY <4>1 DEF LoneOnly
      <4>3. QED
        BY <1>3, <4>1, <4>2
    <3>3. QED
      BY <3>1, <3>2
  <2>2. ASSUME NEW m \in Range(queue') PROVE m.keys \subseteq {u} /\ Second(m.at) = Second(now)
    <3>1. CASE m \in Range(queue)
      BY <3>1 DEF LoneOnly
    <3>2. CASE task[w] # Null /\ m \in Range(task[w].out)
      <4>1. m.at = task[w].at
        BY <1>1, <3>2 DEF VerbInv, VerbTasks, VerbCheck
      <4>2. QED
        BY <1>2, <3>2, <4>1 DEF LoneOnly
    <3>3. QED
      BY <1>3, <3>1, <3>2
  <2>3. QED
    BY <1>1, <1>3, <2>1, <2>2 DEF LoneOnly
<1>4. new_keys["GET"] \subseteq {u} /\ (task[w] # Null => \A m \in Range(task[w].out) : m.keys \subseteq {u})
  BY DEF LoneOnly
<1>5. CASE call_redis_eval(w) \/ create_user_level_metric_raises(w) \/ see_new_epoch(w) \/ record(w)
  <2>1. PICK p \in {"check", "new_epoch"} :
          Goes(w, p) /\ KeepsOut(w) /\ UNCHANGED <<epoch, new_keys, queue>>
    BY <1>1, <1>5, EvalResult, UnparsableResult, SeeResult, RecordResult
  <2>2. QED
    BY <1>3, <1>4, <2>1 DEF Goes, KeepsOut
<1>6. ASSUME NEW x \in Users,
             _check_all_conn_key_violations(w, x) \/ _check_violation_per_key_verb(w, x)
      PROVE  LoneOnly(u)' /\ epoch' \in {epoch, Second(now)}
  <2>1. /\ task[w] # Null /\ task[w].pc = "check" /\ UNCHANGED <<epoch, new_keys, queue>>
        /\ Examined(w, x) \/ \E y \in Usages : Report(w, x, y)
    BY <1>6 DEF _check_all_conn_key_violations, _check_violation_per_key_verb, At, policies,
       Usages
  <2>2. (Goes(w, "add") \/ Goes(w, "check")) /\ KeepsOut(w)
    BY <1>1, <2>1, ReportResult, ExaminedResult
  <2>3. QED
    BY <1>3, <1>4, <2>1, <2>2 DEF Goes, KeepsOut
<1>7. CASE add_violation(w)
  <2>1. PICK p \in {"record", "check"} :
          /\ task[w] # Null /\ task[w].pc \in {"add", "insert"} /\ Goes(w, p) /\ KeepsOut(w)
          /\ UNCHANGED <<epoch, queue>>
          /\ new_keys'["GET"] \subseteq new_keys["GET"] \cup {task[w].cur}
    BY <1>1, <1>7, AddResult DEF Goes
  <2>2. task[w].cur = u
    BY <1>1, <2>1 DEF OnlyReports, Reporting
  <2>3. QED
    BY <1>3, <1>4, <2>1, <2>2 DEF Goes, KeepsOut
<1>8. CASE new_epoch(w)
  <2>1. /\ Goes(w, "renew") /\ KeepsOut(w) /\ epoch' = Second(task[w].at)
        /\ UNCHANGED <<new_keys, queue>>
    BY <1>1, <1>8, EpochResult
  <2>2. QED
    BY <1>2, <1>3, <1>4, <2>1 DEF Goes, KeepsOut
<1>9. CASE new_violations(w)
  <2>1. /\ task[w].pc = "renew" /\ Goes(w, "insert") /\ KeepsOut(w) /\ new_keys'["GET"] = {}
        /\ UNCHANGED <<epoch, queue>>
    BY <1>1, <1>9, RenewResult
  <2>2. epoch = Second(now)
    BY <2>1 DEF LoneOnly, Goes
  <2>3. QED
    BY <1>3, <1>4, <2>1, <2>2 DEF Goes, KeepsOut
<1>10. CASE generate_violation_message(w)
  <2>1. /\ UNCHANGED <<epoch, new_keys, queue>>
        /\ task'[w] = Null \/ (Goes(w, "mark") /\ Range(task'[w].out) = Messages(task[w].at))
    BY <1>1, <1>10, GenerateResult
  <2>2. ASSUME NEW m \in Messages(task[w].at) PROVE m.keys \subseteq {u}
    <3>1. PICK y \in Usages : m = [usage |-> y, keys |-> new_keys[y], at |-> task[w].at]
      BY <2>2 DEF Messages
    <3>2. QED
      BY <1>1, <3>1 DEF OnlyReports
  <2>3. QED
    BY <1>3, <1>4, <2>1, <2>2 DEF Goes
<1>11. CASE mark_sent(w)
  <2>1. /\ Goes(w, "put") /\ KeepsOut(w) /\ UNCHANGED <<epoch, queue>>
        /\ new_keys'["GET"] \subseteq new_keys["GET"]
    BY <1>1, <1>11, MarkResult
  <2>2. QED
    BY <1>3, <1>4, <2>1 DEF Goes, KeepsOut
<1>12. ASSUME mark_raises(w) PROVE FALSE
  BY <1>1, <1>12, NoRaise
<1>13. CASE add_message(w)
  <2>1. /\ task[w] # Null /\ UNCHANGED <<epoch, new_keys>>
        /\ \/ task'[w] = Null
           \/ Goes(w, "put") /\ Range(task'[w].out) \subseteq Range(task[w].out)
        /\ Range(queue') \subseteq Range(queue) \cup Range(task[w].out)
    BY <1>1, <1>13, PutResult
  <2>2. QED
    BY <1>3, <1>4, <2>1 DEF Goes
<1>14. QED
  BY <1>5, <1>6, <1>7, <1>8, <1>9, <1>10, <1>11, <1>12, <1>13 DEF CheckStep

\* The clock and the epoch.
LEMMA ClockKnown ==
  ASSUME IndInv
  PROVE  /\ now \in Nat /\ Second(now) \in Nat
         /\ epoch \in Nat /\ epoch <= Second(now)
<1>1. now \in Nat /\ epoch \in 0 .. Second(now)
  BY DEF IndInv, CountsSound, KeysSound
<1>2. Second(now) \in Nat
  BY <1>1, SecondMonotone
<1>3. QED
  BY <1>1, <1>2

\* When the check of the first tick after s is over, the user is reported.
LEMMA LoneLate ==
  ASSUME Base, NEW u \in Users, NEW s \in Nat, LoneParts(u, s), now > s + MaxLag
  PROVE  LoneDone(u, s + MaxLag)
<1> USE LoopAssumption
<1>1. /\ now \in Nat
      /\ \A w \in Workers : task[w] # Null => task[w].at \in Nat /\ now < task[w].at + MaxLag
  BY MessagesKnown DEF Base, IndInv, CountsSound, Timely
<1>2. now > s + 1
  BY <1>1
<1>3. ~\E w \in Workers : task[w] # Null /\ task[w].at = s + 1 /\ task[w].val[u] # Null
  BY <1>1
<1>4. QED
  BY <1>2, <1>3 DEF LoneParts, LoneScanned

\* Which step leads to which point of a check, and who changes epoch and blocked_users.
LEMMA Moves ==
  ASSUME IndInv, NEW w \in Workers, CheckStep(w)
  PROVE  /\ epoch' # epoch => new_epoch(w)
         /\ blocked_users' # blocked_users => record(w)
         /\ task'[w] # Null =>
              /\ task'[w].pc = "new_epoch" => see_new_epoch(w)
              /\ task'[w].pc = "renew" => new_epoch(w)
              /\ task'[w].pc = "insert" => new_violations(w)
              /\ task'[w].pc = "record" => add_violation(w)
              /\ task'[w].pc = "mark" => generate_violation_message(w)
              /\ task'[w].pc = "put" => mark_sent(w) \/ add_message(w)
<1>1. ASSUME NEW x \in Users,
             _check_all_conn_key_violations(w, x) \/ _check_violation_per_key_verb(w, x)
      PROVE  UNCHANGED <<epoch, blocked_users>> /\ task'[w].pc \in {"add", "check"}
  <2>1. /\ task[w] # Null /\ task[w].pc = "check" /\ UNCHANGED <<epoch, blocked_users>>
        /\ Examined(w, x) \/ \E y \in Usages : Report(w, x, y)
    BY <1>1 DEF _check_all_conn_key_violations, _check_violation_per_key_verb, At, Usages, policies
  <2>2. Goes(w, "add") \/ Goes(w, "check")
    BY <2>1, ReportResult, ExaminedResult
  <2>3. QED
    BY <2>1, <2>2 DEF Goes
<1>2. CASE call_redis_eval(w) \/ create_user_level_metric_raises(w)
  BY <1>2, EvalResult, UnparsableResult DEF Goes
<1>3. CASE add_violation(w)
  <2>1. Goes(w, IF task[w].kind = "conn" THEN "record" ELSE "check") /\ UNCHANGED <<epoch, blocked_users>>
    BY <1>3, AddResult
  <2>2. QED
    BY <1>3, <2>1 DEF Goes
<1>4. CASE see_new_epoch(w)
  BY <1>4, SeeResult DEF Goes
<1>5. CASE new_epoch(w)
  BY <1>5, EpochResult DEF Goes
<1>6. CASE new_violations(w)
  BY <1>6, RenewResult DEF Goes
<1>7. CASE record(w)
  BY <1>7, RecordResult DEF Goes
<1>8. CASE generate_violation_message(w)
  BY <1>8, GenerateResult DEF Goes
<1>9. CASE mark_sent(w) \/ mark_raises(w)
  BY <1>9, MarkResult, RaiseResult DEF Goes
<1>10. CASE add_message(w)
  BY <1>10, PutResult DEF Goes
<1>11. QED
  BY <1>1, <1>2, <1>3, <1>4, <1>5, <1>6, <1>7, <1>8, <1>9, <1>10 DEF CheckStep

\* What a step of a check does to the way of the user's key.
LEMMA LoneWayStep ==
  ASSUME Base, VerbInv, NEW u \in Users, Exceeders \subseteq {u}, NEW s \in Nat, LoneParts(u, s),
         NEW w \in Workers, CheckStep(w), UNCHANGED vio_map
  PROVE  LET t == s + MaxLag
         IN  /\ LoneWay(u, t) => LoneWay(u, t)'
             /\ LoneDone(u, t) => LoneDone(u, t)'
             /\ Wipers(t)'
             /\ epoch' = Second(now) => LoneWay(u, t)' \/ LoneFresh(u)'
             /\ add_violation(w) => LoneDone(u, t)'
<1> DEFINE t == s + MaxLag
<1> USE GeneratorAssumption, LoopAssumption
<1>1. /\ IndInv /\ "GET" \in Usages /\ UNCHANGED now /\ OthersKeep(w) /\ now \in Nat /\ t \in Nat
      /\ epoch \in Nat /\ Second(now) \in Nat /\ epoch <= Second(now)
      /\ OnlyReports("GET", u) /\ epoch' \in {epoch, Second(now)} /\ LoneOnly(u) /\ Wipers(t)
      /\ task[w] # Null => /\ task[w].at \in Nat /\ task[w].at <= now
                           /\ Second(task[w].at) = Second(now)
  <2>1. IndInv /\ LoneOnly(u) /\ Wipers(t)
    BY DEF Base, LoneParts
  <2>2. now \in Nat /\ epoch \in Nat /\ Second(now) \in Nat /\ epoch <= Second(now) /\ t \in Nat
    BY <2>1, ClockKnown
  <2>3. UNCHANGED now /\ OthersKeep(w) /\ OnlyReports("GET", u) /\ epoch' \in {epoch, Second(now)}
    BY <2>1, CheckKeeps, OthersOfStep, LoneReports, LoneOnlyStep
  <2>4. task[w] # Null => /\ task[w].at \in Nat /\ task[w].at <= now
                         /\ Second(task[w].at) = Second(now)
    BY <2>1, MessagesKnown DEF LoneOnly
  <2>5. QED
    BY <2>1, <2>2, <2>3, <2>4 DEF Usages
<1>2. LoneWay(u, t) => LoneWay(u, t)'
  <2>1. new_violations(w) => task[w].at <= t
    BY <1>1, RenewResult DEF Wipers, Goes
  <2>2. QED
    BY <1>1, <2>1, ChainCheckStep DEF LoneWay
<1>3. LoneDone(u, t) => LoneDone(u, t)'
  BY <1>1, <1>2 DEF LoneDone
<1>4. ~LoneDone(u, t) => now <= t
  BY <1>1, LoneLate
<1>5. ASSUME NEW p, Goes(w, p), task[w].at <= t, Keeps(task[w], "GET", u)' PROVE LoneWay(u, t)'
  BY <1>5 DEF LoneWay, Chain, Goes
<1>6. Wipers(t)'
  <2>1. ASSUME task'[w] # Null, task'[w].pc \in {"new_epoch", "renew"} PROVE task'[w].at <= t
    <3>1. task[w] # Null /\ task'[w].at = task[w].at
      BY <1>1, <2>1, ScanKept
    <3>2. CASE see_new_epoch(w)
      <4>1. Second(task[w].at) > epoch
        BY <1>1, <3>2, SeeResult
      <4>2. ~LoneDone(u, t)
        BY <1>1, <3>1, <4>1 DEF LoneDone
      <4>3. QED
        BY <1>1, <1>4, <3>1, <4>2
    <3>3. CASE new_epoch(w)
      <4>1. task[w].pc = "new_epoch"
        BY <1>1, <3>3, EpochResult
      <4>2. QED
        BY <1>1, <3>1, <4>1 DEF Wipers
    <3>4. see_new_epoch(w) \/ new_epoch(w)
      BY <1>1, <2>1, Moves
    <3>5. QED
      BY <3>2, <3>3, <3>4
  <2>2. QED
    BY <1>1, <2>1 DEF Wipers, OthersKeep
<1>7. ASSUME add_violation(w) PROVE LoneDone(u, t)'
  <2>1. PICK p \in {"record", "check"} :
        /\ task[w] # Null /\ task[w].pc \in {"add", "insert"} /\ Goes(w, p)
        /\ task[w].pc = "add" => Second(task[w].at) <= epoch
        /\ new_keys'["GET"] = IF "GET" = task[w].act /\ task[w].cur \notin sent_keys["GET"]
                              THEN new_keys["GET"] \cup {task[w].cur} ELSE new_keys["GET"]
        /\ UNCHANGED epoch
    BY <1>1, <1>7, AddResult DEF Goes
  <2>2. task[w].act = "GET" /\ task[w].cur = u
    BY <1>1, <2>1 DEF OnlyReports, Reporting
  <2>3. epoch = Second(now)
    BY <1>1, <2>1 DEF LoneOnly
  <2>4. CASE LoneWay(u, t)
    BY <1>1, <1>2, <2>1, <2>3, <2>4 DEF LoneDone
  <2>5. CASE ~LoneWay(u, t)
    <3>1. LoneFresh(u) /\ now <= t
      BY <1>4, <2>3, <2>5 DEF LoneParts, LoneDone
    <3>2. u \in new_keys'["GET"] /\ task[w].at <= t
      BY <1>1, <2>1, <2>2, <3>1 DEF LoneFresh
    <3>3. Keeps(task[w], "GET", u)'
      BY <2>1, <3>2 DEF Keeps, Working, Goes
    <3>4. QED
      BY <1>1, <1>5, <2>1, <2>3, <3>2, <3>3 DEF LoneDone
  <2>6. QED
    BY <2>4, <2>5
<1>8. ASSUME epoch' = Second(now) PROVE LoneWay(u, t)' \/ LoneFresh(u)'
  <2>1. CASE LoneWay(u, t)
    BY <1>2, <2>1
  <2>2. CASE new_epoch(w)
    <3>1. task[w] # Null /\ task[w].pc = "new_epoch" /\ Goes(w, "renew")
      BY <1>1, <2>2, EpochResult DEF Goes
    <3>2. task[w].at <= t /\ Keeps(task[w], "GET", u)'
      BY <1>1, <3>1 DEF Wipers, Keeps, Goes
    <3>3. QED
      BY <1>5, <3>1, <3>2
  <2>3. CASE add_violation(w)
    BY <1>7, <2>3 DEF LoneDone
  <2>4. CASE ~LoneWay(u, t) /\ ~new_epoch(w) /\ ~add_violation(w)
    <3>1. ASSUME NEW x \in Users,
                 _check_all_conn_key_violations(w, x) \/ _check_violation_per_key_verb(w, x)
          PROVE  UNCHANGED <<epoch, new_keys, sent_keys>>
      BY <3>1 DEF _check_all_conn_key_violations, _check_violation_per_key_verb, policies
    <3>2. /\ UNCHANGED epoch
          /\ new_keys'["GET"] \subseteq new_keys["GET"]
          /\ sent_keys'["GET"] \subseteq sent_keys["GET"] \cup new_keys["GET"]
      BY <1>1, <2>4, <3>1, EvalResult, UnparsableResult, SeeResult, RenewResult, RecordResult,
         GenerateResult, MarkResult, NoRaise, PutResult DEF CheckStep
    <3>3. LoneFresh(u)
      BY <1>8, <2>4, <3>2 DEF LoneParts
    <3>4. QED
      BY <1>1, <3>2, <3>3 DEF LoneFresh
  <2>5. QED
    BY <2>1, <2>2, <2>3, <2>4
<1>9. QED
  BY <1>2, <1>3, <1>6, <1>7, <1>8

\* A check that began after s finds the user over its limit, and is done with it only when it
\* is reported.
LEMMA LoneTaskStep ==
  ASSUME Base, VerbInv, NEW u \in Users \ Invalid, Exceeders = {u}, NEW s \in Nat,
         LoneParts(u, s), NEW w \in Workers, CheckStep(w), UNCHANGED vio_map
  PROVE  \A x \in Workers : task'[x] # Null => LoneTask(task[x], u, s)'
<1> DEFINE t == s + MaxLag
<1> USE GeneratorAssumption
<1>1. /\ IndInv /\ VerbTasks /\ UNCHANGED now /\ OthersKeep(w)
      /\ LoneDone(u, t) => LoneDone(u, t)'
      /\ add_violation(w) => LoneDone(u, t)'
      /\ OnlyReports("GET", u)
  BY CheckKeeps, OthersOfStep, LoneWayStep, LoneReports DEF Base, VerbInv, LoneParts
<1>2. task[w] # Null =>
        /\ VerbCheck(task[w], Culprits) /\ LoneTask(task[w], u, s)
        /\ Second(task[w].at) = Second(now)
  BY <1>1 DEF VerbTasks, LoneParts, LoneOnly
<1>3. SUFFICES ASSUME task'[w] # Null PROVE LoneTask(task[w], u, s)'
  <2>1. ASSUME NEW x \in Workers \ {w}, task'[x] # Null PROVE LoneTask(task[x], u, s)'
    <3>1. /\ task[x] # Null /\ LoneTask(task[x], u, s) /\ task'[x].at = task[x].at
          /\ task'[x].pc = task[x].pc /\ task'[x].val = task[x].val
      BY <1>1, <2>1 DEF OthersKeep, LoneParts
    <3>2. QED
      BY <1>1, <3>1 DEF LoneTask
  <2>2. QED
    BY <1>3, <2>1
<1>4. ASSUME NEW p, Goes(w, p), task[w].pc # "eval",
             task[w].at > s => task'[w].val[u] = task[w].val[u]
      PROVE  LoneTask(task[w], u, s)'
  BY <1>1, <1>2, <1>4 DEF LoneTask, Goes
<1>5. CASE call_redis_eval(w)
  <2>1. /\ task[w].pc = "eval" /\ task[w] # Null /\ Goes(w, "check")
        /\ task'[w].val[u] =
            CASE task[w].val[u] = Null    -> Null
              [] task[w].kind = "verb"    -> IF <<Second(task[w].at), u>> \in exceeded THEN 1 ELSE 0
              [] OTHER                    -> IF redis[u] = Null THEN 0 ELSE redis[u]
    BY <1>1, <1>5, EvalResult DEF Goes
  <2>2. /\ task[w].kind = "verb" /\ task[w].val[u] = 0 /\ 0 # Null
        /\ <<Second(task[w].at), u>> \in exceeded
    BY <1>2, <2>1 DEF VerbCheck, Exceeders
  <2>3. task'[w].val[u] = 1
    BY <2>1, <2>2
  <2>4. QED
    BY <2>3 DEF LoneTask
<1>6. ASSUME NEW x \in Users, _check_violation_per_key_verb(w, x) PROVE LoneTask(task[w], u, s)'
  <2>1. /\ task[w] # Null /\ task[w].pc = "check" /\ task[w].val[x] # Null
        /\ Report(w, x, "GET") \/ ((task[w].val[x] = 0 \/ x \in Invalid) /\ Examined(w, x))
    BY <1>6 DEF _check_violation_per_key_verb, At
  <2>2. CASE Report(w, x, "GET")
    <3>1. KeepsVal(w) /\ Goes(w, "add")
      BY <1>1, <2>1, <2>2, ReportResult DEF Usages
    <3>2. QED
      BY <1>4, <2>1, <3>1 DEF KeepsVal
  <2>3. CASE (task[w].val[x] = 0 \/ x \in Invalid) /\ Examined(w, x)
    <3>1. /\ Goes(w, "check")
          /\ task'[w].val[u] = IF u = x THEN Null ELSE task[w].val[u]
      BY <1>1, <2>1, <2>3, ExaminedResult
    <3>2. task[w].at > s => x # u
      BY <1>2, <2>1, <2>3 DEF LoneTask
    <3>3. QED
      BY <1>4, <2>1, <3>1, <3>2
  <2>4. QED
    BY <2>1, <2>2, <2>3
<1>7. ASSUME \/ create_user_level_metric_raises(w) \/ record(w) \/ mark_raises(w)
             \/ \E x \in Users : _check_all_conn_key_violations(w, x)
      PROVE  FALSE
  <2>1. ~mark_raises(w)
    BY <1>1, NoRaise DEF Usages
  <2>2. QED
    BY <1>2, <1>7, <2>1
    DEF _check_all_conn_key_violations, create_user_level_metric_raises, record, At, VerbCheck
<1>8. CASE see_new_epoch(w) \/ new_epoch(w) \/ new_violations(w) \/ mark_sent(w)
  <2>1. PICK p \in {"new_epoch", "renew", "insert", "put"} :
          KeepsVal(w) /\ Goes(w, p) /\ task[w].pc # "eval"
    BY <1>1, <1>8, SeeResult, EpochResult, RenewResult, MarkResult
  <2>2. QED
    BY <1>4, <2>1 DEF KeepsVal
<1>9. CASE add_violation(w)
  <2>1. /\ task[w] # Null /\ task[w].pc \in {"add", "insert"}
        /\ task'[w].val[u] = IF u = task[w].cur THEN Null ELSE task[w].val[u]
    BY <1>1, <1>9, AddResult DEF Goes
  <2>2. task[w].cur = u
    BY <1>1, <2>1 DEF OnlyReports, Reporting
  <2>3. QED
    BY <1>1, <1>9, <2>1, <2>2 DEF LoneTask
<1>10. CASE generate_violation_message(w) \/ add_message(w)
  <2>1. /\ task[w] # Null /\ task[w].pc # "eval" /\ KeepsVal(w)
        /\ Goes(w, "mark") \/ Goes(w, "put")
    BY <1>1, <1>3, <1>10, GenerateResult, PutResult
  <2>2. QED
    BY <1>4, <2>1 DEF KeepsVal
<1>11. QED
  BY <1>5, <1>6, <1>7, <1>8, <1>9, <1>10 DEF CheckStep

\* Once the verb loop has run in the tick after s, the user is reported or will be.
LEMMA LoneScannedStep ==
  ASSUME Base, VerbInv, NEW u \in Users \ Invalid, Exceeders = {u}, NEW s \in Nat,
         LoneParts(u, s), NEW w \in Workers, CheckStep(w), UNCHANGED <<vio_map, scanned, carried>>
  PROVE  LoneScanned(u, s)'
<1> DEFINE t == s + MaxLag
<1> USE GeneratorAssumption
<1>1. /\ IndInv /\ VerbInv' /\ UNCHANGED now /\ OthersKeep(w)
      /\ LoneDone(u, t) => LoneDone(u, t)'
      /\ \A x \in Workers : task'[x] # Null => LoneTask(task[x], u, s)'
  BY CheckKeeps, OthersOfStep, LoneWayStep, LoneTaskStep, VerbCheckStep DEF Base
<1>2. SUFFICES ASSUME now > s + 1 \/ (now = s + 1 /\ scanned["verb"] > 0), ~LoneDone(u, t)'
               PROVE  \E x \in Workers : task'[x] # Null /\ task'[x].at = s + 1 /\ task'[x].val[u] # Null
  BY <1>1 DEF LoneScanned
<1>3. PICK x \in Workers : task[x] # Null /\ task[x].at = s + 1 /\ task[x].val[u] # Null
  BY <1>1, <1>2 DEF LoneParts, LoneScanned
<1>4. CASE x # w
  BY <1>1, <1>3, <1>4 DEF OthersKeep
<1>5. CASE x = w
  <2>1. task[w].pc \notin {"mark", "put"}
    BY <1>3, <1>5 DEF VerbInv, VerbTasks, VerbCheck
  <2>2. task'[w] # Null
    <3>1. ASSUME NEW y \in Users,
               _check_all_conn_key_violations(w, y) \/ _check_violation_per_key_verb(w, y)
          PROVE  task'[w] # Null
      <4>1. task[w] # Null /\ (Examined(w, y) \/ \E v \in Usages : Report(w, y, v))
        BY <3>1 DEF _check_all_conn_key_violations, _check_violation_per_key_verb, At, Usages
      <4>2. QED
        BY <1>1, <4>1, ReportResult, ExaminedResult DEF Goes
    <3>2. ~generate_violation_message(w) /\ ~mark_sent(w) /\ ~mark_raises(w) /\ ~add_message(w)
      BY <1>1, <1>3, <1>5, <2>1, GenerateResult, MarkResult, RaiseResult, PutResult
    <3>3. QED
      BY <1>1, <3>1, <3>2, EvalResult, UnparsableResult, AddResult, SeeResult, EpochResult,
         RenewResult, RecordResult DEF CheckStep, Goes
  <2>3. /\ LoneTask(task[w], u, s)' /\ task'[w].at = s + 1
        /\ task'[w].pc = "eval" => task'[w].val[u] = 0
    <3>1. task'[w].at = task[w].at
      BY <1>1, <2>2, ScanKept
    <3>2. QED
      BY <1>1, <1>3, <1>5, <2>2, <3>1 DEF VerbInv, VerbTasks, VerbCheck
  <2>4. task'[w].val[u] # Null
    BY <1>2, <2>3 DEF LoneTask
  <2>5. QED
    BY <2>2, <2>3, <2>4
<1>6. QED
  BY <1>4, <1>5

\* Every step of a check.
LEMMA LoneCheckStep ==
  ASSUME Base, VerbInv, NEW u \in Users \ Invalid, Exceeders = {u}, NEW s \in Nat,
         LoneParts(u, s), NEW w \in Workers, CheckStep(w), UNCHANGED <<vio_map, scanned, carried>>
  PROVE  LoneParts(u, s)'
<1>1. UNCHANGED now /\ LoneOnly(u)'
  BY CheckKeeps, LoneOnlyStep DEF LoneParts
<1>2. /\ Wipers(s + MaxLag)'
      /\ epoch' = Second(now) => LoneWay(u, s + MaxLag)' \/ LoneFresh(u)'
  BY LoneWayStep
<1>3. /\ \A x \in Workers : task'[x] # Null => LoneTask(task[x], u, s)'
      /\ LoneScanned(u, s)'
  BY LoneTaskStep, LoneScannedStep
<1>4. QED
  BY <1>1, <1>2, <1>3 DEF LoneParts

\* Steps that leave the checks and keys alone, and a scan, which starts a check of the user.
LEMMA LoneKept ==
  ASSUME NEW u \in Users, NEW s \in Nat, LoneParts(u, s),
         \A w \in Workers : task[w] # Null => task'[w] = task[w],
         UNCHANGED <<now, epoch, new_keys, sent_keys, queue, vio_map>>,
         \A w \in Workers : task'[w] # Null /\ task[w] = Null =>
            task'[w].pc = "eval" /\ task'[w].at = now /\ Range(task'[w].out) = {},
         \/ UNCHANGED scanned
         \/ \E w \in Workers : task'[w] # Null /\ task'[w].at = now /\ task'[w].val[u] # Null
  PROVE  LoneParts(u, s)'
<1> DEFINE t == s + MaxLag
<1>1. (LoneWay(u, t) => LoneWay(u, t)') /\ (LoneFresh(u) => LoneFresh(u)')
  BY ChainKept DEF LoneWay, LoneFresh
<1>2. LoneDone(u, t) => LoneDone(u, t)'
  BY <1>1 DEF LoneDone
<1>3. LoneOnly(u)' /\ Wipers(t)'
  BY DEF LoneParts, LoneOnly, Wipers
<1>4. \A w \in Workers : task'[w] # Null => LoneTask(task[w], u, s)'
  BY <1>2 DEF LoneParts, LoneTask
<1>5. LoneScanned(u, s)'
  BY <1>2 DEF LoneParts, LoneScanned
<1>6. QED
  BY <1>1, <1>3, <1>4, <1>5 DEF LoneParts

\* What HAProxy reads throttles the user.
LEMMA LoneIngest ==
  ASSUME Base, VerbInv, NEW u \in Users, NEW s \in Nat, LoneParts(u, s), ingest_policies
  PROVE  LoneParts(u, s)'
<1> USE GeneratorAssumption
<1> DEFINE t == s + MaxLag
<1>1. /\ UNCHANGED <<now, task, epoch, new_keys, sent_keys, scanned>>
      /\ queue # <<>> /\ queue' = <<>> /\ Second(now) \in Nat /\ IndInv
  BY ClockKnown DEF ingest_policies, send_policy_to_haproxy, policies, history, Base
<1>2. PICK line \in Concatenated(queue) : update_violates(line, Second(now))
  BY DEF ingest_policies
<1>3. \A m \in Range(queue) : m.usage = "GET" /\ Second(m.at) = Second(now) /\ m.keys = {u}
  BY DEF VerbInv, VerbQueue, VerbMessage, LoneParts, LoneOnly
<1>4. line.usage = "GET" /\ Second(line.at) = Second(now) /\ u \in line.keys
  BY <1>1, <1>3, LineResult
<1>5. <<Second(now), u>> \in vio_map'
  BY <1>1, <1>2, <1>4 DEF update_violates, update_violates_map
<1>6. LoneWay(u, t)' /\ (LoneDone(u, t) => LoneDone(u, t)')
  BY <1>1, <1>5 DEF LoneWay, LoneDone
<1>7. LoneOnly(u)' /\ Wipers(t)'
  BY <1>1, Ranges DEF LoneParts, LoneOnly, Wipers
<1>8. (\A w \in Workers : task'[w] # Null => LoneTask(task[w], u, s)') /\ LoneScanned(u, s)'
  BY <1>1, <1>6 DEF LoneParts, LoneTask, LoneScanned
<1>9. QED
  BY <1>1, <1>5, <1>6, <1>7, <1>8 DEF LoneParts

\* The clock finds the user throttled when the checks that saw to it are over.
LEMMA LoneTick ==
  ASSUME "verb" \in Kinds, Base, NEW u \in Users, NEW s \in Nat, LoneParts(u, s),
         Tick, Second(now') = Second(now)
  PROVE  LoneParts(u, s)'
<1> USE GeneratorAssumption, LoopAssumption
<1> DEFINE t == s + MaxLag
<1>1. /\ now \in Nat /\ now' = now + 1 /\ t \in Nat
      /\ UNCHANGED <<epoch, new_keys, sent_keys, queue, task, vio_map>>
      /\ scanned["verb"] > 0 /\ scanned'["verb"] = 0
      /\ \A w \in Workers : task[w] # Null => task[w].at \in Nat /\ now + 1 - task[w].at < MaxLag
  BY MessagesKnown DEF Base, IndInv, CountsSound, Tick, policies
<1>2. (LoneWay(u, t) => LoneWay(u, t)') /\ (LoneFresh(u) => LoneFresh(u)')
  <2>1. Chain("GET", u, t) => Chain("GET", u, t)'
    BY <1>1, ChainKept
  <2>2. QED
    BY <1>1, <2>1 DEF LoneWay, LoneFresh
<1>3. LoneDone(u, t) => LoneDone(u, t)'
  BY <1>1, <1>2 DEF LoneDone
<1>4. LoneOnly(u)' /\ Wipers(t)'
  BY <1>1 DEF LoneParts, LoneOnly, Wipers
<1>5. \A w \in Workers : task'[w] # Null => LoneTask(task[w], u, s)'
  BY <1>1, <1>3 DEF LoneParts, LoneTask
<1>6. now >= s + 1 => \/ LoneDone(u, t)
                      \/ \E w \in Workers : task[w] # Null /\ task[w].at = s + 1 /\ task[w].val[u] # Null
  BY <1>1 DEF LoneParts, LoneScanned
<1>7. LoneScanned(u, s)'
  <2> SUFFICES ASSUME now' > s + 1 \/ (now' = s + 1 /\ scanned'["verb"] > 0)
               PROVE  \/ LoneDone(u, t)'
                      \/ \E w \in Workers : task'[w] # Null /\ task'[w].at = s + 1 /\ task'[w].val[u] # Null
    BY DEF LoneScanned
  <2>1. now >= s + 1
    BY <1>1
  <2>2. QED
    BY <1>1, <1>3, <1>6, <2>1
<1>8. ASSUME now' > s + 3 * MaxLag - 2 PROVE <<Second(now), u>> \in vio_map
  <2>1. now >= s + 1 /\ now >= s + MaxLag /\ now >= t + 2 * MaxLag - 2
    BY <1>1, <1>8
  <2>2. LoneWay(u, t)
    BY <1>1, <1>6, <2>1 DEF LoneDone
  <2>3. ~Chain("GET", u, t)
    BY <1>1, <2>1, ChainTick
  <2>4. QED
    BY <2>2, <2>3 DEF LoneWay
<1>9. QED
  BY <1>1, <1>2, <1>4, <1>5, <1>7, <1>8 DEF LoneParts

\* The user gets over its limit with nothing older under way.
LEMMA LoneBegins ==
  ASSUME Base, VerbInv, SentSound, NEW u \in Users, Exceeders = {}, Quiet, VerbExceeded(u)
  PROVE  LoneParts(u, now)'
<1> USE GeneratorAssumption, LoopAssumption
<1>1. /\ IndInv /\ now \in Nat /\ epoch \in Nat /\ Second(now) \in Nat
      /\ \A w \in Workers : task[w] # Null => task[w].at \in Nat /\ task[w].at <= now
      /\ UNCHANGED <<now, task, epoch, new_keys, sent_keys, queue, vio_map, scanned>>
  BY MessagesKnown, ClockKnown DEF Base, VerbExceeded, Exceed, policies
<1>2. ASSUME NEW w \in Workers, task[w] # Null
      PROVE  /\ Second(task[w].at) = Second(now) /\ task[w].out = <<>>
             /\ task[w].pc \in {"eval", "check"}
  <2>1. Second(task[w].at) = Second(now) /\ task[w].out = <<>>
    BY <1>2 DEF Quiet
  <2>2. VerbCheck(task[w], Culprits) /\ Sound(task[w], now, reached) /\ task[w] \in Check
    BY <1>1, <1>2 DEF VerbInv, VerbTasks, IndInv, TasksSound
  <2>3. task[w].pc \notin {"mark", "put"}
    BY <2>1, <2>2 DEF Sound
  <2>4. ASSUME Reporting(task[w]) PROVE FALSE
    <3>1. task[w].cur \in Users /\ task[w].val[task[w].cur] = 1 /\ task[w].pc # "eval"
      BY <2>2, <2>4 DEF Sound, VerbCheck, Reporting
    <3>2. <<Second(now), task[w].cur>> \in exceeded
      BY <2>1, <2>2, <3>1 DEF VerbCheck
    <3>3. QED
      BY <3>1, <3>2 DEF Exceeders
  <2>5. QED
    BY <2>1, <2>2, <2>3, <2>4 DEF Check, Reporting
<1>3. LoneOnly(u)' /\ Wipers(now + MaxLag)'
  BY <1>1, <1>2, Ranges DEF LoneOnly, Wipers, Quiet
<1>4. epoch' = Second(now) => LoneFresh(u)'
  <2>1. ASSUME epoch = Second(now) PROVE Second(now) = 0
    BY <2>1 DEF SentSound, Exceeders
  <2>2. ASSUME Second(now) = 0 PROVE sent_keys["GET"] = {}
    BY <2>2 DEF SentSound
  <2>3. QED
    BY <1>1, <2>1, <2>2 DEF LoneFresh, Quiet
<1>5. \A w \in Workers : task'[w] # Null => LoneTask(task[w], u, now)'
  BY <1>1 DEF LoneTask
<1>6. ~(now' > now + 1) /\ ~(now' = now + 1) /\ ~(now' > now + 3 * MaxLag - 2)
  BY <1>1
<1>7. QED
  BY <1>1, <1>3, <1>4, <1>5, <1>6 DEF LoneParts, LoneScanned

\* Every step keeps what is promised to a user over its limit.
LEMMA LoneUserStep ==
  ASSUME Kinds = {"verb"}, Base, ThrottleInv, [Next]_vars, NEW u \in Users
  PROVE  LoneUser(u)'
<1> USE GeneratorAssumption
<1>1. /\ IndInv /\ VerbInv /\ SentSound /\ LoneUser(u) /\ now \in Nat
      /\ verbSince \in [Users -> (0 .. now) \cup {Null}]
  BY DEF Base, ThrottleInv, IndInv, CountsSound, HaproxySound
<1>2. PICK s : s = verbSince[u]
  OBVIOUS
<1>3. s # Null /\ u \in quiet \ Invalid =>
         /\ s \in Nat /\ u \in Exceeders
         /\ Exceeders \subseteq {u} => Exceeders = {u} /\ LoneParts(u, s)
  BY <1>1, <1>2 DEF LoneUser
<1>4. ASSUME verbSince'[u] = s, quiet' = quiet, Exceeders' = Exceeders,
             s # Null /\ u \in quiet \ Invalid /\ Exceeders \subseteq {u} => LoneParts(u, s)'
      PROVE  LoneUser(u)'
  BY <1>3, <1>4 DEF LoneUser
<1>5. ASSUME verbSince'[u] = Null PROVE LoneUser(u)'
  BY <1>5 DEF LoneUser
<1>6. ASSUME NEW w \in Workers, NEW k \in Kinds, ScanStep(w, k) PROVE LoneUser(u)'
  <2>1. /\ UNCHANGED <<now, exceeded, verbSince, quiet, vio_map>> /\ check_loop(w, "verb")
    BY <1>6 DEF ScanStep, check_loop, verbHistory
  <2>2. /\ task[w] = Null /\ task'[w] # Null /\ Alone(w)
        /\ task'[w].pc = "eval" /\ task'[w].at = now /\ task'[w].val[u] = 0
        /\ Range(task'[w].out) = {}
        /\ UNCHANGED <<epoch, new_keys, sent_keys, queue>>
    BY <1>1, <1>6, <2>1, ScanResult
  <2>3. s # Null /\ u \in quiet \ Invalid /\ Exceeders \subseteq {u} => LoneParts(u, s)'
    BY <1>3, <2>1, <2>2, LoneKept DEF Alone
  <2>4. QED
    BY <1>2, <1>4, <2>1, <2>3 DEF Exceeders
<1>7. ASSUME NEW w \in Workers, WorkerStep(w) PROVE LoneUser(u)'
  <2>1. CheckStep(w) /\ UNCHANGED <<vio_map, scanned, carried, verbSince, quiet>>
    BY <1>7 DEF WorkerStep, history, verbHistory
  <2>2. UNCHANGED <<now, exceeded>>
    BY <2>1, CheckKeeps
  <2>3. s # Null /\ u \in quiet \ Invalid /\ Exceeders \subseteq {u} => LoneParts(u, s)'
    BY <1>1, <1>3, <2>1, LoneCheckStep
  <2>4. QED
    BY <1>2, <1>4, <2>1, <2>2, <2>3 DEF Exceeders
<1>8. ASSUME ingest_policies PROVE LoneUser(u)'
  <2>1. UNCHANGED <<now, exceeded, verbSince, quiet>>
    BY <1>8 DEF ingest_policies, send_policy_to_haproxy, history, verbHistory
  <2>2. s # Null /\ u \in quiet \ Invalid /\ Exceeders \subseteq {u} => LoneParts(u, s)'
    BY <1>1, <1>3, <1>8, LoneIngest
  <2>3. QED
    BY <1>2, <1>4, <2>1, <2>2 DEF Exceeders
<1>9. ASSUME \/ \E w \in Workers : RedisError(w)
             \/ _send_policies_fails \/ GeneratorRestarts \/ HaproxyRestarts
      PROVE  LoneUser(u)'
  <2>1. verbSince'[u] = Null
    BY <1>9 DEF RedisError, _send_policies_fails, GeneratorRestarts, HaproxyRestarts, Failure
  <2>2. QED
    BY <1>5, <2>1
<1>10. ASSUME \/ \E x \in Users, n \in Counts \cup {Null} : CountChanges(x, n)
              \/ UNCHANGED vars
       PROVE  LoneUser(u)'
  <2>1. UNCHANGED <<now, task, epoch, new_keys, sent_keys, queue, vio_map, scanned, exceeded,
                    verbSince, quiet>>
    BY <1>10 DEF CountChanges, SetCount, vars, genVars, policies, history, verbHistory
  <2>2. s # Null /\ u \in quiet \ Invalid /\ Exceeders \subseteq {u} => LoneParts(u, s)'
    BY <1>3, <2>1, LoneKept
  <2>3. QED
    BY <1>2, <1>4, <2>1, <2>2 DEF Exceeders
<1>11. ASSUME NEW x \in Users, VerbExceeded(x) PROVE LoneUser(u)'
  <2>1. /\ x \notin Exceeders /\ exceeded' = exceeded \cup {<<Second(now), x>>}
        /\ verbSince' = [verbSince EXCEPT ![x] = now] /\ UNCHANGED now
        /\ quiet' = IF Quiet THEN quiet \cup {x} ELSE quiet
    BY <1>11 DEF VerbExceeded, Exceed, Exceeders, policies
  <2>2. Exceeders' = Exceeders \cup {x}
    BY <2>1 DEF Exceeders
  <2>3. CASE x # u
    <3>1. verbSince'[u] = s /\ (u \in quiet' => u \in quiet)
      BY <1>1, <1>2, <2>1, <2>3
    <3>2. /\ ~(Exceeders' \subseteq {u})
          /\ s # Null /\ u \in quiet \ Invalid => u \in Exceeders'
      BY <1>3, <2>2, <2>3
    <3>3. QED
      BY <3>1, <3>2 DEF LoneUser
  <2>4. CASE x = u
    <3>1. verbSince'[u] = now /\ u \in Exceeders'
      BY <1>1, <2>1, <2>2, <2>4
    <3>2. ASSUME Exceeders' \subseteq {u}, u \in quiet' PROVE LoneParts(u, now)'
      <4>1. Exceeders = {}
        BY <2>1, <2>2, <2>4, <3>2
      <4>2. Quiet
        BY <1>1, <2>1, <2>4, <3>2, <4>1 DEF SentSound
      <4>3. QED
        BY <1>1, <1>11, <2>4, <4>1, <4>2, LoneBegins
    <3>3. QED
      BY <2>1, <3>1, <3>2 DEF LoneUser
  <2>5. QED
    BY <2>3, <2>4
<1>12. ASSUME Tick PROVE LoneUser(u)'
  <2>1. UNCHANGED exceeded
    BY <1>12 DEF Tick
  <2>2. CASE Second(now') # Second(now)
    BY <1>5, <1>12, <2>2 DEF Tick, verbHistory
  <2>3. CASE Second(now') = Second(now)
    <3>1. verbSince'[u] = s /\ quiet' = quiet /\ Exceeders' = Exceeders
      BY <1>2, <1>12, <2>1, <2>3 DEF Tick, verbHistory, Exceeders
    <3>2. s # Null /\ u \in quiet \ Invalid /\ Exceeders \subseteq {u} => LoneParts(u, s)'
      BY <1>3, <1>12, <2>3, LoneTick
    <3>3. QED
      BY <1>4, <3>1, <3>2
  <2>4. QED
    BY <2>2, <2>3
<1>13. QED
  BY <1>6, <1>7, <1>8, <1>9, <1>10, <1>11, <1>12 DEF Next, EndOfRun


\* A user that gets over its verb limit in a second with nothing older under way, and stays
\* alone over it, is throttled within the length of three checks, and for the rest of the
\* second (Policies.add_violation, new_epoch, generate_violation_message, update_violates_map):
\* for any users, threads, restarts and losses and any length of a check, when only verb limits
\* are checked.
THEOREM LoneThrottled ==
  ASSUME Kinds = {"verb"}
  PROVE  Spec => []LoneExceededIsThrottled
<1> USE GeneratorAssumption
<1>1. Init => Base /\ ThrottleInv
  <2> SUFFICES ASSUME Init PROVE Base /\ ThrottleInv
    OBVIOUS
  <2>1. /\ \A u \in Users : verbSince[u] = Null
        /\ sent_keys["GET"] = {} /\ epoch = 0 /\ carried = {} /\ quiet = {}
    BY DEF Init, GenInit, NoKeys, Usages
  <2>2. SentSound /\ \A u \in Users : LoneUser(u)
    BY <2>1 DEF LoneUser, SentSound
  <2>3. QED
    BY <2>2, BaseInit, VerbInit DEF ThrottleInv
<1>2. Base /\ ThrottleInv /\ [Next]_vars => (Base /\ ThrottleInv)'
  <2> SUFFICES ASSUME Base, ThrottleInv, [Next]_vars PROVE Base' /\ ThrottleInv'
    OBVIOUS
  <2>1. Base' /\ VerbInv' /\ SentSound'
    BY BaseStep, VerbStep, SentStep DEF ThrottleInv
  <2>2. \A u \in Users : LoneUser(u)'
    BY LoneUserStep
  <2>3. QED
    BY <2>1, <2>2 DEF ThrottleInv
<1>3. Base /\ ThrottleInv => LoneExceededIsThrottled
  <2> SUFFICES ASSUME Base, ThrottleInv, NEW u \in quiet \ Invalid, verbSince[u] # Null,
                      now > verbSince[u] + 3 * MaxLag - 2,
                      \A v \in Users \ {u} : <<Second(now), v>> \notin exceeded
               PROVE  is_violater(Second(now), u)
    BY DEF LoneExceededIsThrottled
  <2>1. Exceeders \subseteq {u} /\ u \in Users
    BY DEF Exceeders, Base, IndInv, HaproxySound
  <2>2. LoneParts(u, verbSince[u])
    BY <2>1 DEF ThrottleInv, LoneUser
  <2>3. <<Second(now), u>> \in vio_map
    BY <2>2 DEF LoneParts
  <2>4. QED
    BY <2>3 DEF is_violater
<1>4. QED
  BY <1>1, <1>2, <1>3, PTL DEF Spec

-----------------------------------------------------------------------------
(* Active-request limits. *)

\* A message that blocks or unblocks nobody but users of R, and somebody.
ConnMessage(m, R) == m.usage # "GET" /\ m.keys # {} /\ m.keys \subseteq R

\* A check of active-request limits: the user it reports and its messages.
ConnCheck(c, R) ==
  /\ c.kind = "conn"
  /\ c.pc \in {"add", "new_epoch", "renew", "insert", "record"} => c.act # "GET" /\ c.cur \in R
  /\ \A m \in Range(c.out) : ConnMessage(m, R)

\* Everything on the way to HAProxy is about users that have been at the limit.
ConnTasks == \A w \in Workers : task[w] # Null => ConnCheck(task[w], reached)
ConnKeys == \A v \in Usages : new_keys[v] \subseteq reached /\ (v = "GET" => new_keys[v] = {})
ConnQueue == \A m \in Range(queue) : ConnMessage(m, reached)
ConnInv == ConnTasks /\ ConnKeys /\ ConnQueue

\* One check changes.
LEMMA ConnTaskReplaced ==
  ASSUME ConnTasks, NEW w \in Workers, Alone(w), UNCHANGED reached,
         task'[w] = Null \/ ConnCheck(task'[w], reached)
  PROVE  ConnTasks'
BY DEF ConnTasks, Alone

\* The user that a check of active requests reports, and as what.
LEMMA ExamineCases ==
  ASSUME IndInv, NEW w \in Workers, NEW u \in Users, _check_all_conn_key_violations(w, u)
  PROVE  /\ task[w] # Null /\ task[w].pc = "check" /\ task[w].kind = "conn"
         /\ task[w].val[u] \in Nat /\ task[w].at \in Nat
         /\ UNCHANGED <<now, redis, exceeded, blocked_users, epoch, new_keys, sent_keys, queue>>
         /\ \/ /\ u \in reached /\ task[w].val[u] > UnblockMax /\ Report(w, u, "reqs_block")
            \/ /\ u \in reached /\ task[w].val[u] <= UnblockMax /\ Report(w, u, "reqs_unblock")
            \/ /\ Examined(w, u)
               /\ task[w].val[u] >= Limit =>
                    blocked_users[u] # Null /\ blocked_users[u] + Backoff >= task[w].at
<1> USE GeneratorAssumption
<1> DEFINE c == task[w]
           n == c.val[u]
<1>1. /\ TasksSound /\ BlockedSound /\ c # Null /\ c.pc = "check" /\ c.kind = "conn" /\ n # Null
      /\ UNCHANGED <<now, redis, exceeded, blocked_users, epoch, new_keys, sent_keys, queue>>
      /\ \/ ShouldBlock(n, u, c.at) /\ Report(w, u, "reqs_block")
         \/ ShouldUnblock(n, u, c.at) /\ Report(w, u, "reqs_unblock")
         \/ ~ShouldBlock(n, u, c.at) /\ ~ShouldUnblock(n, u, c.at) /\ Examined(w, u)
  BY DEF IndInv, _check_all_conn_key_violations, At, policies
<1>2. c \in Check /\ Sound(c, now, reached)
  BY <1>1 DEF TasksSound, Sound
<1>3. n \in Nat /\ c.at \in Nat /\ (Over(n) => u \in reached)
  BY <1>1, <1>2 DEF Check, Sound
<1>4. /\ blocked_users[u] # Null => u \in reached /\ blocked_users[u] \in Nat
  BY <1>1 DEF BlockedSound
<1> HIDE DEF c, n
<1>5. ShouldBlock(n, u, c.at) => u \in reached /\ n > UnblockMax
  BY <1>3, <1>4 DEF ShouldBlock, Over
<1>6. ShouldUnblock(n, u, c.at) => u \in reached /\ n <= UnblockMax
  BY <1>3, <1>4 DEF ShouldUnblock
<1>7. ~ShouldBlock(n, u, c.at) /\ n >= Limit => blocked_users[u] # Null /\ blocked_users[u] + Backoff >= c.at
  BY <1>3, <1>4 DEF ShouldBlock, ReadyForHeartbeat
<1>8. QED
  BY <1>1, <1>3, <1>5, <1>6, <1>7 DEF c, n

\* Every step of a check.
LEMMA ConnCheckStep ==
  ASSUME Base, ConnInv, NEW w \in Workers, CheckStep(w) \/ RedisFails(w), UNCHANGED reached
  PROVE  ConnInv'
<1> USE GeneratorAssumption
<1>1. IndInv /\ ConnTasks /\ ConnKeys /\ ConnQueue
  BY DEF Base, ConnInv
<1>2. task[w] # Null => ConnCheck(task[w], reached)
  BY <1>1 DEF ConnTasks
<1>3. ASSUME ConnTasks', UNCHANGED <<new_keys, queue>> PROVE ConnInv'
  BY <1>1, <1>3 DEF ConnInv, ConnKeys, ConnQueue
<1>4. CASE call_redis_eval(w) \/ RedisFails(w) \/ create_user_level_metric_raises(w)
  <2>1. /\ Goes(w, "check") /\ Alone(w) /\ KeepsOut(w) /\ UNCHANGED <<new_keys, queue>>
    BY <1>1, <1>4, EvalResult, FailResult, UnparsableResult
  <2>2. ConnCheck(task'[w], reached)
    BY <1>2, <2>1 DEF ConnCheck, Goes, KeepsOut
  <2>3. QED
    BY <1>1, <1>3, <2>1, <2>2, ConnTaskReplaced
<1>5. ASSUME NEW u \in Users, _check_all_conn_key_violations(w, u) PROVE ConnInv'
  <2>1. /\ task[w] # Null /\ task[w].pc = "check" /\ UNCHANGED <<new_keys, queue>>
        /\ \/ u \in reached /\ \E v \in Usages \ {"GET"} : Report(w, u, v)
           \/ Examined(w, u)
    BY <1>1, <1>5, ExamineCases DEF Usages
  <2>2. /\ Alone(w) /\ KeepsOut(w)
        /\ \/ Goes(w, "add") /\ task'[w].cur \in reached /\ task'[w].act # "GET"
           \/ Goes(w, "check")
    BY <1>1, <2>1, ReportResult, ExaminedResult
  <2>3. ConnCheck(task'[w], reached)
    BY <1>2, <2>1, <2>2 DEF ConnCheck, Goes, KeepsOut
  <2>4. QED
    BY <1>1, <1>3, <2>1, <2>2, <2>3, ConnTaskReplaced
<1>6. ASSUME NEW u \in Users, _check_violation_per_key_verb(w, u) PROVE FALSE
  BY <1>2, <1>6 DEF _check_violation_per_key_verb, At, ConnCheck
<1>7. CASE see_new_epoch(w) \/ new_epoch(w)
  <2>1. PICK p \in {"new_epoch", "renew"} :
          /\ task[w].pc \in {"add", "new_epoch"}
          /\ Goes(w, p) /\ Alone(w) /\ KeepsCur(w) /\ KeepsOut(w)
          /\ UNCHANGED <<new_keys, queue>>
    BY <1>1, <1>7, SeeResult, EpochResult
  <2>2. ConnCheck(task'[w], reached)
    BY <1>2, <2>1 DEF ConnCheck, Goes, KeepsCur, KeepsOut
  <2>3. QED
    BY <1>1, <1>3, <2>1, <2>2, ConnTaskReplaced
<1>8. CASE generate_violation_message(w)
  <2>1. /\ task[w] # Null /\ task[w].pc = "check" /\ Alone(w)
        /\ UNCHANGED <<new_keys, queue>>
        /\ \/ task'[w] = Null
           \/ Goes(w, "mark") /\ Range(task'[w].out) = Messages(task[w].at)
    BY <1>1, <1>8, GenerateResult
  <2>2. ASSUME NEW m \in Messages(task[w].at) PROVE ConnMessage(m, reached)
    <3>1. PICK v \in Usages :
            new_keys[v] # {} /\ m = [usage |-> v, keys |-> new_keys[v], at |-> task[w].at]
      BY <2>2 DEF Messages
    <3>2. v # "GET" /\ new_keys[v] \subseteq reached
      BY <1>1, <3>1 DEF ConnKeys
    <3>3. QED
      BY <3>1, <3>2 DEF ConnMessage
  <2>3. task'[w] = Null \/ ConnCheck(task'[w], reached)
    BY <1>2, <2>1, <2>2 DEF ConnCheck, Goes
  <2>4. QED
    BY <1>1, <1>3, <2>1, <2>3, ConnTaskReplaced
<1>9. CASE add_violation(w)
  <2>1. /\ task[w].pc \in {"add", "insert"}
        /\ Goes(w, IF task[w].kind = "conn" THEN "record" ELSE "check")
        /\ Alone(w) /\ KeepsCur(w) /\ KeepsOut(w)
        /\ \A v \in Usages : new_keys'[v] =
              IF v = task[w].act /\ task[w].cur \notin sent_keys[v]
              THEN new_keys[v] \cup {task[w].cur} ELSE new_keys[v]
        /\ UNCHANGED queue
    BY <1>1, <1>9, AddResult
  <2>2. /\ ConnCheck(task[w], reached) /\ Goes(w, "record")
    BY <1>2, <2>1 DEF Goes, ConnCheck
  <2>3. task[w].act # "GET" /\ task[w].cur \in reached
    BY <2>1, <2>2 DEF ConnCheck
  <2>4. ConnCheck(task'[w], reached)
    BY <2>1, <2>2, <2>3 DEF ConnCheck, Goes, KeepsCur, KeepsOut
  <2>5. ConnTasks'
    BY <1>1, <2>1, <2>4, ConnTaskReplaced
  <2>6. ConnKeys'
    <3>1. ASSUME NEW v \in Usages
          PROVE  new_keys'[v] \subseteq reached /\ (v = "GET" => new_keys'[v] = {})
      <4>1. new_keys[v] \subseteq reached /\ (v = "GET" => new_keys[v] = {})
        BY <1>1 DEF ConnKeys
      <4>2. new_keys'[v] = new_keys[v] \/ (v # "GET" /\ new_keys'[v] = new_keys[v] \cup {task[w].cur})
        BY <2>1, <2>3
      <4>3. QED
        BY <2>3, <4>1, <4>2
    <3>2. QED
      BY <3>1 DEF ConnKeys
  <2>7. QED
    BY <1>1, <2>1, <2>5, <2>6 DEF ConnInv, ConnQueue
<1>10. CASE new_violations(w)
  <2>1. /\ task[w].pc = "renew"
        /\ Goes(w, "insert") /\ KeepsCur(w) /\ KeepsOut(w)
        /\ \A x \in Workers \ {w} :
             \/ task'[x] = task[x]
             \/ task[x].pc = "mark" /\ Goes(x, "mark") /\ task'[x].out = task[x].out
        /\ \A v \in Usages : new_keys'[v] = {}
        /\ UNCHANGED queue
    BY <1>1, <1>10, RenewResult
  <2>2. ASSUME NEW x \in Workers, task'[x] # Null PROVE ConnCheck(task'[x], reached)
    <3>1. CASE x = w
      BY <1>2, <2>1, <3>1 DEF ConnCheck, Goes, KeepsCur, KeepsOut
    <3>2. CASE x # w /\ task'[x] = task[x]
      BY <1>1, <2>2, <3>2 DEF ConnTasks
    <3>3. CASE task[x].pc = "mark" /\ Goes(x, "mark") /\ task'[x].out = task[x].out
      BY <1>1, <3>3 DEF ConnTasks, ConnCheck, Goes
    <3>4. QED
      BY <2>1, <3>1, <3>2, <3>3
  <2>3. QED
    BY <1>1, <2>1, <2>2 DEF ConnInv, ConnTasks, ConnKeys, ConnQueue
<1>11. CASE record(w)
  <2>1. Goes(w, "check") /\ Alone(w) /\ KeepsOut(w) /\ UNCHANGED <<new_keys, queue>>
    BY <1>1, <1>11, RecordResult
  <2>2. ConnCheck(task'[w], reached)
    BY <1>2, <2>1 DEF ConnCheck, Goes, KeepsOut
  <2>3. QED
    BY <1>1, <1>3, <2>1, <2>2, ConnTaskReplaced
<1>12. CASE mark_sent(w) \/ mark_raises(w)
  <2>1. /\ task[w] # Null /\ task[w].pc = "mark" /\ Alone(w)
        /\ task'[w] = Null \/ (Goes(w, "put") /\ KeepsOut(w))
        /\ \A v \in Usages : new_keys'[v] \subseteq new_keys[v]
        /\ UNCHANGED queue
    BY <1>1, <1>12, MarkResult, RaiseResult DEF Goes
  <2>2. task'[w] = Null \/ ConnCheck(task'[w], reached)
    BY <1>2, <2>1 DEF ConnCheck, Goes, KeepsOut
  <2>3. ConnTasks'
    BY <1>1, <2>1, <2>2, ConnTaskReplaced
  <2>4. QED
    BY <1>1, <2>1, <2>3 DEF ConnInv, ConnKeys, ConnQueue
<1>13. CASE add_message(w)
  <2>1. /\ task[w] # Null /\ task[w].pc = "put" /\ Alone(w)
        /\ \/ task'[w] = Null
           \/ Goes(w, "put") /\ Range(task'[w].out) \subseteq Range(task[w].out)
        /\ Range(queue') \subseteq Range(queue) \cup Range(task[w].out)
        /\ UNCHANGED new_keys
    BY <1>1, <1>13, PutResult
  <2>2. ConnCheck(task[w], reached)
    BY <1>2, <2>1
  <2>3. task'[w] = Null \/ ConnCheck(task'[w], reached)
    BY <2>1, <2>2 DEF ConnCheck, Goes
  <2>4. ConnTasks'
    BY <1>1, <2>1, <2>3, ConnTaskReplaced
  <2>5. ConnQueue'
    BY <1>1, <2>1, <2>2 DEF ConnQueue, ConnCheck
  <2>6. QED
    BY <1>1, <2>1, <2>4, <2>5 DEF ConnInv, ConnKeys
<1>14. QED
  BY <1>4, <1>5, <1>6, <1>7, <1>8, <1>9, <1>10, <1>11, <1>12, <1>13 DEF CheckStep

\* At start-up.
LEMMA ConnInit == Init => ConnInv
<1> SUFFICES ASSUME Init PROVE ConnInv
  OBVIOUS
<1>1. Range(queue) = {}
  BY Ranges DEF Init, GenInit
<1>2. QED
  BY <1>1 DEF Init, GenInit, ConnInv, ConnTasks, ConnKeys, ConnQueue, NoKeys

\* Every step of the loop.
LEMMA ConnStep ==
  ASSUME Kinds \subseteq {"conn"}, Base, ConnInv, [Next]_vars
  PROVE  ConnInv'
<1> USE GeneratorAssumption
<1>1. IndInv /\ ConnTasks /\ ConnKeys /\ ConnQueue
  BY DEF Base, ConnInv
<1>2. ASSUME UNCHANGED <<task, new_keys>>, queue' = queue \/ queue' = <<>>,
             reached \subseteq reached'
      PROVE  ConnInv'
  <2>1. \A m : ConnMessage(m, reached) => ConnMessage(m, reached')
    BY <1>2 DEF ConnMessage
  <2>2. ConnTasks'
    BY <1>1, <1>2, <2>1 DEF ConnTasks, ConnCheck
  <2>3. ConnKeys'
    BY <1>1, <1>2 DEF ConnKeys
  <2>4. ConnQueue'
    BY <1>1, <1>2, <2>1, Ranges DEF ConnQueue
  <2>5. QED
    BY <2>2, <2>3, <2>4 DEF ConnInv
<1>3. ASSUME NEW w \in Workers, NEW k \in Kinds, ScanStep(w, k) PROVE ConnInv'
  <2>1. /\ Alone(w) /\ UNCHANGED reached
        /\ task'[w].pc = "eval" /\ task'[w].kind = "conn" /\ Range(task'[w].out) = {}
        /\ UNCHANGED <<new_keys, queue>>
    BY <1>1, <1>3, ScanResult DEF ScanStep
  <2>2. ConnCheck(task'[w], reached)
    BY <2>1 DEF ConnCheck
  <2>3. ConnTasks'
    BY <1>1, <2>1, <2>2, ConnTaskReplaced
  <2>4. QED
    BY <1>1, <2>1, <2>3 DEF ConnInv, ConnKeys, ConnQueue
<1>4. ASSUME NEW w \in Workers, WorkerStep(w) \/ RedisError(w) PROVE ConnInv'
  <2>1. (CheckStep(w) \/ RedisFails(w)) /\ UNCHANGED reached
    BY <1>4 DEF WorkerStep, RedisError, Failure, history
  <2>2. QED
    BY <2>1, ConnCheckStep
<1>5. ASSUME ingest_policies \/ _send_policies_fails PROVE ConnInv'
  <2>1. UNCHANGED <<task, new_keys, reached>> /\ queue' = <<>>
    BY <1>5 DEF ingest_policies, _send_policies_fails, send_policy_to_haproxy, policies, Failure,
       history
  <2>2. QED
    BY <1>2, <2>1
<1>6. ASSUME GeneratorRestarts PROVE ConnInv'
  <2>1. /\ \A w \in Workers : task'[w] = Null
        /\ \A v \in Usages : new_keys'[v] = {}
        /\ queue' = <<>>
    BY <1>6 DEF GeneratorRestarts, RestartGenerator, NoKeys
  <2>2. ConnQueue'
    BY <2>1, Ranges DEF ConnQueue
  <2>3. QED
    BY <2>1, <2>2 DEF ConnInv, ConnTasks, ConnKeys
<1>7. ASSUME HaproxyRestarts \/ UNCHANGED vars PROVE ConnInv'
  <2>1. UNCHANGED <<task, new_keys, queue, reached>>
    BY <1>7 DEF HaproxyRestarts, vars, genVars, policies, Failure, history
  <2>2. QED
    BY <1>2, <2>1
<1>8. ASSUME NEW u \in Users, NEW n \in Counts \cup {Null}, CountChanges(u, n) PROVE ConnInv'
  BY <1>2, <1>8 DEF CountChanges, SetCount, policies
<1>9. ASSUME NEW u \in Users, VerbExceeded(u) PROVE ConnInv'
  BY <1>2, <1>9 DEF VerbExceeded, Exceed, policies
<1>10. ASSUME Tick PROVE ConnInv'
  BY <1>2, <1>10 DEF Tick, policies
<1>11. QED
  BY <1>3, <1>4, <1>5, <1>6, <1>7, <1>8, <1>9, <1>10 DEF Next, EndOfRun

-----------------------------------------------------------------------------
(* A report that is made no more. *)

\* One of the messages is of usage v.
Says(v, s) == \E m \in Range(s) : m.usage = v

\* A check whose scan was by time c, and that will send or has to mark a message of usage v.
Sender(v, k, c) ==
  /\ k # Null /\ k.at <= c
  /\ Working(k) \/ (k.pc = "mark" /\ ~k.stale /\ Says(v, k.out))

\* A check reports v only if its scan is older than c, and has it in a message only if it found
\* the report of such a check.
FadingTask(v, k, c) ==
  /\ Reporting(k) /\ k.act = v => k.at <= c
  /\ Says(v, k.out) => k.at <= c + MaxLag - 1

\* Since c, no check has found a reason to report u as v.
FadingTasks(v, c) == \A w \in Workers : task[w] # Null => FadingTask(v, task[w], c)
FadingKeys(v, u, c) == u \in new_keys[v] => \E w \in Workers : Sender(v, task[w], c)
FadingQueue(v, c) == Says(v, queue) => now <= c + 2 * (MaxLag - 1)
Fading(v, u, c) == FadingTasks(v, c) /\ FadingKeys(v, u, c) /\ FadingQueue(v, c)

\* A step of a check that does not report v anew, when u is the only user that was at the limit.
LEMMA FadingStep ==
  ASSUME Base, ConnInv, NEW v \in Usages, NEW u \in Users, NEW c \in Nat, reached \subseteq {u},
         Fading(v, u, c), NEW w \in Workers, CheckStep(w) \/ RedisFails(w), UNCHANGED reached,
         \A x \in Users : _check_all_conn_key_violations(w, x) /\ Report(w, x, v)
                            => task[w].at <= c
  PROVE  Fading(v, u, c)'
<1> USE GeneratorAssumption, LoopAssumption
<1> DEFINE L == MaxLag
<1>1. /\ IndInv /\ ConnTasks /\ ConnKeys /\ ConnQueue /\ now \in Nat /\ UNCHANGED now
      /\ FadingTasks(v, c) /\ FadingKeys(v, u, c) /\ FadingQueue(v, c)
  BY CheckKeeps DEF Base, ConnInv, IndInv, CountsSound, Fading
<1>2. task[w] # Null => ConnCheck(task[w], reached) /\ FadingTask(v, task[w], c)
                          /\ task[w].at \in Nat /\ task[w].at <= now /\ now < task[w].at + L
  BY <1>1, MessagesKnown DEF ConnTasks, FadingTasks, Base, Timely
<1>3. ASSUME Alone(w), task'[w] = Null \/ FadingTask(v, task'[w], c) PROVE FadingTasks(v, c)'
  BY <1>1, <1>3 DEF FadingTasks, Alone
<1>4. ASSUME Alone(w), new_keys'[v] \subseteq new_keys[v],
             Sender(v, task[w], c) => Sender(v, task'[w], c)
      PROVE  FadingKeys(v, u, c)'
  BY <1>1, <1>4 DEF FadingKeys, Alone
<1>5. ASSUME UNCHANGED queue PROVE FadingQueue(v, c)'
  BY <1>1, <1>5 DEF FadingQueue
<1>6. ASSUME NEW p \in {"check", "add", "new_epoch", "renew", "insert", "record"}, Goes(w, p),
             Sender(v, task[w], c)
      PROVE  Sender(v, task'[w], c)
  BY <1>6 DEF Sender, Working, Goes
<1>7. CASE \/ call_redis_eval(w) \/ RedisFails(w) \/ create_user_level_metric_raises(w)
           \/ record(w)
  <2>1. /\ Goes(w, "check") /\ Alone(w) /\ KeepsOut(w) /\ UNCHANGED <<new_keys, queue>>
    BY <1>1, <1>7, EvalResult, FailResult, UnparsableResult, RecordResult
  <2>2. FadingTask(v, task'[w], c)
    BY <1>2, <2>1 DEF FadingTask, Goes, KeepsOut, Reporting
  <2>3. QED
    BY <1>3, <1>4, <1>5, <1>6, <2>1, <2>2 DEF Fading
<1>8. ASSUME NEW x \in Users, _check_all_conn_key_violations(w, x) PROVE Fading(v, u, c)'
  <2>1. /\ task[w] # Null /\ task[w].pc = "check" /\ UNCHANGED <<new_keys, queue>>
        /\ Examined(w, x) \/ \E y \in Usages : Report(w, x, y)
    BY <1>1, <1>8, ExamineCases DEF Usages
  <2>2. ASSUME NEW y \in Usages, Report(w, x, y) PROVE Fading(v, u, c)'
    <3>1. Goes(w, "add") /\ Alone(w) /\ KeepsOut(w) /\ task'[w].act = y
      BY <1>1, <2>1, <2>2, ReportResult
    <3>2. y = v => task[w].at <= c
      BY <1>8, <2>2
    <3>3. FadingTask(v, task'[w], c)
      BY <1>2, <2>1, <3>1, <3>2 DEF FadingTask, Goes, KeepsOut
    <3>4. QED
      BY <1>3, <1>4, <1>5, <1>6, <2>1, <3>1, <3>3 DEF Fading
  <2>3. CASE Examined(w, x)
    <3>1. Goes(w, "check") /\ Alone(w) /\ KeepsOut(w)
      BY <1>1, <2>1, <2>3, ExaminedResult
    <3>2. FadingTask(v, task'[w], c)
      BY <1>2, <2>1, <3>1 DEF FadingTask, Goes, KeepsOut, Reporting
    <3>3. QED
      BY <1>3, <1>4, <1>5, <1>6, <2>1, <3>1, <3>2 DEF Fading
  <2>4. QED
    BY <2>1, <2>2, <2>3
<1>9. ASSUME NEW x \in Users, _check_violation_per_key_verb(w, x) PROVE FALSE
  BY <1>2, <1>9 DEF _check_violation_per_key_verb, At, ConnCheck
<1>10. CASE see_new_epoch(w) \/ new_epoch(w)
  <2>1. PICK p \in {"new_epoch", "renew"} :
          /\ task[w].pc \in {"add", "new_epoch"}
          /\ Goes(w, p) /\ Alone(w) /\ KeepsCur(w) /\ KeepsOut(w)
          /\ UNCHANGED <<new_keys, queue>>
    BY <1>1, <1>10, SeeResult, EpochResult
  <2>2. FadingTask(v, task'[w], c)
    BY <1>2, <2>1 DEF FadingTask, Goes, KeepsCur, KeepsOut, Reporting
  <2>3. QED
    BY <1>3, <1>4, <1>5, <1>6, <2>1, <2>2 DEF Fading
<1>11. CASE add_violation(w)
  <2>1. /\ task[w].pc \in {"add", "insert"}
        /\ Goes(w, IF task[w].kind = "conn" THEN "record" ELSE "check")
        /\ Alone(w) /\ KeepsCur(w) /\ KeepsOut(w)
        /\ new_keys'[v] = IF v = task[w].act /\ task[w].cur \notin sent_keys[v]
                          THEN new_keys[v] \cup {task[w].cur} ELSE new_keys[v]
        /\ UNCHANGED queue
    BY <1>1, <1>11, AddResult
  <2>2. Goes(w, "record")
    BY <1>2, <2>1 DEF Goes, ConnCheck
  <2>3. FadingTask(v, task'[w], c)
    BY <1>2, <2>1, <2>2 DEF FadingTask, Goes, KeepsCur, KeepsOut, Reporting
  <2>4. CASE task[w].act = v
    <3>1. task[w].at <= c
      BY <1>2, <2>1, <2>2, <2>4 DEF FadingTask, Reporting, Goes
    <3>2. Sender(v, task'[w], c)
      BY <2>2, <3>1 DEF Sender, Working, Goes
    <3>3. FadingKeys(v, u, c)'
      BY <3>2 DEF FadingKeys
    <3>4. QED
      BY <1>3, <1>5, <2>1, <2>3, <3>3 DEF Fading
  <2>5. CASE task[w].act # v
    BY <1>3, <1>4, <1>5, <1>6, <2>1, <2>2, <2>3, <2>5 DEF Fading
  <2>6. QED
    BY <2>4, <2>5
<1>12. CASE new_violations(w)
  <2>1. /\ task[w].pc = "renew"
        /\ Goes(w, "insert") /\ KeepsCur(w) /\ KeepsOut(w)
        /\ \A x \in Workers \ {w} :
             \/ task'[x] = task[x]
             \/ /\ task[x].pc = "mark" /\ Goes(x, "mark") /\ KeepsCur(x)
                /\ task'[x].out = task[x].out
        /\ new_keys'[v] = {}
        /\ UNCHANGED queue
    BY <1>1, <1>12, RenewResult
  <2>2. ASSUME NEW x \in Workers, task'[x] # Null PROVE FadingTask(v, task'[x], c)
    <3>1. CASE x = w
      BY <1>2, <2>1, <3>1 DEF FadingTask, Goes, KeepsCur, KeepsOut, Reporting
    <3>2. CASE x # w /\ task'[x] = task[x]
      BY <1>1, <2>2, <3>2 DEF FadingTasks
    <3>3. CASE /\ task[x].pc = "mark" /\ Goes(x, "mark") /\ KeepsCur(x)
               /\ task'[x].out = task[x].out
      BY <1>1, <3>3 DEF FadingTasks, FadingTask, Goes, KeepsCur, Reporting
    <3>4. QED
      BY <2>1, <3>1, <3>2, <3>3
  <2>3. QED
    BY <1>5, <2>1, <2>2 DEF Fading, FadingTasks, FadingKeys
<1>13. CASE generate_violation_message(w)
  <2>1. /\ task[w] # Null /\ task[w].pc = "check" /\ Alone(w)
        /\ UNCHANGED <<new_keys, queue>>
        /\ \/ task'[w] = Null /\ new_keys[v] = {}
           \/ /\ Goes(w, "mark") /\ ~task'[w].stale
              /\ Range(task'[w].out) = Messages(task[w].at)
    BY <1>1, <1>13, GenerateResult
  <2>2. CASE task'[w] = Null /\ new_keys[v] = {}
    BY <1>1, <1>3, <1>5, <2>1, <2>2 DEF Fading, FadingKeys
  <2>3. CASE /\ Goes(w, "mark") /\ ~task'[w].stale
             /\ Range(task'[w].out) = Messages(task[w].at)
    <3>1. Says(v, task'[w].out) <=> new_keys[v] # {}
      <4>1. (\E m \in Messages(task[w].at) : m.usage = v) <=> new_keys[v] # {}
        <5> DEFINE f(y) == [usage |-> y, keys |-> new_keys[y], at |-> task[w].at]
        <5>1. Messages(task[w].at) = {f(y) : y \in {x \in Usages : new_keys[x] # {}}}
          BY DEF Messages
        <5>2. \A y : f(y).usage = y
          OBVIOUS
        <5> HIDE DEF f
        <5>3. QED
          BY <1>1, <5>1, <5>2
      <4>2. QED
        BY <2>3, <4>1 DEF Says
    <3>2. new_keys[v] # {} => u \in new_keys[v]
      BY <1>1 DEF ConnKeys
    <3>3. ASSUME u \in new_keys[v] PROVE now <= c + L - 1
      <4>1. PICK x \in Workers : Sender(v, task[x], c)
        BY <1>1, <3>3 DEF FadingKeys
      <4>2. task[x].at \in Nat /\ task[x].at <= c /\ now < task[x].at + L
        BY <1>1, <4>1, MessagesKnown DEF Sender, Base, Timely
      <4>3. QED
        BY <1>1, <4>2
    <3>4. Says(v, task'[w].out) => task'[w].at <= c + L - 1
      BY <1>1, <1>2, <2>1, <2>3, <3>1, <3>2, <3>3 DEF Goes
    <3>5. FadingTask(v, task'[w], c)
      BY <1>2, <2>1, <2>3, <3>4 DEF FadingTask, Goes, Reporting
    <3>6. u \in new_keys[v] /\ Sender(v, task[w], c) => Sender(v, task'[w], c)
      BY <2>3, <3>1 DEF Sender, Goes
    <3>7. FadingKeys(v, u, c)'
      BY <1>1, <1>4, <2>1, <3>6 DEF FadingKeys
    <3>8. QED
      BY <1>3, <1>5, <2>1, <3>5, <3>7 DEF Fading
  <2>4. QED
    BY <2>1, <2>2, <2>3
<1>14. CASE mark_sent(w)
  <2>1. /\ task[w].pc = "mark" /\ Alone(w) /\ UNCHANGED queue
        /\ Goes(w, "put") /\ KeepsCur(w) /\ KeepsOut(w)
        /\ \/ task[w].stale /\ UNCHANGED new_keys
           \/ new_keys'[v] = IF v \in Generated(w) THEN {} ELSE new_keys[v]
    BY <1>1, <1>14, MarkResult
  <2>2. FadingTask(v, task'[w], c)
    BY <1>2, <2>1 DEF FadingTask, Goes, KeepsOut, Reporting
  <2>3. Says(v, task[w].out) => v \in Generated(w)
    BY DEF Says, Generated
  <2>4. FadingKeys(v, u, c)'
    <3>1. CASE new_keys'[v] = {}
      BY <3>1 DEF FadingKeys
    <3>2. CASE new_keys'[v] # {}
      <4>1. ~Sender(v, task[w], c) /\ new_keys'[v] = new_keys[v]
        BY <2>1, <2>3, <3>2 DEF Sender, Working
      <4>2. QED
        BY <1>4, <2>1, <4>1
    <3>3. QED
      BY <3>1, <3>2
  <2>5. QED
    BY <1>3, <1>5, <2>1, <2>2, <2>4 DEF Fading
<1>15. ASSUME mark_raises(w) PROVE FALSE
  <2>1. PICK m \in Range(task[w].out) : task[w] # Null /\ ~(new_keys[m.usage] \subseteq m.keys)
    BY <1>1, <1>15, RaiseResult
  <2>2. m.keys = {u} /\ m.usage \in Usages
    BY <1>1, <1>2, <2>1, MessagesKnown DEF ConnCheck, ConnMessage
  <2>3. new_keys[m.usage] \subseteq {u}
    BY <1>1, <2>2 DEF ConnKeys
  <2>4. QED
    BY <2>1, <2>2, <2>3
<1>16. CASE add_message(w)
  <2>1. /\ task[w] # Null /\ task[w].pc = "put" /\ Alone(w)
        /\ \/ task'[w] = Null
           \/ /\ Goes(w, "put")
              /\ Range(task'[w].out) \subseteq Range(task[w].out)
        /\ Range(queue') \subseteq Range(queue) \cup Range(task[w].out)
        /\ UNCHANGED new_keys
    BY <1>1, <1>16, PutResult
  <2>2. task'[w] = Null \/ FadingTask(v, task'[w], c)
    BY <1>2, <2>1 DEF FadingTask, Goes, Reporting, Says
  <2>3. ~Sender(v, task[w], c)
    BY <2>1 DEF Sender, Working
  <2>4. FadingQueue(v, c)'
    <3>1. Says(v, queue') => Says(v, queue) \/ Says(v, task[w].out)
      BY <2>1 DEF Says
    <3>2. Says(v, task[w].out) => now <= c + 2 * (L - 1)
      BY <1>1, <1>2, <2>1 DEF FadingTask
    <3>3. QED
      BY <1>1, <2>1, <3>1, <3>2 DEF FadingQueue
  <2>5. QED
    BY <1>3, <1>4, <2>1, <2>2, <2>3, <2>4 DEF Fading
<1>17. QED
  BY <1>7, <1>8, <1>9, <1>10, <1>11, <1>12, <1>13, <1>14, <1>15, <1>16 DEF CheckStep

\* Whatever checks, keys and messages there are is of now.
LEMMA FadingBegins ==
  ASSUME Base', NEW v \in Usages, NEW u \in Users, NEW c \in Nat, now' = c
  PROVE  Fading(v, u, c)'
<1> USE LoopAssumption
<1>1. \A w \in Workers : task'[w] # Null => task'[w].at \in Nat /\ task'[w].at <= c
  <2>1. TasksSound'
    BY DEF Base, IndInv
  <2>2. QED
    BY <2>1 DEF TasksSound, Sound, Check
<1>2. FadingTasks(v, c)'
  BY <1>1 DEF FadingTasks, FadingTask
<1>3. FadingQueue(v, c)'
  BY DEF FadingQueue
<1>4. FadingKeys(v, u, c)'
  <2> SUFFICES ASSUME u \in new_keys'[v] PROVE \E w \in Workers : Sender(v, task[w], c)'
    BY DEF FadingKeys
  <2>1. PICK w \in Workers : Working(task[w])' \/ Covers(task[w])'
    BY DEF Base, NoKeyForgotten
  <2>2. Sender(v, task[w], c)'
    BY <1>1, <2>1 DEF Sender, Working, Covers, Says
  <2>3. QED
    BY <2>2
<1>5. QED
  BY <1>2, <1>3, <1>4 DEF Fading

\* A scan, and steps that leave the checks and keys alone; the clock finds the queue empty.
LEMMA FadingKept ==
  ASSUME NEW v, NEW u, NEW c, Fading(v, u, c),
         \A w \in Workers : task[w] # Null => task'[w] = task[w],
         \A w \in Workers : task'[w] # Null /\ task[w] = Null =>
            task'[w].pc = "eval" /\ Range(task'[w].out) = {},
         UNCHANGED new_keys, UNCHANGED <<queue, now>> \/ queue' = <<>>
  PROVE  Fading(v, u, c)'
<1>1. FadingTasks(v, c)'
  BY DEF Fading, FadingTasks, FadingTask, Reporting, Says
<1>2. FadingKeys(v, u, c)'
  BY DEF Fading, FadingKeys, Sender
<1>3. FadingQueue(v, c)'
  BY Ranges DEF Fading, FadingQueue, Says
<1>4. QED
  BY <1>1, <1>2, <1>3 DEF Fading

-----------------------------------------------------------------------------
(* A user that is low. *)

\* The values of a check are the ones it read, until it is done with them.
LEMMA ValuesStep ==
  ASSUME IndInv, ConnTasks, NEW w \in Workers, CheckStep(w) \/ RedisFails(w),
         NEW x \in Workers, task'[x] # Null, NEW y \in Users
  PROVE  /\ \/ task'[x].val[y] = Null
            \/ task'[x].val[y] = task[x].val[y] /\ (task[x].pc = "eval" => task'[x].pc = "eval")
            \/ /\ task[x].pc = "eval" /\ task[x].val[y] # Null
               /\ task'[x].val[y] = IF redis[y] = Null THEN 0 ELSE redis[y]
         /\ task'[x].pc = "eval" => task[x].pc = "eval" /\ task'[x].val = task[x].val
<1>1. OthersKeep(w) /\ task[x] # Null
  BY OthersOfStep, ScanKept
<1>2. CASE x # w
  BY <1>1, <1>2 DEF OthersKeep
<1>3. CASE x = w
  <2>1. CASE RedisFails(w) \/ create_user_level_metric_raises(w)
    BY <1>3, <2>1, FailResult, UnparsableResult DEF Goes
  <2>2. CASE call_redis_eval(w)
    <3>1. /\ task[w].pc = "eval" /\ Goes(w, "check")
          /\ task'[w].val[y] =
              CASE task[w].val[y] = Null    -> Null
                [] task[w].kind = "verb"    -> IF <<Second(task[w].at), y>> \in exceeded THEN 1 ELSE 0
                [] OTHER                    -> IF redis[y] = Null THEN 0 ELSE redis[y]
      BY <2>2, EvalResult
    <3>2. task[w].kind = "conn"
      BY <1>1, <1>3 DEF ConnTasks, ConnCheck
    <3>3. CASE task[w].val[y] = Null
      <4>1. task'[w].val[y] = Null
        BY <3>1, <3>2, <3>3
      <4>2. QED
        BY <1>3, <3>1, <4>1 DEF Goes
    <3>4. CASE task[w].val[y] # Null
      BY <1>3, <3>1, <3>2, <3>4 DEF Goes
    <3>5. QED
      BY <3>3, <3>4
  <2>3. ASSUME NEW z \in Users, _check_all_conn_key_violations(w, z) PROVE
          /\ task'[w].val[y] \in {Null, task[w].val[y]}
          /\ task[w].pc = "check" /\ task'[w].pc \in {"add", "check"}
    <3>1. task[w] # Null /\ task[w].pc = "check" /\ (Examined(w, z) \/ \E v \in Usages : Report(w, z, v))
      BY <2>3 DEF _check_all_conn_key_violations, At, Usages
    <3>2. CASE Examined(w, z)
      BY <3>1, <3>2, ExaminedResult DEF Goes
    <3>3. ASSUME NEW v \in Usages, Report(w, z, v) PROVE KeepsVal(w) /\ Goes(w, "add")
      BY <3>1, <3>3, ReportResult
    <3>4. QED
      BY <3>1, <3>2, <3>3 DEF Goes, KeepsVal
  <2>4. ASSUME NEW z \in Users, _check_violation_per_key_verb(w, z) PROVE FALSE
    BY <2>4 DEF _check_violation_per_key_verb, At, ConnTasks, ConnCheck
  <2>5. CASE \/ see_new_epoch(w) \/ new_epoch(w) \/ new_violations(w) \/ mark_sent(w)
             \/ generate_violation_message(w) \/ add_message(w)
    <3>1. /\ KeepsVal(w) /\ task[w].pc # "eval"
          /\ \E p \in {"new_epoch", "renew", "insert", "put", "mark"} : Goes(w, p)
      BY <1>3, <2>5, SeeResult, EpochResult, RenewResult, MarkResult, GenerateResult, PutResult
    <3>2. QED
      BY <1>3, <3>1 DEF KeepsVal, Goes
  <2>6. CASE add_violation(w)
    <3>1. /\ task[w].pc # "eval" /\ task'[w].val[y] \in {Null, task[w].val[y]}
          /\ \E p \in {"record", "check"} : Goes(w, p)
      BY <2>6, AddResult
    <3>2. QED
      BY <1>3, <3>1 DEF Goes
  <2>7. CASE record(w)
    <3>1. /\ task[w].pc # "eval" /\ task'[w].val[y] \in {Null, task[w].val[y]} /\ Goes(w, "check")
      BY <2>7, RecordResult DEF KeepsVal
    <3>2. QED
      BY <1>3, <3>1 DEF Goes
  <2>8. ~mark_raises(w)
    BY <1>3, RaiseResult
  <2>9. QED
    BY <1>3, <2>1, <2>2, <2>3, <2>4, <2>5, <2>6, <2>7, <2>8 DEF CheckStep
<1>4. QED
  BY <1>2, <1>3

\* Of a user that is low since c, a check knows a high count only if its scan is older.
CalmValues(u, c) ==
  \A w \in Workers : task[w] # Null /\ task[w].val[u] # Null /\ task[w].val[u] > UnblockMax
                       => task[w].at <= c

\* HAProxy was last told to block it when the last of those checks' messages came.
CalmMap(u, c) == reqs_map[u] # Null => reqs_map[u] <= Second(c + 2 * (MaxLag - 1))

\* All of it, for a user that is low since c.
CalmParts(u, c) == CalmValues(u, c) /\ Fading("reqs_block", u, c) /\ CalmMap(u, c)

\* For the only user that has been at the limit.
CalmUser(u) ==
  calmSince[u] # Null /\ reached \subseteq {u} => CalmParts(u, calmSince[u])

\* A user is low since some time if and only if it is low.
CalmKnown == \A u \in Users : calmSince[u] = Null <=> ~Calm(redis[u])

\* The invariant of CalmUnblocked.
CalmInv == ConnInv /\ CalmKnown /\ \A u \in Users : CalmUser(u)

\* A step of a check, for a user that is low since c and the only one that was at the limit.
LEMMA CalmCheckStep ==
  ASSUME Base, ConnInv, NEW u \in Users, NEW c \in Nat, reached \subseteq {u}, Calm(redis[u]),
         CalmParts(u, c), NEW w \in Workers, CheckStep(w) \/ RedisFails(w),
         UNCHANGED <<reached, reqs_map>>
  PROVE  CalmParts(u, c)'
<1> USE GeneratorAssumption
<1>1. /\ IndInv /\ ConnTasks /\ CalmValues(u, c) /\ Fading("reqs_block", u, c)
      /\ "reqs_block" \in Usages
  BY DEF Base, ConnInv, CalmParts, Usages
<1>2. CalmValues(u, c)'
  <2> SUFFICES ASSUME NEW x \in Workers, task'[x] # Null, task'[x].val[u] # Null,
                      task'[x].val[u] > UnblockMax
               PROVE  task'[x].at <= c
    BY DEF CalmValues
  <2>1. task[x] # Null /\ task'[x].at = task[x].at
    BY <1>1, ScanKept
  <2>2. task'[x].val[u] = task[x].val[u] \/ task'[x].val[u] = IF redis[u] = Null THEN 0 ELSE redis[u]
    BY <1>1, ValuesStep
  <2>3. task'[x].val[u] = task[x].val[u]
    BY <2>2 DEF Calm
  <2>4. QED
    BY <1>1, <2>1, <2>3 DEF CalmValues
<1>3. ASSUME NEW x \in Users, _check_all_conn_key_violations(w, x), Report(w, x, "reqs_block")
      PROVE  task[w].at <= c
  <2>1. /\ task[w] # Null /\ task[w].pc = "check" /\ task[w].val[x] \in Nat
        /\ \/ u = x /\ task[w].val[x] > UnblockMax
           \/ Report(w, x, "reqs_unblock")
           \/ Examined(w, x)
    BY <1>1, <1>3, ExamineCases
  <2>2. task'[w].act = "reqs_block" /\ Goes(w, "add")
    BY <1>1, <1>3, <2>1, ReportResult
  <2>3. ~Report(w, x, "reqs_unblock") /\ ~Examined(w, x)
    BY <1>1, <2>1, <2>2, ReportResult, ExaminedResult DEF Usages, Goes
  <2>4. QED
    BY <1>1, <2>1, <2>3 DEF CalmValues
<1>4. Fading("reqs_block", u, c)'
  BY <1>1, <1>3, FadingStep
<1>5. CalmMap(u, c)'
  BY DEF CalmParts, CalmMap
<1>6. QED
  BY <1>2, <1>4, <1>5 DEF CalmParts

\* A count becomes low now: whatever is known of it is of now.
LEMMA CalmBegins ==
  ASSUME Base', NEW u \in Users, NEW c \in Nat, now' = c
  PROVE  CalmParts(u, c)'
<1> USE LoopAssumption
<1>1. Fading("reqs_block", u, c)'
  BY FadingBegins DEF Usages
<1>2. CalmValues(u, c)'
  <2>1. TasksSound'
    BY DEF Base, IndInv
  <2>2. QED
    BY <2>1 DEF TasksSound, Sound, Check, CalmValues
<1>3. CalmMap(u, c)'
  <2>1. reqs_map'[u] # Null => reqs_map'[u] \in 0 .. Second(c)
    BY DEF Base, IndInv, HaproxySound
  <2>2. PICK e \in Nat : e = c + 2 * (MaxLag - 1)
    OBVIOUS
  <2>3. Second(c) <= Second(e) /\ Second(c) \in Nat /\ Second(e) \in Nat
    BY <2>2, SecondMonotone
  <2>4. QED
    BY <2>1, <2>2, <2>3 DEF CalmMap
<1>4. QED
  BY <1>1, <1>2, <1>3 DEF CalmParts

\* At start-up all users are low.
LEMMA CalmInit == Init => CalmInv
<1> SUFFICES ASSUME Init PROVE CalmInv
  OBVIOUS
<1>1. ConnInv /\ Range(queue) = {}
  BY ConnInit, Ranges DEF Init, GenInit
<1>2. CalmKnown
  BY GeneratorAssumption DEF CalmKnown, Init, GenInit, Calm
<1>3. ASSUME NEW u \in Users PROVE CalmParts(u, calmSince[u])
  <2>1. /\ \A w \in Workers : task[w] = Null
        /\ new_keys["reqs_block"] = {} /\ reqs_map[u] = Null
    BY DEF Init, GenInit, NoKeys, Usages
  <2>2. QED
    BY <1>1, <2>1 DEF CalmParts, CalmValues, CalmMap, Fading, FadingTasks, FadingKeys, FadingQueue,
       Says
<1>4. QED
  BY <1>1, <1>2, <1>3 DEF CalmInv, CalmUser

\* A user is low since some time exactly when its count is low.
LEMMA CalmKnownStep ==
  ASSUME Base, CalmKnown, [Next]_vars
  PROVE  CalmKnown'
<1> USE GeneratorAssumption
<1>1. ASSUME UNCHANGED <<redis, calmSince>> PROVE CalmKnown'
  BY <1>1 DEF CalmKnown
<1>2. ASSUME NEW u \in Users, NEW n \in Counts \cup {Null}, CountChanges(u, n) PROVE CalmKnown'
  <2>1. /\ redis' = [redis EXCEPT ![u] = n] /\ now \in Nat
        /\ calmSince' = [calmSince EXCEPT ![u] =
             IF ~Calm(n) THEN Null ELSE IF calmSince[u] = Null THEN now ELSE calmSince[u]]
        /\ redis \in [Users -> Counts \cup {Null}]
        /\ calmSince \in [Users -> (0 .. now) \cup {Null}]
    BY <1>2 DEF CountChanges, SetCount, Base, IndInv, CountsSound, HaproxySound
  <2>2. ASSUME NEW x \in Users PROVE calmSince'[x] = Null <=> ~Calm(redis'[x])
    <3>1. CASE x = u
      <4>1. redis'[x] = n /\ now # Null
        BY <2>1, <3>1
      <4>2. calmSince'[x] = Null <=> ~Calm(n)
        BY <2>1, <3>1, <4>1
      <4>3. QED
        BY <4>1, <4>2
    <3>2. CASE x # u
      <4>1. redis'[x] = redis[x] /\ calmSince'[x] = calmSince[x]
        BY <2>1, <3>2
      <4>2. QED
        BY <4>1 DEF CalmKnown
    <3>3. QED
      BY <3>1, <3>2
  <2>3. QED
    BY <2>2 DEF CalmKnown
<1>3. ASSUME NEW w \in Workers, NEW k \in Kinds, ScanStep(w, k) PROVE UNCHANGED <<redis, calmSince>>
  BY <1>3 DEF ScanStep, check_loop
<1>4. ASSUME NEW w \in Workers, WorkerStep(w) PROVE UNCHANGED <<redis, calmSince>>
  BY <1>4 DEF WorkerStep, history, CheckStep, call_redis_eval, _check_all_conn_key_violations,
       create_user_level_metric_raises,
       _check_violation_per_key_verb, add_violation, see_new_epoch, new_epoch, AfterAdding,
       new_violations, AfterRenewal, record, generate_violation_message, mark_sent,
       mark_raises, add_message
<1>5. ASSUME NEW w \in Workers, RedisError(w) PROVE UNCHANGED <<redis, calmSince>>
  BY <1>5 DEF RedisError, RedisFails, Failure
<1>6. ASSUME ingest_policies \/ _send_policies_fails \/ GeneratorRestarts \/ HaproxyRestarts
      PROVE UNCHANGED <<redis, calmSince>>
  BY <1>6 DEF ingest_policies, _send_policies_fails, GeneratorRestarts, HaproxyRestarts,
     send_policy_to_haproxy, RestartGenerator, Failure, history, genVars
<1>7. ASSUME (\E u \in Users : VerbExceeded(u)) \/ Tick \/ UNCHANGED vars
      PROVE UNCHANGED <<redis, calmSince>>
  BY <1>7 DEF VerbExceeded, Exceed, Tick, vars, genVars, history
<1>8. QED
  BY <1>1, <1>2, <1>3, <1>4, <1>5, <1>6, <1>7 DEF Next, EndOfRun

\* Every step, for one user.
LEMMA CalmUserStep ==
  ASSUME Kinds \subseteq {"conn"}, Base, CalmInv, [Next]_vars, NEW u \in Users
  PROVE  CalmUser(u)'
<1> USE GeneratorAssumption, LoopAssumption
<1>1. /\ IndInv /\ ConnInv /\ Base' /\ CalmKnown /\ CalmUser(u) /\ now \in Nat
      /\ calmSince \in [Users -> (0 .. now) \cup {Null}]
  BY BaseStep DEF CalmInv, Base, IndInv, CountsSound, HaproxySound
<1>2. SUFFICES ASSUME calmSince'[u] # Null, reached' \subseteq {u}
               PROVE  CalmParts(u, calmSince[u])'
  BY DEF CalmUser
<1>3. PICK c : c = calmSince[u]
  OBVIOUS
<1>4. ASSUME UNCHANGED calmSince, reached \subseteq reached'
      PROVE  /\ c \in Nat /\ c <= now /\ Calm(redis[u]) /\ reached \subseteq {u}
             /\ CalmParts(u, c)
  BY <1>1, <1>2, <1>3, <1>4 DEF CalmUser, CalmKnown
<1>5. ASSUME calmSince'[u] = c, CalmParts(u, c)' PROVE CalmParts(u, calmSince[u])'
  BY <1>5
<1>6. ASSUME CalmParts(u, c), calmSince'[u] = c,
             \A w \in Workers : task[w] # Null => task'[w] = task[w],
             \A w \in Workers : task'[w] # Null /\ task[w] = Null =>
                /\ task'[w].pc = "eval" /\ Range(task'[w].out) = {}
                /\ task'[w].val[u] \in {0, Null},
             UNCHANGED new_keys, UNCHANGED <<queue, now>> \/ queue' = <<>>,
             reqs_map'[u] \in {Null, reqs_map[u]} \/ CalmMap(u, c)'
      PROVE  CalmParts(u, calmSince[u])'
  <2>1. Fading("reqs_block", u, c)'
    BY <1>6, FadingKept DEF CalmParts
  <2>2. CalmValues(u, c)'
    BY <1>6 DEF CalmParts, CalmValues
  <2>3. CalmMap(u, c)'
    BY <1>6 DEF CalmParts, CalmMap
  <2>4. QED
    BY <1>5, <1>6, <2>1, <2>2, <2>3 DEF CalmParts
<1>7. ASSUME NEW w \in Workers, NEW k \in Kinds, ScanStep(w, k) PROVE CalmParts(u, calmSince[u])'
  <2>1. check_loop(w, k) /\ UNCHANGED <<reached, reqs_map, calmSince>>
    BY <1>7 DEF ScanStep
  <2>2. /\ Alone(w) /\ UNCHANGED <<now, new_keys, queue>>
        /\ task[w] = Null /\ task'[w].pc = "eval" /\ Range(task'[w].out) = {}
        /\ task'[w].val[u] = IF k = "conn" /\ redis[u] = Null THEN Null ELSE 0
    BY <1>1, <2>1, ScanResult
  <2>3. CalmParts(u, c) /\ calmSince'[u] = c /\ task'[w].val[u] \in {0, Null}
    BY <1>3, <1>4, <2>1, <2>2
  <2>4. QED
    BY <1>6, <2>1, <2>2, <2>3 DEF Alone
<1>8. ASSUME NEW w \in Workers, WorkerStep(w) \/ RedisError(w) PROVE CalmParts(u, calmSince[u])'
  <2>1. (CheckStep(w) \/ RedisFails(w)) /\ UNCHANGED <<reqs_map, reached, calmSince>>
    BY <1>8 DEF WorkerStep, RedisError, Failure, history
  <2>2. CalmParts(u, c)'
    BY <1>1, <1>4, <2>1, CalmCheckStep
  <2>3. QED
    BY <1>3, <1>5, <2>1, <2>2
<1>9. ASSUME ingest_policies PROVE CalmParts(u, calmSince[u])'
  <2>1. /\ UNCHANGED <<now, reached, calmSince, task, new_keys>> /\ queue' = <<>> /\ queue # <<>>
    BY <1>9 DEF ingest_policies, send_policy_to_haproxy, history, policies
  <2>2. PICK line \in Concatenated(queue) : update_violates(line, Second(now))
    BY <1>9 DEF ingest_policies
  <2>3. c \in Nat /\ CalmParts(u, c)
    BY <1>4, <2>1
  <2>4. ASSUME reqs_map'[u] = Second(now), line.usage = "reqs_block" PROVE CalmMap(u, c)'
    <3>1. Says("reqs_block", queue)
      BY <1>1, <2>1, <2>4, LineResult DEF Says
    <3>2. PICK e \in Nat : e = c + 2 * (MaxLag - 1)
      BY <2>3
    <3>3. now <= e
      BY <2>3, <3>1, <3>2 DEF CalmParts, Fading, FadingQueue
    <3>4. Second(now) <= Second(e)
      BY <1>1, <3>3, SecondMonotone
    <3>5. QED
      BY <2>4, <3>2, <3>4 DEF CalmMap
  <2>5. \/ reqs_map'[u] \in {Null, reqs_map[u]}
        \/ reqs_map'[u] = Second(now) /\ line.usage = "reqs_block"
    BY <2>2 DEF update_violates, update_violates_map, update_violates_reqs
  <2>6. QED
    BY <1>3, <1>6, <2>1, <2>3, <2>4, <2>5
<1>10. ASSUME _send_policies_fails \/ Tick PROVE CalmParts(u, calmSince[u])'
  <2>1. UNCHANGED <<reached, calmSince, task, new_keys, reqs_map>> /\ queue' = <<>>
    BY <1>10 DEF _send_policies_fails, send_policy_to_haproxy, Failure, Tick, policies
  <2>2. QED
    BY <1>3, <1>4, <1>6, <2>1
<1>11. ASSUME GeneratorRestarts PROVE CalmParts(u, calmSince[u])'
  <2>1. /\ \A w \in Workers : task'[w] = Null
        /\ new_keys'["reqs_block"] = {} /\ queue' = <<>>
        /\ UNCHANGED <<reached, calmSince, reqs_map>>
    BY <1>11 DEF GeneratorRestarts, RestartGenerator, NoKeys, Failure, Usages
  <2>2. CalmMap(u, c)'
    BY <1>4, <2>1 DEF CalmParts, CalmMap
  <2>3. CalmValues(u, c)' /\ Fading("reqs_block", u, c)'
    BY <2>1, Ranges DEF CalmValues, Fading, FadingTasks, FadingKeys, FadingQueue, Says
  <2>4. QED
    BY <1>3, <1>5, <2>1, <2>2, <2>3 DEF CalmParts
<1>12. ASSUME HaproxyRestarts \/ (\E x \in Users : VerbExceeded(x)) \/ UNCHANGED vars
       PROVE  CalmParts(u, calmSince[u])'
  <2>1. /\ UNCHANGED <<now, reached, calmSince, task, new_keys, queue>>
        /\ reqs_map'[u] \in {Null, reqs_map[u]}
    BY <1>12 DEF HaproxyRestarts, Failure, VerbExceeded, Exceed, vars, genVars, policies, history
  <2>2. QED
    BY <1>3, <1>4, <1>6, <2>1
<1>13. ASSUME NEW x \in Users, NEW n \in Counts \cup {Null}, CountChanges(x, n)
       PROVE  CalmParts(u, calmSince[u])'
  <2>1. /\ UNCHANGED <<now, task, new_keys, queue, reqs_map>> /\ reached \subseteq reached'
        /\ calmSince' = [calmSince EXCEPT ![x] =
             IF ~Calm(n) THEN Null ELSE IF calmSince[x] = Null THEN now ELSE calmSince[x]]
    BY <1>13 DEF CountChanges, SetCount, policies
  <2>2. calmSince'[u] = c \/ (calmSince'[u] = now)
    BY <1>1, <1>2, <1>3, <2>1
  <2>3. CASE calmSince'[u] = c
    <3>1. CalmParts(u, c)
      BY <1>1, <1>2, <1>3, <2>1, <2>3 DEF CalmUser
    <3>2. QED
      BY <1>6, <2>1, <2>3, <3>1
  <2>4. CASE calmSince'[u] = now
    <3>1. PICK d \in Nat : d = now
      BY <1>1
    <3>2. CalmParts(u, d)'
      BY <1>1, <2>1, <3>1, CalmBegins
    <3>3. QED
      BY <2>4, <3>1, <3>2
  <2>5. QED
    BY <2>2, <2>3, <2>4
<1>14. QED
  BY <1>7, <1>8, <1>9, <1>10, <1>11, <1>12, <1>13 DEF Next, EndOfRun

\* A second is TicksPerSecond ticks.
LEMMA SecondsAhead ==
  ASSUME NEW t \in Nat
  PROVE  Second(t + 2 * TicksPerSecond) = Second(t) + 2
<1> DEFINE T == TicksPerSecond
           q == t \div T
           r == t % T
<1>1. T \in Nat \ {0}
  BY GeneratorAssumption
<1>2. q \in Nat /\ r \in 0 .. T - 1 /\ t = T * q + r
  BY <1>1
<1> HIDE DEF q, r
<1>3. t + 2 * T = T * (q + 2) + r
  <2>1. T * (q + 2) = T * q + 2 * T
    BY <1>1, <1>2
  <2>2. T * q \in Nat /\ 2 * T \in Nat
    BY <1>1, <1>2
  <2> HIDE DEF T
  <2>3. QED
    BY <1>1, <1>2, <2>1, <2>2
<1>4. (T * (q + 2) + r) \div T = q + 2
  <2> HIDE DEF T
  <2>1. PICK p \in Nat : p = q + 2
    BY <1>2
  <2>2. (T * p + r) \div T = p
    BY <1>1, <1>2, <2>1
  <2>3. QED
    BY <2>1, <2>2
<1>5. QED
  BY <1>3, <1>4 DEF Second, q

\* A user whose count is low is unblocked after two seconds and the length of two checks
\* (is_reqs_violator, _check_all_conn_key_violations): for any users, threads, limits,
\* backoff and length of a check, and whatever unblock messages were never made, suppressed,
\* overtaken or lost, when only active requests are checked.
THEOREM CalmUnblocked ==
  ASSUME Kinds \subseteq {"conn"}
  PROVE  Spec => []CalmIsUnblocked
<1> USE GeneratorAssumption, LoopAssumption
<1>1. Init => Base /\ CalmInv
  BY BaseInit, CalmInit
<1>2. Base /\ CalmInv /\ [Next]_vars => (Base /\ CalmInv)'
  <2> SUFFICES ASSUME Base, CalmInv, [Next]_vars PROVE Base' /\ CalmInv'
    OBVIOUS
  <2>1. Base' /\ ConnInv' /\ CalmKnown'
    BY BaseStep, ConnStep, CalmKnownStep DEF CalmInv
  <2>2. \A u \in Users : CalmUser(u)'
    BY CalmUserStep
  <2>3. QED
    BY <2>1, <2>2 DEF CalmInv
<1>3. Base /\ CalmInv => CalmIsUnblocked
  <2> SUFFICES ASSUME Base, CalmInv, NEW u \in Users, calmSince[u] # Null,
                      now >= calmSince[u] + 2 * TicksPerSecond + 2 * (MaxLag - 1),
                      reached \subseteq {u}
               PROVE  ~is_reqs_violator(Second(now), u)
    BY DEF CalmIsUnblocked
  <2>1. PICK c \in Nat : c = calmSince[u]
    BY DEF Base, IndInv, HaproxySound
  <2>2. now \in Nat /\ CalmMap(u, c) /\ reqs_map[u] \in Nat \cup {Null}
    BY <2>1 DEF CalmInv, CalmUser, CalmParts, Base, IndInv, CountsSound, HaproxySound
  <2>3. PICK e \in Nat : e = c + 2 * (MaxLag - 1)
    OBVIOUS
  <2>4. e + 2 * TicksPerSecond \in Nat /\ e + 2 * TicksPerSecond <= now
    BY <2>1, <2>2, <2>3
  <2>5. /\ Second(e + 2 * TicksPerSecond) = Second(e) + 2 /\ Second(e) \in Nat
        /\ Second(e + 2 * TicksPerSecond) <= Second(now) /\ Second(now) \in Nat
    <3>1. Second(e + 2 * TicksPerSecond) = Second(e) + 2
      BY SecondsAhead
    <3>2. Second(e) \in Nat
      BY SecondMonotone
    <3>3. Second(e + 2 * TicksPerSecond) <= Second(now) /\ Second(now) \in Nat
      BY <2>2, <2>4, SecondMonotone
    <3>4. QED
      BY <3>1, <3>2, <3>3
  <2>6. reqs_map[u] # Null => reqs_map[u] <= Second(e)
    BY <2>2, <2>3 DEF CalmMap
  <2>7. QED
    BY <2>2, <2>5, <2>6 DEF is_reqs_violator
<1>4. QED
  BY <1>1, <1>2, <1>3, PTL DEF Spec

-----------------------------------------------------------------------------
(* A user at the limit. *)

\* The first tick of second k; by when the checks of earlier seconds are over; by when the
\* checks that may start the epoch of k have begun.
Began(k) == TicksPerSecond * k
AllNew(k) == Began(k) + MaxLag - 1
Settled(k) == AllNew(k) + Delay

\* HAProxy was told to block the user in second k; or a message is on its way to it, or a
\* check that began by t will make one.
Told(u, k) == reqs_map[u] = k
Taken(u, k, t) == Told(u, k) \/ Chain("reqs_block", u, t)

\* A check of this second has reported the user, and if an older one has started the last
\* epoch again, that one will report it.
Caught(u, k) == epoch = k \/ Taken(u, k, AllNew(k))

\* Until then, blocked_users has no time of this second and no check is about to write one.
OverRecorded(u, k) ==
  \/ Caught(u, k)
  \/ /\ blocked_users[u] # Null => blocked_users[u] < Began(k)
     /\ \A w \in Workers : task[w] # Null /\ task[w].at >= Began(k)
                             => task[w].pc \notin {"renew", "insert", "record"}

\* The check of the tick in which the backoff is over reports the user, if no one has.
OverScanned(u, k) ==
  now > Began(k) + Backoff \/ (now = Began(k) + Backoff /\ scanned["conn"] > 0) =>
    \/ Caught(u, k)
    \/ \E w \in Workers : /\ task[w] # Null /\ task[w].at = Began(k) + Backoff
                          /\ task[w].val[u] # Null

\* Checks that are going to replace the violations: in an epoch started again they are old, and
\* in this second's epoch they insert the user, or come after its message.
OverRenewals(k) ==
  epoch # k =>
    \A w \in Workers : task[w] # Null /\ task[w].pc = "renew" => task[w].at <= AllNew(k)
OverWipers(u, k) == Told(u, k) \/ Sending(Settled(k)) \/ Wipers(Settled(k))

\* In this second, k, for a user that no check under way unblocks.
OverSecond(u, k) ==
  /\ epoch = k => Taken(u, k, Settled(k))
  /\ OverRecorded(u, k) /\ OverScanned(u, k) /\ OverRenewals(k) /\ OverWipers(u, k)
  /\ now > Settled(k) + 2 * (MaxLag - 1) => Told(u, k)

\* A check that can parse all its keys, and has read a count at the limit for u.
OverTask(c, u) ==
  /\ \A x \in Invalid : c.val[x] = Null
  /\ IF c.pc = "eval" THEN c.val[u] = 0 ELSE c.val[u] = Null \/ c.val[u] >= Limit
  /\ c.pc \in {"mark", "put"} => c.val[u] = Null
OverTasks(u, s) == \A w \in Workers : task[w] # Null /\ task[w].at > s => OverTask(task[w], u)

\* For a user at the limit since s.
OverParts(u, s) ==
  LET k == Second(now)
  IN  /\ OverTasks(u, s) /\ Fading("reqs_unblock", u, s)
      /\ Began(k) > s + 2 * (MaxLag - 1) => OverSecond(u, k)
      /\ Began(k) > s + 2 * (MaxLag - 1) + TicksPerSecond
           => reqs_map[u] # Null /\ reqs_map[u] + 1 >= k

\* For the only user that has been at the limit, while all keys can be parsed.
OverUser(u) ==
  overSince[u] # Null =>
    /\ Over(redis[u]) /\ \A x \in Invalid : redis[x] = Null
    /\ reached \subseteq {u} => OverParts(u, overSince[u])

\* The invariant of OverloadBlocked.
OverInv == ConnInv /\ \A u \in Users : OverUser(u)

\* A tick is in its second.
LEMMA SecondBounds ==
  ASSUME NEW t \in Nat
  PROVE  /\ Second(t) \in Nat /\ TicksPerSecond * Second(t) \in Nat
         /\ TicksPerSecond * Second(t) <= t
         /\ t < TicksPerSecond * Second(t) + TicksPerSecond
<1> DEFINE T == TicksPerSecond
           q == t \div T
<1>1. T \in Nat \ {0}
  BY GeneratorAssumption
<1>2. q \in Nat /\ T * q <= t /\ t < T * q + T
  BY <1>1
<1>3. T * q \in Nat
  BY <1>1, <1>2
<1>4. QED
  BY <1>2, <1>3 DEF Second

\* A time from the start of this second on is in this second.
LEMMA InThisSecond ==
  ASSUME NEW t \in Nat, NEW b \in Nat, TicksPerSecond * Second(t) <= b
  PROVE  Second(t) <= Second(b)
<1> DEFINE S == Second(t)
           T == TicksPerSecond
<1>1. T \in Nat \ {0} /\ S \in Nat /\ T * S \in Nat
  BY GeneratorAssumption, SecondBounds
<1>2. Second(T * S) = S
  <2> HIDE DEF S
  <2>1. (T * S) \div T = S
    <3> HIDE DEF T
    <3>1. (T * S + 0) \div T = S
      BY <1>1
    <3>2. QED
      BY <1>1, <3>1
  <2>2. QED
    BY <2>1 DEF Second
<1>3. Second(T * S) <= Second(b)
  BY <1>1, SecondMonotone
<1>4. QED
  BY <1>2, <1>3

\* A tick later it is the same second, or the first tick of the next.
LEMMA TickSecond ==
  ASSUME NEW t \in Nat
  PROVE  \/ Second(t + 1) = Second(t)
         \/ /\ Second(t + 1) = Second(t) + 1
            /\ TicksPerSecond * Second(t + 1) = t + 1
            /\ TicksPerSecond * Second(t + 1) = TicksPerSecond * Second(t) + TicksPerSecond
<1> DEFINE T == TicksPerSecond
           q == t \div T
           r == t % T
<1>1. T \in Nat \ {0}
  BY GeneratorAssumption
<1>2. q \in Nat /\ r \in 0 .. T - 1 /\ t = T * q + r
  BY <1>1
<1>3. T * q \in Nat
  BY <1>1, <1>2
<1> HIDE DEF q, r
<1>4. CASE r + 1 < T
  <2>1. PICK p \in 0 .. T - 1 : p = r + 1
    BY <1>1, <1>2, <1>4
  <2>2. (T * q + p) \div T = q
    <3> HIDE DEF T
    <3>1. QED
      BY <1>1, <1>2, <2>1
  <2>3. t + 1 = T * q + p
    BY <1>2, <1>3, <2>1
  <2>4. QED
    BY <2>2, <2>3 DEF Second, q
<1>5. CASE r + 1 = T
  <2>1. PICK p \in Nat : p = q + 1
    BY <1>2
  <2>2. T * p = T * q + T
    <3> HIDE DEF T
    <3>1. QED
      BY <1>1, <1>2, <2>1
  <2>3. (T * p + 0) \div T = p
    <3> HIDE DEF T
    <3>1. QED
      BY <1>1, <2>1
  <2>4. t + 1 = T * p + 0 /\ t + 1 = T * p
    BY <1>1, <1>2, <1>3, <1>5, <2>2
  <2>5. (t + 1) \div T = p
    BY <2>3, <2>4
  <2>6. QED
    BY <2>1, <2>2, <2>4, <2>5 DEF Second, q
<1>6. QED
  BY <1>1, <1>2, <1>4, <1>5

\* The times of this second, and of the checks that are under way in it.
LEMMA OverTimes ==
  ASSUME Base, NEW k, k = Second(now)
  PROVE  /\ k \in Nat /\ now \in Nat /\ epoch \in Nat /\ epoch <= k
         /\ Began(k) \in Nat /\ Began(k) <= now /\ now < Began(k) + TicksPerSecond
         /\ AllNew(k) \in Nat /\ AllNew(k) = Began(k) + MaxLag - 1 /\ Began(k) <= AllNew(k)
         /\ Settled(k) \in Nat /\ Settled(k) = AllNew(k) + Delay
         /\ AllNew(k) + MaxLag - 1 <= Settled(k) /\ Began(k) + Backoff + MaxLag - 1 <= Settled(k)
         /\ \A w \in Workers : task[w] # Null =>
              /\ task[w].at \in Nat /\ task[w].at <= now /\ now < task[w].at + MaxLag
              /\ task[w].at >= Began(k) <=> Second(task[w].at) = k
<1> USE GeneratorAssumption, LoopAssumption
<1>1. /\ IndInv /\ k \in Nat /\ now \in Nat /\ epoch \in Nat /\ epoch <= k
      /\ Began(k) \in Nat /\ Began(k) <= now /\ now < Began(k) + TicksPerSecond
  BY ClockKnown, SecondBounds DEF Base, Began
<1>2. Delay \in Nat /\ Delay >= MaxLag - 1 /\ Delay >= Backoff
  BY DEF Delay
<1>3. /\ AllNew(k) \in Nat /\ AllNew(k) = Began(k) + MaxLag - 1 /\ Began(k) <= AllNew(k)
  BY <1>1 DEF AllNew
<1>4. Settled(k) = AllNew(k) + Delay
  BY DEF Settled
<1>5. ASSUME NEW w \in Workers, task[w] # Null
      PROVE  /\ task[w].at \in Nat /\ task[w].at <= now /\ now < task[w].at + MaxLag
             /\ task[w].at >= Began(k) <=> Second(task[w].at) = k
  <2>1. PICK a : a = task[w].at
    OBVIOUS
  <2>2. a \in Nat /\ a <= now /\ now < a + MaxLag
    BY <1>1, <1>5, <2>1, MessagesKnown DEF Base, Timely
  <2>3. Second(a) <= k /\ Second(a) \in Nat
    BY <1>1, <2>2, SecondMonotone
  <2>4. a >= Began(k) => Second(now) <= Second(a)
    BY <1>1, <2>2, InThisSecond DEF Began
  <2>5. Second(a) = k => a >= Began(k)
    BY <2>2, SecondBounds DEF Began
  <2>6. QED
    BY <1>1, <2>1, <2>2, <2>3, <2>4, <2>5
<1>6. QED
  BY <1>1, <1>2, <1>3, <1>4, <1>5

\* A message on its way stays on it.
LEMMA SendingStep ==
  ASSUME IndInv, NEW v \in Usages, NEW u \in Users, OnlyReports(v, u), NEW t, Sending(t),
         NEW w \in Workers, CheckStep(w)
  PROVE  Sending(t)'
<1>1. OthersKeep(w) /\ ~mark_raises(w)
  BY OthersOfStep, NoRaise
<1>2. queue' = queue \/ queue' # <<>>
  <2>1. ASSUME NEW x \in Users,
               _check_all_conn_key_violations(w, x) \/ _check_violation_per_key_verb(w, x)
        PROVE  UNCHANGED queue
    BY <2>1 DEF _check_all_conn_key_violations, _check_violation_per_key_verb
  <2>2. QED
    BY <2>1, EvalResult, UnparsableResult, AddResult, SeeResult, EpochResult, RenewResult,
       RecordResult, GenerateResult, MarkResult, RaiseResult, PutResult DEF CheckStep
<1>3. CASE queue # <<>>
  BY <1>2, <1>3 DEF Sending
<1>4. ASSUME NEW x \in Workers, task[x] # Null, task[x].pc \in {"mark", "put"},
             task[x].at < t + MaxLag
      PROVE  Sending(t)'
  <2>1. CASE x # w
    BY <1>1, <1>4, <2>1 DEF OthersKeep, Sending
  <2>2. CASE x = w
    <3>1. mark_sent(w) \/ add_message(w)
      <4>1. ASSUME NEW y \in Users,
                   _check_all_conn_key_violations(w, y) \/ _check_violation_per_key_verb(w, y)
            PROVE  FALSE
        BY <1>4, <2>2, <4>1 DEF _check_all_conn_key_violations, _check_violation_per_key_verb, At
      <4>2. QED
        BY <1>1, <1>4, <2>2, <4>1
        DEF CheckStep, call_redis_eval, create_user_level_metric_raises, add_violation,
            see_new_epoch, new_epoch, new_violations, record, generate_violation_message, At
    <3>2. CASE mark_sent(w)
      <4>1. Goes(w, "put")
        BY <3>2, MarkResult
      <4>2. QED
        BY <1>4, <2>2, <4>1 DEF Goes, Sending
    <3>3. CASE add_message(w)
      BY <3>3, PutResult DEF Sending
    <3>4. QED
      BY <3>1, <3>2, <3>3
  <2>3. QED
    BY <2>1, <2>2
<1>5. QED
  BY <1>3, <1>4 DEF Sending

\* What is known of this second, k, when no check under way or message unblocks the user.
OverKnown(u, k) ==
  /\ Base /\ ConnInv /\ k = Second(now) /\ OnlyReports("reqs_block", u)
  /\ \A w \in Workers : task[w] # Null => OverTask(task[w], u)
  /\ OverSecond(u, k)

\* What is told stays told, and the key stays on its way.
LEMMA TakenStep ==
  ASSUME NEW u \in Users, NEW k, OverKnown(u, k), NEW t \in Nat, Taken(u, k, t),
         NEW w \in Workers, CheckStep(w), UNCHANGED reqs_map,
         new_violations(w) => task[w].at <= t \/ Told(u, k) \/ Sending(t)
  PROVE  Taken(u, k, t)'
<1>1. Base /\ IndInv /\ OnlyReports("reqs_block", u) /\ "reqs_block" \in Usages
  BY DEF OverKnown, Base, Usages
<1>2. CASE Told(u, k)
  BY <1>2 DEF Taken, Told
<1>3. CASE Sending(t)
  <2>1. Sending(t)'
    BY <1>1, <1>3, SendingStep
  <2>2. QED
    BY <2>1 DEF Taken, Chain
<1>4. CASE Chain("reqs_block", u, t) /\ ~Told(u, k) /\ ~Sending(t)
  <2>1. Chain("reqs_block", u, t)'
    BY <1>1, <1>4, ChainCheckStep
  <2>2. QED
    BY <2>1 DEF Taken
<1>5. QED
  BY <1>2, <1>3, <1>4 DEF Taken

\* A check that replaces the violations takes over.
LEMMA TakenByRenewal ==
  ASSUME NEW u \in Users, NEW k, IndInv, NEW t \in Nat, NEW w \in Workers, new_epoch(w),
         task[w].at <= t
  PROVE  Taken(u, k, t)'
<1>1. Goes(w, "renew")
  BY EpochResult
<1>2. Keeps(task[w], "reqs_block", u)'
  BY <1>1 DEF Keeps, Goes
<1>3. QED
  BY <1>1, <1>2 DEF Taken, Chain, Goes

\* Once reported, the user stays reported, whoever starts an epoch again.
LEMMA CaughtStep ==
  ASSUME NEW u \in Users, NEW k, OverKnown(u, k), Caught(u, k),
         NEW w \in Workers, CheckStep(w), UNCHANGED reqs_map
  PROVE  Caught(u, k)'
<1>1. /\ IndInv /\ OverRenewals(k) /\ AllNew(k) \in Nat /\ Began(k) \in Nat /\ Began(k) <= AllNew(k)
      /\ \A x \in Workers : task[x] # Null =>
           task[x].at \in Nat /\ (task[x].at >= Began(k) => Second(task[x].at) = k)
  <2>1. Base /\ k = Second(now)
    BY DEF OverKnown
  <2>2. QED
    BY <2>1, OverTimes DEF OverKnown, OverSecond, Base
<1>2. PICK a \in Nat : a = AllNew(k)
  BY <1>1
<1>3. CASE epoch' = k
  BY <1>3 DEF Caught
<1>4. CASE epoch' # k /\ epoch = k
  <2>1. new_epoch(w)
    BY <1>1, <1>4, Moves
  <2>2. task[w] # Null /\ epoch' = Second(task[w].at)
    BY <1>1, <2>1, EpochResult DEF Goes
  <2>3. task[w].at <= a
    BY <1>1, <1>2, <1>4, <2>2
  <2>4. Taken(u, k, a)'
    BY <1>1, <2>1, <2>3, TakenByRenewal
  <2>5. QED
    BY <1>2, <2>4 DEF Caught
<1>5. CASE epoch # k
  <2>1. Taken(u, k, a)
    BY <1>2, <1>5 DEF Caught
  <2>2. new_violations(w) => task[w].at <= a
    BY <1>1, <1>2, <1>5, RenewResult DEF OverRenewals, Goes
  <2>3. Taken(u, k, a)'
    BY <2>1, <2>2, TakenStep
  <2>4. QED
    BY <1>2, <2>3 DEF Caught
<1>6. QED
  BY <1>3, <1>4, <1>5

\* In this second's epoch the user is on its way to be blocked.
LEMMA OverEpochStep ==
  ASSUME NEW u \in Users, NEW k, OverKnown(u, k), NEW w \in Workers, CheckStep(w),
         UNCHANGED reqs_map, epoch' = k
  PROVE  Taken(u, k, Settled(k))'
<1>1. /\ IndInv /\ OverWipers(u, k) /\ (epoch = k => Taken(u, k, Settled(k)))
  BY DEF OverKnown, OverSecond, Base
<1>2. PICK z \in Nat : z = Settled(k)
  BY OverTimes DEF OverKnown
<1>3. Told(u, k) \/ Sending(z) \/ Wipers(z)
  BY <1>1, <1>2 DEF OverWipers
<1>4. CASE new_epoch(w)
  <2>1. task[w] # Null /\ task[w].pc = "new_epoch"
    BY <1>1, <1>4, EpochResult DEF Goes
  <2>2. CASE task[w].at <= z
    BY <1>1, <1>2, <1>4, <2>2, TakenByRenewal
  <2>3. CASE Told(u, k) \/ Sending(z)
    <3>1. Taken(u, k, z) /\ ~new_violations(w)
      BY <1>1, <2>1, <2>3, RenewResult DEF Taken, Chain
    <3>2. QED
      BY <1>2, <3>1, TakenStep
  <2>4. QED
    BY <1>3, <2>1, <2>2, <2>3 DEF Wipers
<1>5. CASE ~new_epoch(w)
  <2>1. Taken(u, k, z)
    BY <1>1, <1>2, <1>5, Moves
  <2>2. new_violations(w) => task[w].at <= z \/ Told(u, k) \/ Sending(z)
    BY <1>1, <1>3, RenewResult DEF Wipers, Goes
  <2>3. QED
    BY <1>2, <2>1, <2>2, TakenStep
<1>6. QED
  BY <1>4, <1>5

\* A check that replaces the violations of an epoch started again is of the last second, or
\* began before all those were over.
LEMMA OverRenewalsStep ==
  ASSUME NEW u \in Users, NEW k, OverKnown(u, k), NEW w \in Workers, CheckStep(w)
  PROVE  OverRenewals(k)'
<1> USE LoopAssumption
<1>1. /\ IndInv /\ OverRenewals(k) /\ OthersKeep(w)
  BY OthersOfStep DEF OverKnown, OverSecond, Base
<1>2. /\ AllNew(k) \in Nat /\ Began(k) \in Nat /\ AllNew(k) = Began(k) + MaxLag - 1 /\ now \in Nat
      /\ \A x \in Workers : task[x] # Null =>
           /\ task[x].at \in Nat /\ task[x].at <= now /\ now < task[x].at + MaxLag
           /\ task[x].at >= Began(k) => Second(task[x].at) = k
  BY OverTimes DEF OverKnown
<1>3. PICK a \in Nat : a = AllNew(k)
  BY <1>2
<1>4. SUFFICES ASSUME epoch' # k, NEW x \in Workers, task'[x] # Null, task'[x].pc = "renew"
               PROVE  task'[x].at <= a
  BY <1>3 DEF OverRenewals
<1>5. task[x] # Null /\ task'[x].at = task[x].at
  BY <1>1, <1>4, ScanKept
<1>6. CASE new_epoch(w)
  <2>1. task[w] # Null /\ epoch' = Second(task[w].at)
    BY <1>1, <1>6, EpochResult DEF Goes
  <2>2. now <= a
    BY <1>2, <1>3, <1>4, <2>1
  <2>3. QED
    BY <1>2, <1>5, <2>2
<1>7. CASE ~new_epoch(w)
  <2>1. epoch # k /\ x # w
    BY <1>1, <1>4, <1>7, Moves
  <2>2. task[x].pc = "renew"
    BY <1>1, <1>4, <1>5, <2>1 DEF OthersKeep
  <2>3. QED
    BY <1>1, <1>3, <1>5, <2>1, <2>2 DEF OverRenewals
<1>8. QED
  BY <1>6, <1>7

\* By the time that checks have settled, the user is caught.
LEMMA CaughtLate ==
  ASSUME NEW u \in Users, NEW k, OverKnown(u, k), now > Settled(k)
  PROVE  Caught(u, k)
<1> USE LoopAssumption, GeneratorAssumption
<1>1. /\ Settled(k) \in Nat /\ Began(k) \in Nat /\ now \in Nat
      /\ Began(k) + Backoff + MaxLag - 1 <= Settled(k)
      /\ \A x \in Workers : task[x] # Null => task[x].at \in Nat /\ now < task[x].at + MaxLag
  BY OverTimes DEF OverKnown
<1>2. now > Began(k) + Backoff
  BY <1>1
<1>3. ~\E w \in Workers : /\ task[w] # Null /\ task[w].at = Began(k) + Backoff
                          /\ task[w].val[u] # Null
  BY <1>1
<1>4. OverScanned(u, k)
  BY DEF OverKnown, OverSecond
<1>5. QED
  BY <1>2, <1>3, <1>4 DEF OverScanned

\* A check that is going to start this second's epoch inserts the user in it, or comes after
\* the message that blocks it.
LEMMA OverWipersStep ==
  ASSUME NEW u \in Users, NEW k, OverKnown(u, k), NEW w \in Workers, CheckStep(w),
         UNCHANGED reqs_map
  PROVE  OverWipers(u, k)'
<1> USE LoopAssumption
<1>1. /\ IndInv /\ OverWipers(u, k) /\ OthersKeep(w) /\ OnlyReports("reqs_block", u)
      /\ "reqs_block" \in Usages
  BY OthersOfStep DEF OverKnown, OverSecond, Base, Usages
<1>2. /\ AllNew(k) \in Nat /\ Began(k) \in Nat /\ now \in Nat /\ Began(k) <= AllNew(k)
      /\ Settled(k) \in Nat /\ AllNew(k) + MaxLag - 1 <= Settled(k)
      /\ \A x \in Workers : task[x] # Null =>
           /\ task[x].at \in Nat /\ task[x].at <= now /\ now < task[x].at + MaxLag
           /\ task[x].at >= Began(k) => Second(task[x].at) = k
  BY OverTimes DEF OverKnown
<1>3. PICK z \in Nat : z = Settled(k)
  BY <1>2
<1>4. PICK a \in Nat : a = AllNew(k)
  BY <1>2
<1>5. CASE Told(u, k)
  BY <1>5 DEF OverWipers, Told
<1>6. CASE Sending(z)
  <2>1. Sending(z)'
    BY <1>1, <1>6, SendingStep
  <2>2. QED
    BY <1>3, <2>1 DEF OverWipers
<1>7. CASE Wipers(z) /\ ~Told(u, k) /\ ~Sending(z)
  <2>1. ASSUME task'[w] # Null, task'[w].pc \in {"new_epoch", "renew"} PROVE task'[w].at <= z
    <3>1. task[w] # Null /\ task'[w].at = task[w].at
      BY <1>1, <2>1, ScanKept
    <3>2. CASE new_epoch(w)
      BY <1>1, <1>7, <3>1, <3>2, EpochResult DEF Wipers
    <3>3. ASSUME see_new_epoch(w), task[w].at > z PROVE FALSE
      <4>1. Second(task[w].at) = k /\ Second(task[w].at) > epoch
        BY <1>1, <1>2, <1>3, <3>1, <3>3, SeeResult
      <4>2. Caught(u, k)
        BY <1>2, <1>3, <3>1, <3>3, CaughtLate
      <4>3. epoch # k
        <5>1. epoch \in Nat /\ k \in Nat
          BY OverTimes DEF OverKnown
        <5>2. QED
          BY <4>1, <5>1
      <4>4. Chain("reqs_block", u, a)
        BY <1>4, <1>7, <4>2, <4>3 DEF Caught, Taken
      <4>5. CASE Sending(a)
        <5>1. a <= z
          BY <1>2, <1>3, <1>4
        <5>2. Sending(z)
          BY <1>2, <4>5, <5>1 DEF Sending
        <5>3. QED
          BY <1>7, <5>2
      <4>6. ASSUME NEW x \in Workers, task[x] # Null, task[x].at <= a PROVE FALSE
        BY <1>2, <1>3, <1>4, <3>1, <3>3, <4>6
      <4>7. QED
        BY <4>4, <4>5, <4>6 DEF Chain
    <3>4. see_new_epoch(w) \/ new_epoch(w)
      BY <1>1, <2>1, Moves
    <3>5. QED
      BY <1>2, <3>1, <3>2, <3>3, <3>4
  <2>2. Wipers(z)'
    BY <1>1, <1>7, <2>1 DEF Wipers, OthersKeep
  <2>3. QED
    BY <1>3, <2>2 DEF OverWipers
<1>8. QED
  BY <1>1, <1>3, <1>5, <1>6, <1>7 DEF OverWipers

\* blocked_users gets no time of this second before the user is caught.
LEMMA OverRecordedStep ==
  ASSUME NEW u \in Users, NEW k, OverKnown(u, k), NEW w \in Workers, CheckStep(w),
         UNCHANGED reqs_map
  PROVE  OverRecorded(u, k)'
<1> USE GeneratorAssumption
<1>1. /\ IndInv /\ OverRecorded(u, k) /\ OthersKeep(w) /\ OnlyReports("reqs_block", u)
      /\ Caught(u, k) => Caught(u, k)'
  BY OthersOfStep, CaughtStep DEF OverKnown, OverSecond, Base
<1>2. /\ epoch \in Nat /\ epoch <= k /\ k \in Nat
      /\ Began(k) \in Nat
      /\ \A x \in Workers : task[x] # Null =>
           /\ task[x].at \in Nat
           /\ task[x].at >= Began(k) => Second(task[x].at) = k
  BY OverTimes DEF OverKnown
<1>3. PICK b \in Nat : b = Began(k)
  BY <1>2
<1>4. SUFFICES ASSUME ~Caught(u, k)'
               PROVE  /\ blocked_users'[u] # Null => blocked_users'[u] < b
                      /\ \A x \in Workers : task'[x] # Null /\ task'[x].at >= b
                                              => task'[x].pc \notin {"renew", "insert", "record"}
  BY <1>3 DEF OverRecorded
<1>5. /\ epoch' # k /\ epoch # k /\ ~Caught(u, k)
      /\ blocked_users[u] # Null => blocked_users[u] < b
      /\ \A x \in Workers : task[x] # Null /\ task[x].at >= b
                              => task[x].pc \notin {"renew", "insert", "record"}
  BY <1>1, <1>3, <1>4 DEF Caught, OverRecorded
<1>6. blocked_users'[u] # Null => blocked_users'[u] < b
  <2>1. CASE record(w)
    <3>1. /\ task[w] # Null /\ task[w].pc = "record"
          /\ \/ task[w].act = "reqs_block"
                /\ blocked_users' = [blocked_users EXCEPT ![task[w].cur] = task[w].at]
             \/ task[w].act = "reqs_unblock"
      BY <1>1, <2>1, RecordResult DEF Goes
    <3>2. task[w].cur = u /\ task[w].act = "reqs_block"
      BY <1>1, <3>1 DEF OnlyReports, Reporting
    <3>3. task[w].at < b
      BY <1>2, <1>3, <1>5, <3>1
    <3>4. blocked_users'[u] = task[w].at
      BY <1>1, <3>1, <3>2 DEF IndInv, BlockedSound
    <3>5. QED
      BY <3>3, <3>4
  <2>2. CASE ~record(w)
    BY <1>1, <1>5, <2>2, Moves
  <2>3. QED
    BY <2>1, <2>2
<1>7. ASSUME NEW x \in Workers, task'[x] # Null, task'[x].at >= b,
             task'[x].pc \in {"renew", "insert", "record"}
      PROVE  FALSE
  <2>1. task[x] # Null /\ task[x].at >= b /\ Second(task[x].at) = k
    BY <1>1, <1>2, <1>3, <1>7, ScanKept
  <2>2. CASE x # w
    BY <1>1, <1>5, <1>7, <2>1, <2>2 DEF OthersKeep
  <2>3. CASE x = w
    <3>1. ~new_epoch(w)
      BY <1>1, <1>5, <2>1, <2>3, EpochResult
    <3>2. ~new_violations(w)
      BY <1>1, <1>5, <2>1, <2>3, RenewResult
    <3>3. ~add_violation(w)
      <4>1. add_violation(w) => /\ task[w].pc \in {"add", "insert"}
                                /\ task[w].pc = "add" => Second(task[w].at) <= epoch
        BY <1>1, AddResult
      <4>2. QED
        BY <1>2, <1>5, <2>1, <2>3, <4>1
    <3>4. QED
      BY <1>1, <1>7, <2>3, <3>1, <3>2, <3>3, Moves
  <2>4. QED
    BY <2>2, <2>3
<1>8. QED
  BY <1>6, <1>7

\* The check of the tick in which the backoff is over does not pass the user over.
LEMMA OverScannedStep ==
  ASSUME NEW u \in Users, NEW k, OverKnown(u, k), Over(redis[u]),
         NEW w \in Workers, CheckStep(w), UNCHANGED <<reqs_map, scanned>>
  PROVE  OverScanned(u, k)'
<1> USE GeneratorAssumption
<1>1. /\ IndInv /\ OverScanned(u, k) /\ OverRecorded(u, k) /\ OthersKeep(w) /\ UNCHANGED now
      /\ OnlyReports("reqs_block", u) /\ ConnTasks /\ (Caught(u, k) => Caught(u, k)')
  BY OthersOfStep, CaughtStep, CheckKeeps DEF OverKnown, OverSecond, Base, ConnInv
<1>2. /\ epoch \in Nat /\ epoch <= k /\ k \in Nat /\ Began(k) \in Nat
      /\ \A x \in Workers : task[x] # Null =>
           /\ task[x].at \in Nat
           /\ task[x].at >= Began(k) => Second(task[x].at) = k
  BY OverTimes DEF OverKnown
<1>3. PICK b \in Nat : b = Began(k)
  BY <1>2
<1>4. SUFFICES ASSUME now > b + Backoff \/ (now = b + Backoff /\ scanned["conn"] > 0),
                      ~Caught(u, k)'
               PROVE  \E x \in Workers : /\ task'[x] # Null /\ task'[x].at = b + Backoff
                                         /\ task'[x].val[u] # Null
  BY <1>1, <1>3 DEF OverScanned
<1>5. /\ epoch # k /\ ~Caught(u, k)
      /\ blocked_users[u] # Null => blocked_users[u] < b
      /\ \A x \in Workers : task[x] # Null /\ task[x].at >= b
                              => task[x].pc \notin {"renew", "insert", "record"}
  BY <1>1, <1>3, <1>4 DEF Caught, OverRecorded
<1>6. PICK x \in Workers : task[x] # Null /\ task[x].at = b + Backoff /\ task[x].val[u] # Null
  BY <1>1, <1>3, <1>4, <1>5 DEF OverScanned
<1>7. CASE x # w
  BY <1>1, <1>6, <1>7 DEF OthersKeep
<1>8. CASE x = w
  <2>1. /\ task[w].kind = "conn" /\ Second(task[w].at) = k /\ task[w].at >= b
        /\ task[w].pc \notin {"renew", "insert", "record", "mark", "put"}
        /\ Parsable(w) /\ (task[w].pc # "eval" => task[w].val[u] >= Limit)
    BY <1>1, <1>2, <1>3, <1>5, <1>6, <1>8
    DEF ConnTasks, ConnCheck, OverKnown, OverTask, Parsable
  <2>2. ASSUME NEW p, Goes(w, p), task'[w].val[u] # Null
        PROVE  \E y \in Workers : /\ task'[y] # Null /\ task'[y].at = b + Backoff
                                  /\ task'[y].val[u] # Null
    BY <1>6, <1>8, <2>2 DEF Goes
  <2>3. CASE call_redis_eval(w)
    <3>1. /\ Goes(w, "check")
          /\ task'[w].val[u] =
              CASE task[w].val[u] = Null    -> Null
                [] task[w].kind = "verb"    -> IF <<Second(task[w].at), u>> \in exceeded THEN 1 ELSE 0
                [] OTHER                    -> IF redis[u] = Null THEN 0 ELSE redis[u]
      BY <1>1, <2>3, EvalResult
    <3>2. task'[w].val[u] = IF redis[u] = Null THEN 0 ELSE redis[u]
      BY <1>6, <1>8, <2>1, <3>1
    <3>3. QED
      BY <2>2, <3>1, <3>2
  <2>4. ~create_user_level_metric_raises(w)
    BY <1>1, <2>1, UnparsableResult
  <2>5. ASSUME NEW y \in Users, _check_all_conn_key_violations(w, y)
        PROVE  \E p : Goes(w, p) /\ task'[w].val[u] # Null
    <3>1. /\ task[w] # Null /\ task[w].pc = "check"
          /\ \/ \E v \in Usages : Report(w, y, v)
             \/ /\ Examined(w, y)
                /\ task[w].val[y] >= Limit =>
                     blocked_users[y] # Null /\ blocked_users[y] + Backoff >= task[w].at
      BY <1>1, <2>5, ExamineCases DEF Usages
    <3>2. ASSUME NEW v \in Usages, Report(w, y, v) PROVE \E p : Goes(w, p) /\ task'[w].val[u] # Null
      BY <1>1, <1>6, <1>8, <3>1, <3>2, ReportResult DEF KeepsVal
    <3>3. CASE /\ y = u
               /\ task[w].val[y] >= Limit =>
                    blocked_users[y] # Null /\ blocked_users[y] + Backoff >= task[w].at
      <4>1. blocked_users[u] # Null /\ blocked_users[u] + Backoff >= b + Backoff
        BY <1>6, <1>8, <2>1, <3>1, <3>3
      <4>2. blocked_users[u] \in Nat
        BY <1>1, <4>1 DEF IndInv, BlockedSound
      <4>3. QED
        BY <1>5, <4>1, <4>2
    <3>4. CASE Examined(w, y) /\ y # u
      BY <1>1, <1>6, <1>8, <3>1, <3>4, ExaminedResult
    <3>5. QED
      BY <3>1, <3>2, <3>3, <3>4
  <2>6. ASSUME NEW y \in Users, _check_violation_per_key_verb(w, y) PROVE FALSE
    BY <2>1, <2>6 DEF _check_violation_per_key_verb, At
  <2>7. ~add_violation(w)
    <3>1. add_violation(w) => /\ task[w].pc \in {"add", "insert"}
                              /\ task[w].pc = "add" => Second(task[w].at) <= epoch
      BY <1>1, AddResult
    <3>2. QED
      BY <1>2, <1>5, <2>1, <3>1
  <2>8. CASE see_new_epoch(w) \/ new_epoch(w)
    <3>1. KeepsVal(w) /\ \E p : Goes(w, p)
      BY <1>1, <2>8, SeeResult, EpochResult
    <3>2. QED
      BY <1>6, <1>8, <2>2, <3>1 DEF KeepsVal
  <2>9. /\ ~new_violations(w) /\ ~record(w) /\ ~generate_violation_message(w)
        /\ ~mark_sent(w) /\ ~mark_raises(w) /\ ~add_message(w)
    BY <1>1, <1>6, <1>8, <2>1, RenewResult, RecordResult, GenerateResult, MarkResult,
       RaiseResult, PutResult
  <2>10. QED
    BY <2>2, <2>3, <2>4, <2>5, <2>6, <2>7, <2>8, <2>9 DEF CheckStep
<1>9. QED
  BY <1>7, <1>8

\* A check that began after s finds the user at the limit.
LEMMA OverTasksStep ==
  ASSUME IndInv, ConnTasks, NEW u \in Users, NEW s \in Nat, Over(redis[u]),
         \A x \in Invalid : redis[x] = Null, OverTasks(u, s), NEW w \in Workers, CheckStep(w)
  PROVE  OverTasks(u, s)'
<1> USE GeneratorAssumption
<1>1. SUFFICES ASSUME NEW x \in Workers, task'[x] # Null, task'[x].at > s
               PROVE  OverTask(task'[x], u)
  BY DEF OverTasks, OverTask
<1>2. task[x] # Null /\ task'[x].at = task[x].at /\ OverTask(task[x], u) /\ OthersKeep(w)
  BY <1>1, ScanKept, OthersOfStep DEF OverTasks
<1>3. redis[u] \in Nat /\ redis[u] >= Limit
  BY DEF Over, IndInv, CountsSound
<1>4. \A y \in Invalid : task'[x].val[y] = Null
  <2> SUFFICES ASSUME NEW y \in Invalid PROVE task'[x].val[y] = Null
    OBVIOUS
  <2>1. task[x].val[y] = Null /\ y \in Users
    BY <1>2 DEF OverTask
  <2>2. QED
    BY <1>1, <2>1, ValuesStep
<1>5. IF task'[x].pc = "eval" THEN task'[x].val[u] = 0
      ELSE task'[x].val[u] = Null \/ task'[x].val[u] >= Limit
  <2>1. /\ \/ task'[x].val[u] = Null
           \/ task'[x].val[u] = task[x].val[u] /\ (task[x].pc = "eval" => task'[x].pc = "eval")
           \/ /\ task[x].pc = "eval" /\ task[x].val[u] # Null
              /\ task'[x].val[u] = IF redis[u] = Null THEN 0 ELSE redis[u]
        /\ task'[x].pc = "eval" => task[x].pc = "eval" /\ task'[x].val = task[x].val
    BY <1>1, ValuesStep
  <2>2. QED
    BY <1>2, <1>3, <2>1 DEF OverTask
<1>6. ASSUME task'[x].pc \in {"mark", "put"} PROVE task'[x].val[u] = Null
  <2>1. CASE x # w
    BY <1>2, <1>6, <2>1 DEF OthersKeep, OverTask
  <2>2. CASE x = w
    <3>1. generate_violation_message(w) \/ mark_sent(w) \/ add_message(w)
      BY <1>1, <1>6, <2>2, Moves
    <3>2. KeepsVal(w) /\ task[w].val[u] = Null
      BY <1>1, <1>2, <2>2, <3>1, GenerateResult, MarkResult, PutResult DEF OverTask
    <3>3. QED
      BY <2>2, <3>2 DEF KeepsVal
  <2>3. QED
    BY <2>1, <2>2
<1>7. QED
  BY <1>4, <1>5, <1>6 DEF OverTask

\* Once a second has begun after the user was low, nothing unblocks it any more.
LEMMA OverReports ==
  ASSUME Base, ConnInv, NEW u \in Users, NEW s \in Nat, reached \subseteq {u}, OverParts(u, s),
         NEW k, k = Second(now), Began(k) > s + 2 * (MaxLag - 1)
  PROVE  OverKnown(u, k) /\ ~Says("reqs_unblock", queue)
<1> USE LoopAssumption
<1>1. /\ IndInv /\ ConnTasks /\ ConnKeys /\ OverTasks(u, s) /\ OverSecond(u, k)
      /\ FadingTasks("reqs_unblock", s) /\ FadingKeys("reqs_unblock", u, s)
      /\ FadingQueue("reqs_unblock", s)
  BY DEF Base, ConnInv, OverParts, Fading
<1>2. /\ now \in Nat /\ now > s + 2 * (MaxLag - 1)
      /\ \A w \in Workers : task[w] # Null =>
           /\ task[w].at \in Nat /\ task[w].at > s + MaxLag - 1 /\ task[w].at > s
  <2>1. /\ now \in Nat /\ Began(k) \in Nat /\ Began(k) <= now
        /\ \A w \in Workers : task[w] # Null => task[w].at \in Nat /\ now < task[w].at + MaxLag
    BY OverTimes
  <2>2. QED
    BY <2>1
<1>3. ~Says("reqs_unblock", queue)
  BY <1>1, <1>2 DEF FadingQueue
<1>4. ASSUME NEW w \in Workers, task[w] # Null
      PROVE  /\ OverTask(task[w], u)
             /\ Reporting(task[w]) => task[w].act = "reqs_block" /\ task[w].cur = u
             /\ \A m \in Range(task[w].out) : m.usage = "reqs_block" /\ m.keys = {u}
  <2>1. ConnCheck(task[w], reached) /\ FadingTask("reqs_unblock", task[w], s) /\ task[w] \in Check
    BY <1>1, <1>4, MessagesKnown DEF ConnTasks, FadingTasks
  <2>2. OverTask(task[w], u)
    BY <1>1, <1>2, <1>4 DEF OverTasks
  <2>3. ASSUME Reporting(task[w]) PROVE task[w].act = "reqs_block" /\ task[w].cur = u
    <3>1. task[w].act # "GET" /\ task[w].cur \in reached /\ task[w].act \in Usages
      BY <2>1, <2>3 DEF ConnCheck, Reporting, Check
    <3>2. task[w].act # "reqs_unblock"
      BY <1>2, <1>4, <2>1, <2>3 DEF FadingTask
    <3>3. QED
      BY <3>1, <3>2 DEF Usages
  <2>4. ASSUME NEW m \in Range(task[w].out) PROVE m.usage = "reqs_block" /\ m.keys = {u}
    <3>1. ConnMessage(m, reached) /\ m.usage \in Usages
      BY <1>1, <1>4, <2>1, <2>4, MessagesKnown DEF ConnCheck
    <3>2. m.usage # "reqs_unblock"
      BY <1>2, <1>4, <2>1, <2>4 DEF FadingTask, Says
    <3>3. QED
      BY <3>1, <3>2 DEF ConnMessage, Usages
  <2>5. QED
    BY <2>2, <2>3, <2>4
<1>5. u \notin new_keys["reqs_unblock"]
  BY <1>1, <1>2 DEF FadingKeys, Sender
<1>6. OnlyReports("reqs_block", u)
  <2>1. \A v \in Usages \ {"reqs_block"} : new_keys[v] = {}
    BY <1>1, <1>5 DEF ConnKeys, Usages
  <2>2. new_keys["reqs_block"] \subseteq {u}
    BY <1>1 DEF ConnKeys, Usages
  <2>3. QED
    BY <1>4, <2>1, <2>2 DEF OnlyReports
<1>7. QED
  BY <1>1, <1>3, <1>4, <1>6 DEF OverKnown

\* Every step of a check.
LEMMA OverCheckStep ==
  ASSUME Base, ConnInv, NEW u \in Users, NEW s \in Nat, reached \subseteq {u}, OverParts(u, s),
         Over(redis[u]), \A x \in Invalid : redis[x] = Null,
         NEW w \in Workers, CheckStep(w), UNCHANGED <<reached, reqs_map, scanned>>
  PROVE  OverParts(u, s)'
<1> USE GeneratorAssumption
<1>1. /\ IndInv /\ ConnTasks /\ UNCHANGED now /\ OverTasks(u, s) /\ Fading("reqs_unblock", u, s)
      /\ "reqs_unblock" \in Usages
  BY CheckKeeps DEF Base, ConnInv, OverParts, Usages
<1>2. PICK k : k = Second(now)
  OBVIOUS
<1>3. OverTasks(u, s)'
  BY <1>1, OverTasksStep
<1>4. ASSUME NEW x \in Users, _check_all_conn_key_violations(w, x), Report(w, x, "reqs_unblock")
      PROVE  task[w].at <= s
  <2>1. /\ task[w] # Null /\ task[w].pc = "check" /\ task[w].val[x] \in Nat /\ task[w].at \in Nat
        /\ \/ Report(w, x, "reqs_block")
           \/ u = x /\ task[w].val[x] <= UnblockMax
           \/ Examined(w, x)
    BY <1>1, <1>4, ExamineCases
  <2>2. task'[w].act = "reqs_unblock" /\ Goes(w, "add")
    BY <1>1, <1>4, <2>1, ReportResult
  <2>3. ~Report(w, x, "reqs_block") /\ ~Examined(w, x)
    BY <1>1, <2>1, <2>2, ReportResult, ExaminedResult DEF Usages, Goes
  <2>4. task[w].at > s => task[w].val[u] = Null \/ task[w].val[u] >= Limit
    BY <1>1, <2>1 DEF OverTasks, OverTask
  <2>5. QED
    BY <2>1, <2>3, <2>4
<1>5. Fading("reqs_unblock", u, s)'
  BY <1>1, <1>4, FadingStep
<1>6. ASSUME Began(k) > s + 2 * (MaxLag - 1) PROVE OverSecond(u, k)'
  <2>1. OverKnown(u, k)
    BY <1>2, <1>6, OverReports
  <2>2. /\ OverRecorded(u, k)' /\ OverScanned(u, k)' /\ OverRenewals(k)' /\ OverWipers(u, k)'
        /\ epoch' = k => Taken(u, k, Settled(k))'
    BY <2>1, OverRecordedStep, OverScannedStep, OverRenewalsStep, OverWipersStep, OverEpochStep
  <2>3. now > Settled(k) + 2 * (MaxLag - 1) => Told(u, k)
    BY <2>1 DEF OverKnown, OverSecond
  <2>4. QED
    BY <1>1, <2>2, <2>3 DEF OverSecond, Told
<1>7. QED
  BY <1>1, <1>2, <1>3, <1>5, <1>6 DEF OverParts

\* Steps that leave the checks and keys alone, and a scan, which starts a check of the user.
LEMMA OverKept ==
  ASSUME NEW u \in Users, NEW s \in Nat, OverParts(u, s),
         \A w \in Workers : task[w] # Null => task'[w] = task[w],
         UNCHANGED <<now, epoch, new_keys, sent_keys, queue, blocked_users, reqs_map>>,
         \A w \in Workers : task'[w] # Null /\ task[w] = Null =>
            /\ task'[w].pc = "eval" /\ task'[w].at = now /\ Range(task'[w].out) = {}
            /\ OverTask(task'[w], u),
         \/ UNCHANGED scanned
         \/ \E w \in Workers : task'[w] # Null /\ task'[w].at = now /\ task'[w].val[u] # Null
  PROVE  OverParts(u, s)'
<1>1. PICK k : k = Second(now)
  OBVIOUS
<1>2. OverTasks(u, s)'
  BY DEF OverParts, OverTasks, OverTask
<1>3. Fading("reqs_unblock", u, s)'
  BY FadingKept DEF OverParts
<1>4. ASSUME OverSecond(u, k) PROVE OverSecond(u, k)'
  <2>1. \A t : Taken(u, k, t) => Taken(u, k, t)'
    BY ChainKept DEF Taken, Told
  <2>2. Caught(u, k) => Caught(u, k)'
    BY <2>1 DEF Caught
  <2>3. OverRecorded(u, k)'
    BY <1>4, <2>2 DEF OverSecond, OverRecorded
  <2>4. OverScanned(u, k)'
    BY <1>4, <2>2 DEF OverSecond, OverScanned
  <2>5. OverRenewals(k)'
    BY <1>4 DEF OverSecond, OverRenewals
  <2>6. OverWipers(u, k)'
    BY <1>4 DEF OverSecond, OverWipers, Told, Sending, Wipers
  <2>7. QED
    BY <1>4, <2>1, <2>3, <2>4, <2>5, <2>6 DEF OverSecond, Told
<1>5. QED
  BY <1>1, <1>2, <1>3, <1>4 DEF OverParts

\* HAProxy reads the queue: nothing in it unblocks the user, so the user is blocked.
LEMMA OverIngest ==
  ASSUME Base, ConnInv, NEW u \in Users, NEW s \in Nat, reached \subseteq {u}, OverParts(u, s),
         ingest_policies
  PROVE  OverParts(u, s)'
<1> USE GeneratorAssumption
<1>1. /\ UNCHANGED <<now, task, epoch, new_keys, sent_keys, blocked_users>>
      /\ queue # <<>> /\ queue' = <<>> /\ IndInv
  BY DEF ingest_policies, send_policy_to_haproxy, policies, Base
<1>2. PICK k : k = Second(now)
  OBVIOUS
<1>3. OverTasks(u, s)' /\ Fading("reqs_unblock", u, s)'
  BY <1>1, FadingKept DEF OverParts, OverTasks, OverTask
<1>4. ASSUME Began(k) > s + 2 * (MaxLag - 1) PROVE Told(u, k)' /\ OverSecond(u, k)
  <2>1. OverSecond(u, k) /\ ~Says("reqs_unblock", queue)
    BY <1>2, <1>4, OverReports DEF OverKnown
  <2>2. \A m \in Range(queue) : m.usage = "reqs_block" /\ m.keys = {u}
    BY <1>1, <2>1, MessagesKnown DEF ConnInv, ConnQueue, ConnMessage, Says, Usages
  <2>3. PICK line \in Concatenated(queue) : update_violates(line, Second(now))
    BY DEF ingest_policies
  <2>4. line.usage = "reqs_block" /\ u \in line.keys
    BY <1>1, <2>2, LineResult
  <2>5. QED
    BY <1>2, <2>1, <2>3, <2>4 DEF update_violates, update_violates_reqs, Told
<1>5. ASSUME Told(u, k)', OverSecond(u, k) PROVE OverSecond(u, k)'
  <2>1. \A t : Taken(u, k, t)'
    BY <1>5 DEF Taken
  <2>2. Caught(u, k)'
    BY <2>1 DEF Caught
  <2>3. OverRenewals(k)'
    BY <1>1, <1>5 DEF OverSecond, OverRenewals
  <2>4. QED
    BY <1>5, <2>1, <2>2, <2>3 DEF OverSecond, OverRecorded, OverScanned, OverWipers
<1>6. /\ Began(k) > s + 2 * (MaxLag - 1) => OverSecond(u, k)'
      /\ Began(k) > s + 2 * (MaxLag - 1) => reqs_map'[u] = k
  BY <1>4, <1>5 DEF Told
<1>7. k \in Nat /\ Began(k) \in Nat
  BY <1>2, OverTimes
<1>8. Began(k) > s + 2 * (MaxLag - 1) + TicksPerSecond => Began(k) > s + 2 * (MaxLag - 1)
  BY <1>7, LoopAssumption
<1>9. QED
  BY <1>1, <1>2, <1>3, <1>6, <1>7, <1>8 DEF OverParts

\* When the clock goes on past the last message of this second, the user is blocked.
LEMMA OverDue ==
  ASSUME Base, NEW u \in Users, NEW k, k = Second(now), OverSecond(u, k), Tick,
         scanned["conn"] > 0, now >= Settled(k) + 2 * (MaxLag - 1)
  PROVE  Told(u, k)
<1> USE GeneratorAssumption, LoopAssumption
<1>1. /\ Began(k) \in Nat /\ now \in Nat /\ Began(k) + Backoff + MaxLag - 1 <= Settled(k)
      /\ AllNew(k) \in Nat /\ Settled(k) \in Nat /\ AllNew(k) + MaxLag - 1 <= Settled(k)
      /\ \A x \in Workers : task[x] # Null => task[x].at \in Nat
  BY OverTimes
<1>2. \A w \in Workers : task[w] # Null => now + 1 - task[w].at < MaxLag
  BY DEF Tick
<1>3. now > Began(k) + Backoff \/ (now = Began(k) + Backoff /\ scanned["conn"] > 0)
  <2>1. now >= Began(k) + Backoff
    BY <1>1
  <2>2. QED
    BY <1>1, <2>1
<1>4. ~\E w \in Workers : /\ task[w] # Null /\ task[w].at = Began(k) + Backoff
                          /\ task[w].val[u] # Null
  BY <1>1, <1>2
<1>5. Caught(u, k)
  BY <1>3, <1>4 DEF OverSecond, OverScanned
<1>6. Taken(u, k, Settled(k)) \/ Taken(u, k, AllNew(k))
  BY <1>5 DEF Caught, OverSecond
<1>7. PICK t \in {Settled(k), AllNew(k)} : Taken(u, k, t)
  BY <1>6
<1>8. t \in Nat /\ ~(now < t + 2 * MaxLag - 2)
  BY <1>1
<1>9. ~Chain("reqs_block", u, t)
  BY <1>8, ChainTick
<1>10. QED
  BY <1>7, <1>9 DEF Taken

\* The clock goes on within a second.
LEMMA OverSameSecond ==
  ASSUME Base, NEW u \in Users, NEW k, k = Second(now), OverSecond(u, k), Tick,
         scanned["conn"] > 0, scanned'["conn"] = 0
  PROVE  OverSecond(u, k)'
<1> USE GeneratorAssumption, LoopAssumption
<1>1. /\ Began(k) \in Nat /\ Settled(k) \in Nat /\ now \in Nat
  BY OverTimes
<1>2. /\ now' = now + 1
      /\ UNCHANGED <<epoch, new_keys, sent_keys, blocked_users, queue, task, reqs_map>>
  BY DEF Tick, policies
<1>3. \A t : Taken(u, k, t) => Taken(u, k, t)'
  BY <1>2, ChainKept DEF Taken, Told
<1>4. Caught(u, k) => Caught(u, k)'
  BY <1>2, <1>3 DEF Caught
<1>5. OverRecorded(u, k)'
  BY <1>2, <1>4 DEF OverSecond, OverRecorded
<1>6. OverRenewals(k)' /\ OverWipers(u, k)'
  BY <1>2 DEF OverSecond, OverRenewals, OverWipers, Told, Sending, Wipers
<1>7. PICK b \in Nat : b = Began(k)
  BY <1>1
<1>8. OverScanned(u, k)'
  <2> SUFFICES ASSUME now' > b + Backoff \/ (now' = b + Backoff /\ scanned'["conn"] > 0)
               PROVE  \/ Caught(u, k)'
                      \/ \E w \in Workers : /\ task'[w] # Null /\ task'[w].at = b + Backoff
                                            /\ task'[w].val[u] # Null
    BY <1>7 DEF OverScanned
  <2>1. now > b + Backoff \/ (now = b + Backoff /\ scanned["conn"] > 0)
    BY <1>1, <1>2
  <2>2. QED
    BY <1>2, <1>4, <1>7, <2>1 DEF OverSecond, OverScanned
<1>9. ASSUME now' > Settled(k) + 2 * (MaxLag - 1) PROVE Told(u, k)'
  <2>1. now >= Settled(k) + 2 * (MaxLag - 1)
    BY <1>1, <1>2, <1>9
  <2>2. Told(u, k)
    BY <2>1, OverDue
  <2>3. QED
    BY <1>2, <2>2 DEF Told
<1>10. QED
  BY <1>2, <1>3, <1>5, <1>6, <1>8, <1>9 DEF OverSecond

\* A second begins: nothing of it has happened yet.
LEMMA OverNextSecond ==
  ASSUME Base, NEW u \in Users, NEW k, k = Second(now), NEW n \in Nat, n = k + 1, Tick,
         Began(n) = now + 1, scanned'["conn"] = 0
  PROVE  OverSecond(u, n)'
<1> USE GeneratorAssumption, LoopAssumption
<1>1. /\ IndInv /\ now \in Nat /\ epoch \in Nat /\ epoch <= k /\ k \in Nat
      /\ \A w \in Workers : task[w] # Null => task[w].at \in Nat /\ task[w].at <= now
      /\ blocked_users[u] # Null => blocked_users[u] \in Nat /\ blocked_users[u] <= now
  <2>1. /\ now \in Nat /\ epoch \in Nat /\ epoch <= k /\ k \in Nat
        /\ \A w \in Workers : task[w] # Null => task[w].at \in Nat /\ task[w].at <= now
    BY OverTimes
  <2>2. blocked_users[u] # Null => blocked_users[u] \in Nat /\ blocked_users[u] <= now
    BY <2>1 DEF Base, IndInv, BlockedSound
  <2>3. QED
    BY <2>1, <2>2 DEF Base
<1>2. /\ now' = now + 1 /\ UNCHANGED <<epoch, blocked_users, task>>
  BY DEF Tick, policies
<1>3. PICK b \in Nat : b = now + 1
  BY <1>1
<1>4. Began(n) = b /\ AllNew(n) \in Nat /\ AllNew(n) >= b /\ Settled(n) \in Nat /\ Settled(n) >= b
  BY <1>3 DEF AllNew, Settled, Delay
<1>5. epoch' # n
  BY <1>1, <1>2
<1>6. OverRecorded(u, n)'
  BY <1>1, <1>2, <1>3, <1>4 DEF OverRecorded
<1>7. ~(now' > b + Backoff) /\ ~(scanned'["conn"] > 0)
  BY <1>1, <1>2, <1>3
<1>8. OverScanned(u, n)'
  BY <1>4, <1>7 DEF OverScanned
<1>9. OverRenewals(n)'
  BY <1>1, <1>2, <1>3, <1>4 DEF OverRenewals
<1>10. Wipers(Settled(n))'
  BY <1>1, <1>2, <1>3, <1>4 DEF Wipers
<1>11. ~(now' > Settled(n) + 2 * (MaxLag - 1))
  BY <1>1, <1>2, <1>3, <1>4
<1>12. QED
  BY <1>5, <1>6, <1>8, <1>9, <1>10, <1>11 DEF OverSecond, OverWipers

\* The clock.
LEMMA OverTick ==
  ASSUME "conn" \in Kinds, Delay + 3 * (MaxLag - 1) < TicksPerSecond,
         Base, NEW u \in Users, NEW s \in Nat, OverParts(u, s), redis[u] # Null, Tick
  PROVE  OverParts(u, s)'
<1> USE GeneratorAssumption, LoopAssumption
<1>1. /\ now' = now + 1 /\ scanned["conn"] > 0 /\ scanned'["conn"] = 0
      /\ UNCHANGED <<new_keys, task, reqs_map>> /\ queue' = <<>>
  BY DEF Tick, policies
<1>2. PICK k : k = Second(now)
  OBVIOUS
<1>3. /\ k \in Nat /\ now \in Nat /\ Began(k) \in Nat /\ Began(k) <= now
      /\ Settled(k) = Began(k) + MaxLag - 1 + Delay /\ Delay \in Nat
  <2>1. Delay \in Nat
    BY DEF Delay
  <2>2. QED
    BY <1>2, <2>1, OverTimes
<1>4. OverTasks(u, s)' /\ Fading("reqs_unblock", u, s)'
  BY <1>1, FadingKept DEF OverParts, OverTasks, OverTask
<1>5. CASE Second(now') = k
  <2>1. OverSecond(u, k) => OverSecond(u, k)'
    BY <1>1, <1>2, OverSameSecond
  <2>2. QED
    BY <1>1, <1>2, <1>4, <1>5, <2>1 DEF OverParts
<1>6. CASE Second(now') # k
  <2>1. PICK n \in Nat : n = k + 1
    BY <1>3
  <2>2. Second(now') = n /\ Began(n) = now + 1 /\ Began(n) = Began(k) + TicksPerSecond
    BY <1>1, <1>2, <1>3, <1>6, <2>1, TickSecond DEF Began
  <2>3. OverSecond(u, n)'
    BY <1>1, <1>2, <2>1, <2>2, OverNextSecond
  <2>4. ASSUME Began(n) > s + 2 * (MaxLag - 1) + TicksPerSecond
        PROVE  reqs_map[u] # Null /\ reqs_map[u] + 1 >= n
    <3>1. Began(k) > s + 2 * (MaxLag - 1)
      BY <1>3, <2>2, <2>4
    <3>2. now >= Settled(k) + 2 * (MaxLag - 1)
      BY <1>3, <2>2
    <3>3. Told(u, k)
      BY <1>1, <1>2, <3>1, <3>2, OverDue DEF OverParts
    <3>4. QED
      BY <1>3, <2>1, <3>3 DEF Told
  <2>5. QED
    BY <1>1, <1>4, <2>2, <2>3, <2>4 DEF OverParts
<1>7. QED
  BY <1>5, <1>6

\* The user reaches the limit now, or something fails: all checks and keys are older.
LEMMA OverBegins ==
  ASSUME Base', NEW u \in Users, NEW s \in Nat, now' = s
  PROVE  OverParts(u, s)'
<1> USE GeneratorAssumption, LoopAssumption
<1>1. Fading("reqs_unblock", u, s)'
  BY FadingBegins DEF Usages
<1>2. OverTasks(u, s)'
  <2>1. TasksSound'
    BY DEF Base, IndInv
  <2>2. QED
    BY <2>1 DEF TasksSound, Sound, Check, OverTasks
<1>3. PICK k : k = Second(s)
  OBVIOUS
<1>4. Began(k) \in Nat /\ Began(k) <= s
  BY <1>3, SecondBounds DEF Began
<1>5. ~(Began(k) > s + 2 * (MaxLag - 1)) /\ ~(Began(k) > s + 2 * (MaxLag - 1) + TicksPerSecond)
  BY <1>4
<1>6. Second(now') = k
  BY <1>3
<1>7. QED
  BY <1>1, <1>2, <1>5, <1>6 DEF OverParts

\* Every step, for one user.
LEMMA OverUserStep ==
  ASSUME Kinds = {"conn"}, Delay + 3 * (MaxLag - 1) < TicksPerSecond, Base, OverInv, [Next]_vars,
         NEW u \in Users
  PROVE  OverUser(u)'
<1> USE GeneratorAssumption
<1>1. /\ IndInv /\ ConnInv /\ Base' /\ OverUser(u) /\ now \in Nat
      /\ overSince \in [Users -> (0 .. now) \cup {Null}]
  BY BaseStep DEF OverInv, Base, IndInv, CountsSound, HaproxySound
<1>2. PICK s : s = overSince[u]
  OBVIOUS
<1>3. ASSUME s # Null
      PROVE  /\ s \in Nat /\ Over(redis[u]) /\ \A x \in Invalid : redis[x] = Null
             /\ reached \subseteq {u} => OverParts(u, s)
  BY <1>1, <1>2, <1>3 DEF OverUser
<1>4. ASSUME overSince'[u] = s, UNCHANGED redis, reached' = reached,
             s # Null /\ reached \subseteq {u} => OverParts(u, s)'
      PROVE  OverUser(u)'
  BY <1>3, <1>4 DEF OverUser
<1>5. ASSUME NEW w \in Workers, NEW k \in Kinds, ScanStep(w, k) PROVE OverUser(u)'
  <2>1. check_loop(w, "conn") /\ UNCHANGED <<redis, overSince, reached, reqs_map>>
    BY <1>5 DEF ScanStep, check_loop
  <2>2. /\ task[w] = Null /\ task'[w] # Null /\ Alone(w)
        /\ task'[w].pc = "eval" /\ task'[w].at = now /\ Range(task'[w].out) = {}
        /\ \A x \in Users : task'[w].val[x] = IF redis[x] = Null THEN Null ELSE 0
        /\ UNCHANGED <<now, epoch, new_keys, sent_keys, queue, blocked_users>>
    BY <1>1, <1>5, <2>1, ScanResult
  <2>3. ASSUME s # Null PROVE OverTask(task'[w], u) /\ task'[w].val[u] # Null
    <3>1. redis[u] # Null /\ \A x \in Invalid : redis[x] = Null
      BY <1>3, <2>3 DEF Over
    <3>2. QED
      BY <2>2, <3>1 DEF OverTask
  <2>4. s # Null /\ reached \subseteq {u} => OverParts(u, s)'
    BY <1>3, <2>1, <2>2, <2>3, OverKept DEF Alone
  <2>5. QED
    BY <1>2, <1>4, <2>1, <2>4
<1>6. ASSUME NEW w \in Workers, WorkerStep(w) PROVE OverUser(u)'
  <2>1. CheckStep(w) /\ UNCHANGED <<reqs_map, scanned, overSince, reached>>
    BY <1>6 DEF WorkerStep, history
  <2>2. UNCHANGED redis
    BY <2>1, CheckKeeps
  <2>3. s # Null /\ reached \subseteq {u} => OverParts(u, s)'
    BY <1>1, <1>3, <2>1, OverCheckStep
  <2>4. QED
    BY <1>2, <1>4, <2>1, <2>2, <2>3
<1>7. ASSUME ingest_policies PROVE OverUser(u)'
  <2>1. UNCHANGED <<redis, overSince, reached>>
    BY <1>7 DEF ingest_policies, send_policy_to_haproxy, history
  <2>2. s # Null /\ reached \subseteq {u} => OverParts(u, s)'
    BY <1>1, <1>3, <1>7, OverIngest
  <2>3. QED
    BY <1>2, <1>4, <2>1, <2>2
<1>8. ASSUME NEW d \in Nat, now' = d, overSince'[u] = d PROVE OverParts(u, overSince[u])'
  <2>1. OverParts(u, d)'
    BY <1>1, <1>8, OverBegins
  <2>2. QED
    BY <1>8, <2>1
<1>9. ASSUME \/ \E w \in Workers : RedisError(w)
             \/ _send_policies_fails \/ GeneratorRestarts \/ HaproxyRestarts
      PROVE  OverUser(u)'
  <2>1. overSince' = [x \in Users |-> IF overSince[x] = Null THEN Null ELSE now]
    BY <1>9 DEF RedisError, _send_policies_fails, GeneratorRestarts, HaproxyRestarts, Failure
  <2>2. UNCHANGED <<now, redis>>
    BY <1>9 DEF RedisError, RedisFails, _send_policies_fails, send_policy_to_haproxy,
       GeneratorRestarts, RestartGenerator, HaproxyRestarts, genVars
  <2>3. CASE s = Null
    BY <1>2, <2>1, <2>3 DEF OverUser
  <2>4. CASE s # Null
    <3>1. PICK d \in Nat : d = now
      BY <1>1
    <3>2. OverParts(u, overSince[u])'
      BY <1>2, <1>8, <2>1, <2>2, <2>4, <3>1
    <3>3. QED
      BY <1>3, <2>2, <2>4, <3>2 DEF OverUser
  <2>5. QED
    BY <2>3, <2>4
<1>10. ASSUME NEW x \in Users, NEW n \in Counts \cup {Null}, CountChanges(x, n) PROVE OverUser(u)'
  <2>1. /\ overSince'[u] = IF ~Over(redis'[u]) \/ \E y \in Invalid : redis'[y] # Null THEN Null
                           ELSE IF overSince[u] = Null THEN now ELSE overSince[u]
        /\ UNCHANGED <<now, epoch, new_keys, sent_keys, queue, blocked_users, reqs_map, task, scanned>>
        /\ reached \subseteq reached'
    BY <1>10 DEF CountChanges, SetCount, policies
  <2>2. CASE overSince'[u] = Null
    BY <2>2 DEF OverUser
  <2>3. CASE overSince'[u] # Null
    <3>1. Over(redis'[u]) /\ \A y \in Invalid : redis'[y] = Null
      BY <2>1, <2>3
    <3>2. ASSUME s = Null PROVE OverParts(u, overSince[u])'
      <4>1. PICK d \in Nat : d = now
        BY <1>1
      <4>2. QED
        BY <1>2, <1>8, <2>1, <2>3, <3>2, <4>1
    <3>3. ASSUME s # Null, reached' \subseteq {u} PROVE OverParts(u, overSince[u])'
      <4>1. OverParts(u, s) /\ s \in Nat
        BY <1>3, <2>1, <3>3
      <4>2. OverParts(u, s)'
        BY <2>1, <4>1, OverKept
      <4>3. overSince'[u] = s
        BY <1>2, <2>1, <2>3, <3>3
      <4>4. QED
        BY <4>2, <4>3
    <3>4. QED
      BY <3>1, <3>2, <3>3 DEF OverUser
  <2>4. QED
    BY <2>2, <2>3
<1>11. ASSUME (\E x \in Users : VerbExceeded(x)) \/ UNCHANGED vars PROVE OverUser(u)'
  <2>1. UNCHANGED <<now, redis, task, epoch, new_keys, sent_keys, queue, blocked_users, reqs_map,
                    scanned, overSince, reached>>
    BY <1>11 DEF VerbExceeded, Exceed, vars, genVars, policies, history
  <2>2. s # Null /\ reached \subseteq {u} => OverParts(u, s)'
    BY <1>3, <2>1, OverKept
  <2>3. QED
    BY <1>2, <1>4, <2>1, <2>2
<1>12. ASSUME Tick PROVE OverUser(u)'
  <2>1. UNCHANGED <<redis, overSince, reached>>
    BY <1>12 DEF Tick
  <2>2. s # Null /\ reached \subseteq {u} => OverParts(u, s)'
    BY <1>3, <1>12, OverTick DEF Over
  <2>3. QED
    BY <1>2, <1>4, <2>1, <2>2
<1>13. QED
  BY <1>5, <1>6, <1>7, <1>9, <1>10, <1>11, <1>12 DEF Next, EndOfRun

\* A user that stays at the limit, the only one that has been, is blocked after a second, the
\* backoff and the length of five checks, and from then on (_check_all_conn_key_violations,
\* Policies, is_reqs_violator), while all keys can be parsed: for any users, threads, limits and
\* lengths of a check, and whatever failed before, when only active requests are checked and
\* the backoff and three checks take less than a second.
THEOREM OverloadBlocked ==
  ASSUME Kinds = {"conn"}, Delay + 3 * (MaxLag - 1) < TicksPerSecond
  PROVE  Spec => []OverloadIsBlocked
<1> USE GeneratorAssumption, LoopAssumption
<1>1. Init => Base /\ OverInv
  <2> SUFFICES ASSUME Init PROVE Base /\ OverInv
    OBVIOUS
  <2>1. \A u \in Users : OverUser(u)
    BY DEF Init, OverUser
  <2>2. QED
    BY <2>1, BaseInit, ConnInit DEF OverInv
<1>2. Base /\ OverInv /\ [Next]_vars => (Base /\ OverInv)'
  <2> SUFFICES ASSUME Base, OverInv, [Next]_vars PROVE Base' /\ OverInv'
    OBVIOUS
  <2>1. Base' /\ ConnInv'
    BY BaseStep, ConnStep DEF OverInv
  <2>2. \A u \in Users : OverUser(u)'
    BY OverUserStep
  <2>3. QED
    BY <2>1, <2>2 DEF OverInv
<1>3. Base /\ OverInv => OverloadIsBlocked
  <2> SUFFICES ASSUME Base, OverInv, NEW u \in Users, overSince[u] # Null,
                      now > overSince[u] + TicksPerSecond + Delay + 5 * (MaxLag - 1),
                      reached \subseteq {u}
               PROVE  is_reqs_violator(Second(now), u)
    BY DEF OverloadIsBlocked
  <2>1. PICK s \in Nat : s = overSince[u]
    BY DEF Base, IndInv, HaproxySound
  <2>2. PICK k : k = Second(now)
    OBVIOUS
  <2>3. OverParts(u, s) /\ reqs_map[u] \in Nat \cup {Null}
    BY <2>1 DEF OverInv, OverUser, Base, IndInv, HaproxySound
  <2>4. /\ k \in Nat /\ now \in Nat /\ Began(k) \in Nat /\ now < Began(k) + TicksPerSecond
        /\ Settled(k) = Began(k) + MaxLag - 1 + Delay /\ Delay \in Nat
    <3>1. Delay \in Nat
      BY DEF Delay
    <3>2. QED
      BY <2>2, <3>1, OverTimes
  <2>5. CASE now <= Settled(k) + 2 * (MaxLag - 1)
    <3>1. Began(k) > s + 2 * (MaxLag - 1) + TicksPerSecond
      BY <2>1, <2>4, <2>5
    <3>2. reqs_map[u] # Null /\ reqs_map[u] + 1 >= k
      BY <2>2, <2>3, <3>1 DEF OverParts
    <3>3. QED
      BY <2>2, <2>3, <2>4, <3>2 DEF is_reqs_violator
  <2>6. CASE now > Settled(k) + 2 * (MaxLag - 1)
    <3>1. Began(k) > s + 2 * (MaxLag - 1)
      BY <2>1, <2>4
    <3>2. reqs_map[u] = k
      BY <2>2, <2>3, <2>6, <3>1 DEF OverParts, OverSecond, Told
    <3>3. QED
      BY <2>2, <2>4, <3>2 DEF is_reqs_violator
  <2>7. QED
    BY <2>4, <2>5, <2>6
<1>4. QED
  BY <1>1, <1>2, <1>3, PTL DEF Spec
=============================================================================
