------------------------- MODULE SyslogServerProofs -------------------------
(***************************************************************************)
(* Proofs about SyslogServer for any users, categories, sizes and bounds:    *)
(* its types, that usage is conserved between the queue and Redis, that a    *)
(* flush writes the newest report, and that the server implements the        *)
(* ledger. The amounts are sums over the ages of the keys and over the       *)
(* places of the queue (FunctionSums).                                      *)
(***************************************************************************)
EXTENDS SyslogServer, FunctionSums

\* What a datagram of each type carries.
LEMMA MessageFields ==
  ASSUME NEW m \in Message
  PROVE  /\ m.type \in {"req", "data_xfer", "report", "malformed"}
         /\ m.type \in {"req", "report"} => m.user \in Users /\ m.n \in 0 .. MaxActive
         /\ m.type = "data_xfer" => m.n \in Nat
<1>1. CASE m \in [type : {"malformed"}]
  BY <1>1
<1>2. CASE m \in [type : {"report"}, user : Users, n : 0 .. MaxActive]
  BY <1>2
<1>3. CASE m \in [type : {"data_xfer"}, user : Users, cats : {{c} : c \in Categories},
                 n : XferLens]
  BY <1>3, ServerAssumption
<1>4. CASE m \in [type : {"req"}, user : Users,
                 cats : {C \in SUBSET Categories : Cardinality(C) \in {1, 2}},
                 tokens : ReqTokens, n : 1 .. MaxActive]
  BY <1>4, ServerAssumption
<1>5. QED
  BY <1>1, <1>2, <1>3, <1>4 DEF Message

\* A datagram adds a natural amount.
LEMMA AmountNat ==
  ASSUME NEW m \in Message, NEW u, NEW c
  PROVE  Amount(m, u, c) \in Nat
BY MessageFields DEF Amount, WellFormed

\* What processing a datagram makes of the tables is well typed.
LEMMA ProcessingTypes ==
  ASSUME TypeOK, NEW m \in Message
  PROVE  /\ AfterProcessing(m) \in [CmdKey -> Nat]
         /\ Reported(m, active_reqs) \in [Users -> 0 .. MaxActive \cup {Null}]
<1>1. ASSUME NEW k \in CmdKey
      PROVE  commands[k] + (IF k[3] = 0 THEN Amount(m, k[1], k[2]) ELSE 0) \in Nat
  BY AmountNat DEF TypeOK
<1>2. AfterProcessing(m) \in [CmdKey -> Nat]
  BY <1>1 DEF AfterProcessing
<1>3. Reported(m, active_reqs) \in [Users -> 0 .. MaxActive \cup {Null}]
  BY MessageFields DEF Reported, TypeOK
<1>4. QED
  BY <1>2, <1>3

-----------------------------------------------------------------------------
(* Sums over the ages of a user's keys. *)

\* There are finitely many ages, 0 and the two that may be erased among them.
LEMMA AgesFinite ==
  /\ IsFiniteSet(Ages) /\ Ages \subseteq Nat /\ 0 \in Ages
  /\ \A ages \in SUBSET Ages : IsFiniteSet(ages)
  /\ \A old \in ErasableAges : old \subseteq {a \in Ages : a >= RedisQosTtl}
<1>1. RedisQosTtl \in Nat /\ RedisQosTtl >= 1
  BY ServerAssumption
<1>2. IsFiniteSet(Ages)
  BY <1>1, FS_Interval DEF Ages
<1>3. \A ages \in SUBSET Ages : IsFiniteSet(ages)
  BY <1>2, FS_Subset
<1>4. Ages \subseteq Nat /\ 0 \in Ages
  BY <1>1 DEF Ages
<1>5. \A old \in ErasableAges : old \subseteq {a \in Ages : a >= RedisQosTtl}
  BY <1>1 DEF Ages, ErasableAges
<1>6. QED
  BY <1>2, <1>3, <1>4, <1>5

\* The sum over some ages is a natural number, and over fewer ages it is no larger.
LEMMA SumAgesNat ==
  ASSUME NEW cmds \in [CmdKey -> Nat], NEW u \in Users, NEW c \in Categories,
         NEW ages \in SUBSET Ages
  PROVE  SumAges(cmds, u, c, ages) \in Nat
<1> DEFINE f == [a \in ages |-> cmds[<<u, c, a>>]]
<1>1. \A a \in ages : f[a] \in Nat
  BY DEF CmdKey
<1>2. SumFunctionOnSet(f, ages) \in Nat
  <2> HIDE DEF f
  <2>1. QED
    BY <1>1, AgesFinite, SumNat
<1>3. QED
  BY <1>2 DEF SumAges

\* Tables that agree on the ages have the same sum over them.
LEMMA SumAgesEqual ==
  ASSUME NEW cmds \in [CmdKey -> Nat], NEW other, NEW u \in Users, NEW c \in Categories,
         NEW ages \in SUBSET Ages,
         \A a \in ages : other[<<u, c, a>>] = cmds[<<u, c, a>>]
  PROVE  SumAges(other, u, c, ages) = SumAges(cmds, u, c, ages)
<1> DEFINE f == [a \in ages |-> cmds[<<u, c, a>>]]
           g == [a \in ages |-> other[<<u, c, a>>]]
<1>1. \A a \in ages : f[a] \in Int /\ g[a] = f[a]
  BY DEF CmdKey
<1>2. SumFunctionOnSet(g, ages) = SumFunctionOnSet(f, ages)
  <2> HIDE DEF f, g
  <2>1. QED
    BY <1>1, AgesFinite, SumEqual
<1>3. QED
  BY <1>2 DEF SumAges

\* The sum over all ages is the sum over some and the sum over the others.
LEMMA SumAgesSplit ==
  ASSUME NEW cmds \in [CmdKey -> Nat], NEW u \in Users, NEW c \in Categories,
         NEW all \in SUBSET Ages, NEW ages \in SUBSET all
  PROVE  /\ SumAges(cmds, u, c, all)
              = SumAges(cmds, u, c, ages) + SumAges(cmds, u, c, all \ ages)
         /\ SumAges(cmds, u, c, ages) <= SumAges(cmds, u, c, all)
<1> DEFINE f == [a \in all |-> cmds[<<u, c, a>>]]
           g == [a \in ages |-> cmds[<<u, c, a>>]]
           h == [a \in all \ ages |-> cmds[<<u, c, a>>]]
<1>1. /\ \A a \in all : f[a] \in Int
      /\ \A a \in ages : f[a] \in Int /\ g[a] = f[a]
      /\ \A a \in all \ ages : f[a] \in Int /\ h[a] = f[a]
  BY DEF CmdKey
<1>2. IsFiniteSet(all) /\ IsFiniteSet(ages) /\ IsFiniteSet(all \ ages)
  BY AgesFinite
<1>3. all = ages \cup (all \ ages) /\ ages \cap (all \ ages) = {}
  OBVIOUS
<1>4. SumFunctionOnSet(f, all) = SumFunctionOnSet(g, ages) + SumFunctionOnSet(h, all \ ages)
  <2> HIDE DEF f, g, h
  <2>1. SumFunctionOnSet(f, ages \cup (all \ ages))
          = SumFunctionOnSet(f, ages) + SumFunctionOnSet(f, all \ ages)
    BY <1>1, <1>2, <1>3, SumDisjoint
  <2>2. SumFunctionOnSet(g, ages) = SumFunctionOnSet(f, ages)
    BY <1>1, <1>2, SumEqual
  <2>3. SumFunctionOnSet(h, all \ ages) = SumFunctionOnSet(f, all \ ages)
    BY <1>1, <1>2, SumEqual
  <2>4. QED
    BY <1>3, <2>1, <2>2, <2>3
<1>5. SumAges(cmds, u, c, all) = SumAges(cmds, u, c, ages) + SumAges(cmds, u, c, all \ ages)
  BY <1>4 DEF SumAges
<1>6. SumAges(cmds, u, c, ages) \in Nat /\ SumAges(cmds, u, c, all \ ages) \in Nat
  BY SumAgesNat
<1>7. QED
  BY <1>5, <1>6

\* A table without amounts.
LEMMA SumAgesZero ==
  ASSUME NEW cmds, NEW u \in Users, NEW c \in Categories, NEW ages \in SUBSET Ages,
         \A a \in ages : cmds[<<u, c, a>>] = 0
  PROVE  SumAges(cmds, u, c, ages) = 0
<1> DEFINE f == [a \in ages |-> cmds[<<u, c, a>>]]
<1>1. \A a \in ages : f[a] \in Int /\ f[a] = 0 * f[a]
  OBVIOUS
<1>2. SumFunctionOnSet(f, ages) \in Int
      /\ SumFunctionOnSet(f, ages) = 0 * SumFunctionOnSet(f, ages)
  <2> HIDE DEF f
  <2>1. QED
    <3>1. IsFiniteSet(ages) /\ 0 \in Int
      BY AgesFinite
    <3>2. SumFunctionOnSet(f, ages) \in Int
      BY <1>1, <3>1, SumStep
    <3>3. SumFunctionOnSet(f, ages) = 0 * SumFunctionOnSet(f, ages)
      BY <1>1, <3>1, SumScale
    <3>4. QED
      BY <3>2, <3>3
<1>3. SumFunctionOnSet(f, ages) = 0
  BY <1>2
<1>4. QED
  BY <1>3 DEF SumAges

\* Processing a datagram adds its amount to the key of the current second, and to no key that
\* may be erased.
LEMMA SumAfterProcessing ==
  ASSUME TypeOK, NEW m \in Message, NEW u \in Users, NEW c \in Categories
  PROVE  /\ SumAges(AfterProcessing(m), u, c, Ages)
              = SumAges(commands, u, c, Ages) + Amount(m, u, c)
         /\ \A ages \in SUBSET {a \in Ages : a >= RedisQosTtl} :
              SumAges(AfterProcessing(m), u, c, ages) = SumAges(commands, u, c, ages)
<1> DEFINE cmds == AfterProcessing(m)
<1>1. cmds \in [CmdKey -> Nat] /\ commands \in [CmdKey -> Nat]
  BY ProcessingTypes DEF TypeOK
<1>2. {0} \in SUBSET Ages /\ Ages \ {0} \in SUBSET Ages /\ 0 \in Ages
  BY AgesFinite
<1>3. ASSUME NEW a \in Ages
      PROVE  cmds[<<u, c, a>>] = commands[<<u, c, a>>] + IF a = 0 THEN Amount(m, u, c) ELSE 0
  BY DEF AfterProcessing, CmdKey
<1>4. ASSUME NEW a \in Ages, a # 0 PROVE cmds[<<u, c, a>>] = commands[<<u, c, a>>]
  BY <1>1, <1>3, <1>4 DEF CmdKey
<1>5. Amount(m, u, c) \in Nat
  BY AmountNat
<1> HIDE DEF cmds
<1>6. ASSUME NEW t \in [CmdKey -> Nat] PROVE SumAges(t, u, c, {0}) = t[<<u, c, 0>>]
  <2> DEFINE f == [a \in {0} |-> t[<<u, c, a>>]]
  <2>1. f[0] = t[<<u, c, 0>>] /\ \A a \in {0} : f[a] \in Int
    BY <1>2 DEF CmdKey
  <2>2. SumFunctionOnSet(f, {0}) = f[0]
    <3> HIDE DEF f
    <3>1. QED
      BY <2>1, SumSingle
  <2>3. QED
    BY <2>1, <2>2 DEF SumAges
<1>7. SumAges(cmds, u, c, Ages) = SumAges(cmds, u, c, {0}) + SumAges(cmds, u, c, Ages \ {0})
  BY <1>1, <1>2, SumAgesSplit
<1>8. SumAges(commands, u, c, Ages)
        = SumAges(commands, u, c, {0}) + SumAges(commands, u, c, Ages \ {0})
  BY <1>1, <1>2, SumAgesSplit
<1>9. SumAges(cmds, u, c, Ages \ {0}) = SumAges(commands, u, c, Ages \ {0})
  BY <1>1, <1>2, <1>4, SumAgesEqual
<1>10. cmds[<<u, c, 0>>] = commands[<<u, c, 0>>] + Amount(m, u, c)
  BY <1>2, <1>3
<1>11. commands[<<u, c, 0>>] \in Nat /\ SumAges(commands, u, c, Ages \ {0}) \in Nat
  BY <1>1, <1>2, SumAgesNat DEF CmdKey
<1>12. SumAges(cmds, u, c, Ages) = SumAges(commands, u, c, Ages) + Amount(m, u, c)
  <2>1. SumAges(cmds, u, c, {0}) = cmds[<<u, c, 0>>]
        /\ SumAges(commands, u, c, {0}) = commands[<<u, c, 0>>]
    BY <1>1, <1>6
  <2>2. QED
    BY <1>5, <1>7, <1>8, <1>9, <1>10, <1>11, <2>1
<1>13. ASSUME NEW ages \in SUBSET {a \in Ages : a >= RedisQosTtl}
       PROVE  SumAges(cmds, u, c, ages) = SumAges(commands, u, c, ages)
  <2>1. ages \in SUBSET Ages /\ \A a \in ages : a # 0
    BY ServerAssumption
  <2>2. \A a \in ages : cmds[<<u, c, a>>] = commands[<<u, c, a>>]
    BY <1>4, <2>1
  <2>3. QED
    BY <1>1, <2>1, <2>2, SumAgesEqual
<1>14. QED
  BY <1>12, <1>13 DEF cmds

\* Erasing the keys of some ages takes away their sum.
LEMMA SumAfterErasure ==
  ASSUME NEW cmds \in [CmdKey -> Nat], NEW old \in SUBSET Ages, NEW rest,
         rest = [k \in CmdKey |-> IF k[3] \in old THEN 0 ELSE cmds[k]],
         NEW u \in Users, NEW c \in Categories
  PROVE  SumAges(rest, u, c, Ages) + SumAges(cmds, u, c, old) = SumAges(cmds, u, c, Ages)
<1>1. rest \in [CmdKey -> Nat]
  OBVIOUS
<1>2. \A a \in old : rest[<<u, c, a>>] = 0
  BY DEF CmdKey
<1>3. \A a \in Ages \ old : rest[<<u, c, a>>] = cmds[<<u, c, a>>]
  BY DEF CmdKey
<1>4. Ages \ old \in SUBSET Ages /\ Ages \in SUBSET Ages
  OBVIOUS
<1>5. SumAges(rest, u, c, Ages) = SumAges(rest, u, c, old) + SumAges(rest, u, c, Ages \ old)
  BY <1>1, <1>4, SumAgesSplit
<1>6. SumAges(cmds, u, c, Ages) = SumAges(cmds, u, c, old) + SumAges(cmds, u, c, Ages \ old)
  BY <1>4, SumAgesSplit
<1>7. SumAges(rest, u, c, old) = 0
  BY <1>2, SumAgesZero
<1>8. SumAges(rest, u, c, Ages \ old) = SumAges(cmds, u, c, Ages \ old)
  BY <1>3, <1>4, SumAgesEqual
<1>9. SumAges(cmds, u, c, old) \in Nat /\ SumAges(cmds, u, c, Ages \ old) \in Nat
  BY <1>4, SumAgesNat
<1>10. QED
  BY <1>5, <1>6, <1>7, <1>8, <1>9

\* A second later all keys are one second older, and their sum is the same.
LEMMA SumAfterSecond ==
  ASSUME TypeOK, NextSecond, NEW u \in Users, NEW c \in Categories
  PROVE  SumAges(commands', u, c, Ages) = SumAges(commands, u, c, Ages)
<1> DEFINE last == RedisQosTtl + 1
           f == [a \in Ages |-> commands[<<u, c, a>>]]
           g == [a \in Ages |-> commands'[<<u, c, a>>]]
           b == [a \in Ages \ {0} |-> a - 1]
<1>1. RedisQosTtl \in Nat /\ last \in Ages /\ 0 \in Ages /\ Ages = 0 .. last
  BY ServerAssumption DEF Ages
<1>2. commands \in [CmdKey -> Nat]
  BY DEF TypeOK
<1>3. commands' = [k \in CmdKey |-> IF k[3] = 0 THEN 0 ELSE commands[<<k[1], k[2], k[3] - 1>>]]
  BY DEF NextSecond
<1>4. commands[<<u, c, last>>] = 0
  BY <1>1 DEF NextSecond, CmdKey
<1>5. f[last] = 0 /\ \A a \in Ages : f[a] \in Int
  BY <1>1, <1>2, <1>4 DEF CmdKey
<1>6. g[0] = 0
  BY <1>1, <1>3 DEF CmdKey
<1>7. ASSUME NEW a \in Ages \ {0} PROVE a - 1 \in Ages \ {last} /\ g[a] = f[a - 1]
  <2>1. a - 1 \in Ages \ {last}
    BY <1>1
  <2>2. <<u, c, a>> \in CmdKey
    BY DEF CmdKey
  <2>3. QED
    BY <1>3, <2>1, <2>2
<1>8. b \in [Ages \ {0} -> Ages \ {last}] /\ \A a \in Ages \ {0} : b[a] = a - 1
  BY <1>7
<1>9. \A t \in Ages \ {last} : t + 1 \in Ages \ {0} /\ b[t + 1] = t
  BY <1>1
<1>10. \A x, y \in Ages \ {0} : b[x] = b[y] => x = y
  BY <1>1
<1>11. \A a \in Ages : g[a] \in Int
  <2>1. ASSUME NEW a \in Ages PROVE g[a] \in Int
    <3>1. CASE a = 0
      BY <1>6, <3>1
    <3>2. CASE a # 0
      <4>1. g[a] = f[a - 1] /\ a - 1 \in Ages
        BY <1>7, <3>2
      <4> HIDE DEF f, g
      <4>2. QED
        BY <1>5, <4>1
    <3>3. QED
      BY <3>1, <3>2
  <2> HIDE DEF g
  <2>2. QED
    BY <2>1
<1>12. IsFiniteSet(Ages) /\ IsFiniteSet(Ages \ {0}) /\ IsFiniteSet(Ages \ {last})
  BY AgesFinite
<1> HIDE DEF f, g, b, last
<1>13. SumFunctionOnSet(g, Ages) = g[0] + SumFunctionOnSet(g, Ages \ {0})
       /\ SumFunctionOnSet(g, Ages \ {0}) \in Int
  BY <1>1, <1>11, <1>12, SumStep, SMTT(30)
<1>14. SumFunctionOnSet(f, Ages) = f[last] + SumFunctionOnSet(f, Ages \ {last})
       /\ SumFunctionOnSet(f, Ages \ {last}) \in Int
  BY <1>1, <1>5, <1>12, SumStep
<1>15. SumFunctionOnSet(g, Ages \ {0}) = SumFunctionOnSet(f, Ages \ {last})
  <2>1. \A t \in Ages \ {last} : \E x \in Ages \ {0} : b[x] = t
    BY <1>9
  <2>2. \A x \in Ages \ {0} : f[b[x]] \in Int /\ g[x] = f[b[x]]
    BY <1>5, <1>7, <1>8
  <2>3. QED
    BY <1>8, <1>10, <1>12, <2>1, <2>2, SumReindex
<1>16. SumFunctionOnSet(g, Ages) = SumFunctionOnSet(f, Ages)
  BY <1>5, <1>6, <1>13, <1>14, <1>15
<1>17. QED
  BY <1>16 DEF SumAges, f, g

-----------------------------------------------------------------------------
(* Sums over the queue. *)

\* The amount of a queue.
SumQueue(q, u, c) == SumFunction([i \in DOMAIN q |-> Amount(q[i], u, c)])

\* It is a natural number, and 0 for the empty queue.
LEMMA SumQueueNat ==
  ASSUME NEW q \in Seq(Message), NEW u, NEW c
  PROVE  /\ SumQueue(q, u, c) \in Nat
         /\ q = <<>> => SumQueue(q, u, c) = 0
<1> DEFINE f == [i \in DOMAIN q |-> Amount(q[i], u, c)]
<1>1. DOMAIN f = 1 .. Len(q) /\ Len(q) \in Nat /\ IsFiniteSet(1 .. Len(q))
  BY FS_Interval
<1>2. \A i \in 1 .. Len(q) : f[i] \in Nat /\ f[i] \in Int
  BY AmountNat
<1>3. SumFunctionOnSet(f, 1 .. Len(q)) \in Nat /\ SumFunctionOnSet(f, {}) = 0
  <2> HIDE DEF f
  <2>1. QED
    BY <1>1, <1>2, SumNat, SumStep
<1>4. q = <<>> => 1 .. Len(q) = {}
  OBVIOUS
<1>5. SumQueue(q, u, c) = SumFunctionOnSet(f, 1 .. Len(q))
  BY <1>1 DEF SumQueue, SumFunction
<1>6. QED
  BY <1>3, <1>4, <1>5

\* A datagram more at the end adds its amount.
LEMMA SumQueueAppend ==
  ASSUME NEW q \in Seq(Message), NEW m \in Message, NEW u, NEW c
  PROVE  SumQueue(Append(q, m), u, c) = SumQueue(q, u, c) + Amount(m, u, c)
<1> DEFINE n == Len(q)
           f == [i \in DOMAIN q |-> Amount(q[i], u, c)]
           g == [i \in DOMAIN Append(q, m) |-> Amount(Append(q, m)[i], u, c)]
<1>1. n \in Nat /\ DOMAIN f = 1 .. n /\ DOMAIN g = 1 .. n + 1
  OBVIOUS
<1>2. g[n + 1] = Amount(m, u, c) /\ g[n + 1] \in Nat
  BY AmountNat
<1>3. \A i \in 1 .. n : f[i] \in Int /\ g[i] = f[i]
  BY AmountNat
<1>4. \A i \in 1 .. n + 1 : g[i] \in Int
  BY AmountNat
<1>5. (1 .. n + 1) \ {n + 1} = 1 .. n /\ n + 1 \in 1 .. n + 1
  BY <1>1
<1>6. IsFiniteSet(1 .. n) /\ IsFiniteSet(1 .. n + 1)
  BY <1>1, FS_Interval
<1>7. SumFunctionOnSet(g, 1 .. n + 1) = SumFunctionOnSet(f, 1 .. n) + g[n + 1]
  <2> HIDE DEF f, g, n
  <2>1. SumFunctionOnSet(g, 1 .. n + 1) = g[n + 1] + SumFunctionOnSet(g, 1 .. n)
    <3> DEFINE S == 1 .. n + 1
               last == n + 1
    <3>1. IsFiniteSet(S) /\ last \in S /\ \A i \in S : g[i] \in Int
      BY <1>4, <1>5, <1>6
    <3>2. S \ {last} = 1 .. n
      BY <1>5
    <3> HIDE DEF S, last
    <3>3. SumFunctionOnSet(g, S) = g[last] + SumFunctionOnSet(g, S \ {last})
      BY <3>1, SumStep
    <3>4. QED
      BY <3>2, <3>3 DEF S, last
  <2>2. SumFunctionOnSet(g, 1 .. n) = SumFunctionOnSet(f, 1 .. n)
    BY <1>3, <1>6, SumEqual
  <2>3. SumFunctionOnSet(f, 1 .. n) \in Int
    BY <1>3, <1>6, SumStep
  <2>4. QED
    BY <1>2, <2>1, <2>2, <2>3
<1>8. QED
  BY <1>1, <1>2, <1>7 DEF SumQueue, SumFunction

\* The datagram at the head takes its amount along.
LEMMA SumQueueTail ==
  ASSUME NEW q \in Seq(Message), q # <<>>, NEW u, NEW c
  PROVE  SumQueue(q, u, c) = Amount(Head(q), u, c) + SumQueue(Tail(q), u, c)
<1> DEFINE n == Len(q)
           f == [i \in DOMAIN q |-> Amount(q[i], u, c)]
           g == [i \in DOMAIN Tail(q) |-> Amount(Tail(q)[i], u, c)]
           b == [i \in 1 .. n - 1 |-> i + 1]
<1>1. n \in Nat /\ n >= 1 /\ DOMAIN f = 1 .. n /\ DOMAIN g = 1 .. n - 1
  OBVIOUS
<1>2. f[1] = Amount(Head(q), u, c)
  BY <1>1
<1>3. \A i \in 1 .. n : f[i] \in Int
  BY AmountNat
<1>4. \A i \in 1 .. n - 1 : i + 1 \in 1 .. n /\ b[i] = i + 1 /\ g[i] = f[i + 1]
  BY <1>1
<1>5. b \in [1 .. n - 1 -> (1 .. n) \ {1}] /\ \A x, y \in 1 .. n - 1 : b[x] = b[y] => x = y
  BY <1>1
<1>6. \A t \in (1 .. n) \ {1} : \E x \in 1 .. n - 1 : b[x] = t
  <2>1. ASSUME NEW t \in (1 .. n) \ {1} PROVE t - 1 \in 1 .. n - 1 /\ b[t - 1] = t
    BY <1>1
  <2> HIDE DEF b
  <2>2. QED
    BY <2>1
<1>7. IsFiniteSet(1 .. n) /\ IsFiniteSet(1 .. n - 1) /\ IsFiniteSet((1 .. n) \ {1})
  <2>1. 1 \in Int /\ n \in Int /\ n - 1 \in Int
    BY <1>1
  <2> HIDE DEF n
  <2>2. IsFiniteSet(1 .. n) /\ IsFiniteSet(1 .. n - 1)
    BY <2>1, FS_Interval
  <2>3. QED
    BY <2>2, FS_RemoveElement, FS_Subset
<1>8. SumFunctionOnSet(f, 1 .. n) = f[1] + SumFunctionOnSet(g, 1 .. n - 1)
  <2> HIDE DEF f, g, n, b
  <2>1. 1 \in 1 .. n
    BY <1>1
  <2>2. SumFunctionOnSet(f, 1 .. n) = f[1] + SumFunctionOnSet(f, (1 .. n) \ {1})
    BY <1>3, <1>7, <2>1, SumStep
  <2>3. \A x \in 1 .. n - 1 : f[b[x]] \in Int /\ g[x] = f[b[x]]
    BY <1>3, <1>4
  <2>4. SumFunctionOnSet(g, 1 .. n - 1) = SumFunctionOnSet(f, (1 .. n) \ {1})
    <3> DEFINE S == 1 .. n - 1
               T == (1 .. n) \ {1}
    <3>1. /\ IsFiniteSet(S) /\ IsFiniteSet(T) /\ b \in [S -> T]
          /\ \A x, y \in S : b[x] = b[y] => x = y
          /\ \A t \in T : \E x \in S : b[x] = t
          /\ \A x \in S : f[b[x]] \in Int /\ g[x] = f[b[x]]
      BY <1>5, <1>6, <1>7, <2>3
    <3> HIDE DEF S, T
    <3>2. SumFunctionOnSet(g, S) = SumFunctionOnSet(f, T)
      BY <3>1, SumReindex
    <3>3. QED
      BY <3>2 DEF S, T
  <2>5. QED
    BY <2>2, <2>4
<1>9. QED
  BY <1>1, <1>2, <1>8 DEF SumQueue, SumFunction

-----------------------------------------------------------------------------
(* Types. *)

\* A flush keeps the types.
LEMMA FlushTypes ==
  ASSUME TypeOK, NEW cmds \in [CmdKey -> Nat], NEW areqs \in [Users -> 0 .. MaxActive \cup {Null}],
         FlushConnected(cmds, areqs) \/ FlushDisconnected(cmds, areqs)
  PROVE  /\ commands' \in [CmdKey -> Nat] /\ pipeline' \in Amounts
         /\ redisAmount' \in Amounts /\ discarded' \in Amounts
         /\ active_reqs' \in [Users -> 0 .. MaxActive \cup {Null}]
         /\ redisActive' \in [Users -> 0 .. MaxActive \cup {Null}]
<1>1. ASSUME NEW a \in Amounts, NEW ages \in SUBSET Ages
      PROVE  Plus(a, OfAges(cmds, ages)) \in Amounts
  <2>1. ASSUME NEW u \in Users, NEW c \in Categories
        PROVE  a[u][c] + OfAges(cmds, ages)[u][c] \in Nat
    <3>1. OfAges(cmds, ages)[u][c] = SumAges(cmds, u, c, ages)
      BY DEF OfAges
    <3>2. SumAges(cmds, u, c, ages) \in Nat /\ a[u][c] \in Nat
      BY SumAgesNat DEF Amounts
    <3>3. QED
      BY <3>1, <3>2
  <2>2. QED
    BY <2>1 DEF Plus, Amounts
<1>2. CASE FlushConnected(cmds, areqs)
  <2>1. pipeline' \in Amounts
    BY <1>1, <1>2 DEF FlushConnected, TypeOK
  <2>2. QED
    BY <1>2, <2>1 DEF FlushConnected, TypeOK
<1>3. CASE FlushDisconnected(cmds, areqs)
  <2>1. PICK old \in ErasableAges :
          /\ commands' = [k \in CmdKey |-> IF k[3] \in old THEN 0 ELSE cmds[k]]
          /\ discarded' = Plus(discarded, OfAges(cmds, old))
    BY <1>3 DEF FlushDisconnected
  <2>2. old \in SUBSET Ages
    BY AgesFinite
  <2>3. discarded' \in Amounts
    BY <1>1, <2>1, <2>2 DEF TypeOK
  <2>4. commands' \in [CmdKey -> Nat]
    BY <2>1
  <2>5. QED
    BY <1>3, <2>3, <2>4 DEF FlushDisconnected, TypeOK
<1>4. QED
  BY <1>2, <1>3

\* The sum of amounts is one.
LEMMA PlusType ==
  /\ \A a, b \in Amounts : Plus(a, b) \in Amounts
  /\ NoAmounts \in Amounts
BY DEF Plus, Amounts, NoAmounts

\* Whatever the connection does, it stays one.
LEMMA LinkTypes ==
  ASSUME TypeOK
  PROVE  /\ Link!Connects \/ Link!Closes \/ Link!Closed \/ Link!Answers \/ Link!Fails
              => link' \in {"down", "up", "closing"}
         /\ (pipeline' # NoAmounts) \in BOOLEAN
BY DEF TypeOK, Link!LinkTypeOK, Link!Connects, Link!Closes, Link!Closed, Link!Answers, Link!Fails

\* Every step of the producer, the consumer, the clock and the connection keeps the types.
LEMMA TypeStep == TypeOK /\ [Next]_vars => TypeOK'
<1> SUFFICES ASSUME TypeOK, [Next]_vars PROVE TypeOK'
  OBVIOUS
<1>1. CASE msgProducerThread
  <2>1. PICK m \in Message : try_enqueue(m)
    BY <1>1 DEF msgProducerThread
  <2>2. queue' \in Seq(Message) /\ Len(queue') <= MsgQueueSize /\ accepted' \in Amounts
    <3>1. CASE queue' = Append(queue, m) /\ Len(queue) < MsgQueueSize
               /\ accepted' = [u \in Users |-> [c \in Categories |->
                                accepted[u][c] + Amount(m, u, c)]]
      <4>1. \A u \in Users, c \in Categories : accepted[u][c] + Amount(m, u, c) \in Nat
        BY AmountNat DEF TypeOK, Amounts
      <4>2. accepted' \in Amounts
        BY <3>1, <4>1 DEF Amounts
      <4>3. queue' \in Seq(Message) /\ Len(queue') <= MsgQueueSize
        BY <3>1, ServerAssumption DEF TypeOK
      <4>4. QED
        BY <4>2, <4>3
    <3>2. CASE UNCHANGED <<queue, accepted>>
      BY <3>2 DEF TypeOK
    <3>3. QED
      BY <2>1, <3>1, <3>2 DEF try_enqueue
  <2>3. received' \in 0 .. MaxMessages
    BY <1>1, ServerAssumption DEF msgProducerThread, TypeOK
  <2>4. QED
    BY <1>1, <2>2, <2>3 DEF msgProducerThread, TypeOK, Link!LinkTypeOK
<1>2. CASE messageConsumerThread
  <2> DEFINE m == Head(queue)
             unsent == not_send_count + IF WellFormed(m) THEN 1 ELSE 0
  <2>1. m \in Message /\ queue' \in Seq(Message) /\ Len(queue') <= MsgQueueSize
    BY <1>2, ServerAssumption DEF messageConsumerThread, TypeOK
  <2>2. /\ AfterProcessing(m) \in [CmdKey -> Nat]
        /\ Reported(m, active_reqs) \in [Users -> 0 .. MaxActive \cup {Null}]
    BY <2>1, ProcessingTypes
  <2>3. unsent \in Nat
    BY ServerAssumption DEF TypeOK
  <2>4. sendToRedisQos(AfterProcessing(m), Reported(m, active_reqs), unsent)
    BY <1>2 DEF messageConsumerThread
  <2>5. lastReported' \in [Users -> 0 .. MaxActive \cup {Null}]
    <3>1. lastReported' = [u \in Users |->
              IF WellFormed(m) /\ m.type \in {"req", "report"} /\ m.user = u
              THEN m.n ELSE lastReported[u]]
      BY <1>2 DEF messageConsumerThread
    <3> HIDE DEF m
    <3>2. QED
      BY <2>1, <3>1, MessageFields DEF TypeOK
  <2> HIDE DEF m, unsent
  <2>6. /\ commands' \in [CmdKey -> Nat] /\ pipeline' \in Amounts
        /\ redisAmount' \in Amounts /\ discarded' \in Amounts
        /\ active_reqs' \in [Users -> 0 .. MaxActive \cup {Null}]
        /\ redisActive' \in [Users -> 0 .. MaxActive \cup {Null}]
        /\ not_send_count' \in 0 .. BatchCount
    <3>1. CASE /\ not_send_count' = 0
               /\ \/ FlushConnected(AfterProcessing(m), Reported(m, active_reqs))
                  \/ FlushDisconnected(AfterProcessing(m), Reported(m, active_reqs))
      BY <2>2, <3>1, FlushTypes, ServerAssumption
    <3>2. CASE /\ unsent < BatchCount
               /\ not_send_count' = unsent
               /\ commands' = AfterProcessing(m)
               /\ active_reqs' = Reported(m, active_reqs)
               /\ UNCHANGED <<pipeline, redisAmount, redisActive, discarded>>
      BY <2>2, <2>3, <3>2, ServerAssumption DEF TypeOK
    <3>3. QED
      BY <2>4, <3>1, <3>2 DEF sendToRedisQos
  <2>7. QED
    BY <1>2, <2>1, <2>5, <2>6 DEF messageConsumerThread, TypeOK, Link!LinkTypeOK
<1>3. CASE ConsumerTimeout
  <2>1. /\ commands' \in [CmdKey -> Nat] /\ pipeline' \in Amounts
        /\ redisAmount' \in Amounts /\ discarded' \in Amounts
        /\ active_reqs' \in [Users -> 0 .. MaxActive \cup {Null}]
        /\ redisActive' \in [Users -> 0 .. MaxActive \cup {Null}]
    BY <1>3, FlushTypes DEF ConsumerTimeout, TypeOK
  <2>2. QED
    BY <1>3, <2>1, ServerAssumption DEF ConsumerTimeout, TypeOK, Link!LinkTypeOK
<1>4. CASE NextSecond
  <2>1. ASSUME NEW k \in CmdKey
        PROVE  (IF k[3] = 0 THEN 0 ELSE commands[<<k[1], k[2], k[3] - 1>>]) \in Nat
    BY ServerAssumption DEF CmdKey, Ages, TypeOK
  <2>2. commands' \in [CmdKey -> Nat]
    BY <1>4, <2>1 DEF NextSecond
  <2>3. QED
    BY <1>4, <2>2 DEF NextSecond, TypeOK, Link!LinkTypeOK
<1>5. CASE LinkChanges
  BY <1>5, LinkTypes DEF LinkChanges, TypeOK, Link!LinkTypeOK
<1>6. CASE LinkAnswers
  <2>1. PICK refused \in [Users -> [Categories -> 0 .. MaxRefused]] :
          /\ \A u \in Users, c \in Categories : refused[u][c] <= pipeline[u][c]
          /\ redisAmount' = [u \in Users |-> [c \in Categories |->
                               redisAmount[u][c] + pipeline[u][c] - refused[u][c]]]
          /\ discarded' = Plus(discarded, refused)
    BY <1>6 DEF LinkAnswers
  <2>2. refused \in Amounts
    BY ServerAssumption DEF Amounts
  <2>3. \A u \in Users, c \in Categories :
          redisAmount[u][c] + pipeline[u][c] - refused[u][c] \in Nat
    BY <2>1, <2>2 DEF TypeOK, Amounts
  <2>4. redisAmount' \in Amounts /\ discarded' \in Amounts
    BY <2>1, <2>2, <2>3, PlusType DEF TypeOK, Amounts
  <2>5. QED
    BY <1>6, <2>4, LinkTypes, PlusType DEF LinkAnswers, TypeOK, Link!LinkTypeOK
<1>7. CASE LinkFails
  <2>1. PICK executed \in [Users -> [Categories -> 0 .. MaxExecuted]] :
          /\ \A u \in Users, c \in Categories : executed[u][c] <= pipeline[u][c]
          /\ redisAmount' = Plus(redisAmount, executed)
          /\ discarded' = [u \in Users |-> [c \in Categories |->
                             discarded[u][c] + pipeline[u][c] - executed[u][c]]]
    BY <1>7 DEF LinkFails
  <2>2. executed \in Amounts
    BY ServerAssumption DEF Amounts
  <2>3. \A u \in Users, c \in Categories :
          discarded[u][c] + pipeline[u][c] - executed[u][c] \in Nat
    BY <2>1, <2>2 DEF TypeOK, Amounts
  <2>4. redisAmount' \in Amounts /\ discarded' \in Amounts
    BY <2>1, <2>2, <2>3, PlusType DEF TypeOK, Amounts
  <2>5. QED
    BY <1>7, <2>4, LinkTypes, PlusType DEF LinkFails, TypeOK, Link!LinkTypeOK
<1>8. CASE RedisExpires
  BY <1>8 DEF RedisExpires, TypeOK, Link!LinkTypeOK
<1>9. CASE UNCHANGED vars
  BY <1>9 DEF vars, TypeOK, Link!LinkTypeOK
<1>10. QED
  BY <1>1, <1>2, <1>3, <1>4, <1>5, <1>6, <1>7, <1>8, <1>9 DEF Next

-----------------------------------------------------------------------------
(* Where the usage of a user and category is. *)

\* Accepted, and not yet in Redis or given up.
Owed(u, c) == QueuedAmount(u, c) + SumAges(commands, u, c, Ages) + pipeline[u][c]

\* The keys that a flush without a connection may erase.
OldAges == {a \in Ages : a >= RedisQosTtl}

AtRisk(u, c) == pipeline[u][c] + SumAges(commands, u, c, OldAges)

\* A step that takes in usage, and one that moves it on.
Accepts(u, c) ==
  /\ redisAmount' = redisAmount /\ discarded' = discarded
  /\ accepted'[u][c] >= accepted[u][c]
  /\ Owed(u, c)' = Owed(u, c) + (accepted'[u][c] - accepted[u][c])

Settles(u, c) ==
  /\ accepted'[u][c] = accepted[u][c]
  /\ redisAmount'[u][c] >= redisAmount[u][c]
  /\ discarded'[u][c] >= discarded[u][c]
  /\ discarded'[u][c] - discarded[u][c] <= AtRisk(u, c)
  /\ Owed(u, c)' + redisAmount'[u][c] + discarded'[u][c]
       = Owed(u, c) + redisAmount[u][c] + discarded[u][c]

\* The amounts are natural numbers, and what is at risk is owed.
LEMMA AmountTypes ==
  ASSUME TypeOK, NEW u \in Users, NEW c \in Categories
  PROVE  /\ QueuedAmount(u, c) \in Nat /\ SumAges(commands, u, c, Ages) \in Nat
         /\ SumAges(commands, u, c, OldAges) \in Nat
         /\ pipeline[u][c] \in Nat /\ redisAmount[u][c] \in Nat
         /\ discarded[u][c] \in Nat /\ accepted[u][c] \in Nat
         /\ Owed(u, c) \in Nat
         /\ AtRisk(u, c) \in 0 .. Owed(u, c)
<1>1. QueuedAmount(u, c) \in Nat
  BY SumQueueNat DEF TypeOK, QueuedAmount, SumQueue
<1>2. OldAges \in SUBSET Ages /\ Ages \in SUBSET Ages
  BY DEF OldAges
<1>3. SumAges(commands, u, c, Ages) \in Nat /\ SumAges(commands, u, c, OldAges) \in Nat
  BY <1>2, SumAgesNat DEF TypeOK
<1>4. SumAges(commands, u, c, OldAges) <= SumAges(commands, u, c, Ages)
  BY <1>2, SumAgesSplit DEF TypeOK
<1>5. /\ pipeline[u][c] \in Nat /\ redisAmount[u][c] \in Nat
      /\ discarded[u][c] \in Nat /\ accepted[u][c] \in Nat
  BY DEF TypeOK, Amounts
<1>6. QED
  BY <1>1, <1>3, <1>4, <1>5 DEF Owed, AtRisk

\* Debts, risks and what was settled are natural numbers, and no more is at risk than owed.
Natural ==
  \A u \in Users, c \in Categories :
    /\ Owed(u, c) \in Nat /\ AtRisk(u, c) \in 0 .. Owed(u, c)
    /\ redisAmount[u][c] \in Nat /\ discarded[u][c] \in Nat /\ accepted[u][c] \in Nat

\* Types after a step make them so after the step.
LEMMA NaturalAfter == TypeOK' => Natural'
<1>1. TypeOK => Natural
  BY AmountTypes DEF Natural
<1>2. QED
  BY <1>1, PTL

\* A flush moves the aggregated amounts to the pipeline, or gives up what may be erased.
LEMMA FlushSettles ==
  ASSUME TypeOK, NEW cmds \in [CmdKey -> Nat], NEW areqs,
         FlushConnected(cmds, areqs) \/ FlushDisconnected(cmds, areqs),
         NEW u \in Users, NEW c \in Categories
  PROVE  /\ redisAmount'[u][c] = redisAmount[u][c]
         /\ discarded'[u][c] >= discarded[u][c]
         /\ discarded'[u][c] - discarded[u][c] <= SumAges(cmds, u, c, OldAges)
         /\ SumAges(commands', u, c, Ages) + pipeline'[u][c] + discarded'[u][c]
              = SumAges(cmds, u, c, Ages) + pipeline[u][c] + discarded[u][c]
<1>1. pipeline[u][c] \in Nat /\ discarded[u][c] \in Nat
  BY AmountTypes
<1>2. OldAges \in SUBSET Ages /\ Ages \in SUBSET Ages
  BY DEF OldAges
<1>3. SumAges(cmds, u, c, Ages) \in Nat /\ SumAges(cmds, u, c, OldAges) \in Nat
  BY <1>2, SumAgesNat
<1>4. CASE FlushConnected(cmds, areqs)
  <2>1. \A a \in Ages : commands'[<<u, c, a>>] = 0
    BY <1>4 DEF FlushConnected, CmdKey
  <2>2. SumAges(commands', u, c, Ages) = 0
    BY <1>2, <2>1, SumAgesZero
  <2>3. pipeline'[u][c] = pipeline[u][c] + SumAges(cmds, u, c, Ages)
    BY <1>4 DEF FlushConnected, Plus, OfAges
  <2>4. UNCHANGED <<redisAmount, discarded>>
    BY <1>4 DEF FlushConnected
  <2>5. QED
    BY <1>1, <1>3, <2>2, <2>3, <2>4
<1>5. CASE FlushDisconnected(cmds, areqs)
  <2>1. PICK old \in ErasableAges :
          /\ commands' = [k \in CmdKey |-> IF k[3] \in old THEN 0 ELSE cmds[k]]
          /\ discarded' = Plus(discarded, OfAges(cmds, old))
    BY <1>5 DEF FlushDisconnected
  <2>2. old \in SUBSET OldAges /\ old \in SUBSET Ages
    BY AgesFinite DEF OldAges
  <2>3. SumAges(commands', u, c, Ages) + SumAges(cmds, u, c, old) = SumAges(cmds, u, c, Ages)
    BY <2>1, <2>2, SumAfterErasure
  <2>4. discarded'[u][c] = discarded[u][c] + SumAges(cmds, u, c, old)
    BY <2>1 DEF Plus, OfAges
  <2>5. SumAges(cmds, u, c, old) \in Nat
    BY <2>2, SumAgesNat
  <2>6. SumAges(cmds, u, c, old) <= SumAges(cmds, u, c, OldAges)
    BY <1>2, <2>2, SumAgesSplit
  <2>7. UNCHANGED <<redisAmount, pipeline>>
    BY <1>5 DEF FlushDisconnected
  <2>8. SumAges(commands', u, c, Ages) = SumAges(cmds, u, c, Ages) - SumAges(cmds, u, c, old)
    <3>1. commands' \in [CmdKey -> Nat]
      BY <2>1
    <3>2. SumAges(commands', u, c, Ages) \in Nat
      BY <1>2, <3>1, SumAgesNat
    <3>3. QED
      BY <1>3, <2>3, <2>5, <3>2
  <2>9. QED
    BY <1>1, <1>3, <2>4, <2>5, <2>6, <2>7, <2>8
<1>6. QED
  BY <1>4, <1>5

\* An iteration of the consumer moves the amount of a datagram from the queue to the table,
\* and may flush it.
LEMMA ConsumerSettles ==
  ASSUME TypeOK, messageConsumerThread, NEW u \in Users, NEW c \in Categories
  PROVE  Settles(u, c)
<1> DEFINE m == Head(queue)
           cmds == AfterProcessing(m)
           areqs == Reported(m, active_reqs)
           unsent == not_send_count + IF WellFormed(m) THEN 1 ELSE 0
<1>1. m \in Message /\ queue \in Seq(Message) /\ queue # <<>> /\ queue' = Tail(queue)
      /\ accepted' = accepted
  BY DEF messageConsumerThread, TypeOK
<1>2. sendToRedisQos(cmds, areqs, unsent)
  BY DEF messageConsumerThread
<1> HIDE DEF m, areqs, unsent
<1>3. QueuedAmount(u, c) = Amount(m, u, c) + SumQueue(queue', u, c)
  BY <1>1, SumQueueTail DEF QueuedAmount, SumQueue, m
<1>4. QueuedAmount(u, c)' = SumQueue(queue', u, c)
  BY DEF QueuedAmount, SumQueue
<1>5. /\ SumAges(cmds, u, c, Ages) = SumAges(commands, u, c, Ages) + Amount(m, u, c)
      /\ SumAges(cmds, u, c, OldAges) = SumAges(commands, u, c, OldAges)
  BY <1>1, SumAfterProcessing DEF OldAges
<1>6. Amount(m, u, c) \in Nat /\ SumQueue(queue', u, c) \in Nat
  <2>1. queue' \in Seq(Message)
    BY <1>1
  <2>2. QED
    BY <1>1, <2>1, AmountNat, SumQueueNat
<1>7. /\ SumAges(commands, u, c, Ages) \in Nat /\ SumAges(commands, u, c, OldAges) \in Nat
      /\ pipeline[u][c] \in Nat /\ redisAmount[u][c] \in Nat /\ discarded[u][c] \in Nat
  BY AmountTypes
<1>8. cmds \in [CmdKey -> Nat]
  BY <1>1, ProcessingTypes
<1> HIDE DEF cmds
<1>9. /\ redisAmount'[u][c] = redisAmount[u][c]
      /\ discarded'[u][c] >= discarded[u][c]
      /\ discarded'[u][c] - discarded[u][c] <= SumAges(cmds, u, c, OldAges)
      /\ SumAges(commands', u, c, Ages) + pipeline'[u][c] + discarded'[u][c]
           = SumAges(cmds, u, c, Ages) + pipeline[u][c] + discarded[u][c]
  <2>1. CASE FlushConnected(cmds, areqs) \/ FlushDisconnected(cmds, areqs)
    BY <1>8, <2>1, FlushSettles
  <2>2. CASE commands' = cmds /\ UNCHANGED <<pipeline, redisAmount, redisActive, discarded>>
    BY <1>5, <1>7, <2>2
  <2>3. QED
    BY <1>2, <2>1, <2>2 DEF sendToRedisQos
<1>10. /\ SumAges(commands', u, c, Ages) \in Nat /\ pipeline'[u][c] \in Nat
       /\ discarded'[u][c] \in Nat
  <2>1. TypeOK'
    BY TypeStep DEF Next
  <2>2. commands' \in [CmdKey -> Nat] /\ pipeline' \in Amounts /\ discarded' \in Amounts
    BY <2>1 DEF TypeOK
  <2>3. QED
    BY <2>2, SumAgesNat DEF Amounts
<1>11. Owed(u, c)' = SumQueue(queue', u, c) + SumAges(commands', u, c, Ages) + pipeline'[u][c]
  BY <1>4 DEF Owed, SumAges
<1>12. Owed(u, c) = Amount(m, u, c) + SumQueue(queue', u, c)
                     + SumAges(commands, u, c, Ages) + pipeline[u][c]
  BY <1>3 DEF Owed
<1>13. Owed(u, c)' + redisAmount'[u][c] + discarded'[u][c]
         = Owed(u, c) + redisAmount[u][c] + discarded[u][c]
  <2> DEFINE q == SumQueue(queue', u, c)
             s == SumAges(commands, u, c, Ages) + Amount(m, u, c)
  <2>1. q \in Nat /\ s \in Nat /\ SumAges(cmds, u, c, Ages) = s
    BY <1>5, <1>6, <1>7
  <2>2. Owed(u, c) = q + s + pipeline[u][c]
    BY <1>6, <1>7, <1>12
  <2>3. Owed(u, c)' = q + SumAges(commands', u, c, Ages) + pipeline'[u][c]
    BY <1>11
  <2> HIDE DEF q, s
  <2>4. SumAges(commands', u, c, Ages) + pipeline'[u][c] + discarded'[u][c]
          = s + pipeline[u][c] + discarded[u][c]
    BY <1>9, <2>1
  <2>5. (q + SumAges(commands', u, c, Ages) + pipeline'[u][c]) + redisAmount[u][c]
             + discarded'[u][c]
          = (q + s + pipeline[u][c]) + redisAmount[u][c] + discarded[u][c]
    <3> DEFINE r == redisAmount[u][c]
               p == pipeline[u][c]
               d == discarded[u][c]
               s1 == SumAges(commands', u, c, Ages)
               p1 == pipeline'[u][c]
               d1 == discarded'[u][c]
    <3>1. /\ r \in Nat /\ p \in Nat /\ d \in Nat /\ s1 \in Nat /\ p1 \in Nat /\ d1 \in Nat
          /\ s1 + p1 + d1 = s + p + d
      BY <1>7, <1>10, <2>4
    <3> HIDE DEF r, p, d, s1, p1, d1
    <3>2. (q + s1 + p1) + r + d1 = (q + s + p) + r + d
      BY <2>1, <3>1
    <3>3. QED
      BY <3>2 DEF r, p, d, s1, p1, d1
  <2>6. QED
    BY <1>9, <2>2, <2>3, <2>5
<1>14. discarded'[u][c] - discarded[u][c] <= AtRisk(u, c)
  BY <1>5, <1>7, <1>9, <1>10 DEF AtRisk
<1>15. QED
  BY <1>1, <1>7, <1>9, <1>13, <1>14 DEF Settles

\* Every step takes in usage, or moves it on, or leaves it where it is.
LEMMA AccountStep ==
  ASSUME TypeOK, [Next]_vars
  PROVE  \/ \A u \in Users, c \in Categories : Accepts(u, c)
         \/ \A u \in Users, c \in Categories : Settles(u, c)
<1>1. ASSUME UNCHANGED <<queue, commands, pipeline, redisAmount, discarded, accepted>>,
             NEW u \in Users, NEW c \in Categories
      PROVE  Settles(u, c)
  <2>1. Owed(u, c)' = Owed(u, c)
    BY <1>1 DEF Owed, QueuedAmount, SumAges, Amount
  <2>2. AtRisk(u, c) >= 0
    BY AmountTypes
  <2>3. redisAmount[u][c] \in Nat /\ discarded[u][c] \in Nat
    BY AmountTypes
  <2>4. QED
    BY <1>1, <2>1, <2>2, <2>3 DEF Settles
<1>2. ASSUME msgProducerThread, NEW u \in Users, NEW c \in Categories
      PROVE  Accepts(u, c)
  <2>1. PICK m \in Message : try_enqueue(m)
    BY <1>2 DEF msgProducerThread
  <2>2. UNCHANGED <<commands, pipeline, redisAmount, discarded>>
    BY <1>2 DEF msgProducerThread
  <2>3. /\ SumAges(commands, u, c, Ages) \in Nat /\ pipeline[u][c] \in Nat
        /\ accepted[u][c] \in Nat /\ SumQueue(queue, u, c) \in Nat
    BY AmountTypes DEF QueuedAmount, SumQueue
  <2>4. /\ Owed(u, c) = SumQueue(queue, u, c) + SumAges(commands, u, c, Ages) + pipeline[u][c]
        /\ Owed(u, c)' = SumQueue(queue', u, c) + SumAges(commands, u, c, Ages) + pipeline[u][c]
    BY <2>2 DEF Owed, QueuedAmount, SumQueue, SumAges
  <2>5. CASE queue' = Append(queue, m)
             /\ accepted' = [v \in Users |-> [d \in Categories |->
                              accepted[v][d] + Amount(m, v, d)]]
    <3>1. SumQueue(queue', u, c) = SumQueue(queue, u, c) + Amount(m, u, c)
      BY <2>5, SumQueueAppend DEF TypeOK
    <3>2. accepted'[u][c] = accepted[u][c] + Amount(m, u, c) /\ Amount(m, u, c) \in Nat
      BY <2>5, AmountNat
    <3>3. QED
      BY <2>2, <2>3, <2>4, <3>1, <3>2 DEF Accepts
  <2>6. CASE UNCHANGED <<queue, accepted>>
    BY <2>2, <2>3, <2>4, <2>6 DEF Accepts
  <2>7. QED
    BY <2>1, <2>5, <2>6 DEF try_enqueue
<1>3. ASSUME ConsumerTimeout, NEW u \in Users, NEW c \in Categories
      PROVE  Settles(u, c)
  <2>1. FlushConnected(commands, active_reqs) \/ FlushDisconnected(commands, active_reqs)
    BY <1>3 DEF ConsumerTimeout
  <2>2. commands \in [CmdKey -> Nat]
    BY DEF TypeOK
  <2>3. /\ redisAmount'[u][c] = redisAmount[u][c]
        /\ discarded'[u][c] >= discarded[u][c]
        /\ discarded'[u][c] - discarded[u][c] <= SumAges(commands, u, c, OldAges)
        /\ SumAges(commands', u, c, Ages) + pipeline'[u][c] + discarded'[u][c]
             = SumAges(commands, u, c, Ages) + pipeline[u][c] + discarded[u][c]
    BY <2>1, <2>2, FlushSettles
  <2>4. /\ SumAges(commands', u, c, Ages) \in Nat /\ pipeline'[u][c] \in Nat
        /\ discarded'[u][c] \in Nat
    <3>1. TypeOK'
      BY <1>3, TypeStep DEF Next
    <3>2. commands' \in [CmdKey -> Nat] /\ pipeline' \in Amounts /\ discarded' \in Amounts
      BY <3>1 DEF TypeOK
    <3>3. QED
      BY <3>2, SumAgesNat DEF Amounts
  <2>5. queue' = queue /\ accepted' = accepted
    BY <1>3 DEF ConsumerTimeout
  <2>6. Owed(u, c)' = QueuedAmount(u, c) + SumAges(commands', u, c, Ages) + pipeline'[u][c]
    BY <2>5 DEF Owed, QueuedAmount, SumAges, Amount
  <2>7. /\ SumAges(commands, u, c, Ages) \in Nat /\ SumAges(commands, u, c, OldAges) \in Nat
        /\ pipeline[u][c] \in Nat /\ redisAmount[u][c] \in Nat /\ discarded[u][c] \in Nat
        /\ QueuedAmount(u, c) \in Nat
    BY AmountTypes
  <2>8. Owed(u, c)' + redisAmount'[u][c] + discarded'[u][c]
          = Owed(u, c) + redisAmount[u][c] + discarded[u][c]
    <3>1. (QueuedAmount(u, c) + SumAges(commands', u, c, Ages) + pipeline'[u][c])
               + redisAmount[u][c] + discarded'[u][c]
            = (QueuedAmount(u, c) + SumAges(commands, u, c, Ages) + pipeline[u][c])
                + redisAmount[u][c] + discarded[u][c]
      <4> DEFINE q == QueuedAmount(u, c)
                 r == redisAmount[u][c]
                 s == SumAges(commands, u, c, Ages)
                 p == pipeline[u][c]
                 d == discarded[u][c]
                 s1 == SumAges(commands', u, c, Ages)
                 p1 == pipeline'[u][c]
                 d1 == discarded'[u][c]
      <4>1. /\ q \in Nat /\ r \in Nat /\ s \in Nat /\ p \in Nat /\ d \in Nat
            /\ s1 \in Nat /\ p1 \in Nat /\ d1 \in Nat /\ s1 + p1 + d1 = s + p + d
        BY <2>3, <2>4, <2>7
      <4> HIDE DEF q, r, s, p, d, s1, p1, d1
      <4>2. (q + s1 + p1) + r + d1 = (q + s + p) + r + d
        BY <4>1
      <4>3. QED
        BY <4>2 DEF q, r, s, p, d, s1, p1, d1
    <3>2. Owed(u, c) = QueuedAmount(u, c) + SumAges(commands, u, c, Ages) + pipeline[u][c]
      BY DEF Owed
    <3>3. QED
      BY <2>3, <2>6, <3>1, <3>2
  <2>9. discarded'[u][c] - discarded[u][c] <= AtRisk(u, c)
    BY <2>3, <2>4, <2>7 DEF AtRisk
  <2>10. QED
    BY <2>3, <2>5, <2>7, <2>8, <2>9 DEF Settles
<1>4. ASSUME NextSecond, NEW u \in Users, NEW c \in Categories
      PROVE  Settles(u, c)
  <2>1. SumAges(commands', u, c, Ages) = SumAges(commands, u, c, Ages)
    BY <1>4, SumAfterSecond
  <2>2. UNCHANGED <<queue, pipeline, redisAmount, discarded, accepted>>
    BY <1>4 DEF NextSecond
  <2>3. Owed(u, c)' = QueuedAmount(u, c) + SumAges(commands', u, c, Ages) + pipeline[u][c]
    BY <2>2 DEF Owed, QueuedAmount, SumAges, Amount
  <2>4. AtRisk(u, c) >= 0 /\ redisAmount[u][c] \in Nat /\ discarded[u][c] \in Nat
    BY AmountTypes
  <2>5. Owed(u, c)' = Owed(u, c)
    BY <2>1, <2>3 DEF Owed
  <2>6. QED
    BY <2>2, <2>4, <2>5 DEF Settles
<1>5. ASSUME LinkAnswers \/ LinkFails, NEW u \in Users, NEW c \in Categories
      PROVE  Settles(u, c)
  <2>1. UNCHANGED <<queue, commands, accepted>> /\ pipeline' = NoAmounts
    BY <1>5 DEF LinkAnswers, LinkFails
  <2>2. pipeline'[u][c] = 0
    BY <2>1 DEF NoAmounts
  <2>3. Owed(u, c)' = QueuedAmount(u, c) + SumAges(commands, u, c, Ages) + pipeline'[u][c]
    BY <2>1 DEF Owed, QueuedAmount, SumAges, Amount
  <2>4. /\ SumAges(commands, u, c, Ages) \in Nat /\ SumAges(commands, u, c, OldAges) \in Nat
        /\ pipeline[u][c] \in Nat /\ redisAmount[u][c] \in Nat /\ discarded[u][c] \in Nat
        /\ QueuedAmount(u, c) \in Nat
    BY AmountTypes
  <2>5. PICK n \in 0 .. pipeline[u][c] :
          /\ redisAmount'[u][c] = redisAmount[u][c] + n
          /\ discarded'[u][c] = discarded[u][c] + pipeline[u][c] - n
    <3>1. CASE LinkAnswers
      <4>1. PICK refused \in [Users -> [Categories -> 0 .. MaxRefused]] :
              /\ \A v \in Users, d \in Categories : refused[v][d] <= pipeline[v][d]
              /\ redisAmount' = [v \in Users |-> [d \in Categories |->
                                   redisAmount[v][d] + pipeline[v][d] - refused[v][d]]]
              /\ discarded' = Plus(discarded, refused)
        BY <3>1 DEF LinkAnswers
      <4>2. refused[u][c] \in 0 .. pipeline[u][c]
        BY <2>4, <4>1, ServerAssumption
      <4>3. /\ redisAmount'[u][c] = redisAmount[u][c] + pipeline[u][c] - refused[u][c]
            /\ discarded'[u][c] = discarded[u][c] + refused[u][c]
        BY <4>1 DEF Plus
      <4>4. PICK n \in 0 .. pipeline[u][c] : n = pipeline[u][c] - refused[u][c]
        BY <2>4, <4>2
      <4>5. QED
        BY <2>4, <4>2, <4>3, <4>4
    <3>2. CASE LinkFails
      <4>1. PICK executed \in [Users -> [Categories -> 0 .. MaxExecuted]] :
              /\ \A v \in Users, d \in Categories : executed[v][d] <= pipeline[v][d]
              /\ redisAmount' = Plus(redisAmount, executed)
              /\ discarded' = [v \in Users |-> [d \in Categories |->
                                 discarded[v][d] + pipeline[v][d] - executed[v][d]]]
        BY <3>2 DEF LinkFails
      <4>2. executed[u][c] \in 0 .. pipeline[u][c]
        BY <2>4, <4>1, ServerAssumption
      <4>3. QED
        BY <4>1, <4>2 DEF Plus
    <3>3. QED
      BY <1>5, <3>1, <3>2
  <2>6. QED
    BY <2>1, <2>2, <2>3, <2>4, <2>5 DEF Settles, Owed, AtRisk
<1>6. QED
  BY <1>1, <1>2, <1>3, <1>4, <1>5, ConsumerSettles
     DEF Next, vars, LinkChanges, RedisExpires

-----------------------------------------------------------------------------
(* The invariants. *)

\* A count that waits for the flush is the newest one of its user.
PendingIsNewest == \A u \in Users : active_reqs[u] # Null => active_reqs[u] = lastReported[u]

\* The inductive invariant.
IndInv == TypeOK /\ UsageConserved /\ PendingIsNewest

\* Initially all tables and amounts are empty.
LEMMA InitInv == Init => IndInv
<1> SUFFICES ASSUME Init PROVE IndInv
  OBVIOUS
<1>1. queue \in Seq(Message) /\ commands \in [CmdKey -> Nat] /\ NoAmounts \in Amounts
  BY PlusType DEF Init
<1>2. TypeOK
  BY <1>1, ServerAssumption DEF Init, TypeOK, Link!Init, Link!LinkTypeOK
<1>3. UsageConserved
  <2> SUFFICES ASSUME NEW u \in Users, NEW c \in Categories
               PROVE  accepted[u][c] = QueuedAmount(u, c) + SumAges(commands, u, c, Ages)
                        + pipeline[u][c] + redisAmount[u][c] + discarded[u][c]
    BY DEF UsageConserved
  <2>1. QueuedAmount(u, c) = 0
    BY <1>1, SumQueueNat DEF Init, QueuedAmount, SumQueue
  <2>2. \A a \in Ages : commands[<<u, c, a>>] = 0
    BY DEF Init, CmdKey
  <2>3. SumAges(commands, u, c, Ages) = 0
    BY <2>2, SumAgesZero
  <2>4. /\ accepted[u][c] = 0 /\ pipeline[u][c] = 0
        /\ redisAmount[u][c] = 0 /\ discarded[u][c] = 0
    BY DEF Init, NoAmounts
  <2>5. QED
    BY <2>1, <2>3, <2>4
<1>4. PendingIsNewest
  BY DEF Init, PendingIsNewest
<1>5. QED
  BY <1>2, <1>3, <1>4 DEF IndInv

\* What a step adds to or takes from one place it takes from or adds to another.
LEMMA ConservedStep == TypeOK /\ UsageConserved /\ [Next]_vars => UsageConserved'
<1> SUFFICES ASSUME TypeOK, UsageConserved, [Next]_vars,
                    NEW u \in Users, NEW c \in Categories
             PROVE  (accepted[u][c] = Owed(u, c) + redisAmount[u][c] + discarded[u][c])'
  BY DEF UsageConserved, Owed
<1> DEFINE o == Owed(u, c)
           r == redisAmount[u][c]
           d == discarded[u][c]
           a == accepted[u][c]
           o1 == Owed(u, c)'
           r1 == redisAmount'[u][c]
           d1 == discarded'[u][c]
           a1 == accepted'[u][c]
<1>1. o \in Nat /\ r \in Nat /\ d \in Nat /\ a \in Nat
  BY AmountTypes
<1>2. o1 \in Nat /\ r1 \in Nat /\ d1 \in Nat /\ a1 \in Nat
  <2>1. TypeOK'
    BY TypeStep
  <2>2. QED
    BY <2>1, NaturalAfter DEF Natural
<1>3. a = o + r + d
  BY <1>1 DEF UsageConserved, Owed
<1>4. \/ r1 = r /\ d1 = d /\ a1 >= a /\ o1 = o + (a1 - a)
      \/ a1 = a /\ o1 + r1 + d1 = o + r + d
  BY AccountStep DEF Accepts, Settles
<1>5. a1 = o1 + r1 + d1
  <2> HIDE DEF o, r, d, a, o1, r1, d1, a1
  <2>1. QED
    BY <1>1, <1>2, <1>3, <1>4
<1>6. QED
  BY <1>5

\* Only the consumer touches the counts, and it replaces them in order.
LEMMA PendingStep == TypeOK /\ PendingIsNewest /\ [Next]_vars => PendingIsNewest'
<1> SUFFICES ASSUME TypeOK, PendingIsNewest, [Next]_vars, NEW u \in Users,
                    active_reqs'[u] # Null
             PROVE  active_reqs'[u] = lastReported'[u]
  BY DEF PendingIsNewest
<1>1. CASE messageConsumerThread
  <2> DEFINE m == Head(queue)
  <2>1. m \in Message
    BY <1>1 DEF messageConsumerThread, TypeOK
  <2>2. active_reqs' = Reported(m, active_reqs)
    <3>1. active_reqs' = [v \in Users |-> Null] \/ active_reqs' = Reported(m, active_reqs)
      BY <1>1 DEF messageConsumerThread, sendToRedisQos, FlushConnected, FlushDisconnected
    <3>2. QED
      BY <3>1
  <2>3. lastReported'[u] = IF WellFormed(m) /\ m.type \in {"req", "report"} /\ m.user = u
                           THEN m.n ELSE lastReported[u]
    BY <1>1 DEF messageConsumerThread
  <2> HIDE DEF m
  <2>4. QED
    BY <2>1, <2>2, <2>3, MessageFields DEF Reported, PendingIsNewest, TypeOK
<1>2. CASE ConsumerTimeout
  BY <1>2 DEF ConsumerTimeout, FlushConnected, FlushDisconnected
<1>3. CASE UNCHANGED <<active_reqs, lastReported>>
  BY <1>3 DEF PendingIsNewest
<1>4. QED
  BY <1>1, <1>2, <1>3 DEF Next, vars, msgProducerThread, NextSecond, LinkChanges, LinkAnswers,
     LinkFails, RedisExpires

\* The invariant holds throughout.
LEMMA Invariance == Spec => []IndInv
<1>1. IndInv /\ [Next]_vars => IndInv'
  BY TypeStep, ConservedStep, PendingStep DEF IndInv
<1>2. QED
  BY InitInv, <1>1, PTL DEF Spec

\* The queue never holds more datagrams than its capacity, and all tables keep their types, in
\* every behaviour of the producer, the consumer and the connection.
THEOREM TypeCorrect == Spec => []TypeOK
<1>1. IndInv => TypeOK
  BY DEF IndInv
<1>2. QED
  BY <1>1, Invariance, PTL

\* For any number of users, datagrams, flushes, reconnections and failures: what was enqueued
\* is queued, aggregated, in flight, in Redis or given up, and nothing is counted twice.
THEOREM UsageIsConserved == Spec => []UsageConserved
<1>1. IndInv => UsageConserved
  BY DEF IndInv
<1>2. QED
  BY <1>1, Invariance, PTL

\* A flush never writes a count that a later datagram of the user has replaced.
THEOREM NewestReportWritten == Spec => FlushWritesNewestReport
<1> DEFINE Newest == \A u \in Users :
             redisActive'[u] # redisActive[u] /\ redisActive'[u] # Null
                => redisActive'[u] = lastReported'[u]
<1>1. ASSUME TypeOK, PendingIsNewest, [Next]_vars PROVE [Newest]_vars
  <2> SUFFICES ASSUME NEW u \in Users, redisActive'[u] # redisActive[u], redisActive'[u] # Null
               PROVE  redisActive'[u] = lastReported'[u]
    OBVIOUS
  <2>1. CASE messageConsumerThread
    <3> DEFINE m == Head(queue)
    <3>1. m \in Message
      BY <1>1, <2>1 DEF messageConsumerThread, TypeOK
    <3>2. redisActive'[u] = Reported(m, active_reqs)[u] /\ Reported(m, active_reqs)[u] # Null
      BY <2>1 DEF messageConsumerThread, sendToRedisQos, FlushConnected, FlushDisconnected
    <3>3. lastReported'[u] = IF WellFormed(m) /\ m.type \in {"req", "report"} /\ m.user = u
                             THEN m.n ELSE lastReported[u]
      BY <2>1 DEF messageConsumerThread
    <3> HIDE DEF m
    <3>4. QED
      BY <1>1, <3>1, <3>2, <3>3, MessageFields DEF Reported, PendingIsNewest, TypeOK
  <2>2. CASE ConsumerTimeout
    BY <1>1, <2>2 DEF ConsumerTimeout, FlushConnected, FlushDisconnected, PendingIsNewest
  <2>3. CASE RedisExpires
    BY <1>1, <2>3 DEF RedisExpires, TypeOK
  <2>4. QED
    BY <1>1, <2>1, <2>2, <2>3 DEF Next, vars, msgProducerThread, NextSecond, LinkChanges,
       LinkAnswers, LinkFails
<1>2. IndInv /\ [Next]_vars => [Newest]_vars
  BY <1>1 DEF IndInv
<1>3. QED
  BY <1>2, Invariance, PTL DEF Spec, FlushWritesNewestReport

-----------------------------------------------------------------------------
(* The ledger. *)

\* What is owed and at risk, as the ledger has it.
owedAmounts == [u \in Users |-> [c \in Categories |-> Owed(u, c)]]
atRiskAmounts == [u \in Users |-> [c \in Categories |-> AtRisk(u, c)]]

\* They are what the ledger's variables are replaced with.
LEMMA LedgerMapping ==
  /\ Ledger!Init <=>
       /\ owedAmounts = NoAmounts /\ atRiskAmounts = owedAmounts
       /\ redisAmount = owedAmounts /\ discarded = owedAmounts
  /\ Ledger!Accept <=>
       /\ \A u \in Users, c \in Categories : owedAmounts'[u][c] >= owedAmounts[u][c]
       /\ redisAmount' = redisAmount /\ discarded' = discarded
  /\ Ledger!Settle <=>
       \A u \in Users, c \in Categories :
         /\ redisAmount'[u][c] >= redisAmount[u][c]
         /\ discarded'[u][c] >= discarded[u][c]
         /\ discarded'[u][c] - discarded[u][c] <= atRiskAmounts[u][c]
         /\ owedAmounts'[u][c] + redisAmount'[u][c] + discarded'[u][c]
              = owedAmounts[u][c] + redisAmount[u][c] + discarded[u][c]
  /\ Ledger!Next <=>
       /\ Ledger!Accept \/ Ledger!Settle
       /\ \A u \in Users, c \in Categories : atRiskAmounts'[u][c] \in 0 .. owedAmounts'[u][c]
<1>1. owedAmounts = [u \in Users |-> [c \in Categories |->
            QueuedAmount(u, c) + SumAges(commands, u, c, Ages) + pipeline[u][c]]]
  BY DEF owedAmounts, Owed
<1>2. atRiskAmounts = Plus(pipeline, OfAges(commands, {a \in Ages : a >= RedisQosTtl}))
  BY DEF atRiskAmounts, AtRisk, OldAges, Plus, OfAges
<1>3. /\ owedAmounts' = [u \in Users |-> [c \in Categories |->
            QueuedAmount(u, c) + SumAges(commands, u, c, Ages) + pipeline[u][c]]]'
      /\ atRiskAmounts' = Plus(pipeline, OfAges(commands, {a \in Ages : a >= RedisQosTtl}))'
  BY DEF owedAmounts, Owed, atRiskAmounts, AtRisk, OldAges, Plus, OfAges
<1>4. QED
  BY <1>1, <1>2, <1>3 DEF Ledger!Init, Ledger!Accept, Ledger!Settle, Ledger!Next, NoAmounts

\* A step of the server is a step of the ledger.
LEMMA LedgerStep == TypeOK /\ [Next]_vars => Ledger!Next
<1> SUFFICES ASSUME TypeOK, [Next]_vars PROVE Ledger!Next
  OBVIOUS
<1>1. TypeOK' /\ Natural'
  BY TypeStep, NaturalAfter
<1>2. ASSUME NEW u \in Users, NEW c \in Categories
      PROVE  /\ owedAmounts[u][c] = Owed(u, c) /\ owedAmounts'[u][c] = Owed(u, c)'
             /\ atRiskAmounts[u][c] = AtRisk(u, c) /\ atRiskAmounts'[u][c] = AtRisk(u, c)'
             /\ Owed(u, c) \in Nat /\ Owed(u, c)' \in Nat
             /\ AtRisk(u, c)' \in 0 .. Owed(u, c)'
             /\ accepted[u][c] \in Nat /\ accepted'[u][c] \in Nat
  BY <1>1, AmountTypes DEF owedAmounts, atRiskAmounts, Natural
<1>3. \A u \in Users, c \in Categories : atRiskAmounts'[u][c] \in 0 .. owedAmounts'[u][c]
  BY <1>2
<1>4. CASE Users = {} \/ Categories = {}
  BY <1>3, <1>4, LedgerMapping
<1>5. ASSUME NEW v \in Users, NEW e \in Categories,
             \A u \in Users, c \in Categories : Accepts(u, c)
      PROVE  Ledger!Accept
  <2>1. redisAmount' = redisAmount /\ discarded' = discarded
    BY <1>5 DEF Accepts
  <2>2. ASSUME NEW u \in Users, NEW c \in Categories
        PROVE  owedAmounts'[u][c] >= owedAmounts[u][c]
    <3>1. accepted'[u][c] >= accepted[u][c]
          /\ Owed(u, c)' = Owed(u, c) + (accepted'[u][c] - accepted[u][c])
      BY <1>5 DEF Accepts
    <3>2. QED
      BY <1>2, <3>1
  <2>3. QED
    BY <2>1, <2>2, LedgerMapping
<1>6. ASSUME \A u \in Users, c \in Categories : Settles(u, c)
      PROVE  Ledger!Settle
  BY <1>2, <1>6, LedgerMapping DEF Settles
<1>7. QED
  BY <1>3, <1>4, <1>5, <1>6, AccountStep, LedgerMapping

\* The server implements the ledger: nothing is stored twice or taken back, and only what is in
\* flight or past its time to live is ever given up.
THEOREM LedgerImplemented == Spec => ImplementsLedger
<1>1. Init => Ledger!Init
  <2> SUFFICES ASSUME Init PROVE Ledger!Init
    OBVIOUS
  <2>1. TypeOK /\ UsageConserved
    BY InitInv DEF IndInv
  <2>2. ASSUME NEW u \in Users, NEW c \in Categories PROVE Owed(u, c) = 0 /\ AtRisk(u, c) = 0
    <3>1. accepted[u][c] = 0 /\ redisAmount[u][c] = 0 /\ discarded[u][c] = 0
      BY DEF Init, NoAmounts
    <3>2. accepted[u][c] = Owed(u, c) + redisAmount[u][c] + discarded[u][c]
      BY <2>1 DEF UsageConserved, Owed
    <3>3. Owed(u, c) \in Nat /\ AtRisk(u, c) \in 0 .. Owed(u, c)
      BY <2>1, AmountTypes
    <3>4. QED
      BY <3>1, <3>2, <3>3
  <2>3. owedAmounts = NoAmounts /\ atRiskAmounts = NoAmounts
    BY <2>2 DEF owedAmounts, atRiskAmounts, NoAmounts
  <2>4. QED
    BY <2>3, LedgerMapping DEF Init
<1>2. IndInv /\ [Next]_vars => [Ledger!Next]_Ledger!ledgerVars
  BY LedgerStep DEF IndInv
<1>3. QED
  BY <1>1, <1>2, Invariance, PTL DEF Spec, ImplementsLedger, Ledger!Spec
=============================================================================
