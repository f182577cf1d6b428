-------------------------- MODULE LimitShareProofs --------------------------
(***************************************************************************)
(* Proofs about LimitShare for any instances, users, limits and counts: its  *)
(* types, and that the shares of a round that are in force anywhere add up   *)
(* to no more than the limit. The shares of a round spread over messages,    *)
(* inboxes and tables, and are in no single variable once they are sent: the  *)
(* invariant says that for each age there are shares that bound them all.    *)
(***************************************************************************)
EXTENDS LimitShare, FunctionSums

\* Shares that add up to no more than the limits.
Bounding(M) ==
  /\ M \in [DemandKeys -> [Instances -> Nat]]
  /\ \A k \in DemandKeys : SumFunctionOnSet(M[k], Instances) <= Limit[k]

\* M bounds whatever is left of the round that is age rounds ago.
RoundOf(age, M) ==
  /\ \A i \in Instances : \A m \in inbox[i] :
       m.age = age => \A k \in DemandKeys : m.shares[k] <= M[k][i]
  /\ \A i \in Instances, k \in DemandKeys :
       held[i][k] # Null /\ held[i][k].age = age => held[i][k].share <= M[k][i]
  /\ age = 0 /\ loop.at = "send"
       => \A k \in DemandKeys, i \in Instances : loop.message.shares[k][i] <= M[k][i]

RoundsAddUp == \A age \in 0 .. MaxAge - 1 : \E M : Bounding(M) /\ RoundOf(age, M)

\* No share on its way is larger than the limit.
SharesBounded ==
  /\ loop.at = "send" =>
       /\ loop.message \in Message
       /\ \A k \in DemandKeys, i \in Instances : loop.message.shares[k][i] <= Limit[k]
  /\ \A i \in Instances : \A m \in inbox[i] : \A k \in DemandKeys : m.shares[k] <= Limit[k]

\* The inductive invariant.
IndInv == TypeOK /\ SharesBounded /\ RoundsAddUp

-----------------------------------------------------------------------------
(* Arithmetic of the division. *)

\* A quotient, rounded down.
LEMMA Quotient ==
  ASSUME NEW a \in Nat, NEW t \in Nat, t > 0
  PROVE  a \div t \in Nat /\ t * (a \div t) <= a
OBVIOUS

\* A positive factor on both sides.
LEMMA Cancel ==
  ASSUME NEW x \in Nat, NEW y \in Nat, NEW t \in Nat, t > 0, t * x <= y * t
  PROVE  x <= y
<1>1. SUFFICES ASSUME x >= y + 1 PROVE FALSE
  OBVIOUS
<1>2. t * x >= t * (y + 1)
  BY <1>1
<1>3. t * (y + 1) = y * t + t
  OBVIOUS
<1>4. QED
  BY <1>2, <1>3

\* The shares computed for a key add up to no more than its limit.
LEMMA ComputedShares ==
  ASSUME NEW demand \in [DemandKeys -> [Instances -> Nat]], NEW k \in DemandKeys
  PROVE  /\ Total(demand, k) \in Nat
         /\ SharesOf(demand)[k] \in [Instances -> Nat]
         /\ SumFunctionOnSet(SharesOf(demand)[k], Instances) <= Limit[k]
<1> DEFINE t == Total(demand, k)
           L == Limit[k]
           d == demand[k]
           s == SharesOf(demand)[k]
<1>1. IsFiniteSet(Instances) /\ L \in Nat /\ d \in [Instances -> Nat]
  BY ShareAssumption
<1>2. t \in Nat
  <2> HIDE DEF d
  <2>1. SumFunctionOnSet(d, Instances) \in Nat
    BY <1>1, SumNat
  <2>2. QED
    BY <2>1 DEF Total, d
<1>3. CASE t = 0
  <2>1. s = NoShares
    BY <1>3 DEF SharesOf
  <2>2. s \in [Instances -> Nat] /\ \A i \in Instances : s[i] \in Int /\ s[i] = 0 * s[i]
    BY <2>1 DEF NoShares
  <2> HIDE DEF s
  <2>3. SumFunctionOnSet(s, Instances) \in Int
    BY <1>1, <2>2, SumStep
  <2>4. SumFunctionOnSet(s, Instances) = 0 * SumFunctionOnSet(s, Instances)
    <3>1. 0 \in Int
      OBVIOUS
    <3>2. QED
      BY <1>1, <2>2, <3>1, SumScale
  <2>5. SumFunctionOnSet(s, Instances) = 0
    BY <2>3, <2>4
  <2>6. QED
    BY <1>1, <1>2, <2>2, <2>5 DEF s
<1>4. CASE t > 0
  <2>1. s = [i \in Instances |-> (L * d[i]) \div t]
    BY <1>2, <1>4 DEF SharesOf, compute_bandwidth_limit_share
  <2> DEFINE weighted == [i \in Instances |-> L * d[i]]
             scaled == [i \in Instances |-> t * s[i]]
  <2> HIDE DEF t, L, d, s
  <2>2. ASSUME NEW i \in Instances
        PROVE  L * d[i] \in Nat /\ d[i] \in Int
    BY <1>1
  <2>3. ASSUME NEW i \in Instances
        PROVE  s[i] \in Nat /\ t * s[i] <= L * d[i]
    BY <1>2, <1>4, <2>1, <2>2, Quotient
  <2>4. \A i \in Instances : scaled[i] = t * s[i] /\ weighted[i] = L * d[i]
    OBVIOUS
  <2>5. \A i \in Instances :
          scaled[i] \in Int /\ weighted[i] \in Int /\ scaled[i] <= weighted[i]
    BY <1>2, <2>2, <2>3
  <2> HIDE DEF scaled, weighted
  <2>6. SumFunctionOnSet(scaled, Instances) = t * SumFunctionOnSet(s, Instances)
    BY <1>1, <1>2, <2>3, <2>4, SumScale
  <2>7. SumFunctionOnSet(weighted, Instances) = L * t
    <3>1. SumFunctionOnSet(weighted, Instances) = L * SumFunctionOnSet(d, Instances)
      BY <1>1, <2>2, <2>4, SumScale
    <3>2. SumFunctionOnSet(d, Instances) = t
      BY DEF t, d, Total
    <3>3. QED
      BY <3>1, <3>2
  <2>8. SumFunctionOnSet(scaled, Instances) <= SumFunctionOnSet(weighted, Instances)
    BY <1>1, <2>5, SumMonotone
  <2>9. SumFunctionOnSet(s, Instances) \in Nat
    BY <1>1, <2>3, SumNat
  <2>10. t * SumFunctionOnSet(s, Instances) <= L * t
    BY <2>6, <2>7, <2>8
  <2>11. SumFunctionOnSet(s, Instances) <= L
    BY <1>1, <1>2, <1>4, <2>9, <2>10, Cancel
  <2>12. s \in [Instances -> Nat]
    BY <2>1, <2>3
  <2>13. QED
    BY <1>2, <2>11, <2>12 DEF s, L, t
<1>5. QED
  BY <1>2, <1>3, <1>4

\* The shares of a round bound each other: one is no larger than the limit.
LEMMA BoundingShare ==
  ASSUME NEW M, Bounding(M), NEW k \in DemandKeys, NEW i \in Instances
  PROVE  M[k][i] \in Nat /\ M[k][i] <= Limit[k]
<1>1. M[k] \in [Instances -> Nat] /\ IsFiniteSet(Instances) /\ Limit[k] \in Nat
  BY ShareAssumption DEF Bounding
<1>2. SumFunctionOnSet(M[k], Instances) \in Nat /\ M[k][i] <= SumFunctionOnSet(M[k], Instances)
  <2> DEFINE f == M[k]
  <2> HIDE DEF f
  <2>1. \A j \in Instances : f[j] \in Nat
    BY <1>1 DEF f
  <2>2. QED
    BY <1>1, <2>1, SumNat DEF f
<1>3. SumFunctionOnSet(M[k], Instances) <= Limit[k]
  BY DEF Bounding
<1>4. QED
  BY <1>1, <1>2, <1>3

\* The message of a round bounds itself.
LEMMA MessageBounding ==
  ASSUME TypeOK
  PROVE  Demand \in [DemandKeys -> [Instances -> Nat]] /\ Bounding(SharesOf(Demand))
<1>1. Demand \in [DemandKeys -> [Instances -> Nat]]
  BY DEF TypeOK, Demand
<1>2. \A k \in DemandKeys :
        /\ SharesOf(Demand)[k] \in [Instances -> Nat]
        /\ SumFunctionOnSet(SharesOf(Demand)[k], Instances) <= Limit[k]
  BY <1>1, ComputedShares
<1>3. SharesOf(Demand) \in [DemandKeys -> [Instances -> Nat]]
  <2>1. \E e : SharesOf(Demand) = [k \in DemandKeys |-> e[k]]
    <3>1. SharesOf(Demand) = [k \in DemandKeys |-> SharesOf(Demand)[k]]
      BY DEF SharesOf
    <3>2. QED
      BY <3>1
  <2>2. QED
    BY <1>2, <2>1
<1>4. QED
  BY <1>1, <1>2, <1>3 DEF Bounding

-----------------------------------------------------------------------------
\* Ages grow by one, and stay apart below the largest.
LEMMA OlderAge ==
  ASSUME NEW a \in 0 .. MaxAge
  PROVE  /\ Older(a) \in 1 .. MaxAge
         /\ Older(a) < MaxAge => Older(a) = a + 1
BY ShareAssumption DEF Older

\* Every step keeps the types and the bounds of single shares.
LEMMA TypeStep == TypeOK /\ SharesBounded /\ [Next]_vars => TypeOK' /\ SharesBounded'
<1> SUFFICES ASSUME TypeOK, SharesBounded, [Next]_vars PROVE TypeOK' /\ SharesBounded'
  OBVIOUS
<1> USE ShareAssumption
<1>1. Sleeping \in Loop /\ Sleeping.at = "sleep"
  BY DEF Sleeping, Loop
<1>2. CASE scan_iter
  <2>1. PICK found \in SUBSET (DemandKeys \X Instances) :
          loop' = [Sleeping EXCEPT !.at = "mget", !.keys = found]
    BY <1>2 DEF scan_iter
  <2>2. loop' \in Loop /\ loop'.at = "mget"
    BY <1>1, <2>1 DEF Loop
  <2>3. QED
    BY <1>2, <2>2 DEF scan_iter, TypeOK, SharesBounded
<1>3. CASE limit_share_check_loop
  <2>1. CASE UNCHANGED <<inbox, held>> /\ loop' = Sleeping
    BY <1>1, <1>3, <2>1 DEF limit_share_check_loop, TypeOK, SharesBounded
  <2>2. CASE /\ \E readable \in Readable(Demand) :
                  loop' = [at |-> "send", keys |-> {}, servers |-> Instances,
                           message |-> [shares |-> SharesOf(Demand), readable |-> readable]]
             /\ inbox' = [i \in Instances |-> {[m EXCEPT !.age = Older(@)] : m \in inbox[i]}]
             /\ held' = [i \in Instances |-> [k \in DemandKeys |->
                  IF held[i][k] = Null THEN Null ELSE [held[i][k] EXCEPT !.age = Older(@)]]]
    <3>1. PICK readable \in Readable(Demand) :
            loop' = [at |-> "send", keys |-> {}, servers |-> Instances,
                     message |-> [shares |-> SharesOf(Demand), readable |-> readable]]
      BY <2>2
    <3>2. readable \in SUBSET DemandKeys
      BY DEF Readable
    <3>3. Bounding(SharesOf(Demand)) /\ SharesOf(Demand) \in [DemandKeys -> [Instances -> Nat]]
      BY MessageBounding DEF Bounding
    <3>4. loop'.message \in Message /\ loop' \in Loop
      BY <3>1, <3>2, <3>3 DEF Message, Loop
    <3>5. \A k \in DemandKeys, i \in Instances : loop'.message.shares[k][i] <= Limit[k]
      BY <3>1, <3>3, BoundingShare
    <3>6. ASSUME NEW i \in Instances, NEW m \in inbox'[i]
          PROVE  m \in Part /\ \A k \in DemandKeys : m.shares[k] <= Limit[k]
      <4>1. PICK n \in inbox[i] : m = [n EXCEPT !.age = Older(@)]
        BY <2>2
      <4>2. n \in Part /\ \A k \in DemandKeys : n.shares[k] <= Limit[k]
        BY DEF TypeOK, SharesBounded
      <4>3. QED
        BY <4>1, <4>2, OlderAge DEF Part
    <3>7. inbox' \in [Instances -> SUBSET Part]
      BY <2>2, <3>6
    <3>8. ASSUME NEW i \in Instances, NEW k \in DemandKeys
          PROVE  /\ held'[i][k] \in [share : Nat \ {0}, age : 0 .. MaxAge] \cup {Null}
                 /\ held'[i][k] = Null \/ held'[i][k].share <= Limit[k]
      <4>1. held'[i][k] = IF held[i][k] = Null THEN Null ELSE [held[i][k] EXCEPT !.age = Older(@)]
        BY <2>2
      <4>2. CASE held[i][k] = Null
        BY <4>1, <4>2
      <4>3. CASE held[i][k] # Null
        <5>1. held[i][k] \in [share : Nat \ {0}, age : 0 .. MaxAge] /\ held[i][k].share <= Limit[k]
          BY <4>3 DEF TypeOK
        <5>2. QED
          BY <4>1, <4>3, <5>1, OlderAge
      <4>4. QED
        BY <4>2, <4>3
    <3>9. held' \in [Instances -> [DemandKeys ->
                       [share : Nat \ {0}, age : 0 .. MaxAge] \cup {Null}]]
      BY <2>2, <3>8
    <3>10. counts' = counts
      BY <1>3 DEF limit_share_check_loop
    <3>11. TypeOK'
      BY <3>4, <3>7, <3>8, <3>9, <3>10 DEF TypeOK
    <3>12. SharesBounded'
      BY <3>4, <3>5, <3>6 DEF SharesBounded
    <3>13. QED
      BY <3>11, <3>12
  <2>3. QED
    BY <1>3, <2>1, <2>2 DEF limit_share_check_loop
<1>4. CASE RedisFails
  BY <1>1, <1>4 DEF RedisFails, TypeOK, SharesBounded
<1>5. CASE UnpackingRaises
  <2>1. loop' \in Loop /\ loop'.at = "dead"
    BY <1>1, <1>5 DEF UnpackingRaises, Loop
  <2>2. QED
    BY <1>5, <2>1 DEF UnpackingRaises, TypeOK, SharesBounded
<1>6. ASSUME NEW i \in Instances, NextServer(i), loop.at = "send"
      PROVE  loop' \in Loop /\ (loop'.at = "send" => loop'.message = loop.message)
  <2>1. CASE loop' = Sleeping
    BY <1>1, <2>1
  <2>2. CASE loop' = [loop EXCEPT !.servers = @ \ {i}]
    BY <2>2 DEF TypeOK, Loop
  <2>3. QED
    BY <1>6, <2>1, <2>2 DEF NextServer
<1>7. ASSUME NEW i \in Instances, _send_policies(i) PROVE TypeOK' /\ SharesBounded'
  <2> DEFINE p == PartOf(i, loop.message)
  <2>1. loop.message \in Message
        /\ \A k \in DemandKeys : loop.message.shares[k][i] <= Limit[k]
    BY <1>7 DEF _send_policies, SharesBounded
  <2>2. p \in Part /\ \A k \in DemandKeys : p.shares[k] <= Limit[k]
    BY <2>1 DEF PartOf, Part, Message
  <2>3. loop' \in Loop /\ (loop'.at = "send" => loop'.message = loop.message /\ loop.at = "send")
    BY <1>6, <1>7 DEF _send_policies
  <2>4. inbox' = [inbox EXCEPT ![i] = @ \cup {p}] /\ UNCHANGED <<counts, held>>
    BY <1>7 DEF _send_policies
  <2> HIDE DEF p
  <2>5. QED
    BY <2>2, <2>3, <2>4 DEF TypeOK, SharesBounded
<1>8. ASSUME NEW i \in Instances, SendFails(i) PROVE TypeOK' /\ SharesBounded'
  <2>1. loop' \in Loop /\ (loop'.at = "send" => loop'.message = loop.message /\ loop.at = "send")
    BY <1>6, <1>8 DEF SendFails
  <2>2. QED
    BY <1>8, <2>1 DEF SendFails, TypeOK, SharesBounded
<1>9. ASSUME NEW i \in Instances, ingest_policies(i) PROVE TypeOK' /\ SharesBounded'
  <2>1. PICK m \in inbox[i] :
          /\ inbox' = [inbox EXCEPT ![i] = @ \ {m}]
          /\ held' = [held EXCEPT ![i] = [k \in DemandKeys |->
                        IF m.shares[k] > 0 THEN weir_ingest_limit_share_update(i, m, k)
                        ELSE held[i][k]]]
          /\ UNCHANGED <<counts, loop>>
    BY <1>9 DEF ingest_policies
  <2>2. m \in Part /\ \A k \in DemandKeys : m.shares[k] <= Limit[k]
    BY DEF TypeOK, SharesBounded
  <2>3. ASSUME NEW j \in Instances, NEW k \in DemandKeys
        PROVE  \/ held'[j][k] = held[j][k]
               \/ /\ held'[j][k] = [share |-> m.shares[k], age |-> m.age]
                  /\ m.shares[k] > 0 /\ j = i
    BY <2>1 DEF weir_ingest_limit_share_update, TypeOK
  <2>4. ASSUME NEW j \in Instances, NEW k \in DemandKeys
        PROVE  /\ held'[j][k] \in [share : Nat \ {0}, age : 0 .. MaxAge] \cup {Null}
               /\ held'[j][k] = Null \/ held'[j][k].share <= Limit[k]
    <3>1. CASE held'[j][k] = held[j][k]
      BY <3>1 DEF TypeOK
    <3>2. CASE held'[j][k] = [share |-> m.shares[k], age |-> m.age] /\ m.shares[k] > 0
      <4>1. m.shares[k] \in Nat \ {0} /\ m.age \in 0 .. MaxAge
        BY <2>2, <3>2 DEF Part
      <4>2. QED
        BY <2>2, <3>2, <4>1
    <3>3. QED
      BY <2>3, <3>1, <3>2
  <2>5. held' \in [Instances -> [DemandKeys ->
                     [share : Nat \ {0}, age : 0 .. MaxAge] \cup {Null}]]
    <3>1. \A j \in Instances : held'[j] \in [DemandKeys ->
                     [share : Nat \ {0}, age : 0 .. MaxAge] \cup {Null}]
      BY <2>1, <2>4 DEF TypeOK
    <3>2. QED
      BY <2>1, <3>1 DEF TypeOK
  <2>6. QED
    BY <2>1, <2>4, <2>5 DEF TypeOK, SharesBounded
<1>10. ASSUME NEW i \in Instances, NEW k \in DemandKeys, CleanUp(i, k)
       PROVE  TypeOK' /\ SharesBounded'
  <2>1. held' = [held EXCEPT ![i][k] = Null] /\ UNCHANGED <<counts, loop, inbox>>
    BY <1>10 DEF CleanUp
  <2>2. \A j \in Instances, l \in DemandKeys : held'[j][l] \in {held[j][l], Null}
    BY <2>1 DEF TypeOK
  <2>3. held' \in [Instances -> [DemandKeys ->
                     [share : Nat \ {0}, age : 0 .. MaxAge] \cup {Null}]]
    BY <2>1 DEF TypeOK
  <2>4. QED
    BY <2>1, <2>2, <2>3 DEF TypeOK, SharesBounded
<1>11. ASSUME NEW i \in Instances, NEW k \in DemandKeys, CountChanges(k, i)
       PROVE  TypeOK' /\ SharesBounded'
  <2>1. PICK n \in CountsOf[k][i] : counts' = [counts EXCEPT ![k][i] = n]
    BY <1>11 DEF CountChanges
  <2>2. n \in Nat
    OBVIOUS
  <2>3. /\ counts' \in [DemandKeys -> [Instances -> Nat]]
        /\ \A l \in DemandKeys, j \in Instances : counts'[l][j] \in CountsOf[l][j]
    BY <2>1, <2>2 DEF TypeOK
  <2>4. QED
    BY <1>11, <2>3 DEF CountChanges, TypeOK, SharesBounded
<1>12. CASE UNCHANGED vars
  BY <1>12 DEF vars, TypeOK, SharesBounded
<1>13. QED
  BY <1>2, <1>3, <1>4, <1>5, <1>7, <1>8, <1>9, <1>10, <1>11, <1>12 DEF Next

-----------------------------------------------------------------------------
\* A step that adds nothing to what is on its way or held keeps the bounds of a round.
LEMMA RoundKept ==
  ASSUME TypeOK, NEW age \in 0 .. MaxAge - 1, NEW M, Bounding(M), RoundOf(age, M),
         \A i \in Instances : \A m \in inbox'[i] :
            \/ m \in inbox[i]
            \/ m.age # age
            \/ \A k \in DemandKeys : m.shares[k] <= M[k][i],
         \A i \in Instances, k \in DemandKeys :
            \/ held'[i][k] = held[i][k]
            \/ held'[i][k] = Null
            \/ held'[i][k].age # age
            \/ held'[i][k].share <= M[k][i],
         loop'.at = "send" => loop'.message = loop.message /\ loop.at = "send"
  PROVE  RoundOf(age, M)'
<1>1. ASSUME NEW i \in Instances, NEW m \in inbox'[i], m.age = age, NEW k \in DemandKeys
      PROVE  m.shares[k] <= M[k][i]
  BY <1>1 DEF RoundOf
<1>2. ASSUME NEW i \in Instances, NEW k \in DemandKeys, held'[i][k] # Null,
             held'[i][k].age = age
      PROVE  held'[i][k].share <= M[k][i]
  BY <1>2 DEF RoundOf
<1>3. ASSUME age = 0, loop'.at = "send", NEW k \in DemandKeys, NEW i \in Instances
      PROVE  loop'.message.shares[k][i] <= M[k][i]
  BY <1>3 DEF RoundOf
<1>4. QED
  BY <1>1, <1>2, <1>3 DEF RoundOf

\* Every step keeps the bounds of the rounds: a new round is bounded by its own shares, and
\* what is left of the others moves to the next age.
LEMMA RoundsStep == TypeOK /\ SharesBounded /\ RoundsAddUp /\ [Next]_vars => RoundsAddUp'
<1> SUFFICES ASSUME TypeOK, SharesBounded, RoundsAddUp, [Next]_vars,
                    NEW age \in 0 .. MaxAge - 1
             PROVE  \E M : Bounding(M) /\ RoundOf(age, M)'
  BY DEF RoundsAddUp, Bounding
<1> USE ShareAssumption
<1>1. PICK M : Bounding(M) /\ RoundOf(age, M)
  BY DEF RoundsAddUp
<1>2. ASSUME UNCHANGED <<inbox, held>>, loop'.at = "send" => loop' = loop
      PROVE  RoundOf(age, M)'
  BY <1>1, <1>2, RoundKept
<1>3. Sleeping.at = "sleep"
  BY DEF Sleeping
<1>4. CASE scan_iter \/ RedisFails \/ UnpackingRaises
  <2>1. loop'.at # "send"
    BY <1>3, <1>4 DEF scan_iter, RedisFails, UnpackingRaises, Sleeping
  <2>2. QED
    BY <1>1, <1>2, <1>4, <2>1 DEF scan_iter, RedisFails, UnpackingRaises
<1>5. CASE limit_share_check_loop
  <2>1. CASE UNCHANGED <<inbox, held>> /\ loop' = Sleeping
    BY <1>1, <1>2, <1>3, <2>1
  <2>2. CASE /\ \E readable \in Readable(Demand) :
                  loop' = [at |-> "send", keys |-> {}, servers |-> Instances,
                           message |-> [shares |-> SharesOf(Demand), readable |-> readable]]
             /\ inbox' = [i \in Instances |-> {[m EXCEPT !.age = Older(@)] : m \in inbox[i]}]
             /\ held' = [i \in Instances |-> [k \in DemandKeys |->
                  IF held[i][k] = Null THEN Null ELSE [held[i][k] EXCEPT !.age = Older(@)]]]
    <3>1. ASSUME NEW i \in Instances, NEW m \in inbox'[i]
          PROVE  \E n \in inbox[i] : /\ m.age = Older(n.age) /\ m.shares = n.shares
                                     /\ n.age \in 0 .. MaxAge
      <4>1. PICK n \in inbox[i] : m = [n EXCEPT !.age = Older(@)]
        BY <2>2
      <4>2. n \in Part
        BY DEF TypeOK
      <4>3. QED
        BY <4>1, <4>2 DEF Part
    <3>2. ASSUME NEW i \in Instances, NEW k \in DemandKeys, held'[i][k] # Null
          PROVE  /\ held[i][k] # Null /\ held'[i][k].age = Older(held[i][k].age)
                 /\ held'[i][k].share = held[i][k].share
                 /\ held[i][k].age \in 0 .. MaxAge
      <4>1. held'[i][k] = IF held[i][k] = Null THEN Null
                          ELSE [held[i][k] EXCEPT !.age = Older(@)]
        BY <2>2
      <4>2. held[i][k] # Null
        BY <3>2, <4>1
      <4>3. held[i][k] \in [share : Nat \ {0}, age : 0 .. MaxAge]
        BY <4>2 DEF TypeOK
      <4>4. QED
        BY <4>1, <4>2, <4>3
    <3>3. loop'.message.shares = SharesOf(Demand)
      BY <2>2
    <3>4. CASE age = 0
      <4>1. Bounding(SharesOf(Demand))
        BY MessageBounding
      <4>2. \A k \in DemandKeys, i \in Instances : SharesOf(Demand)[k][i] \in Nat
        BY <4>1, BoundingShare
      <4>3. \A i \in Instances : \A m \in inbox'[i] : m.age # 0
        BY <3>1, OlderAge
      <4>4. \A i \in Instances, k \in DemandKeys : held'[i][k] # Null => held'[i][k].age # 0
        BY <3>2, OlderAge
      <4>5. PICK P : P = SharesOf(Demand)
        OBVIOUS
      <4>6. \A k \in DemandKeys, i \in Instances : loop'.message.shares[k][i] <= P[k][i]
        BY <3>3, <4>2, <4>5
      <4>7. Bounding(P) /\ RoundOf(age, P)'
        BY <3>4, <4>1, <4>3, <4>4, <4>5, <4>6 DEF RoundOf
      <4>8. QED
        BY <4>7
    <3>5. CASE age # 0
      <4>1. age - 1 \in 0 .. MaxAge - 1 /\ age < MaxAge
        BY <3>5
      <4>2. PICK P : Bounding(P) /\ RoundOf(age - 1, P)
        BY <4>1 DEF RoundsAddUp
      <4>3. ASSUME NEW i \in Instances, NEW m \in inbox'[i], m.age = age, NEW k \in DemandKeys
            PROVE  m.shares[k] <= P[k][i]
        <5>1. PICK n \in inbox[i] : /\ m.age = Older(n.age) /\ m.shares = n.shares
                                    /\ n.age \in 0 .. MaxAge
          BY <3>1
        <5>2. n.age = age - 1
          BY <4>1, <4>3, <5>1, OlderAge
        <5>3. QED
          BY <4>2, <5>1, <5>2 DEF RoundOf
      <4>4. ASSUME NEW i \in Instances, NEW k \in DemandKeys, held'[i][k] # Null,
                   held'[i][k].age = age
            PROVE  held'[i][k].share <= P[k][i]
        <5>1. held[i][k].age = age - 1
          BY <3>2, <4>1, <4>4, OlderAge
        <5>2. QED
          BY <3>2, <4>2, <4>4, <5>1 DEF RoundOf
      <4>5. RoundOf(age, P)'
        BY <3>5, <4>3, <4>4 DEF RoundOf
      <4>6. QED
        BY <4>2, <4>5
    <3>6. QED
      BY <3>4, <3>5
  <2>3. QED
    BY <1>5, <2>1, <2>2 DEF limit_share_check_loop
<1>6. ASSUME NEW i \in Instances, NextServer(i), loop.at = "send"
      PROVE  loop'.at = "send" => loop'.message = loop.message
  <2>1. loop \in Loop
    BY DEF TypeOK
  <2>2. QED
    BY <1>3, <1>6, <2>1 DEF NextServer, Loop
<1>7. ASSUME NEW i \in Instances, _send_policies(i) PROVE RoundOf(age, M)'
  <2> DEFINE p == PartOf(i, loop.message)
  <2>1. inbox' = [inbox EXCEPT ![i] = @ \cup {p}] /\ UNCHANGED held /\ loop.at = "send"
    BY <1>7 DEF _send_policies
  <2>2. ASSUME age = 0, NEW k \in DemandKeys PROVE p.shares[k] <= M[k][i]
    <3>1. loop.message.shares[k][i] <= M[k][i]
      BY <1>1, <2>1, <2>2 DEF RoundOf
    <3>2. M[k][i] \in Nat
      BY <1>1, BoundingShare
    <3>3. QED
      BY <3>1, <3>2 DEF PartOf
  <2>3. p.age = 0
    BY DEF PartOf
  <2>4. loop'.at = "send" => loop'.message = loop.message
    BY <1>6, <1>7 DEF _send_policies
  <2> HIDE DEF p
  <2>5. \A j \in Instances : \A m \in inbox'[j] : m \in inbox[j] \/ (j = i /\ m = p)
    BY <2>1 DEF TypeOK
  <2>6. QED
    BY <1>1, <2>1, <2>2, <2>3, <2>4, <2>5, RoundKept
<1>8. ASSUME NEW i \in Instances, SendFails(i) PROVE RoundOf(age, M)'
  <2>1. UNCHANGED <<inbox, held>> /\ loop.at = "send"
        /\ (loop'.at = "send" => loop'.message = loop.message)
    BY <1>6, <1>8 DEF SendFails
  <2>2. QED
    BY <1>1, <2>1, RoundKept
<1>9. ASSUME NEW i \in Instances, ingest_policies(i) PROVE RoundOf(age, M)'
  <2>1. PICK m \in inbox[i] :
          /\ inbox' = [inbox EXCEPT ![i] = @ \ {m}]
          /\ held' = [held EXCEPT ![i] = [k \in DemandKeys |->
                        IF m.shares[k] > 0 THEN weir_ingest_limit_share_update(i, m, k)
                        ELSE held[i][k]]]
          /\ UNCHANGED <<counts, loop>>
    BY <1>9 DEF ingest_policies
  <2>2. \A j \in Instances : \A p \in inbox'[j] : p \in inbox[j]
    BY <2>1 DEF TypeOK
  <2>3. ASSUME NEW j \in Instances, NEW k \in DemandKeys
        PROVE  \/ held'[j][k] = held[j][k]
               \/ held'[j][k] = [share |-> m.shares[k], age |-> m.age] /\ j = i
    BY <2>1 DEF weir_ingest_limit_share_update, TypeOK
  <2>4. m.age = age => \A k \in DemandKeys : m.shares[k] <= M[k][i]
    BY <1>1 DEF RoundOf
  <2>5. ASSUME NEW j \in Instances, NEW k \in DemandKeys
        PROVE  \/ held'[j][k] = held[j][k]
               \/ held'[j][k].age # age
               \/ held'[j][k].share <= M[k][j]
    <3>1. CASE held'[j][k] = [share |-> m.shares[k], age |-> m.age] /\ j = i
      BY <2>4, <3>1
    <3>2. QED
      BY <2>3, <3>1
  <2>6. QED
    BY <1>1, <2>1, <2>2, <2>5, RoundKept
<1>10. ASSUME NEW i \in Instances, NEW k \in DemandKeys, CleanUp(i, k)
       PROVE  RoundOf(age, M)'
  <2>1. held' = [held EXCEPT ![i][k] = Null] /\ UNCHANGED <<loop, inbox>>
    BY <1>10 DEF CleanUp
  <2>2. \A j \in Instances, l \in DemandKeys : held'[j][l] = held[j][l] \/ held'[j][l] = Null
    BY <2>1 DEF TypeOK
  <2>3. QED
    BY <1>1, <2>1, <2>2, RoundKept
<1>11. ASSUME NEW i \in Instances, NEW k \in DemandKeys, CountChanges(k, i)
       PROVE  RoundOf(age, M)'
  BY <1>2, <1>11 DEF CountChanges
<1>12. CASE UNCHANGED vars
  BY <1>1, <1>2, <1>12 DEF vars
<1>13. QED
  BY <1>1, <1>4, <1>5, <1>7, <1>8, <1>9, <1>10, <1>11, <1>12 DEF Next

\* Initially nothing is on its way or held.
LEMMA InitInv == Init => IndInv
<1> SUFFICES ASSUME Init PROVE IndInv
  OBVIOUS
<1> USE ShareAssumption
<1>1. Sleeping \in Loop /\ loop.at # "send"
  BY DEF Init, Sleeping, Loop
<1>2. TypeOK /\ SharesBounded
  BY <1>1 DEF Init, TypeOK, SharesBounded
<1>3. Bounding(SharesOf([k \in DemandKeys |-> [i \in Instances |-> 0]]))
  <2>1. Bounding(SharesOf(Demand))
    BY <1>2, MessageBounding
  <2>2. Demand = [k \in DemandKeys |-> [i \in Instances |-> 0]]
    BY DEF Init, Demand
  <2>3. QED
    BY <2>1, <2>2
<1>4. \A age \in 0 .. MaxAge - 1 : \A M : RoundOf(age, M)
  BY <1>1 DEF Init, RoundOf
<1>5. RoundsAddUp
  BY <1>3, <1>4 DEF RoundsAddUp
<1>6. QED
  BY <1>2, <1>5 DEF IndInv

\* The invariant holds throughout.
LEMMA Invariance == Spec => []IndInv
<1>1. IndInv /\ [Next]_vars => IndInv'
  BY TypeStep, RoundsStep DEF IndInv
<1>2. QED
  BY InitInv, <1>1, PTL DEF Spec

\* No share in force at an instance is 0 or above the limit of its user, for any instances,
\* limits and counts.
THEOREM TypeCorrect == Spec => []TypeOK
<1>1. IndInv => TypeOK
  BY DEF IndInv
<1>2. QED
  BY <1>1, Invariance, PTL

\* What the invariant is for: the shares of a round in force are part of what bounds them.
LEMMA BoundedSum == IndInv => SharesAddUp
<1> SUFFICES ASSUME IndInv, NEW k \in DemandKeys, NEW age \in 0 .. MaxAge - 1
             PROVE  SumFunction([i \in {j \in Instances :
                                   held[j][k] # Null /\ held[j][k].age = age} |->
                                 held[i][k].share]) <= Limit[k]
  BY DEF SharesAddUp
<1> DEFINE H == {j \in Instances : held[j][k] # Null /\ held[j][k].age = age}
           f == [i \in H |-> held[i][k].share]
<1>1. PICK M : Bounding(M) /\ RoundOf(age, M)
  BY DEF IndInv, RoundsAddUp
<1> DEFINE g == M[k]
<1>2. IsFiniteSet(Instances) /\ IsFiniteSet(H) /\ IsFiniteSet(Instances \ H)
  BY ShareAssumption, FS_Subset
<1>3. \A i \in Instances : g[i] \in Nat /\ g[i] \in Int
  BY <1>1, BoundingShare
<1>4. ASSUME NEW i \in H PROVE f[i] \in Int /\ f[i] <= g[i]
  <2>1. held[i][k] \in [share : Nat \ {0}, age : 0 .. MaxAge]
    BY DEF IndInv, TypeOK
  <2>2. held[i][k].share <= M[k][i]
    BY <1>1 DEF RoundOf
  <2>3. QED
    BY <2>1, <2>2
<1>5. Instances = H \cup (Instances \ H) /\ H \cap (Instances \ H) = {} /\ H \subseteq Instances
  OBVIOUS
<1>6. SumFunctionOnSet(g, Instances) <= Limit[k] /\ Limit[k] \in Nat
  BY <1>1, ShareAssumption DEF Bounding
<1>7. SumFunction(f) = SumFunctionOnSet(f, H)
  BY DEF SumFunction
<1> HIDE DEF H, f, g
<1>8. SumFunctionOnSet(f, H) <= SumFunctionOnSet(g, H)
  BY <1>2, <1>3, <1>4, <1>5, SumMonotone
<1>9. SumFunctionOnSet(g, H \cup (Instances \ H))
        = SumFunctionOnSet(g, H) + SumFunctionOnSet(g, Instances \ H)
  BY <1>2, <1>3, <1>5, SumDisjoint
<1>10. SumFunctionOnSet(g, H) \in Nat /\ SumFunctionOnSet(g, Instances \ H) \in Nat
  BY <1>2, <1>3, <1>5, SumNat
<1>11. SumFunctionOnSet(f, H) \in Int
  BY <1>2, <1>4, SumStep
<1>12. SumFunction(f) <= Limit[k]
  <2> DEFINE a == SumFunctionOnSet(f, H)
             b == SumFunctionOnSet(g, H)
             c == SumFunctionOnSet(g, Instances \ H)
             l == Limit[k]
  <2>1. b + c <= l
    BY <1>5, <1>6, <1>9
  <2>2. a \in Int /\ b \in Nat /\ c \in Nat /\ l \in Nat /\ a <= b
    BY <1>6, <1>8, <1>10, <1>11
  <2> HIDE DEF a, b, c, l
  <2>3. a <= l
    BY <2>1, <2>2
  <2>4. QED
    BY <1>7, <2>3 DEF a, l
<1>13. QED
  BY <1>12 DEF f, H

\* For any instances, limits, counts and delays: the shares of one round that are in force
\* never add up to more than the limit of their user.
THEOREM LimitNotExceeded == Spec => []SharesAddUp
BY BoundedSum, Invariance, PTL
=============================================================================
