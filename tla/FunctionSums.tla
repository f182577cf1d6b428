---------------------------- MODULE FunctionSums ----------------------------
(***************************************************************************)
(* Facts about sums over finite sets (SumFunctionOnSet), on which the proofs *)
(* about amounts of usage and shares of a limit rest. The theorems on        *)
(* induction that the library has take a predicate as a parameter; here a    *)
(* predicate is the set of the numbers, or of the subsets, that satisfy it,  *)
(* and induction is well-foundedness.                                        *)
(***************************************************************************)
EXTENDS Integers, FiniteSets, Functions, FiniteSetTheorems, WellFoundedInduction, TLAPS

\* Induction over the naturals, for a set of them.
LEMMA NatSetInduction ==
  ASSUME NEW G \in SUBSET Nat, 0 \in G, \A n \in G : n + 1 \in G
  PROVE  G = Nat
<1>1. SUFFICES ASSUME G # Nat PROVE FALSE
  OBVIOUS
<1> DEFINE bad == Nat \ G
<1>2. bad \subseteq Nat /\ bad # {}
  BY <1>1
<1> HIDE DEF bad
<1>3. PICK m \in bad : \A k \in bad : ~(<<k, m>> \in OpToRel(<, Nat))
  BY <1>2, NatLessThanWellFounded, WFMin
<1>4. m \in Nat /\ \A k \in bad : ~(k < m)
  BY <1>2, <1>3 DEF OpToRel
<1>5. m # 0 /\ m - 1 \in Nat
  BY <1>4, <1>2 DEF bad
<1>6. m - 1 \in G
  BY <1>4, <1>5 DEF bad
<1>7. (m - 1) + 1 = m
  BY <1>4
<1>8. QED
  BY <1>3, <1>6, <1>7 DEF bad

\* A nonempty set of subsets of a finite set has a minimal one.
LEMMA MinimalSubset ==
  ASSUME NEW S, IsFiniteSet(S), NEW B \in SUBSET (SUBSET S), B # {}
  PROVE  \E A \in B : \A C \in B : C \subseteq A => C = A
<1>1. IsWellFoundedOn(StrictSubsetOrdering(S), SUBSET S)
  BY FS_StrictSubsetOrderingWellFounded, FS_FiniteSubsetsOfFinite
<1>2. PICK A \in B : \A C \in B : ~(<<C, A>> \in StrictSubsetOrdering(S))
  BY <1>1, WFMin
<1>3. QED
  BY <1>2 DEF StrictSubsetOrdering

\* Induction over the subsets of a finite set.
LEMMA SubsetInduction ==
  ASSUME NEW S, IsFiniteSet(S), NEW G \in SUBSET (SUBSET S), {} \in G,
         \A A \in SUBSET S : A # {} /\ (\A x \in A : A \ {x} \in G) => A \in G
  PROVE  G = SUBSET S
<1>1. SUFFICES ASSUME G # SUBSET S PROVE FALSE
  OBVIOUS
<1> DEFINE bad == (SUBSET S) \ G
<1>2. bad \in SUBSET (SUBSET S) /\ bad # {}
  BY <1>1
<1>3. PICK A \in bad : \A C \in bad : C \subseteq A => C = A
  <2> HIDE DEF bad
  <2>1. QED
    BY <1>2, MinimalSubset
<1>4. A # {} /\ A \in SUBSET S
  BY <1>3
<1>5. ASSUME NEW x \in A PROVE A \ {x} \in G
  BY <1>3, <1>4
<1>6. QED
  BY <1>3, <1>4, <1>5

-----------------------------------------------------------------------------
\* The element that the fold takes next, and the recursion it follows.
Chosen(s) == CHOOSE x \in s : TRUE

Recursion(f, S, g) ==
  [s \in SUBSET S |-> IF s = {} THEN 0 ELSE f[Chosen(s)] + g[s \ {Chosen(s)}]]

\* The chosen element is one of the set's.
LEMMA ChosenElement == \A s : s # {} => Chosen(s) \in s
BY DEF Chosen

\* The recursion has a solution.
LEMMA RecursionSolvable ==
  ASSUME NEW S, IsFiniteSet(S), NEW f, \A x \in S : f[x] \in Int
  PROVE  \E g \in [SUBSET S -> Int] : g = Recursion(f, S, g)
<1> DEFINE D(n) == {s \in SUBSET S : Cardinality(s) <= n}
           Solves(g, n) ==
             \A s \in D(n) : g[s] = IF s = {} THEN 0 ELSE f[Chosen(s)] + g[s \ {Chosen(s)}]
           G == {n \in Nat : \E g \in [D(n) -> Int] : Solves(g, n)}
<1>1. \A s \in SUBSET S :
        /\ IsFiniteSet(s) /\ Cardinality(s) \in Nat
        /\ s # {} => /\ Chosen(s) \in S /\ s \ {Chosen(s)} \in SUBSET S
                     /\ Cardinality(s \ {Chosen(s)}) = Cardinality(s) - 1
  <2> SUFFICES ASSUME NEW s \in SUBSET S
               PROVE  /\ IsFiniteSet(s) /\ Cardinality(s) \in Nat
                      /\ s # {} => /\ Chosen(s) \in S /\ s \ {Chosen(s)} \in SUBSET S
                                   /\ Cardinality(s \ {Chosen(s)}) = Cardinality(s) - 1
    OBVIOUS
  <2>1. IsFiniteSet(s) /\ Cardinality(s) \in Nat
    BY FS_Subset, FS_CardinalityType
  <2>2. s # {} => Chosen(s) \in s
    BY ChosenElement
  <2>3. s # {} => Cardinality(s \ {Chosen(s)}) = Cardinality(s) - 1
    BY <2>1, <2>2, FS_RemoveElement
  <2>4. QED
    BY <2>1, <2>2, <2>3
<1>2. 0 \in G
  <2>1. D(0) = {{}}
    <3>1. ASSUME NEW s \in D(0) PROVE s = {}
      <4>1. s \in SUBSET S /\ Cardinality(s) <= 0
        OBVIOUS
      <4>2. IsFiniteSet(s) /\ Cardinality(s) \in Nat
        BY <1>1, <4>1
      <4>3. Cardinality(s) = 0
        BY <4>1, <4>2
      <4>4. QED
        BY <4>2, <4>3, FS_EmptySet
    <3>2. {} \in D(0)
      BY FS_EmptySet
    <3>3. QED
      BY <3>1, <3>2
  <2>2. [s \in D(0) |-> 0] \in [D(0) -> Int] /\ Solves([s \in D(0) |-> 0], 0)
    BY <2>1
  <2>3. QED
    BY <2>2
<1>3. ASSUME NEW n \in G PROVE n + 1 \in G
  <2>1. PICK g \in [D(n) -> Int] : Solves(g, n)
    OBVIOUS
  <2> DEFINE h == [s \in D(n + 1) |->
                     IF s = {} THEN 0 ELSE f[Chosen(s)] + g[s \ {Chosen(s)}]]
  <2>2. \A s \in D(n + 1) : s # {} => s \ {Chosen(s)} \in D(n) /\ Chosen(s) \in S
    BY <1>1
  <2>3. ASSUME NEW t \in D(n) PROVE t \in D(n + 1)
    <3>1. t \in SUBSET S /\ Cardinality(t) <= n /\ Cardinality(t) \in Nat
      BY <1>1
    <3>2. QED
      BY <3>1
  <2>4. ASSUME NEW t \in D(n) PROVE h[t] = g[t]
    <3>1. t \in D(n + 1)
      BY <2>3
    <3> HIDE DEF D
    <3>2. QED
      BY <2>1, <3>1
  <2>5. h \in [D(n + 1) -> Int]
    BY <2>2
  <2>6. Solves(h, n + 1)
    <3> SUFFICES ASSUME NEW s \in D(n + 1)
                 PROVE  h[s] = IF s = {} THEN 0 ELSE f[Chosen(s)] + h[s \ {Chosen(s)}]
      OBVIOUS
    <3> HIDE DEF D
    <3>1. s # {} => h[s \ {Chosen(s)}] = g[s \ {Chosen(s)}]
      BY <2>2, <2>4
    <3>2. QED
      BY <3>1
  <2>7. n + 1 \in Nat /\ \E gg \in [D(n + 1) -> Int] : Solves(gg, n + 1)
    <3> HIDE DEF D, Solves, h
    <3>1. QED
      BY <2>5, <2>6
  <2>8. QED
    BY <2>7
<1>4. Cardinality(S) \in G
  <2> HIDE DEF G
  <2>1. G \in SUBSET Nat
    BY DEF G
  <2>2. G = Nat
    BY <1>2, <1>3, <2>1, NatSetInduction
  <2>3. QED
    BY <1>1, <2>2
<1>5. D(Cardinality(S)) = SUBSET S
  <2>1. \A s \in SUBSET S : Cardinality(s) <= Cardinality(S)
    BY FS_Subset
  <2>2. QED
    BY <2>1
<1>6. PICK g \in [SUBSET S -> Int] : Solves(g, Cardinality(S))
  BY <1>4, <1>5
<1>7. g = Recursion(f, S, g)
  BY <1>5, <1>6 DEF Recursion
<1>8. QED
  BY <1>7

\* Solutions on a set and on a part of it agree.
LEMMA SolutionUnique ==
  ASSUME NEW S, IsFiniteSet(S), NEW f, NEW g, g = Recursion(f, S, g),
         NEW A \in SUBSET S, NEW h, h = Recursion(f, A, h)
  PROVE  \A s \in SUBSET A : h[s] = g[s]
<1> DEFINE G == {s \in SUBSET A : h[s] = g[s]}
<1>1. IsFiniteSet(A)
  BY FS_Subset
<1>2. {} \in G
  BY DEF Recursion
<1>3. ASSUME NEW s \in SUBSET A, s # {}, \A x \in s : s \ {x} \in G
      PROVE  s \in G
  <2>1. Chosen(s) \in s
    BY <1>3, ChosenElement
  <2>2. h[s] = f[Chosen(s)] + h[s \ {Chosen(s)}]
    BY <1>3 DEF Recursion
  <2>3. g[s] = f[Chosen(s)] + g[s \ {Chosen(s)}]
    <3>1. s \in SUBSET S
      OBVIOUS
    <3>2. QED
      BY <1>3, <3>1 DEF Recursion
  <2>4. h[s \ {Chosen(s)}] = g[s \ {Chosen(s)}]
    BY <1>3, <2>1
  <2>5. QED
    BY <2>2, <2>3, <2>4
<1>4. G \in SUBSET (SUBSET A)
  OBVIOUS
<1>5. G = SUBSET A
  <2> HIDE DEF G
  <2>1. QED
    BY <1>1, <1>2, <1>3, <1>4, SubsetInduction
<1>6. QED
  BY <1>5

\* SumFunctionOnSet is a solution of the recursion.
LEMMA SumIsSolution ==
  ASSUME NEW S, NEW f, NEW h, h = Recursion(f, S, h)
  PROVE  \E g : g = Recursion(f, S, g) /\ SumFunctionOnSet(f, S) = g[S]
BY DEF SumFunctionOnSet, FoldFunctionOnSet, MapThenFoldSet, Recursion, Chosen

\* The function that gives the sums over all subsets of a finite set.
SumTable(f, S, g) ==
  /\ g \in [SUBSET S -> Int]
  /\ g = Recursion(f, S, g)
  /\ \A A \in SUBSET S : SumFunctionOnSet(f, A) = g[A]

\* There is such a function.
LEMMA SumsOfSubsets ==
  ASSUME NEW S, IsFiniteSet(S), NEW f, \A x \in S : f[x] \in Int
  PROVE  \E g : SumTable(f, S, g)
<1>1. PICK g \in [SUBSET S -> Int] : g = Recursion(f, S, g)
  BY RecursionSolvable
<1>2. ASSUME NEW A \in SUBSET S PROVE SumFunctionOnSet(f, A) = g[A]
  <2>1. IsFiniteSet(A) /\ \A x \in A : f[x] \in Int
    BY FS_Subset
  <2>2. PICK k \in [SUBSET A -> Int] : k = Recursion(f, A, k)
    BY <2>1, RecursionSolvable
  <2>3. PICK h : h = Recursion(f, A, h) /\ SumFunctionOnSet(f, A) = h[A]
    BY <2>2, SumIsSolution
  <2>4. h[A] = g[A]
    BY <1>1, <2>3, SolutionUnique
  <2>5. QED
    BY <2>3, <2>4
<1>3. QED
  BY <1>1, <1>2 DEF SumTable

-----------------------------------------------------------------------------
\* A sum is its element at any index plus the sum of the others.
LEMMA SumRemove ==
  ASSUME NEW S, IsFiniteSet(S), NEW f, \A x \in S : f[x] \in Int
  PROVE  /\ SumFunctionOnSet(f, {}) = 0
         /\ \A A \in SUBSET S : SumFunctionOnSet(f, A) \in Int
         /\ \A A \in SUBSET S : \A x \in A :
              SumFunctionOnSet(f, A) = f[x] + SumFunctionOnSet(f, A \ {x})
<1>0. PICK g : SumTable(f, S, g)
  BY SumsOfSubsets
<1>1. /\ g \in [SUBSET S -> Int]
      /\ g = Recursion(f, S, g)
      /\ \A A \in SUBSET S : SumFunctionOnSet(f, A) = g[A]
  BY <1>0 DEF SumTable
<1>2. g[{}] = 0 /\ {} \in SUBSET S
  BY <1>1 DEF Recursion
<1>3. \A A \in SUBSET S : A # {} => g[A] = f[Chosen(A)] + g[A \ {Chosen(A)}]
  BY <1>1 DEF Recursion
<1> DEFINE G == {A \in SUBSET S : \A x \in A : g[A] = f[x] + g[A \ {x}]}
<1>4. {} \in G
  OBVIOUS
<1>5. ASSUME NEW A \in SUBSET S, A # {}, \A x \in A : A \ {x} \in G
      PROVE  A \in G
  <2> SUFFICES ASSUME NEW x \in A PROVE g[A] = f[x] + g[A \ {x}]
    OBVIOUS
  <2> DEFINE y == Chosen(A)
  <2>1. y \in A /\ g[A] = f[y] + g[A \ {y}]
    BY <1>3, <1>5, ChosenElement
  <2> HIDE DEF y
  <2>2. CASE x = y
    BY <2>1, <2>2
  <2>3. CASE x # y
    <3> DEFINE p == A \ {x}
               q == A \ {y}
               r == p \ {y}
    <3>1. q \ {x} = r /\ r \in SUBSET S
      OBVIOUS
    <3>2. g[q] = f[x] + g[r]
      BY <1>5, <2>1, <2>3, <3>1
    <3>3. g[p] = f[y] + g[r]
      BY <1>5, <2>1, <2>3
    <3>4. f[x] \in Int /\ f[y] \in Int /\ g[r] \in Int
      BY <1>1, <2>1, <3>1
    <3>5. g[A] = f[y] + g[q]
      BY <2>1
    <3> HIDE DEF p, q, r
    <3>6. g[A] = f[x] + g[p]
      BY <3>2, <3>3, <3>4, <3>5
    <3>7. QED
      BY <3>6 DEF p
  <2>4. QED
    BY <2>2, <2>3
<1>6. G \in SUBSET (SUBSET S)
  OBVIOUS
<1>7. G = SUBSET S
  <2> HIDE DEF G
  <2>1. QED
    BY <1>4, <1>5, <1>6, SubsetInduction
<1>8. ASSUME NEW A \in SUBSET S, NEW x \in A PROVE g[A] = f[x] + g[A \ {x}]
  BY <1>7
<1>9. QED
  BY <1>1, <1>2, <1>8

\* The same for one set; sums of integers are integers.
LEMMA SumStep ==
  ASSUME NEW S, IsFiniteSet(S), NEW f, \A x \in S : f[x] \in Int
  PROVE  /\ SumFunctionOnSet(f, {}) = 0
         /\ SumFunctionOnSet(f, S) \in Int
         /\ \A x \in S : /\ SumFunctionOnSet(f, S \ {x}) \in Int
                         /\ SumFunctionOnSet(f, S) = f[x] + SumFunctionOnSet(f, S \ {x})
BY SumRemove

\* The same for one element that is taken out.
LEMMA SumTakeOut ==
  ASSUME NEW S, IsFiniteSet(S), NEW f, \A x \in S : f[x] \in Int, NEW y \in S
  PROVE  SumFunctionOnSet(f, S) = f[y] + SumFunctionOnSet(f, S \ {y})
BY SumStep

\* The sum over one element.
LEMMA SumSingle ==
  ASSUME NEW x, NEW f, f[x] \in Int
  PROVE  SumFunctionOnSet(f, {x}) = f[x]
<1> DEFINE S == {x}
           empty == S \ {x}
<1>1. IsFiniteSet(S) /\ x \in S /\ \A y \in S : f[y] \in Int
  BY FS_Singleton
<1>2. empty = {}
  OBVIOUS
<1>3. SumFunctionOnSet(f, S) = f[x] + SumFunctionOnSet(f, empty)
  <2> HIDE DEF S
  <2>1. QED
    BY <1>1, SumStep
<1>4. SumFunctionOnSet(f, empty) = 0
  <2> HIDE DEF empty, S
  <2>1. QED
    BY <1>1, <1>2, SumStep
<1>5. SumFunctionOnSet(f, S) = f[x]
  <2> HIDE DEF empty, S
  <2>1. QED
    BY <1>3, <1>4
<1>6. QED
  BY <1>5

\* Functions that agree on a set have the same sum.
LEMMA SumEqual ==
  ASSUME NEW S, IsFiniteSet(S), NEW f, NEW g,
         \A x \in S : f[x] \in Int /\ g[x] = f[x]
  PROVE  SumFunctionOnSet(g, S) = SumFunctionOnSet(f, S)
<1> DEFINE G == {A \in SUBSET S : SumFunctionOnSet(g, A) = SumFunctionOnSet(f, A)}
<1>1. ASSUME NEW A \in SUBSET S
      PROVE  IsFiniteSet(A) /\ \A x \in A : f[x] \in Int /\ g[x] \in Int /\ g[x] = f[x]
  BY FS_Subset
<1>2. {} \in G
  BY <1>1, SumStep
<1>3. ASSUME NEW A \in SUBSET S, A # {}, \A x \in A : A \ {x} \in G
      PROVE  A \in G
  <2>1. PICK x \in A : TRUE
    BY <1>3
  <2>2. SumFunctionOnSet(f, A) = f[x] + SumFunctionOnSet(f, A \ {x})
    BY <1>1, SumStep
  <2>3. SumFunctionOnSet(g, A) = g[x] + SumFunctionOnSet(g, A \ {x})
    BY <1>1, SumStep
  <2>4. SumFunctionOnSet(g, A \ {x}) = SumFunctionOnSet(f, A \ {x})
    BY <1>3
  <2>5. QED
    BY <2>2, <2>3, <2>4
<1>4. G = SUBSET S
  <2>1. G \in SUBSET (SUBSET S)
    OBVIOUS
  <2> HIDE DEF G
  <2>2. QED
    BY <1>2, <1>3, <2>1, SubsetInduction
<1>5. QED
  BY <1>4

\* The sum of a pointwise sum.
LEMMA SumPlus ==
  ASSUME NEW S, IsFiniteSet(S), NEW f, NEW g, NEW h,
         \A x \in S : f[x] \in Int /\ g[x] \in Int /\ h[x] = f[x] + g[x]
  PROVE  SumFunctionOnSet(h, S) = SumFunctionOnSet(f, S) + SumFunctionOnSet(g, S)
<1> DEFINE G == {A \in SUBSET S : SumFunctionOnSet(h, A)
                                    = SumFunctionOnSet(f, A) + SumFunctionOnSet(g, A)}
<1>1. ASSUME NEW A \in SUBSET S
      PROVE  IsFiniteSet(A) /\ \A x \in A : /\ f[x] \in Int /\ g[x] \in Int
                                            /\ h[x] \in Int /\ h[x] = f[x] + g[x]
  BY FS_Subset
<1>2. {} \in G
  BY <1>1, SumStep
<1>3. ASSUME NEW A \in SUBSET S, A # {}, \A x \in A : A \ {x} \in G
      PROVE  A \in G
  <2>1. PICK x \in A : TRUE
    BY <1>3
  <2>2. /\ SumFunctionOnSet(f, A) = f[x] + SumFunctionOnSet(f, A \ {x})
        /\ SumFunctionOnSet(f, A \ {x}) \in Int
    BY <1>1, SumStep
  <2>3. /\ SumFunctionOnSet(g, A) = g[x] + SumFunctionOnSet(g, A \ {x})
        /\ SumFunctionOnSet(g, A \ {x}) \in Int
    BY <1>1, SumStep
  <2>4. SumFunctionOnSet(h, A) = h[x] + SumFunctionOnSet(h, A \ {x})
    BY <1>1, SumStep
  <2>5. SumFunctionOnSet(h, A \ {x})
          = SumFunctionOnSet(f, A \ {x}) + SumFunctionOnSet(g, A \ {x})
    BY <1>3
  <2>6. f[x] \in Int /\ g[x] \in Int /\ h[x] = f[x] + g[x]
    OBVIOUS
  <2>7. SumFunctionOnSet(h, A) = SumFunctionOnSet(f, A) + SumFunctionOnSet(g, A)
    BY <2>2, <2>3, <2>4, <2>5, <2>6
  <2>8. QED
    BY <2>7
<1>4. G = SUBSET S
  <2>1. G \in SUBSET (SUBSET S)
    OBVIOUS
  <2> HIDE DEF G
  <2>2. QED
    BY <1>2, <1>3, <2>1, SubsetInduction
<1>5. QED
  BY <1>4

\* Sums are monotone.
LEMMA SumMonotone ==
  ASSUME NEW S, IsFiniteSet(S), NEW f, NEW g,
         \A x \in S : f[x] \in Int /\ g[x] \in Int /\ f[x] <= g[x]
  PROVE  SumFunctionOnSet(f, S) <= SumFunctionOnSet(g, S)
<1> DEFINE G == {A \in SUBSET S : SumFunctionOnSet(f, A) <= SumFunctionOnSet(g, A)}
<1>1. ASSUME NEW A \in SUBSET S
      PROVE  IsFiniteSet(A) /\ \A x \in A : f[x] \in Int /\ g[x] \in Int /\ f[x] <= g[x]
  BY FS_Subset
<1>2. {} \in G
  <2>1. SumFunctionOnSet(f, {}) = 0 /\ SumFunctionOnSet(g, {}) = 0
    BY <1>1, SumStep
  <2>2. QED
    BY <2>1
<1>3. ASSUME NEW A \in SUBSET S, A # {}, \A x \in A : A \ {x} \in G
      PROVE  A \in G
  <2>1. PICK x \in A : TRUE
    BY <1>3
  <2>2. /\ SumFunctionOnSet(f, A) = f[x] + SumFunctionOnSet(f, A \ {x})
        /\ SumFunctionOnSet(f, A \ {x}) \in Int
    BY <1>1, SumStep
  <2>3. /\ SumFunctionOnSet(g, A) = g[x] + SumFunctionOnSet(g, A \ {x})
        /\ SumFunctionOnSet(g, A \ {x}) \in Int
    BY <1>1, SumStep
  <2>4. SumFunctionOnSet(f, A \ {x}) <= SumFunctionOnSet(g, A \ {x})
    BY <1>3
  <2>5. f[x] \in Int /\ g[x] \in Int /\ f[x] <= g[x]
    OBVIOUS
  <2>6. SumFunctionOnSet(f, A) <= SumFunctionOnSet(g, A)
    BY <2>2, <2>3, <2>4, <2>5
  <2>7. QED
    BY <2>6
<1>4. G = SUBSET S
  <2>1. G \in SUBSET (SUBSET S)
    OBVIOUS
  <2> HIDE DEF G
  <2>2. QED
    BY <1>2, <1>3, <2>1, SubsetInduction
<1>5. QED
  BY <1>4

\* The sum over two sets without a common element.
LEMMA SumDisjoint ==
  ASSUME NEW A, NEW B, IsFiniteSet(A), IsFiniteSet(B), A \cap B = {},
         NEW f, \A x \in A \cup B : f[x] \in Int
  PROVE  SumFunctionOnSet(f, A \cup B) = SumFunctionOnSet(f, A) + SumFunctionOnSet(f, B)
<1> DEFINE G == {C \in SUBSET B : SumFunctionOnSet(f, A \cup C)
                                    = SumFunctionOnSet(f, A) + SumFunctionOnSet(f, C)}
<1>1. ASSUME NEW C \in SUBSET B
      PROVE  /\ IsFiniteSet(C) /\ IsFiniteSet(A \cup C)
             /\ \A x \in A \cup C : f[x] \in Int
  <2>1. IsFiniteSet(C)
    BY FS_Subset
  <2>2. IsFiniteSet(A \cup C)
    BY <2>1, FS_Union
  <2>3. QED
    BY <2>1, <2>2
<1>2. SumFunctionOnSet(f, A) \in Int
  BY SumStep
<1>3. {} \in G
  <2>1. SumFunctionOnSet(f, {}) = 0 /\ A \cup {} = A
    BY <1>1, SumStep
  <2>2. QED
    BY <1>2, <2>1
<1>4. ASSUME NEW C \in SUBSET B, C # {}, \A x \in C : C \ {x} \in G
      PROVE  C \in G
  <2>1. PICK x \in C : TRUE
    BY <1>4
  <2>2. /\ SumFunctionOnSet(f, C) = f[x] + SumFunctionOnSet(f, C \ {x})
        /\ SumFunctionOnSet(f, C \ {x}) \in Int
    BY <1>1, SumStep
  <2>3. SumFunctionOnSet(f, A \cup C) = f[x] + SumFunctionOnSet(f, (A \cup C) \ {x})
    BY <1>1, SumStep
  <2>4. (A \cup C) \ {x} = A \cup (C \ {x})
    OBVIOUS
  <2>5. SumFunctionOnSet(f, A \cup (C \ {x}))
          = SumFunctionOnSet(f, A) + SumFunctionOnSet(f, C \ {x})
    BY <1>4
  <2>6. f[x] \in Int
    OBVIOUS
  <2>7. SumFunctionOnSet(f, A \cup C) = f[x] + SumFunctionOnSet(f, A \cup (C \ {x}))
    BY <2>3, <2>4
  <2>8. SumFunctionOnSet(f, A \cup C) = SumFunctionOnSet(f, A) + SumFunctionOnSet(f, C)
    BY <1>2, <2>2, <2>5, <2>6, <2>7
  <2>9. QED
    BY <2>8
<1>5. G = SUBSET B
  <2>1. G \in SUBSET (SUBSET B)
    OBVIOUS
  <2> HIDE DEF G
  <2>2. QED
    BY <1>3, <1>4, <2>1, SubsetInduction
<1>6. QED
  BY <1>5
\* Sums of naturals are naturals, and a sum is at least each of its elements.
LEMMA SumNat ==
  ASSUME NEW S, IsFiniteSet(S), NEW f, \A x \in S : f[x] \in Nat
  PROVE  /\ SumFunctionOnSet(f, S) \in Nat
         /\ \A x \in S : f[x] <= SumFunctionOnSet(f, S)
<1> DEFINE G == {A \in SUBSET S : SumFunctionOnSet(f, A) \in Nat}
<1>1. ASSUME NEW A \in SUBSET S
      PROVE  IsFiniteSet(A) /\ \A x \in A : f[x] \in Nat /\ f[x] \in Int
  BY FS_Subset
<1>2. {} \in G
  BY <1>1, SumStep
<1>3. ASSUME NEW A \in SUBSET S, A # {}, \A x \in A : A \ {x} \in G
      PROVE  A \in G
  <2>1. PICK x \in A : TRUE
    BY <1>3
  <2>2. SumFunctionOnSet(f, A) = f[x] + SumFunctionOnSet(f, A \ {x})
    BY <1>1, SumStep
  <2>3. SumFunctionOnSet(f, A \ {x}) \in Nat /\ f[x] \in Nat
    BY <1>3
  <2>4. QED
    BY <2>2, <2>3
<1>4. G = SUBSET S
  <2>1. G \in SUBSET (SUBSET S)
    OBVIOUS
  <2> HIDE DEF G
  <2>2. QED
    BY <1>2, <1>3, <2>1, SubsetInduction
<1>5. \A A \in SUBSET S : SumFunctionOnSet(f, A) \in Nat
  BY <1>4
<1>6. ASSUME NEW x \in S PROVE f[x] <= SumFunctionOnSet(f, S)
  <2>1. SumFunctionOnSet(f, S) = f[x] + SumFunctionOnSet(f, S \ {x})
    BY <1>1, SumStep
  <2>2. SumFunctionOnSet(f, S \ {x}) \in Nat /\ f[x] \in Nat
    BY <1>5
  <2>3. QED
    BY <2>1, <2>2
<1>7. QED
  BY <1>5, <1>6

\* A constant factor.
LEMMA SumScale ==
  ASSUME NEW S, IsFiniteSet(S), NEW f, NEW g, NEW k \in Int,
         \A x \in S : f[x] \in Int /\ g[x] = k * f[x]
  PROVE  SumFunctionOnSet(g, S) = k * SumFunctionOnSet(f, S)
<1> DEFINE G == {A \in SUBSET S : SumFunctionOnSet(g, A) = k * SumFunctionOnSet(f, A)}
<1>1. ASSUME NEW A \in SUBSET S
      PROVE  /\ IsFiniteSet(A)
             /\ \A x \in A : f[x] \in Int /\ g[x] \in Int /\ g[x] = k * f[x]
  BY FS_Subset
<1>2. {} \in G
  <2>1. SumFunctionOnSet(f, {}) = 0 /\ SumFunctionOnSet(g, {}) = 0
    BY <1>1, SumStep
  <2>2. QED
    BY <2>1
<1>3. ASSUME NEW A \in SUBSET S, A # {}, \A x \in A : A \ {x} \in G
      PROVE  A \in G
  <2>1. PICK x \in A : TRUE
    BY <1>3
  <2>2. /\ SumFunctionOnSet(f, A) = f[x] + SumFunctionOnSet(f, A \ {x})
        /\ SumFunctionOnSet(f, A \ {x}) \in Int
    BY <1>1, SumStep
  <2>3. SumFunctionOnSet(g, A) = g[x] + SumFunctionOnSet(g, A \ {x})
    BY <1>1, SumStep
  <2>4. SumFunctionOnSet(g, A \ {x}) = k * SumFunctionOnSet(f, A \ {x})
    BY <1>3
  <2>5. f[x] \in Int /\ g[x] = k * f[x]
    OBVIOUS
  <2>6. SumFunctionOnSet(g, A) = k * SumFunctionOnSet(f, A)
    BY <2>2, <2>3, <2>4, <2>5
  <2>7. QED
    BY <2>6
<1>4. G = SUBSET S
  <2>1. G \in SUBSET (SUBSET S)
    OBVIOUS
  <2> HIDE DEF G
  <2>2. QED
    BY <1>2, <1>3, <2>1, SubsetInduction
<1>5. QED
  BY <1>4

\* A sum with its indices renamed one to one.
LEMMA SumReindex ==
  ASSUME NEW S, IsFiniteSet(S), NEW T, IsFiniteSet(T), NEW b \in [S -> T],
         \A x, y \in S : b[x] = b[y] => x = y,
         \A t \in T : \E x \in S : b[x] = t,
         NEW f, NEW g, \A x \in S : f[b[x]] \in Int /\ g[x] = f[b[x]]
  PROVE  SumFunctionOnSet(g, S) = SumFunctionOnSet(f, T)
<1> DEFINE Im(A) == {b[x] : x \in A}
           G == {A \in SUBSET S : SumFunctionOnSet(g, A) = SumFunctionOnSet(f, Im(A))}
<1>1. ASSUME NEW A \in SUBSET S
      PROVE  /\ IsFiniteSet(A) /\ IsFiniteSet(Im(A))
             /\ \A x \in A : g[x] \in Int /\ g[x] = f[b[x]] /\ b[x] \in Im(A)
             /\ \A y \in Im(A) : f[y] \in Int
  <2>1. IsFiniteSet(A)
    BY FS_Subset
  <2>2. IsFiniteSet(Im(A))
    <3>1. Im(A) \subseteq T
      OBVIOUS
    <3> HIDE DEF Im
    <3>2. QED
      BY <3>1, FS_Subset
  <2>3. QED
    BY <2>1, <2>2
<1>2. {} \in G
  <2>1. Im({}) = {}
    OBVIOUS
  <2>2. SumFunctionOnSet(g, {}) = 0 /\ SumFunctionOnSet(f, {}) = 0
    BY <1>1, <2>1, SumStep
  <2>3. QED
    BY <2>1, <2>2
<1>3. ASSUME NEW A \in SUBSET S, A # {}, \A x \in A : A \ {x} \in G
      PROVE  A \in G
  <2>1. PICK x \in A : TRUE
    BY <1>3
  <2>2. SumFunctionOnSet(g, A) = g[x] + SumFunctionOnSet(g, A \ {x})
    <3>1. IsFiniteSet(A) /\ \A y \in A : g[y] \in Int
      BY <1>1
    <3>2. QED
      BY <3>1, SumTakeOut
  <2>3. SumFunctionOnSet(f, Im(A)) = f[b[x]] + SumFunctionOnSet(f, Im(A) \ {b[x]})
    <3>1. IsFiniteSet(Im(A)) /\ b[x] \in Im(A) /\ \A y \in Im(A) : f[y] \in Int
      BY <1>1
    <3> HIDE DEF Im
    <3>2. QED
      BY <3>1, SumStep
  <2>4. Im(A) \ {b[x]} = Im(A \ {x})
    OBVIOUS
  <2>5. SumFunctionOnSet(g, A \ {x}) = SumFunctionOnSet(f, Im(A \ {x}))
    BY <1>3
  <2>6. g[x] = f[b[x]]
    OBVIOUS
  <2>7. QED
    BY <2>2, <2>3, <2>4, <2>5, <2>6
<1>4. G = SUBSET S
  <2>1. G \in SUBSET (SUBSET S)
    OBVIOUS
  <2> HIDE DEF G, Im
  <2>2. QED
    BY <1>2, <1>3, <2>1, SubsetInduction
<1>5. SumFunctionOnSet(g, S) = SumFunctionOnSet(f, Im(S))
  BY <1>4
<1>6. Im(S) = T
  OBVIOUS
<1>7. QED
  BY <1>5, <1>6
=============================================================================
