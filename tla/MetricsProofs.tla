--------------------------- MODULE MetricsProofs ----------------------------
(***************************************************************************)
(* Proofs about the histogram and the metrics thread: no maximum is lost,  *)
(* a snapshot taken while values are recorded misses none that was there   *)
(* before it and counts none twice, its percentiles are right to the width *)
(* of a bucket, and what is published is consistent and never goes back.   *)
(***************************************************************************)
EXTENDS MetricsServer, FiniteSetTheorems, TLAPS

-----------------------------------------------------------------------------
(* Sums over a finite set are natural numbers, grow with the function, and *)
(* grow by one when one value does.  The induction over the set is a       *)
(* search for a minimal counterexample, which needs no operator as a       *)
(* parameter.                                                              *)

\* The element that the fold of the library takes out next.
pick(s) == CHOOSE x \in s : TRUE

\* What the fold makes of a subset, given what it makes of smaller ones.
SumStep(g, f, s) == IF s = {} THEN 0 ELSE f[pick(s)] + g[s \ {pick(s)}]

\* g is the recursive function behind SumFunctionOnSet(f, S).
IsSum(g, f, S) == g = [s \in SUBSET S |-> SumStep(g, f, s)]

\* A set of subsets of a finite set has a minimal member.
LEMMA MinimalSubset ==
  ASSUME NEW S, IsFiniteSet(S), NEW Bad, Bad \subseteq SUBSET S, Bad # {}
  PROVE  \E s \in Bad : \A t \in Bad : ~(t \subseteq s /\ t # s)
  <1>1. Bad \subseteq FiniteSubsetsOf(S)
    BY FS_Subset DEF FiniteSubsetsOf
  <1>2. \E s \in Bad : \A t \in Bad : ~(<<t, s>> \in StrictSubsetOrdering(S))
    BY <1>1, FS_StrictSubsetOrderingWellFounded, WFMin
  <1> QED BY <1>2 DEF StrictSubsetOrdering

\* A set of natural numbers has a least member.
LEMMA LeastNatural ==
  ASSUME NEW Bad, Bad \subseteq Nat, Bad # {}
  PROVE  \E n \in Bad : \A m \in Bad : n <= m
  <1>1. \A m, n \in Nat : m < n => <<m, n>> \in OpToRel(<, Nat)
    BY Zenon DEF OpToRel
  <1>2. PICK n \in Bad : \A m \in Bad : ~(<<m, n>> \in OpToRel(<, Nat))
    BY NatLessThanWellFounded, WFMin
  <1>3. \A m \in Bad : ~(m < n)
    BY <1>1, <1>2, Zenon
  <1>4. \A m \in Bad : n <= m
    BY <1>3
  <1> QED BY <1>4

\* What is taken out makes the set smaller.
LEMMA PickFacts ==
  ASSUME NEW S, IsFiniteSet(S), NEW s \in SUBSET S, s # {}
  PROVE  /\ pick(s) \in s /\ s \ {pick(s)} \in SUBSET S
         /\ s \ {pick(s)} \subseteq s /\ s \ {pick(s)} # s
         /\ IsFiniteSet(s) /\ Cardinality(s) \in Nat
         /\ Cardinality(s \ {pick(s)}) \in Nat
         /\ Cardinality(s \ {pick(s)}) = Cardinality(s) - 1
  <1>1. pick(s) \in s
    BY DEF pick
  <1>2. IsFiniteSet(s)
    BY FS_Subset
  <1>3. /\ IsFiniteSet(s \ {pick(s)})
        /\ Cardinality(s \ {pick(s)}) = Cardinality(s) - 1
    BY <1>1, <1>2, FS_RemoveElement
  <1> QED BY <1>1, <1>2, <1>3, FS_CardinalityType

\* The recursion of the fold has a solution.
LEMMA SumExists ==
  ASSUME NEW f, NEW S, IsFiniteSet(S)
  PROVE  \E g : IsSum(g, f, S)
  <1> DEFINE Upto(g, n) == \A s \in SUBSET S :
                             Cardinality(s) <= n => g[s] = SumStep(g, f, s)
             Solved(n) == \E g : g = [s \in SUBSET S |-> g[s]] /\ Upto(g, n)
             Bad == {n \in Nat : ~Solved(n)}
  <1>0. \A s \in SUBSET S : IsFiniteSet(s) /\ Cardinality(s) \in Nat
    BY FS_Subset, FS_CardinalityType
  <1>1. Solved(0)
    <2> DEFINE g == [s \in SUBSET S |-> 0]
    <2>1. ASSUME NEW s \in SUBSET S, Cardinality(s) <= 0 PROVE g[s] = SumStep(g, f, s)
      <3>1. Cardinality(s) = 0
        BY <1>0, <2>1
      <3>2. s = {}
        BY <1>0, <3>1, FS_EmptySet
      <3> QED BY <3>2 DEF SumStep
    <2>2. g = [s \in SUBSET S |-> g[s]]
      OBVIOUS
    <2> QED BY <2>1, <2>2
  <1>2. ASSUME NEW n \in Nat, Solved(n) PROVE Solved(n + 1)
    <2>1. PICK g : g = [s \in SUBSET S |-> g[s]] /\ Upto(g, n)
      BY <1>2
    <2> DEFINE h == [s \in SUBSET S |-> SumStep(g, f, s)]
    <2>2. \A s \in SUBSET S : Cardinality(s) <= n => h[s] = g[s]
      BY <2>1
    <2>3. ASSUME NEW s \in SUBSET S, Cardinality(s) <= n + 1, s # {}
          PROVE  h[s \ {pick(s)}] = g[s \ {pick(s)}]
      <3>1. s \ {pick(s)} \in SUBSET S /\ Cardinality(s \ {pick(s)}) <= n
        BY <2>3, PickFacts
      <3> QED BY <2>2, <3>1
    <2>4. Upto(h, n + 1)
      BY <2>3 DEF SumStep
    <2>5. h = [s \in SUBSET S |-> h[s]]
      OBVIOUS
    <2> HIDE DEF h
    <2> QED BY <2>4, <2>5
  <1>3. Bad = {}
    <2> SUFFICES ASSUME Bad # {} PROVE FALSE
      OBVIOUS
    <2>1. PICK n \in Bad : \A m \in Bad : n <= m
      BY LeastNatural
    <2>2. n \in Nat /\ ~Solved(n)
      OBVIOUS
    <2> HIDE DEF Solved
    <2>3. n # 0
      BY <1>1, <2>2
    <2>4. n - 1 \in Nat /\ ~(n <= n - 1) /\ (n - 1) + 1 = n
      BY <2>2, <2>3
    <2>5. Solved(n - 1)
      BY <2>1, <2>4
    <2> QED BY <1>2, <2>2, <2>4, <2>5
  <1>4. Solved(Cardinality(S))
    <2>1. Cardinality(S) \in Nat
      BY FS_CardinalityType
    <2> HIDE DEF Solved
    <2> QED BY <1>3, <2>1
  <1>5. PICK g : g = [s \in SUBSET S |-> g[s]] /\ Upto(g, Cardinality(S))
    BY <1>4
  <1>6. \A s \in SUBSET S : g[s] = SumStep(g, f, s)
    BY <1>5, FS_Subset
  <1>7. g = [s \in SUBSET S |-> SumStep(g, f, s)]
    BY <1>5, <1>6
  <1> QED BY <1>7 DEF IsSum

\* SumFunctionOnSet is that solution, at the whole set.
LEMMA SumIsFold ==
  ASSUME NEW f, NEW S, IsFiniteSet(S)
  PROVE  \E g : IsSum(g, f, S) /\ SumFunctionOnSet(f, S) = g[S]
  <1> DEFINE iter == CHOOSE g : IsSum(g, f, S)
  <1>1. IsSum(iter, f, S)
    BY SumExists
  <1>2. SumFunctionOnSet(f, S) = iter[S]
    BY DEF SumFunctionOnSet, FoldFunctionOnSet, MapThenFoldSet, IsSum, SumStep, pick
  <1> QED BY <1>1, <1>2

\* One turn of the recursion, for any subset.
LEMMA SumTurn ==
  ASSUME NEW f, NEW S, NEW g, IsFiniteSet(S), IsSum(g, f, S), NEW s \in SUBSET S
  PROVE  /\ s = {} => g[s] = 0
         /\ s # {} => /\ g[s] = f[pick(s)] + g[s \ {pick(s)}]
                      /\ pick(s) \in s /\ pick(s) \in S
                      /\ s \ {pick(s)} \in SUBSET S
                      /\ s \ {pick(s)} \subseteq s /\ s \ {pick(s)} # s
  <1>1. g[s] = SumStep(g, f, s)
    BY DEF IsSum
  <1> QED BY <1>1, PickFacts DEF SumStep

\* The sum over nothing.
LEMMA SumOfEmpty ==
  ASSUME NEW f, NEW S, NEW g, IsSum(g, f, S)
  PROVE  g[{}] = 0
  <1>1. {} \in SUBSET S
    OBVIOUS
  <1>2. g[{}] = SumStep(g, f, {})
    BY <1>1 DEF IsSum
  <1> QED BY <1>2 DEF SumStep

\* Sums of natural numbers are natural numbers.
LEMMA SumNat ==
  ASSUME NEW S, IsFiniteSet(S), NEW f, \A x \in S : f[x] \in Nat
  PROVE  SumFunctionOnSet(f, S) \in Nat
  <1>1. PICK g : IsSum(g, f, S) /\ SumFunctionOnSet(f, S) = g[S]
    BY SumIsFold
  <1> DEFINE Bad == {s \in SUBSET S : g[s] \notin Nat}
  <1>2. Bad = {}
    <2> SUFFICES ASSUME Bad # {} PROVE FALSE
      OBVIOUS
    <2>0. Bad \subseteq SUBSET S
      OBVIOUS
    <2>1. PICK s \in Bad : \A t \in Bad : ~(t \subseteq s /\ t # s)
      <3> HIDE DEF Bad
      <3> QED BY <2>0, MinimalSubset
    <2>2. s \in SUBSET S /\ g[s] \notin Nat
      OBVIOUS
    <2>3. /\ s # {} /\ g[s] = f[pick(s)] + g[s \ {pick(s)}] /\ pick(s) \in S
          /\ s \ {pick(s)} \in SUBSET S
          /\ s \ {pick(s)} \subseteq s /\ s \ {pick(s)} # s
      BY <1>1, <2>2, SumTurn
    <2>4. g[s \ {pick(s)}] \in Nat
      BY <2>1, <2>3
    <2> QED BY <2>2, <2>3, <2>4
  <1> QED BY <1>1, <1>2

\* A function that is nowhere smaller has no smaller sum.
LEMMA SumMonotone ==
  ASSUME NEW S, IsFiniteSet(S), NEW f1, NEW f2,
         \A x \in S : f1[x] \in Nat /\ f2[x] \in Nat /\ f1[x] <= f2[x]
  PROVE  SumFunctionOnSet(f1, S) <= SumFunctionOnSet(f2, S)
  <1>1. PICK g1 : IsSum(g1, f1, S) /\ SumFunctionOnSet(f1, S) = g1[S]
    BY SumIsFold
  <1>2. PICK g2 : IsSum(g2, f2, S) /\ SumFunctionOnSet(f2, S) = g2[S]
    BY SumIsFold
  <1> DEFINE Good(s) == g1[s] \in Nat /\ g2[s] \in Nat /\ g1[s] <= g2[s]
             Bad == {s \in SUBSET S : ~Good(s)}
  <1>3. Bad = {}
    <2> SUFFICES ASSUME Bad # {} PROVE FALSE
      OBVIOUS
    <2>0. Bad \subseteq SUBSET S
      OBVIOUS
    <2>1. PICK s \in Bad : \A t \in Bad : ~(t \subseteq s /\ t # s)
      <3> HIDE DEF Bad
      <3> QED BY <2>0, MinimalSubset
    <2>2. s \in SUBSET S /\ ~Good(s)
      OBVIOUS
    <2>3. CASE s = {}
      <3>1. g1[s] = 0
        BY <1>1, <2>3, SumOfEmpty
      <3>2. g2[s] = 0
        BY <1>2, <2>3, SumOfEmpty
      <3> QED BY <2>2, <3>1, <3>2
    <2>4. CASE s # {}
      <3> DEFINE p == pick(s)
                 t == s \ {p}
      <3>1. /\ g1[s] = f1[p] + g1[t] /\ g2[s] = f2[p] + g2[t]
            /\ p \in S /\ t \in SUBSET S /\ t \subseteq s /\ t # s
        BY <1>1, <1>2, <2>2, <2>4, SumTurn
      <3>2. Good(t)
        BY <2>1, <3>1
      <3> HIDE DEF p, t
      <3> QED BY <2>2, <3>1, <3>2
    <2> QED BY <2>3, <2>4
  <1> QED BY <1>1, <1>2, <1>3

\* One value that grows by one makes the sum grow by one.
LEMMA SumIncrement ==
  ASSUME NEW S, IsFiniteSet(S), NEW f1, NEW f2, NEW a \in S,
         \A x \in S : f1[x] \in Nat /\ f2[x] = IF x = a THEN f1[x] + 1 ELSE f1[x]
  PROVE  SumFunctionOnSet(f2, S) = SumFunctionOnSet(f1, S) + 1
  <1>1. PICK g1 : IsSum(g1, f1, S) /\ SumFunctionOnSet(f1, S) = g1[S]
    BY SumIsFold
  <1>2. PICK g2 : IsSum(g2, f2, S) /\ SumFunctionOnSet(f2, S) = g2[S]
    BY SumIsFold
  <1> DEFINE Good(s) == /\ g1[s] \in Nat
                        /\ g2[s] = IF a \in s THEN g1[s] + 1 ELSE g1[s]
             Bad == {s \in SUBSET S : ~Good(s)}
  <1>3. Bad = {}
    <2> SUFFICES ASSUME Bad # {} PROVE FALSE
      OBVIOUS
    <2>0. Bad \subseteq SUBSET S
      OBVIOUS
    <2>1. PICK s \in Bad : \A t \in Bad : ~(t \subseteq s /\ t # s)
      <3> HIDE DEF Bad
      <3> QED BY <2>0, MinimalSubset
    <2>2. s \in SUBSET S /\ ~Good(s)
      OBVIOUS
    <2>3. CASE s = {}
      <3>1. g1[s] = 0
        BY <1>1, <2>3, SumOfEmpty
      <3>2. g2[s] = 0
        BY <1>2, <2>3, SumOfEmpty
      <3> QED BY <2>2, <2>3, <3>1, <3>2
    <2>4. CASE s # {}
      <3> DEFINE p == pick(s)
                 t == s \ {p}
      <3>1. /\ g1[s] = f1[p] + g1[t] /\ g2[s] = f2[p] + g2[t]
            /\ p \in S /\ t \in SUBSET S /\ t \subseteq s /\ t # s
        BY <1>1, <1>2, <2>2, <2>4, SumTurn
      <3>2. Good(t)
        BY <2>1, <3>1
      <3>3. p \in s /\ (a \in t <=> a \in s /\ a # p)
        BY <1>1, <2>2, <2>4, SumTurn
      <3> HIDE DEF p, t
      <3> QED BY <2>2, <3>1, <3>2, <3>3
    <2> QED BY <2>3, <2>4
  <1> QED BY <1>1, <1>2, <1>3

\* A sum of zeros.
LEMMA SumZero ==
  ASSUME NEW S, IsFiniteSet(S), NEW f, \A x \in S : f[x] = 0
  PROVE  SumFunctionOnSet(f, S) = 0
  <1>1. PICK g : IsSum(g, f, S) /\ SumFunctionOnSet(f, S) = g[S]
    BY SumIsFold
  <1> DEFINE Bad == {s \in SUBSET S : g[s] # 0}
  <1>2. Bad = {}
    <2> SUFFICES ASSUME Bad # {} PROVE FALSE
      OBVIOUS
    <2>0. Bad \subseteq SUBSET S
      OBVIOUS
    <2>1. PICK s \in Bad : \A t \in Bad : ~(t \subseteq s /\ t # s)
      <3> HIDE DEF Bad
      <3> QED BY <2>0, MinimalSubset
    <2>2. s \in SUBSET S /\ g[s] # 0
      OBVIOUS
    <2>3. /\ s # {} /\ g[s] = f[pick(s)] + g[s \ {pick(s)}] /\ pick(s) \in S
          /\ s \ {pick(s)} \in SUBSET S
          /\ s \ {pick(s)} \subseteq s /\ s \ {pick(s)} # s
      BY <1>1, <2>2, SumTurn
    <2>4. g[s \ {pick(s)}] = 0
      BY <2>1, <2>3
    <2> QED BY <2>2, <2>3, <2>4
  <1> QED BY <1>1, <1>2

\* Functions that agree have the same sum.
LEMMA SumEqual ==
  ASSUME NEW S, IsFiniteSet(S), NEW f1, NEW f2,
         \A x \in S : f1[x] \in Nat /\ f1[x] = f2[x]
  PROVE  SumFunctionOnSet(f1, S) = SumFunctionOnSet(f2, S)
  <1>1. SumFunctionOnSet(f1, S) \in Nat /\ SumFunctionOnSet(f2, S) \in Nat
    BY SumNat
  <1>2. /\ SumFunctionOnSet(f1, S) <= SumFunctionOnSet(f2, S)
        /\ SumFunctionOnSet(f2, S) <= SumFunctionOnSet(f1, S)
    BY SumMonotone
  <1> QED BY <1>1, <1>2

\* The order in which the fold takes the elements out does not matter.
LEMMA SumAnyOrder ==
  ASSUME NEW S, IsFiniteSet(S), NEW f, \A x \in S : f[x] \in Nat, NEW g, IsSum(g, f, S)
  PROVE  \A s \in SUBSET S : /\ g[s] \in Nat
                             /\ \A p \in s : g[s] = f[p] + g[s \ {p}]
  <1> DEFINE Good(s) == g[s] \in Nat /\ \A p \in s : g[s] = f[p] + g[s \ {p}]
             Bad == {s \in SUBSET S : ~Good(s)}
  <1>1. Bad = {}
    <2> SUFFICES ASSUME Bad # {} PROVE FALSE
      OBVIOUS
    <2>0. Bad \subseteq SUBSET S
      OBVIOUS
    <2>1. PICK s \in Bad : \A t \in Bad : ~(t \subseteq s /\ t # s)
      <3> HIDE DEF Bad
      <3> QED BY <2>0, MinimalSubset
    <2>2. s \in SUBSET S /\ ~Good(s)
      OBVIOUS
    <2>3. \A t \in SUBSET S : t \subseteq s /\ t # s => Good(t)
      BY <2>1
    <2>4. s # {}
      <3> SUFFICES ASSUME s = {} PROVE FALSE
        OBVIOUS
      <3>1. g[s] = 0
        BY SumOfEmpty
      <3> QED BY <2>2, <3>1
    <2> DEFINE c == pick(s)
    <2>5. c \in s /\ c \in S /\ g[s] = f[c] + g[s \ {c}]
      BY <2>2, <2>4, SumTurn
    <2> HIDE DEF c
    <2>6. Good(s \ {c}) /\ f[c] \in Nat
      BY <2>2, <2>3, <2>5
    <2>7. ASSUME NEW p \in s PROVE g[s] = f[p] + g[s \ {p}]
      <3>1. CASE p = c
        BY <2>5, <3>1
      <3>2. CASE p # c
        <4> DEFINE u == (s \ {c}) \ {p}
        <4>1. u = (s \ {p}) \ {c}
          OBVIOUS
        <4>2. Good(s \ {p}) /\ Good(u) /\ f[p] \in Nat
          BY <2>2, <2>3, <2>7
        <4>3. g[s \ {c}] = f[p] + g[u]
          BY <2>6, <2>7, <3>2
        <4>4. g[s \ {p}] = f[c] + g[u]
          BY <2>5, <3>2, <4>1, <4>2
        <4>5. g[u] \in Nat
          BY <4>2
        <4> HIDE DEF u
        <4> QED BY <2>5, <2>6, <4>2, <4>3, <4>4, <4>5
      <3> QED BY <3>1, <3>2
    <2>8. g[s] \in Nat
      BY <2>5, <2>6
    <2> QED BY <2>2, <2>7, <2>8
  <1> QED BY <1>1

\* The sum over a part is no more than the whole.
LEMMA SumSubset ==
  ASSUME NEW S, IsFiniteSet(S), NEW f, \A x \in S : f[x] \in Nat, NEW T \in SUBSET S
  PROVE  SumFunctionOnSet(f, T) <= SumFunctionOnSet(f, S)
  <1>0. IsFiniteSet(T) /\ \A x \in T : f[x] \in Nat
    BY FS_Subset
  <1>1. PICK g : IsSum(g, f, S) /\ SumFunctionOnSet(f, S) = g[S]
    BY SumIsFold
  <1>2. PICK h : IsSum(h, f, T) /\ SumFunctionOnSet(f, T) = h[T]
    BY <1>0, SumIsFold
  <1>3. \A s \in SUBSET S : g[s] \in Nat /\ \A p \in s : g[s] = f[p] + g[s \ {p}]
    BY <1>1, SumAnyOrder
  <1>4. \A s \in SUBSET T : h[s] = g[s]
    <2> DEFINE Bad == {s \in SUBSET T : h[s] # g[s]}
    <2>1. Bad = {}
      <3> SUFFICES ASSUME Bad # {} PROVE FALSE
        OBVIOUS
      <3>0. Bad \subseteq SUBSET T
        OBVIOUS
      <3>1. PICK s \in Bad : \A t \in Bad : ~(t \subseteq s /\ t # s)
        <4> HIDE DEF Bad
        <4> QED BY <1>0, <3>0, MinimalSubset
      <3>2. s \in SUBSET T /\ s \in SUBSET S /\ h[s] # g[s]
        OBVIOUS
      <3>3. s # {}
        <4> SUFFICES ASSUME s = {} PROVE FALSE
          OBVIOUS
        <4>1. g[s] = 0
          BY <1>1, SumOfEmpty
        <4>2. h[s] = 0
          BY <1>2, SumOfEmpty
        <4> QED BY <3>2, <4>1, <4>2
      <3>4. /\ h[s] = f[pick(s)] + h[s \ {pick(s)}]
            /\ s \ {pick(s)} \in SUBSET T
            /\ s \ {pick(s)} \subseteq s /\ s \ {pick(s)} # s
        BY <1>0, <1>2, <3>2, <3>3, SumTurn
      <3>5. g[s] = f[pick(s)] + g[s \ {pick(s)}]
        BY <1>1, <3>2, <3>3, SumTurn
      <3>6. h[s \ {pick(s)}] = g[s \ {pick(s)}]
        BY <3>1, <3>4
      <3> QED BY <3>2, <3>4, <3>5, <3>6
    <2> QED BY <2>1
  <1>5. g[T] <= g[S]
    <2> DEFINE Bad == {s \in SUBSET S : T \subseteq s /\ ~(g[T] <= g[s])}
    <2>1. Bad = {}
      <3> SUFFICES ASSUME Bad # {} PROVE FALSE
        OBVIOUS
      <3>0. Bad \subseteq SUBSET S
        OBVIOUS
      <3>1. PICK s \in Bad : \A t \in Bad : ~(t \subseteq s /\ t # s)
        <4> HIDE DEF Bad
        <4> QED BY <3>0, MinimalSubset
      <3>2. s \in SUBSET S /\ T \subseteq s /\ ~(g[T] <= g[s])
        OBVIOUS
      <3>3. g[T] \in Nat /\ g[s] \in Nat
        BY <1>3, <3>2
      <3>4. s # T
        BY <3>2, <3>3
      <3>5. PICK p \in s : p \notin T
        BY <3>2, <3>4
      <3> DEFINE t == s \ {p}
      <3>6. t \in SUBSET S /\ T \subseteq t /\ t \subseteq s /\ t # s
        BY <3>2, <3>5
      <3>7. g[s] = f[p] + g[t] /\ g[t] \in Nat /\ f[p] \in Nat
        BY <1>3, <3>2, <3>6
      <3>8. g[T] <= g[t]
        BY <3>1, <3>6
      <3> HIDE DEF t
      <3> QED BY <3>2, <3>3, <3>7, <3>8
    <2> QED BY <2>1
  <1> QED BY <1>1, <1>2, <1>4, <1>5
-----------------------------------------------------------------------------
(* The histogram and the metrics thread.                                   *)

\* There are finitely many clamped values, and so finitely many buckets.
LEMMA FiniteData ==
  /\ Clamped \subseteq Nat /\ IsFiniteSet(Clamped) /\ IsFiniteSet(Buckets)
  /\ MaxSize \in Nat /\ MaxUpdates \in Nat
  <1>1. Clamped \subseteq Nat
    BY HistogramAssumption DEF Clamped, clamp
  <1> DEFINE top == 2 ^ 29
  <1>2. top \in Nat
    OBVIOUS
  <1>3. \A ns \in Values : ns \in Int /\ ns < top
    BY HistogramAssumption
  <1> HIDE DEF top
  <1>4. \A ns \in Clamped : ns <= top
    BY <1>2, <1>3 DEF Clamped, clamp
  <1>5. IsFiniteSet(Clamped)
    BY <1>1, <1>2, <1>4, FS_BoundedSetOfNaturals
  <1>6. IsFiniteSet(Buckets)
    <2> DEFINE f == [ns \in Clamped |-> bucket(ns)]
    <2>1. f \in Surjection(Clamped, Buckets)
      BY DEF Surjection, Buckets
    <2> QED BY <1>5, <2>1, FS_Surjection
  <1> QED BY <1>1, <1>5, <1>6, ServerAssumption

\* The sums that the module takes.
LEMMA HistogramSums ==
  ASSUME recorded \in [Clamped -> Nat], buckets \in [Buckets -> Nat]
  PROVE  /\ SumFunction(recorded) \in Nat /\ SumFunction(buckets) \in Nat
         /\ SumFunction(recorded) = SumFunctionOnSet(recorded, Clamped)
         /\ SumFunction(buckets) = SumFunctionOnSet(buckets, Buckets)
  <1>1. /\ SumFunction(recorded) = SumFunctionOnSet(recorded, Clamped)
        /\ SumFunction(buckets) = SumFunctionOnSet(buckets, Buckets)
    BY DEF SumFunction
  <1>2. /\ SumFunctionOnSet(recorded, Clamped) \in Nat
        /\ SumFunctionOnSet(buckets, Buckets) \in Nat
    BY FiniteData, SumNat
  <1> QED BY <1>1, <1>2

\* The counters, one by one.
LEMMA CounterFacts ==
  /\ Counters = {"md", "md_dropped", "execs"} /\ Len(CounterOrder) = 3
  /\ CounterOrder[1] = "md" /\ CounterOrder[2] = "md_dropped"
  /\ CounterOrder[3] = "execs"
  BY DEF Counters, CounterOrder, Range
-----------------------------------------------------------------------------
(* Initially.                                                              *)

\* Nothing is recorded, counted or published.
LEMMA MetricsInit == Init => TypeOK /\ MetricsInv
  <1> SUFFICES ASSUME Init PROVE TypeOK /\ MetricsInv
    OBVIOUS
  <1>1. /\ recorded = [ns \in Clamped |-> 0] /\ buckets = [i \in Buckets |-> 0]
        /\ max_ = 0 /\ rec = [r \in Recorders |-> idle] /\ local = nothing_read
        /\ last = none /\ before = 0
    BY DEF Init, HistogramInit
  <1>2. DOMAIN local = {}
    BY <1>1 DEF nothing_read
  <1>3. RecordInv
    <2>1. idle \in Call /\ idle.pc = "idle"
      BY DEF idle, Call
    <2>2. rec \in [Recorders -> Call] /\ \A r \in Recorders : rec[r] = idle
      BY <1>1, <2>1
    <2>3. recorded \in [Clamped -> Nat] /\ \A ns \in Clamped : recorded[ns] = 0
      BY <1>1
    <2> QED BY <1>1, <2>1, <2>2, <2>3 DEF RecordInv
  <1>4. SnapshotInv
    <2>1. /\ SumFunctionOnSet(recorded, Clamped) = 0
          /\ SumFunctionOnSet(buckets, Buckets) = 0
      BY <1>1, SumZero, FiniteData
    <2>2. SumFunction(buckets) = 0 /\ SumFunction(recorded) = 0
      BY <1>1, <2>1 DEF SumFunction
    <2>3. spc = "test" /\ last.max = 0 /\ max_ = 0
      BY <1>1 DEF Init, none
    <2> QED BY <1>2, <2>2, <2>3 DEF SnapshotInv, SnapshotBetween
  <1>5. /\ totals = [c \in Counters |-> 0] /\ published = [c \in Counters |-> 0]
        /\ queue_max = 0 /\ reader = "idle" /\ at = 1 /\ md = 0 /\ last_md = 0
        /\ spc = "test" /\ backlog = 0 /\ tps_sum = 0
    BY DEF Init
  <1>6. RoundInv
    BY <1>5, CounterFacts DEF RoundInv
  <1>7. HistogramTypeOK
    <2>1. last.count = 0 /\ \A r \in Recorders : rec[r].pc = "idle"
      BY <1>1 DEF none, idle
    <2>2. buckets \in [Buckets -> Nat]
      BY <1>1
    <2> QED BY <1>1, <1>2, <2>1, <2>2 DEF HistogramTypeOK
  <1>8. TypeOK
    <2>1. /\ totals \in [Counters -> 0 .. MaxUpdates]
          /\ published \in [Counters -> 0 .. MaxUpdates]
      BY <1>5, FiniteData
    <2> QED BY <1>5, <1>7, <2>1, FiniteData, CounterFacts DEF Init, TypeOK
  <1> QED BY <1>3, <1>4, <1>6, <1>8 DEF MetricsInv
-----------------------------------------------------------------------------
(* record().                                                               *)

\* The comparison at the top of the CAS loop: the thread leaves it only when
\* max_ has reached its value.
LEMMA CompareKeeps ==
  ASSUME RecordInv, max_ \in Clamped \cup {0}, NEW r \in Recorders, rec[r].pc # "idle",
         compare(r, max_), UNCHANGED <<max_, recorded>>
  PROVE  RecordInv'
  <1> DEFINE c == rec[r]
             d == rec'[r]
  <1>1. c \in Call /\ c.ns \in Clamped /\ recorded[c.ns] > 0 /\ rec \in [Recorders -> Call]
    BY DEF RecordInv
  <1>2. /\ d = IF c.ns > max_ THEN [c EXCEPT !.pc = "cas", !.cur = max_] ELSE idle
        /\ rec' = [rec EXCEPT ![r] = d]
        /\ \A q \in Recorders : q # r => rec'[q] = rec[q]
    BY <1>1 DEF compare
  <1>3. c.ns \in Nat /\ max_ \in Nat
    <2>1. \A v \in Clamped \cup {0} : v \in Nat
      BY FiniteData
    <2> QED BY <1>1, <2>1
  <1>4. \/ /\ d.pc = "cas" /\ d.cur < d.ns /\ d.ns = c.ns /\ d \in Call
        \/ /\ d = idle /\ d.pc = "idle" /\ d \in Call /\ c.ns <= max_
    <2>1. CASE c.ns > max_
      <3>1. d = [c EXCEPT !.pc = "cas", !.cur = max_]
        BY <1>2, <2>1
      <3>2. d.pc = "cas" /\ d.cur = max_ /\ d.ns = c.ns /\ d \in Call
        BY <1>1, <3>1 DEF Call
      <3> QED BY <1>3, <2>1, <3>2
    <2>2. CASE ~(c.ns > max_)
      BY <1>2, <1>3, <2>2 DEF idle, Call
    <2> QED BY <2>1, <2>2
  <1> HIDE DEF c, d
  <1>5. rec' \in [Recorders -> Call]
    BY <1>1, <1>2, <1>4
  <1>6. ASSUME NEW q \in Recorders
        PROVE  /\ rec'[q].pc = "idle" => rec'[q] = idle
               /\ rec'[q].pc # "idle" => rec'[q].ns \in Clamped /\ recorded[rec'[q].ns] > 0
               /\ rec'[q].pc = "cas" => rec'[q].cur < rec'[q].ns
    <2>1. CASE q = r
      BY <1>1, <1>4, <2>1 DEF d
    <2>2. CASE q # r
      BY <1>2, <2>2 DEF RecordInv
    <2> QED BY <2>1, <2>2
  <1>7. ASSUME NEW ns \in Clamped, recorded[ns] > 0
        PROVE  \/ ns <= max_
               \/ \E q \in Recorders : rec'[q].pc # "idle" /\ rec'[q].ns = ns
    <2>1. CASE ns <= max_
      BY <2>1
    <2>2. CASE \E q \in Recorders : rec[q].pc # "idle" /\ rec[q].ns = ns
      <3>1. PICK q \in Recorders : rec[q].pc # "idle" /\ rec[q].ns = ns
        BY <2>2
      <3>2. CASE q = r
        BY <1>4, <3>1, <3>2 DEF c, d
      <3>3. CASE q # r
        BY <1>2, <3>1, <3>3
      <3> QED BY <3>2, <3>3
    <2> QED BY <1>7, <2>1, <2>2 DEF RecordInv
  <1> QED BY <1>5, <1>6, <1>7 DEF RecordInv

\* A value is recorded: it is in the hands of the thread.
LEMMA BucketKeeps ==
  ASSUME RecordInv, max_ \in Clamped \cup {0}, NEW r \in Recorders,
         NEW value \in Values, RecordBucket(r, value)
  PROVE  RecordInv'
  <1> DEFINE ns == clamp(value)
             d == [pc |-> "load", ns |-> ns, cur |-> 0]
  <1>1. ns \in Clamped
    BY DEF Clamped
  <1>2. /\ recorded' = [recorded EXCEPT ![ns] = @ + 1]
        /\ rec' = [rec EXCEPT ![r] = d]
        /\ UNCHANGED max_ /\ rec[r].pc = "idle"
    BY DEF RecordBucket
  <1>3. d \in Call /\ d.pc = "load" /\ d.ns = ns
    BY <1>1 DEF Call
  <1> HIDE DEF ns, d
  <1>4. recorded \in [Clamped -> Nat] /\ rec \in [Recorders -> Call]
    BY DEF RecordInv
  <1>5. /\ recorded' \in [Clamped -> Nat]
        /\ recorded'[ns] > 0
        /\ \A m \in Clamped : recorded[m] > 0 => recorded'[m] > 0
        /\ \A m \in Clamped : recorded'[m] > 0 => m = ns \/ recorded[m] > 0
    BY <1>1, <1>2, <1>4
  <1>6. /\ rec' \in [Recorders -> Call] /\ rec'[r] = d
        /\ \A q \in Recorders : q # r => rec'[q] = rec[q]
    BY <1>2, <1>3, <1>4
  <1>7. ASSUME NEW q \in Recorders
        PROVE  /\ rec'[q].pc = "idle" => rec'[q] = idle
               /\ rec'[q].pc # "idle" => rec'[q].ns \in Clamped /\ recorded'[rec'[q].ns] > 0
               /\ rec'[q].pc = "cas" => rec'[q].cur < rec'[q].ns
    <2>1. CASE q = r
      BY <1>1, <1>3, <1>5, <1>6, <2>1
    <2>2. CASE q # r
      <3>1. /\ rec[q].pc = "idle" => rec[q] = idle
            /\ rec[q].pc # "idle" => rec[q].ns \in Clamped /\ recorded[rec[q].ns] > 0
            /\ rec[q].pc = "cas" => rec[q].cur < rec[q].ns
        BY DEF RecordInv
      <3> QED BY <1>5, <1>6, <2>2, <3>1
    <2> QED BY <2>1, <2>2
  <1>8. max_' # 0 => recorded'[max_'] > 0
    BY <1>2, <1>5 DEF RecordInv
  <1>9. ASSUME NEW m \in Clamped, recorded'[m] > 0
        PROVE  \/ m <= max_'
               \/ \E q \in Recorders : rec'[q].pc # "idle" /\ rec'[q].ns = m
    <2>1. CASE m = ns
      BY <1>3, <1>6, <2>1
    <2>2. CASE recorded[m] > 0
      <3>1. CASE m <= max_
        BY <1>2, <3>1
      <3>2. CASE \E q \in Recorders : rec[q].pc # "idle" /\ rec[q].ns = m
        BY <1>2, <1>6, <3>2
      <3> QED BY <2>2, <3>1, <3>2 DEF RecordInv
    <2> QED BY <1>5, <1>9, <2>1, <2>2
  <1> QED BY <1>5, <1>6, <1>7, <1>8, <1>9 DEF RecordInv

\* The exchange succeeds: max_ takes the value, and the value covers max_.
LEMMA ExchangeKeeps ==
  ASSUME RecordInv, max_ \in Clamped \cup {0}, NEW r \in Recorders, rec[r].pc = "cas",
         max_ = rec[r].cur, max_' = rec[r].ns, rec' = [rec EXCEPT ![r] = idle],
         UNCHANGED recorded
  PROVE  RecordInv' /\ max_ < max_' /\ max_' \in Clamped
  <1>1. /\ recorded \in [Clamped -> Nat] /\ rec \in [Recorders -> Call]
        /\ rec[r].ns \in Clamped /\ recorded[rec[r].ns] > 0 /\ rec[r].cur < rec[r].ns
    BY DEF RecordInv
  <1>2. idle \in Call /\ idle.pc = "idle"
    BY DEF idle, Call
  <1>3. /\ rec' \in [Recorders -> Call] /\ rec'[r] = idle
        /\ \A q \in Recorders : q # r => rec'[q] = rec[q]
    BY <1>1, <1>2
  <1>4. \A v \in Clamped \cup {0} : v \in Nat
    BY FiniteData
  <1>5. max_ < max_' /\ max_ \in Nat /\ max_' \in Nat /\ max_' \in Clamped
        /\ recorded'[max_'] > 0
    BY <1>1, <1>4
  <1>6. ASSUME NEW q \in Recorders
        PROVE  /\ rec'[q].pc = "idle" => rec'[q] = idle
               /\ rec'[q].pc # "idle" => rec'[q].ns \in Clamped /\ recorded[rec'[q].ns] > 0
               /\ rec'[q].pc = "cas" => rec'[q].cur < rec'[q].ns
    <2>1. CASE q = r
      BY <1>2, <1>3, <2>1
    <2>2. CASE q # r
      BY <1>3, <2>2 DEF RecordInv
    <2> QED BY <2>1, <2>2
  <1>7. ASSUME NEW m \in Clamped, recorded[m] > 0
        PROVE  \/ m <= max_'
               \/ \E q \in Recorders : rec'[q].pc # "idle" /\ rec'[q].ns = m
    <2>1. CASE m <= max_
      BY <1>4, <1>5, <2>1
    <2>2. CASE \E q \in Recorders : rec[q].pc # "idle" /\ rec[q].ns = m
      <3>1. PICK q \in Recorders : rec[q].pc # "idle" /\ rec[q].ns = m
        BY <2>2
      <3>2. CASE q = r
        BY <1>4, <1>5, <3>1, <3>2
      <3>3. CASE q # r
        BY <1>3, <3>1, <3>3
      <3> QED BY <3>2, <3>3
    <2> QED BY <1>7, <2>1, <2>2 DEF RecordInv
  <1> QED BY <1>1, <1>3, <1>5, <1>6, <1>7 DEF RecordInv

\* Every step keeps the maximum accounted for, and max_ only grows.
LEMMA RecordStep ==
  ASSUME RecordInv, max_ \in Clamped \cup {0}, [Next]_vars
  PROVE  RecordInv' /\ max_ <= max_' /\ max_' \in Clamped \cup {0}
  <1>0. max_ \in Nat /\ \A v \in Clamped \cup {0} : v \in Nat
    BY FiniteData
  <1>1. CASE UNCHANGED histogram
    <2>1. UNCHANGED <<max_, rec, recorded>>
      BY <1>1 DEF histogram
    <2> QED BY <1>0, <2>1 DEF RecordInv
  <1>2. ASSUME NEW r \in Recorders, NEW value \in Values, RecordBucket(r, value)
        PROVE  RecordInv' /\ max_ <= max_' /\ max_' \in Clamped \cup {0}
    <2>1. RecordInv'
      BY <1>2, BucketKeeps
    <2>2. max_' = max_
      BY <1>2 DEF RecordBucket
    <2> QED BY <1>0, <2>1, <2>2
  <1>3. ASSUME NEW r \in Recorders, RecordLoad(r)
        PROVE  RecordInv' /\ max_ <= max_' /\ max_' \in Clamped \cup {0}
    <2>1. rec[r].pc # "idle" /\ compare(r, max_) /\ UNCHANGED <<max_, recorded>>
      BY <1>3 DEF RecordLoad
    <2> QED BY <1>0, <2>1, CompareKeeps
  <1>4. ASSUME NEW r \in Recorders, RecordExchange(r)
        PROVE  RecordInv' /\ max_ <= max_' /\ max_' \in Clamped \cup {0}
    <2>1. CASE compare(r, max_) /\ UNCHANGED max_
      <3>1. rec[r].pc # "idle" /\ UNCHANGED <<max_, recorded>>
        BY <1>4, <2>1 DEF RecordExchange
      <3> QED BY <1>0, <2>1, <3>1, CompareKeeps
    <2>2. CASE /\ max_ = rec[r].cur
               /\ max_' = rec[r].ns
               /\ rec' = [rec EXCEPT ![r] = idle]
      <3>1. rec[r].pc = "cas" /\ UNCHANGED recorded
        BY <1>4 DEF RecordExchange
      <3>2. RecordInv' /\ max_ < max_' /\ max_' \in Clamped
        BY <2>2, <3>1, ExchangeKeeps
      <3> QED BY <1>0, <3>2
    <2> QED BY <1>4, <2>1, <2>2 DEF RecordExchange
  <1>5. CASE Recording
    BY <1>2, <1>3, <1>4, <1>5 DEF Recording
  <1>6. Counting \/ Server \/ Stop \/ UNCHANGED vars => UNCHANGED histogram
    BY DEF Counting, Server, Stop, vars
  <1> QED BY <1>1, <1>5, <1>6 DEF Next

\* MaxWhenIdle from the invariant: every recorded value is covered, and max_
\* is one of them.
LEMMA MaxFromRecordInv ==
  ASSUME RecordInv, max_ \in Clamped \cup {0}
  PROVE  MaxWhenIdle
  <1> SUFFICES ASSUME \A r \in Recorders : rec[r] = idle
               PROVE  max_ = Max({0} \cup {ns \in Clamped : recorded[ns] > 0})
    BY DEF MaxWhenIdle
  <1> DEFINE S == {0} \cup {ns \in Clamped : recorded[ns] > 0}
  <1>1. max_ \in S
    BY DEF RecordInv
  <1>2. \A ns \in S : ns \in Nat
    BY FiniteData
  <1>3. \A ns \in S : max_ >= ns
    <2>1. \A r \in Recorders : rec[r].pc = "idle"
      BY DEF idle
    <2>2. \A ns \in Clamped : recorded[ns] > 0 => ns <= max_
      BY <2>1 DEF RecordInv
    <2>3. \A ns \in S : ns <= max_
      BY <1>1, <1>2, <2>2
    <2> QED BY <1>1, <1>2, <2>3
  <1> HIDE DEF S
  <1>4. \A x \in S : (\A y \in S : x >= y) => x = max_
    BY <1>1, <1>2, <1>3
  <1>5. max_ = Max(S)
    BY <1>1, <1>3, <1>4 DEF Max
  <1> QED BY <1>5 DEF S
-----------------------------------------------------------------------------
(* A round of run().                                                       *)

\* The types of the counters by themselves.
LEMMA RoundTypes ==
  ASSUME TypeOK
  PROVE  /\ totals \in [Counters -> Nat] /\ published \in [Counters -> Nat]
         /\ \A c \in Counters : totals[c] <= MaxUpdates /\ published[c] <= MaxUpdates
         /\ md \in Nat /\ last_md \in Nat /\ tps_sum \in Nat
         /\ queue_max \in Nat /\ backlog \in Nat /\ queue_max <= MaxSize
         /\ at \in {1, 2, 3}
  <1>1. /\ totals \in [Counters -> 0 .. MaxUpdates]
        /\ published \in [Counters -> 0 .. MaxUpdates]
        /\ queue_max \in 0 .. MaxSize /\ backlog \in 0 .. MaxSize
        /\ md \in 0 .. MaxUpdates /\ last_md \in 0 .. MaxUpdates
        /\ tps_sum \in 0 .. MaxUpdates
        /\ at \in 1 .. 3
    BY CounterFacts DEF TypeOK
  <1>2. \A n \in 0 .. MaxUpdates : n \in Nat /\ n <= MaxUpdates
    BY FiniteData
  <1>3. \A n \in 0 .. MaxSize : n \in Nat /\ n <= MaxSize
    BY FiniteData
  <1>4. totals \in [Counters -> Nat] /\ published \in [Counters -> Nat]
    BY <1>1, <1>2
  <1>5. at \in {1, 2, 3}
    BY <1>1
  <1> QED BY <1>1, <1>2, <1>3, <1>4, <1>5

\* The counting threads leave a round consistent.
LEMMA CountingKeeps ==
  ASSUME TypeOK, RoundInv, Counting
  PROVE  RoundInv' /\ queue_max <= queue_max'
  <1>0. UNCHANGED <<spc, at, md, last_md, published, backlog, tps_sum>>
    BY DEF Counting, server
  <1>1. /\ totals \in [Counters -> Nat] /\ queue_max \in Nat /\ md \in Nat
        /\ published \in [Counters -> Nat] /\ backlog \in Nat
    BY RoundTypes
  <1>2. /\ totals' \in [Counters -> Nat] /\ queue_max' \in Nat /\ queue_max <= queue_max'
        /\ \A c \in Counters : totals[c] <= totals'[c]
        /\ totals'["md_dropped"] + (IF reader' = "push" THEN 1 ELSE 0) <= totals'["md"]
    <2>0. totals["md_dropped"] + (IF reader = "push" THEN 1 ELSE 0) <= totals["md"]
      BY DEF RoundInv
    <2>1. CASE OnMd
      BY <1>1, <2>0, <2>1, CounterFacts DEF OnMd
    <2>2. CASE OnMdPushed
      BY <1>1, <2>0, <2>2, CounterFacts DEF OnMdPushed
    <2>3. CASE TrackMax
      <3>1. queue_max' \in Nat /\ queue_max <= queue_max'
        BY <1>1, <2>3, FiniteData DEF TrackMax, track_max
      <3> QED BY <1>1, <2>0, <2>3, <3>1, CounterFacts DEF TrackMax
    <2>4. CASE OnExec
      BY <1>1, <2>0, <2>4, CounterFacts DEF OnExec
    <2> QED BY <2>1, <2>2, <2>3, <2>4 DEF Counting
  <1>3. \A c \in Counters : published[c] <= totals'[c]
    BY <1>1, <1>2 DEF RoundInv
  <1>4. md <= totals'["md"] /\ backlog <= queue_max'
    BY <1>1, <1>2, CounterFacts DEF RoundInv
  <1> QED BY <1>0, <1>2, <1>3, <1>4 DEF RoundInv

\* The metrics thread does, too, and what it has published stays.
LEMMA ServerKeeps ==
  ASSUME TypeOK, RoundInv, Server
  PROVE  /\ RoundInv'
         /\ \A c \in Counters : published[c] <= published'[c]
         /\ backlog <= backlog'
  <1>0. UNCHANGED <<totals, queue_max, reader>>
    BY DEF Server, engine
  <1>1. /\ totals \in [Counters -> Nat] /\ queue_max \in Nat /\ md \in Nat
        /\ published \in [Counters -> Nat] /\ backlog \in Nat
        /\ last_md \in Nat /\ tps_sum \in Nat /\ at \in {1, 2, 3}
    BY RoundTypes
  <1>2. CASE TestRunning \/ ReadBuckets \/ Publish
    <2>1. UNCHANGED <<at, md, last_md, published, backlog, tps_sum>>
      BY <1>2 DEF TestRunning, ReadBuckets, Publish
    <2>2. \/ spc = "test" /\ spc' \in {"sleep", "ended"}
          \/ spc = "snapshot" /\ spc' \in {"snapshot", "counters"}
      BY <1>2 DEF TestRunning, ReadBuckets, Publish
    <2>3. RoundInv'
      BY <1>0, <2>1, <2>2 DEF RoundInv
    <2> QED BY <1>1, <2>1, <2>3
  <1>3. CASE ReadMd
    <2>1. /\ md' = totals["md"] /\ tps_sum' = tps_sum + (md' - last_md)
          /\ last_md' = md' /\ spc' = "snapshot" /\ spc = "sleep"
          /\ UNCHANGED <<at, published, backlog>>
      BY <1>3 DEF ReadMd
    <2>2. totals["md"] \in Nat /\ md <= totals["md"] /\ tps_sum = last_md
          /\ published["md"] \in Nat /\ published["md"] <= md
      BY <1>1, CounterFacts DEF RoundInv
    <2>3. tps_sum' = md' /\ published["md"] <= md'
      BY <1>1, <2>1, <2>2
    <2>4. RoundInv'
      BY <1>0, <2>1, <2>2, <2>3 DEF RoundInv
    <2> QED BY <1>1, <2>1, <2>4
  <1>4. CASE SetCounter
    <2> DEFINE c == CounterOrder[at]
    <2>1. /\ published' = [published EXCEPT ![c] = set_counter(@, target(c))]
          /\ at' = (IF at = 3 THEN 1 ELSE at + 1)
          /\ spc' = (IF at = 3 THEN "gauges" ELSE "counters") /\ spc = "counters"
          /\ UNCHANGED <<md, last_md, backlog, tps_sum>>
      BY <1>4, CounterFacts DEF SetCounter
    <2>2. c \in Counters /\ (c = "md" <=> at = 1)
      BY <1>1, CounterFacts
    <2>3. /\ target(c) \in Nat /\ target(c) <= totals[c]
          /\ c = "md" => target(c) = md
      BY <1>1, <2>2, CounterFacts DEF target, RoundInv
    <2>4. /\ published'[c] = set_counter(published[c], target(c))
          /\ \A d \in Counters : d # c => published'[d] = published[d]
      BY <1>1, <2>1, <2>2
    <2> HIDE DEF c
    <2>5. /\ published'[c] \in Nat /\ published[c] <= published'[c]
          /\ published'[c] <= totals[c]
          /\ published[c] <= target(c) => published'[c] = target(c)
      <3>1. published[c] \in Nat /\ totals[c] \in Nat /\ published[c] <= totals[c]
        BY <1>1, <2>2 DEF RoundInv
      <3> QED BY <2>3, <2>4, <3>1 DEF set_counter
    <2>6. \A d \in Counters : published'[d] <= totals[d] /\ published[d] <= published'[d]
      BY <1>1, <2>4, <2>5 DEF RoundInv
    <2>7. published'["md"] <= md /\ (published["md"] = md \/ at = 1 => published'["md"] = md)
      <3>1. CASE c = "md"
        BY <1>1, <2>3, <2>5, <3>1 DEF RoundInv
      <3>2. CASE c # "md"
        BY <2>2, <2>4, <3>2, CounterFacts DEF RoundInv
      <3> QED BY <3>1, <3>2
    <2>8. at' = 1 \/ spc' = "counters"
      BY <2>1
    <2>9. published'["md"] = md
      BY <1>1, <2>1, <2>7 DEF RoundInv
    <2>10. RoundInv'
      BY <1>0, <2>1, <2>6, <2>7, <2>8, <2>9 DEF RoundInv
    <2> QED BY <1>1, <2>1, <2>6, <2>10
  <1>5. CASE SetGauges
    <2>1. /\ backlog' = queue_max /\ spc' = "test" /\ spc = "gauges"
          /\ UNCHANGED <<at, md, last_md, published, tps_sum>>
      BY <1>5 DEF SetGauges
    <2>2. RoundInv'
      BY <1>0, <1>1, <2>1 DEF RoundInv
    <2> QED BY <1>1, <2>1, <2>2 DEF RoundInv
  <1> QED BY <1>2, <1>3, <1>4, <1>5 DEF Server
-----------------------------------------------------------------------------
(* snapshot() while values are recorded.                                   *)

\* A recorded value adds one to one bucket.
LEMMA BucketAdds ==
  ASSUME buckets \in [Buckets -> Nat], recorded \in [Clamped -> Nat],
         NEW r \in Recorders, NEW value \in Values, RecordBucket(r, value)
  PROVE  /\ buckets' \in [Buckets -> Nat] /\ recorded' \in [Clamped -> Nat]
         /\ \A i \in Buckets : buckets[i] <= buckets'[i]
         /\ SumFunction(buckets') = SumFunction(buckets) + 1
         /\ SumFunction(recorded') = SumFunction(recorded) + 1
  <1> DEFINE ns == clamp(value)
             b == bucket(ns)
  <1>1. ns \in Clamped
    BY DEF Clamped
  <1>2. b \in Buckets
    BY <1>1 DEF Buckets
  <1>3. /\ buckets' = [buckets EXCEPT ![b] = @ + 1]
        /\ recorded' = [recorded EXCEPT ![ns] = @ + 1]
    BY DEF RecordBucket
  <1> HIDE DEF ns, b
  <1>4. /\ buckets' \in [Buckets -> Nat]
        /\ \A i \in Buckets : buckets[i] \in Nat
                              /\ buckets'[i] = IF i = b THEN buckets[i] + 1 ELSE buckets[i]
    BY <1>2, <1>3
  <1>5. /\ recorded' \in [Clamped -> Nat]
        /\ \A m \in Clamped : recorded[m] \in Nat
                              /\ recorded'[m] = IF m = ns THEN recorded[m] + 1 ELSE recorded[m]
    BY <1>1, <1>3
  <1>6. SumFunctionOnSet(buckets', Buckets) = SumFunctionOnSet(buckets, Buckets) + 1
    BY <1>2, <1>4, FiniteData, SumIncrement
  <1>7. SumFunctionOnSet(recorded', Clamped) = SumFunctionOnSet(recorded, Clamped) + 1
    BY <1>1, <1>5, FiniteData, SumIncrement
  <1>8. /\ SumFunction(buckets') = SumFunctionOnSet(buckets', Buckets)
        /\ SumFunction(recorded') = SumFunctionOnSet(recorded', Clamped)
        /\ SumFunction(buckets) = SumFunctionOnSet(buckets, Buckets)
        /\ SumFunction(recorded) = SumFunctionOnSet(recorded, Clamped)
    BY <1>4, <1>5 DEF SumFunction
  <1>9. \A i \in Buckets : buckets[i] <= buckets'[i]
    BY <1>4
  <1> QED BY <1>4, <1>5, <1>6, <1>7, <1>8, <1>9

\* What is read so far, completed, is no more than what is there.
LEMMA MergedFacts ==
  ASSUME buckets \in [Buckets -> Nat], DOMAIN local \subseteq Buckets,
         \A i \in DOMAIN local : local[i] \in Nat /\ local[i] <= buckets[i]
  PROVE  /\ merged \in [Buckets -> Nat]
         /\ \A i \in Buckets : merged[i] \in Nat /\ merged[i] <= buckets[i]
         /\ SumFunction(merged) = SumFunctionOnSet(merged, Buckets)
         /\ SumFunction(merged) \in Nat
         /\ SumFunction(merged) <= SumFunction(buckets)
  <1>1. /\ merged \in [Buckets -> Nat]
        /\ \A i \in Buckets : /\ merged[i] \in Nat /\ buckets[i] \in Nat
                              /\ merged[i] <= buckets[i]
    BY DEF merged
  <1>2. /\ SumFunction(merged) = SumFunctionOnSet(merged, Buckets)
        /\ SumFunction(buckets) = SumFunctionOnSet(buckets, Buckets)
    BY <1>1 DEF SumFunction
  <1>3. SumFunctionOnSet(merged, Buckets) \in Nat
    BY <1>1, FiniteData, SumNat
  <1>4. SumFunctionOnSet(merged, Buckets) <= SumFunctionOnSet(buckets, Buckets)
    BY <1>1, FiniteData, SumMonotone
  <1> QED BY <1>1, <1>2, <1>3, <1>4

\* The types that the sums need.
LEMMA SnapshotTypes ==
  ASSUME TypeOK, RecordInv, SnapshotInv
  PROVE  /\ buckets \in [Buckets -> Nat] /\ recorded \in [Clamped -> Nat]
         /\ max_ \in Clamped \cup {0} /\ max_ \in Nat
         /\ DOMAIN local \subseteq Buckets /\ before \in Nat /\ last.count \in Nat
         /\ \A i \in DOMAIN local : local[i] \in Nat /\ local[i] <= buckets[i]
         /\ \A r \in Recorders : rec[r] \in Call
  <1>1. /\ buckets \in [Buckets -> Nat] /\ max_ \in Clamped \cup {0}
        /\ DOMAIN local \subseteq Buckets /\ before \in Nat /\ last.count \in Nat
    BY DEF TypeOK, HistogramTypeOK
  <1>2. max_ \in Nat
    BY <1>1, FiniteData
  <1> QED BY <1>1, <1>2 DEF RecordInv, SnapshotInv

\* A value recorded while a snapshot is under way.
LEMMA RecordingKeeps ==
  ASSUME TypeOK, RecordInv, SnapshotInv, Recording
  PROVE  SnapshotInv' /\ buckets' \in [Buckets -> Nat]
  <1>0. UNCHANGED <<local, last, before, spc>>
    BY DEF Recording, snapshot, server
  <1>1. /\ buckets \in [Buckets -> Nat] /\ recorded \in [Clamped -> Nat]
        /\ SumFunction(recorded) \in Nat /\ SumFunction(buckets) \in Nat
    BY SnapshotTypes, HistogramSums
  <1>2. /\ buckets' \in [Buckets -> Nat]
        /\ \A i \in Buckets : buckets[i] <= buckets'[i]
        /\ SumFunction(buckets') = SumFunction(recorded')
        /\ SumFunction(recorded) <= SumFunction(recorded')
    <2>1. ASSUME NEW r \in Recorders, NEW value \in Values, RecordBucket(r, value)
          PROVE  /\ buckets' \in [Buckets -> Nat]
                 /\ \A i \in Buckets : buckets[i] <= buckets'[i]
                 /\ SumFunction(buckets') = SumFunction(recorded')
                 /\ SumFunction(recorded) <= SumFunction(recorded')
      <3>1. /\ buckets' \in [Buckets -> Nat]
            /\ \A i \in Buckets : buckets[i] <= buckets'[i]
            /\ SumFunction(buckets') = SumFunction(buckets) + 1
            /\ SumFunction(recorded') = SumFunction(recorded) + 1
        BY <1>1, <2>1, BucketAdds
      <3> QED BY <1>1, <3>1 DEF SnapshotInv
    <2>2. CASE UNCHANGED <<buckets, recorded>>
      BY <1>1, <2>2 DEF SnapshotInv
    <2>3. ASSUME NEW r \in Recorders
          PROVE  RecordLoad(r) \/ RecordExchange(r) => UNCHANGED <<buckets, recorded>>
      BY DEF RecordLoad, RecordExchange
    <2> QED BY <2>1, <2>2, <2>3 DEF Recording
  <1>3. \A i \in DOMAIN local : local[i] \in Nat /\ local[i] <= buckets'[i]
    BY <1>1, <1>2, SnapshotTypes
  <1>4. ASSUME spc = "snapshot" PROVE before <= SumFunction(merged')
    <2>1. /\ \A i \in Buckets : merged[i] \in Nat
          /\ SumFunction(merged) = SumFunctionOnSet(merged, Buckets)
          /\ SumFunction(merged) \in Nat
      BY SnapshotTypes, MergedFacts
    <2>2. \A i \in Buckets : merged'[i] \in Nat /\ merged[i] <= merged'[i]
      <3> SUFFICES ASSUME NEW i \in Buckets
                   PROVE  merged'[i] \in Nat /\ merged[i] <= merged'[i]
        OBVIOUS
      <3>1. /\ merged[i] = IF i \in DOMAIN local THEN local[i] ELSE buckets[i]
            /\ merged'[i] = IF i \in DOMAIN local THEN local[i] ELSE buckets'[i]
        BY <1>0 DEF merged
      <3> QED BY <1>1, <1>2, <2>1, <3>1
    <2>3. SumFunction(merged') = SumFunctionOnSet(merged', Buckets)
      BY DEF SumFunction, merged
    <2>4. SumFunctionOnSet(merged, Buckets) <= SumFunctionOnSet(merged', Buckets)
      BY <2>1, <2>2, FiniteData, SumMonotone
    <2>5. SumFunctionOnSet(merged', Buckets) \in Nat
      BY <2>2, FiniteData, SumNat
    <2> QED BY <1>4, <2>1, <2>3, <2>4, <2>5, SnapshotTypes DEF SnapshotInv
  <1>5. SnapshotBetween'
    <2>1. SumFunction(recorded') \in Nat
      <3>1. recorded' \in [Clamped -> Nat]
        <4>1. RecordInv'
          <5>1. [Next]_vars
            BY DEF Next
          <5> QED BY <5>1, SnapshotTypes, RecordStep
        <4> QED BY <4>1 DEF RecordInv
      <3>2. SumFunction(recorded') = SumFunctionOnSet(recorded', Clamped)
        BY <3>1 DEF SumFunction
      <3> QED BY <3>1, <3>2, FiniteData, SumNat
    <2>2. SnapshotBetween /\ last.count \in Nat
      BY SnapshotTypes DEF SnapshotInv
    <2> QED BY <1>0, <1>1, <1>2, <2>1, <2>2 DEF SnapshotBetween
  <1>6. last'.max \in Nat /\ last'.max <= max_'
    <2>1. [Next]_vars
      BY DEF Next
    <2>2. max_ <= max_' /\ max_' \in Clamped \cup {0}
      BY <2>1, SnapshotTypes, RecordStep
    <2>3. max_' \in Nat
      BY <2>2, FiniteData
    <2> QED BY <1>0, <2>2, <2>3, SnapshotTypes DEF SnapshotInv
  <1> QED BY <1>0, <1>2, <1>3, <1>4, <1>5, <1>6 DEF SnapshotInv

\* The metrics thread takes the snapshot: the call, a bucket, the return.
LEMMA ReadingKeeps ==
  ASSUME TypeOK, RecordInv, SnapshotInv, Server
  PROVE  /\ SnapshotInv' /\ DOMAIN local' \subseteq Buckets
         /\ before' \in Nat /\ last'.count \in Nat /\ last.max <= last'.max
  <1>0. UNCHANGED <<buckets, max_, rec, recorded>>
    BY DEF Server, histogram
  <1>1. /\ buckets \in [Buckets -> Nat] /\ recorded \in [Clamped -> Nat]
        /\ SumFunction(recorded) \in Nat /\ SumFunction(buckets) \in Nat
        /\ SumFunction(buckets) = SumFunction(recorded)
        /\ SumFunction(buckets) = SumFunctionOnSet(buckets, Buckets)
    BY SnapshotTypes, HistogramSums DEF SnapshotInv
  <1>2. /\ before \in Nat /\ last.count \in Nat /\ last.max \in Nat /\ max_ \in Nat
        /\ last.max <= max_ /\ DOMAIN local \subseteq Buckets
        /\ \A i \in DOMAIN local : local[i] \in Nat /\ local[i] <= buckets[i]
    BY SnapshotTypes DEF SnapshotInv
  <1>3. /\ \A i \in Buckets : merged[i] \in Nat
        /\ SumFunction(merged) = SumFunctionOnSet(merged, Buckets)
        /\ SumFunction(merged) \in Nat /\ SumFunction(merged) <= SumFunction(buckets)
    BY <1>1, <1>2, MergedFacts
  <1>4. SumFunction(merged') = SumFunctionOnSet(merged', Buckets)
    BY <1>0 DEF SumFunction, merged
  <1>5. CASE TestRunning \/ SetCounter \/ SetGauges
    <2>1. UNCHANGED <<local, last, before>> /\ spc' # "snapshot"
      BY <1>5 DEF TestRunning, SetCounter, SetGauges, snapshot
    <2>2. spc' \in {"counters", "gauges"} => spc = "counters"
      BY <1>5 DEF TestRunning, SetCounter, SetGauges
    <2>3. SnapshotBetween'
      BY <1>0, <2>1, <2>2 DEF SnapshotBetween, SnapshotInv
    <2> QED BY <1>0, <1>1, <1>2, <2>1, <2>3 DEF SnapshotInv
  <1>6. CASE ReadMd
    <2>1. /\ local' = nothing_read /\ before' = SumFunction(recorded)
          /\ UNCHANGED last /\ spc' = "snapshot"
      BY <1>6 DEF ReadMd, SnapshotCall
    <2>2. DOMAIN local' = {}
      BY <2>1 DEF nothing_read
    <2>3. \A i \in Buckets : merged'[i] \in Nat /\ merged'[i] = buckets[i]
      BY <1>0, <1>1, <2>2 DEF merged
    <2>4. SumFunctionOnSet(merged', Buckets) = SumFunctionOnSet(buckets, Buckets)
      BY <2>3, FiniteData, SumEqual
    <2>5. before' <= SumFunction(merged') /\ before' \in Nat
      <3> DEFINE n == SumFunction(recorded)
      <3>1. n \in Nat /\ before' = n
        BY <1>1, <2>1
      <3>2. SumFunction(merged') = n
        BY <1>1, <1>4, <2>4, Zenon
      <3> HIDE DEF n
      <3> QED BY <3>1, <3>2
    <2>6. SnapshotBetween'
      BY <2>1 DEF SnapshotBetween
    <2>7. UNCHANGED <<last, max_, buckets, recorded>>
      BY <1>0, <2>1
    <2>8. SumFunction(buckets') = SumFunction(recorded')
      BY <1>1, <2>7
    <2>9. last'.max \in Nat /\ last'.max <= max_' /\ last.max <= last'.max
      BY <1>2, <2>7
    <2>10. SnapshotInv'
      BY <2>2, <2>5, <2>6, <2>8, <2>9 DEF SnapshotInv
    <2> QED BY <1>2, <2>2, <2>5, <2>7, <2>9, <2>10
  <1>7. CASE ReadBuckets
    <2>1. PICK i \in Buckets \ DOMAIN local :
            /\ local' = [j \in DOMAIN local \cup {i} |->
                           IF j = i THEN buckets[i] ELSE local[j]]
            /\ UNCHANGED <<last, before>>
      BY <1>7 DEF ReadBuckets, SnapshotRead
    <2>2. spc' = "snapshot" /\ spc = "snapshot"
      BY <1>7 DEF ReadBuckets
    <2>3. /\ DOMAIN local' = DOMAIN local \cup {i}
          /\ \A j \in DOMAIN local' : local'[j] = IF j = i THEN buckets[i] ELSE local[j]
      BY <2>1
    <2>4. \A j \in DOMAIN local' : local'[j] \in Nat /\ local'[j] <= buckets[j]
      BY <1>1, <1>2, <2>3
    <2>5. \A j \in Buckets : merged'[j] = merged[j]
      <3> SUFFICES ASSUME NEW j \in Buckets PROVE merged'[j] = merged[j]
        OBVIOUS
      <3>1. /\ merged[j] = IF j \in DOMAIN local THEN local[j] ELSE buckets[j]
            /\ merged'[j] = IF j \in DOMAIN local' THEN local'[j] ELSE buckets[j]
        BY <1>0 DEF merged
      <3> QED BY <2>1, <2>3, <3>1
    <2>6. SumFunctionOnSet(merged, Buckets) = SumFunctionOnSet(merged', Buckets)
      BY <1>3, <2>5, FiniteData, SumEqual
    <2>7. before' <= SumFunction(merged')
      BY <1>3, <1>4, <2>1, <2>2, <2>6 DEF SnapshotInv
    <2>8. SnapshotBetween'
      BY <2>2 DEF SnapshotBetween
    <2> QED BY <1>0, <1>1, <1>2, <2>1, <2>2, <2>3, <2>4, <2>7, <2>8 DEF SnapshotInv
  <1>8. CASE Publish
    <2>1. /\ DOMAIN local = Buckets /\ spc = "snapshot" /\ spc' = "counters"
          /\ local' = nothing_read /\ UNCHANGED before
      BY <1>8 DEF Publish, SnapshotReturn
    <2>2. \A i \in Buckets : merged[i] = local[i]
      BY <2>1 DEF merged
    <2>3. SumFunction(local) = SumFunctionOnSet(local, Buckets)
      BY <2>1 DEF SumFunction
    <2>4. SumFunctionOnSet(merged, Buckets) = SumFunctionOnSet(local, Buckets)
      BY <1>3, <2>2, FiniteData, SumEqual
    <2>5. SumFunction(local) = SumFunction(merged)
      BY <1>3, <2>3, <2>4
    <2>6. last'.count = SumFunction(local) /\ last'.max = max_
      BY <1>8 DEF Publish, SnapshotReturn, none
    <2>7. before <= last'.count /\ last'.count <= SumFunction(recorded)
      BY <1>1, <1>3, <2>1, <2>5, <2>6 DEF SnapshotInv
    <2>8. SnapshotBetween'
      BY <1>0, <2>1, <2>7 DEF SnapshotBetween
    <2>9. DOMAIN local' = {}
      BY <2>1 DEF nothing_read
    <2>10. last'.count \in Nat
      BY <1>3, <2>5, <2>6
    <2> QED BY <1>0, <1>1, <1>2, <2>1, <2>6, <2>8, <2>9, <2>10 DEF SnapshotInv
  <1> QED BY <1>5, <1>6, <1>7, <1>8 DEF Server
-----------------------------------------------------------------------------
(* The bucket arithmetic.  Powers of two are known by their values, up to  *)
(* the bound on what is recorded.                                          *)

\* The powers of two.
LEMMA PowerTable ==
  /\ 2 ^ 0 = 1 /\ 2 ^ 1 = 2 /\ 2 ^ 2 = 4 /\ 2 ^ 3 = 8 /\ 2 ^ 4 = 16 /\ 2 ^ 5 = 32
  /\ 2 ^ 6 = 64 /\ 2 ^ 7 = 128 /\ 2 ^ 8 = 256 /\ 2 ^ 9 = 512 /\ 2 ^ 10 = 1024
  /\ 2 ^ 11 = 2048 /\ 2 ^ 12 = 4096 /\ 2 ^ 13 = 8192 /\ 2 ^ 14 = 16384
  /\ 2 ^ 15 = 32768 /\ 2 ^ 16 = 65536 /\ 2 ^ 17 = 131072 /\ 2 ^ 18 = 262144
  /\ 2 ^ 19 = 524288 /\ 2 ^ 20 = 1048576 /\ 2 ^ 21 = 2097152 /\ 2 ^ 22 = 4194304
  /\ 2 ^ 23 = 8388608 /\ 2 ^ 24 = 16777216 /\ 2 ^ 25 = 33554432
  /\ 2 ^ 26 = 67108864 /\ 2 ^ 27 = 134217728 /\ 2 ^ 28 = 268435456
  /\ 2 ^ 29 = 536870912 /\ 2 ^ 30 = 1073741824
  BY SMT

\* Each is twice the one before it.
LEMMA PowerStep ==
  ASSUME NEW b \in 0 .. 29
  PROVE  2 ^ b \in Nat \ {0} /\ 2 ^ (b + 1) = 2 * 2 ^ b
  <1> DEFINE p(n) == 2 ^ n
  <1>1. /\ p(0) = 1 /\ p(1) = 2 /\ p(2) = 4 /\ p(3) = 8 /\ p(4) = 16 /\ p(5) = 32
        /\ p(6) = 64 /\ p(7) = 128 /\ p(8) = 256 /\ p(9) = 512 /\ p(10) = 1024
        /\ p(11) = 2048 /\ p(12) = 4096 /\ p(13) = 8192 /\ p(14) = 16384
        /\ p(15) = 32768 /\ p(16) = 65536 /\ p(17) = 131072 /\ p(18) = 262144
        /\ p(19) = 524288 /\ p(20) = 1048576 /\ p(21) = 2097152
        /\ p(22) = 4194304 /\ p(23) = 8388608 /\ p(24) = 16777216
        /\ p(25) = 33554432 /\ p(26) = 67108864 /\ p(27) = 134217728
        /\ p(28) = 268435456 /\ p(29) = 536870912 /\ p(30) = 1073741824
    BY PowerTable, SMT
  <1> HIDE DEF p
  <1>2. p(b) \in Nat \ {0} /\ p(b + 1) = 2 * p(b)
    BY <1>1, SMT
  <1> QED BY <1>2 DEF p

\* A power and the one five below it: the width of a sub-bucket.
LEMMA PowerOfSub ==
  ASSUME NEW b \in 5 .. 29
  PROVE  2 ^ (b - 5) \in Nat \ {0} /\ 2 ^ b = 32 * 2 ^ (b - 5)
  <1> DEFINE p(n) == 2 ^ n
  <1>1. \A n \in 0 .. 29 : p(n) \in Nat \ {0} /\ p(n + 1) = 2 * p(n)
    BY PowerStep
  <1> HIDE DEF p
  <1>2. p(b - 5) \in Nat \ {0} /\ p(b) = 32 * p(b - 5)
    BY <1>1
  <1> QED BY <1>2 DEF p

\* Powers grow.
LEMMA PowerOrder ==
  ASSUME NEW a \in 0 .. 29, NEW b \in 0 .. 29, a < b
  PROVE  2 ^ (a + 1) <= 2 ^ b
  <1> DEFINE p(n) == 2 ^ n
  <1>1. \A n \in 0 .. 29 : p(n) \in Nat /\ p(n + 1) = 2 * p(n)
    BY PowerStep
  <1> HIDE DEF p
  <1>2. p(a + 1) <= p(b)
    BY <1>1
  <1> QED BY <1>2 DEF p

\* log2_floor finds the leading bit.
LEMMA LeadingBit ==
  ASSUME NEW v \in Nat, 1 <= v, v < 2 ^ 29
  PROVE  /\ log2_floor(v) \in 0 .. 29
         /\ 2 ^ log2_floor(v) <= v /\ v < 2 ^ (log2_floor(v) + 1)
  <1>1. \E b \in 0 .. 29 : 2 ^ b <= v /\ v < 2 ^ (b + 1)
    BY PowerTable, SMT
  <1> QED BY <1>1, Zenon DEF log2_floor

\* Division.
LEMMA Quotient ==
  ASSUME NEW v \in Nat, NEW d \in Nat \ {0}
  PROVE  v \div d \in Nat /\ (v \div d) * d <= v /\ v < (v \div d) * d + d
  OBVIOUS

\* A larger number has no smaller quotient.
LEMMA QuotientOrder ==
  ASSUME NEW d \in Nat \ {0}, NEW q \in Nat, NEW v \in Nat, NEW r \in Nat, NEW w \in Nat,
         q * d <= v, v < q * d + d, r * d <= w, w < r * d + d, v <= w
  PROVE  q <= r
  OBVIOUS

\* The quotient of a number between two powers.
LEMMA QuotientRange ==
  ASSUME NEW d \in Nat \ {0}, NEW q \in Nat, NEW v \in Nat,
         q * d <= v, v < q * d + d, 32 * d <= v, v < 64 * d
  PROVE  q \in 32 .. 63
  OBVIOUS

\* ns | 1 in record().
tagged(ns) == IF ns % 2 = 0 THEN ns + 1 ELSE ns

\* It stays below the bound, which is even.
LEMMA TaggedBound ==
  ASSUME NEW ns \in Nat, ns < 2 ^ 29
  PROVE  tagged(ns) < 2 ^ 29
  <1>1. ns < 536870912
    BY PowerTable, SMT
  <1>2. tagged(ns) < 536870912
    BY <1>1, SMT DEF tagged
  <1> QED BY <1>2, PowerTable, SMT

\* The leading bit of what record() counts.
major(ns) == log2_floor(tagged(ns))

\* What record() makes of a value: the leading bit and the bits below it.
LEMMA BucketParts ==
  ASSUME NEW ns \in Nat, ns < 2 ^ 29
  PROVE  /\ tagged(ns) \in Nat /\ ns <= tagged(ns) /\ tagged(ns) <= ns + 1
         /\ tagged(ns) >= 32 => ns >= 32
         /\ major(ns) \in 0 .. 29
         /\ 2 ^ major(ns) <= tagged(ns) /\ tagged(ns) < 2 ^ (major(ns) + 1)
         /\ major(ns) < 5 =>
              tagged(ns) \in 0 .. 31 /\ bucket(ns) = 32 * major(ns) + tagged(ns)
         /\ major(ns) >= 5 =>
              /\ tagged(ns) \div 2 ^ (major(ns) - 5) \in 32 .. 63
              /\ bucket(ns)
                   = 32 * major(ns) + (tagged(ns) \div 2 ^ (major(ns) - 5)) - 32
  <1> DEFINE v == tagged(ns)
             b == major(ns)
             d == 2 ^ (b - 5)
             q == v \div d
  <1>1. v \in Nat /\ ns <= v /\ v <= ns + 1 /\ 1 <= v /\ (v >= 32 => ns >= 32)
    BY DEF tagged
  <1>2. b \in 0 .. 29 /\ 2 ^ b <= v /\ v < 2 ^ (b + 1)
    BY <1>1, TaggedBound, LeadingBit DEF major
  <1>3. bucket(ns) = b * kSub + (IF b >= kSubBits THEN (v \div 2 ^ (b - kSubBits)) % kSub
                                                   ELSE v % kSub)
    BY DEF bucket, tagged, major
  <1>4. kSubBits = 5 /\ kSub = 32
    BY PowerTable, SMT DEF kSubBits, kSub
  <1>5. CASE b < 5
    <2>1. 2 ^ (b + 1) <= 2 ^ 5
      <3>1. 5 \in 0 .. 29
        OBVIOUS
      <3> QED BY <1>2, <1>5, <3>1, PowerOrder
    <2>2. v < 32
      <3> DEFINE u == 2 ^ (b + 1)
      <3>1. u \in Nat /\ u <= 32 /\ v < u
        <4>1. u = 2 * 2 ^ b /\ 2 ^ b \in Nat
          BY <1>2, PowerStep
        <4>2. 2 ^ 5 = 32
          BY PowerTable, SMT
        <4> QED BY <1>2, <2>1, <4>1, <4>2
      <3> HIDE DEF u, v
      <3> QED BY <1>1, <3>1
    <2>3. bucket(ns) = 32 * b + v
      <3> HIDE DEF b, v
      <3> QED BY <1>1, <1>2, <1>3, <1>4, <1>5, <2>2
    <2> QED BY <1>1, <1>2, <1>5, <2>2, <2>3
  <1>6. CASE b >= 5
    <2>1. d \in Nat \ {0} /\ 2 ^ b = 32 * d /\ 2 ^ (b + 1) = 2 * 2 ^ b
      <3>1. b \in 5 .. 29
        BY <1>2, <1>6
      <3> QED BY <1>2, <3>1, PowerOfSub, PowerStep
    <2>2. 32 * d <= v /\ v < 64 * d
      BY <1>1, <1>2, <2>1
    <2>3. q \in Nat /\ q * d <= v /\ v < q * d + d
      BY <1>1, <2>1, Quotient
    <2> HIDE DEF d
    <2>4. q \in 32 .. 63
      BY <1>1, <2>1, <2>2, <2>3, QuotientRange
    <2>5. bucket(ns) = b * 32 + (q % 32)
      BY <1>3, <1>4, <1>6 DEF d
    <2> HIDE DEF q, b
    <2>6. bucket(ns) = 32 * b + q - 32
      BY <1>2, <2>4, <2>5
    <2> QED BY <1>1, <1>2, <1>6, <2>4, <2>6 DEF d, q, b
  <1> QED BY <1>2, <1>5, <1>6

\* A larger value falls into no earlier bucket.
LEMMA BucketOrder ==
  ASSUME NEW ns \in Nat, NEW ms \in Nat, ns <= ms, ms < 2 ^ 29
  PROVE  bucket(ns) \in Nat /\ bucket(ms) \in Nat /\ bucket(ns) <= bucket(ms)
  <1> DEFINE v == tagged(ns)
             w == tagged(ms)
             a == major(ns)
             b == major(ms)
  <1>0. ns < 2 ^ 29
    <2> DEFINE top == 2 ^ 29
    <2>1. top \in Nat
      OBVIOUS
    <2> HIDE DEF top
    <2>2. ms < top => ns < top
      BY <2>1
    <2> QED BY <2>2 DEF top
  <1>1. v <= w
    BY DEF tagged
  <1>2. /\ v \in Nat /\ a \in 0 .. 29 /\ 2 ^ a <= v /\ v < 2 ^ (a + 1)
        /\ a < 5 => v \in 0 .. 31 /\ bucket(ns) = 32 * a + v
        /\ a >= 5 => /\ v \div 2 ^ (a - 5) \in 32 .. 63
                     /\ bucket(ns) = 32 * a + (v \div 2 ^ (a - 5)) - 32
    BY <1>0, BucketParts
  <1>3. /\ w \in Nat /\ b \in 0 .. 29 /\ 2 ^ b <= w /\ w < 2 ^ (b + 1)
        /\ b < 5 => w \in 0 .. 31 /\ bucket(ms) = 32 * b + w
        /\ b >= 5 => /\ w \div 2 ^ (b - 5) \in 32 .. 63
                     /\ bucket(ms) = 32 * b + (w \div 2 ^ (b - 5)) - 32
    BY BucketParts
  <1> HIDE DEF v, w, a, b
  <1>4. a <= b
    <2> SUFFICES ASSUME b < a PROVE FALSE
      BY <1>2, <1>3
    <2>1. 2 ^ (b + 1) <= 2 ^ a
      BY <1>2, <1>3, PowerOrder
    <2> DEFINE x == 2 ^ (b + 1)
               y == 2 ^ a
    <2>2. x \in Nat /\ y \in Nat /\ x <= y /\ y <= v /\ w < x
      BY <1>2, <1>3, <2>1, PowerStep
    <2> HIDE DEF x, y
    <2> QED BY <1>1, <1>2, <1>3, <2>2
  <1>5. \E s \in 0 .. 31, t \in 0 .. 31 :
           /\ bucket(ns) = 32 * a + s /\ bucket(ms) = 32 * b + t
           /\ a = b => s <= t
    <2> DEFINE q == v \div 2 ^ (a - 5)
               r == w \div 2 ^ (b - 5)
    <2>1. ASSUME a = b, a >= 5 PROVE q <= r
      <3> DEFINE d == 2 ^ (a - 5)
      <3>1. d \in Nat \ {0}
        <4>1. a \in 5 .. 29
          BY <1>2, <2>1
        <4> QED BY <4>1, PowerOfSub
      <3>2. q = v \div d /\ r = w \div d
        BY <2>1
      <3> HIDE DEF d, q, r
      <3>3. q \in Nat /\ q * d <= v /\ v < q * d + d
        BY <1>2, <3>1, <3>2, Quotient
      <3>4. r \in Nat /\ r * d <= w /\ w < r * d + d
        BY <1>3, <3>1, <3>2, Quotient
      <3> QED BY <1>1, <1>2, <1>3, <3>1, <3>3, <3>4, QuotientOrder
    <2>2. a < 5 => v \in 0 .. 31 /\ bucket(ns) = 32 * a + v
      BY <1>2
    <2>3. a >= 5 => q \in 32 .. 63 /\ bucket(ns) = 32 * a + q - 32
      BY <1>2
    <2>4. b < 5 => w \in 0 .. 31 /\ bucket(ms) = 32 * b + w
      BY <1>3
    <2>5. b >= 5 => r \in 32 .. 63 /\ bucket(ms) = 32 * b + r - 32
      BY <1>3
    <2> HIDE DEF q, r
    <2> DEFINE s == IF a < 5 THEN v ELSE q - 32
               t == IF b < 5 THEN w ELSE r - 32
    <2>6. s \in 0 .. 31 /\ bucket(ns) = 32 * a + s
      BY <1>2, <2>2, <2>3
    <2>7. t \in 0 .. 31 /\ bucket(ms) = 32 * b + t
      BY <1>3, <2>4, <2>5
    <2>8. a = b => s <= t
      BY <1>1, <1>2, <1>3, <2>1, <2>3, <2>5
    <2> HIDE DEF s, t
    <2> QED BY <2>6, <2>7, <2>8
  <1> QED BY <1>2, <1>3, <1>4, <1>5

\* The upper end of the bucket stands for the value.
LEMMA UpperApproximates ==
  ASSUME NEW ns \in Nat, ns < 2 ^ 29
  PROVE  Approximates(bucket_upper(bucket(ns)), ns)
  <1> DEFINE v == tagged(ns)
             b == major(ns)
             d == 2 ^ (b - 5)
             q == v \div d
             i == bucket(ns)
  <1>1. /\ v \in Nat /\ ns <= v /\ v <= ns + 1 /\ (v >= 32 => ns >= 32)
        /\ b \in 0 .. 29 /\ 2 ^ b <= v /\ v < 2 ^ (b + 1)
        /\ b < 5 => v \in 0 .. 31 /\ i = 32 * b + v
        /\ b >= 5 => q \in 32 .. 63 /\ i = 32 * b + q - 32
    BY BucketParts
  <1>2. kSubBits = 5 /\ kSub = 32 /\ 2 ^ kSubBits = 32
    BY PowerTable, SMT DEF kSubBits, kSub
  <1>3. bucket_upper(i) = IF i \div 32 < 5 THEN 2 ^ (i \div 32) + (i % 32)
                          ELSE (32 + (i % 32) + 1) * 2 ^ ((i \div 32) - 5)
    BY <1>2, Zenon DEF bucket_upper
  <1> HIDE DEF v, b, i
  <1>4. CASE b < 5
    <2>1. i \div 32 = b /\ i % 32 = v /\ v < 32
      BY <1>1, <1>4
    <2> DEFINE p == 2 ^ b
    <2>2. p \in Nat \ {0} /\ p <= v
      BY <1>1, PowerStep
    <2>3. bucket_upper(i) = p + v
      BY <1>3, <1>4, <2>1
    <2> HIDE DEF p
    <2>4. ns < p + v /\ p + v <= 2 * (ns + 1) /\ ~(ns >= 32)
      BY <1>1, <2>1, <2>2
    <2> QED BY <1>2, <2>3, <2>4 DEF Approximates, i
  <1>5. CASE b >= 5
    <2>1. q \in 32 .. 63 /\ i \div 32 = b /\ i % 32 = q - 32
      <3>1. q \in 32 .. 63 /\ i = 32 * b + q - 32
        BY <1>1, <1>5
      <3> HIDE DEF q
      <3> QED BY <1>1, <3>1
    <2>2. d \in Nat \ {0} /\ 2 ^ b = 32 * d
      <3>1. b \in 5 .. 29
        BY <1>1, <1>5
      <3> QED BY <3>1, PowerOfSub
    <2>3. q * d <= v /\ v < q * d + d
      BY <1>1, <2>2, Quotient
    <2>4. bucket_upper(i) = (32 + (q - 32) + 1) * d
      BY <1>1, <1>3, <1>5, <2>1
    <2>5. 32 * d <= v
      BY <1>1, <2>2
    <2> HIDE DEF d, q
    <2>6. (32 + (q - 32) + 1) * d = q * d + d
      BY <2>1, <2>2
    <2> DEFINE m == q * d
    <2>7. m \in Nat
      BY <2>1, <2>2
    <2>8. m <= v /\ v < m + d /\ bucket_upper(i) = m + d
      BY <2>3, <2>4, <2>6
    <2> HIDE DEF m
    <2>9. ns < m + d /\ ns >= 32 /\ 32 * (m + d) <= (32 + 1) * (ns + 1)
      BY <1>1, <2>2, <2>5, <2>7, <2>8
    <2> QED BY <1>2, <2>8, <2>9 DEF Approximates, i
  <1> QED BY <1>1, <1>4, <1>5
-----------------------------------------------------------------------------
(* The walk of snapshot() over the buckets.                                *)

\* A bounded set of natural numbers has a greatest member.
LEMMA GreatestNatural ==
  ASSUME NEW A, A \subseteq Nat, A # {}, NEW top \in Nat, \A n \in A : n <= top
  PROVE  \E n \in A : \A m \in A : m <= n
  <1> DEFINE B == {top - n : n \in A}
  <1>0. \A n \in A : n \in Nat /\ top - n \in Nat
    <2> SUFFICES ASSUME NEW n \in A PROVE n \in Nat /\ top - n \in Nat
      OBVIOUS
    <2>1. n \in Nat /\ n <= top
      OBVIOUS
    <2> QED BY <2>1
  <1>1. B \subseteq Nat /\ B # {}
    BY <1>0
  <1>2. PICK k \in B : \A m \in B : k <= m
    <2> HIDE DEF B
    <2> QED BY <1>1, LeastNatural
  <1>3. PICK n \in A : k = top - n
    OBVIOUS
  <1>4. \A m \in A : top - n <= top - m
    BY <1>2, <1>3
  <1>5. ASSUME NEW m \in A PROVE m <= n
    <2>1. m \in Nat /\ n \in Nat /\ top - n <= top - m
      BY <1>0, <1>4
    <2> QED BY <2>1
  <1> QED BY <1>5

\* A rank is reached when that share of the values is covered.
LEMMA RankMet ==
  ASSUME NEW n \in Nat, NEW total \in Nat, NEW q \in Nat
  PROVE  n >= rank(total, q) <=> 100 * n >= q * total
  <1> DEFINE x == total * q
  <1>1. x \in Nat /\ x = q * total
    OBVIOUS
  <1>2. rank(total, q) = (x + 99) \div 100
    BY DEF rank
  <1> HIDE DEF x
  <1>3. n >= (x + 99) \div 100 <=> 100 * n >= x
    BY <1>1
  <1> QED BY <1>1, <1>2, <1>3

\* The values recorded and the buckets they are in.
LEMMA ClampedBounds ==
  /\ \A ns \in Clamped : ns \in Nat /\ ns < 2 ^ 29 /\ bucket(ns) \in Buckets
  /\ Buckets \subseteq Nat
  /\ \A ns, ms \in Clamped : ns <= ms => bucket(ns) <= bucket(ms)
  <1>1. \A ns \in Clamped : ns \in Nat /\ ns < 2 ^ 29
    <2> DEFINE top == 2 ^ 29
    <2>1. top \in Nat \ {0}
      <3>1. 29 \in 0 .. 29
        OBVIOUS
      <3> QED BY <3>1, PowerStep
    <2>2. \A ns \in Values : ns \in Int /\ ns < top
      BY HistogramAssumption
    <2> HIDE DEF top
    <2>3. \A ns \in Clamped : ns \in Nat /\ ns < top
      BY <2>1, <2>2 DEF Clamped, clamp
    <2> QED BY <2>3 DEF top
  <1>2. \A ns \in Clamped : bucket(ns) \in Nat
    <2> SUFFICES ASSUME NEW ns \in Clamped PROVE bucket(ns) \in Nat
      OBVIOUS
    <2>1. ns <= ns
      BY <1>1
    <2> QED BY <1>1, <2>1, BucketOrder
  <1>3. \A ns \in Clamped : bucket(ns) \in Buckets
    BY DEF Buckets
  <1>4. Buckets \subseteq Nat
    BY <1>2 DEF Buckets
  <1>5. ASSUME NEW ns \in Clamped, NEW ms \in Clamped, ns <= ms
        PROVE  bucket(ns) <= bucket(ms)
    BY <1>1, <1>5, BucketOrder
  <1> QED BY <1>1, <1>3, <1>4, <1>5

\* What was recorded up to a value, and up to a bucket.
CountUpTo(ns) == SumFunctionOnSet(recorded, {m \in Clamped : m <= ns})
CountUpToBucket(i) == SumFunctionOnSet(recorded, {m \in Clamped : bucket(m) <= i})

\* The true percentile exists, and the first bucket that covers its rank is
\* the bucket it is in.
LEMMA RankBucket ==
  ASSUME recorded \in [Clamped -> Nat], SumFunction(recorded) > 0, NEW q \in 1 .. 100
  PROVE  LET t == TruePercentile(q)
             total == SumFunction(recorded)
         IN /\ t \in Clamped
            /\ 100 * CountUpToBucket(bucket(t)) >= q * total
            /\ \A i \in Buckets : 100 * CountUpToBucket(i) >= q * total => bucket(t) <= i
  <1> DEFINE total == SumFunction(recorded)
             t == TruePercentile(q)
             T == {ns \in Clamped : 100 * CountUpTo(ns) >= q * total}
  <1>0. \A ns \in Clamped : recorded[ns] \in Nat
    OBVIOUS
  <1>1. total = SumFunctionOnSet(recorded, Clamped) /\ total \in Nat
    <2>1. total = SumFunctionOnSet(recorded, Clamped)
      BY DEF SumFunction
    <2>2. SumFunctionOnSet(recorded, Clamped) \in Nat
      BY <1>0, FiniteData, SumNat
    <2> QED BY <2>1, <2>2
  <1>2. \A A \in SUBSET Clamped : IsFiniteSet(A) /\ SumFunctionOnSet(recorded, A) \in Nat
    <2> SUFFICES ASSUME NEW A \in SUBSET Clamped
                 PROVE  IsFiniteSet(A) /\ SumFunctionOnSet(recorded, A) \in Nat
      OBVIOUS
    <2>1. IsFiniteSet(A)
      BY FiniteData, FS_Subset
    <2>2. \A x \in A : recorded[x] \in Nat
      BY <1>0
    <2> QED BY <2>1, <2>2, SumNat
  <1>3. \A A \in SUBSET Clamped : \A B \in SUBSET A :
          SumFunctionOnSet(recorded, B) <= SumFunctionOnSet(recorded, A)
    <2> SUFFICES ASSUME NEW A \in SUBSET Clamped, NEW B \in SUBSET A
                 PROVE  SumFunctionOnSet(recorded, B) <= SumFunctionOnSet(recorded, A)
      OBVIOUS
    <2>1. IsFiniteSet(A) /\ \A x \in A : recorded[x] \in Nat
      BY <1>0, <1>2
    <2> QED BY <2>1, SumSubset
  <1>4. \A n \in Int : CountUpTo(n) \in Nat /\ CountUpToBucket(n) \in Nat
    <2> SUFFICES ASSUME NEW n \in Int
                 PROVE  CountUpTo(n) \in Nat /\ CountUpToBucket(n) \in Nat
      OBVIOUS
    <2>1. /\ {m \in Clamped : m <= n} \in SUBSET Clamped
          /\ {m \in Clamped : bucket(m) <= n} \in SUBSET Clamped
      OBVIOUS
    <2> QED BY <1>2, <2>1 DEF CountUpTo, CountUpToBucket
  <1>5. T # {}
    <2>1. Clamped # {}
      <3> SUFFICES ASSUME Clamped = {} PROVE FALSE
        OBVIOUS
      <3>1. SumFunctionOnSet(recorded, Clamped) = 0
        BY FiniteData, SumZero
      <3> QED BY <1>1, <3>1
    <2>2. PICK top \in Nat : \A ns \in Clamped : ns <= top
      <3> DEFINE u == 2 ^ 29
      <3>1. u \in Nat
        OBVIOUS
      <3>2. \A ns \in Clamped : ns \in Nat /\ ns < u
        BY ClampedBounds
      <3> HIDE DEF u
      <3>3. \A ns \in Clamped : ns <= u
        BY <3>1, <3>2
      <3> QED BY <3>1, <3>3
    <2>3. PICK k \in Clamped : \A m \in Clamped : m <= k
      BY <2>1, <2>2, FiniteData, GreatestNatural
    <2>4. {m \in Clamped : m <= k} = Clamped
      BY <2>3
    <2>5. CountUpTo(k) = total
      BY <1>1, <2>4 DEF CountUpTo
    <2>6. 100 * total >= q * total
      <3> HIDE DEF total
      <3> QED BY <1>1
    <2> QED BY <2>5, <2>6
  <1>6. t \in T /\ \A ns \in T : t <= ns
    <2>1. T \subseteq Nat
      BY FiniteData
    <2>2. PICK k \in T : \A m \in T : k <= m
      <3> HIDE DEF T
      <3> QED BY <1>5, <2>1, LeastNatural
    <2>3. t = Min(T)
      BY DEF TruePercentile, CountUpTo
    <2> HIDE DEF T, t
    <2>4. \E x \in T : \A y \in T : x =< y
      BY <2>2
    <2> QED BY <2>3, <2>4, Zenon DEF Min
  <1>7. t \in Clamped /\ t \in Nat /\ 100 * CountUpTo(t) >= q * total
    BY <1>6, FiniteData
  <1>8. bucket(t) \in Nat
    BY <1>7, ClampedBounds
  <1>9. CountUpTo(t) <= CountUpToBucket(bucket(t))
    <2>1. \A m \in Clamped : m <= t => bucket(m) <= bucket(t)
      BY <1>7, ClampedBounds
    <2> HIDE DEF t
    <2>2. /\ {m \in Clamped : bucket(m) <= bucket(t)} \in SUBSET Clamped
          /\ {m \in Clamped : m <= t} \in SUBSET {m \in Clamped : bucket(m) <= bucket(t)}
      BY <2>1
    <2> QED BY <1>3, <2>2 DEF CountUpTo, CountUpToBucket
  <1> DEFINE need == q * total
  <1>10. need \in Nat
    BY <1>1
  <1>11. 100 * CountUpToBucket(bucket(t)) >= need
    <2>1. CountUpTo(t) \in Nat /\ CountUpToBucket(bucket(t)) \in Nat
      BY <1>4, <1>7, <1>8
    <2>2. 100 * CountUpTo(t) >= need
      BY <1>7
    <2> HIDE DEF need, t
    <2> QED BY <1>9, <1>10, <2>1, <2>2
  <1>12. ASSUME NEW i \in Buckets, 100 * CountUpToBucket(i) >= need
         PROVE  bucket(t) <= i
    <2> DEFINE U == {m \in Clamped : bucket(m) <= i}
    <2>0. i \in Nat
      BY ClampedBounds
    <2>1. U \subseteq Nat /\ U # {}
      <3>1. PICK m \in Clamped : bucket(m) = i
        BY DEF Buckets
      <3>2. bucket(m) <= i
        BY <2>0, <3>1
      <3> QED BY <3>2, FiniteData
    <2>2. PICK top \in Nat : \A m \in U : m <= top
      <3> DEFINE u == 2 ^ 29
      <3>1. u \in Nat
        OBVIOUS
      <3>2. \A ns \in Clamped : ns \in Nat /\ ns < u
        BY ClampedBounds
      <3> HIDE DEF u
      <3>3. \A ns \in Clamped : ns <= u
        BY <3>1, <3>2
      <3> QED BY <3>1, <3>3
    <2>3. PICK k \in U : \A m \in U : m <= k
      <3> HIDE DEF U
      <3> QED BY <2>1, <2>2, GreatestNatural
    <2>4. k \in Clamped /\ k \in Nat /\ bucket(k) <= i /\ bucket(k) \in Nat
      BY <2>3, FiniteData, ClampedBounds
    <2>5. CountUpToBucket(i) <= CountUpTo(k)
      <3>1. /\ {m \in Clamped : m <= k} \in SUBSET Clamped
            /\ U \in SUBSET {m \in Clamped : m <= k}
        BY <2>3
      <3> QED BY <1>3, <3>1 DEF CountUpTo, CountUpToBucket
    <2>6. 100 * CountUpTo(k) >= need
      <3>1. CountUpTo(k) \in Nat /\ CountUpToBucket(i) \in Nat
        BY <1>4, <2>0, <2>4
      <3> HIDE DEF need
      <3> QED BY <1>10, <1>12, <2>5, <3>1
    <2>7. t <= k
      BY <1>6, <2>4, <2>6
    <2>8. bucket(t) <= bucket(k)
      BY <1>7, <2>4, <2>7, ClampedBounds
    <2> HIDE DEF t
    <2> QED BY <1>8, <2>0, <2>4, <2>8
  <1> QED BY <1>7, <1>11, <1>12

\* What snapshot() returns when it has read the buckets as they are: the
\* upper end of the bucket that the true percentile is in.
LEMMA PercentileRight ==
  ASSUME recorded \in [Clamped -> Nat], buckets \in [Buckets -> Nat],
         SumFunction(recorded) > 0, SumFunction(local) = SumFunction(recorded),
         \A i \in Buckets : local[i] = buckets[i],
         \A i \in Buckets : SumFunctionOnSet(buckets, {j \in Buckets : j <= i})
                              = CountUpToBucket(i),
         NEW q \in 1 .. 100
  PROVE  Approximates(percentile(q), TruePercentile(q))
  <1> DEFINE t == TruePercentile(q)
             total == SumFunction(recorded)
             UpTo(i) == SumFunctionOnSet(local, {j \in Buckets : j <= i})
             A == {i \in Buckets : UpTo(i) >= rank(total, q)}
  <1>1. /\ t \in Clamped /\ 100 * CountUpToBucket(bucket(t)) >= q * total
        /\ \A i \in Buckets : 100 * CountUpToBucket(i) >= q * total => bucket(t) <= i
    BY RankBucket
  <1>2. bucket(t) \in Buckets /\ t \in Nat /\ t < 2 ^ 29 /\ Buckets \subseteq Nat
    BY <1>1, ClampedBounds
  <1>3. ASSUME NEW i \in Buckets
        PROVE  UpTo(i) = CountUpToBucket(i) /\ UpTo(i) \in Nat
    <2> DEFINE S == {j \in Buckets : j <= i}
    <2>1. IsFiniteSet(S)
      <3>1. S \subseteq Buckets
        OBVIOUS
      <3> HIDE DEF S
      <3> QED BY <3>1, FiniteData, FS_Subset
    <2>2. \A j \in S : local[j] \in Nat /\ local[j] = buckets[j]
      OBVIOUS
    <2>3. UpTo(i) = SumFunctionOnSet(buckets, S) /\ SumFunctionOnSet(local, S) \in Nat
      <3> HIDE DEF S
      <3>1. SumFunctionOnSet(local, S) = SumFunctionOnSet(buckets, S)
        BY <2>1, <2>2, SumEqual
      <3>2. SumFunctionOnSet(local, S) \in Nat
        BY <2>1, <2>2, SumNat
      <3> QED BY <3>1, <3>2 DEF S
    <2> QED BY <2>3
  <1>4. total \in Nat
    BY HistogramSums
  <1>5. \A i \in Buckets : i \in A <=> 100 * CountUpToBucket(i) >= q * total
    <2> SUFFICES ASSUME NEW i \in Buckets
                 PROVE  UpTo(i) >= rank(total, q) <=> 100 * CountUpToBucket(i) >= q * total
      OBVIOUS
    <2>1. UpTo(i) = CountUpToBucket(i) /\ UpTo(i) \in Nat /\ q \in Nat
      BY <1>3
    <2> HIDE DEF UpTo, total
    <2> QED BY <1>4, <2>1, RankMet
  <1>6. bucket(t) \in A /\ \A i \in A : bucket(t) <= i
    BY <1>1, <1>2, <1>5
  <1>7. A \subseteq Nat
    BY <1>2
  <1>8. percentile(q) = bucket_upper(Min(A))
    BY DEF percentile
  <1> HIDE DEF A, t
  <1>9. ASSUME NEW x \in A, \A y \in A : x =< y PROVE x = bucket(t)
    <2>1. x \in Nat /\ bucket(t) \in Nat /\ x <= bucket(t) /\ bucket(t) <= x
      BY <1>6, <1>7, <1>9
    <2> QED BY <2>1
  <1>10. Min(A) = bucket(t)
    BY <1>6, <1>9, Zenon DEF Min
  <1>11. Approximates(bucket_upper(bucket(t)), t)
    BY <1>2, UpperApproximates
  <1> QED BY <1>8, <1>10, <1>11 DEF t

\* A value recorded counts in its bucket and in every later sum.
LEMMA RecordCounts ==
  ASSUME buckets \in [Buckets -> Nat], recorded \in [Clamped -> Nat],
         NEW r \in Recorders, NEW value \in Values, RecordBucket(r, value),
         NEW i \in Buckets,
         SumFunctionOnSet(buckets, {j \in Buckets : j <= i}) = CountUpToBucket(i)
  PROVE  SumFunctionOnSet(buckets', {j \in Buckets : j <= i})
           = SumFunctionOnSet(recorded', {m \in Clamped : bucket(m) <= i})
  <1> DEFINE ns == clamp(value)
             b == bucket(ns)
             S == {j \in Buckets : j <= i}
             T == {m \in Clamped : bucket(m) <= i}
  <1>1. ns \in Clamped
    BY DEF Clamped
  <1>2. b \in Buckets
    BY <1>1 DEF Buckets
  <1>3. /\ buckets' = [buckets EXCEPT ![b] = @ + 1]
        /\ recorded' = [recorded EXCEPT ![ns] = @ + 1]
    BY DEF RecordBucket
  <1>4. IsFiniteSet(S) /\ IsFiniteSet(T)
    <2>1. S \subseteq Buckets /\ T \subseteq Clamped
      OBVIOUS
    <2> HIDE DEF S, T
    <2> QED BY <2>1, FiniteData, FS_Subset
  <1>5. b \in S <=> ns \in T
    BY <1>1, <1>2
  <1> HIDE DEF ns, b
  <1>6. \A j \in S : buckets[j] \in Nat
                     /\ buckets'[j] = IF j = b THEN buckets[j] + 1 ELSE buckets[j]
    BY <1>2, <1>3
  <1>7. \A m \in T : recorded[m] \in Nat
                     /\ recorded'[m] = IF m = ns THEN recorded[m] + 1 ELSE recorded[m]
    BY <1>1, <1>3
  <1>8. SumFunctionOnSet(buckets, S) = SumFunctionOnSet(recorded, T)
    BY DEF CountUpToBucket
  <1> HIDE DEF S, T
  <1>9. CASE b \in S
    <2>1. SumFunctionOnSet(buckets', S) = SumFunctionOnSet(buckets, S) + 1
      BY <1>4, <1>6, <1>9, SumIncrement
    <2>2. SumFunctionOnSet(recorded', T) = SumFunctionOnSet(recorded, T) + 1
      BY <1>4, <1>5, <1>7, <1>9, SumIncrement
    <2> QED BY <1>8, <2>1, <2>2 DEF S, T
  <1>10. CASE b \notin S
    <2>1. SumFunctionOnSet(buckets, S) = SumFunctionOnSet(buckets', S)
      <3>1. \A j \in S : buckets[j] \in Nat /\ buckets[j] = buckets'[j]
        BY <1>6, <1>10
      <3> QED BY <1>4, <3>1, SumEqual
    <2>2. SumFunctionOnSet(recorded, T) = SumFunctionOnSet(recorded', T)
      <3>1. \A m \in T : recorded[m] \in Nat /\ recorded[m] = recorded'[m]
        BY <1>5, <1>7, <1>10
      <3> QED BY <1>4, <3>1, SumEqual
    <2> QED BY <1>8, <2>1, <2>2 DEF S, T
  <1> QED BY <1>9, <1>10

\* The part of the invariant that relates buckets to values.
InOrder ==
  \A i \in Buckets : SumFunctionOnSet(buckets, {j \in Buckets : j <= i})
                       = SumFunctionOnSet(recorded, {ns \in Clamped : bucket(ns) <= i})

\* Nothing is recorded at first.
LEMMA PercentileInit == Init => PercentileInv
  <1> SUFFICES ASSUME Init PROVE PercentileInv
    OBVIOUS
  <1>1. /\ recorded = [ns \in Clamped |-> 0] /\ buckets = [i \in Buckets |-> 0]
        /\ spc = "test"
    BY DEF Init, HistogramInit
  <1>2. ASSUME NEW i \in Buckets
        PROVE  SumFunctionOnSet(buckets, {j \in Buckets : j <= i})
                 = SumFunctionOnSet(recorded, {ns \in Clamped : bucket(ns) <= i})
    <2> DEFINE S == {j \in Buckets : j <= i}
               T == {ns \in Clamped : bucket(ns) <= i}
    <2>1. /\ S \subseteq Buckets /\ T \subseteq Clamped
          /\ \A j \in S : buckets[j] = 0
          /\ \A ns \in T : recorded[ns] = 0
      BY <1>1
    <2> HIDE DEF S, T
    <2>2. IsFiniteSet(S) /\ IsFiniteSet(T)
      BY <2>1, FiniteData, FS_Subset
    <2>3. SumFunctionOnSet(buckets, S) = 0
      BY <2>1, <2>2, SumZero
    <2>4. SumFunctionOnSet(recorded, T) = 0
      BY <2>1, <2>2, SumZero
    <2> QED BY <2>3, <2>4 DEF S, T
  <1> QED BY <1>1, <1>2 DEF PercentileInv, PercentileBound

\* What a snapshot took at the call is no more than what is recorded now.
LEMMA BeforeBound ==
  ASSUME TypeOK, RecordInv, SnapshotInv, spc \in {"snapshot", "counters", "gauges"}
  PROVE  before <= SumFunction(recorded) /\ before \in Nat /\ SumFunction(recorded) \in Nat
  <1>1. /\ buckets \in [Buckets -> Nat] /\ recorded \in [Clamped -> Nat]
        /\ before \in Nat /\ last.count \in Nat
        /\ DOMAIN local \subseteq Buckets
        /\ \A i \in DOMAIN local : local[i] \in Nat /\ local[i] <= buckets[i]
    BY SnapshotTypes
  <1>2. SumFunction(recorded) \in Nat /\ SumFunction(buckets) \in Nat
    BY <1>1, HistogramSums
  <1>3. SumFunction(merged) \in Nat /\ SumFunction(merged) <= SumFunction(buckets)
    BY <1>1, MergedFacts
  <1> QED BY <1>1, <1>2, <1>3 DEF SnapshotInv, SnapshotBetween

\* Every step keeps the buckets in order and the percentiles right.
LEMMA PercentileStep ==
  ASSUME TypeOK, MetricsInv, PercentileInv, [Next]_vars
  PROVE  PercentileInv'
  <1>0. RecordInv /\ SnapshotInv
    BY DEF MetricsInv
  <1>1. /\ buckets \in [Buckets -> Nat] /\ recorded \in [Clamped -> Nat]
        /\ SumFunction(recorded) \in Nat
        /\ DOMAIN local \subseteq Buckets
        /\ \A i \in DOMAIN local : local[i] \in Nat
    BY <1>0, SnapshotTypes, HistogramSums
  <1>2. ASSUME UNCHANGED <<buckets, recorded, local, last, before>>,
               \/ spc' = spc
               \/ spc = "counters" /\ spc' = "gauges"
               \/ spc' \notin {"snapshot", "counters", "gauges"}
        PROVE  PercentileInv'
    <2>1. InOrder'
      BY <1>2 DEF PercentileInv, InOrder
    <2>2. spc' = "snapshot" /\ before' = SumFunction(recorded') =>
            \A i \in DOMAIN local' : local'[i] = buckets'[i]
      BY <1>2 DEF PercentileInv
    <2>3. PercentileBound'
      BY <1>2 DEF PercentileInv, PercentileBound, TruePercentile
    <2> QED BY <2>1, <2>2, <2>3 DEF PercentileInv, InOrder
  <1>3. CASE Recording
    <2>1. UNCHANGED <<local, last, before, spc>>
      BY <1>3 DEF Recording, snapshot, server
    <2>2. ASSUME NEW r \in Recorders, NEW value \in Values, RecordBucket(r, value)
          PROVE  PercentileInv'
      <3>1. InOrder'
        <4> SUFFICES ASSUME NEW i \in Buckets
                     PROVE  SumFunctionOnSet(buckets', {j \in Buckets : j <= i})
                              = SumFunctionOnSet(recorded', {m \in Clamped : bucket(m) <= i})
          BY DEF InOrder
        <4>1. SumFunctionOnSet(buckets, {j \in Buckets : j <= i}) = CountUpToBucket(i)
          BY DEF PercentileInv, CountUpToBucket
        <4> QED BY <1>1, <2>2, <4>1, RecordCounts
      <3>2. SumFunction(recorded') = SumFunction(recorded) + 1
        BY <1>1, <2>2, BucketAdds
      <3>3. spc' \in {"snapshot", "counters", "gauges"} => before' # SumFunction(recorded')
        <4> SUFFICES ASSUME spc \in {"snapshot", "counters", "gauges"}
                     PROVE  before # SumFunction(recorded')
          BY <2>1
        <4>1. before <= SumFunction(recorded) /\ before \in Nat
          BY <1>0, BeforeBound
        <4> DEFINE n == SumFunction(recorded)
        <4>2. n \in Nat /\ before <= n /\ SumFunction(recorded') = n + 1
          BY <1>1, <3>2, <4>1
        <4> HIDE DEF n
        <4> QED BY <4>1, <4>2
      <3>4. PercentileBound'
        BY <3>3 DEF PercentileBound
      <3> QED BY <3>1, <3>3, <3>4 DEF PercentileInv, InOrder
    <2>3. ASSUME NEW r \in Recorders
          PROVE  RecordLoad(r) \/ RecordExchange(r) => UNCHANGED <<buckets, recorded>>
      BY DEF RecordLoad, RecordExchange
    <2> QED BY <1>2, <1>3, <2>1, <2>2, <2>3 DEF Recording
  <1>4. CASE Counting \/ Stop \/ UNCHANGED vars
    <2>1. UNCHANGED <<buckets, recorded, local, last, before, spc>>
      BY <1>4 DEF Counting, Stop, vars, histogram, snapshot, server
    <2> QED BY <1>2, <2>1
  <1>5. CASE Server
    <2>0. UNCHANGED <<buckets, recorded>>
      BY <1>5 DEF Server, histogram
    <2>1. InOrder'
      BY <2>0 DEF PercentileInv, InOrder
    <2>2. CASE TestRunning \/ SetCounter \/ SetGauges
      <3>1. UNCHANGED <<local, last, before>>
        BY <2>2 DEF TestRunning, SetCounter, SetGauges, snapshot
      <3>2. \/ spc' = spc
            \/ spc = "counters" /\ spc' = "gauges"
            \/ spc' \notin {"snapshot", "counters", "gauges"}
        BY <2>2 DEF TestRunning, SetCounter, SetGauges
      <3> QED BY <1>2, <2>0, <3>1, <3>2
    <2>3. CASE ReadMd
      <3>1. spc' = "snapshot" /\ DOMAIN local' = {}
        BY <2>3 DEF ReadMd, SnapshotCall, nothing_read
      <3> QED BY <2>1, <3>1 DEF PercentileInv, PercentileBound, InOrder
    <2>4. CASE ReadBuckets
      <3>1. spc = "snapshot" /\ spc' = "snapshot"
        BY <2>4 DEF ReadBuckets
      <3>2. PICK i \in Buckets \ DOMAIN local :
              /\ local' = [j \in DOMAIN local \cup {i} |->
                             IF j = i THEN buckets[i] ELSE local[j]]
              /\ UNCHANGED <<last, before>>
        BY <2>4 DEF ReadBuckets, SnapshotRead
      <3>3. before' = SumFunction(recorded') => \A j \in DOMAIN local' : local'[j] = buckets'[j]
        <4>1. before' = SumFunction(recorded') => \A j \in DOMAIN local : local[j] = buckets[j]
          BY <2>0, <3>1, <3>2 DEF PercentileInv
        <4> QED BY <2>0, <3>2, <4>1
      <3> QED BY <2>1, <3>1, <3>3 DEF PercentileInv, PercentileBound, InOrder
    <2>5. CASE Publish
      <3>1. /\ DOMAIN local = Buckets /\ spc = "snapshot" /\ spc' = "counters"
            /\ UNCHANGED before
        BY <2>5 DEF Publish, SnapshotReturn
      <3>2. ASSUME before' = SumFunction(recorded'), last'.count > 0
            PROVE  /\ Approximates(last'.p50, TruePercentile(50))
                   /\ Approximates(last'.p90, TruePercentile(90))
                   /\ Approximates(last'.p99, TruePercentile(99))
        <4>1. \A i \in Buckets : local[i] = buckets[i]
          BY <2>0, <3>1, <3>2 DEF PercentileInv
        <4>2. SumFunction(local) = SumFunction(recorded)
          <5>1. /\ SumFunction(local) = SumFunctionOnSet(local, Buckets)
                /\ SumFunction(buckets) = SumFunctionOnSet(buckets, Buckets)
            BY <1>1, <3>1 DEF SumFunction
          <5>2. \A i \in Buckets : local[i] \in Nat
            BY <1>1, <3>1
          <5>3. SumFunctionOnSet(local, Buckets) = SumFunctionOnSet(buckets, Buckets)
            BY <4>1, <5>2, FiniteData, SumEqual
          <5> QED BY <1>0, <5>1, <5>3 DEF SnapshotInv
        <4>3. last'.count = SumFunction(local)
          BY <2>5 DEF Publish, SnapshotReturn, none
        <4>4. SumFunction(recorded) > 0
          BY <3>2, <4>2, <4>3
        <4>5. /\ last'.p50 = percentile(50) /\ last'.p90 = percentile(90)
              /\ last'.p99 = percentile(99)
          <5>1. SumFunction(local) # 0
            BY <1>1, <4>2, <4>4
          <5> QED BY <2>5, <5>1 DEF Publish, SnapshotReturn
        <4>6. \A i \in Buckets : SumFunctionOnSet(buckets, {j \in Buckets : j <= i})
                                   = CountUpToBucket(i)
          BY DEF PercentileInv, CountUpToBucket
        <4>7. \A q \in 1 .. 100 : Approximates(percentile(q), TruePercentile(q))
          BY <1>1, <4>1, <4>2, <4>4, <4>6, PercentileRight
        <4>8. 50 \in 1 .. 100 /\ 90 \in 1 .. 100 /\ 99 \in 1 .. 100
          OBVIOUS
        <4>9. /\ Approximates(percentile(50), TruePercentile(50))
              /\ Approximates(percentile(90), TruePercentile(90))
              /\ Approximates(percentile(99), TruePercentile(99))
          BY <4>7, <4>8, SMT
        <4> QED BY <4>5, <4>9, SMT
      <3>3. PercentileBound'
        BY <2>0, <3>2 DEF PercentileBound, TruePercentile
      <3> QED BY <2>1, <3>1, <3>3 DEF PercentileInv, InOrder
    <2> QED BY <1>5, <2>2, <2>3, <2>4, <2>5 DEF Server
  <1> QED BY <1>3, <1>4, <1>5 DEF Next
-----------------------------------------------------------------------------
(* All together.                                                           *)

\* Every step keeps the three invariants, and what is published stays.
LEMMA MetricsStep ==
  ASSUME TypeOK, MetricsInv, [Next]_vars
  PROVE  /\ MetricsInv'
         /\ \A c \in Counters : published'[c] >= published[c]
         /\ backlog' >= backlog
         /\ last'.max >= last.max
         /\ queue_max <= queue_max'
  <1>0. RecordInv /\ SnapshotInv /\ RoundInv
    BY DEF MetricsInv
  <1>1. /\ published \in [Counters -> Nat] /\ backlog \in Nat /\ last.max \in Nat
        /\ queue_max \in Nat
    BY <1>0, RoundTypes DEF SnapshotInv
  <1>2. RecordInv'
    BY <1>0, SnapshotTypes, RecordStep
  <1>3. CASE Recording
    <2>1. UNCHANGED <<totals, queue_max, reader, spc, at, md, last_md, published,
                      backlog, tps_sum, last>>
      BY <1>3 DEF Recording, engine, server, snapshot
    <2>2. RoundInv'
      BY <1>0, <2>1 DEF RoundInv
    <2> QED BY <1>0, <1>1, <1>2, <1>3, <2>1, <2>2, RecordingKeeps DEF MetricsInv
  <1>4. CASE Counting
    <2>1. UNCHANGED <<histogram, snapshot, server>>
      BY <1>4 DEF Counting
    <2>2. UNCHANGED <<buckets, recorded, max_, local, last, before, spc, published, backlog>>
      BY <2>1 DEF histogram, snapshot, server
    <2>3. SnapshotInv'
      BY <1>0, <2>2 DEF SnapshotInv, SnapshotBetween, merged
    <2> QED BY <1>0, <1>1, <1>2, <1>4, <2>2, <2>3, CountingKeeps DEF MetricsInv
  <1>5. CASE Server
    <2>1. UNCHANGED queue_max
      BY <1>5 DEF Server, engine
    <2>2. RoundInv' /\ SnapshotInv'
      BY <1>0, <1>5, ServerKeeps, ReadingKeeps
    <2>3. \A c \in Counters : published[c] <= published'[c]
      BY <1>0, <1>5, ServerKeeps
    <2>4. backlog <= backlog' /\ last.max <= last'.max
      BY <1>0, <1>5, ServerKeeps, ReadingKeeps
    <2>5. RoundInv' /\ SnapshotInv' => backlog' <= queue_max' /\ last'.max \in Nat
      BY DEF RoundInv, SnapshotInv
    <2> QED BY <1>1, <1>2, <2>1, <2>2, <2>3, <2>4, <2>5 DEF MetricsInv
  <1>6. CASE Stop \/ UNCHANGED vars
    <2>1. UNCHANGED <<histogram, snapshot, engine, server>>
      BY <1>6 DEF Stop, vars
    <2>2. UNCHANGED <<buckets, recorded, max_, local, last, before, spc, published, backlog,
                      totals, queue_max, reader, at, md, last_md, tps_sum>>
      BY <2>1 DEF histogram, snapshot, engine, server
    <2>3. SnapshotInv' /\ RoundInv'
      BY <1>0, <2>2 DEF SnapshotInv, SnapshotBetween, merged, RoundInv
    <2> QED BY <1>1, <1>2, <2>2, <2>3 DEF MetricsInv
  <1> QED BY <1>3, <1>4, <1>5, <1>6 DEF Next

\* Types and bounds.
LEMMA MetricsTypes ==
  ASSUME TypeOK, MetricsInv, [Next]_vars
  PROVE  TypeOK'
  <1>0. RecordInv /\ SnapshotInv /\ RoundInv /\ RecordInv' /\ SnapshotInv' /\ RoundInv'
    BY MetricsStep DEF MetricsInv
  <1>1. HistogramTypeOK'
    <2>1. /\ buckets' \in [Buckets -> Nat]
          /\ DOMAIN local' \subseteq Buckets /\ before' \in Nat /\ last'.count \in Nat
      <3>1. CASE Recording
        <4>1. UNCHANGED <<local, last, before>>
          BY <3>1 DEF Recording, snapshot
        <4> QED BY <1>0, <3>1, <4>1, RecordingKeeps, SnapshotTypes
      <3>2. CASE Server
        <4>1. UNCHANGED buckets
          BY <3>2 DEF Server, histogram
        <4> QED BY <1>0, <3>2, <4>1, ReadingKeeps, SnapshotTypes
      <3>3. CASE Counting \/ Stop \/ UNCHANGED vars
        <4>1. UNCHANGED <<buckets, local, last, before>>
          BY <3>3 DEF Counting, Stop, vars, histogram, snapshot
        <4> QED BY <1>0, <4>1, SnapshotTypes
      <3> QED BY <3>1, <3>2, <3>3 DEF Next
    <2>2. max_' \in Clamped \cup {0}
      BY <1>0, SnapshotTypes, RecordStep
    <2>3. \A r \in Recorders : rec'[r].pc \in {"idle", "load", "cas"}
      <3>1. \A r \in Recorders : rec'[r] \in Call
        BY <1>0 DEF RecordInv
      <3> QED BY <3>1 DEF Call
    <2> QED BY <2>1, <2>2, <2>3 DEF HistogramTypeOK
  <1>2. running' \in BOOLEAN
    BY DEF Next, Recording, Counting, Server, Stop, vars, TypeOK
  <1>3. /\ totals' \in [Counters -> 0 .. MaxUpdates] /\ queue_max' \in 0 .. MaxSize
        /\ reader' \in {"idle", "push", "track"}
    <2>0. /\ totals \in [Counters -> 0 .. MaxUpdates] /\ queue_max \in 0 .. MaxSize
          /\ reader \in {"idle", "push", "track"}
      BY DEF TypeOK
    <2>1. CASE Counting
      <3>1. SumFunction(recorded) \in Nat
        BY <1>0, SnapshotTypes, HistogramSums
      <3>2. /\ totals["md"] \in Nat /\ totals["execs"] \in Nat
            /\ totals["md_dropped"] \in Nat /\ totals["md"] <= MaxUpdates
        BY RoundTypes, CounterFacts
      <3>3. more => totals["md"] + 1 \in 0 .. MaxUpdates /\ totals["execs"] + 1 \in 0 .. MaxUpdates
        BY <3>1, <3>2, FiniteData DEF more
      <3>4. reader = "push" => totals["md_dropped"] + 1 \in 0 .. MaxUpdates
        BY <1>0, <3>2, FiniteData DEF RoundInv
      <3>5. CASE OnMd
        BY <2>0, <3>3, <3>5 DEF OnMd
      <3>6. CASE OnMdPushed
        BY <2>0, <3>4, <3>6 DEF OnMdPushed
      <3>7. CASE TrackMax
        BY <2>0, <3>7 DEF TrackMax, track_max
      <3>8. CASE OnExec
        BY <2>0, <3>3, <3>8 DEF OnExec
      <3> QED BY <2>1, <3>5, <3>6, <3>7, <3>8 DEF Counting
    <2>2. CASE Recording \/ Server \/ Stop \/ UNCHANGED vars
      <3>1. UNCHANGED <<totals, queue_max, reader>>
        BY <2>2 DEF Recording, Server, Stop, vars, engine
      <3> QED BY <2>0, <3>1
    <2> QED BY <2>1, <2>2 DEF Next
  <1>4. /\ spc' \in {"test", "sleep", "snapshot", "counters", "gauges", "ended"}
        /\ at' \in {1, 2, 3} /\ md' \in Nat
        /\ published' \in [Counters -> Nat] /\ backlog' \in Nat
    <2>0. /\ spc \in {"test", "sleep", "snapshot", "counters", "gauges", "ended"}
          /\ at \in {1, 2, 3} /\ md \in Nat
          /\ published \in [Counters -> Nat] /\ backlog \in Nat
      BY RoundTypes DEF TypeOK
    <2>1. CASE Server
      <3>0. totals \in [Counters -> Nat] /\ queue_max \in Nat
        BY RoundTypes
      <3>1. CASE TestRunning \/ ReadBuckets \/ Publish \/ SetGauges
        BY <2>0, <3>0, <3>1 DEF TestRunning, ReadBuckets, Publish, SetGauges
      <3>2. CASE ReadMd
        BY <2>0, <3>0, <3>2, CounterFacts DEF ReadMd
      <3>3. CASE SetCounter
        <4> DEFINE c == CounterOrder[at]
        <4>1. c \in Counters
          BY <2>0, CounterFacts
        <4>2. target(c) \in Nat
          BY <2>0, <3>0, <4>1 DEF target
        <4>3. set_counter(published[c], target(c)) \in Nat
          BY <2>0, <4>1, <4>2 DEF set_counter
        <4>4. /\ published' = [published EXCEPT ![c] = set_counter(published[c], target(c))]
              /\ at' = (IF at = 3 THEN 1 ELSE at + 1)
              /\ spc' \in {"gauges", "counters"} /\ UNCHANGED <<md, backlog>>
          BY <3>3, CounterFacts DEF SetCounter
        <4> HIDE DEF c
        <4> QED BY <2>0, <4>1, <4>3, <4>4
      <3> QED BY <2>1, <3>1, <3>2, <3>3 DEF Server
    <2>2. CASE Recording \/ Counting \/ Stop \/ UNCHANGED vars
      <3>1. UNCHANGED <<spc, at, md, published, backlog>>
        BY <2>2 DEF Recording, Counting, Stop, vars, server
      <3> QED BY <2>0, <3>1
    <2> QED BY <2>1, <2>2 DEF Next
  <1>5. /\ published' \in [Counters -> 0 .. MaxUpdates]
        /\ md' \in 0 .. MaxUpdates /\ last_md' \in 0 .. MaxUpdates
        /\ tps_sum' \in 0 .. MaxUpdates /\ backlog' \in 0 .. MaxSize
    <2>1. /\ \A c \in Counters : published'[c] <= totals'[c]
          /\ md' <= totals'["md"] /\ last_md' = md' /\ tps_sum' = md'
          /\ backlog' <= queue_max'
      BY <1>0 DEF RoundInv
    <2>2. md' \in 0 .. MaxUpdates
      BY <1>3, <1>4, <2>1, FiniteData, CounterFacts
    <2>3. \A c \in Counters : published'[c] \in 0 .. MaxUpdates
      BY <1>3, <1>4, <2>1, FiniteData
    <2>4. published' \in [Counters -> 0 .. MaxUpdates]
      BY <1>4, <2>3
    <2>5. backlog' \in 0 .. MaxSize
      BY <1>3, <1>4, <2>1, FiniteData
    <2> QED BY <2>1, <2>2, <2>4, <2>5
  <1> QED BY <1>1, <1>2, <1>3, <1>4, <1>5, CounterFacts DEF TypeOK

\* The invariants hold in every state: for any set of recorded values, any
\* number of recording threads and any length of run.
THEOREM MetricsAlways == Spec => [](TypeOK /\ MetricsInv)
  <1> DEFINE Inv == TypeOK /\ MetricsInv
  <1>1. Init => Inv
    BY MetricsInit
  <1>2. Inv /\ [Next]_vars => Inv'
    BY MetricsStep, MetricsTypes
  <1> HIDE DEF Inv
  <1>3. Spec => []Inv
    BY <1>1, <1>2, PTL DEF Spec
  <1> QED BY <1>3 DEF Inv

\* MaxWhenIdle: the CAS loops of record() lose no maximum
\* (latency_histogram.hpp:43-44), with any number of threads.
THEOREM NoMaximumLost == Spec => []MaxWhenIdle
  <1>1. TypeOK /\ MetricsInv => MaxWhenIdle
    BY MaxFromRecordInv DEF TypeOK, HistogramTypeOK, MetricsInv
  <1> QED BY <1>1, MetricsAlways, PTL

\* SnapshotBetween: a snapshot that runs while values are recorded counts all
\* that were there when it was called and none twice
\* (latency_histogram.hpp:53-56).
THEOREM SnapshotsSound == Spec => []SnapshotBetween
  <1>1. TypeOK /\ MetricsInv => SnapshotBetween
    BY DEF MetricsInv, SnapshotInv
  <1> QED BY <1>1, MetricsAlways, PTL

\* PublishedConsistent: counters never run ahead of the engine and the
\* throughputs add up (metrics_server.hpp:55-75).
THEOREM PublishesConsistently == Spec => []PublishedConsistent
  <1>1. TypeOK /\ MetricsInv => PublishedConsistent
    BY DEF MetricsInv, RoundInv, PublishedConsistent
  <1> QED BY <1>1, MetricsAlways, PTL

\* NeverGoesBack: no published counter or mark ever decreases
\* (metrics.hpp:37-40, metrics_server.hpp:94-97).
THEOREM PublishedMonotone == Spec => NeverGoesBack
  <1> DEFINE A == /\ \A c \in Counters : published'[c] >= published[c]
                  /\ backlog' >= backlog
                  /\ last'.max >= last.max
  <1>1. TypeOK /\ MetricsInv /\ [Next]_vars => [A]_vars
    BY MetricsStep
  <1> HIDE DEF A
  <1>2. Spec => [][A]_vars
    BY <1>1, MetricsAlways, PTL DEF Spec
  <1> QED BY <1>2 DEF NeverGoesBack, A

\* The buckets stay in the order of the values, whatever is recorded, and
\* the percentiles of an undisturbed snapshot are right.
THEOREM PercentilesAlways == Spec => []PercentileInv
  <1> DEFINE Inv == TypeOK /\ MetricsInv
  <1>1. Init => PercentileInv
    BY PercentileInit
  <1>2. Inv /\ PercentileInv /\ [Next]_vars => PercentileInv'
    BY PercentileStep
  <1>3. Spec => []Inv
    BY MetricsAlways
  <1> HIDE DEF Inv
  <1> QED BY <1>1, <1>2, <1>3, PTL DEF Spec

\* PercentileBound: bucket index, ranks, walk and bucket_upper together give
\* percentiles that are off by at most the width of a bucket
\* (latency_histogram.hpp:3, 32-71), for every set of values below 2^29
\* nanoseconds and not only the ones of the run.
THEOREM PercentilesRight == Spec => []PercentileBound
  <1>1. PercentileInv => PercentileBound
    BY DEF PercentileInv
  <1> QED BY <1>1, PercentilesAlways, PTL

\* TypeOK: the registry's counters and marks stay within their bounds and
\* the threads where their code can be (metrics.hpp:12-40).
THEOREM MetricsTypeCorrect == Spec => []TypeOK
  <1>1. TypeOK /\ MetricsInv => TypeOK
    OBVIOUS
  <1> QED BY <1>1, MetricsAlways, PTL
=============================================================================
