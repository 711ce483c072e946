------------------------------- MODULE SetFacts -------------------------------
(***************************************************************************)
(* Facts the proofs share about finite sets (least and greatest members,   *)
(* the members of a set of dates in order, sums) and about products and    *)
(* quotients.  Induction is by a least counterexample, which needs no      *)
(* operator as a parameter.                                                *)
(***************************************************************************)
EXTENDS Integers, Sequences, FiniteSetsExt, FiniteSetTheorems, TLAPS

\* A set of natural numbers has a least one.
LEMMA LeastNumber ==
  ASSUME NEW S \in SUBSET Nat, S # {}
  PROVE  \E m \in S : \A k \in S : m <= k
<1> DEFINE T == {0 .. k : k \in S}
<1>1. T \subseteq FiniteSubsetsOf(Nat)
  <2> SUFFICES ASSUME NEW k \in S PROVE 0 .. k \in FiniteSubsetsOf(Nat)
    OBVIOUS
  <2>1. k \in Int /\ 0 \in Int
    OBVIOUS
  <2>2. IsFiniteSet(0 .. k)
    BY <2>1, FS_Interval, Zenon
  <2>3. 0 .. k \subseteq Nat
    OBVIOUS
  <2> QED
    BY <2>2, <2>3 DEF FiniteSubsetsOf
<1>2. T # {}
  OBVIOUS
<1>3. PICK x \in T : \A y \in T : ~ (<<y, x>> \in StrictSubsetOrdering(Nat))
  <2> HIDE DEF T
  <2> QED
    BY <1>1, <1>2, FS_StrictSubsetOrderingWellFounded, WFMin, Zenon
<1>4. PICK m \in S : x = 0 .. m
  BY <1>3
<1>5. \A k \in S : m <= k
  <2> SUFFICES ASSUME NEW k \in S, k < m PROVE FALSE
    OBVIOUS
  <2>1. 0 .. k \subseteq 0 .. m /\ m \in 0 .. m /\ m \notin 0 .. k
    OBVIOUS
  <2>2. 0 .. k \in SUBSET Nat /\ 0 .. m \in SUBSET Nat
    OBVIOUS
  <2>3. <<0 .. k, 0 .. m>> \in StrictSubsetOrdering(Nat)
    <3>1. 0 .. k # 0 .. m
      BY <2>1
    <3> QED
      BY <2>1, <2>2, <3>1 DEF StrictSubsetOrdering
  <2> QED
    BY <2>3, <1>3, <1>4
<1> QED
  BY <1>5

\* A set of dates is finite.
LEMMA FiniteDates ==
  ASSUME NEW N \in Nat, NEW S \in SUBSET (1 .. N)
  PROVE  IsFiniteSet(S) /\ Cardinality(S) \in Nat
<1>1. IsFiniteSet(1 .. N)
  <2>1. 1 \in Int /\ N \in Int
    OBVIOUS
  <2> QED
    BY <2>1, FS_Interval, Zenon
<1>2. IsFiniteSet(S)
  BY <1>1, FS_Subset, Zenon
<1> QED
  BY <1>2, FS_CardinalityType, Zenon

\* The earliest date of a set.
LEMMA MinOfDates ==
  ASSUME NEW N \in Nat, NEW S \in SUBSET (1 .. N), S # {}
  PROVE  Min(S) \in S /\ \A k \in S : Min(S) <= k
<1>1. \E m \in S : \A k \in S : m <= k
  BY LeastNumber
<1> QED
  BY <1>1, Zenon DEF Min

\* The latest date of a set.
LEMMA MaxOfDates ==
  ASSUME NEW N \in Nat, NEW S \in SUBSET (1 .. N), S # {}
  PROVE  Max(S) \in S /\ \A k \in S : k <= Max(S)
<1> DEFINE T == {N - k : k \in S}
<1>1. T \in SUBSET Nat /\ T # {}
  OBVIOUS
<1>2. PICK t \in T : \A u \in T : t <= u
  BY <1>1, LeastNumber
<1>3. PICK m \in S : t = N - m
  BY <1>2
<1>4. \A k \in S : m >= k
  <2> TAKE k \in S
  <2>1. N - m <= N - k
    BY <1>2, <1>3
  <2> QED
    BY <2>1
<1>5. Max(S) \in S /\ \A k \in S : Max(S) >= k
  BY <1>4, Zenon DEF Max
<1> QED
  BY <1>5

-----------------------------------------------------------------------------
(* The dates of a set in order, without recursion: the k-th is the one with *)
(* k of them up to it. *)

Rank(S, d) == Cardinality({e \in S : e <= d})

Ordered(S) == [k \in 1 .. Cardinality(S) |-> CHOOSE d \in S : Rank(S, d) = k]

\* A later date has more dates up to it.
LEMMA RankGrows ==
  ASSUME NEW N \in Nat, NEW S \in SUBSET (1 .. N), NEW c \in S, NEW d \in S, c < d
  PROVE  Rank(S, c) < Rank(S, d)
<1> DEFINE C == {e \in S : e <= c}
           D == {e \in S : e <= d}
<1>1. D \in SUBSET (1 .. N) /\ C \in SUBSET D /\ C # D
  <2>1. d \in D /\ d \notin C
    OBVIOUS
  <2>2. C \subseteq D
    <3>1. \A e \in S : e \in 1 .. N
      OBVIOUS
    <3>2. \A e \in S : e <= c => e <= d
      <4> TAKE e \in S
      <4>1. e \in Int /\ c \in Int /\ d \in Int
        BY <3>1
      <4> QED
        BY <4>1
    <3> QED
      BY <3>2
  <2> QED
    BY <2>1, <2>2
<1> HIDE DEF C, D
<1>2. IsFiniteSet(D) /\ Cardinality(D) \in Nat
  BY <1>1, FiniteDates
<1>3. IsFiniteSet(C) /\ Cardinality(C) \in Nat
  <2>1. C \in SUBSET (1 .. N)
    BY <1>1
  <2> QED
    BY <2>1, FiniteDates
<1>4. Cardinality(C) <= Cardinality(D) /\ Cardinality(C) # Cardinality(D)
  BY <1>1, <1>2, FS_Subset, Zenon
<1>5. Cardinality(C) < Cardinality(D)
  BY <1>2, <1>3, <1>4
<1> QED
  BY <1>5 DEF Rank, C, D

\* The ranks are among the numbers from one to how many dates there are.
LEMMA RankInRange ==
  ASSUME NEW N \in Nat, NEW S \in SUBSET (1 .. N), NEW d \in S
  PROVE  Rank(S, d) \in 1 .. Cardinality(S)
<1> DEFINE D == {e \in S : e <= d}
<1>1. D \in SUBSET (1 .. N) /\ D \in SUBSET S /\ D # {}
  <2>1. D \in SUBSET S
    OBVIOUS
  <2>2. d \in D
    <3>1. d \in 1 .. N
      OBVIOUS
    <3> QED
      BY <3>1
  <2> QED
    BY <2>1, <2>2
<1> HIDE DEF D
<1>2. IsFiniteSet(D) /\ Cardinality(D) \in Nat
  BY <1>1, FiniteDates
<1>3. IsFiniteSet(S) /\ Cardinality(S) \in Nat
  BY FiniteDates
<1>4. Cardinality(D) # 0
  BY <1>1, <1>2, FS_EmptySet, Zenon
<1>5. Cardinality(D) <= Cardinality(S)
  BY <1>1, <1>3, FS_Subset, Zenon
<1>6. Cardinality(D) \in 1 .. Cardinality(S)
  BY <1>2, <1>3, <1>4, <1>5
<1> QED
  BY <1>6 DEF Rank, D

\* Each of these numbers is a rank: ranking is an injection into a set of the
\* same size.
LEMMA EveryRankTaken ==
  ASSUME NEW N \in Nat, NEW S \in SUBSET (1 .. N), NEW k \in 1 .. Cardinality(S)
  PROVE  \E d \in S : Rank(S, d) = k
<1> DEFINE c == Cardinality(S)
           T == 1 .. c
           f == [d \in S |-> Rank(S, d)]
<1>1. IsFiniteSet(S) /\ c \in Nat
  BY FiniteDates
<1>2. IsFiniteSet(T) /\ Cardinality(T) = c
  <2>1. 1 \in Int /\ c \in Int /\ (IF 1 > c THEN 0 ELSE c - 1 + 1) = c
    BY <1>1
  <2> HIDE DEF c
  <2> QED
    BY <2>1, FS_Interval, Zenon
<1>3. f \in [S -> T]
  BY RankInRange
<1>4. IsInjective(f)
  <2> SUFFICES ASSUME NEW a \in S, NEW b \in S, Rank(S, a) = Rank(S, b), a # b PROVE FALSE
    BY DEF IsInjective
  <2> HIDE DEF T, f
  <2>1. Rank(S, a) \in 1 .. c /\ Rank(S, b) \in 1 .. c
    BY RankInRange
  <2>2. CASE a < b
    <3>1. Rank(S, a) < Rank(S, b)
      BY <2>2, RankGrows
    <3> HIDE DEF c
    <3> QED
      BY <1>1, <2>1, <3>1
  <2>3. CASE b < a
    <3>1. Rank(S, b) < Rank(S, a)
      BY <2>3, RankGrows
    <3> HIDE DEF c
    <3> QED
      BY <1>1, <2>1, <3>1
  <2>4. a \in 1 .. N /\ b \in 1 .. N
    OBVIOUS
  <2> QED
    BY <2>2, <2>3, <2>4
<1>5. f \in Injection(S, T)
  BY <1>3, <1>4, Zenon DEF Injection
<1>6. f \in Surjection(S, T)
  <2> HIDE DEF f, T
  <2> QED
    BY <1>1, <1>2, <1>5, FS_Injection, Zenon
<1> QED
  BY <1>6 DEF Surjection

\* The dates of a set in order: as many as there are, each of them, growing.
LEMMA OrderedDates ==
  ASSUME NEW N \in Nat, NEW S \in SUBSET (1 .. N)
  PROVE  /\ Ordered(S) \in Seq(S) /\ Len(Ordered(S)) = Cardinality(S)
         /\ \A k \in 1 .. Cardinality(S) : Ordered(S)[k] \in S
         /\ \A j, k \in 1 .. Cardinality(S) : j < k => Ordered(S)[j] < Ordered(S)[k]
         /\ \A d \in S : \E k \in 1 .. Cardinality(S) : Ordered(S)[k] = d
<1> DEFINE c == Cardinality(S)
           q == Ordered(S)
<1>1. c \in Nat
  BY FiniteDates
<1>2. \A k \in 1 .. c : q[k] \in S /\ Rank(S, q[k]) = k
  <2> TAKE k \in 1 .. c
  <2>1. q[k] = CHOOSE d \in S : Rank(S, d) = k
    BY DEF Ordered
  <2>2. \E d \in S : Rank(S, d) = k
    BY EveryRankTaken
  <2> QED
    BY <2>1, <2>2, Zenon
<1>3. q = [k \in 1 .. c |-> q[k]]
  BY DEF Ordered
<1> HIDE DEF q, c
<1>4. q \in Seq(S) /\ Len(q) = c
  BY <1>1, <1>2, <1>3
<1>5. ASSUME NEW j \in 1 .. c, NEW k \in 1 .. c, j < k PROVE q[j] < q[k]
  <2>1. q[j] \in 1 .. N /\ q[k] \in 1 .. N
    BY <1>2
  <2>2. CASE q[k] < q[j]
    <3>1. Rank(S, q[k]) < Rank(S, q[j])
      BY <1>2, <2>2, RankGrows
    <3> QED
      BY <1>1, <1>2, <3>1, <1>5
  <2>3. CASE q[k] = q[j]
    BY <1>1, <1>2, <2>3, <1>5
  <2> QED
    BY <2>1, <2>2, <2>3
<1>6. ASSUME NEW d \in S PROVE \E k \in 1 .. c : q[k] = d
  <2> DEFINE k == Rank(S, d)
  <2>1. k \in 1 .. c
    BY RankInRange DEF c
  <2>2. q[k] \in S /\ Rank(S, q[k]) = k
    BY <1>2, <2>1
  <2>3. q[k] \in 1 .. N /\ d \in 1 .. N
    BY <2>2
  <2>4. CASE q[k] < d
    <3>1. Rank(S, q[k]) < k
      BY <2>2, <2>4, RankGrows
    <3> QED
      BY <3>1, <2>1, <2>2, <1>1
  <2>5. CASE d < q[k]
    <3>1. k < Rank(S, q[k])
      BY <2>2, <2>5, RankGrows
    <3> QED
      BY <3>1, <2>1, <2>2, <1>1
  <2> QED
    BY <2>1, <2>3, <2>4, <2>5
<1> QED
  BY <1>2, <1>4, <1>5, <1>6 DEF q, c

\* A date after all of a set comes last, and the ranks of the others stay.
LEMMA RankOfLast ==
  ASSUME NEW N \in Nat, NEW S \in SUBSET (1 .. N), NEW e \in 1 .. N, \A d \in S : d < e
  PROVE  /\ Cardinality(S \cup {e}) = Cardinality(S) + 1
         /\ Rank(S \cup {e}, e) = Cardinality(S) + 1
         /\ \A d \in S : Rank(S \cup {e}, d) = Rank(S, d)
<1>1. e \notin S
  <2>1. ~(e < e)
    OBVIOUS
  <2> QED
    BY <2>1
<1>2. IsFiniteSet(S)
  BY FiniteDates
<1>3. Cardinality(S \cup {e}) = Cardinality(S) + 1
  BY <1>1, <1>2, FS_AddElement, Zenon
<1>4. {k \in S \cup {e} : k <= e} = S \cup {e}
  <2>1. \A k \in S : k <= e
    <3> TAKE k \in S
    <3>1. k \in 1 .. N /\ k < e
      OBVIOUS
    <3> QED
      BY <3>1
  <2>2. e <= e
    OBVIOUS
  <2> QED
    BY <2>1, <2>2
<1>5. ASSUME NEW d \in S PROVE {k \in S \cup {e} : k <= d} = {k \in S : k <= d}
  <2>1. d \in Int /\ e \in Int /\ ~(e <= d)
    OBVIOUS
  <2> QED
    BY <2>1
<1> QED
  BY <1>3, <1>4, <1>5 DEF Rank

-----------------------------------------------------------------------------
(* Subsets of a finite set. *)

\* Among subsets of a finite set there is one with no smaller one among them.
LEMMA SmallestSubset ==
  ASSUME NEW S, IsFiniteSet(S), NEW Sets \in SUBSET (SUBSET S), Sets # {}
  PROVE  \E T \in Sets : \A U \in Sets : U \subseteq T => U = T
<1>1. Sets \subseteq FiniteSubsetsOf(S)
  <2>1. \A T \in Sets : IsFiniteSet(T) /\ T \subseteq S
    BY FS_Subset
  <2> QED
    BY <2>1 DEF FiniteSubsetsOf
<1>2. PICK T \in Sets : \A U \in Sets : ~ (<<U, T>> \in StrictSubsetOrdering(S))
  BY <1>1, FS_StrictSubsetOrderingWellFounded, WFMin, Zenon
<1>3. \A U \in Sets : U \subseteq T => U = T
  <2> SUFFICES ASSUME NEW U \in Sets, U \subseteq T, U # T PROVE FALSE
    OBVIOUS
  <2>1. U \in SUBSET S /\ T \in SUBSET S
    OBVIOUS
  <2>2. <<U, T>> \in StrictSubsetOrdering(S)
    BY <2>1 DEF StrictSubsetOrdering
  <2> QED
    BY <1>2, <2>2
<1> QED
  BY <1>3

-----------------------------------------------------------------------------
(* Sums over finite sets: Total(S, a) adds up a[x] for x in S, in the order *)
(* the CHOOSE of MapThenSumSet takes them. *)

Some(T) == CHOOSE x \in T : TRUE
IsSum(g, S, a) == g = [T \in SUBSET S |-> IF T = {} THEN 0 ELSE a[Some(T)] + g[T \ {Some(T)}]]
Total(S, a) == (CHOOSE g : IsSum(g, S, a))[S]

\* The recursion has a solution over the subsets with at most n members, for
\* every n, and therefore over all.
LEMMA SumExists ==
  ASSUME NEW S, IsFiniteSet(S), NEW a
  PROVE  \E g : IsSum(g, S, a)
<1> DEFINE Small(n) == {T \in SUBSET S : Cardinality(T) <= n}
           Value(g, T) == IF T = {} THEN 0 ELSE a[Some(T)] + g[T \ {Some(T)}]
           Good(n) == \E g : g = [T \in Small(n) |-> Value(g, T)]
           Bad == {n \in Nat : ~Good(n)}
<1>1. \A T \in SUBSET S : IsFiniteSet(T) /\ Cardinality(T) \in Nat /\ Cardinality(T) <= Cardinality(S)
  BY FS_Subset, FS_CardinalityType
<1>2. \A T \in SUBSET S : T # {} => /\ Some(T) \in T
                                   /\ T \ {Some(T)} \in SUBSET S
                                   /\ Cardinality(T \ {Some(T)}) = Cardinality(T) - 1
  BY <1>1, FS_RemoveElement DEF Some
<1>3. Good(0)
  <2>1. \A T \in Small(0) : T = {}
    BY <1>1, FS_EmptySet
  <2>2. PICK g : g = [T \in Small(0) |-> 0]
    OBVIOUS
  <2>3. g = [T \in Small(0) |-> Value(g, T)]
    <3> HIDE DEF Small
    <3> QED
      BY <2>1, <2>2
  <2> QED
    BY <2>3
<1>4. ASSUME NEW n \in Nat, Good(n) PROVE Good(n + 1)
  <2>1. PICK h : h = [T \in Small(n) |-> Value(h, T)]
    BY <1>4
  <2>2. PICK g : g = [T \in Small(n + 1) |-> Value(h, T)]
    OBVIOUS
  <2>3. \A T \in Small(n) : T \in Small(n + 1)
    BY <1>1
  <2>4. \A T \in Small(n) : g[T] = h[T]
    <3> HIDE DEF Small, Value
    <3> QED
      BY <2>1, <2>2, <2>3
  <2>5. \A T \in Small(n + 1) : Value(h, T) = Value(g, T)
    <3> TAKE T \in Small(n + 1)
    <3>1. CASE T = {}
      BY <3>1
    <3>2. CASE T # {}
      <4>1. T \ {Some(T)} \in Small(n)
        BY <1>1, <1>2, <3>2
      <4> HIDE DEF Small
      <4> QED
        BY <2>4, <3>2, <4>1
    <3> QED
      BY <3>1, <3>2
  <2>6. g = [T \in Small(n + 1) |-> Value(g, T)]
    <3> HIDE DEF Small, Value
    <3> QED
      BY <2>2, <2>5
  <2> QED
    BY <2>6
<1>5. Bad = {}
  <2> SUFFICES ASSUME Bad # {} PROVE FALSE
    OBVIOUS
  <2>1. PICK m \in Bad : \A k \in Bad : m <= k
    <3> HIDE DEF Good
    <3> QED
      BY LeastNumber
  <2> HIDE DEF Good
  <2>2. m \in Nat /\ m # 0
    BY <1>3
  <2>3. m - 1 \in Nat /\ m - 1 + 1 = m
    BY <2>2
  <2>4. Good(m - 1)
    BY <2>1, <2>2, <2>3
  <2> QED
    BY <1>4, <2>3, <2>4
<1>6. Good(Cardinality(S))
  <2> HIDE DEF Good
  <2> QED
    BY <1>1, <1>5
<1>7. Small(Cardinality(S)) = SUBSET S
  BY <1>1
<1>8. PICK g : g = [T \in Small(Cardinality(S)) |-> Value(g, T)]
  BY <1>6
<1>9. g = [T \in SUBSET S |-> Value(g, T)]
  <2> HIDE DEF Small, Value
  <2> QED
    BY <1>7, <1>8, Zenon
<1> QED
  BY <1>9 DEF IsSum

\* What the recursion says of one set.
LEMMA SumStep ==
  ASSUME NEW S, NEW a, NEW g, IsSum(g, S, a)
  PROVE  \A T \in SUBSET S : /\ T = {} => g[T] = 0
                             /\ T # {} => Some(T) \in T /\ g[T] = a[Some(T)] + g[T \ {Some(T)}]
  BY DEF IsSum, Some

\* Sums of the same numbers are the same, whatever set they were defined for.
LEMMA SumUnique ==
  ASSUME NEW S, NEW R, NEW a, NEW b, NEW g, NEW h, IsSum(g, S, a), IsSum(h, R, b),
         NEW T, IsFiniteSet(T), T \subseteq S, T \subseteq R, \A x \in T : a[x] = b[x]
  PROVE  g[T] = h[T]
<1> DEFINE Sets == {U \in SUBSET T : g[U] # h[U]}
<1>1. SUFFICES ASSUME Sets # {} PROVE FALSE
  OBVIOUS
<1>2. PICK U \in Sets : \A V \in Sets : V \subseteq U => V = U
  <2>1. Sets \in SUBSET (SUBSET T)
    OBVIOUS
  <2> HIDE DEF Sets
  <2> QED
    BY <1>1, <2>1, SmallestSubset
<1>3. U \in SUBSET S /\ U \in SUBSET R /\ U \in SUBSET T /\ g[U] # h[U]
  OBVIOUS
<1>a. \A P \in SUBSET S : /\ P = {} => g[P] = 0
                          /\ P # {} => Some(P) \in P /\ g[P] = a[Some(P)] + g[P \ {Some(P)}]
  BY SumStep
<1>b. \A P \in SUBSET R : /\ P = {} => h[P] = 0
                          /\ P # {} => Some(P) \in P /\ h[P] = b[Some(P)] + h[P \ {Some(P)}]
  BY DEF IsSum, Some
<1>4. U # {} /\ Some(U) \in U
  <2>1. {} \in SUBSET S /\ {} \in SUBSET R
    OBVIOUS
  <2>2. g[{}] = 0 /\ h[{}] = 0
    BY <1>a, <1>b, <2>1, Zenon
  <2>3. U # {}
    BY <1>3, <2>2
  <2> QED
    BY <1>3, <1>a, <2>3
<1>5. PICK W : W = U \ {Some(U)}
  OBVIOUS
<1>6. g[U] = a[Some(U)] + g[W] /\ h[U] = b[Some(U)] + h[W]
  BY <1>3, <1>4, <1>5, <1>a, <1>b
<1>7. g[W] = h[W]
  BY <1>2, <1>3, <1>4, <1>5
<1>8. a[Some(U)] = b[Some(U)]
  BY <1>3, <1>4
<1> QED
  BY <1>3, <1>6, <1>7, <1>8

\* A sum of numbers of a kind that addition does not leave is of that kind.
LEMMA SumType ==
  ASSUME NEW S, IsFiniteSet(S), NEW a, NEW g, IsSum(g, S, a), NEW V,
         0 \in V, \A x, y \in V : x + y \in V, \A x \in S : a[x] \in V
  PROVE  \A T \in SUBSET S : g[T] \in V
<1> DEFINE Sets == {U \in SUBSET S : g[U] \notin V}
<1>1. SUFFICES ASSUME Sets # {} PROVE FALSE
  OBVIOUS
<1>2. PICK U \in Sets : \A W \in Sets : W \subseteq U => W = U
  <2>1. Sets \in SUBSET (SUBSET S)
    OBVIOUS
  <2> HIDE DEF Sets
  <2> QED
    BY <1>1, <2>1, SmallestSubset
<1>3. U \in SUBSET S /\ g[U] \notin V
  OBVIOUS
<1>4. U # {} /\ Some(U) \in U
  BY <1>3, SumStep
<1>5. PICK W : W = U \ {Some(U)}
  OBVIOUS
<1>6. g[U] = a[Some(U)] + g[W]
  <2>1. \A T \in SUBSET S : /\ T = {} => g[T] = 0
                            /\ T # {} => Some(T) \in T /\ g[T] = a[Some(T)] + g[T \ {Some(T)}]
    BY SumStep
  <2> QED
    BY <1>3, <1>4, <1>5, <2>1
<1>7. g[W] \in V
  BY <1>2, <1>3, <1>4, <1>5
<1> QED
  BY <1>3, <1>4, <1>6, <1>7

\* Any member may be the one that is added last.
LEMMA SumAnyOrder ==
  ASSUME NEW S, IsFiniteSet(S), NEW a, NEW g, IsSum(g, S, a), \A x \in S : a[x] \in Int
  PROVE  \A T \in SUBSET S : \A x \in T : g[T] = a[x] + g[T \ {x}]
<1>1. \A T \in SUBSET S : g[T] \in Int
  <2>1. 0 \in Int /\ \A x, y \in Int : x + y \in Int
    OBVIOUS
  <2> QED
    BY <2>1, SumType
<1> DEFINE Sets == {T \in SUBSET S : \E x \in T : g[T] # a[x] + g[T \ {x}]}
<1>2. SUFFICES ASSUME Sets # {} PROVE FALSE
  OBVIOUS
<1>3. PICK T \in Sets : \A W \in Sets : W \subseteq T => W = T
  <2>1. Sets \in SUBSET (SUBSET S)
    OBVIOUS
  <2> HIDE DEF Sets
  <2> QED
    BY <1>2, <2>1, SmallestSubset
<1>4. T \in SUBSET S
  OBVIOUS
<1>5. PICK x \in T : g[T] # a[x] + g[T \ {x}]
  OBVIOUS
<1>6. PICK c : c = Some(T)
  OBVIOUS
<1>7. c \in T /\ g[T] = a[c] + g[T \ {c}]
  BY <1>4, <1>5, <1>6, SumStep
<1>8. c # x
  BY <1>5, <1>7
<1>9. PICK A : A = T \ {c}
  OBVIOUS
<1>10. PICK B : B = T \ {x}
  OBVIOUS
<1>11. /\ A \in SUBSET S /\ A \subseteq T /\ A # T /\ x \in A
       /\ B \in SUBSET S /\ B \subseteq T /\ B # T /\ c \in B
       /\ A \ {x} = B \ {c} /\ A \ {x} \in SUBSET S
  BY <1>4, <1>7, <1>8, <1>9, <1>10
<1>12. g[A] = a[x] + g[A \ {x}]
  BY <1>3, <1>11
<1>13. g[B] = a[c] + g[B \ {c}]
  BY <1>3, <1>11
<1>14. a[x] \in Int /\ a[c] \in Int /\ g[A] \in Int /\ g[B] \in Int /\ g[A \ {x}] \in Int
  BY <1>1, <1>4, <1>7, <1>11
<1>15. PICK rest \in Int : rest = g[A \ {x}] /\ rest = g[B \ {c}]
  BY <1>11, <1>14
<1>16. g[T] = a[c] + (a[x] + rest) /\ a[x] + g[B] = a[x] + (a[c] + rest)
  BY <1>7, <1>9, <1>12, <1>13, <1>15
<1>17. a[c] + (a[x] + rest) = a[x] + (a[c] + rest)
  BY <1>14
<1> QED
  BY <1>5, <1>10, <1>16, <1>17

\* A total is the value of such a recursion.
LEMMA TotalIsSum ==
  ASSUME NEW S, IsFiniteSet(S), NEW a
  PROVE  \E g : IsSum(g, S, a) /\ Total(S, a) = g[S]
  BY SumExists, Zenon DEF Total

\* Whatever solves the recursion gives the total.
LEMMA SumIsTotal ==
  ASSUME NEW S, IsFiniteSet(S), NEW a, NEW h, IsSum(h, S, a)
  PROVE  h[S] = Total(S, a)
<1>1. PICK g : IsSum(g, S, a) /\ Total(S, a) = g[S]
  BY TotalIsSum
<1> QED
  BY <1>1, SumUnique

\* It depends on the numbers of the set alone.
LEMMA TotalSame ==
  ASSUME NEW S, IsFiniteSet(S), NEW a, NEW b, \A x \in S : a[x] = b[x]
  PROVE  Total(S, a) = Total(S, b)
<1>1. PICK g : IsSum(g, S, a) /\ Total(S, a) = g[S]
  BY TotalIsSum
<1>2. PICK h : IsSum(h, S, b) /\ Total(S, b) = h[S]
  BY TotalIsSum
<1>3. g[S] = h[S]
  BY <1>1, <1>2, SumUnique
<1> QED
  BY <1>1, <1>2, <1>3

\* Totals of integers, or of naturals, are of the same kind.
LEMMA TotalType ==
  ASSUME NEW S, IsFiniteSet(S), NEW a
  PROVE  /\ (\A x \in S : a[x] \in Int) => Total(S, a) \in Int
         /\ (\A x \in S : a[x] \in Nat) => Total(S, a) \in Nat
<1>1. PICK g : IsSum(g, S, a) /\ Total(S, a) = g[S]
  BY TotalIsSum
<1>2. /\ 0 \in Int /\ \A x, y \in Int : x + y \in Int
      /\ 0 \in Nat /\ \A x, y \in Nat : x + y \in Nat
  OBVIOUS
<1>3. (\A x \in S : a[x] \in Int) => g[S] \in Int
  BY <1>1, <1>2, SumType
<1>4. (\A x \in S : a[x] \in Nat) => g[S] \in Nat
  BY <1>1, <1>2, SumType
<1> QED
  BY <1>1, <1>3, <1>4

\* Nothing adds up to nothing.
LEMMA TotalOfNone ==
  ASSUME NEW a
  PROVE  Total({}, a) = 0
<1>1. PICK g : IsSum(g, {}, a) /\ Total({}, a) = g[{}]
  BY TotalIsSum, FS_EmptySet
<1> QED
  BY <1>1, SumStep

\* A new member adds its number.
LEMMA TotalGrows ==
  ASSUME NEW S, IsFiniteSet(S), NEW a, NEW x, x \notin S, \A y \in S \cup {x} : a[y] \in Int
  PROVE  Total(S \cup {x}, a) = a[x] + Total(S, a)
<1>1. PICK R : R = S \cup {x}
  OBVIOUS
<1>2. IsFiniteSet(R) /\ R \ {x} = S
  BY <1>1, FS_AddElement
<1>3. PICK g : IsSum(g, R, a) /\ Total(R, a) = g[R]
  BY <1>2, TotalIsSum
<1>4. PICK h : IsSum(h, S, a) /\ Total(S, a) = h[S]
  BY TotalIsSum
<1>5. g[R] = a[x] + g[S]
  <2>1. x \in R /\ R \in SUBSET R /\ \A y \in R : a[y] \in Int
    BY <1>1
  <2> QED
    BY <1>2, <1>3, <2>1, SumAnyOrder
<1>6. g[S] = h[S]
  BY <1>1, <1>3, <1>4, SumUnique
<1> QED
  BY <1>1, <1>3, <1>4, <1>5, <1>6

\* What the model writes for the sum of a function over a set.
LEMMA SumOfFunction ==
  ASSUME NEW S, NEW a
  PROVE  MapThenSumSet(LAMBDA i : a[i], S) = Total(S, a)
  BY Zenon DEF MapThenSumSet, MapThenFoldSet, Total, IsSum, Some

-----------------------------------------------------------------------------
(* Products and quotients: arithmetic with a factor or a divisor that is no literal. *)

LEMMA ProductMonotone ==
  ASSUME NEW a \in Int, NEW b \in Int, NEW c \in Nat, a <= b
  PROVE  a * c <= b * c
  OBVIOUS

LEMMA ProductCancels ==
  ASSUME NEW a \in Int, NEW b \in Int, NEW c \in Nat \ {0}, a * c <= b * c
  PROVE  a <= b
  OBVIOUS

LEMMA ProductCancelsStrictly ==
  ASSUME NEW a \in Int, NEW b \in Int, NEW c \in Nat \ {0}, a * c < b * c
  PROVE  a < b
  OBVIOUS

\* Division rounds down.
LEMMA Quotient ==
  ASSUME NEW a \in Nat, NEW d \in Nat \ {0}
  PROVE  a \div d \in Nat /\ (a \div d) * d <= a /\ a < (a \div d + 1) * d
  OBVIOUS

\* A quotient is at most what times the divisor reaches the dividend.
LEMMA QuotientBelow ==
  ASSUME NEW a \in Nat, NEW d \in Nat \ {0}, NEW k \in Nat, a <= k * d
  PROVE  a \div d <= k
<1> DEFINE q == a \div d
<1>1. q \in Nat /\ q * d <= a
  BY Quotient
<1> HIDE DEF q
<1>2. q * d < (k + 1) * d
  <2>1. k * d \in Nat /\ (k + 1) * d = k * d + d /\ q * d \in Nat
    BY <1>1
  <2> QED BY <1>1, <2>1
<1>3. q < k + 1
  BY <1>1, <1>2, ProductCancelsStrictly
<1>4. q <= k
  BY <1>1, <1>3
<1> QED BY <1>4 DEF q

\* What times the divisor does not exceed the dividend is at most the quotient.
LEMMA QuotientAbove ==
  ASSUME NEW a \in Nat, NEW d \in Nat \ {0}, NEW k \in Nat, k * d <= a
  PROVE  k <= a \div d
<1> DEFINE q == a \div d
<1>1. q \in Nat /\ a < (q + 1) * d
  BY Quotient
<1> HIDE DEF q
<1>2. k * d < (q + 1) * d
  <2>1. k * d \in Nat /\ (q + 1) * d \in Nat
    BY <1>1
  <2> QED BY <1>1, <2>1
<1>3. k < q + 1
  BY <1>1, <1>2, ProductCancelsStrictly
<1>4. k <= q
  BY <1>1, <1>3
<1> QED BY <1>4 DEF q

\* A quotient grows with the dividend and falls with the divisor.
LEMMA QuotientMonotone ==
  ASSUME NEW a \in Nat, NEW b \in Nat, NEW c \in Nat \ {0}, NEW d \in Nat \ {0}, a <= b, d <= c
  PROVE  a \div c <= b \div d
<1> DEFINE q == a \div c
<1>1. q \in Nat /\ q * c <= a
  BY Quotient
<1> HIDE DEF q
<1>2. q * d <= b
  <2>1. d * q <= c * q
    BY <1>1, ProductMonotone
  <2>2. d * q = q * d /\ c * q = q * c /\ q * d \in Nat /\ q * c \in Nat
    BY <1>1
  <2> QED BY <1>1, <2>1, <2>2
<1>3. q <= b \div d
  BY <1>1, <1>2, QuotientAbove
<1> QED BY <1>3 DEF q
=============================================================================
