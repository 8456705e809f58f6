--------------------------- MODULE PlannerProofs ---------------------------
(***************************************************************************)
(* Proofs about the planner: for all archives, divined parameters and      *)
(* limiters, in whatever order the entries are paired, the limits are kept *)
(* and the plans can be executed and undone.                               *)
(***************************************************************************)
EXTENDS PreDiffExecutor, FiniteSetTheorems, TLAPS

Data == INSTANCE PlanLemmas

-----------------------------------------------------------------------------
(***************************************************************************)
(* Sums over finite sets.  FoldSet takes the elements in the order in      *)
(* which CHOOSE finds them; the sum does not depend on it.                 *)
(***************************************************************************)

\* h computes the sums of size over the subsets of T.
SumsUp(h, T, size) ==
  \A s \in SUBSET T :
    h[s] = IF s = {} THEN 0
           ELSE h[s \ {CHOOSE x \in s : TRUE}] + size[CHOOSE x \in s : TRUE]

\* g[s] is the sum of size over s, for the subsets s of S.
IsSum(g, S, size) ==
  g \in [SUBSET S -> Int] /\ SumsUp(g, S, size)

\* Subsets of a finite set: their number of elements, without one of them.
LEMMA Smaller ==
  ASSUME NEW S, IsFiniteSet(S), NEW s \in SUBSET S
  PROVE  /\ IsFiniteSet(s) /\ Cardinality(s) \in Nat
         /\ Cardinality(s) = 0 <=> s = {}
         /\ \A x \in s : s \ {x} \in SUBSET S /\ Cardinality(s \ {x}) = Cardinality(s) - 1
         /\ s # {} => (CHOOSE x \in s : TRUE) \in s
<1>1. IsFiniteSet(s) /\ Cardinality(s) \in Nat
  BY FS_Subset, FS_CardinalityType
<1>2. Cardinality(s) = 0 <=> s = {}
  BY <1>1, FS_EmptySet
<1>3. ASSUME NEW x \in s PROVE s \ {x} \in SUBSET S /\ Cardinality(s \ {x}) = Cardinality(s) - 1
  BY <1>1, FS_RemoveElement
<1> QED BY <1>1, <1>2, <1>3

\* The sums of the subsets of a finite set exist.
LEMMA SumsExist ==
  ASSUME NEW S, IsFiniteSet(S), NEW size, \A x \in S : size[x] \in Int
  PROVE  \E g : IsSum(g, S, size)
<1> DEFINE Chosen(s) == CHOOSE x \in s : TRUE
           Small(n) == {s \in SUBSET S : Cardinality(s) <= n}
           Value(g, s) == IF s = {} THEN 0 ELSE g[s \ {Chosen(s)}] + size[Chosen(s)]
           Sums(g, n) == g \in [Small(n) -> Int] /\ \A s \in Small(n) : g[s] = Value(g, s)
           N == {n \in Nat : \E g : Sums(g, n)}
<1>1. 0 \in N
  <2> DEFINE g == [s \in Small(0) |-> 0]
  <2>1. \A s \in Small(0) : s = {}
    BY Smaller
  <2>2. Sums(g, 0)
    BY <2>1
  <2> HIDE DEF g, Sums
  <2> QED BY <2>2
<1>2. ASSUME NEW n \in Nat, n \in N PROVE n + 1 \in N
  <2>1. PICK g : Sums(g, n)
    BY <1>2
  <2> DEFINE h == [s \in Small(n + 1) |-> Value(g, s)]
  <2>2. ASSUME NEW s \in Small(n + 1), s # {}
        PROVE  s \ {Chosen(s)} \in Small(n) /\ Chosen(s) \in S
    <3>1. /\ Chosen(s) \in s /\ Cardinality(s) \in Nat
          /\ s \ {Chosen(s)} \in SUBSET S
          /\ Cardinality(s \ {Chosen(s)}) = Cardinality(s) - 1
      BY <2>2, Smaller
    <3> QED BY <3>1
  <2>3. h \in [Small(n + 1) -> Int]
    <3> SUFFICES ASSUME NEW s \in Small(n + 1) PROVE Value(g, s) \in Int
      OBVIOUS
    <3>1. CASE s = {}
      BY <3>1
    <3>2. CASE s # {}
      <4>1. g[s \ {Chosen(s)}] \in Int /\ size[Chosen(s)] \in Int
        BY <2>1, <2>2, <3>2
      <4> QED BY <3>2, <4>1
    <3> QED BY <3>1, <3>2
  <2>4. ASSUME NEW s \in Small(n) PROVE s \in Small(n + 1) /\ h[s] = g[s]
    <3>1. s \in Small(n + 1)
      BY Smaller
    <3>2. g[s] = Value(g, s)
      BY <2>1
    <3> QED BY <3>1, <3>2
  <2>5. ASSUME NEW s \in Small(n + 1) PROVE h[s] = Value(h, s)
    <3>1. CASE s = {}
      BY <3>1
    <3>2. CASE s # {}
      <4>1. h[s \ {Chosen(s)}] = g[s \ {Chosen(s)}]
        BY <2>2, <2>4, <3>2
      <4>2. h[s] = Value(g, s)
        OBVIOUS
      <4> HIDE DEF h
      <4> QED BY <3>2, <4>1, <4>2
    <3> QED BY <3>1, <3>2
  <2>6. Sums(h, n + 1)
    BY <2>3, <2>5
  <2> HIDE DEF h, Sums
  <2> QED BY <2>6
<1>3. Nat \subseteq N
  <2> HIDE DEF N
  <2> QED BY <1>1, <1>2, Data!SetInduction
<1>4. Cardinality(S) \in N
  BY <1>3, FS_CardinalityType
<1>5. PICK g : Sums(g, Cardinality(S))
  BY <1>4
<1>6. Small(Cardinality(S)) = SUBSET S
  BY FS_Subset
<1>7. IsSum(g, S, size)
  BY <1>5, <1>6 DEF IsSum, SumsUp
<1> QED BY <1>7

\* Only one function does: the sum of a subset depends on the subset.
LEMMA SumIsUnique ==
  ASSUME NEW S, IsFiniteSet(S), NEW size, NEW g, IsSum(g, S, size),
         NEW T \in SUBSET S, NEW h, SumsUp(h, T, size)
  PROVE  \A s \in SUBSET T : h[s] = g[s]
<1> DEFINE N == {n \in Nat : \A s \in SUBSET T : Cardinality(s) = n => h[s] = g[s]}
<1>1. 0 \in N
  <2> SUFFICES ASSUME NEW s \in SUBSET T, Cardinality(s) = 0 PROVE h[s] = g[s]
    OBVIOUS
  <2>1. s = {} /\ s \in SUBSET S
    BY Smaller
  <2> QED BY <2>1 DEF IsSum, SumsUp
<1>2. ASSUME NEW n \in Nat, n \in N PROVE n + 1 \in N
  <2> SUFFICES ASSUME NEW s \in SUBSET T, Cardinality(s) = n + 1 PROVE h[s] = g[s]
    OBVIOUS
  <2> DEFINE c == CHOOSE x \in s : TRUE
  <2>1. s \in SUBSET S
    OBVIOUS
  <2>2. s # {} /\ c \in s /\ Cardinality(s \ {c}) = n
    <3>1. s # {}
      BY <2>1, Smaller
    <3>2. c \in s
      BY <3>1
    <3>3. Cardinality(s \ {c}) = Cardinality(s) - 1
      BY <2>1, <3>2, Smaller
    <3> QED BY <3>1, <3>2, <3>3
  <2>3. h[s \ {c}] = g[s \ {c}]
    BY <1>2, <2>2
  <2>4. h[s] = h[s \ {c}] + size[c]
    BY <2>2 DEF SumsUp
  <2>5. g[s] = g[s \ {c}] + size[c]
    BY <2>1, <2>2 DEF IsSum, SumsUp
  <2> QED BY <2>3, <2>4, <2>5
<1>3. Nat \subseteq N
  <2> HIDE DEF N
  <2> QED BY <1>1, <1>2, Data!SetInduction
<1> SUFFICES ASSUME NEW s \in SUBSET T PROVE h[s] = g[s]
  OBVIOUS
<1>4. Cardinality(s) \in N
  BY <1>3, Smaller
<1> QED BY <1>4

\* SumOver computes them.
LEMMA SumOverIsSum ==
  ASSUME NEW S, IsFiniteSet(S), NEW size, NEW g, IsSum(g, S, size), NEW T \in SUBSET S
  PROVE  SumOver(T, size) = g[T]
<1> DEFINE F(f) == [s \in SUBSET T |->
             IF s = {} THEN 0
             ELSE f[s \ {CHOOSE x \in s : TRUE}] + size[CHOOSE x \in s : TRUE]]
           iter == CHOOSE f : f = F(f)
<1>1. SumOver(T, size) = iter[T]
  BY DEF SumOver, FoldSet, MapThenFoldSet
<1>2. iter = F(iter)
  <2> DEFINE f == [s \in SUBSET T |-> g[s]]
  <2>1. ASSUME NEW s \in SUBSET T
        PROVE  f[s] = IF s = {} THEN 0
                      ELSE f[s \ {CHOOSE x \in s : TRUE}] + size[CHOOSE x \in s : TRUE]
    BY DEF IsSum, SumsUp
  <2>2. f = F(f)
    BY <2>1
  <2> HIDE DEF F, f
  <2> QED BY <2>2
<1>3. PICK h : SumOver(T, size) = h[T] /\ h = F(h)
  <2> HIDE DEF iter, F
  <2> QED BY <1>1, <1>2
<1>4. SumsUp(h, T, size)
  BY <1>3 DEF SumsUp
<1>5. \A s \in SUBSET T : h[s] = g[s]
  BY <1>4, SumIsUnique
<1> QED BY <1>3, <1>5

\* Whichever element is taken away, its size is what the sum loses.
LEMMA SumWithout ==
  ASSUME NEW S, IsFiniteSet(S), NEW size, \A x \in S : size[x] \in Int,
         NEW g, IsSum(g, S, size)
  PROVE  \A s \in SUBSET S : \A x \in s : g[s] = g[s \ {x}] + size[x]
<1> DEFINE N == {n \in Nat : \A s \in SUBSET S : Cardinality(s) = n =>
                   \A x \in s : g[s] = g[s \ {x}] + size[x]}
<1>1. 0 \in N
  <2> SUFFICES ASSUME NEW s \in SUBSET S, Cardinality(s) = 0, NEW x \in s PROVE FALSE
    OBVIOUS
  <2> QED BY Smaller
<1>2. ASSUME NEW n \in Nat, n \in N PROVE n + 1 \in N
  <2> SUFFICES ASSUME NEW s \in SUBSET S, Cardinality(s) = n + 1, NEW x \in s
               PROVE  g[s] = g[s \ {x}] + size[x]
    OBVIOUS
  <2> DEFINE c == CHOOSE y \in s : TRUE
  <2>1. c \in s
    OBVIOUS
  <2>2. g[s] = g[s \ {c}] + size[c]
    BY <2>1 DEF IsSum, SumsUp
  <2> HIDE DEF c
  <2>3. CASE x = c
    BY <2>2, <2>3
  <2>4. CASE x # c
    <3>1. /\ s \ {x} \in SUBSET S /\ Cardinality(s \ {x}) = n
          /\ s \ {c} \in SUBSET S /\ Cardinality(s \ {c}) = n
      <4>1. /\ s \ {x} \in SUBSET S /\ Cardinality(s \ {x}) = Cardinality(s) - 1
        BY Smaller
      <4>2. s \ {c} \in SUBSET S /\ Cardinality(s \ {c}) = Cardinality(s) - 1
        BY <2>1, Smaller
      <4> QED BY <4>1, <4>2
    <3>2. g[s \ {c}] = g[(s \ {c}) \ {x}] + size[x]
      BY <1>2, <2>4, <3>1
    <3>3. g[s \ {x}] = g[(s \ {x}) \ {c}] + size[c]
      BY <1>2, <2>1, <2>4, <3>1
    <3>4. (s \ {x}) \ {c} = (s \ {c}) \ {x}
      OBVIOUS
    <3>5. g[(s \ {c}) \ {x}] \in Int /\ size[x] \in Int /\ size[c] \in Int
      <4>1. (s \ {c}) \ {x} \in SUBSET S
        OBVIOUS
      <4> QED BY <2>1, <4>1 DEF IsSum, SumsUp
    <3> DEFINE both == g[(s \ {c}) \ {x}]
    <3>6. g[s] = (both + size[x]) + size[c] /\ g[s \ {x}] = both + size[c]
      BY <2>2, <3>2, <3>3, <3>4
    <3>7. both \in Int
      BY <3>5
    <3> HIDE DEF both
    <3>8. (both + size[x]) + size[c] = (both + size[c]) + size[x]
      BY <3>5, <3>7
    <3> QED BY <3>6, <3>8
  <2> QED BY <2>3, <2>4
<1>3. Nat \subseteq N
  <2> HIDE DEF N
  <2> QED BY <1>1, <1>2, Data!SetInduction
<1> SUFFICES ASSUME NEW s \in SUBSET S PROVE \A x \in s : g[s] = g[s \ {x}] + size[x]
  OBVIOUS
<1>4. Cardinality(s) \in N
  BY <1>3, Smaller
<1> QED BY <1>4

\* The sum over no elements, and over one more.
LEMMA SumOverGrows ==
  ASSUME NEW S, IsFiniteSet(S), NEW size, \A x \in S : size[x] \in Int
  PROVE  /\ SumOver({}, size) = 0
         /\ \A T \in SUBSET S : SumOver(T, size) \in Int
         /\ \A T \in SUBSET S, x \in S :
              x \notin T => SumOver(T \union {x}, size) = SumOver(T, size) + size[x]
<1>1. PICK g : IsSum(g, S, size)
  BY SumsExist
<1>2. ASSUME NEW T \in SUBSET S PROVE SumOver(T, size) = g[T]
  BY <1>1, SumOverIsSum
<1>3. SumOver({}, size) = 0
  BY <1>1, <1>2 DEF IsSum, SumsUp
<1>4. \A T \in SUBSET S : SumOver(T, size) \in Int
  BY <1>1, <1>2 DEF IsSum, SumsUp
<1>5. ASSUME NEW T \in SUBSET S, NEW x \in S, x \notin T
      PROVE  SumOver(T \union {x}, size) = SumOver(T, size) + size[x]
  <2>1. (T \union {x}) \ {x} = T
    BY <1>5
  <2>2. g[T \union {x}] = g[(T \union {x}) \ {x}] + size[x]
    BY <1>1, SumWithout
  <2> QED BY <1>2, <2>1, <2>2
<1> QED BY <1>3, <1>4, <1>5

\* With no size below zero, a set has at least the sum of a subset.
LEMMA SumOverMonotone ==
  ASSUME NEW S, IsFiniteSet(S), NEW size, \A x \in S : size[x] \in Nat, NEW T \in SUBSET S
  PROVE  0 <= SumOver(T, size) /\ SumOver(T, size) <= SumOver(S, size)
<1> DEFINE Natural == {U \in SUBSET S : 0 <= SumOver(U, size)}
           Larger == {U \in SUBSET S : SumOver(T, size) <= SumOver(T \union U, size)}
<1>1. /\ SumOver({}, size) = 0
      /\ \A U \in SUBSET S : SumOver(U, size) \in Int
      /\ \A U \in SUBSET S, x \in S :
           x \notin U => SumOver(U \union {x}, size) = SumOver(U, size) + size[x]
  BY SumOverGrows
<1>2. \A U \in SUBSET S, x \in S :
        SumOver(U, size) <= SumOver(U \union {x}, size)
  <2> SUFFICES ASSUME NEW U \in SUBSET S, NEW x \in S
               PROVE  SumOver(U, size) <= SumOver(U \union {x}, size)
    OBVIOUS
  <2>1. CASE x \in U
    <3>1. U \union {x} = U
      BY <2>1
    <3>2. SumOver(U \union {x}, size) = SumOver(U, size)
      BY <3>1, Zenon
    <3>3. SumOver(U, size) \in Int
      BY <1>1
    <3> QED BY <3>2, <3>3
  <2>2. CASE x \notin U
    <3>1. SumOver(U \union {x}, size) = SumOver(U, size) + size[x]
      BY <1>1, <2>2
    <3>2. SumOver(U, size) \in Int
      BY <1>1
    <3>3. size[x] \in Nat
      OBVIOUS
    <3> DEFINE u == SumOver(U, size)
    <3>4. SumOver(U \union {x}, size) = u + size[x] /\ u \in Int
      BY <3>1, <3>2
    <3> HIDE DEF u
    <3>5. u <= u + size[x]
      BY <3>3, <3>4
    <3> QED BY <3>4, <3>5 DEF u
  <2> QED BY <2>1, <2>2
<1>3. SUBSET S \subseteq Natural
  <2>1. {} \in Natural
    BY <1>1
  <2>2. \A U \in SUBSET S, x \in S : U \in Natural => U \union {x} \in Natural
    BY <1>1, <1>2
  <2> HIDE DEF Natural
  <2> QED BY <2>1, <2>2, Data!SubsetInduction DEF IsFiniteSet, Data!IsFiniteSet
<1>4. SUBSET S \subseteq Larger
  <2>1. {} \in Larger
    <3>1. T \union {} = T
      OBVIOUS
    <3> QED BY <1>1, <3>1
  <2>2. ASSUME NEW U \in SUBSET S, NEW x \in S, U \in Larger PROVE U \union {x} \in Larger
    <3>1. T \union (U \union {x}) = (T \union U) \union {x} /\ T \union U \in SUBSET S
      OBVIOUS
    <3>2. SumOver(T \union U, size) <= SumOver((T \union U) \union {x}, size)
      BY <1>2, <3>1
    <3>3. (T \union U) \union {x} \in SUBSET S
      OBVIOUS
    <3>4. /\ SumOver(T, size) \in Int /\ SumOver(T \union U, size) \in Int
          /\ SumOver((T \union U) \union {x}, size) \in Int
      BY <1>1, <3>1, <3>3
    <3>5. SumOver(T, size) <= SumOver(T \union U, size)
      BY <2>2
    <3>6. SumOver(T, size) <= SumOver((T \union U) \union {x}, size)
      BY <3>2, <3>4, <3>5
    <3> QED BY <3>1, <3>6
  <2> HIDE DEF Larger
  <2> QED BY <2>1, <2>2, Data!SubsetInduction DEF IsFiniteSet, Data!IsFiniteSet
<1>5. T \union S = S
  OBVIOUS
<1> QED BY <1>3, <1>4, <1>5

-----------------------------------------------------------------------------
(***************************************************************************)
(* Sorting.                                                                *)
(***************************************************************************)

\* A finite set has a list of its elements in the order R.
LEMMA ListExists ==
  ASSUME NEW S, IsFiniteSet(S), NEW R, Data!Orders(R, S)
  PROVE  \E f : Data!Enumerates(f, Cardinality(S), S, R)
<1>1. PICK n \in Nat : \E f : Data!Enumerates(f, n, S, R)
  BY Data!EnumerationExists DEF IsFiniteSet, Data!IsFiniteSet
<1>2. PICK f : Data!Enumerates(f, n, S, R)
  BY <1>1
<1>3. /\ f \in [1..n -> S]
      /\ \A i, j \in 1..n : i < j => <<f[i], f[j]>> \in R
      /\ \A x \in S : \E i \in 1..n : f[i] = x
  BY <1>2 DEF Data!Enumerates
<1>4. ASSUME NEW i \in 1..n, NEW j \in 1..n, f[i] = f[j] PROVE i = j
  <2>1. <<f[i], f[i]>> \notin R
    BY <1>3 DEF Data!Orders
  <2> QED BY <1>3, <1>4, <2>1
<1>5. f \in Bijection(1..n, S)
  BY <1>3, <1>4 DEF Bijection, Injection, Surjection, IsInjective
<1>6. IsFiniteSet(1..n) /\ Cardinality(1..n) = n
  BY FS_Interval
<1>7. Cardinality(S) = n
  BY <1>5, <1>6, FS_Bijection DEF ExistsBijection
<1> QED BY <1>2, <1>7

\* InFileOrder lists ranges of different offsets by their offsets.
LEMMA FileOrder ==
  ASSUME NEW some, IsFiniteSet(some), \A r \in some : r.offset \in Int,
         \A r, s \in some : r.offset = s.offset => r = s
  PROVE  LET list == InFileOrder(some)
         IN /\ list \in [1..Cardinality(some) -> some]
            /\ \A i, j \in 1..Cardinality(some) : i < j => list[i].offset < list[j].offset
            /\ \A r \in some : \E i \in 1..Cardinality(some) : list[i] = r
<1> DEFINE n == Cardinality(some)
           R == {w \in some \X some : w[1].offset < w[2].offset}
           Sorted(f) == \A i, j \in DOMAIN f : i < j => f[i].offset < f[j].offset
           list == InFileOrder(some)
<1>1. Data!Orders(R, some)
  BY DEF Data!Orders
<1>2. PICK f \in [1..n -> some] :
        /\ \A i, j \in 1..n : i < j => <<f[i], f[j]>> \in R
        /\ \A r \in some : \E i \in 1..n : f[i] = r
  <2> HIDE DEF R
  <2>1. PICK f : Data!Enumerates(f, n, some, R)
    BY <1>1, ListExists
  <2> QED BY <2>1 DEF Data!Enumerates
<1>3. Sorted(f)
  BY <1>2
<1>4. list \in [1..n -> some] /\ Sorted(list)
  BY <1>3 DEF InFileOrder
<1> HIDE DEF list
<1>5. ASSUME NEW i \in 1..n, NEW j \in 1..n, list[i] = list[j] PROVE i = j
  <2> SUFFICES ASSUME i # j PROVE FALSE
    OBVIOUS
  <2>1. list[i].offset \in Int
    BY <1>4
  <2>2. CASE i < j
    BY <1>4, <1>5, <2>1, <2>2
  <2>3. CASE j < i
    BY <1>4, <1>5, <2>1, <2>3
  <2> QED BY <2>2, <2>3
<1>6. list \in Injection(1..n, some)
  BY <1>4, <1>5 DEF Injection, IsInjective
<1>7. n \in Nat
  BY FS_CardinalityType
<1>8. IsFiniteSet(1..n) /\ Cardinality(1..n) = n
  BY <1>7, FS_Interval
<1>9. list \in Surjection(1..n, some)
  BY <1>6, <1>8, FS_Injection
<1>10. \A r \in some : \E i \in 1..n : list[i] = r
  BY <1>9 DEF Surjection
<1> QED BY <1>4, <1>10 DEF list

\* Decreasing lists the recommendations in another order.
LEMMA DecreasingPermutes ==
  ASSUME NEW n \in Nat, DOMAIN recommendations = 1..n, NEW size,
         \A k \in 1..n : size[recommendations[k]] \in Int
  PROVE  \E p \in Bijection(1..n, 1..n) :
           Decreasing(size) = [k \in 1..n |-> recommendations[p[k]]]
<1> DEFINE Key(k) == size[recommendations[k]]
           Before(k, l) == Key(k) > Key(l) \/ (Key(k) = Key(l) /\ k > l)
           R == {w \in (1..n) \X (1..n) : Before(w[1], w[2])}
           D == DOMAIN recommendations
           Sorted(p) == \A k, l \in D : k < l => Before(p[k], p[l])
           order == CHOOSE p \in Bijection(D, D) : Sorted(p)
<1>1. Data!Orders(R, 1..n)
  <2> HIDE DEF Key
  <2>1. \A k \in 1..n : Key(k) \in Int
    BY DEF Key
  <2>2. \A k \in 1..n : <<k, k>> \notin R
    BY <2>1
  <2>3. ASSUME NEW k \in 1..n, NEW l \in 1..n, NEW m \in 1..n, <<k, l>> \in R, <<l, m>> \in R
        PROVE  <<k, m>> \in R
    <3>1. Key(k) \in Int /\ Key(l) \in Int /\ Key(m) \in Int
      BY <2>1
    <3>2. Before(k, l) /\ Before(l, m)
      BY <2>3
    <3>3. Before(k, m)
      BY <3>1, <3>2
    <3> HIDE DEF Before
    <3> QED BY <3>3
  <2>4. ASSUME NEW k \in 1..n, NEW l \in 1..n
        PROVE  k = l \/ <<k, l>> \in R \/ <<l, k>> \in R
    <3>1. Key(k) \in Int /\ Key(l) \in Int
      BY <2>1
    <3>2. k = l \/ Before(k, l) \/ Before(l, k)
      BY <3>1
    <3> HIDE DEF Before
    <3> QED BY <3>2
  <2> HIDE DEF R
  <2> QED BY <2>2, <2>3, <2>4 DEF Data!Orders
<1>2. IsFiniteSet(1..n) /\ Cardinality(1..n) = n
  BY FS_Interval
<1>3. PICK f \in [1..n -> 1..n] :
        /\ \A k, l \in 1..n : k < l => <<f[k], f[l]>> \in R
        /\ \A m \in 1..n : \E k \in 1..n : f[k] = m
  <2> HIDE DEF R
  <2>1. PICK f : Data!Enumerates(f, Cardinality(1..n), 1..n, R)
    BY <1>1, <1>2, ListExists
  <2>2. Data!Enumerates(f, n, 1..n, R)
    BY <1>2, <2>1
  <2> QED BY <2>2 DEF Data!Enumerates
<1>4. f \in Surjection(1..n, 1..n)
  BY <1>3 DEF Surjection
<1>5. f \in Bijection(1..n, 1..n)
  BY <1>2, <1>4, FS_Surjection DEF Bijection
<1>6. Sorted(f)
  <2> HIDE DEF Before
  <2> QED BY <1>3
<1>7. order \in Bijection(D, D)
  <2> HIDE DEF Sorted
  <2> QED BY <1>5, <1>6
<1>8. Decreasing(size) = [k \in D |-> recommendations[order[k]]]
  BY Zenon DEF Decreasing
<1> HIDE DEF order
<1> QED BY <1>7, <1>8

-----------------------------------------------------------------------------
(***************************************************************************)
(* The greedy loop of the limiters.                                        *)
(***************************************************************************)

\* left[k] is what the budget has left after k recommendations of sorted.
IsLeft(left, n, sorted, counted, cost, budget) ==
  /\ left \in [0..n -> Int]
  /\ left[0] = budget
  /\ \A k \in 1..n :
       left[k] = IF sorted[k] \in counted /\ Fits(left[k - 1], cost[sorted[k]])
                 THEN left[k - 1] - cost[sorted[k]] ELSE left[k - 1]

\* result is sorted, with those refused that do not fit.
IsServed(left, n, sorted, counted, cost, budget, result) ==
  /\ IsLeft(left, n, sorted, counted, cost, budget)
  /\ result = [k \in 1..n |->
                IF sorted[k] \in counted /\ ~Fits(left[k - 1], cost[sorted[k]])
                THEN Refused(sorted[k]) ELSE sorted[k]]

\* The loop computes it, and refuses what does not fit.
LEMMA LimitedLoop ==
  ASSUME NEW n \in Nat, NEW W, NEW sorted \in [1..n -> W], NEW counted, NEW cost,
         \A k \in 1..n : cost[sorted[k]] \in Int, NEW budget \in Int
  PROVE  \E left :
           IsServed(left, n, sorted, counted, cost, budget,
                    Limited(sorted, counted, cost, budget))
<1> DEFINE V == Int
           After(k, v) == IF sorted[k] \in counted /\ Fits(v, cost[sorted[k]])
                          THEN v - cost[sorted[k]] ELSE v
           steps == [k \in 1..n |-> [v \in Int |-> After(k, v)]]
           F(f) == [k \in 0..Len(sorted) |->
                      IF k = 0 THEN budget
                      ELSE IF sorted[k] \in counted /\ Fits(f[k - 1], cost[sorted[k]])
                           THEN f[k - 1] - cost[sorted[k]] ELSE f[k - 1]]
           iter == CHOOSE f : f = F(f)
           Result(f) == [k \in 1..n |->
                   IF sorted[k] \in counted /\ ~Fits(f[k - 1], cost[sorted[k]])
                   THEN Refused(sorted[k]) ELSE sorted[k]]
<1>1. Len(sorted) = n /\ DOMAIN sorted = 1..n
  OBVIOUS
<1>2. steps \in [1..n -> [V -> V]] /\ budget \in V
  <2> SUFFICES ASSUME NEW k \in 1..n, NEW v \in Int PROVE After(k, v) \in Int
    OBVIOUS
  <2> QED OBVIOUS
<1>3. PICK h : Data!IsRecursion(h, n, V, budget, steps)
  <2> HIDE DEF V, steps
  <2> QED BY <1>2, Data!RecursionExists
<1>4. h \in [0..n -> Int] /\ h[0] = budget
  BY <1>3 DEF Data!IsRecursion
<1>5. ASSUME NEW k \in 1..n PROVE h[k - 1] \in Int /\ h[k] = After(k, h[k - 1])
  <2>1. h[k - 1] \in Int
    BY <1>4
  <2>2. h[k] = steps[k][h[k - 1]]
    BY <1>3 DEF Data!IsRecursion
  <2> QED BY <2>1, <2>2
<1>6. h = F(h)
  <2>1. ASSUME NEW k \in 0..n PROVE h[k] = F(h)[k]
    <3>1. k # 0 => k \in 1..n
      OBVIOUS
    <3> QED BY <1>1, <1>4, <1>5, <3>1
  <2>2. DOMAIN h = 0..n /\ DOMAIN F(h) = 0..n
    BY <1>1, <1>4
  <2> QED BY <1>1, <1>4, <2>1, <2>2
<1>7. Limited(sorted, counted, cost, budget) = Result(iter)
  BY <1>1, Zenon DEF Limited
<1>8. PICK left : left = F(left) /\ Limited(sorted, counted, cost, budget) = Result(left)
  <2>1. iter = F(iter)
    <3> HIDE DEF F
    <3> QED BY <1>6
  <2> HIDE DEF iter, F, Result
  <2> QED BY <1>7, <2>1
<1>9. left[0] = budget /\ \A k \in 1..n : left[k] = After(k, left[k - 1])
  BY <1>1, <1>8
<1>10. \A k \in 0..n : left[k] \in Int
  <2> DEFINE T == {k \in 0..n : left[k] \in Int}
  <2>1. 0 \in T
    BY <1>9
  <2>2. \A k \in 0..(n - 1) : k \in T => k + 1 \in T
    <3> SUFFICES ASSUME NEW k \in 0..(n - 1), k \in T PROVE left[k + 1] \in Int
      OBVIOUS
    <3>1. k + 1 \in 1..n /\ (k + 1) - 1 = k
      OBVIOUS
    <3>2. left[k + 1] = After(k + 1, left[k])
      BY <1>9, <3>1
    <3>3. cost[sorted[k + 1]] \in Int
      BY <3>1
    <3> QED BY <3>2, <3>3
  <2> HIDE DEF T
  <2>3. 0..n \subseteq T
    BY <2>1, <2>2, Data!IntervalInduction
  <2> QED BY <2>3 DEF T
<1>11. left \in [0..n -> Int]
  BY <1>1, <1>8, <1>10
<1>12. IsLeft(left, n, sorted, counted, cost, budget)
  BY <1>9, <1>11 DEF IsLeft
<1>13. IsServed(left, n, sorted, counted, cost, budget,
                Limited(sorted, counted, cost, budget))
  BY <1>8, <1>12, Zenon DEF IsServed
<1> QED BY <1>13

\* A budget that is not negative stays so, and no cost below zero makes it
\* grow; one that is negative serves nothing that costs something.
LEMMA LeftBounds ==
  ASSUME NEW n \in Nat, NEW sorted, NEW counted, NEW cost, NEW budget \in Int,
         \A k \in 1..n : cost[sorted[k]] \in Int,
         NEW left, IsLeft(left, n, sorted, counted, cost, budget)
  PROVE  /\ budget >= 0 => \A k \in 0..n : left[k] >= 0
         /\ (\A k \in 1..n : cost[sorted[k]] >= 0) =>
              /\ \A k \in 1..n : left[n] <= left[k - 1]
              /\ budget < 0 => \A k \in 1..n : ~Fits(left[k - 1], cost[sorted[k]])
<1>1. /\ \A k \in 0..n : left[k] \in Int
      /\ left[0] = budget
  BY DEF IsLeft
<1>2. ASSUME NEW k \in 0..(n - 1)
      PROVE  /\ left[k] \in Int /\ left[k + 1] \in Int
             /\ cost[sorted[k + 1]] \in Int
             /\ left[k + 1] = IF /\ sorted[k + 1] \in counted
                                 /\ Fits(left[k], cost[sorted[k + 1]])
                              THEN left[k] - cost[sorted[k + 1]] ELSE left[k]
  <2>1. k + 1 \in 1..n /\ k \in 0..n /\ k + 1 \in 0..n /\ (k + 1) - 1 = k
    OBVIOUS
  <2>2. left[k + 1] = IF /\ sorted[k + 1] \in counted
                         /\ Fits(left[(k + 1) - 1], cost[sorted[k + 1]])
                      THEN left[(k + 1) - 1] - cost[sorted[k + 1]] ELSE left[(k + 1) - 1]
    BY <2>1 DEF IsLeft
  <2> QED BY <1>1, <2>1, <2>2
<1>3. ASSUME budget >= 0 PROVE \A k \in 0..n : left[k] >= 0
  <2> DEFINE T == {k \in 0..n : left[k] >= 0}
  <2>1. 0 \in T
    BY <1>1, <1>3
  <2>2. ASSUME NEW k \in 0..(n - 1), k \in T PROVE k + 1 \in T
    <3>1. left[k + 1] >= 0
      BY <1>2, <2>2 DEF Fits
    <3> QED BY <3>1
  <2> HIDE DEF T
  <2>3. 0..n \subseteq T
    BY <2>1, <2>2, Data!IntervalInduction
  <2> QED BY <2>3 DEF T
<1>4. ASSUME \A k \in 1..n : cost[sorted[k]] >= 0
      PROVE  /\ \A k \in 1..n : left[n] <= left[k - 1]
             /\ budget < 0 => \A k \in 1..n : ~Fits(left[k - 1], cost[sorted[k]])
  <2>1. ASSUME NEW k \in 0..(n - 1) PROVE left[k + 1] <= left[k]
    <3>1. cost[sorted[k + 1]] >= 0
      BY <1>4
    <3> QED BY <1>2, <3>1
  <2> DEFINE T == {k \in 0..n : \A j \in 0..k : left[k] <= left[j]}
  <2>2. 0 \in T
    BY <1>1
  <2>3. ASSUME NEW k \in 0..(n - 1), k \in T PROVE k + 1 \in T
    <3> SUFFICES ASSUME NEW j \in 0..(k + 1) PROVE left[k + 1] <= left[j]
      OBVIOUS
    <3>1. CASE j = k + 1
      BY <1>1, <3>1
    <3>2. CASE j # k + 1
      <4>1. j \in 0..k /\ j \in 0..n
        BY <3>2
      <4>2. left[k] <= left[j] /\ left[j] \in Int
        BY <1>1, <2>3, <4>1
      <4> QED BY <1>2, <2>1, <4>2
    <3> QED BY <3>1, <3>2
  <2> HIDE DEF T
  <2>4. 0..n \subseteq T
    BY <2>2, <2>3, Data!IntervalInduction
  <2>5. \A k \in 1..n : left[n] <= left[k - 1]
    BY <2>4 DEF T
  <2>6. ASSUME budget < 0, NEW k \in 1..n PROVE ~Fits(left[k - 1], cost[sorted[k]])
    <3>1. k - 1 \in T /\ 0 \in 0..(k - 1)
      BY <2>4
    <3>2. left[k - 1] <= left[0]
      BY <3>1 DEF T
    <3>3. left[k - 1] \in Int /\ left[k - 1] < 0
      BY <1>1, <2>6, <3>2
    <3>4. cost[sorted[k]] >= 0 /\ cost[sorted[k]] \in Int
      BY <1>4
    <3> QED BY <3>3, <3>4 DEF Fits
  <2> QED BY <2>5, <2>6
<1> QED BY <1>3, <1>4

\* The entries of what is kept have sizes that add up to what is spent if no
\* entry comes twice, and to no more if some do.
IsSpent(spent, entry, kept, E, size) ==
  LET sum == SumOver({entry[k] : k \in kept}, size)
  IN /\ sum \in Int
     /\ (\A j, k \in kept : entry[j] = entry[k] => j = k) => sum = spent
     /\ (\A x \in E : size[x] >= 0) => sum <= spent

\* What the budget loses is the sum of the sizes of the entries kept.
LEMMA GreedySum ==
  ASSUME NEW n \in Nat, NEW E, IsFiniteSet(E), NEW size, \A x \in E : size[x] \in Int,
         NEW entry \in [1..n -> E], NEW kept \in SUBSET (1..n), NEW left \in [0..n -> Int],
         \A k \in 1..n : left[k] = IF k \in kept THEN left[k - 1] - size[entry[k]]
                                   ELSE left[k - 1]
  PROVE  IsSpent(left[0] - left[n], entry, kept, E, size)
<1> DEFINE Taken(k) == {entry[j] : j \in {m \in kept : m <= k}}
           Sum(k) == SumOver(Taken(k), size)
<1>1. /\ SumOver({}, size) = 0
      /\ \A T \in SUBSET E : SumOver(T, size) \in Int
      /\ \A T \in SUBSET E, x \in E :
           x \notin T => SumOver(T \union {x}, size) = SumOver(T, size) + size[x]
  BY SumOverGrows
<1>2. \A k \in 0..n : Taken(k) \in SUBSET E
  OBVIOUS
<1>3. Taken(0) = {} /\ Taken(n) = {entry[k] : k \in kept}
  OBVIOUS
<1>4. ASSUME NEW k \in 0..(n - 1)
      PROVE  /\ k + 1 \notin kept => Taken(k + 1) = Taken(k)
             /\ k + 1 \in kept => Taken(k + 1) = Taken(k) \union {entry[k + 1]}
  <2>1. \A m \in kept : m <= k + 1 <=> m <= k \/ m = k + 1
    OBVIOUS
  <2>2. k + 1 <= k + 1
    OBVIOUS
  <2> QED BY <2>1, <2>2, Zenon
<1>5. ASSUME NEW k \in 0..(n - 1)
      PROVE  /\ left[k] \in Int /\ left[k + 1] \in Int /\ entry[k + 1] \in E
             /\ left[k + 1] = IF k + 1 \in kept THEN left[k] - size[entry[k + 1]] ELSE left[k]
  <2>1. k + 1 \in 1..n /\ (k + 1) - 1 = k
    OBVIOUS
  <2>2. left[k + 1] = IF k + 1 \in kept THEN left[(k + 1) - 1] - size[entry[k + 1]]
                      ELSE left[(k + 1) - 1]
    BY <2>1
  <2> QED BY <2>1, <2>2
<1>6. \A k \in 0..n : Sum(k) \in Int
  <2> HIDE DEF Taken
  <2> QED BY <1>1, <1>2
<1>7. left[0] \in Int /\ left[n] \in Int
  OBVIOUS
<1> HIDE DEF Taken
<1>8. Sum(0) = 0
  BY <1>1, <1>3
<1>9. ASSUME \A j, k \in kept : entry[j] = entry[k] => j = k
      PROVE  Sum(n) = left[0] - left[n]
  <2> DEFINE Exact == {k \in 0..n : Sum(k) = left[0] - left[k]}
  <2>1. 0 \in Exact
    BY <1>7, <1>8
  <2>2. ASSUME NEW k \in 0..(n - 1), k \in Exact PROVE k + 1 \in Exact
    <3>1. CASE k + 1 \in kept
      <4>1. entry[k + 1] \notin Taken(k)
        BY <1>9, <3>1 DEF Taken
      <4>2. Sum(k + 1) = Sum(k) + size[entry[k + 1]]
        <5>1. Taken(k) \in SUBSET E /\ entry[k + 1] \in E
          BY <1>2, <1>5
        <5>2. SumOver(Taken(k) \union {entry[k + 1]}, size)
                = SumOver(Taken(k), size) + size[entry[k + 1]]
          BY <1>1, <4>1, <5>1, Zenon
        <5> QED BY <1>4, <3>1, <5>2, Zenon
      <4>3. Sum(k) = left[0] - left[k]
        BY <2>2
      <4>4. left[k + 1] = left[k] - size[entry[k + 1]] /\ size[entry[k + 1]] \in Int
        BY <1>5, <3>1
      <4> HIDE DEF Sum
      <4>5. Sum(k + 1) = left[0] - left[k + 1]
        BY <1>5, <1>7, <4>2, <4>3, <4>4
      <4> QED BY <4>5
    <3>2. CASE k + 1 \notin kept
      <4>1. Sum(k + 1) = Sum(k)
        BY <1>4, <3>2
      <4>2. Sum(k) = left[0] - left[k] /\ left[k + 1] = left[k]
        BY <1>5, <2>2, <3>2
      <4> QED BY <4>1, <4>2
    <3> QED BY <3>1, <3>2
  <2> HIDE DEF Exact
  <2>3. 0..n \subseteq Exact
    BY <2>1, <2>2, Data!IntervalInduction
  <2> QED BY <2>3 DEF Exact
<1>10. ASSUME \A x \in E : size[x] >= 0
       PROVE  Sum(n) <= left[0] - left[n]
  <2> DEFINE Enough == {k \in 0..n : Sum(k) <= left[0] - left[k]}
  <2>1. 0 \in Enough
    BY <1>7, <1>8
  <2>2. ASSUME NEW k \in 0..(n - 1), k \in Enough PROVE k + 1 \in Enough
    <3>1. /\ Sum(k) \in Int /\ Sum(k + 1) \in Int
          /\ Sum(k) <= left[0] - left[k]
      BY <1>6, <2>2
    <3>2. CASE k + 1 \in kept
      <4>1. left[k + 1] = left[k] - size[entry[k + 1]]
            /\ size[entry[k + 1]] \in Int /\ size[entry[k + 1]] >= 0
        BY <1>5, <1>10, <3>2
      <4>2. Sum(k + 1) = Sum(k) \/ Sum(k + 1) = Sum(k) + size[entry[k + 1]]
        <5>1. CASE entry[k + 1] \in Taken(k)
          <6>1. Taken(k + 1) = Taken(k)
            BY <1>4, <3>2, <5>1
          <6> QED BY <6>1
        <5>2. CASE entry[k + 1] \notin Taken(k)
          <6>1. Taken(k) \in SUBSET E /\ entry[k + 1] \in E
            BY <1>2, <1>5
          <6>2. SumOver(Taken(k) \union {entry[k + 1]}, size)
                  = SumOver(Taken(k), size) + size[entry[k + 1]]
            BY <1>1, <5>2, <6>1, Zenon
          <6> QED BY <1>4, <3>2, <6>2, Zenon
        <5> QED BY <5>1, <5>2
      <4> HIDE DEF Sum
      <4>3. Sum(k + 1) <= left[0] - left[k + 1]
        BY <1>5, <1>7, <3>1, <4>1, <4>2
      <4> QED BY <4>3
    <3>3. CASE k + 1 \notin kept
      <4>1. Sum(k + 1) = Sum(k)
        BY <1>4, <3>3
      <4>2. left[k + 1] = left[k]
        BY <1>5, <3>3
      <4> QED BY <3>1, <4>1, <4>2
    <3> QED BY <3>2, <3>3
  <2> HIDE DEF Enough
  <2>3. 0..n \subseteq Enough
    BY <2>1, <2>2, Data!IntervalInduction
  <2> QED BY <2>3 DEF Enough
<1>11. Sum(n) \in Int
  BY <1>6
<1>12. Sum(n) = SumOver({entry[k] : k \in kept}, size)
  BY <1>3
<1> HIDE DEF Sum
<1> QED BY <1>9, <1>10, <1>11, <1>12, Zenon DEF IsSpent

-----------------------------------------------------------------------------
(***************************************************************************)
(* The inductive invariant of the planner.                                 *)
(***************************************************************************)

\* The entries that a list of recommendations has uncompressed.
NewOf(list) == {list[k].new : k \in {m \in DOMAIN list : UncompressNew(list[m])}}
OldOf(list) == {list[k].old : k \in {m \in DOMAIN list : UncompressOld(list[m])}}

\* What they cost.
NewSizes == [e \in newEntries |-> e.uncompressedSize]
OldExtra == [e \in oldEntries |-> e.uncompressedSize - e.compressedSize]

NewTotal == SumOver(NewOf(recommendations), NewSizes)
OldTotal == OldLength + SumOver(OldOf(recommendations), OldExtra)

Pairs == [old : oldEntries, new : newEntries, recommendation : Recommendations]

\* Every new entry has been paired at most once, and its pair has what the
\* rules recommend or has been refused.
PairsInv ==
  /\ IsArchive(oldEntries) /\ IsArchive(newEntries)
  /\ pending \subseteq newEntries
  /\ recommendations \in Seq(Pairs)
  /\ \A k \in 1..Len(recommendations) :
       LET rec == recommendations[k]
       IN /\ rec.new \notin pending
          /\ \/ rec.recommendation = Recommended(rec.old, rec.new)
             \/ applied # 0 /\ rec.recommendation = "UNCOMPRESS_NEITHER"
  /\ \A j, k \in 1..Len(recommendations) :
       recommendations[j].new = recommendations[k].new => j = k

\* No old entry is longer compressed than uncompressed.
NoOldShrinks == \A e \in oldEntries : e.compressedSize <= e.uncompressedSize

\* What the limiters applied so far have seen to.
LimitsInv ==
  /\ modifiers \in ModifierLists
  /\ applied \in 0..Len(modifiers)
  /\ pending # {} => applied = 0
  /\ \A m \in 1..applied : modifiers[m].kind = "total" => NewTotal <= modifiers[m].max
  /\ \A m \in 1..applied : modifiers[m].kind = "oldBlob" /\ NoOldShrinks =>
       OldTotal <= modifiers[m].max \/ OldTotal = OldLength

\* The only limiter has refused for want of space.
SpaceInv ==
  applied = 1 /\ Len(modifiers) = 1 /\ modifiers[1].kind = "total" =>
    \A k \in 1..Len(recommendations) :
      LET rec == recommendations[k]
      IN /\ Recommended(rec.old, rec.new) \in {"UNCOMPRESS_NEW", "UNCOMPRESS_BOTH"}
         /\ ~UncompressNew(rec)
         => NewTotal + rec.new.uncompressedSize > modifiers[1].max

\* The plan is made of the final recommendations.
PlanInv ==
  plan # Null =>
    /\ pending = {} /\ applied = Len(modifiers)
    /\ plan = [old |-> InFileOrder(OldRanges), new |-> InFileOrder(NewRanges)]

PlannerInv == PairsInv /\ LimitsInv /\ SpaceInv /\ PlanInv

\* The entries of an archive.
LEMMA ArchiveEntries ==
  ASSUME NEW entries, IsArchive(entries)
  PROVE  /\ IsFiniteSet(entries)
         /\ \A e \in entries : /\ e.offset \in Nat /\ e.compressedSize \in Nat
                               /\ e.uncompressedSize \in Nat
         /\ \A e, f \in entries : e.offset = f.offset => e = f
<1>1. \A e \in entries : /\ e.offset \in Nat /\ e.compressedSize \in Nat
                         /\ e.uncompressedSize \in Nat
  BY DEF IsArchive
<1>2. ASSUME NEW e \in entries, NEW f \in entries, e.offset = f.offset PROVE e = f
  <2> SUFFICES ASSUME e # f PROVE FALSE
    OBVIOUS
  <2>1. e.offset < f.offset \/ f.offset < e.offset
    BY DEF IsArchive
  <2> QED BY <1>1, <1>2, <2>1
<1> QED BY <1>1, <1>2 DEF IsArchive

\* What the rules recommend is one of the four recommendations.
LEMMA RecommendedType ==
  ASSUME NEW old, NEW new
  PROVE  /\ Recommended(old, new) \in Recommendations
         /\ Recommended(old, new) \in {"UNCOMPRESS_NEW", "UNCOMPRESS_BOTH"} =>
              /\ new.method # Stored /\ ~Unsuitable(old, new) /\ ~UnsuitableDeflate(new)
         /\ Recommended(old, new) \in {"UNCOMPRESS_OLD", "UNCOMPRESS_BOTH"} =>
              old.method # Stored /\ ~Unsuitable(old, new)
         /\ Recommended(old, new) = "UNCOMPRESS_NEW" => old.method = Stored
<1> DEFINE r == Recommended(old, new)
<1>1. CASE UnsuitableDeflate(new) \/ Unsuitable(old, new)
  <2>1. r = "UNCOMPRESS_NEITHER"
    BY <1>1 DEF Recommended
  <2> QED BY <2>1 DEF Recommendations
<1>2. CASE ~UnsuitableDeflate(new) /\ ~Unsuitable(old, new)
  <2>1. CASE old.method = Stored /\ new.method = Stored
    <3>1. r = "UNCOMPRESS_NEITHER"
      BY <1>2, <2>1 DEF Recommended
    <3> QED BY <3>1 DEF Recommendations
  <2>2. CASE old.method = Stored /\ new.method # Stored
    <3>1. r = "UNCOMPRESS_NEW"
      BY <1>2, <2>2 DEF Recommended
    <3> QED BY <1>2, <2>2, <3>1 DEF Recommendations
  <2>3. CASE old.method # Stored /\ new.method = Stored
    <3>1. r = "UNCOMPRESS_OLD"
      BY <1>2, <2>3 DEF Recommended
    <3> QED BY <1>2, <2>3, <3>1 DEF Recommendations
  <2>4. CASE old.method # Stored /\ new.method # Stored
    <3>1. r = "UNCOMPRESS_BOTH" \/ r = "UNCOMPRESS_NEITHER"
      BY <1>2, <2>4 DEF Recommended
    <3> QED BY <1>2, <2>4, <3>1 DEF Recommendations
  <2> QED BY <2>1, <2>2, <2>3, <2>4
<1> QED BY <1>1, <1>2

\* after is before in the order p, some of it refused: a list of pairs again
\* which uncompresses what it uncompressed except for the refused ones.
IsRefusal(after, before, p, n, refused, O, N) ==
  /\ after \in [1..n -> [old : O, new : N, recommendation : Recommendations]]
  /\ \A k \in 1..n :
       /\ p[k] \in 1..n
       /\ after[k].old = before[p[k]].old /\ after[k].new = before[p[k]].new
       /\ after[k].recommendation = IF k \in refused THEN "UNCOMPRESS_NEITHER"
                                    ELSE before[p[k]].recommendation
  /\ \A j, k \in 1..n : after[j].new = after[k].new => j = k
  /\ NewOf(after) = {before[p[k]].new : k \in
                       {m \in 1..n : UncompressNew(before[p[m]]) /\ m \notin refused}}
  /\ OldOf(after) = {before[p[k]].old : k \in
                       {m \in 1..n : UncompressOld(before[p[m]]) /\ m \notin refused}}
  /\ NewOf(after) \subseteq NewOf(before) /\ OldOf(after) \subseteq OldOf(before)

\* A list in another order, of which some have been refused.
LEMMA RefusedPairs ==
  ASSUME NEW O, NEW N, NEW n \in Nat,
         NEW before \in [1..n -> [old : O, new : N, recommendation : Recommendations]],
         \A j, k \in 1..n : before[j].new = before[k].new => j = k,
         NEW p \in Bijection(1..n, 1..n), NEW refused \in SUBSET (1..n),
         NEW after, after = [k \in 1..n |-> IF k \in refused THEN Refused(before[p[k]])
                                            ELSE before[p[k]]]
  PROVE  IsRefusal(after, before, p, n, refused, O, N)
<1> DEFINE Set == [old : O, new : N, recommendation : Recommendations]
<1>1. /\ p \in [1..n -> 1..n] /\ \A j, k \in 1..n : p[j] = p[k] => j = k
  BY DEF Bijection, Injection, IsInjective
<1>2. ASSUME NEW rec \in Set
      PROVE  /\ Refused(rec) \in Set /\ Refused(rec).old = rec.old /\ Refused(rec).new = rec.new
             /\ Refused(rec).recommendation = "UNCOMPRESS_NEITHER"
  <2>1. "UNCOMPRESS_NEITHER" \in Recommendations
    BY DEF Recommendations
  <2> QED BY <2>1 DEF Refused
<1>3. ASSUME NEW k \in 1..n
      PROVE  /\ p[k] \in 1..n /\ after[k] \in Set
             /\ after[k].old = before[p[k]].old /\ after[k].new = before[p[k]].new
             /\ after[k].recommendation = IF k \in refused THEN "UNCOMPRESS_NEITHER"
                                          ELSE before[p[k]].recommendation
  <2>1. p[k] \in 1..n
    BY <1>1
  <2>2. before[p[k]] \in Set
    BY <2>1
  <2>3. after[k] = IF k \in refused THEN Refused(before[p[k]]) ELSE before[p[k]]
    OBVIOUS
  <2> HIDE DEF Set
  <2> QED BY <1>2, <2>1, <2>2, <2>3
<1>4. after \in [1..n -> Set]
  BY <1>3
<1>5. ASSUME NEW j \in 1..n, NEW k \in 1..n, after[j].new = after[k].new PROVE j = k
  <2>1. before[p[j]].new = before[p[k]].new /\ p[j] \in 1..n /\ p[k] \in 1..n
    BY <1>3, <1>5
  <2>2. p[j] = p[k]
    BY <2>1
  <2> QED BY <1>1, <2>2
<1>6. ASSUME NEW k \in 1..n
      PROVE  /\ UncompressNew(after[k]) <=> UncompressNew(before[p[k]]) /\ k \notin refused
             /\ UncompressOld(after[k]) <=> UncompressOld(before[p[k]]) /\ k \notin refused
  BY <1>3 DEF UncompressNew, UncompressOld
<1>7. DOMAIN after = 1..n /\ DOMAIN before = 1..n
  OBVIOUS
<1> HIDE DEF Set
<1>8. NewOf(after) = {before[p[k]].new : k \in
                        {m \in 1..n : UncompressNew(before[p[m]]) /\ m \notin refused}}
  BY <1>3, <1>6, <1>7 DEF NewOf
<1>9. OldOf(after) = {before[p[k]].old : k \in
                        {m \in 1..n : UncompressOld(before[p[m]]) /\ m \notin refused}}
  BY <1>3, <1>6, <1>7 DEF OldOf
<1>10. NewOf(after) \subseteq NewOf(before) /\ OldOf(after) \subseteq OldOf(before)
  BY <1>1, <1>7, <1>8, <1>9 DEF NewOf, OldOf
<1>11. /\ \A k \in 1..n :
             /\ p[k] \in 1..n
             /\ after[k].old = before[p[k]].old /\ after[k].new = before[p[k]].new
             /\ after[k].recommendation = IF k \in refused THEN "UNCOMPRESS_NEITHER"
                                          ELSE before[p[k]].recommendation
       /\ \A j, k \in 1..n : after[j].new = after[k].new => j = k
  BY <1>3, <1>5
<1> QED BY <1>4, <1>8, <1>9, <1>10, <1>11, Zenon DEF Set, IsRefusal

\* The recommendations made so far.
LEMMA PairTypes ==
  ASSUME PairsInv
  PROVE  LET n == Len(recommendations)
         IN /\ n \in Nat /\ DOMAIN recommendations = 1..n
            /\ recommendations \in [1..n -> Pairs]
            /\ \A k \in 1..n : /\ recommendations[k] \in Pairs
                               /\ recommendations[k].old \in oldEntries
                               /\ recommendations[k].new \in newEntries
            /\ Recs = {recommendations[k] : k \in 1..n}
            /\ NewOf(recommendations) \subseteq newEntries
            /\ OldOf(recommendations) \subseteq oldEntries
<1> DEFINE n == Len(recommendations)
<1>1. n \in Nat /\ DOMAIN recommendations = 1..n /\ recommendations \in [1..n -> Pairs]
  BY DEF PairsInv
<1>2. ASSUME NEW k \in 1..n
      PROVE  /\ recommendations[k] \in Pairs
             /\ recommendations[k].old \in oldEntries /\ recommendations[k].new \in newEntries
  <2>1. recommendations[k] \in Pairs
    BY <1>1
  <2> QED BY <2>1 DEF Pairs
<1>3. Recs = {recommendations[k] : k \in 1..n}
  BY <1>1 DEF Recs
<1>4. /\ NewOf(recommendations) \subseteq newEntries
      /\ OldOf(recommendations) \subseteq oldEntries
  BY <1>1, <1>2 DEF NewOf, OldOf
<1> QED BY <1>1, <1>2, <1>3, <1>4

\* Fewer entries cost less.
LEMMA TotalsShrink ==
  ASSUME PairsInv
  PROVE  /\ NewTotal \in Int /\ OldTotal \in Int
         /\ \A T \in SUBSET NewOf(recommendations) :
              SumOver(T, NewSizes) \in Int /\ SumOver(T, NewSizes) <= NewTotal
         /\ \A T \in SUBSET OldOf(recommendations) : SumOver(T, OldExtra) \in Int
         /\ NoOldShrinks =>
              \A T \in SUBSET OldOf(recommendations) :
                /\ 0 <= SumOver(T, OldExtra) /\ OldLength + SumOver(T, OldExtra) <= OldTotal
<1>1. /\ NewOf(recommendations) \in SUBSET newEntries
      /\ OldOf(recommendations) \in SUBSET oldEntries
  BY PairTypes
<1>2. /\ IsFiniteSet(newEntries) /\ IsFiniteSet(oldEntries)
      /\ \A e \in newEntries : e.uncompressedSize \in Nat
      /\ \A e \in oldEntries : e.uncompressedSize \in Nat /\ e.compressedSize \in Nat
  BY ArchiveEntries DEF PairsInv
<1>3. /\ \A e \in newEntries : NewSizes[e] \in Nat
      /\ \A e \in oldEntries : OldExtra[e] \in Int
      /\ NoOldShrinks => \A e \in oldEntries : OldExtra[e] \in Nat
  BY <1>2 DEF NewSizes, OldExtra, NoOldShrinks
<1>4. /\ \A T \in SUBSET newEntries : SumOver(T, NewSizes) \in Int
      /\ \A T \in SUBSET oldEntries : SumOver(T, OldExtra) \in Int
  <2>1. \A e \in newEntries : NewSizes[e] \in Int
    BY <1>3
  <2>2. \A T \in SUBSET newEntries : SumOver(T, NewSizes) \in Int
    BY <1>2, <2>1, SumOverGrows
  <2>3. \A T \in SUBSET oldEntries : SumOver(T, OldExtra) \in Int
    BY <1>2, <1>3, SumOverGrows
  <2> QED BY <2>2, <2>3
<1>5. OldLength \in Int
  BY PlannerAssumption
<1>6. NewTotal \in Int /\ OldTotal \in Int
  <2>1. SumOver(OldOf(recommendations), OldExtra) \in Int
    BY <1>1, <1>4
  <2>2. SumOver(NewOf(recommendations), NewSizes) \in Int
    BY <1>1, <1>4
  <2>3. OldLength + SumOver(OldOf(recommendations), OldExtra) \in Int
    BY <1>5, <2>1
  <2> QED BY <2>2, <2>3 DEF NewTotal, OldTotal
<1>7. ASSUME NEW T \in SUBSET NewOf(recommendations)
      PROVE  SumOver(T, NewSizes) \in Int /\ SumOver(T, NewSizes) <= NewTotal
  <2> DEFINE all == NewOf(recommendations)
  <2>1. IsFiniteSet(all) /\ \A e \in all : NewSizes[e] \in Nat
    BY <1>1, <1>2, <1>3, FS_Subset
  <2>2. T \in SUBSET all
    OBVIOUS
  <2>3. T \in SUBSET newEntries
    BY <1>1
  <2> HIDE DEF all
  <2>4. SumOver(T, NewSizes) <= SumOver(all, NewSizes)
    BY <2>1, <2>2, SumOverMonotone
  <2> QED BY <1>4, <2>3, <2>4 DEF NewTotal, all
<1>8. ASSUME NoOldShrinks, NEW T \in SUBSET OldOf(recommendations)
      PROVE  /\ 0 <= SumOver(T, OldExtra) /\ OldLength + SumOver(T, OldExtra) <= OldTotal
  <2> DEFINE all == OldOf(recommendations)
             part == SumOver(T, OldExtra)
             whole == SumOver(all, OldExtra)
  <2>1. IsFiniteSet(all) /\ \A e \in all : OldExtra[e] \in Nat
    BY <1>1, <1>2, <1>3, <1>8, FS_Subset
  <2>2. T \in SUBSET all /\ all \in SUBSET oldEntries
    BY <1>1
  <2>3. T \in SUBSET oldEntries
    BY <1>1
  <2> HIDE DEF all
  <2>4. 0 <= part /\ part <= whole
    BY <2>1, <2>2, SumOverMonotone
  <2>5. part \in Int /\ whole \in Int
    BY <1>4, <2>2, <2>3
  <2>6. OldTotal = OldLength + whole
    BY DEF OldTotal, all
  <2> HIDE DEF part, whole
  <2>7. OldLength + part <= OldTotal
    BY <1>5, <2>4, <2>5, <2>6
  <2> QED BY <2>4, <2>7 DEF part
<1>9. \A T \in SUBSET OldOf(recommendations) : SumOver(T, OldExtra) \in Int
  BY <1>1, <1>4
<1> QED BY <1>6, <1>7, <1>8, <1>9

\* The planner starts in the invariant.
LEMMA PlannerStarts ==
  ASSUME Init
  PROVE  PlannerInv
<1>1. /\ IsArchive(oldEntries) /\ IsArchive(newEntries)
  BY PlannerAssumption DEF Init
<1>2. recommendations = <<>> /\ recommendations \in Seq(Pairs) /\ Len(recommendations) = 0
  BY DEF Init
<1>3. \A k \in 1..Len(recommendations) : FALSE
  BY <1>2
<1>4. PairsInv
  BY <1>1, <1>2, <1>3 DEF Init, PairsInv
<1>5. LimitsInv
  <2>1. modifiers \in ModifierLists /\ applied = 0 /\ Len(modifiers) \in Nat
    BY PlannerAssumption DEF Init
  <2>2. \A m \in 1..applied : FALSE
    BY <2>1
  <2> QED BY <2>1, <2>2 DEF LimitsInv
<1>6. SpaceInv /\ PlanInv
  BY DEF Init, SpaceInv, PlanInv
<1> QED BY <1>4, <1>5, <1>6 DEF PlannerInv

\* A turn of the loop pairs one more entry, as the rules say.
LEMMA RecommendKeeps ==
  ASSUME PlannerInv, NEW new \in pending, Recommend(new)
  PROVE  PlannerInv'
<1> DEFINE n == Len(recommendations)
<1>1. /\ pending' = pending \ {new}
      /\ UNCHANGED <<oldEntries, newEntries, modifiers, applied, plan>>
  BY DEF Recommend
<1>2. applied = 0 /\ plan = Null
  BY DEF PlannerInv, LimitsInv, PlanInv
<1>3. PairsInv'
  <2>1. CASE DiffBases(new) = {}
    <3>1. recommendations' = recommendations
      BY <2>1 DEF Recommend
    <3> QED BY <1>1, <3>1 DEF PlannerInv, PairsInv, Pairs
  <2>2. CASE DiffBases(new) # {}
    <3>1. PICK old \in DiffBases(new) :
            recommendations' =
              Append(recommendations,
                     [old |-> old, new |-> new, recommendation |-> Recommended(old, new)])
      BY <2>2 DEF Recommend
    <3> DEFINE rec == [old |-> old, new |-> new, recommendation |-> Recommended(old, new)]
    <3>2. old \in oldEntries /\ new \in newEntries
      BY DEF DiffBases, PlannerInv, PairsInv
    <3>3. rec \in Pairs
      BY <3>2, RecommendedType DEF Pairs
    <3>4. n \in Nat /\ recommendations \in Seq(Pairs)
      BY DEF PlannerInv, PairsInv
    <3>5. rec.old = old /\ rec.new = new /\ rec.recommendation = Recommended(old, new)
      OBVIOUS
    <3> HIDE DEF rec
    <3>6. /\ recommendations' \in Seq(Pairs) /\ Len(recommendations') = n + 1
          /\ recommendations'[n + 1] = rec
          /\ \A k \in 1..n : recommendations'[k] = recommendations[k]
      BY <3>1, <3>3, <3>4 DEF rec
    <3>7. \A k \in 1..n : recommendations[k].new # new
      BY DEF PlannerInv, PairsInv
    <3>8. ASSUME NEW k \in 1..(n + 1)
          PROVE  /\ recommendations'[k].new \notin pending'
                 /\ recommendations'[k].recommendation =
                      Recommended(recommendations'[k].old, recommendations'[k].new)
      <4>1. CASE k = n + 1
        BY <1>1, <3>5, <3>6, <4>1
      <4>2. CASE k # n + 1
        <5>1. k \in 1..n
          BY <3>4, <4>2
        <5>2. /\ recommendations[k].new \notin pending
              /\ recommendations[k].recommendation =
                   Recommended(recommendations[k].old, recommendations[k].new)
          BY <1>2, <5>1 DEF PlannerInv, PairsInv
        <5> QED BY <1>1, <3>6, <5>1, <5>2
      <4> QED BY <4>1, <4>2
    <3>9. ASSUME NEW j \in 1..(n + 1), NEW k \in 1..(n + 1),
                 recommendations'[j].new = recommendations'[k].new
          PROVE  j = k
      <4>1. CASE j = n + 1 /\ k = n + 1
        BY <4>1
      <4>2. CASE j = n + 1 /\ k # n + 1
        <5>1. k \in 1..n
          BY <3>4, <4>2
        <5> QED BY <3>5, <3>6, <3>7, <3>9, <4>2, <5>1
      <4>3. CASE j # n + 1 /\ k = n + 1
        <5>1. j \in 1..n
          BY <3>4, <4>3
        <5> QED BY <3>5, <3>6, <3>7, <3>9, <4>3, <5>1
      <4>4. CASE j # n + 1 /\ k # n + 1
        <5>1. j \in 1..n /\ k \in 1..n
          BY <3>4, <4>4
        <5>2. recommendations[j].new = recommendations[k].new
          BY <3>6, <3>9, <5>1
        <5> QED BY <5>1, <5>2 DEF PlannerInv, PairsInv
      <4> QED BY <4>1, <4>2, <4>3, <4>4
    <3>10. /\ IsArchive(oldEntries) /\ IsArchive(newEntries) /\ pending \subseteq newEntries
      BY DEF PlannerInv, PairsInv
    <3>11. UNCHANGED Pairs
      BY <1>1 DEF Pairs
    <3>12. /\ IsArchive(oldEntries)' /\ IsArchive(newEntries)' /\ pending' \subseteq newEntries'
      BY <1>1, <3>10
    <3> QED BY <3>6, <3>8, <3>9, <3>11, <3>12 DEF PairsInv
  <2> QED BY <2>1, <2>2
<1>4. LimitsInv'
  <2>1. modifiers' \in ModifierLists /\ applied' \in 0..Len(modifiers') /\ applied' = 0
    BY <1>1, <1>2 DEF PlannerInv, LimitsInv
  <2>2. \A m \in 1..applied' : FALSE
    BY <2>1
  <2> QED BY <2>1, <2>2 DEF LimitsInv
<1>5. SpaceInv' /\ PlanInv'
  BY <1>1, <1>2 DEF SpaceInv, PlanInv
<1> QED BY <1>3, <1>4, <1>5 DEF PlannerInv

\* The limiters.
LEMMA ModifierTypes ==
  ASSUME modifiers \in ModifierLists
  PROVE  /\ Len(modifiers) \in Nat
         /\ \A m \in 1..Len(modifiers) :
              modifiers[m].kind \in {"total", "oldBlob"} /\ modifiers[m].max \in Nat
<1> DEFINE Kinds == [kind : {"total", "oldBlob"}, max : Nat]
<1>1. modifiers \in Seq(Kinds)
  BY PlannerAssumption
<1>2. \A x \in Kinds : x.kind \in {"total", "oldBlob"} /\ x.max \in Nat
  OBVIOUS
<1> HIDE DEF Kinds
<1>3. Len(modifiers) \in Nat /\ \A m \in 1..Len(modifiers) : modifiers[m] \in Kinds
  BY <1>1
<1> QED BY <1>2, <1>3

\* Which recommendations a limiter refuses: those of sorted that count and
\* do not fit in what the budget has left.
RefusedBy(n, sorted, counted, cost, left) ==
  {k \in 1..n : sorted[k] \in counted /\ ~Fits(left[k - 1], cost[sorted[k]])}

\* Which ones it keeps of those that count.
KeptBy(n, sorted, counted, cost, left) ==
  {k \in 1..n : sorted[k] \in counted /\ k \notin RefusedBy(n, sorted, counted, cost, left)}

\* The recommendations in the order p, left over and refused so.
LimiterOutcome(p, left, n, counted, cost, budget, result) ==
  LET sorted == [k \in 1..n |-> recommendations[p[k]]]
  IN /\ IsLeft(left, n, sorted, counted, cost, budget)
     /\ result = [k \in 1..n |-> IF k \in RefusedBy(n, sorted, counted, cost, left)
                                 THEN Refused(recommendations[p[k]])
                                 ELSE recommendations[p[k]]]

\* What a limiter makes of the recommendations.
LEMMA LimiterResult ==
  ASSUME PairsInv, NEW size, NEW counted, NEW cost, NEW budget \in Int,
         \A rec \in Recs : size[rec] \in Int /\ cost[rec] \in Int,
         NEW n, n = Len(recommendations)
  PROVE  \E p \in Bijection(1..n, 1..n) : \E left :
           LimiterOutcome(p, left, n, counted, cost, budget,
                          Limited(Decreasing(size), counted, cost, budget))
<1>1. /\ n \in Nat /\ DOMAIN recommendations = 1..n
      /\ recommendations \in [1..n -> Pairs]
      /\ \A k \in 1..n : recommendations[k] \in Recs
  BY PairTypes
<1>2. \A k \in 1..n : size[recommendations[k]] \in Int
  BY <1>1
<1>3. PICK p \in Bijection(1..n, 1..n) :
        Decreasing(size) = [k \in 1..n |-> recommendations[p[k]]]
  BY <1>1, <1>2, DecreasingPermutes
<1>4. \A k \in 1..n : p[k] \in 1..n
  BY <1>3 DEF Bijection, Injection
<1>5. PICK sorted \in [1..n -> Pairs] : sorted = [k \in 1..n |-> recommendations[p[k]]]
  BY <1>1, <1>4
<1>6. \A k \in 1..n : sorted[k] = recommendations[p[k]] /\ cost[sorted[k]] \in Int
  BY <1>1, <1>4, <1>5
<1>7. PICK left :
        IsServed(left, n, sorted, counted, cost, budget,
                 Limited(sorted, counted, cost, budget))
  BY <1>1, <1>6, LimitedLoop
<1>8. Limited(sorted, counted, cost, budget) =
        [k \in 1..n |-> IF k \in RefusedBy(n, sorted, counted, cost, left)
                        THEN Refused(recommendations[p[k]]) ELSE recommendations[p[k]]]
  BY <1>6, <1>7 DEF RefusedBy, IsServed
<1>9. LimiterOutcome(p, left, n, counted, cost, budget,
                     Limited(Decreasing(size), counted, cost, budget))
  BY <1>3, <1>5, <1>7, <1>8, Zenon DEF LimiterOutcome, IsServed
<1> QED BY <1>9

\* A limiter only refuses: the pairs stay pairs, what they uncompress gets
\* less, and what the limiters before it have seen to stays so.
OnlyRefuses(p, refused, n) ==
  /\ PairsInv' /\ PlanInv'
  /\ modifiers' \in ModifierLists /\ applied' \in 1..Len(modifiers') /\ pending' = {}
  /\ \A m \in 1..applied : modifiers[m].kind = "total" => NewTotal' <= modifiers[m].max
  /\ \A m \in 1..applied : modifiers[m].kind = "oldBlob" /\ NoOldShrinks =>
       OldTotal' <= modifiers[m].max \/ OldTotal' = OldLength
  /\ NewTotal' \in Int /\ OldTotal' \in Int
  /\ Len(recommendations') = n
  /\ \A k \in 1..n :
       /\ p[k] \in 1..n
       /\ recommendations'[k].old = recommendations[p[k]].old
       /\ recommendations'[k].new = recommendations[p[k]].new
       /\ recommendations'[k].recommendation =
            IF k \in refused THEN "UNCOMPRESS_NEITHER"
            ELSE recommendations[p[k]].recommendation
  /\ NewOf(recommendations') = {recommendations[p[k]].new : k \in
       {m \in 1..n : UncompressNew(recommendations[p[m]]) /\ m \notin refused}}
  /\ OldOf(recommendations') = {recommendations[p[k]].old : k \in
       {m \in 1..n : UncompressOld(recommendations[p[m]]) /\ m \notin refused}}

\* Every limiter refuses and does nothing else.
LEMMA LimiterKeeps ==
  ASSUME PlannerInv, NEW kind, NextModifier(kind),
         NEW n, n = Len(recommendations), NEW p \in Bijection(1..n, 1..n),
         NEW refused \in SUBSET (1..n),
         recommendations' = [k \in 1..n |-> IF k \in refused THEN Refused(recommendations[p[k]])
                                            ELSE recommendations[p[k]]]
  PROVE  OnlyRefuses(p, refused, n)
<1> DEFINE before == recommendations
           after == recommendations'
<1>1. /\ pending = {} /\ applied < Len(modifiers) /\ applied' = applied + 1
      /\ UNCHANGED <<oldEntries, newEntries, pending, modifiers, plan>>
  BY DEF NextModifier
<1>2. PairsInv /\ LimitsInv /\ PlanInv
  BY DEF PlannerInv
<1>3. n \in Nat /\ before \in [1..n -> Pairs]
  BY <1>2, PairTypes
<1>4. \A j, k \in 1..n : before[j].new = before[k].new => j = k
  BY <1>2 DEF PairsInv
<1>5. /\ after \in [1..n -> Pairs]
      /\ \A k \in 1..n :
           /\ p[k] \in 1..n
           /\ after[k].old = before[p[k]].old /\ after[k].new = before[p[k]].new
           /\ after[k].recommendation = IF k \in refused THEN "UNCOMPRESS_NEITHER"
                                        ELSE before[p[k]].recommendation
      /\ \A j, k \in 1..n : after[j].new = after[k].new => j = k
      /\ NewOf(after) = {before[p[k]].new : k \in
                           {m \in 1..n : UncompressNew(before[p[m]]) /\ m \notin refused}}
      /\ OldOf(after) = {before[p[k]].old : k \in
                           {m \in 1..n : UncompressOld(before[p[m]]) /\ m \notin refused}}
      /\ NewOf(after) \subseteq NewOf(before) /\ OldOf(after) \subseteq OldOf(before)
  <2> DEFINE Olds == oldEntries
             News == newEntries
             list == recommendations'
             start == recommendations
  <2>1. start \in [1..n -> [old : Olds, new : News, recommendation : Recommendations]]
    BY <1>3 DEF Pairs
  <2>2. list = [k \in 1..n |-> IF k \in refused THEN Refused(start[p[k]]) ELSE start[p[k]]]
    OBVIOUS
  <2>3. \A j, k \in 1..n : start[j].new = start[k].new => j = k
    BY <1>4
  <2> HIDE DEF list, start
  <2>4. IsRefusal(list, start, p, n, refused, Olds, News)
    BY <1>3, <2>1, <2>2, <2>3, RefusedPairs
  <2> QED BY <2>4, Zenon DEF list, start, Pairs, IsRefusal
<1>6. after \in Seq(Pairs) /\ Len(after) = n
  BY <1>3, <1>5
<1>7. ASSUME NEW k \in 1..n
      PROVE  \/ after[k].recommendation = Recommended(after[k].old, after[k].new)
             \/ after[k].recommendation = "UNCOMPRESS_NEITHER"
  <2>1. p[k] \in 1..n
    BY <1>5
  <2>2. \/ before[p[k]].recommendation = Recommended(before[p[k]].old, before[p[k]].new)
        \/ before[p[k]].recommendation = "UNCOMPRESS_NEITHER"
    BY <1>2, <2>1 DEF PairsInv
  <2> QED BY <1>5, <2>2
<1>8. applied \in Nat /\ applied' # 0 /\ applied' \in 1..Len(modifiers)
      /\ modifiers' \in ModifierLists
  <2>1. Len(modifiers) \in Nat /\ applied \in 0..Len(modifiers)
    BY <1>2, PlannerAssumption DEF LimitsInv
  <2> QED BY <1>1, <1>2, <2>1 DEF LimitsInv
<1>9. PairsInv'
  <2>1. IsArchive(oldEntries)' /\ IsArchive(newEntries)' /\ pending' = {} /\ UNCHANGED Pairs
    BY <1>1, <1>2 DEF PairsInv, Pairs
  <2>2. \A k \in 1..n : recommendations'[k].new \notin pending'
    BY <2>1
  <2> QED BY <1>5, <1>6, <1>7, <1>8, <2>1, <2>2 DEF PairsInv
<1>10. PlanInv'
  <2>1. plan = Null
    <3>1. Len(modifiers) \in Nat /\ applied # Len(modifiers)
      BY <1>1, <1>2, PlannerAssumption DEF LimitsInv
    <3> QED BY <1>2, <3>1 DEF PlanInv
  <2> QED BY <1>1, <2>1 DEF PlanInv
<1>11. /\ NewTotal' = SumOver(NewOf(after), NewSizes)
       /\ OldTotal' = OldLength + SumOver(OldOf(after), OldExtra)
  BY <1>1 DEF NewTotal, OldTotal, NewSizes, OldExtra
<1>12. NewTotal' \in Int /\ OldTotal' \in Int
  <2>1. /\ SumOver(NewOf(after), NewSizes) \in Int
        /\ SumOver(OldOf(after), OldExtra) \in Int
    BY <1>2, <1>5, TotalsShrink
  <2>2. OldLength \in Int
    BY PlannerAssumption
  <2> QED BY <1>11, <2>1, <2>2
<1>13. /\ NewTotal' <= NewTotal
       /\ NoOldShrinks => OldLength <= OldTotal' /\ OldTotal' <= OldTotal
  <2>1. NewTotal' <= NewTotal
    BY <1>2, <1>5, <1>11, TotalsShrink
  <2>2. ASSUME NoOldShrinks PROVE OldLength <= OldTotal' /\ OldTotal' <= OldTotal
    <3> DEFINE part == SumOver(OldOf(after), OldExtra)
    <3>1. part \in Int /\ 0 <= part /\ OldLength + part <= OldTotal
      BY <1>2, <1>5, <2>2, TotalsShrink
    <3>2. OldTotal' = OldLength + part
      BY <1>11
    <3>3. OldLength \in Nat
      BY PlannerAssumption
    <3> HIDE DEF part
    <3> QED BY <3>1, <3>2, <3>3
  <2> QED BY <2>1, <2>2
<1>14. ASSUME NEW m \in 1..applied, modifiers[m].kind = "total"
       PROVE  NewTotal' <= modifiers[m].max
  <2>1. NewTotal <= modifiers[m].max
    BY <1>2, <1>14 DEF LimitsInv
  <2>2. modifiers[m].max \in Int
    <3>1. m \in 1..Len(modifiers)
      BY <1>2 DEF LimitsInv
    <3> QED BY <1>2, <3>1, ModifierTypes DEF LimitsInv
  <2>3. NewTotal \in Int
    BY <1>2, TotalsShrink
  <2> QED BY <1>12, <1>13, <2>1, <2>2, <2>3
<1>15. ASSUME NEW m \in 1..applied, modifiers[m].kind = "oldBlob", NoOldShrinks
       PROVE  OldTotal' <= modifiers[m].max \/ OldTotal' = OldLength
  <2>1. OldTotal <= modifiers[m].max \/ OldTotal = OldLength
    BY <1>2, <1>15 DEF LimitsInv
  <2>2. modifiers[m].max \in Int
    <3>1. m \in 1..Len(modifiers)
      BY <1>2 DEF LimitsInv
    <3> QED BY <1>2, <3>1, ModifierTypes DEF LimitsInv
  <2>3. OldTotal \in Int /\ OldLength \in Int
    BY <1>2, TotalsShrink, PlannerAssumption
  <2>4. OldLength <= OldTotal' /\ OldTotal' <= OldTotal
    BY <1>13, <1>15
  <2> QED BY <1>12, <2>1, <2>2, <2>3, <2>4
<1> QED BY <1>1, <1>5, <1>6, <1>8, <1>9, <1>10, <1>12, <1>14, <1>15 DEF OnlyRefuses

\* The sum of what a limiter leaves uncompressed, by entries.
LEMMA ServedSum ==
  ASSUME NEW n \in Nat, NEW sorted, NEW counted, NEW cost, NEW budget \in Int, NEW left,
         IsLeft(left, n, sorted, counted, cost, budget),
         NEW E, IsFiniteSet(E), NEW size, \A x \in E : size[x] \in Int,
         NEW entry \in [1..n -> E], \A k \in 1..n : cost[sorted[k]] = size[entry[k]]
  PROVE  /\ left[n] \in Int
         /\ IsSpent(budget - left[n], entry, KeptBy(n, sorted, counted, cost, left), E, size)
<1> DEFINE kept == KeptBy(n, sorted, counted, cost, left)
<1>1. left \in [0..n -> Int] /\ left[0] = budget
  BY DEF IsLeft
<1>2. kept \in SUBSET (1..n)
  BY DEF KeptBy
<1>3. ASSUME NEW k \in 1..n
      PROVE  left[k] = IF k \in kept THEN left[k - 1] - size[entry[k]] ELSE left[k - 1]
  <2>1. k \in kept <=> sorted[k] \in counted /\ Fits(left[k - 1], cost[sorted[k]])
    BY DEF KeptBy, RefusedBy
  <2>2. left[k] = IF sorted[k] \in counted /\ Fits(left[k - 1], cost[sorted[k]])
                  THEN left[k - 1] - cost[sorted[k]] ELSE left[k - 1]
    BY DEF IsLeft
  <2> QED BY <2>1, <2>2
<1> HIDE DEF kept
<1>4. IsSpent(left[0] - left[n], entry, kept, E, size)
  BY <1>1, <1>2, <1>3, GreedySum
<1>5. left[n] \in Int
  BY <1>1
<1> QED BY <1>1, <1>4, <1>5 DEF kept

\* The budget of the TotalRecompressionLimiter is not exceeded, and what it
\* refuses would have exceeded it.
LEMMA TotalKeeps ==
  ASSUME PlannerInv, LimitTotalRecompression
  PROVE  PlannerInv'
<1> DEFINE n == Len(recommendations)
           chosen == {rec \in Recs : UncompressNew(rec)}
           max == Modifier.max
<1>1. /\ pending = {} /\ applied < Len(modifiers) /\ Modifier.kind = "total"
      /\ applied' = applied + 1 /\ NextModifier("total")
      /\ UNCHANGED <<oldEntries, newEntries, pending, modifiers, plan>>
      /\ recommendations' = Limited(Decreasing(NewSize), chosen, NewSize, max)
  BY DEF LimitTotalRecompression, NextModifier
<1>2. PairsInv /\ LimitsInv
  BY DEF PlannerInv
<1>3. /\ n \in Nat /\ Recs = {recommendations[k] : k \in 1..n}
      /\ \A k \in 1..n : recommendations[k].new \in newEntries
  BY <1>2, PairTypes
<1>4. /\ IsFiniteSet(newEntries)
      /\ \A e \in newEntries : e.uncompressedSize \in Nat /\ NewSizes[e] = e.uncompressedSize
  BY <1>2, ArchiveEntries DEF PairsInv, NewSizes
<1>5. /\ applied \in Nat /\ Modifier = modifiers[applied + 1] /\ max \in Nat
      /\ applied + 1 \in 1..Len(modifiers)
  <2>1. applied \in Nat /\ applied + 1 \in 1..Len(modifiers)
    BY <1>1, <1>2, ModifierTypes DEF LimitsInv
  <2> QED BY <1>2, <2>1, ModifierTypes DEF LimitsInv, Modifier
<1>6. \A rec \in Recs : NewSize[rec] = rec.new.uncompressedSize /\ NewSize[rec] \in Int
  BY <1>3, <1>4 DEF NewSize
<1>7. PICK p \in Bijection(1..n, 1..n) : \E left :
        LimiterOutcome(p, left, n, chosen, NewSize, max, recommendations')
  <2> HIDE DEF chosen, max
  <2>1. max \in Int
    BY <1>5
  <2> QED BY <1>1, <1>2, <1>6, <2>1, LimiterResult
<1>8. PICK left : LimiterOutcome(p, left, n, chosen, NewSize, max, recommendations')
  BY <1>7
<1> DEFINE sorted == [k \in 1..n |-> recommendations[p[k]]]
           refused == RefusedBy(n, sorted, chosen, NewSize, left)
           entry == [k \in 1..n |-> recommendations[p[k]].new]
           kept == KeptBy(n, sorted, chosen, NewSize, left)
<1>9. /\ IsLeft(left, n, sorted, chosen, NewSize, max)
      /\ recommendations' = [k \in 1..n |-> IF k \in refused THEN Refused(recommendations[p[k]])
                                            ELSE recommendations[p[k]]]
  BY <1>8 DEF LimiterOutcome
<1>10. refused \in SUBSET (1..n)
  BY DEF RefusedBy
<1>11. /\ p \in [1..n -> 1..n] /\ \A j, k \in 1..n : p[j] = p[k] => j = k
  BY <1>7 DEF Bijection, Injection, IsInjective
<1>12. \A k \in 1..n : /\ sorted[k] = recommendations[p[k]] /\ p[k] \in 1..n /\ sorted[k] \in Recs
                       /\ entry[k] = sorted[k].new /\ entry[k] \in newEntries
                       /\ NewSize[sorted[k]] = NewSizes[entry[k]]
                       /\ NewSize[sorted[k]] \in Int /\ NewSize[sorted[k]] >= 0
  BY <1>3, <1>4, <1>6, <1>11
<1> HIDE DEF refused, sorted
<1>13. OnlyRefuses(p, refused, n)
  BY <1>1, <1>7, <1>9, <1>10, LimiterKeeps
<1>14. NewOf(recommendations') = {entry[k] : k \in kept}
  <2>1. \A m \in 1..n : sorted[m] \in chosen <=> UncompressNew(recommendations[p[m]])
    BY <1>12
  <2>2. kept = {m \in 1..n : UncompressNew(recommendations[p[m]]) /\ m \notin refused}
    BY <2>1 DEF KeptBy, refused
  <2>3. NewOf(recommendations') = {recommendations[p[k]].new : k \in kept}
    BY <1>13, <2>2 DEF OnlyRefuses
  <2>4. \A k \in kept : entry[k] = recommendations[p[k]].new
    BY <2>2
  <2> HIDE DEF kept, entry
  <2> QED BY <2>3, <2>4
<1>15. NewTotal' = SumOver({entry[k] : k \in kept}, NewSizes)
  <2>1. NewTotal' = SumOver(NewOf(recommendations'), NewSizes)
    BY <1>1 DEF NewTotal, NewSizes
  <2> QED BY <1>14, <2>1, Zenon
<1>16. \A j, k \in kept : entry[j] = entry[k] => j = k
  <2> SUFFICES ASSUME NEW j \in kept, NEW k \in kept, entry[j] = entry[k] PROVE j = k
    OBVIOUS
  <2>1. j \in 1..n /\ k \in 1..n
    BY DEF KeptBy
  <2>2. p[j] \in 1..n /\ p[k] \in 1..n /\ recommendations[p[j]].new = recommendations[p[k]].new
    BY <1>12, <2>1
  <2>3. p[j] = p[k]
    BY <1>2, <2>2 DEF PairsInv
  <2> QED BY <1>11, <2>1, <2>3
<1>17. NewTotal' = max - left[n] /\ left[n] \in Int
  <2>1. entry \in [1..n -> newEntries]
    BY <1>12
  <2>2. \A k \in 1..n : NewSize[sorted[k]] = NewSizes[entry[k]]
    BY <1>12
  <2>3. \A e \in newEntries : NewSizes[e] \in Int
    BY <1>4
  <2>5. max \in Int
    BY <1>5
  <2> HIDE DEF max, chosen, entry, kept
  <2>6. left[n] \in Int /\ IsSpent(max - left[n], entry, kept, newEntries, NewSizes)
    BY <1>3, <1>4, <1>9, <2>1, <2>2, <2>3, <2>5, ServedSum DEF kept
  <2>7. SumOver({entry[k] : k \in kept}, NewSizes) = max - left[n]
    BY <1>16, <2>6, Zenon DEF IsSpent
  <2> QED BY <1>15, <2>6, <2>7
<1> HIDE DEF max, chosen, entry, kept
<1>18. left[n] >= 0 /\ \A k \in 1..n : left[n] <= left[k - 1]
  <2>1. /\ max \in Int /\ max >= 0
        /\ \A k \in 1..n : NewSize[sorted[k]] \in Int
        /\ \A k \in 1..n : NewSize[sorted[k]] >= 0
    BY <1>5, <1>12
  <2>2. /\ max >= 0 => \A k \in 0..n : left[k] >= 0
        /\ (\A k \in 1..n : NewSize[sorted[k]] >= 0) => \A k \in 1..n : left[n] <= left[k - 1]
    BY <1>3, <1>9, <2>1, LeftBounds
  <2>3. n \in 0..n
    BY <1>3
  <2> QED BY <2>1, <2>2, <2>3
<1>19. NewTotal' <= max
  BY <1>5, <1>17, <1>18
<1>20. LimitsInv'
  <2>1. \A m \in 1..applied' : modifiers'[m].kind = "total" => NewTotal' <= modifiers'[m].max
    <3> SUFFICES ASSUME NEW m \in 1..applied', modifiers[m].kind = "total"
                 PROVE  NewTotal' <= modifiers[m].max
      BY <1>1
    <3>1. CASE m = applied + 1
      BY <1>5, <1>19, <3>1 DEF max
    <3>2. CASE m # applied + 1
      <4>1. m \in 1..applied
        BY <1>1, <1>5, <3>2
      <4> QED BY <1>13, <4>1 DEF OnlyRefuses
    <3> QED BY <3>1, <3>2
  <2>2. \A m \in 1..applied' : modifiers'[m].kind = "oldBlob" /\ NoOldShrinks' =>
          OldTotal' <= modifiers'[m].max \/ OldTotal' = OldLength
    <3> SUFFICES ASSUME NEW m \in 1..applied', modifiers[m].kind = "oldBlob", NoOldShrinks
                 PROVE  OldTotal' <= modifiers[m].max \/ OldTotal' = OldLength
      BY <1>1 DEF NoOldShrinks
    <3>1. m # applied + 1
      BY <1>1, <1>5
    <3>2. m \in 1..applied
      BY <1>1, <1>5, <3>1
    <3> QED BY <1>13, <3>2 DEF OnlyRefuses
  <2>3. applied' \in 0..Len(modifiers')
    BY <1>1, <1>5
  <2> QED BY <1>13, <2>1, <2>2, <2>3, Zenon DEF LimitsInv, OnlyRefuses
<1>21. SpaceInv'
  <2> SUFFICES ASSUME applied' = 1, NEW k \in 1..n,
                      Recommended(recommendations'[k].old, recommendations'[k].new)
                        \in {"UNCOMPRESS_NEW", "UNCOMPRESS_BOTH"},
                      ~UncompressNew(recommendations'[k])
               PROVE  NewTotal' + recommendations'[k].new.uncompressedSize > modifiers'[1].max
    BY <1>13 DEF SpaceInv, OnlyRefuses
  <2>1. applied = 0 /\ modifiers'[1].max = max
    BY <1>1, <1>5 DEF max
  <2>2. /\ p[k] \in 1..n
        /\ recommendations[p[k]].recommendation =
             Recommended(recommendations[p[k]].old, recommendations[p[k]].new)
    BY <1>2, <1>12, <2>1 DEF PairsInv
  <2>3. UncompressNew(recommendations[p[k]])
    BY <1>13, <2>2 DEF UncompressNew, OnlyRefuses
  <2>4. k \in refused
    <3> SUFFICES ASSUME k \notin refused PROVE FALSE
      OBVIOUS
    <3>1. recommendations'[k].recommendation = recommendations[p[k]].recommendation
      BY <1>13 DEF OnlyRefuses
    <3> QED BY <2>3, <3>1 DEF UncompressNew
  <2>5. ~Fits(left[k - 1], NewSize[sorted[k]])
    BY <2>4 DEF refused, RefusedBy
  <2>6. left[k - 1] \in Int /\ left[n] <= left[k - 1]
    <3>1. k - 1 \in 0..n
      BY <1>3
    <3>2. left[k - 1] \in Int
      BY <1>9, <3>1 DEF IsLeft
    <3> QED BY <1>18, <3>2
  <2>7. NewSize[sorted[k]] = recommendations'[k].new.uncompressedSize
    BY <1>6, <1>12, <1>13 DEF OnlyRefuses
  <2>8. NewSize[sorted[k]] \in Int
    BY <1>12
  <2> DEFINE cost == NewSize[sorted[k]]
             room == left[k - 1]
             rest == left[n]
             total == NewTotal'
  <2>9. room - cost < 0 /\ rest <= room /\ total = max - rest
        /\ room \in Int /\ cost \in Int /\ rest \in Int
    BY <1>17, <2>5, <2>6, <2>8 DEF Fits
  <2> HIDE DEF cost, room, rest, total
  <2>10. total + cost > max
    BY <1>5, <2>9
  <2> QED BY <2>1, <2>7, <2>10 DEF cost, total
<1> QED BY <1>13, <1>20, <1>21, Zenon DEF PlannerInv, OnlyRefuses

\* The blob has room for what the DeltaFriendlyOldBlobSizeLimiter leaves, an
\* entry in several pairs being paid for in each of them.
LEMMA OldBlobKeeps ==
  ASSUME PlannerInv, LimitOldBlobSize
  PROVE  PlannerInv'
<1> DEFINE n == Len(recommendations)
           chosen == {rec \in Recs : UncompressOld(rec)}
           cost == [rec \in Recs |-> ExtraBytes(rec)]
           budget == Modifier.max - OldLength
<1>1. /\ pending = {} /\ applied < Len(modifiers) /\ Modifier.kind = "oldBlob"
      /\ applied' = applied + 1 /\ NextModifier("oldBlob")
      /\ UNCHANGED <<oldEntries, newEntries, pending, modifiers, plan>>
      /\ recommendations' = Limited(Decreasing(OldSize), chosen, cost, budget)
  BY DEF LimitOldBlobSize, NextModifier
<1>2. PairsInv /\ LimitsInv
  BY DEF PlannerInv
<1>3. /\ n \in Nat /\ Recs = {recommendations[k] : k \in 1..n}
      /\ \A k \in 1..n : recommendations[k].old \in oldEntries
  BY <1>2, PairTypes
<1>4. /\ IsFiniteSet(oldEntries)
      /\ \A e \in oldEntries : /\ e.uncompressedSize \in Nat /\ e.compressedSize \in Nat
                               /\ OldExtra[e] = e.uncompressedSize - e.compressedSize
                               /\ OldExtra[e] \in Int
                               /\ NoOldShrinks => OldExtra[e] >= 0
  BY <1>2, ArchiveEntries DEF PairsInv, OldExtra, NoOldShrinks
<1>5. /\ applied \in Nat /\ Modifier = modifiers[applied + 1] /\ Modifier.max \in Nat
      /\ applied + 1 \in 1..Len(modifiers)
      /\ OldLength \in Nat /\ budget \in Int
  <2>1. applied \in Nat /\ applied + 1 \in 1..Len(modifiers)
    BY <1>1, <1>2, ModifierTypes DEF LimitsInv
  <2>2. Modifier.max \in Nat /\ OldLength \in Nat
    BY <1>2, <2>1, ModifierTypes, PlannerAssumption DEF LimitsInv, Modifier
  <2> QED BY <2>1, <2>2 DEF Modifier
<1>6. \A rec \in Recs : /\ OldSize[rec] \in Int /\ cost[rec] = OldExtra[rec.old]
                        /\ cost[rec] \in Int
  BY <1>3, <1>4 DEF OldSize, ExtraBytes
<1> HIDE DEF cost, chosen, budget
<1>7. PICK p \in Bijection(1..n, 1..n) : \E left :
        LimiterOutcome(p, left, n, chosen, cost, budget, recommendations')
  BY <1>1, <1>2, <1>5, <1>6, LimiterResult
<1>8. PICK left : LimiterOutcome(p, left, n, chosen, cost, budget, recommendations')
  BY <1>7
<1> DEFINE sorted == [k \in 1..n |-> recommendations[p[k]]]
           refused == RefusedBy(n, sorted, chosen, cost, left)
           entry == [k \in 1..n |-> recommendations[p[k]].old]
           kept == KeptBy(n, sorted, chosen, cost, left)
<1>9. /\ IsLeft(left, n, sorted, chosen, cost, budget)
      /\ recommendations' = [k \in 1..n |-> IF k \in refused THEN Refused(recommendations[p[k]])
                                            ELSE recommendations[p[k]]]
  BY <1>8 DEF LimiterOutcome
<1>10. refused \in SUBSET (1..n)
  BY DEF RefusedBy
<1>11. p \in [1..n -> 1..n]
  BY <1>7 DEF Bijection, Injection
<1>12. \A k \in 1..n : /\ sorted[k] = recommendations[p[k]] /\ p[k] \in 1..n /\ sorted[k] \in Recs
                       /\ entry[k] = sorted[k].old /\ entry[k] \in oldEntries
                       /\ cost[sorted[k]] = OldExtra[entry[k]]
                       /\ cost[sorted[k]] \in Int
                       /\ NoOldShrinks => cost[sorted[k]] >= 0
  BY <1>3, <1>4, <1>6, <1>11
<1> HIDE DEF refused, sorted
<1>13. OnlyRefuses(p, refused, n)
  BY <1>1, <1>7, <1>9, <1>10, LimiterKeeps
<1>14. OldOf(recommendations') = {entry[k] : k \in kept}
  <2>1. \A m \in 1..n : sorted[m] \in chosen <=> UncompressOld(recommendations[p[m]])
    BY <1>12 DEF chosen
  <2>2. kept = {m \in 1..n : UncompressOld(recommendations[p[m]]) /\ m \notin refused}
    BY <2>1 DEF KeptBy, refused
  <2>3. OldOf(recommendations') = {recommendations[p[k]].old : k \in kept}
    BY <1>13, <2>2 DEF OnlyRefuses
  <2>4. \A k \in kept : entry[k] = recommendations[p[k]].old
    BY <2>2
  <2> HIDE DEF kept, entry
  <2> QED BY <2>3, <2>4
<1> DEFINE sum == SumOver({entry[k] : k \in kept}, OldExtra)
<1>15. OldTotal' = OldLength + sum
  <2>1. OldTotal' = OldLength + SumOver(OldOf(recommendations'), OldExtra)
    BY <1>1 DEF OldTotal, OldExtra
  <2> QED BY <1>14, <2>1, Zenon
<1>16. left[n] \in Int /\ sum \in Int /\ (NoOldShrinks => sum <= budget - left[n])
  <2>1. entry \in [1..n -> oldEntries]
    BY <1>12
  <2>2. \A k \in 1..n : cost[sorted[k]] = OldExtra[entry[k]]
    BY <1>12
  <2>3. \A e \in oldEntries : OldExtra[e] \in Int
    BY <1>4
  <2> HIDE DEF entry, kept
  <2>4. left[n] \in Int /\ IsSpent(budget - left[n], entry, kept, oldEntries, OldExtra)
    BY <1>3, <1>4, <1>5, <1>9, <2>1, <2>2, <2>3, ServedSum DEF kept
  <2>5. NoOldShrinks => \A e \in oldEntries : OldExtra[e] >= 0
    BY <1>4
  <2> QED BY <2>4, <2>5, Zenon DEF IsSpent
<1> HIDE DEF entry
<1>17. ASSUME NoOldShrinks PROVE OldTotal' <= Modifier.max \/ OldTotal' = OldLength
  <2>1. /\ \A k \in 1..n : cost[sorted[k]] \in Int
        /\ \A k \in 1..n : cost[sorted[k]] >= 0
    BY <1>12, <1>17
  <2>2. /\ budget >= 0 => \A k \in 0..n : left[k] >= 0
        /\ (\A k \in 1..n : cost[sorted[k]] >= 0) =>
             (budget < 0 => \A k \in 1..n : ~Fits(left[k - 1], cost[sorted[k]]))
    BY <1>3, <1>5, <1>9, <2>1, LeftBounds
  <2>3. CASE budget >= 0
    <3>1. left[n] >= 0
      BY <1>3, <2>2, <2>3
    <3>2. sum <= budget - left[n] /\ budget = Modifier.max - OldLength
      BY <1>16, <1>17 DEF budget
    <3> HIDE DEF sum
    <3> QED BY <1>5, <1>15, <1>16, <3>1, <3>2
  <2>4. CASE budget < 0
    <3>1. kept = {}
      BY <2>1, <2>2, <2>4 DEF KeptBy, RefusedBy
    <3>2. {entry[k] : k \in kept} = {}
      BY <3>1
    <3>3. \A e \in oldEntries : OldExtra[e] \in Int
      BY <1>4
    <3>4. SumOver({}, OldExtra) = 0
      BY <1>4, <3>3, SumOverGrows
    <3>5. sum = 0
      BY <3>2, <3>4
    <3> QED BY <1>5, <1>15, <3>5
  <2> QED BY <1>5, <2>3, <2>4
<1> HIDE DEF kept, sum
<1>18. LimitsInv'
  <2>1. \A m \in 1..applied' : modifiers'[m].kind = "total" => NewTotal' <= modifiers'[m].max
    <3> SUFFICES ASSUME NEW m \in 1..applied', modifiers[m].kind = "total"
                 PROVE  NewTotal' <= modifiers[m].max
      BY <1>1
    <3>1. m # applied + 1
      BY <1>1, <1>5
    <3>2. m \in 1..applied
      BY <1>1, <1>5, <3>1
    <3> QED BY <1>13, <3>2 DEF OnlyRefuses
  <2>2. \A m \in 1..applied' : modifiers'[m].kind = "oldBlob" /\ NoOldShrinks' =>
          OldTotal' <= modifiers'[m].max \/ OldTotal' = OldLength
    <3> SUFFICES ASSUME NEW m \in 1..applied', modifiers[m].kind = "oldBlob", NoOldShrinks
                 PROVE  OldTotal' <= modifiers[m].max \/ OldTotal' = OldLength
      BY <1>1 DEF NoOldShrinks
    <3>1. CASE m = applied + 1
      BY <1>5, <1>17, <3>1
    <3>2. CASE m # applied + 1
      <4>1. m \in 1..applied
        BY <1>1, <1>5, <3>2
      <4> QED BY <1>13, <4>1 DEF OnlyRefuses
    <3> QED BY <3>1, <3>2
  <2>3. applied' \in 0..Len(modifiers')
    BY <1>1, <1>5
  <2> QED BY <1>13, <2>1, <2>2, <2>3, Zenon DEF LimitsInv, OnlyRefuses
<1>19. SpaceInv'
  <2>1. modifiers[applied'].kind = "oldBlob"
    BY <1>1, <1>5
  <2>2. modifiers' = modifiers
    BY <1>1
  <2> QED BY <2>1, <2>2 DEF SpaceInv
<1> QED BY <1>13, <1>18, <1>19, Zenon DEF PlannerInv, OnlyRefuses

\* The plan is made once, of the final recommendations.
LEMMA MakePlanKeeps ==
  ASSUME PlannerInv, MakePlan
  PROVE  PlannerInv'
<1>1. /\ pending = {} /\ applied = Len(modifiers)
      /\ plan' = [old |-> InFileOrder(OldRanges), new |-> InFileOrder(NewRanges)]
      /\ UNCHANGED <<oldEntries, newEntries, pending, recommendations, modifiers, applied>>
  BY DEF MakePlan
<1>2. /\ UNCHANGED <<OldRanges, NewRanges, NewTotal, OldTotal, NoOldShrinks, Pairs>>
  BY <1>1 DEF OldRanges, NewRanges, NewTotal, OldTotal, NoOldShrinks, Pairs, Recs, NewSizes,
              OldExtra
<1>3. PairsInv'
  BY <1>1, <1>2 DEF PlannerInv, PairsInv
<1>4. LimitsInv'
  BY <1>1, <1>2, Zenon DEF PlannerInv, LimitsInv
<1>5. SpaceInv'
  BY <1>1, <1>2, Zenon DEF PlannerInv, SpaceInv
<1>6. PlanInv'
  BY <1>1, <1>2, Zenon DEF PlanInv
<1> QED BY <1>3, <1>4, <1>5, <1>6 DEF PlannerInv

\* Nothing changes, and the invariant stays.
LEMMA PlannerStutters ==
  ASSUME PlannerInv, UNCHANGED vars
  PROVE  PlannerInv'
<1>1. UNCHANGED <<oldEntries, newEntries, pending, recommendations, modifiers, applied, plan>>
  BY DEF vars
<1>2. /\ UNCHANGED <<OldRanges, NewRanges, NewTotal, OldTotal, NoOldShrinks, Pairs>>
  BY <1>1 DEF OldRanges, NewRanges, NewTotal, OldTotal, NoOldShrinks, Pairs, Recs, NewSizes,
              OldExtra
<1>3. PairsInv'
  BY <1>1, <1>2 DEF PlannerInv, PairsInv
<1>4. LimitsInv'
  BY <1>1, <1>2, Zenon DEF PlannerInv, LimitsInv
<1>5. SpaceInv'
  BY <1>1, <1>2, Zenon DEF PlannerInv, SpaceInv
<1>6. PlanInv'
  BY <1>1, <1>2, Zenon DEF PlannerInv, PlanInv
<1> QED BY <1>3, <1>4, <1>5, <1>6 DEF PlannerInv

\* Every step of the planner keeps the invariant.
LEMMA PlannerStep ==
  ASSUME PlannerInv, [Next]_vars
  PROVE  PlannerInv'
<1>1. CASE \E new \in pending : Recommend(new)
  BY <1>1, RecommendKeeps
<1>2. CASE LimitTotalRecompression
  BY <1>2, TotalKeeps
<1>3. CASE LimitOldBlobSize
  BY <1>3, OldBlobKeeps
<1>4. CASE MakePlan
  BY <1>4, MakePlanKeeps
<1>5. CASE UNCHANGED vars
  BY <1>5, PlannerStutters
<1> QED BY <1>1, <1>2, <1>3, <1>4, <1>5 DEF Next, Terminated

-----------------------------------------------------------------------------
(***************************************************************************)
(* What the invariant says of the plan.                                    *)
(***************************************************************************)

\* list has the ranges of some of the entries of an archive, in file order.
IsPlanned(list, entries, part, some) ==
  /\ EntriesOf(entries, list) = part
  /\ Len(list) \in Nat /\ DOMAIN list = 1..Len(list)
  /\ \A k \in 1..Len(list) : list[k] \in some
  /\ \A k \in 2..Len(list) : list[k - 1].offset + list[k - 1].length <= list[k].offset

\* Entries of an archive are planned in file order.
LEMMA PlannedEntries ==
  ASSUME NEW entries, IsArchive(entries), NEW part \in SUBSET entries, NEW params,
         NEW some, some = {RangeOf(e, params[e]) : e \in part}
  PROVE  IsPlanned(InFileOrder(some), entries, part, some)
<1>1. /\ IsFiniteSet(part)
      /\ \A e \in entries : /\ e.offset \in Nat /\ e.compressedSize \in Nat
                            /\ e.uncompressedSize \in Nat
      /\ \A e, f \in entries : e.offset = f.offset => e = f
  BY ArchiveEntries, FS_Subset
<1>2. \A e \in part : /\ RangeOf(e, params[e]).offset = e.offset
                      /\ RangeOf(e, params[e]).length = e.compressedSize
  BY DEF RangeOf
<1>3. IsFiniteSet(some)
  <2> DEFINE f == [e \in part |-> RangeOf(e, params[e])]
  <2>1. f \in Surjection(part, some)
    BY DEF Surjection
  <2> QED BY <1>1, <2>1, FS_Surjection
<1>4. \A r \in some : \E e \in part : /\ e \in entries
                                      /\ r = RangeOf(e, params[e])
                                      /\ r.offset = e.offset /\ r.length = e.compressedSize
  BY <1>2
<1>5. /\ \A r \in some : r.offset \in Int
      /\ \A r, s \in some : r.offset = s.offset => r = s
  BY <1>1, <1>4
<1> DEFINE list == InFileOrder(some)
           c == Cardinality(some)
<1>6. /\ list \in [1..c -> some]
      /\ \A i, j \in 1..c : i < j => list[i].offset < list[j].offset
      /\ \A r \in some : \E i \in 1..c : list[i] = r
  BY <1>3, <1>5, FileOrder
<1>7. c \in Nat
  BY <1>3, FS_CardinalityType
<1> HIDE DEF list, c
<1>8. Len(list) = c /\ DOMAIN list = 1..c
  BY <1>6, <1>7
<1>9. EntriesOf(entries, list) = part
  <2>1. ASSUME NEW e \in part PROVE e \in EntriesOf(entries, list)
    <3>1. RangeOf(e, params[e]) \in some
      OBVIOUS
    <3>2. PICK i \in 1..c : list[i] = RangeOf(e, params[e])
      BY <1>6, <3>1
    <3>3. list[i].offset = e.offset
      BY <1>2, <3>2
    <3> QED BY <1>8, <3>3 DEF EntriesOf
  <2>2. ASSUME NEW e \in EntriesOf(entries, list) PROVE e \in part
    <3>1. e \in entries
      BY DEF EntriesOf
    <3>2. PICK k \in 1..c : list[k].offset = e.offset
      BY <1>8 DEF EntriesOf
    <3>3. PICK f \in part : f \in entries /\ list[k].offset = f.offset
      BY <1>4, <1>6
    <3> QED BY <1>1, <3>1, <3>2, <3>3
  <2> QED BY <2>1, <2>2
<1>10. ASSUME NEW k \in 2..c
       PROVE  list[k - 1].offset + list[k - 1].length <= list[k].offset
  <2>1. k \in 1..c /\ k - 1 \in 1..c /\ k - 1 < k
    BY <1>7
  <2>2. PICK e \in entries : list[k - 1].offset = e.offset /\ list[k - 1].length = e.compressedSize
    BY <1>4, <1>6, <2>1
  <2>3. PICK f \in entries : list[k].offset = f.offset
    BY <1>4, <1>6, <2>1
  <2>4. e.offset < f.offset
    BY <1>6, <2>1, <2>2, <2>3
  <2>5. /\ e.offset \in Nat /\ f.offset \in Nat
        /\ e.compressedSize \in Nat /\ f.compressedSize \in Nat
    BY <1>1
  <2>6. e # f
    BY <2>4, <2>5
  <2>7. \/ e.offset + e.compressedSize <= f.offset
        \/ f.offset < e.offset
    BY <2>6 DEF IsArchive
  <2>8. e.offset + e.compressedSize <= f.offset
    BY <2>4, <2>5, <2>7
  <2> QED BY <2>2, <2>3, <2>8
<1>11. \A k \in 1..c : list[k] \in some
  BY <1>6
<1> QED BY <1>7, <1>8, <1>9, <1>10, <1>11 DEF list, IsPlanned

\* The plans are of what the recommendations have uncompressed.
LEMMA PlansOfPairs ==
  ASSUME PlannerInv, plan # Null
  PROVE  /\ IsPlanned(plan.old, oldEntries, OldOf(recommendations), OldRanges)
         /\ IsPlanned(plan.new, newEntries, NewOf(recommendations), NewRanges)
<1>1. PairsInv /\ plan = [old |-> InFileOrder(OldRanges), new |-> InFileOrder(NewRanges)]
  BY DEF PlannerInv, PlanInv
<1>2. /\ IsArchive(oldEntries) /\ IsArchive(newEntries)
      /\ NewOf(recommendations) \in SUBSET newEntries
      /\ OldOf(recommendations) \in SUBSET oldEntries
  BY <1>1, PairTypes DEF PairsInv
<1> DEFINE noParams == [e \in oldEntries |-> Null]
           theirParams == [e \in newEntries |-> e.params]
<1>3. OldRanges = {RangeOf(e, noParams[e]) : e \in OldOf(recommendations)}
  <2>1. OldOf(recommendations) = {rec.old : rec \in {r \in Recs : UncompressOld(r)}}
    BY DEF OldOf, Recs
  <2>2. \A e \in OldOf(recommendations) : noParams[e] = Null
    BY <1>2
  <2> HIDE DEF noParams
  <2> QED BY <2>1, <2>2 DEF OldRanges
<1>4. NewRanges = {RangeOf(e, theirParams[e]) : e \in NewOf(recommendations)}
  <2>1. NewOf(recommendations) = {rec.new : rec \in {r \in Recs : UncompressNew(r)}}
    BY DEF NewOf, Recs
  <2>2. \A e \in NewOf(recommendations) : theirParams[e] = e.params
    BY <1>2
  <2> HIDE DEF theirParams
  <2> QED BY <2>1, <2>2 DEF NewRanges
<1> HIDE DEF noParams, theirParams
<1>5. IsPlanned(InFileOrder(OldRanges), oldEntries, OldOf(recommendations), OldRanges)
  BY <1>2, <1>3, PlannedEntries
<1>6. IsPlanned(InFileOrder(NewRanges), newEntries, NewOf(recommendations), NewRanges)
  BY <1>2, <1>4, PlannedEntries
<1> QED BY <1>1, <1>5, <1>6

\* Only what the rules recommended, as the rules recommended it, is
\* uncompressed.
LEMMA UncompressedPairs ==
  ASSUME PairsInv, NEW k \in 1..Len(recommendations)
  PROVE  LET rec == recommendations[k]
         IN /\ UncompressNew(rec) => /\ IsDeflateCompressed(rec.new) /\ rec.new.params # Null
                                     /\ rec.old.method = Stored \/ UncompressOld(rec)
            /\ UncompressOld(rec) => IsDeflateCompressed(rec.old)
<1> DEFINE rec == recommendations[k]
<1>1. \/ rec.recommendation = Recommended(rec.old, rec.new)
      \/ rec.recommendation = "UNCOMPRESS_NEITHER"
  BY DEF PairsInv
<1> HIDE DEF rec
<1>2. ASSUME UncompressNew(rec)
      PROVE  /\ IsDeflateCompressed(rec.new) /\ rec.new.params # Null
             /\ rec.old.method = Stored \/ UncompressOld(rec)
  <2>1. /\ rec.recommendation = Recommended(rec.old, rec.new)
        /\ rec.recommendation \in {"UNCOMPRESS_NEW", "UNCOMPRESS_BOTH"}
    BY <1>1, <1>2 DEF UncompressNew
  <2>2. /\ rec.new.method # Stored /\ ~Unsuitable(rec.old, rec.new)
        /\ ~UnsuitableDeflate(rec.new)
    BY <2>1, RecommendedType
  <2>3. rec.recommendation = "UNCOMPRESS_NEW" => rec.old.method = Stored
    BY <2>1, RecommendedType
  <2>4. IsDeflateCompressed(rec.new) /\ rec.new.params # Null
    BY <2>2 DEF Unsuitable, UnsuitableDeflate
  <2> QED BY <2>1, <2>3, <2>4 DEF UncompressOld
<1>3. ASSUME UncompressOld(rec) PROVE IsDeflateCompressed(rec.old)
  <2>1. /\ rec.recommendation = Recommended(rec.old, rec.new)
        /\ rec.recommendation \in {"UNCOMPRESS_OLD", "UNCOMPRESS_BOTH"}
    BY <1>1, <1>3 DEF UncompressOld
  <2>2. rec.old.method # Stored /\ ~Unsuitable(rec.old, rec.new)
    BY <2>1, RecommendedType
  <2> QED BY <2>2 DEF Unsuitable
<1> QED BY <1>2, <1>3 DEF rec

\* What the plans cost is what the recommendations cost.
LEMMA PlanTotals ==
  ASSUME PlannerInv, plan # Null
  PROVE  BytesToRecompress = NewTotal /\ OldBlobSize = OldTotal
<1>1. /\ EntriesOf(newEntries, plan.new) = NewOf(recommendations)
      /\ EntriesOf(oldEntries, plan.old) = OldOf(recommendations)
  BY PlansOfPairs DEF IsPlanned
<1> QED BY <1>1, Zenon DEF BytesToRecompress, OldBlobSize, NewTotal, OldTotal, NewSizes, OldExtra

\* The plans of the invariant are as the planner promises.
LEMMA PlanPromises ==
  ASSUME PlannerInv
  PROVE  /\ RecompressionWithinLimit /\ OldBlobWithinLimit /\ PlansAreExecutable
         /\ UncompressedMeetsPlain /\ RefusedOnlyForSpace
<1> SUFFICES ASSUME plan # Null
             PROVE  /\ RecompressionWithinLimit /\ OldBlobWithinLimit /\ PlansAreExecutable
                    /\ UncompressedMeetsPlain /\ RefusedOnlyForSpace
  BY DEF RecompressionWithinLimit, OldBlobWithinLimit, PlansAreExecutable,
         UncompressedMeetsPlain, RefusedOnlyForSpace
<1>1. PairsInv /\ LimitsInv /\ SpaceInv /\ applied = Len(modifiers)
  BY DEF PlannerInv, PlanInv
<1>2. BytesToRecompress = NewTotal /\ OldBlobSize = OldTotal
  BY PlanTotals
<1>3. /\ EntriesOf(newEntries, plan.new) = NewOf(recommendations)
      /\ EntriesOf(oldEntries, plan.old) = OldOf(recommendations)
      /\ \A list \in {plan.old, plan.new} : \A k \in 2..Len(list) :
           list[k - 1].offset + list[k - 1].length <= list[k].offset
  BY PlansOfPairs DEF IsPlanned
<1>4. DOMAIN modifiers = 1..applied
  BY <1>1, PlannerAssumption DEF LimitsInv
<1>5. DOMAIN recommendations = 1..Len(recommendations)
  BY <1>1, PairTypes
<1>6. RecompressionWithinLimit
  <2>1. ASSUME NEW m \in 1..applied, modifiers[m].kind = "total"
        PROVE  BytesToRecompress <= modifiers[m].max
    BY <1>1, <1>2, <2>1 DEF LimitsInv
  <2> QED BY <1>4, <2>1 DEF RecompressionWithinLimit, Maxima
<1>7. OldBlobWithinLimit
  <2>1. ASSUME NoOldShrinks, NEW m \in 1..applied, modifiers[m].kind = "oldBlob"
        PROVE  OldBlobSize <= modifiers[m].max \/ OldBlobSize = OldLength
    BY <1>1, <1>2, <2>1 DEF LimitsInv
  <2> QED BY <1>4, <2>1 DEF OldBlobWithinLimit, Maxima, NoOldShrinks
<1>8. PlansAreExecutable
  <2>1. ASSUME NEW e \in EntriesOf(oldEntries, plan.old) PROVE IsDeflateCompressed(e)
    <3>1. PICK k \in 1..Len(recommendations) :
            e = recommendations[k].old /\ UncompressOld(recommendations[k])
      BY <1>3, <1>5 DEF OldOf
    <3> QED BY <1>1, <3>1, UncompressedPairs
  <2>2. ASSUME NEW e \in EntriesOf(newEntries, plan.new)
        PROVE  IsDeflateCompressed(e) /\ e.params # Null
    <3>1. PICK k \in 1..Len(recommendations) :
            e = recommendations[k].new /\ UncompressNew(recommendations[k])
      BY <1>3, <1>5 DEF NewOf
    <3> QED BY <1>1, <3>1, UncompressedPairs
  <2> QED BY <1>3, <2>1, <2>2, Zenon DEF PlansAreExecutable
<1>9. UncompressedMeetsPlain
  <2> SUFFICES ASSUME NEW rec \in Recs, rec.new \in NewOf(recommendations)
               PROVE  rec.old.method = Stored \/ rec.old \in OldOf(recommendations)
    BY <1>3 DEF UncompressedMeetsPlain
  <2>1. PICK j \in 1..Len(recommendations) : rec = recommendations[j]
    BY <1>5 DEF Recs
  <2>2. PICK k \in 1..Len(recommendations) :
          rec.new = recommendations[k].new /\ UncompressNew(recommendations[k])
    BY <1>5 DEF NewOf
  <2>3. j = k
    BY <1>1, <2>1, <2>2 DEF PairsInv
  <2>4. rec.old.method = Stored \/ UncompressOld(rec)
    BY <1>1, <2>1, <2>2, <2>3, UncompressedPairs
  <2> QED BY <1>5, <2>1, <2>4 DEF OldOf
<1>10. RefusedOnlyForSpace
  <2> SUFFICES ASSUME Len(modifiers) = 1, modifiers[1].kind = "total", NEW rec \in Recs,
                      Recommended(rec.old, rec.new) \in {"UNCOMPRESS_NEW", "UNCOMPRESS_BOTH"},
                      ~UncompressNew(rec)
               PROVE  BytesToRecompress + NewSize[rec] > modifiers[1].max
    BY DEF RefusedOnlyForSpace
  <2>1. PICK k \in 1..Len(recommendations) : rec = recommendations[k]
    BY <1>5 DEF Recs
  <2>2. NewTotal + rec.new.uncompressedSize > modifiers[1].max
    BY <1>1, <2>1 DEF SpaceInv
  <2>3. NewSize[rec] = rec.new.uncompressedSize
    BY DEF NewSize
  <2> QED BY <1>2, <2>2, <2>3
<1> QED BY <1>6, <1>7, <1>8, <1>9, <1>10

-----------------------------------------------------------------------------
(***************************************************************************)
(* The diviner, and the executor that asks it before it plans.             *)
(***************************************************************************)

\* Only settings of java.util.zip.Deflater are tried.
LEMMA CandidatesAreSettings ==
  ASSUME NEW nowrap \in BOOLEAN
  PROVE  Candidates(nowrap) \in Seq(Settings)
<1> DEFINE S == Settings
           with(level, strategy) == [level |-> level, strategy |-> strategy, nowrap |-> nowrap]
           levels(strategy) == LevelsByStrategy[strategy]
           of(strategy) == [k \in DOMAIN levels(strategy) |-> with(levels(strategy)[k], strategy)]
<1>1. \A level \in 1..9, strategy \in 0..2 : with(level, strategy) \in S
  BY DEF Settings
<1>2. /\ levels(0) = <<6, 9, 1, 4, 2, 3, 5, 7, 8>>
      /\ levels(1) = <<6, 9, 4, 5, 7, 8>>
      /\ levels(2) = <<1>>
  BY DEF LevelsByStrategy
<1>3. \A strategy \in 0..2 : levels(strategy) \in Seq(1..9)
  <2>1. <<6, 9, 1, 4, 2, 3, 5, 7, 8>> \in Seq(1..9)
    OBVIOUS
  <2>2. <<6, 9, 4, 5, 7, 8>> \in Seq(1..9) /\ <<1>> \in Seq(1..9)
    OBVIOUS
  <2>3. \A strategy \in 0..2 : strategy = 0 \/ strategy = 1 \/ strategy = 2
    OBVIOUS
  <2> QED BY <1>2, <2>1, <2>2, <2>3
<1> HIDE DEF with, levels, S
<1>4. \A strategy \in 0..2 : of(strategy) \in Seq(S)
  <2> SUFFICES ASSUME NEW strategy \in 0..2 PROVE of(strategy) \in Seq(S)
    OBVIOUS
  <2> DEFINE list == levels(strategy)
  <2>1. list \in Seq(1..9)
    BY <1>3
  <2> HIDE DEF list
  <2>2. [k \in DOMAIN list |-> with(list[k], strategy)] \in Seq(S)
    <3>1. Len(list) \in Nat /\ DOMAIN list = 1..Len(list) /\ \A k \in 1..Len(list) : list[k] \in 1..9
      BY <2>1
    <3>2. \A k \in 1..Len(list) : with(list[k], strategy) \in S
      BY <1>1, <3>1
    <3> QED BY <3>1, <3>2
  <2> QED BY <2>2 DEF list
<1>5. Candidates(nowrap) = of(0) \o of(1) \o of(2)
  BY DEF Candidates, with, levels
<1> HIDE DEF of
<1>6. of(0) \in Seq(S) /\ of(1) \in Seq(S) /\ of(2) \in Seq(S)
  BY <1>4
<1>7. of(0) \o of(1) \o of(2) \in Seq(S)
  BY <1>6
<1> QED BY <1>5, <1>7 DEF S

\* A turn of the search finds a candidate that matches, if it finds any.
LEMMA FirstMatchMatches ==
  ASSUME NEW entry, NEW nowrap \in BOOLEAN, FirstMatch(entry, nowrap) # NoSettings
  PROVE  FirstMatch(entry, nowrap) \in Settings /\ Matches(entry, FirstMatch(entry, nowrap))
<1> DEFINE tried == Candidates(nowrap)
           matching == {k \in DOMAIN tried : Matches(entry, tried[k])}
<1>1. tried \in Seq(Settings)
  BY CandidatesAreSettings
<1> HIDE DEF tried
<1>2. DOMAIN tried = 1..Len(tried) /\ Len(tried) \in Nat
  BY <1>1
<1>3. matching # {}
  BY DEF FirstMatch, tried
<1>4. matching \subseteq Nat
  BY <1>2
<1>5. \E m \in matching : \A j \in matching : m <= j
  <2> HIDE DEF matching
  <2> QED BY <1>3, <1>4, Data!SmallestExists
<1> DEFINE first == CHOOSE k \in matching : \A j \in matching : k <= j
<1>6. first \in matching
  BY <1>5
<1>7. FirstMatch(entry, nowrap) = tried[first]
  BY DEF FirstMatch, tried
<1> HIDE DEF first
<1>8. first \in 1..Len(tried) /\ Matches(entry, tried[first])
  BY <1>2, <1>6
<1> QED BY <1>1, <1>7, <1>8

\* What matches an entry makes its bytes.
LEMMA MatchReproduces ==
  ASSUME NEW entry, entry.bytes \in Seq(Bytes), entry.crc \in Contents,
         NEW s \in Settings, Matches(entry, s)
  PROVE  Deflated[s][entry.crc] = entry.bytes
<1> DEFINE out == Deflated[s][entry.crc]
           bytes == entry.bytes
<1>1. out \in Seq(Bytes)
  BY ZlibAssumption
<1>2. /\ Len(out) = Len(bytes)
      /\ SubSeq(out, 1, Len(out)) = SubSeq(bytes, 1, Len(out))
  BY DEF Matches, IsPrefix
<1>3. bytes \in Seq(Bytes)
  OBVIOUS
<1> HIDE DEF out, bytes
<1>4. SubSeq(out, 1, Len(out)) = out /\ SubSeq(bytes, 1, Len(bytes)) = bytes
  BY <1>1, <1>3
<1>5. out = bytes
  BY <1>2, <1>4
<1> QED BY <1>5 DEF out, bytes

\* What the diviner finds reproduces the entry.
LEMMA DivinedReproduces ==
  ASSUME NEW entry, entry.bytes \in Seq(Bytes), entry.crc \in Contents,
         Divined(entry) # Null
  PROVE  Deflated[Divined(entry)][entry.crc] = entry.bytes
<1>1. PICK nowrap \in BOOLEAN : /\ Divined(entry) = FirstMatch(entry, nowrap)
                                /\ FirstMatch(entry, nowrap) # NoSettings
  BY ExecutorAssumption DEF Divined
<1>2. FirstMatch(entry, nowrap) \in Settings /\ Matches(entry, FirstMatch(entry, nowrap))
  BY <1>1, FirstMatchMatches
<1> QED BY <1>1, <1>2, MatchReproduces

\* An entry that has been divined has settings that reproduce it or none, one
\* that has not is as it was listed; nothing is planned before all of them
\* have been divined.
DivinedInv ==
  /\ undivined \subseteq newEntries \intersect UNION NewArchives
  /\ \A e \in newEntries : e.params # Null => Deflated[e.params][e.crc] = e.bytes
  /\ undivined # {} => /\ pending = newEntries /\ recommendations = <<>>
                       /\ applied = 0 /\ plan = Null

ExecutorInv == PlannerInv /\ DivinedInv

\* An entry as the diviner leaves it is still an entry of the archive.
LEMMA DivinedArchive ==
  ASSUME NEW entries, IsArchive(entries), NEW entry \in entries, NEW divined,
         \A field \in {"path", "offset", "method", "compressedSize", "uncompressedSize"} :
           divined[field] = entry[field]
  PROVE  IsArchive((entries \ {entry}) \union {divined})
<1>1. /\ divined.path = entry.path /\ divined.offset = entry.offset
      /\ divined.method = entry.method /\ divined.compressedSize = entry.compressedSize
      /\ divined.uncompressedSize = entry.uncompressedSize
  OBVIOUS
<1> DEFINE rest == entries \ {entry}
           Apart(e, f) == /\ e.path # f.path
                          /\ \/ e.offset + e.compressedSize <= f.offset /\ e.offset < f.offset
                             \/ f.offset + f.compressedSize <= e.offset /\ f.offset < e.offset
<1>2. IsFiniteSet(rest \union {divined})
  <2>1. IsFiniteSet(rest)
    BY FS_Subset DEF IsArchive
  <2> QED BY <2>1, FS_AddElement
<1>3. \A e \in rest \union {divined} :
        /\ {e.offset, e.compressedSize, e.uncompressedSize} \subseteq Nat
        /\ e.method = Stored => e.compressedSize = e.uncompressedSize
  BY <1>1 DEF IsArchive
<1>4. \A e, f \in entries : e # f => Apart(e, f)
  BY DEF IsArchive
<1>5. \A e \in rest : Apart(e, divined) /\ Apart(divined, e)
  <2> SUFFICES ASSUME NEW e \in rest PROVE Apart(e, divined) /\ Apart(divined, e)
    OBVIOUS
  <2>1. Apart(e, entry) /\ Apart(entry, e)
    BY <1>4
  <2> QED BY <1>1, <2>1
<1>6. \A e, f \in rest \union {divined} : e # f => Apart(e, f)
  BY <1>4, <1>5
<1> QED BY <1>2, <1>3, <1>6 DEF IsArchive

\* The executor starts in the invariant.
LEMMA ExecutorStarts ==
  ASSUME ExecutorInit
  PROVE  ExecutorInv
<1>1. PlannerInv
  BY PlannerStarts DEF ExecutorInit
<1>2. /\ undivined = newEntries /\ newEntries \in NewArchives
      /\ \A e \in newEntries : e.params = Null
      /\ pending = newEntries /\ recommendations = <<>> /\ applied = 0 /\ plan = Null
  BY DEF ExecutorInit, Init
<1>3. undivined \subseteq newEntries \intersect UNION NewArchives
  BY <1>2
<1> QED BY <1>1, <1>2, <1>3, Zenon DEF ExecutorInv, DivinedInv

\* Divining an entry keeps the invariant.
LEMMA DivineKeeps ==
  ASSUME ExecutorInv, NEW entry \in undivined, Divine(entry)
  PROVE  ExecutorInv'
<1>1. /\ undivined' = undivined \ {entry}
      /\ pending' = newEntries'
      /\ UNCHANGED <<oldEntries, recommendations, modifiers, applied, plan>>
  BY DEF Divine
<1>2. PICK params : /\ params = IF IsDeflateCompressed(entry) THEN Divined(entry) ELSE Null
                    /\ newEntries' = (newEntries \ {entry})
                                       \union {[entry EXCEPT !.params = params]}
  BY DEF Divine
<1>3. PICK divined : divined = [entry EXCEPT !.params = params]
  OBVIOUS
<1>4. /\ entry \in newEntries /\ entry \in UNION NewArchives
      /\ pending = newEntries /\ recommendations = <<>> /\ applied = 0 /\ plan = Null
      /\ undivined \subseteq newEntries /\ undivined \subseteq UNION NewArchives
      /\ \A e \in newEntries : e.params # Null => Deflated[e.params][e.crc] = e.bytes
  BY DEF ExecutorInv, DivinedInv
<1>5. /\ \A field \in {"path", "offset", "method", "compressedSize", "uncompressedSize", "crc",
                       "bytes"} : divined[field] = entry[field]
      /\ divined.params = params
  <2>1. {"path", "offset", "method", "compressedSize", "uncompressedSize", "crc", "bytes",
         "params"} \subseteq DOMAIN entry
    BY <1>4, ExecutorAssumption
  <2> QED BY <1>3, <2>1
<1>6. newEntries' = (newEntries \ {entry}) \union {divined}
  BY <1>2, <1>3
<1>7. IsArchive(newEntries)'
  <2>1. IsArchive(newEntries)
    BY DEF ExecutorInv, PlannerInv, PairsInv
  <2>2. \A field \in {"path", "offset", "method", "compressedSize", "uncompressedSize"} :
          divined[field] = entry[field]
    BY <1>5
  <2> DEFINE rest == newEntries
  <2>3. IsArchive((rest \ {entry}) \union {divined})
    BY <1>4, <2>1, <2>2, DivinedArchive
  <2> QED BY <1>6, <2>3
<1>8. divined.params # Null => Deflated[divined.params][divined.crc] = divined.bytes
  <2> SUFFICES ASSUME params # Null PROVE Deflated[params][entry.crc] = entry.bytes
    BY <1>5
  <2>1. params = Divined(entry) /\ entry.method = Deflate
    BY <1>2 DEF IsDeflateCompressed
  <2>2. entry.bytes \in Seq(Bytes) /\ entry.crc \in Contents
    BY <1>4, <2>1, ExecutorAssumption
  <2> QED BY <2>1, <2>2, DivinedReproduces
<1>9. DivinedInv'
  <2>1. undivined' \subseteq newEntries' \intersect UNION NewArchives
    BY <1>1, <1>4, <1>6
  <2>2. \A e \in newEntries' : e.params # Null => Deflated[e.params][e.crc] = e.bytes
    BY <1>4, <1>6, <1>8
  <2> QED BY <1>1, <1>4, <2>1, <2>2 DEF DivinedInv
<1>10. PlannerInv'
  <2>1. PairsInv'
    <3>1. recommendations' \in Seq(Pairs') /\ Len(recommendations') = 0
      BY <1>1, <1>4
    <3>2. \A k \in 1..Len(recommendations') : FALSE
      BY <3>1
    <3>3. IsArchive(oldEntries)' /\ pending' \subseteq newEntries'
      BY <1>1 DEF ExecutorInv, PlannerInv, PairsInv
    <3> QED BY <1>7, <3>1, <3>2, <3>3 DEF PairsInv
  <2>2. LimitsInv'
    <3>1. /\ modifiers' \in ModifierLists /\ applied' \in 0..Len(modifiers') /\ applied' = 0
      BY <1>1, <1>4 DEF ExecutorInv, PlannerInv, LimitsInv
    <3>2. \A m \in 1..applied' : FALSE
      BY <3>1
    <3> QED BY <3>1, <3>2 DEF LimitsInv
  <2>3. SpaceInv' /\ PlanInv'
    BY <1>1, <1>4 DEF SpaceInv, PlanInv
  <2> QED BY <2>1, <2>2, <2>3 DEF PlannerInv
<1> QED BY <1>9, <1>10 DEF ExecutorInv

\* Every step of the executor keeps the invariant.
LEMMA ExecutorStep ==
  ASSUME ExecutorInv, [ExecutorNext]_executorVars
  PROVE  ExecutorInv'
<1>1. ASSUME NEW entry \in undivined, Divine(entry) PROVE ExecutorInv'
  BY <1>1, DivineKeeps
<1>2. CASE GeneratePreDiffPlan
  <2>1. [Next]_vars /\ undivined = {} /\ undivined' = {}
    BY <1>2 DEF GeneratePreDiffPlan, Next
  <2>2. PlannerInv'
    BY <2>1, PlannerStep DEF ExecutorInv
  <2>3. newEntries' = newEntries
    BY <1>2 DEF GeneratePreDiffPlan, Recommend, LimitTotalRecompression, LimitOldBlobSize,
                NextModifier, MakePlan
  <2>4. DivinedInv'
    BY <2>1, <2>3 DEF ExecutorInv, DivinedInv
  <2> QED BY <2>2, <2>4 DEF ExecutorInv
<1>3. CASE UNCHANGED <<undivined, vars>>
  <2>1. PlannerInv'
    BY <1>3, PlannerStutters DEF ExecutorInv
  <2>2. DivinedInv'
    BY <1>3 DEF ExecutorInv, DivinedInv, vars
  <2> QED BY <2>1, <2>2 DEF ExecutorInv
<1>4. ASSUME NEW entry \in undivined, DivinationThrows(entry) PROVE ExecutorInv'
  BY <1>3, <1>4 DEF DivinationThrows
<1>5. CASE UNCHANGED executorVars
  BY <1>3, <1>5 DEF executorVars
<1> QED BY <1>1, <1>2, <1>4, <1>5 DEF ExecutorNext, ExecutorTerminated

\* Planned ranges of the new file have settings that reproduce their entries.
LEMMA PlannedReproduce ==
  ASSUME ExecutorInv
  PROVE  RangesReproduce
<1> SUFFICES ASSUME plan # Null, NEW k \in DOMAIN plan.new
             PROVE  \E e \in newEntries : /\ plan.new[k].offset = e.offset
                                          /\ Deflated[plan.new[k].params][e.crc] = e.bytes
  BY Zenon DEF RangesReproduce
<1>1. PlannerInv /\ PairsInv
  BY DEF ExecutorInv, PlannerInv
<1>2. plan.new[k] \in NewRanges
  BY <1>1, PlansOfPairs DEF IsPlanned
<1>3. PICK rec \in Recs : UncompressNew(rec) /\ plan.new[k] = RangeOf(rec.new, rec.new.params)
  BY <1>2 DEF NewRanges
<1>4. PICK j \in 1..Len(recommendations) : rec = recommendations[j]
  BY <1>1, PairTypes DEF Recs
<1>5. rec.new \in newEntries /\ rec.new.params # Null
  BY <1>1, <1>3, <1>4, PairTypes, UncompressedPairs
<1>6. Deflated[rec.new.params][rec.new.crc] = rec.new.bytes
  BY <1>5 DEF ExecutorInv, DivinedInv
<1>7. plan.new[k].offset = rec.new.offset /\ plan.new[k].params = rec.new.params
  BY <1>3 DEF RangeOf
<1> QED BY <1>5, <1>6, <1>7

\* The invariant holds in every state of the executor.
THEOREM ExecutorKeepsInvariant == ExecutorSpec => []ExecutorInv
<1>1. ExecutorInit => ExecutorInv
  BY ExecutorStarts
<1>2. ExecutorInv /\ [ExecutorNext]_executorVars => ExecutorInv'
  BY ExecutorStep
<1> QED BY <1>1, <1>2, PTL DEF ExecutorSpec

\* Whatever the archives and the limiters, wherever the total limiter stands:
\* no more is planned to be recompressed than it allows.
THEOREM TotalLimiterHolds == ExecutorSpec => []RecompressionWithinLimit
<1>1. ExecutorInv => RecompressionWithinLimit
  BY PlanPromises DEF ExecutorInv
<1> QED BY <1>1, ExecutorKeepsInvariant, PTL

\* The blob limiter bounds the delta-friendly old blob.
THEOREM BlobLimiterHolds == ExecutorSpec => []OldBlobWithinLimit
<1>1. ExecutorInv => OldBlobWithinLimit
  BY PlanPromises DEF ExecutorInv
<1> QED BY <1>1, ExecutorKeepsInvariant, PTL

\* Both plans are in file order, without overlap, of deflated data and, in
\* the new file, with settings.
THEOREM ExecutablePlans == ExecutorSpec => []PlansAreExecutable
<1>1. ExecutorInv => PlansAreExecutable
  BY PlanPromises DEF ExecutorInv
<1> QED BY <1>1, ExecutorKeepsInvariant, PTL

\* No limiter leaves one half of a pair.
THEOREM PlainMeetsPlain == ExecutorSpec => []UncompressedMeetsPlain
<1>1. ExecutorInv => UncompressedMeetsPlain
  BY PlanPromises DEF ExecutorInv
<1> QED BY <1>1, ExecutorKeepsInvariant, PTL

\* A total limiter on its own refuses only what does not fit.
THEOREM TotalLimiterIsMaximal == ExecutorSpec => []RefusedOnlyForSpace
<1>1. ExecutorInv => RefusedOnlyForSpace
  BY PlanPromises DEF ExecutorInv
<1> QED BY <1>1, ExecutorKeepsInvariant, PTL

\* What is planned to be uncompressed in the new file can be compressed again
\* to the same bytes.
THEOREM PlansReproduce == ExecutorSpec => []RangesReproduce
<1>1. ExecutorInv => RangesReproduce
  BY PlannedReproduce
<1> QED BY <1>1, ExecutorKeepsInvariant, PTL

=============================================================================
