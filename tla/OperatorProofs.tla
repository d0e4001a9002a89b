---------------------------- MODULE OperatorProofs ----------------------------
(***************************************************************************)
(* Proofs about the operators of ThreadTree, ThreadHistory, TaskList,      *)
(* RateLimiter and TokenUsage, for inputs of any size.                     *)
(*                                                                         *)
(* A loop of the code is a recursive function of the number of rounds.     *)
(* LoopRuns says that such a function exists and is the only one, UpTo is  *)
(* induction over its rounds: both come from the fact that a set of        *)
(* numbers has a least one.                                                *)
(***************************************************************************)
EXTENDS ThreadTree, ThreadHistory, TaskList, RateLimiter, TokenUsage,
        TLAPS, FiniteSetTheorems, SequenceTheorems, WellFoundedInduction

\* A set of numbers has a least one; what fails at some level of a walk fails at
\* a first one.
LEMMA LeastNatural ==
  ASSUME NEW T \in SUBSET Nat, NEW n \in T
  PROVE  \E m \in T : \A k \in T : m <= k
<1>1. PICK m \in T : \A k \in T : ~(<<k, m>> \in OpToRel(<, Nat))
  <2>1. T # {} /\ T \subseteq Nat
    OBVIOUS
  <2> QED BY <2>1, WFMin, NatLessThanWellFounded
<1>2. \A k \in T : ~(k < m)
  BY <1>1 DEF OpToRel
<1> QED BY <1>2

\* Induction: what holds before the first round and is kept by each round.
LEMMA UpTo ==
  ASSUME NEW N \in Nat, NEW T, 0 \in T, \A k \in 1 .. N : k - 1 \in T => k \in T
  PROVE  \A k \in 0 .. N : k \in T
<1> DEFINE F == {k \in 0 .. N : k \notin T}
<1>1. SUFFICES ASSUME NEW n \in F PROVE FALSE
  OBVIOUS
<1>2. PICK m \in F : \A k \in F : m <= k
  <2> HIDE DEF F
  <2>1. F \subseteq Nat
    BY DEF F
  <2> QED BY <1>1, <2>1, LeastNatural
<1>3. m \in 1 .. N /\ m - 1 \in 0 .. N /\ ~(m <= m - 1)
  BY <1>2
<1>4. m - 1 \in T
  BY <1>2, <1>3
<1> QED BY <1>3, <1>4

\* A loop of N rounds, its k-th round taking x in V to step[k][x].
Loops(V, start, N, step) ==
  {f \in [0 .. N -> V] : f[0] = start /\ \A k \in 1 .. N : f[k] = step[k][f[k - 1]]}

\* It runs, ...
LEMMA LoopRuns ==
  ASSUME NEW V, NEW start \in V, NEW N \in Nat, NEW step \in [1 .. N -> [V -> V]]
  PROVE  \E f : f \in Loops(V, start, N, step)
<1> DEFINE T == {n \in 0 .. N : \E f : f \in Loops(V, start, n, step)}
<1>1. 0 \in T
  <2>1. [k \in 0 .. 0 |-> start] \in Loops(V, start, 0, step)
    BY DEF Loops
  <2> QED BY <2>1
<1>2. ASSUME NEW n \in 1 .. N, n - 1 \in T PROVE n \in T
  <2>1. PICK f : f \in Loops(V, start, n - 1, step)
    BY <1>2
  <2> DEFINE last == step[n][f[n - 1]]
             g == [k \in 0 .. n |-> IF k = n THEN last ELSE f[k]]
  <2>2. n - 1 \in 0 .. n - 1 /\ f \in [0 .. n - 1 -> V] /\ f[0] = start
    BY <2>1 DEF Loops
  <2>3. last \in V
    BY <2>2
  <2>4. g \in [0 .. n -> V] /\ g[0] = start
    BY <2>2, <2>3
  <2>5. ASSUME NEW k \in 1 .. n PROVE g[k] = step[k][g[k - 1]]
    <3>1. g[k - 1] = f[k - 1]
      OBVIOUS
    <3>2. CASE k = n
      BY <3>1, <3>2
    <3>3. CASE k # n
      <4>1. k \in 1 .. n - 1 /\ g[k] = f[k]
        BY <3>3
      <4> QED BY <2>1, <3>1, <4>1 DEF Loops
    <3> QED BY <3>2, <3>3
  <2>6. g \in Loops(V, start, n, step)
    BY <2>4, <2>5 DEF Loops
  <2> QED BY <2>6
<1> HIDE DEF T
<1>3. \A k \in 1 .. N : k - 1 \in T => k \in T
  BY <1>2
<1>4. \A k \in 0 .. N : k \in T
  BY <1>1, <1>3, UpTo
<1> QED BY <1>4 DEF T

\* ... and whatever starts as it does and takes its rounds is the same.
Follows(v, V, start, N, step) ==
  v[0] = start /\ \A k \in 1 .. N : v[k - 1] \in V => v[k] = step[k][v[k - 1]]

LEMMA LoopUnique ==
  ASSUME NEW V, NEW start, NEW N \in Nat, NEW step, NEW f \in Loops(V, start, N, step), NEW v,
         Follows(v, V, start, N, step)
  PROVE  \A k \in 0 .. N : v[k] = f[k]
<1> USE DEF Follows
<1> DEFINE T == {k \in 0 .. N : v[k] = f[k]}
<1>1. 0 \in T
  BY DEF Loops
<1>2. ASSUME NEW k \in 1 .. N, k - 1 \in T PROVE k \in T
  <2>1. v[k - 1] = f[k - 1] /\ f[k - 1] \in V
    BY <1>2 DEF Loops
  <2> QED BY <1>2, <2>1 DEF Loops
<1> HIDE DEF T
<1>3. \A k \in 1 .. N : k - 1 \in T => k \in T
  BY <1>2
<1>4. \A k \in 0 .. N : k \in T
  BY <1>1, <1>3, UpTo
<1> QED BY <1>4 DEF T

\* In a finite set with a strict total order, how many elements are below one
\* counts its place.
Ordered(S, less) ==
  /\ \A x \in S : <<x, x>> \notin less
  /\ \A x, y \in S : x = y \/ <<x, y>> \in less \/ <<y, x>> \in less
  /\ \A x, y, z \in S : <<x, y>> \in less /\ <<y, z>> \in less => <<x, z>> \in less

Rank(S, less, x) == Cardinality({y \in S : <<y, x>> \in less})

LEMMA Ranked ==
  ASSUME NEW S, IsFiniteSet(S), NEW less, Ordered(S, less)
  PROVE  /\ Cardinality(S) \in Nat
         /\ \A x \in S : Rank(S, less, x) \in 0 .. Cardinality(S) - 1
         /\ \A x, y \in S : <<x, y>> \in less <=> Rank(S, less, x) < Rank(S, less, y)
         /\ \A x, y \in S : Rank(S, less, x) = Rank(S, less, y) => x = y
         /\ \A i \in 0 .. Cardinality(S) - 1 : \E x \in S : Rank(S, less, x) = i
<1> USE DEF Ordered
<1> DEFINE below == [x \in S |-> Rank(S, less, x)]
<1>b. \A x \in S : below[x] = Cardinality({y \in S : <<y, x>> \in less})
  BY DEF Rank
<1> HIDE DEF below
<1> DEFINE Below(x) == {y \in S : <<y, x>> \in less}
           N == Cardinality(S)
<1>1. N \in Nat
  BY FS_CardinalityType
<1>2. ASSUME NEW x \in S PROVE below[x] \in 0 .. N - 1
  <2>1. Below(x) \in SUBSET S /\ Below(x) # S
    OBVIOUS
  <2>2. IsFiniteSet(Below(x)) /\ Cardinality(Below(x)) <= N /\ Cardinality(Below(x)) # N
    BY <2>1, FS_Subset
  <2>3. Cardinality(Below(x)) \in Nat /\ below[x] = Cardinality(Below(x))
    BY <1>b, <2>2, FS_CardinalityType
  <2> HIDE DEF N, Below
  <2> QED BY <1>1, <2>2, <2>3
<1>3. ASSUME NEW x \in S, NEW y \in S, <<x, y>> \in less PROVE below[x] < below[y]
  <2>1. Below(x) \in SUBSET Below(y) /\ Below(x) # Below(y) /\ IsFiniteSet(Below(y))
    <3>1. Below(y) \in SUBSET S
      OBVIOUS
    <3>2. x \in Below(y) /\ x \notin Below(x)
      BY <1>3
    <3> QED BY <1>3, <3>1, <3>2, FS_Subset
  <2>2. Cardinality(Below(x)) <= Cardinality(Below(y)) /\ Cardinality(Below(x)) # Cardinality(Below(y))
    BY <2>1, FS_Subset
  <2>3. below[x] = Cardinality(Below(x)) /\ below[y] = Cardinality(Below(y))
    BY <1>b
  <2>4. below[x] \in Int /\ below[y] \in Int
    BY <1>1, <1>2
  <2> HIDE DEF Below
  <2> QED BY <2>2, <2>3, <2>4
<1>4. \A x, y \in S : <<x, y>> \in less <=> below[x] < below[y]
  <2>1. \A x, y \in S : below[x] < below[y] => ~(below[y] < below[x]) /\ below[x] # below[y]
    BY <1>1, <1>2
  <2> QED BY <1>3, <2>1
<1>5. ASSUME NEW x \in S, NEW y \in S, below[x] = below[y] PROVE x = y
  <2>1. ~(below[x] < below[y]) /\ ~(below[y] < below[x])
    BY <1>1, <1>2, <1>5
  <2> QED BY <1>3, <2>1
<1>6. ASSUME NEW i \in 0 .. N - 1 PROVE \E x \in S : below[x] = i
  <2> DEFINE f == [x \in S |-> below[x]]
  <2>1. f \in Injection(S, 0 .. N - 1)
    BY <1>2, <1>5 DEF Injection, IsInjective
  <2>2. IsFiniteSet(0 .. N - 1) /\ Cardinality(0 .. N - 1) = N
    <3> HIDE DEF N
    <3>1. 0 \in Int /\ N - 1 \in Int
      BY <1>1
    <3>2. Cardinality(0 .. N - 1) = IF 0 > N - 1 THEN 0 ELSE N - 1 - 0 + 1
      BY <3>1, FS_Interval
    <3> QED BY <1>1, <3>1, <3>2, FS_Interval
  <2>3. f \in Surjection(S, 0 .. N - 1)
    BY <2>1, <2>2, FS_Injection
  <2> QED BY <2>3 DEF Surjection
<1>7. \A x \in S : Rank(S, less, x) = below[x]
  BY DEF below
<1> HIDE DEF Ordered
<1> QED BY <1>1, <1>2, <1>4, <1>5, <1>6, <1>7

\* A walk along next within U: its levels up to the N-th.
Levels(U, next, start, N) ==
  {f \in [0 .. N -> SUBSET U] :
     /\ f[0] = {start}
     /\ \A k \in 1 .. N : f[k] = f[k - 1] \union UNION {next[p] : p \in f[k - 1]}}

\* Every walk has its levels.
LEMMA LevelsExist ==
  ASSUME NEW U, NEW next \in [U -> SUBSET U], NEW start \in U, NEW N \in Nat
  PROVE  Levels(U, next, start, N) # {}
<1> DEFINE T == {n \in Nat : Levels(U, next, start, n) = {}}
<1>1. SUFFICES ASSUME N \in T PROVE FALSE
  OBVIOUS
<1>2. PICK m \in T : \A k \in T : m <= k
  <2> HIDE DEF T
  <2>1. T \subseteq Nat
    BY DEF T
  <2> QED BY <1>1, <2>1, LeastNatural
<1>3. CASE m = 0
  <2>1. [k \in 0 .. 0 |-> {start}] \in Levels(U, next, start, 0)
    BY DEF Levels
  <2> QED BY <1>2, <1>3, <2>1
<1>4. CASE m # 0
  <2>1. m - 1 \in Nat /\ m \in Nat /\ m - 1 \notin T
    BY <1>2, <1>4
  <2>2. PICK f : f \in Levels(U, next, start, m - 1)
    BY <2>1
  <2> DEFINE last == f[m - 1] \union UNION {next[p] : p \in f[m - 1]}
             g == [k \in 0 .. m |-> IF k = m THEN last ELSE f[k]]
  <2>3. g \in Levels(U, next, start, m)
    <3>1. last \in SUBSET U
      BY <2>1, <2>2 DEF Levels
    <3>2. g \in [0 .. m -> SUBSET U]
      BY <2>1, <2>2, <3>1 DEF Levels
    <3>3. g[0] = {start}
      BY <1>4, <2>1, <2>2 DEF Levels
    <3>4. ASSUME NEW k \in 1 .. m
          PROVE  g[k] = g[k - 1] \union UNION {next[p] : p \in g[k - 1]}
      <4>1. k - 1 \in 0 .. m - 1 /\ g[k - 1] = f[k - 1]
        BY <2>1
      <4>2. CASE k = m
        <5>1. g[k] = last /\ g[k - 1] = f[m - 1]
          BY <2>1, <4>1, <4>2
        <5> HIDE DEF g
        <5> QED BY <5>1
      <4>3. CASE k # m
        <5>1. k \in 1 .. m - 1 /\ g[k] = f[k]
          BY <2>1, <4>3
        <5>2. f[k] = f[k - 1] \union UNION {next[p] : p \in f[k - 1]}
          BY <2>2, <5>1 DEF Levels
        <5> QED BY <4>1, <5>1, <5>2
      <4> QED BY <4>2, <4>3
    <3> QED BY <3>2, <3>3, <3>4 DEF Levels
  <2> QED BY <1>2, <2>3
<1> QED BY <1>3, <1>4

\* A function that takes the same first level and the same steps is that walk.
LEMMA LevelsUnique ==
  ASSUME NEW U, NEW next, NEW start, NEW N \in Nat, NEW f \in Levels(U, next, start, N), NEW g,
         g[0] = {start},
         \A k \in 1 .. N : g[k - 1] \in SUBSET U => g[k] = g[k - 1] \union UNION {next[p] : p \in g[k - 1]}
  PROVE  \A k \in 0 .. N : g[k] = f[k]
<1> DEFINE T == {k \in 0 .. N : g[k] # f[k]}
<1>1. SUFFICES ASSUME NEW n \in T PROVE FALSE
  OBVIOUS
<1>2. PICK m \in T : \A k \in T : m <= k
  <2> HIDE DEF T
  <2>1. T \subseteq Nat
    BY DEF T
  <2> QED BY <1>1, <2>1, LeastNatural
<1>3. m \in 1 .. N /\ m - 1 \in 0 .. N /\ m - 1 \notin T
  <2>1. m # 0
    BY <1>2 DEF Levels
  <2>2. m \in 1 .. N /\ m - 1 \in 0 .. N /\ ~(m <= m - 1)
    BY <1>2, <2>1
  <2> HIDE DEF T
  <2> QED BY <1>2, <2>2
<1>4. g[m - 1] = f[m - 1] /\ f[m - 1] \in SUBSET U
  BY <1>3 DEF Levels
<1>5. g[m] = g[m - 1] \union UNION {next[p] : p \in g[m - 1]}
  BY <1>3, <1>4
<1>6. f[m] = f[m - 1] \union UNION {next[p] : p \in f[m - 1]}
  BY <1>3 DEF Levels
<1> QED BY <1>2, <1>4, <1>5, <1>6

\* The walk takes where it starts.
LEMMA LevelsStart ==
  ASSUME NEW U, NEW next, NEW start, NEW N \in Nat, NEW f \in Levels(U, next, start, N)
  PROVE  start \in f[N]
<1> DEFINE T == {k \in 0 .. N : start \notin f[k]}
<1>1. SUFFICES ASSUME N \in T PROVE FALSE
  OBVIOUS
<1>2. PICK m \in T : \A k \in T : m <= k
  <2> HIDE DEF T
  <2>1. T \subseteq Nat
    BY DEF T
  <2> QED BY <1>1, <2>1, LeastNatural
<1>3. m \in 1 .. N /\ m - 1 \in 0 .. N /\ m - 1 \notin T
  BY <1>2 DEF Levels
<1> QED BY <1>2, <1>3 DEF Levels

\* The walk stays within every set that next does not lead out of.
LEMMA LevelsLeast ==
  ASSUME NEW U, NEW next, NEW start, NEW N \in Nat, NEW f \in Levels(U, next, start, N),
         NEW S, start \in S, \A p \in S \intersect U : next[p] \subseteq S
  PROVE  f[N] \subseteq S
<1> DEFINE T == {k \in 0 .. N : ~(f[k] \subseteq S)}
<1>1. SUFFICES ASSUME N \in T PROVE FALSE
  OBVIOUS
<1>2. PICK m \in T : \A k \in T : m <= k
  <2> HIDE DEF T
  <2>1. T \subseteq Nat
    BY DEF T
  <2> QED BY <1>1, <2>1, LeastNatural
<1>3. m \in 1 .. N /\ m - 1 \in 0 .. N /\ m - 1 \notin T
  BY <1>2 DEF Levels
<1>4. f[m - 1] \subseteq S \intersect U /\ f[m] = f[m - 1] \union UNION {next[p] : p \in f[m - 1]}
  BY <1>3 DEF Levels
<1> QED BY <1>2, <1>4

\* A level is closed, or the walk has seen more than its number of the points
\* L that lead anywhere.
LEMMA LevelsGrow ==
  ASSUME NEW U, NEW next \in [U -> SUBSET U], NEW start, NEW N \in Nat, NEW f \in Levels(U, next, start, N),
         NEW L \in SUBSET U, IsFiniteSet(L), start \in L, \A p \in U \ L : next[p] = {}
  PROVE  (\A p \in f[N] : next[p] \subseteq f[N]) \/ Cardinality(f[N] \intersect L) >= N + 1
<1> DEFINE Closed(k) == \A p \in f[k] : next[p] \subseteq f[k]
           Seen(k) == Cardinality(f[k] \intersect L)
           T == {k \in 0 .. N : ~Closed(k) /\ ~(Seen(k) >= k + 1)}
<1>1. SUFFICES ASSUME N \in T PROVE FALSE
  OBVIOUS
<1>2. PICK m \in T : \A k \in T : m <= k
  <2> HIDE DEF T
  <2>1. T \subseteq Nat
    BY DEF T
  <2> QED BY <1>1, <2>1, LeastNatural
<1>3. m # 0
  <2>1. f[0] \intersect L = {start}
    BY DEF Levels
  <2>2. Seen(0) = 1
    BY <2>1, FS_Singleton
  <2> SUFFICES ASSUME m = 0 PROVE Seen(0) >= 0 + 1
    BY <1>2
  <2> HIDE DEF Seen
  <2> QED BY <2>2
<1>4. m \in 1 .. N /\ m - 1 \in 0 .. N /\ m - 1 \notin T
  BY <1>2, <1>3
<1>5. /\ f[m - 1] \subseteq U /\ f[m] = f[m - 1] \union UNION {next[p] : p \in f[m - 1]}
      /\ f[m] \subseteq U
  BY <1>4 DEF Levels
<1>6. ~Closed(m - 1)
  <2>1. Closed(m - 1) => f[m] = f[m - 1]
    BY <1>5
  <2> QED BY <1>2, <2>1
<1>7. Seen(m - 1) >= m
  BY <1>4, <1>6
<1>8. PICK p \in f[m] : ~(next[p] \subseteq f[m])
  BY <1>2
<1>9. p \in L /\ p \notin f[m - 1]
  BY <1>5, <1>8
<1>10. /\ IsFiniteSet(f[m - 1] \intersect L) /\ IsFiniteSet(f[m] \intersect L)
       /\ IsFiniteSet((f[m - 1] \intersect L) \union {p})
       /\ Cardinality((f[m - 1] \intersect L) \union {p}) = Seen(m - 1) + 1
  <2>1. IsFiniteSet(f[m - 1] \intersect L) /\ IsFiniteSet(f[m] \intersect L)
    BY FS_Subset
  <2> QED BY <1>9, <2>1, FS_AddElement
<1>11. (f[m - 1] \intersect L) \union {p} \subseteq f[m] \intersect L
  BY <1>5, <1>8, <1>9
<1>12. Seen(m - 1) + 1 <= Seen(m) /\ Seen(m) \in Nat /\ Seen(m - 1) \in Nat
  BY <1>10, <1>11, FS_Subset, FS_CardinalityType
<1> HIDE DEF Seen
<1> QED BY <1>2, <1>4, <1>7, <1>12

-----------------------------------------------------------------------------
\* DiscoverDescendants: threads below the root, all children of what it takes,
\* and nothing that a set closed under children could do without.
LEMMA Discovered ==
  ASSUME NEW ths, IsFiniteSet(ths), NEW par, NEW root
  PROVE  LET D == Descendants(ths, par, root)
         IN /\ D \subseteq ths \ {root}
            /\ \A c \in ths \ {root} : par[c] \in D \union {root} => c \in D
            /\ \A S : root \in S /\ (\A c \in ths : par[c] \in S => c \in S) => D \subseteq S
<1> DEFINE N == Cardinality(ths)
           U == ths \union {root}
           next == [p \in U |-> Children(ths, par, p)]
           Step(g) == [n \in 0 .. N |-> IF n = 0 THEN {root}
                                        ELSE g[n - 1] \union UNION {Children(ths, par, p) : p \in g[n - 1]}]
           v == CHOOSE g : g = Step(g)
<1>1. N \in Nat /\ next \in [U -> SUBSET U] /\ root \in U
  BY FS_CardinalityType DEF Children
<1>2. PICK f : f \in Levels(U, next, root, N)
  <2> HIDE DEF N, U, next
  <2> QED BY <1>1, LevelsExist
<1>3. /\ f \in [0 .. N -> SUBSET U] /\ f[0] = {root}
      /\ \A k \in 1 .. N : f[k] = f[k - 1] \union UNION {next[p] : p \in f[k - 1]}
  BY <1>2 DEF Levels
<1>4. \A k \in 1 .. N : f[k - 1] \subseteq U
  BY <1>1, <1>3
<1>5. f = Step(f)
  <2>1. ASSUME NEW k \in 1 .. N
        PROVE  f[k] = f[k - 1] \union UNION {Children(ths, par, p) : p \in f[k - 1]}
    <3>1. \A p \in f[k - 1] : next[p] = Children(ths, par, p)
      BY <1>4
    <3> HIDE DEF N, U, next
    <3> QED BY <1>3, <3>1
  <2>2. f[0] = {root} /\ \A k \in 0 .. N : k = 0 \/ k \in 1 .. N
    BY <1>1, <1>3
  <2>3. f = [k \in 0 .. N |-> f[k]]
    BY <1>3
  <2> HIDE DEF N, U, next
  <2> QED BY <2>1, <2>2, <2>3
<1>6. v = Step(v)
  <2> HIDE DEF Step
  <2> QED BY <1>5
<1>7. v[0] = {root}
  <2>1. 0 \in 0 .. N
    BY <1>1
  <2>2. v[0] = Step(v)[0]
    <3> HIDE DEF v, Step
    <3> QED BY <1>6
  <2> HIDE DEF v
  <2> QED BY <2>1, <2>2
<1>8. ASSUME NEW k \in 1 .. N, v[k - 1] \in SUBSET U
      PROVE  v[k] = v[k - 1] \union UNION {next[p] : p \in v[k - 1]}
  <2>1. v[k] = v[k - 1] \union UNION {Children(ths, par, p) : p \in v[k - 1]}
    <3>1. k \in 0 .. N /\ k # 0
      BY <1>1
    <3>2. v[k] = Step(v)[k]
      BY <1>6
    <3> HIDE DEF v
    <3> QED BY <3>1, <3>2
  <2> HIDE DEF v
  <2> QED BY <1>8, <2>1
<1>9. v[N] = f[N]
  <2> HIDE DEF v, N, U, next
  <2>1. N \in 0 .. N
    BY <1>1
  <2> QED BY <1>1, <1>2, <1>7, <1>8, <2>1, LevelsUnique
<1>10. Descendants(ths, par, root) = f[N] \ {root}
  BY <1>9 DEF Descendants
<1>11. f[N] \subseteq U /\ N \in 0 .. N
  BY <1>1, <1>3
<1>12. root \in f[N] /\ \A c \in ths : par[c] \in f[N] => c \in f[N]
  <2>1. root \in f[N]
    <3> HIDE DEF N, U, next
    <3> QED BY <1>1, <1>2, LevelsStart
  <2>2. IsFiniteSet(U) /\ Cardinality(U) <= N + 1 /\ Cardinality(U) \in Nat
    <3>1. IsFiniteSet(U) /\ Cardinality(U) = IF root \in ths THEN N ELSE N + 1
      BY FS_AddElement
    <3> HIDE DEF N, U
    <3> QED BY <1>1, <3>1, FS_CardinalityType
  <2>3. (\A p \in f[N] : next[p] \subseteq f[N]) \/ Cardinality(f[N] \intersect U) >= N + 1
    <3> HIDE DEF N, U, next
    <3> QED BY <1>1, <1>2, <2>2, LevelsGrow
  <2>4. \A p \in f[N] : next[p] \subseteq f[N]
    <3>1. f[N] \intersect U = f[N]
      BY <1>11
    <3>2. Cardinality(f[N]) >= N + 1 => f[N] = U
      <4> HIDE DEF N, U
      <4> QED BY <1>1, <1>11, <2>2, FS_Subset, FS_CardinalityType
    <3>3. f[N] = U => \A p \in f[N] : next[p] \subseteq f[N]
      BY <1>1
    <3> HIDE DEF N, U, next
    <3> QED BY <2>3, <3>1, <3>2, <3>3
  <2>5. \A p \in f[N] : Children(ths, par, p) \subseteq f[N]
    BY <1>11, <2>4
  <2> QED BY <2>1, <2>5 DEF Children
<1>13. ASSUME NEW S, root \in S, \A c \in ths : par[c] \in S => c \in S
       PROVE  f[N] \subseteq S
  <2>1. \A p \in S \intersect U : next[p] \subseteq S
    BY <1>13 DEF Children
  <2> HIDE DEF N, U, next
  <2> QED BY <1>1, <1>2, <1>13, <2>1, LevelsLeast
<1> QED BY <1>10, <1>11, <1>12, <1>13

\* The ancestors: the parent of the thread and of every ancestor that exists,
\* and nothing that a set closed under parents could do without.
LEMMA AncestorsClosed ==
  ASSUME NEW ths, IsFiniteSet(ths), NEW par, NEW th
  PROVE  LET A == Ancestors(ths, par, th)
         IN /\ th \notin ths => A = {}
            /\ \A y \in ths : y \in A \union {th} => par[y] \in A
            /\ \A S : (\A y \in ths : y \in S \union {th} => par[y] \in S) => A \subseteq S
<1> DEFINE N == Cardinality(ths)
           U == ths \union {th} \union {par[x] : x \in ths}
           next == [p \in U |-> IF p \in ths THEN {par[p]} ELSE {}]
           Step(g) == [n \in 0 .. N |-> IF n = 0 THEN {th}
                                        ELSE g[n - 1] \union {par[x] : x \in g[n - 1] \intersect ths}]
           v == CHOOSE g : g = Step(g)
<1>1. N \in Nat /\ next \in [U -> SUBSET U] /\ th \in U /\ ths \subseteq U
  BY FS_CardinalityType
<1>a. ASSUME NEW S \in SUBSET U
      PROVE  UNION {next[p] : p \in S} = {par[x] : x \in S \intersect ths}
  <2>1. ASSUME NEW p \in S PROVE next[p] = IF p \in ths THEN {par[p]} ELSE {}
    OBVIOUS
  <2> HIDE DEF U, next
  <2> QED BY <2>1
<1>2. PICK f : f \in Levels(U, next, th, N)
  <2> HIDE DEF N, U, next
  <2> QED BY <1>1, LevelsExist
<1>3. /\ f \in [0 .. N -> SUBSET U] /\ f[0] = {th}
      /\ \A k \in 1 .. N : f[k] = f[k - 1] \union UNION {next[p] : p \in f[k - 1]}
  BY <1>2 DEF Levels
<1>4. \A k \in 1 .. N : f[k - 1] \in SUBSET U
  BY <1>1, <1>3
<1>5. f = Step(f)
  <2>1. \A k \in 1 .. N : f[k] = f[k - 1] \union {par[x] : x \in f[k - 1] \intersect ths}
    <3> HIDE DEF N, U, next
    <3> QED BY <1>3, <1>4, <1>a
  <2>2. f[0] = {th} /\ \A k \in 0 .. N : k = 0 \/ k \in 1 .. N
    BY <1>1, <1>3
  <2>3. f = [k \in 0 .. N |-> f[k]]
    BY <1>3
  <2> HIDE DEF N, U, next
  <2> QED BY <2>1, <2>2, <2>3
<1>6. v = Step(v)
  <2> HIDE DEF Step
  <2> QED BY <1>5
<1>7. v[0] = {th}
  <2>1. 0 \in 0 .. N
    BY <1>1
  <2>2. v[0] = Step(v)[0]
    <3> HIDE DEF v, Step
    <3> QED BY <1>6
  <2> HIDE DEF v
  <2> QED BY <2>1, <2>2
<1>8. ASSUME NEW k \in 1 .. N, v[k - 1] \in SUBSET U
      PROVE  v[k] = v[k - 1] \union UNION {next[p] : p \in v[k - 1]}
  <2>1. v[k] = v[k - 1] \union {par[x] : x \in v[k - 1] \intersect ths}
    <3>1. k \in 0 .. N /\ k # 0
      BY <1>1
    <3>2. v[k] = Step(v)[k]
      <4> HIDE DEF v, Step
      <4> QED BY <1>6
    <3> HIDE DEF v
    <3> QED BY <3>1, <3>2
  <2> HIDE DEF v, U, next
  <2> QED BY <1>8, <1>a, <2>1
<1>9. v[N] = f[N]
  <2> HIDE DEF v, N, U, next
  <2>1. N \in 0 .. N
    BY <1>1
  <2> QED BY <1>1, <1>2, <1>7, <1>8, <2>1, LevelsUnique
<1>10. Ancestors(ths, par, th) = {par[x] : x \in f[N] \intersect ths}
  BY <1>9 DEF Ancestors
<1>11. f[N] \subseteq U /\ N \in 0 .. N
  BY <1>1, <1>3
<1>12. th \in f[N]
  <2> HIDE DEF N, U, next
  <2> QED BY <1>1, <1>2, LevelsStart
<1>13. ASSUME NEW S, th \in S, \A y \in S \intersect ths : par[y] \in S
       PROVE  f[N] \subseteq S
  <2>1. \A p \in S \intersect U : next[p] \subseteq S
    BY <1>13
  <2> HIDE DEF N, U, next
  <2> QED BY <1>1, <1>2, <1>13, <2>1, LevelsLeast
<1>14. th \notin ths => Ancestors(ths, par, th) = {}
  <2>1. th \notin ths => f[N] \subseteq {th}
    BY <1>13
  <2> QED BY <1>10, <2>1
<1>15. ASSUME th \in ths, NEW y \in ths, y \in f[N] PROVE par[y] \in f[N]
  <2>1. (\A p \in f[N] : next[p] \subseteq f[N]) \/ Cardinality(f[N] \intersect ths) >= N + 1
    <3>1. \A p \in U \ ths : next[p] = {}
      OBVIOUS
    <3> HIDE DEF N, U, next
    <3> QED BY <1>1, <1>2, <1>15, <3>1, LevelsGrow
  <2>2. ~(Cardinality(f[N] \intersect ths) >= N + 1)
    <3>1. Cardinality(f[N] \intersect ths) <= N /\ Cardinality(f[N] \intersect ths) \in Nat
      BY FS_Subset, FS_CardinalityType
    <3> HIDE DEF N
    <3> QED BY <1>1, <3>1
  <2>3. next[y] = {par[y]}
    OBVIOUS
  <2> HIDE DEF N, U, next
  <2> QED BY <1>15, <2>1, <2>2, <2>3
<1>16. ASSUME NEW y \in ths, y \in Ancestors(ths, par, th) \union {th}
       PROVE  par[y] \in Ancestors(ths, par, th)
  <2>1. y = th \/ th \in ths
    BY <1>14, <1>16
  <2>2. th \in ths /\ y \in f[N]
    <3> HIDE DEF N
    <3> QED BY <1>10, <1>12, <1>15, <1>16, <2>1
  <2> HIDE DEF N
  <2> QED BY <1>10, <2>2
<1>17. ASSUME NEW S, \A y \in ths : y \in S \union {th} => par[y] \in S
       PROVE  Ancestors(ths, par, th) \subseteq S
  <2>1. f[N] \subseteq S \union {th}
    <3> HIDE DEF N
    <3> QED BY <1>13, <1>17
  <2> HIDE DEF N
  <2> QED BY <1>10, <1>17, <2>1
<1> HIDE DEF N, U, next, v
<1> QED BY <1>14, <1>16, <1>17

\* Ancestors of ancestors are ancestors, and there is one way up.
LEMMA OneWayUp ==
  ASSUME NEW ths, IsFiniteSet(ths), NEW par, NEW x
  PROVE  /\ \A y \in Ancestors(ths, par, x) : Ancestors(ths, par, y) \subseteq Ancestors(ths, par, x)
         /\ Ancestors(ths, par, x) \subseteq Ancestors(ths, par, par[x]) \union {par[x]}
         /\ IsFiniteSet(Ancestors(ths, par, x))
<1> DEFINE A(y) == Ancestors(ths, par, y)
<1>1. \A th : /\ th \notin ths => A(th) = {}
              /\ \A y \in ths : y \in A(th) \union {th} => par[y] \in A(th)
              /\ \A S : (\A y \in ths : y \in S \union {th} => par[y] \in S) => A(th) \subseteq S
  BY AncestorsClosed
<1> HIDE DEF A
<1>2. ASSUME NEW y \in A(x) PROVE A(y) \subseteq A(x)
  <2>1. \A z \in ths : z \in A(x) \union {y} => par[z] \in A(x)
    BY <1>1
  <2> QED BY <1>1, <2>1
<1>3. A(x) \subseteq A(par[x]) \union {par[x]}
  <2> DEFINE V == A(par[x]) \union {par[x]}
  <2>1. \A y \in ths : y \in V \union {x} => par[y] \in V
    BY <1>1
  <2> HIDE DEF V
  <2>2. A(x) \subseteq V
    BY <1>1, <2>1
  <2> QED BY <2>2 DEF V
<1>4. IsFiniteSet(A(x))
  <2>1. A(x) \subseteq {par[y] : y \in ths}
    <3>1. \A z \in ths : par[z] \in {par[y] : y \in ths}
      OBVIOUS
    <3> QED BY <1>1, <3>1
  <2>2. IsFiniteSet({par[y] : y \in ths})
    <3> DEFINE f == [y \in ths |-> par[y]]
               V == {f[y] : y \in ths}
    <3>1. V = {par[y] : y \in ths} /\ f \in Surjection(ths, V)
      BY DEF Surjection
    <3> HIDE DEF f, V
    <3>2. IsFiniteSet(V)
      BY <3>1, FS_Surjection
    <3> QED BY <3>1, <3>2
  <2> QED BY <2>1, <2>2, FS_Subset
<1> QED BY <1>2, <1>3, <1>4 DEF A

\* A thread is below another exactly if the other is among its ancestors.
LEMMA BelowIsAbove ==
  ASSUME NEW ths, IsFiniteSet(ths), NEW par, NEW r
  PROVE  Descendants(ths, par, r) = {x \in ths \ {r} : r \in Ancestors(ths, par, x)}
<1> DEFINE A(y) == Ancestors(ths, par, y)
           D(y) == Descendants(ths, par, y)
<1>1. \A th : /\ th \notin ths => A(th) = {}
              /\ \A y \in ths : y \in A(th) \union {th} => par[y] \in A(th)
              /\ \A S : (\A y \in ths : y \in S \union {th} => par[y] \in S) => A(th) \subseteq S
              /\ \A y \in A(th) : A(y) \subseteq A(th)
  BY AncestorsClosed, OneWayUp
<1>2. \A y : /\ D(y) \subseteq ths \ {y}
             /\ \A c \in ths \ {y} : par[c] \in D(y) \union {y} => c \in D(y)
             /\ \A S : y \in S /\ (\A c \in ths : par[c] \in S => c \in S) => D(y) \subseteq S
  BY Discovered
<1> HIDE DEF A, D
<1>3. ASSUME NEW x \in D(r) PROVE r \in A(x)
  <2> DEFINE S == {r} \union {z \in ths : r \in A(z)}
  <2>1. ASSUME NEW c \in ths, par[c] \in S PROVE c \in S
    <3>1. par[c] \in A(c)
      BY <1>1
    <3> QED BY <1>1, <2>1, <3>1
  <2>2. D(r) \subseteq S
    <3>1. r \in S
      OBVIOUS
    <3> HIDE DEF S
    <3> QED BY <1>2, <2>1, <3>1
  <2> QED BY <1>2, <2>2
<1>4. ASSUME NEW x \in ths \ {r}, r \in A(x) PROVE x \in D(r)
  <2> DEFINE S == {z \in A(x) : x \in D(z) \union {z}}
  <2>1. ASSUME NEW y \in ths, y \in S \union {x} PROVE par[y] \in S
    <3>1. par[y] \in A(x) /\ x \in D(y) \union {y}
      BY <1>1, <2>1
    <3>2. D(y) \union {y} \subseteq D(par[y]) \union {par[y]}
      <4>1. y \in D(par[y]) \union {par[y]}
        BY <1>2
      <4>2. ASSUME NEW c \in ths, par[c] \in D(par[y]) \union {par[y]}
            PROVE  c \in D(par[y]) \union {par[y]}
        BY <1>2, <4>2
      <4>3. D(y) \subseteq D(par[y]) \union {par[y]}
        <5> DEFINE V == D(par[y]) \union {par[y]}
        <5>1. y \in V /\ \A c \in ths : par[c] \in V => c \in V
          BY <4>1, <4>2
        <5> HIDE DEF V
        <5>2. D(y) \subseteq V
          BY <1>2, <5>1
        <5> QED BY <5>2 DEF V
      <4> QED BY <4>1, <4>3
    <3> QED BY <3>1, <3>2
  <2>2. A(x) \subseteq S
    <3> HIDE DEF S
    <3> QED BY <1>1, <2>1
  <2> QED BY <1>4, <2>2
<1> QED BY <1>2, <1>3, <1>4 DEF A, D

\* The page shows a thread exactly if it is a root or has one above it.
LEMMA ShownBelowRoot ==
  ASSUME NEW ths, IsFiniteSet(ths), NEW par
  PROVE  Shown(ths, par) = {x \in ths : \E r \in Roots(ths, par) : r \in Ancestors(ths, par, x) \union {x}}
<1>1. Roots(ths, par) \subseteq ths
  BY DEF Roots
<1>2. \A r : Descendants(ths, par, r) = {x \in ths \ {r} : r \in Ancestors(ths, par, x)}
  BY BelowIsAbove
<1> QED BY <1>1, <1>2 DEF Shown

\* The page hides a thread exactly if its way up runs into a cycle: the way
\* ends at a root or goes round.
LEMMA HiddenInCycle ==
  ASSUME NEW ths, IsFiniteSet(ths), NEW par, NEW x \in ths
  PROVE  x \notin Shown(ths, par) <=>
           \E y \in Ancestors(ths, par, x) : y \in Ancestors(ths, par, y)
<1> DEFINE A(y) == Ancestors(ths, par, y)
           R == Roots(ths, par)
<1>1. \A th : /\ th \notin ths => A(th) = {}
              /\ \A y \in ths : y \in A(th) \union {th} => par[y] \in A(th)
              /\ \A S : (\A y \in ths : y \in S \union {th} => par[y] \in S) => A(th) \subseteq S
              /\ \A y \in A(th) : A(y) \subseteq A(th)
              /\ A(th) \subseteq A(par[th]) \union {par[th]}
              /\ IsFiniteSet(A(th))
  BY AncestorsClosed, OneWayUp
<1>2. x \in Shown(ths, par) <=> \E r \in R : r \in A(x) \union {x}
  BY ShownBelowRoot
<1>3. R = {r \in ths : par[r] \notin ths}
  BY DEF Roots
<1> HIDE DEF A, R
\* Without a root above it the way up stays within the threads there are.
<1>4. ASSUME ~\E r \in R : r \in A(x) \union {x}
      PROVE  \E y \in A(x) : y \in A(y)
  <2> DEFINE S == A(x) \intersect ths
             T == {Cardinality(A(y)) : y \in S \union {x}}
  <2>1. A(x) \subseteq S
    <3>1. ASSUME NEW y \in ths, y \in S \union {x} PROVE par[y] \in S
      BY <1>1, <1>3, <1>4, <3>1
    <3> HIDE DEF S
    <3> QED BY <1>1, <3>1
  <2>2. T \subseteq Nat /\ Cardinality(A(x)) \in T
    BY <1>1, FS_CardinalityType
  <2>3. PICK m \in T : \A k \in T : m <= k
    <3> HIDE DEF T
    <3> QED BY <2>2, LeastNatural
  <2>4. PICK y \in S \union {x} : m = Cardinality(A(y))
    OBVIOUS
  <2>5. par[y] \in A(x) /\ par[y] \in S /\ par[y] \in A(y)
    BY <1>1, <2>1
  <2>6. A(par[y]) \subseteq A(y)
    BY <1>1, <2>5
  <2>7. Cardinality(A(par[y])) = Cardinality(A(y))
    <3>1. Cardinality(A(par[y])) >= Cardinality(A(y))
      BY <2>3, <2>4, <2>5
    <3>2. Cardinality(A(par[y])) <= Cardinality(A(y))
      BY <1>1, <2>6, FS_Subset
    <3>3. Cardinality(A(par[y])) \in Nat /\ Cardinality(A(y)) \in Nat
      BY <1>1, FS_CardinalityType
    <3> QED BY <3>1, <3>2, <3>3
  <2>8. A(par[y]) = A(y)
    BY <1>1, <2>6, <2>7, FS_Subset
  <2> QED BY <2>5, <2>8
\* A root is above nothing that goes round.
<1>5. ASSUME NEW r \in R, r \in A(x) \union {x}, NEW y \in A(x), y \in A(y)
      PROVE  FALSE
  <2>1. A(r) \subseteq {par[r]} /\ par[r] \notin ths /\ r \in ths
    BY <1>1, <1>3
  <2>2. y \notin A(r) \union {r}
    BY <1>1, <1>5, <2>1
  <2>3. r \in A(y)
    <3> DEFINE S == {z \in A(x) : r \in A(z) \union {z} \/ z \in A(r)}
    <3>1. ASSUME NEW z \in ths, z \in S \union {x} PROVE par[z] \in S
      <4>1. par[z] \in A(x)
        BY <1>1, <3>1
      <4>2. r \in A(z) \union {z} \/ z \in A(r)
        BY <1>5, <3>1
      <4>3. z \notin A(r)
        BY <2>1
      <4>4. r \in A(par[z]) \union {par[z]} \/ par[z] \in A(r)
        BY <1>1, <4>2, <4>3
      <4> QED BY <4>1, <4>4
    <3>2. A(x) \subseteq S
      <4> HIDE DEF S
      <4> QED BY <1>1, <3>1
    <3> QED BY <1>5, <2>2, <3>2
  <2>4. A(y) \subseteq {z \in A(y) : y \in A(z) \union {z}}
    <3> DEFINE S == {z \in A(y) : y \in A(z) \union {z}}
    <3>1. ASSUME NEW z \in ths, z \in S \union {y} PROVE par[z] \in S
      BY <1>1, <1>5, <3>1
    <3> HIDE DEF S
    <3>2. A(y) \subseteq S
      BY <1>1, <3>1
    <3> QED BY <3>2 DEF S
  <2> QED BY <2>2, <2>3, <2>4
<1>6. (\E r \in R : r \in A(x) \union {x}) <=> ~(\E y \in A(x) : y \in A(y))
  BY <1>4, <1>5
<1> QED BY <1>2, <1>6 DEF A

\* Whatever threads there are, and whatever their parents: the walk of
\* DiscoverDescendants finds exactly the threads below its root, and the page
\* (filterRootThreads, buildThreadTree) hides exactly those below a cycle.
THEOREM TreeIsRight ==
  ASSUME NEW ths, IsFiniteSet(ths), NEW par
  PROVE  TreeFact(ths, par)
BY BelowIsAbove, HiddenInCycle DEF TreeFact

-----------------------------------------------------------------------------
(* The pages and the tail of a history. *)

\* A page begins behind the messages the reader has and ends with the limit, or
\* with the list; without a limit it is the rest of the list.
LEMMA PageIs ==
  ASSUME NEW S, NEW list \in Seq(S), NEW offset \in 0 .. Len(list), NEW limit \in Int
  PROVE  GetThreadHistory(list, offset, limit) =
           SubSeq(list, offset + 1,
                  IF limit > 0 /\ offset + limit < Len(list) THEN offset + limit ELSE Len(list))
<1>1. Len(list) \in Nat
  OBVIOUS
<1>2. CASE limit > 0
  <2>1. offset + limit - 1 >= 0 /\ offset >= 0
    BY <1>1, <1>2
  <2>2. GetThreadHistory(list, offset, limit) =
          SubSeq(list, offset + 1, IF offset + limit - 1 < Len(list) THEN offset + limit - 1 + 1 ELSE Len(list))
    BY <1>2, <2>1 DEF GetThreadHistory, LRange
  <2> QED BY <1>1, <1>2, <2>2
<1>3. CASE ~(limit > 0)
  <2>1. (IF offset > 0 THEN offset ELSE 0) = offset /\ offset >= 0
    BY <1>1
  <2>2. GetThreadHistory(list, offset, limit) = LRange(list, offset, -1)
    BY <1>3, <2>1 DEF GetThreadHistory
  <2>3. LRange(list, offset, -1) =
          SubSeq(list, offset + 1, IF Len(list) + -1 < Len(list) THEN Len(list) + -1 + 1 ELSE Len(list))
    BY <2>1 DEF LRange
  <2> QED BY <1>1, <1>3, <2>2, <2>3
<1> QED BY <1>2, <1>3

\* The messages a reader has after k pages.
Had(n, limit, k) == IF limit > 0 THEN (IF k * limit < n THEN k * limit ELSE n)
                    ELSE IF k = 0 THEN 0 ELSE n

\* It has one page more, or all there is, ...
LEMMA HadGrows ==
  ASSUME NEW n \in Nat, NEW limit \in Int, NEW k \in Nat \ {0}
  PROVE  /\ Had(n, limit, k - 1) \in 0 .. n
         /\ Had(n, limit, k) \in 0 .. n
         /\ Had(n, limit, k) = IF limit > 0 /\ Had(n, limit, k - 1) + limit < n
                               THEN Had(n, limit, k - 1) + limit ELSE n
<1>1. (k - 1) * limit + limit = k * limit
  OBVIOUS
<1>2. k * limit \in Int /\ (k - 1) * limit \in Int
  OBVIOUS
<1>3. limit > 0 => (k - 1) * limit >= 0
  OBVIOUS
<1>4. CASE limit > 0
  <2> DEFINE a == (k - 1) * limit
             b == k * limit
  <2>1. a \in Int /\ b \in Int /\ a >= 0 /\ b = a + limit
    BY <1>1, <1>2, <1>3, <1>4
  <2>2. Had(n, limit, k - 1) = (IF a < n THEN a ELSE n) /\ Had(n, limit, k) = (IF b < n THEN b ELSE n)
    BY <1>4 DEF Had
  <2> HIDE DEF a, b
  <2> QED BY <1>4, <2>1, <2>2
<1>5. CASE ~(limit > 0)
  BY <1>5 DEF Had
<1> QED BY <1>4, <1>5

\* ... from nothing, and after as many pages as there are messages it has all.
LEMMA HadAll ==
  ASSUME NEW n \in Nat, NEW limit \in Int
  PROVE  Had(n, limit, 0) = 0 /\ Had(n, limit, n) = n
<1>1. limit > 0 => n * limit >= n
  OBVIOUS
<1> QED BY <1>1 DEF Had

\* A reader who asks for page after page, each behind the messages it has, has
\* every message once and in order, whatever the page size, and no limit is all
\* that follows (GetThreadHistory).
THEOREM PagesAreComplete ==
  ASSUME NEW S, NEW list \in Seq(S), NEW limit \in Int
  PROVE  AllPages(list, limit) = list
<1> DEFINE N == Len(list)
           Step(g) == [k \in 0 .. N |-> IF k = 0 THEN << >>
                                        ELSE g[k - 1] \o GetThreadHistory(list, Len(g[k - 1]), limit)]
           v == CHOOSE g : g = Step(g)
           P(k) == SubSeq(list, 1, Had(N, limit, k))
           f == [k \in 0 .. N |-> P(k)]
<1>1. N \in Nat
  OBVIOUS
<1>2. P(0) = << >> /\ P(N) = list
  BY <1>1, HadAll, SubSeqEmpty, SubSeqFull
<1>3. ASSUME NEW k \in 1 .. N
      PROVE  P(k - 1) \o GetThreadHistory(list, Len(P(k - 1)), limit) = P(k)
  <2> DEFINE a == Had(N, limit, k - 1)
             b == Had(N, limit, k)
  <2>1. a \in 0 .. N /\ b \in a .. N /\ b = IF limit > 0 /\ a + limit < N THEN a + limit ELSE N
    <3>1. k \in Nat \ {0}
      BY <1>1
    <3>2. a \in 0 .. N /\ b \in 0 .. N /\ b = IF limit > 0 /\ a + limit < N THEN a + limit ELSE N
      BY <1>1, <3>1, HadGrows
    <3> HIDE DEF a, b
    <3> QED BY <1>1, <3>2
  <2> HIDE DEF a, b
  <2>2. Len(SubSeq(list, 1, a)) = a
    BY <1>1, <2>1
  <2>3. GetThreadHistory(list, a, limit) = SubSeq(list, a + 1, b)
    BY <1>1, <2>1, PageIs
  <2>4. SubSeq(list, 1, a) \o SubSeq(list, a + 1, b) = SubSeq(list, 1, b)
    <3>1. 1 \in 1 .. N + 1 /\ a \in 1 - 1 .. N /\ b \in a .. N
      BY <1>1, <2>1
    <3> QED BY <3>1, ConcatAdjacentSubSeq
  <2> QED BY <2>2, <2>3, <2>4 DEF a, b
<1> HIDE DEF P
<1>4. f = Step(f)
  <2>1. \A k \in 0 .. N : k = 0 \/ (k \in 1 .. N /\ k - 1 \in 0 .. N)
    BY <1>1
  <2> HIDE DEF N
  <2> QED BY <1>2, <1>3, <2>1
<1>5. v = Step(v)
  <2> HIDE DEF Step
  <2> QED BY <1>4
<1>6. ASSUME NEW k \in 0 .. N
      PROVE  v[k] = IF k = 0 THEN << >> ELSE v[k - 1] \o GetThreadHistory(list, Len(v[k - 1]), limit)
  <2>1. v[k] = Step(v)[k]
    <3> HIDE DEF v, Step
    <3> QED BY <1>5
  <2> HIDE DEF v
  <2> QED BY <2>1
<1>7. v[N] = P(N)
  <2> HIDE DEF v
  <2> DEFINE T == {k \in 0 .. N : v[k] # P(k)}
  <2>1. SUFFICES ASSUME N \in T PROVE FALSE
    BY <1>1
  <2>2. PICK m \in T : \A k \in T : m <= k
    <3> HIDE DEF T
    <3>1. T \subseteq Nat
      BY DEF T
    <3> QED BY <2>1, <3>1, LeastNatural
  <2>3. m # 0
    BY <1>2, <1>6, <2>2
  <2>4. m \in 1 .. N /\ m - 1 \in 0 .. N /\ m - 1 \notin T
    <3>1. m \in 0 .. N
      OBVIOUS
    <3>2. m \in 1 .. N /\ m - 1 \in 0 .. N /\ ~(m <= m - 1)
      BY <1>1, <2>3, <3>1
    <3> HIDE DEF T
    <3> QED BY <2>2, <3>2
  <2>5. v[m - 1] = P(m - 1) /\ v[m] # P(m)
    BY <2>2, <2>4
  <2>6. v[m] = v[m - 1] \o GetThreadHistory(list, Len(v[m - 1]), limit)
    BY <1>6, <2>3
  <2> QED BY <1>3, <2>4, <2>5, <2>6
<1>8. AllPages(list, limit) = v[N]
  BY DEF AllPages
<1> QED BY <1>2, <1>7, <1>8

\* The tail is the end of the list, as many messages as asked for or all there
\* are (GetThreadHistoryTail).
THEOREM TailIsLast ==
  ASSUME NEW S, NEW list \in Seq(S), NEW tail \in Int
  PROVE  GetThreadHistoryTail(list, tail) =
           SubSeq(list, IF tail <= 0 THEN Len(list) + 1 ELSE IF tail < Len(list) THEN Len(list) - tail + 1 ELSE 1,
                  Len(list))
<1>1. Len(list) \in Nat
  OBVIOUS
<1>2. CASE tail <= 0
  BY <1>1, <1>2, SubSeqEmpty DEF GetThreadHistoryTail
<1>3. CASE tail > 0
  <2>1. -tail \in Int /\ ~(-tail >= 0) /\ ~(-1 >= 0)
    BY <1>3
  <2>2. LRange(list, -tail, -1) =
          SubSeq(list, (IF Len(list) + -tail >= 0 THEN Len(list) + -tail ELSE 0) + 1,
                 IF Len(list) + -1 < Len(list) THEN Len(list) + -1 + 1 ELSE Len(list))
    BY <2>1 DEF LRange
  <2>3. /\ (IF Len(list) + -1 < Len(list) THEN Len(list) + -1 + 1 ELSE Len(list)) = Len(list)
        /\ (IF Len(list) + -tail >= 0 THEN Len(list) + -tail ELSE 0) + 1
             = IF tail < Len(list) THEN Len(list) - tail + 1 ELSE 1
    BY <1>1, <1>3
  <2>4. GetThreadHistoryTail(list, tail) = LRange(list, -tail, -1)
    BY <1>3 DEF GetThreadHistoryTail
  <2>5. ~(tail <= 0)
    BY <1>3
  <2> QED BY <2>2, <2>3, <2>4, <2>5
<1>4. tail <= 0 \/ tail > 0
  OBVIOUS
<1> QED BY <1>2, <1>3, <1>4
-----------------------------------------------------------------------------
\* The messages of a batch that are for the worker: none of none, ...
FilterLoops(S, list, worker, nobody) ==
  {f \in [0 .. Len(list) -> Seq(S)] :
     /\ f[0] = << >>
     /\ \A k \in 1 .. Len(list) :
          f[k] = IF Addressed(list[k], worker, nobody) THEN Append(f[k - 1], list[k]) ELSE f[k - 1]
     /\ Filtered(list, worker, nobody) = f[Len(list)]}

LEMMA FilteredRuns ==
  ASSUME NEW S, NEW list \in Seq(S), NEW worker, NEW nobody
  PROVE  \E f : f \in FilterLoops(S, list, worker, nobody)
<1> DEFINE N == Len(list)
           Round(k, x) == IF Addressed(list[k], worker, nobody) THEN Append(x, list[k]) ELSE x
           Loop(g) == [k \in 0 .. N |-> IF k = 0 THEN << >> ELSE Round(k, g[k - 1])]
           v == CHOOSE g : g = Loop(g)
           step == [k \in 1 .. N |-> [x \in Seq(S) |-> Round(k, x)]]
<1>1. N \in Nat /\ << >> \in Seq(S)
  OBVIOUS
<1>2. \A k \in 1 .. N, x \in Seq(S) : Round(k, x) \in Seq(S)
  <2>1. \A k \in 1 .. N : list[k] \in S
    BY ElementOfSeq
  <2> QED BY <2>1
<1> HIDE DEF N, Round
<1>3. step \in [1 .. N -> [Seq(S) -> Seq(S)]]
  BY <1>2
<1>4. PICK f : f \in Loops(Seq(S), << >>, N, step)
  <2> HIDE DEF step
  <2> QED BY <1>1, <1>3, LoopRuns
<1>5. \A k \in 1 .. N : f[k] = Round(k, f[k - 1])
  <2>1. \A k \in 1 .. N : k - 1 \in 0 .. N
    BY <1>1
  <2> QED BY <1>4, <2>1 DEF Loops
<1>6. f = Loop(f)
  BY <1>1, <1>4, <1>5 DEF Loops
<1>7. v = Loop(v)
  <2> HIDE DEF Loop
  <2> QED BY <1>6
<1>8. Follows(v, Seq(S), << >>, N, step)
  <2> HIDE DEF v
  <2>1. \A k \in 0 .. N : v[k] = IF k = 0 THEN << >> ELSE Round(k, v[k - 1])
    BY <1>7
  <2> QED BY <1>1, <2>1 DEF Follows
<1>9. v[N] = f[N]
  <2> HIDE DEF v, step
  <2>1. \A k \in 0 .. N : v[k] = f[k]
    BY <1>1, <1>4, <1>8, LoopUnique
  <2> QED BY <1>1, <2>1
<1>10. Filtered(list, worker, nobody) = v[N]
  BY DEF Filtered, N, Round
<1> HIDE DEF v
<1> QED BY <1>4, <1>5, <1>9, <1>10 DEF Loops, FilterLoops, N, Round

LEMMA FilteredType ==
  ASSUME NEW S, NEW list \in Seq(S), NEW worker, NEW nobody
  PROVE  Filtered(list, worker, nobody) \in Seq(S)
<1>1. PICK f : f \in FilterLoops(S, list, worker, nobody)
  BY FilteredRuns
<1>2. Len(list) \in 0 .. Len(list)
  OBVIOUS
<1> QED BY <1>1, <1>2 DEF FilterLoops

\* ... and of two batches in a row first those of the one, then those of the
\* other.
LEMMA FilteredConcat ==
  ASSUME NEW S, NEW s \in Seq(S), NEW t \in Seq(S), NEW worker, NEW nobody
  PROVE  Filtered(s \o t, worker, nobody) = Filtered(s, worker, nobody) \o Filtered(t, worker, nobody)
<1> DEFINE m == Len(s)
           n == Len(t)
           mine(e) == Addressed(e, worker, nobody)
<1>1. PICK f : f \in FilterLoops(S, s, worker, nobody)
  BY FilteredRuns
<1>2. PICK g : g \in FilterLoops(S, t, worker, nobody)
  BY FilteredRuns
<1>3. s \o t \in Seq(S) /\ Len(s \o t) = m + n /\ m \in Nat /\ n \in Nat
  BY ConcatProperties
<1>4. PICK h : h \in FilterLoops(S, s \o t, worker, nobody)
  BY <1>3, FilteredRuns
<1>f. /\ f \in [0 .. m -> Seq(S)] /\ f[0] = << >>
      /\ \A k \in 1 .. m : f[k] = IF mine(s[k]) THEN Append(f[k - 1], s[k]) ELSE f[k - 1]
      /\ Filtered(s, worker, nobody) = f[m]
  BY <1>1 DEF FilterLoops
<1>g. /\ g \in [0 .. n -> Seq(S)] /\ g[0] = << >>
      /\ \A k \in 1 .. n : g[k] = IF mine(t[k]) THEN Append(g[k - 1], t[k]) ELSE g[k - 1]
      /\ Filtered(t, worker, nobody) = g[n]
  BY <1>2 DEF FilterLoops
<1>h. /\ h \in [0 .. m + n -> Seq(S)] /\ h[0] = << >>
      /\ \A k \in 1 .. m + n : h[k] = IF mine((s \o t)[k]) THEN Append(h[k - 1], (s \o t)[k]) ELSE h[k - 1]
      /\ Filtered(s \o t, worker, nobody) = h[m + n]
  BY <1>3, <1>4 DEF FilterLoops
<1>5. (\A k \in 1 .. m : (s \o t)[k] = s[k]) /\ (\A k \in 1 .. n : (s \o t)[m + k] = t[k])
  <2>1. \A i \in 1 .. m + n : (s \o t)[i] = IF i <= m THEN s[i] ELSE t[i - m]
    BY ConcatProperties
  <2> QED BY <1>3, <2>1
<1>t. (\A k \in 1 .. m : s[k] \in S) /\ (\A k \in 1 .. n : t[k] \in S)
  BY ElementOfSeq
<1>a. ASSUME NEW x \in Seq(S), NEW y \in Seq(S), NEW e \in S
      PROVE  Append(x \o y, e) = x \o Append(y, e)
  <2> DEFINE z == << e >>
  <2>1. x \o y \in Seq(S) /\ z \in Seq(S)
    BY ConcatProperties
  <2>2. Append(x \o y, e) = (x \o y) \o z /\ Append(y, e) = y \o z
    BY <2>1, AppendIsConcat
  <2>3. (x \o y) \o z = x \o (y \o z)
    <3> HIDE DEF z
    <3> QED BY <2>1, ConcatAssociative
  <2> QED BY <2>2, <2>3
<1> HIDE DEF m, n, mine
<1>6. h[m] = f[m]
  <2> DEFINE T == {k \in 0 .. m : h[k] = f[k]}
  <2>1. 0 \in T
    BY <1>f, <1>3, <1>h
  <2>2. ASSUME NEW k \in 1 .. m, k - 1 \in T PROVE k \in T
    <3>1. k \in 1 .. m + n /\ (s \o t)[k] = s[k] /\ h[k - 1] = f[k - 1]
      BY <1>3, <1>5, <2>2
    <3>2. h[k] = f[k]
      BY <1>f, <1>h, <2>2, <3>1
    <3> QED BY <1>3, <2>2, <3>2
  <2> HIDE DEF T
  <2>3. \A k \in 1 .. m : k - 1 \in T => k \in T
    BY <2>2
  <2>4. \A k \in 0 .. m : k \in T
    BY <1>3, <2>1, <2>3, UpTo
  <2> QED BY <1>3, <2>4 DEF T
<1>7. h[m + n] = f[m] \o g[n]
  <2> DEFINE T == {k \in 0 .. n : h[m + k] = f[m] \o g[k]}
  <2>1. 0 \in T
    <3>1. f[m] \in Seq(S)
      BY <1>f, <1>3
    <3>2. f[m] \o << >> = f[m]
      BY <3>1, ConcatEmptySeq
    <3>3. m + 0 = m /\ 0 \in 0 .. n
      BY <1>3
    <3>4. h[m + 0] = f[m] \o g[0]
      BY <1>g, <1>6, <3>2, <3>3
    <3> QED BY <3>3, <3>4
  <2>2. ASSUME NEW k \in 1 .. n, k - 1 \in T PROVE k \in T
    <3>1. m + k \in 1 .. m + n /\ (m + k) - 1 = m + (k - 1) /\ k - 1 \in 0 .. n
      BY <1>3
    <3>2. h[m + k] = IF mine(t[k]) THEN Append(f[m] \o g[k - 1], t[k]) ELSE f[m] \o g[k - 1]
      BY <1>h, <1>5, <2>2, <3>1
    <3>3. f[m] \in Seq(S) /\ g[k - 1] \in Seq(S) /\ t[k] \in S
      <4>1. m \in 0 .. m
        BY <1>3
      <4>2. f[m] \in Seq(S)
        BY <1>f, <4>1
      <4>3. g[k - 1] \in Seq(S)
        BY <1>g, <3>1
      <4> QED BY <1>t, <4>2, <4>3
    <3>4. Append(f[m] \o g[k - 1], t[k]) = f[m] \o Append(g[k - 1], t[k])
      BY <1>a, <3>3, Zenon
    <3>5. h[m + k] = f[m] \o g[k]
      <4>1. g[k] = IF mine(t[k]) THEN Append(g[k - 1], t[k]) ELSE g[k - 1]
        BY <1>g
      <4>2. CASE mine(t[k])
        BY <3>2, <3>4, <4>1, <4>2
      <4>3. CASE ~mine(t[k])
        BY <3>2, <4>1, <4>3
      <4> QED BY <4>2, <4>3
    <3>6. k \in 0 .. n
      BY <1>3
    <3> QED BY <3>5, <3>6
  <2> HIDE DEF T
  <2>3. \A k \in 1 .. n : k - 1 \in T => k \in T
    BY <2>2
  <2>4. \A k \in 0 .. n : k \in T
    BY <1>3, <2>1, <2>3, UpTo
  <2>5. n \in T
    BY <1>3, <2>4
  <2> QED BY <2>5 DEF T
<1> QED BY <1>f, <1>g, <1>h, <1>6, <1>7 DEF m, n, mine

\* The messages for the worker keep their order: one is behind as many as come
\* before it.
Mine(list, worker, nobody) == {i \in DOMAIN list : Addressed(list[i], worker, nobody)}
Place(mine, p) == Cardinality({q \in mine : q <= p})

LEMMA FilteredOrder ==
  ASSUME NEW S, NEW list \in Seq(S), NEW worker, NEW nobody
  PROVE  /\ IsFiniteSet(Mine(list, worker, nobody))
         /\ Len(Filtered(list, worker, nobody)) = Cardinality(Mine(list, worker, nobody))
         /\ \A p \in Mine(list, worker, nobody) :
              Filtered(list, worker, nobody)[Place(Mine(list, worker, nobody), p)] = list[p]
<1> DEFINE N == Len(list)
           mine == Mine(list, worker, nobody)
           MineTo(k) == {i \in 1 .. k : Addressed(list[i], worker, nobody)}
           Count(k) == Cardinality(MineTo(k))
<1>0. PICK f : f \in FilterLoops(S, list, worker, nobody)
  BY FilteredRuns
<1>1. /\ f \in [0 .. N -> Seq(S)] /\ f[0] = << >>
      /\ \A k \in 1 .. N : f[k] = IF Addressed(list[k], worker, nobody) THEN Append(f[k - 1], list[k])
                                                                        ELSE f[k - 1]
      /\ Filtered(list, worker, nobody) = f[N]
  BY <1>0 DEF FilterLoops
<1>2. N \in Nat /\ \A k \in 1 .. N : list[k] \in S
  BY ElementOfSeq
<1> HIDE DEF N
<1>3. ASSUME NEW k \in 0 .. N PROVE IsFiniteSet(MineTo(k)) /\ Count(k) \in Nat
  <2>1. IsFiniteSet(1 .. k)
    BY FS_Interval
  <2>2. IsFiniteSet(MineTo(k))
    BY <2>1, FS_Subset
  <2> QED BY <2>2, FS_CardinalityType
<1>4. Count(0) = 0
  <2>1. MineTo(0) = {}
    OBVIOUS
  <2> QED BY <2>1, FS_EmptySet
<1>5. ASSUME NEW k \in 1 .. N
      PROVE  Count(k) = IF Addressed(list[k], worker, nobody) THEN Count(k - 1) + 1 ELSE Count(k - 1)
  <2>1. k - 1 \in 0 .. N
    BY <1>2
  <2>2. IsFiniteSet(MineTo(k - 1))
    BY <1>3, <2>1
  <2>3. CASE Addressed(list[k], worker, nobody)
    <3>1. MineTo(k) = MineTo(k - 1) \union {k} /\ k \notin MineTo(k - 1)
      BY <1>2, <2>3
    <3> QED BY <2>2, <2>3, <3>1, FS_AddElement
  <2>4. CASE ~Addressed(list[k], worker, nobody)
    <3>1. MineTo(k) = MineTo(k - 1)
      BY <1>2, <2>4
    <3> QED BY <2>4, <3>1
  <2> QED BY <2>3, <2>4
<1>6. ASSUME NEW k \in 0 .. N, NEW p \in MineTo(k)
      PROVE  Count(p) \in 1 .. Count(k)
  <2>1. MineTo(p) \in SUBSET MineTo(k) /\ p \in MineTo(p) /\ p \in 0 .. N
    BY <1>2
  <2>2. Count(p) <= Count(k) /\ Count(p) # 0
    BY <1>3, <2>1, FS_Subset, FS_EmptySet
  <2>3. Count(p) \in Nat /\ Count(k) \in Nat
    BY <1>3, <2>1
  <2> HIDE DEF Count
  <2> QED BY <2>2, <2>3
<1> DEFINE T == {k \in 0 .. N : Len(f[k]) = Count(k) /\ \A p \in MineTo(k) : f[k][Count(p)] = list[p]}
<1>7. 0 \in T
  BY <1>1, <1>2, <1>4
<1>8. ASSUME NEW k \in 1 .. N, k - 1 \in T PROVE k \in T
  <2>1. k - 1 \in 0 .. N /\ f[k - 1] \in Seq(S) /\ list[k] \in S
    BY <1>1, <1>2
  <2>2. Len(f[k - 1]) = Count(k - 1) /\ \A p \in MineTo(k - 1) : f[k - 1][Count(p)] = list[p]
    BY <1>8
  <2>c. \A p \in MineTo(k - 1) : Count(p) \in 1 .. Count(k - 1)
    BY <1>6, <2>1
  <2>3. CASE Addressed(list[k], worker, nobody)
    <3>1. f[k] = Append(f[k - 1], list[k]) /\ Count(k) = Count(k - 1) + 1
      BY <1>1, <1>5, <2>3
    <3>2. /\ Len(f[k]) = Count(k)
          /\ \A i \in 1 .. Count(k - 1) : f[k][i] = f[k - 1][i]
          /\ f[k][Count(k)] = list[k]
      <4> HIDE DEF Count
      <4> QED BY <2>1, <2>2, <3>1, AppendProperties
    <3>3. MineTo(k) = MineTo(k - 1) \union {k}
      BY <1>2, <2>3
    <3>4. ASSUME NEW p \in MineTo(k) PROVE f[k][Count(p)] = list[p]
      <4>1. CASE p = k
        BY <3>2, <4>1
      <4>2. CASE p # k
        <5>1. p \in MineTo(k - 1)
          BY <3>3, <4>2
        <5> HIDE DEF Count, MineTo
        <5> QED BY <2>2, <2>c, <3>2, <5>1
      <4> QED BY <4>1, <4>2
    <3> QED BY <3>2, <3>4
  <2>4. CASE ~Addressed(list[k], worker, nobody)
    <3>1. MineTo(k) = MineTo(k - 1)
      BY <1>2, <2>4
    <3>2. f[k] = f[k - 1] /\ Count(k) = Count(k - 1)
      BY <1>1, <1>5, <2>4
    <3> HIDE DEF Count, MineTo
    <3> QED BY <2>2, <3>1, <3>2
  <2> QED BY <2>3, <2>4
<1>9. N \in T
  <2> HIDE DEF T
  <2>1. \A k \in 1 .. N : k - 1 \in T => k \in T
    BY <1>8
  <2>2. \A k \in 0 .. N : k \in T
    BY <1>2, <1>7, <2>1, UpTo
  <2> QED BY <1>2, <2>2
<1>10. mine = MineTo(N) /\ \A p \in mine : {q \in mine : q <= p} = MineTo(p)
  BY <1>2 DEF N, Mine
<1>11. \A p \in mine : Place(mine, p) = Count(p)
  BY <1>10 DEF Place
<1> QED BY <1>1, <1>2, <1>3, <1>9, <1>10, <1>11

\* What a worker is to see is the end of the messages that are for it.
LEMMA LastIsTail ==
  ASSUME NEW S, NEW list \in Seq(S), NEW tail \in Int, NEW worker, NEW nobody
  PROVE  LET F == Filtered(list, worker, nobody)
             c == IF tail <= 0 THEN 0 ELSE IF Len(F) < tail THEN Len(F) ELSE tail
         IN LastForWorker(list, tail, worker, nobody) = SubSeq(F, Len(F) - c + 1, Len(F))
<1> DEFINE F == Filtered(list, worker, nobody)
           mine == Mine(list, worker, nobody)
           M == Cardinality(mine)
           c == IF tail <= 0 THEN 0 ELSE IF M < tail THEN M ELSE tail
           upto(p) == Place(mine, p)
           less == {p \in mine \X mine : p[1] < p[2]}
           below == [p \in mine |-> Rank(mine, less, p)]
<1>1. mine \in SUBSET Int
  BY DEF Mine
<1>2. IsFiniteSet(mine) /\ Len(F) = M /\ \A p \in mine : F[upto(p)] = list[p]
  BY FilteredOrder
<1>3. M \in Nat /\ c \in 0 .. M
  <2>1. M \in Nat
    BY <1>2, FS_CardinalityType
  <2> HIDE DEF M
  <2> QED BY <2>1
<1>4. F \in Seq(S)
  BY FilteredType
<1>5. Ordered(mine, less)
  <2>1. \A p, q \in mine : <<p, q>> \in less <=> p < q
    OBVIOUS
  <2> HIDE DEF mine, less
  <2> QED BY <1>1, <2>1 DEF Ordered
<1>6. /\ \A p \in mine : below[p] \in 0 .. M - 1
      /\ \A i \in 0 .. M - 1 : \E p \in mine : below[p] = i
  <2>1. \A p \in mine : below[p] = Rank(mine, less, p)
    OBVIOUS
  <2> HIDE DEF mine, less, below
  <2> QED BY <1>2, <1>5, <2>1, Ranked
<1>7. ASSUME NEW p \in mine PROVE upto(p) = below[p] + 1
  <2> DEFINE B == {q \in mine : <<q, p>> \in less}
  <2>1. {q \in mine : q <= p} = B \union {p} /\ p \notin B
    <3>1. \A q \in mine : q <= p <=> (q < p \/ q = p)
      BY <1>1
    <3>2. ~(p < p)
      BY <1>1
    <3> HIDE DEF mine
    <3> QED BY <3>1, <3>2
  <2>2. IsFiniteSet(B)
    BY <1>2, FS_Subset
  <2>3. Cardinality(B \union {p}) = Cardinality(B) + 1
    <3> HIDE DEF B
    <3> QED BY <2>1, <2>2, FS_AddElement
  <2> HIDE DEF mine, less
  <2> QED BY <2>1, <2>3 DEF Place, Rank
<1> HIDE DEF below
<1>8. \A r \in 1 .. M : \E p \in mine : upto(p) = r
  <2> HIDE DEF upto, mine, M
  <2>1. ASSUME NEW r \in 1 .. M PROVE \E p \in mine : upto(p) = r
    <3>1. r - 1 \in 0 .. M - 1 /\ (r - 1) + 1 = r
      BY <1>3
    <3>2. PICK p \in mine : below[p] = r - 1
      BY <1>6, <3>1
    <3> QED BY <1>7, <3>1, <3>2
  <2> QED BY <2>1
<1>9. ASSUME NEW k \in 1 .. c
      PROVE  list[CHOOSE i \in mine : upto(i) = M - c + k] = F[M - c + k]
  <2> HIDE DEF mine, upto, F, M, c
  <2>1. M - c + k \in 1 .. M
    BY <1>3
  <2>2. \E i \in mine : upto(i) = M - c + k
    BY <1>8, <2>1
  <2> DEFINE i == CHOOSE i \in mine : upto(i) = M - c + k
  <2>3. i \in mine /\ upto(i) = M - c + k
    BY <2>2
  <2> HIDE DEF i
  <2>4. list[i] = F[upto(i)]
    BY <1>2, <2>3
  <2>5. list[i] = F[M - c + k]
    BY <2>3, <2>4
  <2> QED BY <2>5 DEF i
<1>10. LastForWorker(list, tail, worker, nobody) = [k \in 1 .. c |-> list[CHOOSE i \in mine : upto(i) = M - c + k]]
  BY DEF LastForWorker, Mine, Place
<1> HIDE DEF mine, upto, F, M, c
<1>11. LastForWorker(list, tail, worker, nobody) = [k \in 1 .. c |-> F[M - c + k]]
  BY <1>9, <1>10
<1>12. SubSeq(F, M - c + 1, M) = [k \in 1 .. c |-> F[M - c + k]]
  BY <1>2, <1>3, <1>4
<1> QED BY <1>2, <1>11, <1>12 DEF F, c

\* The walk over the batches, as it is written.
Batch(list, k, size) ==
  LET end == Len(list) - 1 - (k - 1) * size
      start == IF end - size + 1 < 0 THEN 0 ELSE end - size + 1
  IN LRange(list, start, end)

\* What k batches leave.
Unread(list, k, size) == Len(list) - k * size
AtLeast0(n) == IF n > 0 THEN n ELSE 0

LEMMA UnreadIs ==
  ASSUME NEW S, NEW list \in Seq(S), NEW size \in Nat \ {0}
  PROVE  /\ Len(list) \in Nat
         /\ Unread(list, 0, size) = Len(list)
         /\ Unread(list, Len(list), size) \in Int /\ Unread(list, Len(list), size) <= 0
         /\ \A k \in 1 .. Len(list) :
              /\ Unread(list, k - 1, size) \in Int /\ Unread(list, k - 1, size) <= Len(list)
              /\ Unread(list, k, size) = Unread(list, k - 1, size) - size
              /\ Len(list) - 1 - (k - 1) * size = Unread(list, k - 1, size) - 1
<1> DEFINE N == Len(list)
<1>1. N \in Nat
  OBVIOUS
<1>2. Unread(list, 0, size) = N
  BY <1>1 DEF Unread
<1>3. Unread(list, N, size) \in Int /\ Unread(list, N, size) <= 0
  <2>1. N * size \in Nat /\ N * size >= N
    BY <1>1
  <2> QED BY <1>1, <2>1 DEF Unread
<1>4. ASSUME NEW k \in 1 .. N
      PROVE  /\ Unread(list, k - 1, size) \in Int /\ Unread(list, k - 1, size) <= N
             /\ Unread(list, k, size) = Unread(list, k - 1, size) - size
             /\ N - 1 - (k - 1) * size = Unread(list, k - 1, size) - 1
  <2> DEFINE p == (k - 1) * size
  <2>1. p \in Nat /\ k * size = p + size
    BY <1>1
  <2>2. Unread(list, k - 1, size) = N - p /\ Unread(list, k, size) = N - k * size
    BY DEF Unread
  <2>3. N - 1 - p = N - p - 1
    <3> HIDE DEF p, N
    <3> QED BY <1>1, <2>1
  <2>4. N - p \in Int /\ N - p <= N /\ N - (p + size) = N - p - size
    <3> HIDE DEF p, N
    <3> QED BY <1>1, <2>1
  <2> QED BY <2>1, <2>2, <2>3, <2>4
<1> QED BY <1>1, <1>2, <1>3, <1>4

BatchLoops(S, list, tail, worker, nobody, size) ==
  {f \in [0 .. Len(list) -> Seq(S)] :
     /\ f[0] = << >>
     /\ \A k \in 1 .. Len(list) :
          f[k] = IF Unread(list, k - 1, size) <= 0 \/ Len(f[k - 1]) >= tail THEN f[k - 1]
                 ELSE Filtered(Batch(list, k, size), worker, nobody) \o f[k - 1]
     /\ GetThreadHistoryTailForWorker(list, tail, worker, nobody, size) =
          IF tail <= 0 THEN << >>
          ELSE IF Len(f[Len(list)]) > tail
                 THEN SubSeq(f[Len(list)], Len(f[Len(list)]) - tail + 1, Len(f[Len(list)]))
          ELSE f[Len(list)]}

LEMMA BatchRuns ==
  ASSUME NEW S, NEW list \in Seq(S), NEW tail \in Int, NEW worker, NEW nobody, NEW size \in Nat \ {0}
  PROVE  \E f : f \in BatchLoops(S, list, tail, worker, nobody, size)
<1> DEFINE N == Len(list)
           End(k) == N - 1 - (k - 1) * size
           Round(k, x) == IF End(k) < 0 \/ Len(x) >= tail THEN x
                          ELSE Filtered(Batch(list, k, size), worker, nobody) \o x
           Loop(g) == [k \in 0 .. N |-> IF k = 0 THEN << >> ELSE Round(k, g[k - 1])]
           v == CHOOSE g : g = Loop(g)
           step == [k \in 1 .. N |-> [x \in Seq(S) |-> Round(k, x)]]
<1>1. N \in Nat /\ << >> \in Seq(S)
  OBVIOUS
<1>2. \A k \in 1 .. N, x \in Seq(S) : Round(k, x) \in Seq(S)
  <2> TAKE k \in 1 .. N, x \in Seq(S)
  <2> DEFINE b == Batch(list, k, size)
  <2>1. CASE End(k) >= 0
    <3> DEFINE e == End(k)
               b0 == IF e - size + 1 < 0 THEN 0 ELSE e - size + 1
    <3>1. e \in Nat /\ b0 \in Nat
      BY <1>1, <2>1
    <3>2. b = LRange(list, b0, e)
      BY DEF Batch
    <3> HIDE DEF e, b0, b
    <3>3. b \in Seq(S)
      BY <1>1, <3>1, <3>2 DEF LRange
    <3>4. Filtered(b, worker, nobody) \in Seq(S)
      BY <3>3, FilteredType
    <3>5. Filtered(b, worker, nobody) \o x \in Seq(S)
      BY <3>4, ConcatProperties
    <3> QED BY <3>5 DEF b
  <2>2. CASE ~(End(k) >= 0)
    <3>1. End(k) < 0
      BY <1>1, <2>2
    <3> HIDE DEF End
    <3> QED BY <3>1
  <2> HIDE DEF Round
  <2> QED BY <2>1, <2>2
<1> HIDE DEF N, Round
<1>3. step \in [1 .. N -> [Seq(S) -> Seq(S)]]
  BY <1>2
<1>4. PICK f : f \in Loops(Seq(S), << >>, N, step)
  <2> HIDE DEF step
  <2> QED BY <1>1, <1>3, LoopRuns
<1>5. \A k \in 1 .. N : f[k] = Round(k, f[k - 1])
  <2>1. \A k \in 1 .. N : k - 1 \in 0 .. N
    BY <1>1
  <2> QED BY <1>4, <2>1 DEF Loops
<1>6. f = Loop(f)
  BY <1>1, <1>4, <1>5 DEF Loops
<1>7. v = Loop(v)
  <2> HIDE DEF Loop
  <2> QED BY <1>6
<1>8. Follows(v, Seq(S), << >>, N, step)
  <2> HIDE DEF v
  <2>1. \A k \in 0 .. N : v[k] = IF k = 0 THEN << >> ELSE Round(k, v[k - 1])
    BY <1>7
  <2> QED BY <1>1, <2>1 DEF Follows
<1>9. v[N] = f[N]
  <2> HIDE DEF v, step
  <2>1. \A k \in 0 .. N : v[k] = f[k]
    BY <1>1, <1>4, <1>8, LoopUnique
  <2> QED BY <1>1, <2>1
<1>10. GetThreadHistoryTailForWorker(list, tail, worker, nobody, size) =
         IF tail <= 0 THEN << >>
         ELSE IF Len(v[N]) > tail THEN SubSeq(v[N], Len(v[N]) - tail + 1, Len(v[N]))
         ELSE v[N]
  BY DEF GetThreadHistoryTailForWorker, N, Round, Batch
<1> HIDE DEF v
<1>11. /\ f \in [0 .. N -> Seq(S)] /\ f[0] = << >>
       /\ \A k \in 1 .. N : f[k] = Round(k, f[k - 1])
  BY <1>4, <1>5 DEF Loops
<1>12. ASSUME NEW k \in 1 .. N
       PROVE  Round(k, f[k - 1]) = IF Unread(list, k - 1, size) <= 0 \/ Len(f[k - 1]) >= tail THEN f[k - 1]
                                   ELSE Filtered(Batch(list, k, size), worker, nobody) \o f[k - 1]
  <2>1. Unread(list, k - 1, size) \in Int /\ End(k) = Unread(list, k - 1, size) - 1
    BY UnreadIs DEF N
  <2> HIDE DEF End
  <2>2. End(k) < 0 <=> Unread(list, k - 1, size) <= 0
    BY <2>1
  <2> QED BY <2>2 DEF Round
<1> QED BY <1>9, <1>10, <1>11, <1>12 DEF BatchLoops, N

\* Where a batch begins and ends.
LEMMA BatchIs ==
  ASSUME NEW S, NEW list \in Seq(S), NEW size \in Nat \ {0}, NEW k \in 1 .. Len(list),
         Unread(list, k - 1, size) > 0
  PROVE  Batch(list, k, size)
           = SubSeq(list, AtLeast0(Unread(list, k, size)) + 1, Unread(list, k - 1, size))
<1> DEFINE N == Len(list)
           end == N - 1 - (k - 1) * size
           start == IF end - size + 1 < 0 THEN 0 ELSE end - size + 1
           a == Unread(list, k - 1, size)
<1>1. a \in 1 .. N /\ end = a - 1 /\ N \in Nat /\ Unread(list, k, size) = a - size
  BY UnreadIs
<1>2. Batch(list, k, size) = LRange(list, start, end)
  BY DEF Batch
<1> HIDE DEF a, end
<1>3. start = AtLeast0(a - size)
  BY <1>1 DEF AtLeast0
<1>4. start \in Nat
  BY <1>3, <1>1 DEF AtLeast0
<1> HIDE DEF start
<1>5. start >= 0 /\ end >= 0 /\ end < Len(list) /\ end + 1 = a
  BY <1>1, <1>4
<1>6. LRange(list, start, end) = SubSeq(list, start + 1, end + 1)
  BY <1>5 DEF LRange
<1>7. Batch(list, k, size) = SubSeq(list, start + 1, a)
  BY <1>2, <1>5, <1>6
<1> QED BY <1>1, <1>3, <1>7 DEF a

LEMMA FilteredSplit ==
  ASSUME NEW S, NEW list \in Seq(S), NEW worker, NEW nobody,
         NEW i \in 0 .. Len(list), NEW j \in i .. Len(list)
  PROVE  Filtered(SubSeq(list, i + 1, Len(list)), worker, nobody)
           = Filtered(SubSeq(list, i + 1, j), worker, nobody)
               \o Filtered(SubSeq(list, j + 1, Len(list)), worker, nobody)
<1> DEFINE N == Len(list)
           s == SubSeq(list, i + 1, j)
           t == SubSeq(list, j + 1, N)
<1>1. N \in Nat
  OBVIOUS
<1>2. s \in Seq(S) /\ t \in Seq(S)
  <2>1. \A p, q \in Int : SubSeq(list, p, q) \in Seq(S) \/ ~(p >= 1 /\ q <= N)
    BY SubSeqProperties
  <2> QED BY <1>1, SubSeqProperties
<1>3. s \o t = SubSeq(list, i + 1, N)
  <2>1. i + 1 \in 1 .. N + 1 /\ j \in (i + 1) - 1 .. N /\ N \in j .. N
    BY <1>1
  <2> QED BY <2>1, ConcatAdjacentSubSeq
<1> HIDE DEF s, t, N
<1>4. Filtered(s \o t, worker, nobody) = Filtered(s, worker, nobody) \o Filtered(t, worker, nobody)
  BY <1>2, FilteredConcat
<1> QED BY <1>3, <1>4 DEF s, t, N

\* After some batches: the messages for the worker from a certain place on,
\* enough of them or all of those that the batches have passed.
Walked(list, tail, worker, nobody, behind, got) ==
  \E e \in 0 .. Len(list) :
     /\ got = Filtered(SubSeq(list, e + 1, Len(list)), worker, nobody)
     /\ Len(got) >= tail \/ e = AtLeast0(behind)

LEMMA WalkGoesOn ==
  ASSUME NEW S, NEW list \in Seq(S), NEW tail \in Int, NEW worker, NEW nobody, NEW size \in Nat \ {0},
         NEW k \in 1 .. Len(list), NEW got \in Seq(S),
         Walked(list, tail, worker, nobody, Unread(list, k - 1, size), got)
  PROVE  Walked(list, tail, worker, nobody, Unread(list, k, size),
                IF Unread(list, k - 1, size) <= 0 \/ Len(got) >= tail THEN got
                ELSE Filtered(Batch(list, k, size), worker, nobody) \o got)
<1> DEFINE N == Len(list)
           a == Unread(list, k - 1, size)
           b == AtLeast0(Unread(list, k, size))
<1>1. N \in Nat /\ Len(got) \in Nat /\ a \in Int /\ a <= N /\ Unread(list, k, size) = a - size
  BY UnreadIs
<1>2. PICK e \in 0 .. N : /\ got = Filtered(SubSeq(list, e + 1, N), worker, nobody)
                          /\ Len(got) >= tail \/ e = AtLeast0(a)
  BY DEF Walked
<1> HIDE DEF a
<1>3. CASE Len(got) >= tail
  BY <1>2, <1>3 DEF Walked
<1>4. CASE ~(Len(got) >= tail) /\ a <= 0
  <2>1. e = AtLeast0(a) /\ AtLeast0(a) = AtLeast0(a - size)
    BY <1>1, <1>2, <1>4 DEF AtLeast0
  <2> QED BY <1>1, <1>2, <1>4, <2>1 DEF Walked, a
<1>5. CASE ~(Len(got) >= tail) /\ a > 0
  <2>1. e = AtLeast0(a)
    BY <1>2, <1>5
  <2>2. e = a /\ ~(a <= 0) /\ b \in 0 .. N /\ a \in b .. N
    BY <1>1, <1>5, <2>1 DEF AtLeast0
  <2>3. Batch(list, k, size) = SubSeq(list, b + 1, a)
    BY <1>5, BatchIs DEF a
  <2> HIDE DEF b
  <2>4. Filtered(SubSeq(list, b + 1, N), worker, nobody) = Filtered(SubSeq(list, b + 1, a), worker, nobody) \o got
    <3>1. Filtered(SubSeq(list, b + 1, N), worker, nobody)
            = Filtered(SubSeq(list, b + 1, a), worker, nobody) \o Filtered(SubSeq(list, a + 1, N), worker, nobody)
      <4>1. b \in 0 .. Len(list) /\ a \in b .. Len(list)
        BY <2>2
      <4> QED BY <4>1, FilteredSplit, Zenon DEF N
    <3> QED BY <1>2, <2>2, <3>1
  <2>5. Filtered(SubSeq(list, b + 1, N), worker, nobody) = Filtered(Batch(list, k, size), worker, nobody) \o got
    BY <2>3, <2>4
  <2> QED BY <1>5, <2>2, <2>5 DEF Walked, a, b
<1>6. a <= 0 \/ a > 0
  BY <1>1
<1> QED BY <1>3, <1>4, <1>5, <1>6

\* A worker of a group sees the last messages that are for it, however many
\* others lie between (GetThreadHistoryTailForWorker).
THEOREM WorkerSeesItsLast ==
  ASSUME NEW S, NEW list \in Seq(S), NEW tail \in Int, NEW worker, NEW nobody, NEW size \in Nat \ {0}
  PROVE  GetThreadHistoryTailForWorker(list, tail, worker, nobody, size)
           = LastForWorker(list, tail, worker, nobody)
<1> DEFINE N == Len(list)
           F == Filtered(list, worker, nobody)
           c == IF tail <= 0 THEN 0 ELSE IF Len(F) < tail THEN Len(F) ELSE tail
<1>1. N \in Nat
  OBVIOUS
<1>2. F \in Seq(S) /\ Len(F) \in Nat
  <2>1. F \in Seq(S)
    BY FilteredType
  <2> HIDE DEF F
  <2> QED BY <2>1
<1>3. LastForWorker(list, tail, worker, nobody) = SubSeq(F, Len(F) - c + 1, Len(F))
  BY LastIsTail
<1>4. CASE tail <= 0
  <2>1. c = 0
    BY <1>4
  <2>2. GetThreadHistoryTailForWorker(list, tail, worker, nobody, size) = << >>
    BY <1>4 DEF GetThreadHistoryTailForWorker
  <2>3. SubSeq(F, Len(F) + 1, Len(F)) = << >>
    <3> HIDE DEF F
    <3> QED BY <1>2, SubSeqEmpty
  <2>4. Len(F) - c + 1 = Len(F) + 1
    <3> HIDE DEF c, F
    <3> QED BY <1>2, <2>1
  <2> QED BY <1>3, <2>2, <2>3, <2>4
<1>5. CASE tail > 0
  <2>1. PICK f : f \in BatchLoops(S, list, tail, worker, nobody, size)
    BY BatchRuns
  <2>2. /\ f \in [0 .. N -> Seq(S)] /\ f[0] = << >>
        /\ \A k \in 1 .. N :
             f[k] = IF Unread(list, k - 1, size) <= 0 \/ Len(f[k - 1]) >= tail THEN f[k - 1]
                    ELSE Filtered(Batch(list, k, size), worker, nobody) \o f[k - 1]
        /\ GetThreadHistoryTailForWorker(list, tail, worker, nobody, size) =
             IF tail <= 0 THEN << >>
             ELSE IF Len(f[N]) > tail THEN SubSeq(f[N], Len(f[N]) - tail + 1, Len(f[N]))
             ELSE f[N]
    BY <2>1, Zenon DEF BatchLoops
  <2>t. ~(tail <= 0)
    BY <1>5
  <2> DEFINE T == {k \in 0 .. N : Walked(list, tail, worker, nobody, Unread(list, k, size), f[k])}
  <2>3. 0 \in T
    <3>1. SubSeq(list, N + 1, N) = << >>
      BY SubSeqEmpty
    <3>2. Filtered(<< >>, worker, nobody) = << >>
      <4>1. << >> \in Seq(S) /\ Len(<< >>) = 0
        OBVIOUS
      <4>2. PICK g : g \in FilterLoops(S, << >>, worker, nobody)
        BY <4>1, FilteredRuns
      <4> QED BY <4>1, <4>2 DEF FilterLoops
    <3>3. Unread(list, 0, size) = N /\ AtLeast0(N) = N
      BY <1>1, UnreadIs DEF AtLeast0
    <3> HIDE DEF N
    <3>4. Walked(list, tail, worker, nobody, N, << >>)
      <4>1. << >> = Filtered(SubSeq(list, N + 1, N), worker, nobody)
        BY <3>1, <3>2, Zenon
      <4>2. N \in 0 .. N
        BY <1>1
      <4> QED BY <3>3, <4>1, <4>2, Zenon DEF Walked, N
    <3> QED BY <1>1, <2>2, <3>3, <3>4
  <2>4. ASSUME NEW k \in 1 .. N, k - 1 \in T PROVE k \in T
    <3>1. f[k - 1] \in Seq(S) /\ Walked(list, tail, worker, nobody, Unread(list, k - 1, size), f[k - 1])
      BY <2>2, <2>4
    <3>2. k \in 0 .. N
      BY <1>1
    <3>3. Walked(list, tail, worker, nobody, Unread(list, k, size),
                 IF Unread(list, k - 1, size) <= 0 \/ Len(f[k - 1]) >= tail THEN f[k - 1]
                 ELSE Filtered(Batch(list, k, size), worker, nobody) \o f[k - 1])
      BY <3>1, WalkGoesOn
    <3> QED BY <2>2, <3>2, <3>3
  <2>5. N \in T
    <3> HIDE DEF T
    <3>1. \A k \in 1 .. N : k - 1 \in T => k \in T
      BY <2>4
    <3>2. \A k \in 0 .. N : k \in T
      BY <1>1, <2>3, <3>1, UpTo
    <3> QED BY <1>1, <3>2
  <2> DEFINE all == f[N]
  <2>6. PICK e \in 0 .. N : /\ all = Filtered(SubSeq(list, e + 1, N), worker, nobody)
                            /\ Len(all) >= tail \/ e = AtLeast0(Unread(list, N, size))
    BY <2>5 DEF Walked
  <2>7. AtLeast0(Unread(list, N, size)) = 0
    BY UnreadIs DEF AtLeast0
  <2>8. all \in Seq(S) /\ Len(all) \in Nat
    BY <1>1, <2>2
  <2> HIDE DEF all
  <2>9. CASE e = 0
    <3>1. SubSeq(list, e + 1, N) = list
      <4>1. SubSeq(list, 1, N) = list
        BY SubSeqFull
      <4> QED BY <2>9, <4>1
    <3>2. all = F
      BY <2>6, <3>1
    <3>3. SubSeq(F, 1, Len(F)) = F
      <4> HIDE DEF F
      <4> QED BY <1>2, SubSeqFull
    <3> HIDE DEF F
    <3>4. CASE Len(F) > tail
      <4>1. c = tail
        BY <1>2, <1>5, <3>4
      <4> QED BY <1>3, <2>2, <2>t, <3>2, <3>4, <4>1 DEF all
    <3>5. CASE ~(Len(F) > tail)
      <4>1. Len(F) - c + 1 = 1
        BY <1>2, <1>5, <3>5
      <4> HIDE DEF c
      <4> QED BY <1>3, <2>2, <2>t, <3>2, <3>3, <3>5, <4>1 DEF all
    <3> QED BY <3>4, <3>5
  <2>10. CASE Len(all) >= tail
    <3> DEFINE P == Filtered(SubSeq(list, 0 + 1, e), worker, nobody)
    <3>1. SubSeq(list, 0 + 1, N) = list
      BY SubSeqFull
    <3>2. SubSeq(list, 0 + 1, e) \in Seq(S)
      BY <1>1, SubSeqProperties
    <3>3. F = P \o all /\ P \in Seq(S)
      <4>1. 0 \in 0 .. N /\ e \in 0 .. N
        BY <1>1
      <4>2. Filtered(SubSeq(list, 0 + 1, N), worker, nobody)
              = P \o Filtered(SubSeq(list, e + 1, N), worker, nobody)
        BY <4>1, FilteredSplit
      <4>3. P \in Seq(S)
        BY <3>2, FilteredType
      <4> QED BY <2>6, <3>1, <4>2, <4>3
    <3> HIDE DEF P, F
    <3>4. Len(F) = Len(P) + Len(all) /\ Len(P) \in Nat
      BY <2>8, <3>3, ConcatProperties
    <3>5. c = tail
      BY <1>2, <1>5, <2>8, <2>10, <3>4
    <3>6. SubSeq(F, Len(F) - tail + 1, Len(F)) = SubSeq(all, Len(all) - tail + 1, Len(all))
      <4> DEFINE i == Len(F) - tail + 1
                 j == Len(F)
      <4>1. i \in Len(P) + 1 .. Len(P) + Len(all) /\ j \in Len(P) + 1 .. Len(P) + Len(all)
        BY <1>2, <1>5, <2>8, <2>10, <3>4
      <4>2. i - Len(P) = Len(all) - tail + 1 /\ j - Len(P) = Len(all)
        BY <1>2, <1>5, <2>8, <3>4
      <4> HIDE DEF i, j
      <4>3. SubSeq(P \o all, i, j) = SubSeq(all, i - Len(P), j - Len(P))
        BY <2>8, <3>3, <4>1, SubSeqOfConcat2
      <4> QED BY <3>3, <4>2, <4>3 DEF i, j
    <3> HIDE DEF c
    <3>7. CASE Len(all) > tail
      BY <1>3, <2>2, <2>t, <3>5, <3>6, <3>7 DEF all
    <3>8. CASE ~(Len(all) > tail)
      <4>1. Len(all) - tail + 1 = 1
        BY <1>5, <2>8, <2>10, <3>8
      <4>2. SubSeq(all, 1, Len(all)) = all
        BY <2>8, SubSeqFull
      <4> QED BY <1>3, <2>2, <2>t, <3>5, <3>6, <3>8, <4>1, <4>2 DEF all
    <3> QED BY <3>7, <3>8
  <2>11. e = 0 \/ Len(all) >= tail
    BY <2>6, <2>7
  <2> QED BY <2>9, <2>10, <2>11
<1>6. tail <= 0 \/ tail > 0
  OBVIOUS
<1> QED BY <1>4, <1>5, <1>6
-----------------------------------------------------------------------------
\* Which status comes when.
LEMMA PriorityIs ==
  ASSUME NEW s
  PROVE  /\ Priority(s) \in 0 .. 6
         /\ Priority(s) = 1 <=> s = "running"
         /\ Priority(s) = 2 <=> s = "pending"
<1>1. DOMAIN StatusOrder = {"failed", "running", "pending", "done", "cancelled", "queued", "unknown"}
  BY DEF StatusOrder
<1>2. CASE s \in DOMAIN StatusOrder
  <2>1. Priority(s) = StatusOrder[s]
    BY <1>2 DEF Priority
  <2>2. CASE s = "failed"
    BY <2>1, <2>2 DEF StatusOrder
  <2>3. CASE s = "running"
    BY <2>1, <2>3 DEF StatusOrder
  <2>4. CASE s = "pending"
    BY <2>1, <2>4 DEF StatusOrder
  <2>5. CASE s = "done"
    BY <2>1, <2>5 DEF StatusOrder
  <2>6. CASE s = "cancelled"
    BY <2>1, <2>6 DEF StatusOrder
  <2>7. CASE s = "queued"
    BY <2>1, <2>7 DEF StatusOrder
  <2>8. CASE s = "unknown"
    BY <2>1, <2>8 DEF StatusOrder
  <2> QED BY <1>1, <1>2, <2>2, <2>3, <2>4, <2>5, <2>6, <2>7, <2>8
<1>3. CASE s \notin DOMAIN StatusOrder
  <2>1. s # "running" /\ s # "pending"
    BY <1>1, <1>3
  <2>2. Priority(s) = 0
    BY <1>3 DEF Priority
  <2> QED BY <2>1, <2>2
<1> QED BY <1>2, <1>3

\* Rows are of tasks, each of its own.
OfTasks(rows) == \A r, s \in rows : r.id \in Int /\ (r.id = s.id => r = s)

LEMMA RowsAreOfTasks ==
  ASSUME NEW registered, NEW keys, NEW wanted, NEW thread,
         IsFiniteSet(DOMAIN registered), IsFiniteSet(DOMAIN keys),
         DOMAIN registered \subseteq Int, DOMAIN keys \subseteq Int
  PROVE  /\ IsFiniteSet(Rows(registered, keys, wanted, thread))
         /\ OfTasks(Rows(registered, keys, wanted, thread))
<1> DEFINE D == DOMAIN registered \union DOMAIN keys
           f == [t \in D |-> Row(registered, keys, t)]
           V == {f[t] : t \in D}
           R == Rows(registered, keys, wanted, thread)
<1>1. IsFiniteSet(D) /\ D \subseteq Int
  BY FS_Union
<1>2. V = {Row(registered, keys, t) : t \in D} /\ f \in Surjection(D, V)
  BY DEF Surjection
<1>3. R \subseteq V
  <2> HIDE DEF f
  <2> QED BY <1>2 DEF Rows
<1>4. \A t \in D : f[t].id = t
  BY DEF Row
<1> HIDE DEF f, D, R
<1>5. IsFiniteSet(V)
  BY <1>1, <1>2, FS_Surjection
<1>6. IsFiniteSet(R)
  BY <1>3, <1>5, FS_Subset
<1>7. ASSUME NEW r \in R, NEW s \in R PROVE r.id \in Int /\ (r.id = s.id => r = s)
  <2>1. PICK t \in D : r = f[t]
    BY <1>3
  <2>2. PICK u \in D : s = f[u]
    BY <1>3
  <2> QED BY <1>1, <1>4, <2>1, <2>2
<1> QED BY <1>6, <1>7 DEF OfTasks, R

\* Rows that come before others, in either order.
Ahead(rows, asc) == {p \in rows \X rows : p[1] # p[2] /\ Before(p[1], p[2], asc)}

LEMMA AheadOrdered ==
  ASSUME NEW rows, OfTasks(rows), NEW asc \in BOOLEAN
  PROVE  Ordered(rows, Ahead(rows, asc))
<1> DEFINE P(r) == Priority(r.status)
           Lower(r, s) == IF P(r) # P(s) THEN P(r) < P(s) ELSE r.id < s.id
<1>1. \A r \in rows : P(r) \in Int /\ r.id \in Int
  BY PriorityIs DEF OfTasks
<1>2. \A r, s \in rows : r.id = s.id => r = s
  BY DEF OfTasks
<1> HIDE DEF P
<1>3. \A r, s \in rows : r # s => (Lower(r, s) <=> ~Lower(s, r))
  BY <1>1, <1>2
<1>4. \A r, s, t \in rows : Lower(r, s) /\ Lower(s, t) => Lower(r, t)
  BY <1>1
<1>5. \A r, s \in rows : Before(r, s, asc) <=> IF asc THEN Lower(r, s) ELSE ~Lower(r, s)
  BY DEF Before, P
<1> HIDE DEF Lower
<1>6. \A r, s \in rows : <<r, s>> \in Ahead(rows, asc) <=> r # s /\ IF asc THEN Lower(r, s) ELSE Lower(s, r)
  BY <1>3, <1>5 DEF Ahead
<1>7. \A r \in rows : <<r, r>> \notin Ahead(rows, asc)
  BY <1>6
<1>8. \A r, s \in rows : r = s \/ <<r, s>> \in Ahead(rows, asc) \/ <<s, r>> \in Ahead(rows, asc)
  BY <1>3, <1>6
<1>9. ASSUME NEW r \in rows, NEW s \in rows, NEW t \in rows,
             <<r, s>> \in Ahead(rows, asc), <<s, t>> \in Ahead(rows, asc)
      PROVE  <<r, t>> \in Ahead(rows, asc)
  <2>1. r # s /\ s # t /\ (IF asc THEN Lower(r, s) /\ Lower(s, t) ELSE Lower(s, r) /\ Lower(t, s))
    BY <1>6, <1>9
  <2>2. r # t
    BY <1>3, <2>1
  <2>3. IF asc THEN Lower(r, t) ELSE Lower(t, r)
    BY <1>4, <2>1
  <2> QED BY <1>6, <2>2, <2>3
<1> QED BY <1>7, <1>8, <1>9 DEF Ordered

\* sort.Slice: every row once, each behind those that come before it.
LEMMA SortedIs ==
  ASSUME NEW rows, IsFiniteSet(rows), OfTasks(rows), NEW asc \in BOOLEAN
  PROVE  /\ Cardinality(rows) \in Nat
         /\ Sorted(rows, asc) \in [1 .. Cardinality(rows) -> rows]
         /\ \A i, j \in 1 .. Cardinality(rows) :
              i < j => /\ Sorted(rows, asc)[i] # Sorted(rows, asc)[j]
                       /\ Before(Sorted(rows, asc)[i], Sorted(rows, asc)[j], asc)
         /\ \A row \in rows : \E i \in 1 .. Cardinality(rows) : Sorted(rows, asc)[i] = row
<1> DEFINE N == Cardinality(rows)
           less == Ahead(rows, asc)
           ahead(row) == Cardinality({r \in rows : r # row /\ Before(r, row, asc)})
           At(i) == CHOOSE row \in rows : ahead(row) = i - 1
           list == Sorted(rows, asc)
<1>1. /\ N \in Nat
      /\ \A r \in rows : Rank(rows, less, r) \in 0 .. N - 1
      /\ \A r, s \in rows : <<r, s>> \in less <=> Rank(rows, less, r) < Rank(rows, less, s)
      /\ \A r, s \in rows : Rank(rows, less, r) = Rank(rows, less, s) => r = s
      /\ \A i \in 0 .. N - 1 : \E r \in rows : Rank(rows, less, r) = i
  <2> HIDE DEF less
  <2>1. Ordered(rows, less)
    BY AheadOrdered DEF less
  <2> QED BY <2>1, Ranked
<1>2. \A row \in rows : {r \in rows : <<r, row>> \in less} = {r \in rows : r # row /\ Before(r, row, asc)}
  BY DEF Ahead
<1>3. \A row \in rows : Rank(rows, less, row) = ahead(row)
  BY <1>2 DEF Rank
<1>4. list = [i \in 1 .. N |-> At(i)]
  BY DEF Sorted
<1> HIDE DEF N, less, list, ahead
<1>5. ASSUME NEW i \in 1 .. N PROVE At(i) \in rows /\ Rank(rows, less, At(i)) = i - 1
  <2>1. i - 1 \in 0 .. N - 1
    BY <1>1
  <2>2. \E r \in rows : ahead(r) = i - 1
    BY <1>1, <1>3, <2>1
  <2> QED BY <1>3, <2>2
<1> HIDE DEF At
<1>6. list \in [1 .. N -> rows] /\ \A i \in 1 .. N : Rank(rows, less, list[i]) = i - 1
  BY <1>4, <1>5
<1>7. ASSUME NEW i \in 1 .. N, NEW j \in 1 .. N, i < j
      PROVE  list[i] # list[j] /\ Before(list[i], list[j], asc)
  <2>1. Rank(rows, less, list[i]) < Rank(rows, less, list[j]) /\ list[i] \in rows /\ list[j] \in rows
    BY <1>1, <1>6, <1>7
  <2>2. <<list[i], list[j]>> \in less
    BY <1>1, <2>1
  <2> QED BY <2>2 DEF less, Ahead
<1>8. ASSUME NEW row \in rows PROVE \E i \in 1 .. N : list[i] = row
  <2> DEFINE i == Rank(rows, less, row) + 1
  <2>1. i \in 1 .. N /\ i - 1 = Rank(rows, less, row)
    BY <1>1
  <2> HIDE DEF i
  <2>2. list[i] = row
    BY <1>1, <1>6, <2>1
  <2> QED BY <2>1, <2>2
<1> QED BY <1>1, <1>6, <1>7, <1>8 DEF N, list

\* How many of n rows a page has.
OnPage(n, limit, offset) == IF offset >= n THEN 0 ELSE IF offset + limit < n THEN limit ELSE n - offset

IsPart(part, list, limit, offset) ==
  /\ OnPage(Len(list), limit, offset) \in 0 .. limit
  /\ Len(part) = OnPage(Len(list), limit, offset)
  /\ DOMAIN part = 1 .. OnPage(Len(list), limit, offset)
  /\ \A i \in 1 .. OnPage(Len(list), limit, offset) :
       offset + i \in 1 .. Len(list) /\ part[i] = list[offset + i]

LEMMA CutIs ==
  ASSUME NEW S, NEW list \in Seq(S), NEW limit \in Nat \ {0}, NEW offset \in Nat
  PROVE  IsPart(Page(list, limit, offset), list, limit, offset)
<1> DEFINE N == Len(list)
           rest == IF offset > 0 /\ offset < N THEN SubSeq(list, offset + 1, N)
                   ELSE IF offset >= N THEN << >> ELSE list
           left == IF offset >= N THEN 0 ELSE N - offset
           cut == IF left > limit THEN limit ELSE left
           c == OnPage(N, limit, offset)
<1>1. N \in Nat /\ list \in [1 .. N -> S]
  OBVIOUS
<1> HIDE DEF N
<1>2. rest \in Seq(S) /\ Len(rest) = left /\ \A i \in 1 .. left : rest[i] = list[offset + i]
  <2>1. CASE offset > 0 /\ offset < N
    <3>1. rest = SubSeq(list, offset + 1, N)
      BY <2>1
    <3> HIDE DEF rest
    <3>2. offset + 1 \in 1 .. N + 1 /\ N \in 0 .. N /\ left = N - (offset + 1) + 1 /\ offset + 1 <= N
      BY <1>1, <2>1
    <3> DEFINE m == offset + 1
    <3>3. m \in 1 .. N + 1 /\ left = N - m + 1 /\ m <= N /\ \A i \in 1 .. left : m + i - 1 = offset + i
      BY <1>1, <3>2
    <3> HIDE DEF rest, N, left, m
    <3>4. /\ SubSeq(list, m, N) \in Seq(S) /\ Len(SubSeq(list, m, N)) = N - m + 1
          /\ \A i \in 1 .. N - m + 1 : SubSeq(list, m, N)[i] = list[m + i - 1]
      BY <1>1, <3>3, SubSeqProperties DEF N
    <3> QED BY <3>1, <3>3, <3>4 DEF m
  <2>2. CASE offset >= N
    <3>1. rest = << >> /\ left = 0
      BY <1>1, <2>2
    <3> HIDE DEF rest, left
    <3> QED BY <3>1
  <2>3. CASE ~(offset > 0) /\ ~(offset >= N)
    <3>1. offset = 0
      BY <2>3
    <3>2. left = N
      BY <1>1, <2>3, <3>1
    <3>3. rest = list
      BY <2>3
    <3>4. \A i \in 1 .. N : offset + i = i
      BY <1>1, <3>1
    <3> HIDE DEF rest, left
    <3> QED BY <3>2, <3>3, <3>4 DEF N
  <2>4. offset >= N \/ offset < N
    BY <1>1
  <2> QED BY <2>1, <2>2, <2>3, <2>4
<1>3. /\ left \in Nat /\ cut \in 0 .. left /\ cut \in 0 .. limit /\ cut = c
      /\ \A i \in 1 .. cut : i \in 1 .. left /\ offset + i \in 1 .. N
  BY <1>1 DEF OnPage
<1>4. Page(list, limit, offset) = SubSeq(rest, 1, cut)
  <2>1. Page(list, limit, offset) = SubSeq(rest, 1, IF Len(rest) > limit THEN limit ELSE Len(rest))
    BY DEF Page, N
  <2> HIDE DEF rest, left
  <2> QED BY <1>2, <2>1
<1> HIDE DEF rest, left, cut, c, N
<1>5. /\ SubSeq(rest, 1, cut) \in Seq(S) /\ Len(SubSeq(rest, 1, cut)) = cut
      /\ \A i \in 1 .. cut : SubSeq(rest, 1, cut)[i] = rest[i]
  <2> HIDE DEF left
  <2>1. 1 \in 1 .. Len(rest) + 1 /\ cut \in 0 .. Len(rest) /\ cut - 1 + 1 = cut
    BY <1>2, <1>3
  <2>2. \A i \in 1 .. cut : 1 + i - 1 = i
    BY <1>3
  <2>3. Len(SubSeq(rest, 1, cut)) = IF 1 <= cut THEN cut - 1 + 1 ELSE 0
    BY <1>2, <2>1, SubSeqProperties
  <2>4. SubSeq(rest, 1, cut) \in Seq(S)
    BY <1>2, <2>1, SubSeqProperties
  <2>5. \A i \in 1 .. cut - 1 + 1 : SubSeq(rest, 1, cut)[i] = rest[1 + i - 1]
    BY <1>2, <2>1, SubSeqProperties
  <2> QED BY <1>3, <2>1, <2>2, <2>3, <2>4, <2>5
<1> DEFINE page == Page(list, limit, offset)
<1>6. /\ page \in Seq(S) /\ Len(page) = cut
      /\ \A i \in 1 .. cut : page[i] = list[offset + i]
  BY <1>2, <1>3, <1>4, <1>5
<1> HIDE DEF page
<1>7. DOMAIN page = 1 .. cut
  BY <1>6
<1> QED BY <1>3, <1>6, <1>7 DEF IsPart, page, c, N

\* Where a page begins.
Offset(n, limit) == (n - 1) * limit

LEMMA Offsets ==
  ASSUME NEW limit \in Nat \ {0}
  PROVE  /\ \A n \in Nat \ {0} : Offset(n, limit) \in Nat
         /\ \A m, n \in Nat \ {0} : m < n => Offset(m, limit) + limit <= Offset(n, limit)
         /\ \A q \in Nat \ {0} : \E n \in 1 .. q, i \in 1 .. limit : q = Offset(n, limit) + i
<1>1. \A n \in Nat \ {0} : Offset(n, limit) \in Nat
  BY DEF Offset
<1>2. ASSUME NEW m \in Nat \ {0}, NEW n \in Nat \ {0}, m < n PROVE Offset(m, limit) + limit <= Offset(n, limit)
  <2> DEFINE d == n - m - 1
  <2>1. d \in Nat /\ n - 1 = (m - 1) + 1 + d
    BY <1>2
  <2> HIDE DEF d
  <2>2. (n - 1) * limit = (m - 1) * limit + limit + d * limit
    BY <2>1
  <2>3. d * limit \in Nat /\ (m - 1) * limit \in Nat
    BY <2>1
  <2> QED BY <2>2, <2>3 DEF Offset
<1>3. \A n \in Nat \ {0} : Offset(n + 1, limit) = Offset(n, limit) + limit /\ Offset(1, limit) = 0
  BY DEF Offset
<1>4. ASSUME NEW q1 \in Nat \ {0} PROVE \E n \in 1 .. q1, i \in 1 .. limit : q1 = Offset(n, limit) + i
  <2> DEFINE q == q1 - 1
  <2>0. q \in Nat /\ q + 1 = q1
    OBVIOUS
  <2> HIDE DEF q
  <2> DEFINE T == {p \in 0 .. q : \E n \in 1 .. p + 1, i \in 1 .. limit : p + 1 = Offset(n, limit) + i}
  <2>1. 0 \in T
    <3>1. 1 \in 1 .. 0 + 1 /\ 1 \in 1 .. limit /\ 0 + 1 = Offset(1, limit) + 1 /\ 0 \in 0 .. q
      BY <1>3, <2>0
    <3> QED BY <3>1
  <2>2. ASSUME NEW p \in 1 .. q, p - 1 \in T PROVE p \in T
    <3>1. PICK n \in 1 .. (p - 1) + 1, i \in 1 .. limit : (p - 1) + 1 = Offset(n, limit) + i
      BY <2>2
    <3>2. n \in 1 .. p + 1 /\ n \in Nat \ {0} /\ Offset(n, limit) \in Nat /\ p = Offset(n, limit) + i /\ p \in 0 .. q
      BY <1>1, <2>0, <3>1
    <3>3. CASE i < limit
      <4>1. i + 1 \in 1 .. limit /\ p + 1 = Offset(n, limit) + (i + 1)
        BY <3>2, <3>3
      <4> QED BY <3>2, <4>1
    <3>4. CASE ~(i < limit)
      <4>1. n + 1 \in 1 .. p + 1 /\ 1 \in 1 .. limit /\ p + 1 = Offset(n + 1, limit) + 1
        BY <1>3, <3>1, <3>2, <3>4
      <4> QED BY <3>2, <4>1
    <3> QED BY <3>3, <3>4
  <2> HIDE DEF T
  <2>3. \A p \in 1 .. q : p - 1 \in T => p \in T
    BY <2>2
  <2>4. \A p \in 0 .. q : p \in T
    BY <2>0, <2>1, <2>3, UpTo
  <2>5. q \in T
    BY <2>0, <2>4
  <2> QED BY <2>0, <2>5 DEF T
<1> QED BY <1>1, <1>2, <1>4

\* The rows of a thread, and their pages.
RowsOf(registered, keys, thread) == Rows(registered, keys, "", thread)

IsPages(pages, n, list, limit) ==
  /\ DOMAIN pages = 1 .. n + 1
  /\ \A k \in 1 .. n + 1 : IsPart(pages[k], list, limit, Offset(k, limit))

LEMMA PagesAre ==
  ASSUME NEW registered, NEW keys, NEW thread, NEW limit \in Nat \ {0}, NEW asc \in BOOLEAN, NEW S,
         Cardinality(RowsOf(registered, keys, thread)) \in Nat,
         Sorted(RowsOf(registered, keys, thread), asc) \in Seq(S)
  PROVE  IsPages(Pages(registered, keys, thread, limit, asc), Cardinality(RowsOf(registered, keys, thread)),
                 Sorted(RowsOf(registered, keys, thread), asc), limit)
<1> DEFINE N == Cardinality(RowsOf(registered, keys, thread))
           list == Sorted(RowsOf(registered, keys, thread), asc)
           pages == Pages(registered, keys, thread, limit, asc)
<1>1. ~(limit <= 0) /\ N \in Nat /\ list \in Seq(S)
  OBVIOUS
<1>2. pages = [n \in 1 .. N + 1 |-> Page(list, IF limit <= 0 THEN 50 ELSE limit, Offset(n, limit))]
  BY Zenon DEF Pages, RowsOf, ListTasks, Offset
<1> HIDE DEF N, list, pages
<1>3. ASSUME NEW n \in 1 .. N + 1 PROVE IsPart(pages[n], list, limit, Offset(n, limit))
  <2>1. n \in Nat \ {0}
    BY <1>1
  <2>2. Offset(n, limit) \in Nat
    BY <2>1, Offsets
  <2>3. pages[n] = Page(list, limit, Offset(n, limit))
    BY <1>1, <1>2
  <2> QED BY <1>1, <2>2, <2>3, CutIs
<1>4. DOMAIN pages = 1 .. N + 1
  BY <1>2
<1> QED BY <1>3, <1>4 DEF IsPages, N, list, pages

\* Page after page shows every task of the thread, none twice and in order.
THEOREM PagesShowAll ==
  ASSUME NEW registered, NEW keys, NEW thread, NEW limit \in Nat \ {0}, NEW asc \in BOOLEAN,
         IsFiniteSet(DOMAIN registered), IsFiniteSet(DOMAIN keys),
         DOMAIN registered \subseteq Int, DOMAIN keys \subseteq Int
  PROVE  PagesFact(registered, keys, thread, limit, asc)
<1> DEFINE rows == RowsOf(registered, keys, thread)
           N == Cardinality(rows)
           list == Sorted(rows, asc)
           D == 1 .. N + 1
           pages == Pages(registered, keys, thread, limit, asc)
           shown(p) == pages[p[1]][p[2]]
           At(p) == Offset(p[1], limit) + p[2]
<1>1. /\ N \in Nat
      /\ list \in [1 .. N -> rows]
      /\ \A i, j \in 1 .. N : i < j => list[i] # list[j] /\ Before(list[i], list[j], asc)
      /\ \A row \in rows : \E i \in 1 .. N : list[i] = row
  <2> HIDE DEF rows
  <2>1. IsFiniteSet(rows) /\ OfTasks(rows)
    BY RowsAreOfTasks DEF rows, RowsOf
  <2> QED BY <2>1, SortedIs
<1>2. IsPages(pages, N, list, limit)
  <2>1. list \in Seq(rows)
    <3> HIDE DEF N, list, rows
    <3> QED BY <1>1
  <2> QED BY <1>1, <2>1, PagesAre
<1> HIDE DEF N, list, rows, pages
<1>3. list \in Seq(rows) /\ Len(list) = N
  BY <1>1
<1>4. /\ DOMAIN pages = D
      /\ \A n \in D :
           /\ Offset(n, limit) \in Nat
           /\ DOMAIN pages[n] = 1 .. OnPage(N, limit, Offset(n, limit))
           /\ OnPage(N, limit, Offset(n, limit)) \in 0 .. limit
           /\ \A i \in DOMAIN pages[n] :
                /\ Offset(n, limit) + i \in 1 .. N
                /\ pages[n][i] = list[Offset(n, limit) + i]
  <2>1. \A n \in D : n \in Nat \ {0}
    BY <1>1
  <2>2. \A n \in D : Offset(n, limit) \in Nat
    BY <2>1, Offsets
  <2>3. DOMAIN pages = D /\ \A n \in D : IsPart(pages[n], list, limit, Offset(n, limit))
    BY <1>2 DEF IsPages
  <2> HIDE DEF D
  <2> QED BY <1>3, <2>2, <2>3 DEF IsPart
<1>d. \A n : n \in D <=> n \in 1 .. N + 1
  OBVIOUS
<1> HIDE DEF D, pages
<1>5. \A p \in Places(pages) : p = <<p[1], p[2]>> /\ p[1] \in D /\ p[2] \in DOMAIN pages[p[1]]
  BY <1>4 DEF Places
<1>6. \A n \in D : \A i \in DOMAIN pages[n] : <<n, i>> \in Places(pages)
  BY <1>4 DEF Places
<1>7. ASSUME NEW p \in Places(pages)
      PROVE  /\ At(p) \in 1 .. N /\ shown(p) = list[At(p)] /\ shown(p) \in rows
             /\ p[1] \in Nat \ {0} /\ p[2] \in 1 .. limit /\ Offset(p[1], limit) \in Nat
  <2> DEFINE n == p[1]
             i == p[2]
  <2>1. n \in D /\ i \in DOMAIN pages[n]
    BY <1>5
  <2> HIDE DEF n, i
  <2>2. /\ Offset(n, limit) + i \in 1 .. N /\ pages[n][i] = list[Offset(n, limit) + i]
        /\ Offset(n, limit) \in Nat
        /\ i \in 1 .. OnPage(N, limit, Offset(n, limit)) /\ OnPage(N, limit, Offset(n, limit)) \in 0 .. limit
    BY <1>4, <2>1
  <2>3. n \in Nat \ {0} /\ i \in 1 .. limit
    BY <1>1, <1>d, <2>1, <2>2
  <2>4. pages[n][i] \in rows
    BY <1>1, <2>2
  <2> QED BY <2>2, <2>3, <2>4 DEF n, i
<1>8. {shown(p) : p \in Places(pages)} = rows
  <2>1. ASSUME NEW row \in rows PROVE \E p \in Places(pages) : row = shown(p)
    <3>1. PICK j \in 1 .. N : list[j] = row
      BY <1>1
    <3>2. j \in Nat \ {0}
      BY <1>1
    <3>3. PICK n \in 1 .. j, i \in 1 .. limit : j = Offset(n, limit) + i
      BY <3>2, Offsets
    <3>4. n \in D /\ Offset(n, limit) \in Nat
      BY <1>1, <1>d, <1>4, <3>2
    <3>5. i \in DOMAIN pages[n]
      <4> DEFINE o == Offset(n, limit)
      <4>1. o \in Nat /\ j = o + i /\ j \in 1 .. N
        BY <3>3, <3>4
      <4>2. i \in 1 .. OnPage(N, limit, o)
        <5> HIDE DEF o
        <5> QED BY <1>1, <4>1 DEF OnPage
      <4> HIDE DEF o
      <4>3. DOMAIN pages[n] = 1 .. OnPage(N, limit, o)
        BY <1>4, <3>4 DEF o
      <4> QED BY <4>2, <4>3
    <3>6. <<n, i>> \in Places(pages) /\ pages[n][i] = row
      BY <1>4, <1>6, <3>1, <3>3, <3>4, <3>5
    <3> QED BY <3>6
  <2> HIDE DEF shown, At
  <2> QED BY <1>7, <2>1
<1>9. ASSUME NEW p \in Places(pages), NEW q \in Places(pages),
             p[1] < q[1] \/ (p[1] = q[1] /\ p[2] < q[2])
      PROVE  shown(p) # shown(q) /\ Before(shown(p), shown(q), asc)
  <2> DEFINE m == p[1]
             i == p[2]
             n == q[1]
             j == q[2]
  <2>1. /\ m \in Nat \ {0} /\ i \in 1 .. limit /\ Offset(m, limit) \in Nat
        /\ n \in Nat \ {0} /\ j \in 1 .. limit /\ Offset(n, limit) \in Nat
        /\ m < n \/ (m = n /\ i < j)
    BY <1>7, <1>9
  <2>2. Offset(m, limit) + i < Offset(n, limit) + j
    <3> HIDE DEF m, n, i, j
    <3>1. m < n => Offset(m, limit) + limit <= Offset(n, limit)
      BY <2>1, Offsets
    <3> QED BY <2>1, <3>1
  <2>3. At(p) < At(q)
    BY <2>2
  <2> HIDE DEF At, shown
  <2>4. /\ At(p) \in 1 .. N /\ shown(p) = list[At(p)]
        /\ At(q) \in 1 .. N /\ shown(q) = list[At(q)]
    BY <1>7
  <2> QED BY <1>1, <2>3, <2>4
<1> QED BY <1>8, <1>9, Zenon DEF PagesFact, pages, rows, RowsOf

\* What the deletion of a thread relies on: if a task of the thread is running
\* or pending there is one on the first page, unless others that come first fill
\* it.
THEOREM FirstPageShowsBusy ==
  ASSUME NEW registered, NEW keys, NEW thread, NEW limit \in Nat \ {0},
         IsFiniteSet(DOMAIN registered), IsFiniteSet(DOMAIN keys),
         DOMAIN registered \subseteq Int, DOMAIN keys \subseteq Int
  PROVE  FirstPageFact(registered, keys, thread, limit)
<1> DEFINE rows == RowsOf(registered, keys, thread)
           N == Cardinality(rows)
           sorted == Sorted(rows, TRUE)
           list == ListTasks(registered, keys, "", thread, limit, 0, TRUE)
           busy(row) == row.status \in {"running", "pending"}
           P(row) == Priority(row.status)
<1>1. /\ N \in Nat
      /\ sorted \in [1 .. N -> rows]
      /\ \A i, j \in 1 .. N : i < j => sorted[i] # sorted[j] /\ Before(sorted[i], sorted[j], TRUE)
      /\ \A row \in rows : \E i \in 1 .. N : sorted[i] = row
  <2> HIDE DEF rows
  <2>1. IsFiniteSet(rows) /\ OfTasks(rows)
    BY RowsAreOfTasks DEF rows, RowsOf
  <2> QED BY <2>1, SortedIs
<1>2. list = Page(sorted, limit, 0)
  <2>1. ~(limit <= 0)
    OBVIOUS
  <2> QED BY <2>1 DEF ListTasks, RowsOf
<1> HIDE DEF N, sorted, rows, list
<1> DEFINE c == OnPage(N, limit, 0)
<1>3. /\ c \in 0 .. limit /\ Len(list) = c /\ DOMAIN list = 1 .. c
      /\ \A i \in 1 .. c : i \in 1 .. N /\ list[i] = sorted[i]
  <2>1. sorted \in Seq(rows) /\ Len(sorted) = N
    BY <1>1
  <2>2. /\ c \in 0 .. limit /\ Len(list) = c /\ DOMAIN list = 1 .. c
        /\ \A i \in 1 .. c : 0 + i \in 1 .. N /\ list[i] = sorted[0 + i]
    <3>1. IsPart(list, sorted, limit, 0)
      BY <1>2, <2>1, CutIs
    <3> QED BY <2>1, <3>1 DEF IsPart
  <2>3. \A i \in 1 .. c : 0 + i = i
    BY <2>2
  <2> HIDE DEF c
  <2> QED BY <2>2, <2>3
<1>4. c = IF limit < N THEN limit ELSE N
  BY <1>1 DEF OnPage
<1> HIDE DEF c
<1>5. \A row : P(row) \in 0 .. 6 /\ (busy(row) <=> P(row) \in {1, 2})
  BY PriorityIs
<1>6. SUFFICES ASSUME NEW row \in rows, busy(row), \A i \in DOMAIN list : ~busy(list[i])
               PROVE  Len(list) = limit /\ \A i \in DOMAIN list : P(list[i]) = 0
  BY DEF FirstPageFact, rows, list, RowsOf
<1>7. PICK q \in 1 .. N : sorted[q] = row
  BY <1>1
<1>8. limit < N /\ q > limit /\ c = limit
  <2>1. q \notin 1 .. c
    BY <1>3, <1>6, <1>7
  <2> QED BY <1>1, <1>4, <2>1
<1>9. ASSUME NEW i \in DOMAIN list PROVE P(list[i]) = 0
  <2>1. i \in 1 .. N /\ i < q /\ list[i] = sorted[i]
    BY <1>3, <1>8
  <2>2. Before(list[i], row, TRUE)
    BY <1>1, <1>7, <2>1
  <2> HIDE DEF P, busy
  <2>3. P(list[i]) <= P(row)
    <3>1. P(list[i]) # P(row) => P(list[i]) < P(row)
      BY <2>2 DEF Before, P
    <3> QED BY <1>5, <3>1
  <2> QED BY <1>5, <1>6, <2>3
<1> QED BY <1>3, <1>8, <1>9
-----------------------------------------------------------------------------
\* The limiter: its windows and what it has admitted, event by event.
Admitting(events) == [window : SUBSET (1 .. Len(events)), admitted : SUBSET (1 .. Len(events))]

RateLoops(events, limit, interval) ==
  {f \in [0 .. Len(events) -> Admitting(events)] :
     /\ f[0] = [window |-> {}, admitted |-> {}]
     /\ \A n \in 1 .. Len(events) : f[n] = After(f[n - 1], events, n, limit, interval)
     /\ Admissions(events, limit, interval) = f[Len(events)].admitted}

LEMMA AdmissionsRun ==
  ASSUME NEW events \in Seq([now : Nat, sweep : BOOLEAN]), NEW limit \in Nat, NEW interval \in Nat
  PROVE  \E f : f \in RateLoops(events, limit, interval)
<1> DEFINE N == Len(events)
           V == Admitting(events)
           none == [window |-> {}, admitted |-> {}]
           Round(k, x) == After(x, events, k, limit, interval)
           Loop(g) == [k \in 0 .. N |-> IF k = 0 THEN none ELSE Round(k, g[k - 1])]
           v == CHOOSE g : g = Loop(g)
           step == [k \in 1 .. N |-> [x \in V |-> Round(k, x)]]
<1>1. N \in Nat /\ none \in V
  BY DEF Admitting
<1>2. \A k \in 1 .. N, x \in V : Round(k, x) \in V
  <2> TAKE k \in 1 .. N, x \in V
  <2> DEFINE valid == Valid(x.window, events, events[k].now, interval)
  <2>1. x.window \in SUBSET (1 .. N) /\ x.admitted \in SUBSET (1 .. N)
    BY DEF Admitting
  <2>2. valid \in SUBSET (1 .. N) /\ valid \union {k} \in SUBSET (1 .. N)
    BY <2>1 DEF Valid
  <2>3. CASE events[k].sweep
    <3>1. Round(k, x) = [x EXCEPT !.window = valid]
      BY <2>3 DEF After, Cleanup
    <3> HIDE DEF valid
    <3> QED BY <2>2, <3>1 DEF Admitting
  <2>4. CASE ~events[k].sweep
    <3> DEFINE w == Allow(x.window, events, k, limit, interval).window
               a == x.admitted \union (IF Allow(x.window, events, k, limit, interval).ok THEN {k} ELSE {})
    <3>1. Round(k, x) = [window |-> w, admitted |-> a]
      BY <2>4 DEF After
    <3>2. w = valid \/ w = valid \union {k}
      BY DEF Allow
    <3>3. a \in SUBSET (1 .. N)
      BY <2>1
    <3>4. w \in SUBSET (1 .. N)
      BY <2>2, <3>2
    <3> HIDE DEF w, a, valid, Round
    <3> QED BY <3>1, <3>3, <3>4 DEF Admitting
  <2> QED BY <2>3, <2>4
<1> HIDE DEF N, V, none, Round
<1>3. step \in [1 .. N -> [V -> V]]
  BY <1>2
<1>4. PICK f : f \in Loops(V, none, N, step)
  <2> HIDE DEF step
  <2> QED BY <1>1, <1>3, LoopRuns
<1>5. \A k \in 1 .. N : f[k] = Round(k, f[k - 1])
  <2>1. \A k \in 1 .. N : k - 1 \in 0 .. N
    BY <1>1
  <2> QED BY <1>4, <2>1 DEF Loops
<1>6. f = Loop(f)
  BY <1>1, <1>4, <1>5 DEF Loops
<1>7. v = Loop(v)
  <2> HIDE DEF Loop
  <2> QED BY <1>6
<1>8. Follows(v, V, none, N, step)
  <2> HIDE DEF v
  <2>1. \A k \in 0 .. N : v[k] = IF k = 0 THEN none ELSE Round(k, v[k - 1])
    BY <1>7
  <2> QED BY <1>1, <2>1 DEF Follows
<1>9. v[N] = f[N]
  <2> HIDE DEF v, step
  <2>1. \A k \in 0 .. N : v[k] = f[k]
    BY <1>1, <1>4, <1>8, LoopUnique
  <2> QED BY <1>1, <2>1
<1>10. Admissions(events, limit, interval) = v[N].admitted
  BY DEF Admissions, N, Round, none
<1> HIDE DEF v
<1>11. /\ f \in [0 .. N -> V] /\ f[0] = none
       /\ \A k \in 1 .. N : f[k] = Round(k, f[k - 1])
  BY <1>4, <1>5 DEF Loops
<1> QED BY <1>9, <1>10, <1>11 DEF RateLoops, N, V, Round, none

\* The window has what counts of the admitted requests: what it lacks is out of
\* the interval for good.
Current(state, events, n, interval) ==
  /\ state.admitted \subseteq 1 .. n
  /\ state.window \subseteq state.admitted
  /\ \A k \in state.admitted : events[k].now + interval > events[n].now => k \in state.window

\* What an event finds of the admitted requests.
Fresh(events, admitted, n, interval) == {k \in admitted : events[k].now + interval > events[n].now}

\* A request is admitted exactly if it finds fewer than the limit.
Admits(f, events, limit, interval) ==
  /\ f[0].admitted = {}
  /\ \A n \in 1 .. Len(events) :
       /\ f[n].admitted \subseteq 1 .. n
       /\ f[n].admitted = f[n - 1].admitted \/ f[n].admitted = f[n - 1].admitted \union {n}
       /\ n \in f[n].admitted <=>
            ~events[n].sweep /\ Cardinality(Fresh(events, f[n - 1].admitted, n, interval)) < limit

LEMMA WindowIs ==
  ASSUME NEW events \in Seq([now : Nat, sweep : BOOLEAN]), NEW limit \in Nat, NEW interval \in Nat,
         \A m, n \in DOMAIN events : m <= n => events[m].now <= events[n].now,
         NEW f \in RateLoops(events, limit, interval)
  PROVE  Admits(f, events, limit, interval)
<1> DEFINE N == Len(events)
<1>1. /\ N \in Nat
      /\ f \in [0 .. N -> Admitting(events)]
      /\ f[0] = [window |-> {}, admitted |-> {}]
      /\ \A n \in 1 .. N : f[n] = After(f[n - 1], events, n, limit, interval)
  BY DEF RateLoops
<1>2. /\ \A n \in 1 .. N : events[n].now \in Nat /\ events[n].sweep \in BOOLEAN
      /\ \A m, n \in 1 .. N : m <= n => events[m].now <= events[n].now
  <2>1. \A n \in 1 .. N : events[n] \in [now : Nat, sweep : BOOLEAN]
    BY ElementOfSeq
  <2>2. DOMAIN events = 1 .. N
    OBVIOUS
  <2> HIDE DEF N
  <2> QED BY <2>1, <2>2
<1>3. \A n \in 0 .. N : f[n].window \in SUBSET (1 .. N) /\ f[n].admitted \in SUBSET (1 .. N)
  BY <1>1 DEF Admitting
<1> HIDE DEF N
<1>4. ASSUME NEW n \in 1 .. N, f[n - 1].admitted \subseteq 1 .. n - 1, f[n - 1].window \subseteq f[n - 1].admitted,
             n = 1 \/ Current(f[n - 1], events, n - 1, interval)
      PROVE  /\ Current(f[n], events, n, interval)
             /\ f[n].admitted = f[n - 1].admitted \/ f[n].admitted = f[n - 1].admitted \union {n}
             /\ n \in f[n].admitted <=> ~events[n].sweep /\ Cardinality(Fresh(events, f[n - 1].admitted, n, interval)) < limit
  <2> DEFINE W == f[n - 1].window
             A == f[n - 1].admitted
             valid == Valid(W, events, events[n].now, interval)
  <2>1. n - 1 \in 0 .. N /\ n \notin A /\ IsFiniteSet(A)
    <3>1. n - 1 \in 0 .. N /\ n \notin A
      BY <1>1, <1>4
    <3>2. IsFiniteSet(1 .. n - 1)
      BY FS_Interval
    <3> QED BY <1>4, <3>1, <3>2, FS_Subset
  <2>2. valid = Fresh(events, f[n - 1].admitted, n, interval)
    <3>1. CASE n = 1
      <4>1. A = {} /\ W = {}
        BY <1>1, <3>1
      <4> QED BY <4>1 DEF Valid, Fresh
    <3>2. CASE n # 1
      <4>1. Current(f[n - 1], events, n - 1, interval)
        BY <1>4, <3>2
      <4>2. n - 1 \in 1 .. N /\ events[n - 1].now <= events[n].now
        BY <1>1, <1>2, <3>2
      <4>3. ASSUME NEW k \in A, events[k].now + interval > events[n].now PROVE k \in W
        <5>1. k \in 1 .. N
          BY <1>3, <2>1
        <5>2. events[k].now + interval > events[n - 1].now
          <6> DEFINE t == events[k].now
                     u == events[n].now
                     w == events[n - 1].now
          <6>1. t \in Nat /\ u \in Nat /\ w \in Nat /\ w <= u /\ t + interval > u
            BY <1>2, <4>2, <4>3, <5>1
          <6> HIDE DEF t, u, w
          <6>2. t + interval > w
            BY <6>1
          <6> QED BY <6>2 DEF t, w
        <5> QED BY <4>1, <5>2 DEF Current
      <4> QED BY <1>4, <4>3 DEF Valid, Fresh
    <3> QED BY <3>1, <3>2
  <2>3. f[n] = After(f[n - 1], events, n, limit, interval)
    BY <1>1
  <2>4. f[n - 1] \in Admitting(events)
    BY <1>1, <2>1
  <2>5. Cardinality(valid) \in Nat
    <3>1. IsFiniteSet(valid)
      BY <2>1, <2>2, FS_Subset DEF Fresh
    <3> QED BY <3>1, FS_CardinalityType
  <2>6. valid \subseteq A /\ A \subseteq 1 .. n
    BY <1>4, <2>2 DEF Fresh
  <2>7. \A k \in A : events[k].now + interval > events[n].now => k \in valid
    BY <2>2 DEF Fresh
  <2> HIDE DEF valid
  <2>8. CASE events[n].sweep
    <3>1. f[n] = [f[n - 1] EXCEPT !.window = valid]
      BY <2>3, <2>8 DEF After, Cleanup, valid
    <3>2. f[n].window = valid /\ f[n].admitted = A
      BY <2>4, <3>1 DEF Admitting
    <3> QED BY <2>1, <2>6, <2>7, <2>8, <3>2 DEF Current
  <2>9. CASE ~events[n].sweep
    <3> DEFINE answer == Allow(W, events, n, limit, interval)
    <3>1. /\ f[n].window = answer.window
          /\ f[n].admitted = A \union (IF answer.ok THEN {n} ELSE {})
      BY <2>3, <2>9 DEF After
    <3>2. answer = IF Cardinality(valid) >= limit THEN [ok |-> FALSE, window |-> valid]
                                                  ELSE [ok |-> TRUE, window |-> valid \union {n}]
      BY DEF Allow, valid
    <3> HIDE DEF answer
    <3>3. CASE Cardinality(valid) >= limit
      <4>1. f[n].window = valid /\ f[n].admitted = A
        BY <3>1, <3>2, <3>3
      <4>2. ~(Cardinality(valid) < limit)
        BY <2>5, <3>3
      <4> QED BY <2>1, <2>2, <2>6, <2>7, <4>1, <4>2 DEF Current
    <3>4. CASE ~(Cardinality(valid) >= limit)
      <4>1. f[n].window = valid \union {n} /\ f[n].admitted = A \union {n}
        BY <3>1, <3>2, <3>4
      <4>2. Cardinality(valid) < limit
        BY <2>5, <3>4
      <4> QED BY <2>1, <2>2, <2>6, <2>7, <2>9, <4>1, <4>2 DEF Current
    <3> QED BY <3>3, <3>4
  <2> QED BY <2>8, <2>9
<1> DEFINE T == {n \in 0 .. N : /\ f[n].admitted \subseteq 1 .. n /\ f[n].window \subseteq f[n].admitted
                                /\ n = 0 \/ Current(f[n], events, n, interval)}
<1>5. 0 \in T
  BY <1>1
<1>6. ASSUME NEW n \in 1 .. N, n - 1 \in T PROVE n \in T
  <2>1. n = 1 \/ Current(f[n - 1], events, n - 1, interval)
    BY <1>6
  <2>2. Current(f[n], events, n, interval)
    BY <1>4, <1>6, <2>1
  <2> QED BY <1>1, <2>2 DEF Current
<1>7. \A n \in 0 .. N : n \in T
  <2> HIDE DEF T
  <2>1. \A n \in 1 .. N : n - 1 \in T => n \in T
    BY <1>6
  <2> QED BY <1>1, <1>5, <2>1, UpTo
<1>8. ASSUME NEW n \in 1 .. N
      PROVE  /\ f[n].admitted \subseteq 1 .. n
             /\ f[n].admitted = f[n - 1].admitted \/ f[n].admitted = f[n - 1].admitted \union {n}
             /\ n \in f[n].admitted <=> ~events[n].sweep /\ Cardinality(Fresh(events, f[n - 1].admitted, n, interval)) < limit
  <2>1. n - 1 \in 0 .. N /\ n \in 0 .. N /\ (n = 1 \/ n - 1 # 0)
    BY <1>1
  <2>2. n - 1 \in T /\ n \in T
    BY <1>7, <2>1
  <2> QED BY <1>4, <2>1, <2>2
<1> QED BY <1>1, <1>8 DEF Admits, N

\* No interval holds more admitted requests than the limit, and a request is
\* refused only when the interval before it is full (allow, cleanup).
THEOREM LimiterIsRight ==
  ASSUME NEW events \in Seq([now : Nat, sweep : BOOLEAN]), NEW limit \in Nat, NEW interval \in Nat,
         \A m, n \in DOMAIN events : m <= n => events[m].now <= events[n].now
  PROVE  RateFact(events, limit, interval)
<1> DEFINE N == Len(events)
           admitted == Admissions(events, limit, interval)
           recent(n) == Recent(events, admitted, n, interval)
           found(n) == Found(events, admitted, n, interval)
<1>1. /\ N \in Nat /\ DOMAIN events = 1 .. N
      /\ \A n \in 1 .. N : events[n].now \in Nat
  <2>1. \A n \in 1 .. N : events[n] \in [now : Nat, sweep : BOOLEAN]
    BY ElementOfSeq
  <2> QED BY <2>1
<1>2. PICK f : f \in RateLoops(events, limit, interval)
  BY AdmissionsRun
<1> DEFINE A(n) == f[n].admitted
           fresh(n) == Fresh(events, A(n - 1), n, interval)
<1>3. /\ admitted = A(N) /\ A(0) = {}
      /\ \A n \in 1 .. N : /\ A(n) \subseteq 1 .. n
                           /\ A(n) = A(n - 1) \/ A(n) = A(n - 1) \union {n}
                           /\ n \in A(n) <=> ~events[n].sweep /\ Cardinality(fresh(n)) < limit
  <2>1. Admits(f, events, limit, interval)
    BY <1>2, WindowIs
  <2>2. admitted = A(N)
    BY <1>2 DEF RateLoops
  <2> QED BY <2>1, <2>2 DEF Admits
<1> HIDE DEF A, N, admitted, recent, found, fresh
<1>4. \A n \in 0 .. N : A(n) \subseteq 1 .. n
  <2> TAKE n \in 0 .. N
  <2>1. n = 0 \/ n \in 1 .. N
    BY <1>1
  <2> QED BY <1>3, <2>1
<1> DEFINE Earlier(n) == \A m \in 0 .. n : {k \in A(n) : k <= m} = A(m)
           T == {n \in 0 .. N : Earlier(n)}
<1>5. \A m \in 0 .. N : {k \in admitted : k <= m} = A(m)
  <2>1. 0 \in T
    BY <1>1, <1>3
  <2>2. ASSUME NEW n \in 1 .. N, n - 1 \in T PROVE n \in T
    <3>1. n \in 0 .. N /\ n - 1 \in 0 .. N
      BY <1>1
    <3>2. ASSUME NEW m \in 0 .. n PROVE {k \in A(n) : k <= m} = A(m)
      <4>1. CASE m = n
        <5>1. \A k \in A(n) : k <= n
          BY <1>3
        <5> QED BY <4>1, <5>1
      <4>2. CASE m # n
        <5>1. m \in 0 .. n - 1 /\ ~(n <= m)
          BY <3>1, <4>2
        <5>2. {k \in A(n - 1) : k <= m} = A(m)
          BY <2>2, <5>1
        <5>3. A(n) = A(n - 1) \/ A(n) = A(n - 1) \union {n}
          BY <1>3
        <5>4. {k \in A(n) : k <= m} = {k \in A(n - 1) : k <= m}
          BY <5>1, <5>3
        <5> QED BY <5>2, <5>4
      <4> QED BY <4>1, <4>2
    <3> QED BY <3>1, <3>2
  <2> HIDE DEF T
  <2>3. \A n \in 1 .. N : n - 1 \in T => n \in T
    BY <2>2
  <2>4. \A n \in 0 .. N : n \in T
    BY <1>1, <2>1, <2>3, UpTo
  <2>5. N \in 0 .. N
    BY <1>1
  <2>6. Earlier(N)
    BY <2>4, <2>5 DEF T
  <2> QED BY <1>3, <2>6
<1> HIDE DEF Earlier, T
<1>6. ASSUME NEW n \in 1 .. N
      PROVE  /\ n \in admitted <=> n \in A(n)
             /\ found(n) = fresh(n)
             /\ recent(n) = found(n) \/ (n \in admitted /\ recent(n) = found(n) \union {n})
             /\ n \notin found(n)
             /\ IsFiniteSet(found(n)) /\ IsFiniteSet(recent(n))
  <2>1. n \in 0 .. N /\ n - 1 \in 0 .. N
    BY <1>1
  <2>2. {k \in admitted : k <= n} = A(n) /\ {k \in admitted : k <= n - 1} = A(n - 1)
    BY <1>5, <2>1
  <2>3. n \in admitted <=> n \in A(n)
    BY <2>2
  <2>4. \A k \in admitted : (k <= n /\ k # n) <=> k <= n - 1
    <3>1. \A k \in admitted : k \in Int
      BY <1>1, <1>3, <1>4
    <3> QED BY <3>1
  <2>5. found(n) = fresh(n)
    BY <2>2, <2>4 DEF found, fresh, Found, Recent, Fresh
  <2>6. recent(n) \subseteq A(n) /\ found(n) = recent(n) \ {n}
    BY <2>2 DEF found, recent, Found, Recent
  <2>7. IsFiniteSet(A(n))
    <3>0. 1 \in Int /\ n \in Int
      BY <1>1
    <3>1. IsFiniteSet(1 .. n)
      BY <3>0, FS_Interval
    <3> QED BY <1>4, <2>1, <3>1, FS_Subset
  <2>8. IsFiniteSet(recent(n)) /\ IsFiniteSet(found(n))
    BY <2>6, <2>7, FS_Subset
  <2> QED BY <2>3, <2>5, <2>6, <2>8
<1>7. ASSUME NEW n \in 1 .. N
      PROVE  /\ Cardinality(found(n)) \in Nat
             /\ n \in admitted <=> ~events[n].sweep /\ Cardinality(found(n)) < limit
  BY <1>3, <1>6, FS_CardinalityType
<1> DEFINE U == {n \in 0 .. N : n = 0 \/ Cardinality(recent(n)) <= limit}
<1>8. \A n \in 0 .. N : n \in U
  <2>1. 0 \in U
    BY <1>1
  <2>2. ASSUME NEW n \in 1 .. N, n - 1 \in U PROVE n \in U
    <3>1. CASE n \in admitted
      <4>1. Cardinality(found(n)) < limit /\ Cardinality(found(n)) \in Nat
        BY <1>7, <3>1
      <4>2. Cardinality(found(n) \union {n}) = Cardinality(found(n)) + 1
        BY <1>6, FS_AddElement
      <4>3. Cardinality(recent(n)) = Cardinality(found(n)) \/ Cardinality(recent(n)) = Cardinality(found(n)) + 1
        BY <1>6, <4>2
      <4>4. Cardinality(recent(n)) <= limit
        BY <4>1, <4>3
      <4> QED BY <4>4
    <3>2. CASE n \notin admitted
      <4>1. recent(n) = fresh(n)
        BY <1>6, <3>2
      <4>2. CASE n = 1
        <5>1. recent(n) = {}
          BY <1>3, <4>1, <4>2 DEF fresh, Fresh
        <5>2. Cardinality(recent(n)) = 0
          BY <5>1, FS_EmptySet
        <5>3. n \in 0 .. N /\ 0 <= limit
          BY <1>1
        <5> QED BY <5>2, <5>3
      <4>3. CASE n # 1
        <5>1. n - 1 \in 1 .. N /\ events[n - 1].now <= events[n].now
          BY <1>1, <4>3
        <5>2. A(n - 1) = {k \in admitted : k <= n - 1}
          BY <1>5, <5>1
        <5>3. ASSUME NEW k \in fresh(n) PROVE k \in recent(n - 1)
          <6> DEFINE t == events[k].now
                     u == events[n].now
                     w == events[n - 1].now
          <6>1. k \in A(n - 1) /\ t + interval > u
            BY <5>3 DEF fresh, Fresh
          <6>2. k \in admitted /\ k <= n - 1
            BY <5>2, <6>1
          <6>3. t \in Nat /\ u \in Nat /\ w \in Nat /\ w <= u
            <7>1. k \in 1 .. N
              BY <1>3, <1>4, <1>1, <6>2
            <7> QED BY <1>1, <5>1, <7>1
          <6> HIDE DEF t, u, w
          <6>4. t + interval > w
            BY <6>1, <6>3
          <6> QED BY <6>2, <6>4 DEF recent, Recent, t, w
        <5>4. fresh(n) \subseteq recent(n - 1) /\ IsFiniteSet(recent(n - 1))
          BY <1>6, <5>1, <5>3
        <5>5. IsFiniteSet(fresh(n)) /\ Cardinality(fresh(n)) <= Cardinality(recent(n - 1))
          BY <5>4, FS_Subset
        <5>6. Cardinality(fresh(n)) \in Nat /\ Cardinality(recent(n - 1)) \in Nat
          BY <5>4, <5>5, FS_CardinalityType
        <5>7. Cardinality(recent(n - 1)) <= limit
          BY <2>2, <5>1
        <5>8. Cardinality(recent(n)) <= limit
          BY <4>1, <5>5, <5>6, <5>7
        <5> QED BY <5>8
      <4> QED BY <4>2, <4>3
    <3> QED BY <3>1, <3>2
  <2> HIDE DEF U
  <2>3. \A n \in 1 .. N : n - 1 \in U => n \in U
    BY <2>2
  <2> QED BY <1>1, <2>1, <2>3, UpTo
<1>9. ASSUME NEW n \in 1 .. N PROVE Cardinality(recent(n)) <= limit
  <2>1. n \in 0 .. N /\ n # 0
    BY <1>1
  <2> QED BY <1>8, <2>1
<1> QED BY <1>1, <1>7, <1>9 DEF RateFact, admitted, recent, found
-----------------------------------------------------------------------------
\* How usage adds up.
LEMMA PlusIs ==
  /\ NoTokens \in Usage
  /\ \A u, v \in Usage : Plus(u, v) \in Usage /\ Plus(u, v) = Plus(v, u)
  /\ \A u \in Usage : Plus(NoTokens, u) = u /\ Written(NoTokens, u) = u
  /\ \A u, v, w \in Usage : Plus(Plus(u, v), w) = Plus(u, Plus(v, w))
  /\ \A u, v \in Usage : Written(u, v) \in Usage
<1>1. NoTokens \in Usage
  BY DEF NoTokens, Usage
<1>2. ASSUME NEW u \in Usage, NEW v \in Usage PROVE Plus(u, v) \in Usage /\ Plus(u, v) = Plus(v, u)
  BY DEF Usage, Plus
<1>3. ASSUME NEW u \in Usage PROVE Plus(NoTokens, u) = u /\ Written(NoTokens, u) = u
  <2>1. u = [input |-> u.input, output |-> u.output] /\ u.input \in Nat /\ u.output \in Nat
    BY DEF Usage
  <2>2. 0 + u.input = u.input /\ 0 + u.output = u.output
    BY <2>1
  <2>3. /\ (IF u.input > 0 THEN u.input ELSE 0) = u.input
        /\ (IF u.output > 0 THEN u.output ELSE 0) = u.output
    BY <2>1
  <2>4. Plus(NoTokens, u) = [input |-> 0 + u.input, output |-> 0 + u.output]
    BY DEF Plus, NoTokens
  <2>5. Written(NoTokens, u) = [input |-> IF u.input > 0 THEN u.input ELSE 0,
                                output |-> IF u.output > 0 THEN u.output ELSE 0]
    BY DEF Written, NoTokens
  <2> QED BY <2>1, <2>2, <2>3, <2>4, <2>5
<1>4. ASSUME NEW u \in Usage, NEW v \in Usage, NEW w \in Usage
      PROVE  Plus(Plus(u, v), w) = Plus(u, Plus(v, w))
  BY DEF Usage, Plus
<1>5. ASSUME NEW u \in Usage, NEW v \in Usage PROVE Written(u, v) \in Usage
  BY DEF Usage, Written
<1> QED BY <1>1, <1>2, <1>3, <1>4, <1>5

\* The sum over a list goes through its partial sums.
Sums(list, counter) ==
  {f \in [0 .. Len(list) -> Usage] :
     /\ f[0] = NoTokens
     /\ \A n \in 1 .. Len(list) : f[n] = Plus(f[n - 1], counter[list[n]])
     /\ Total(list, counter) = f[Len(list)]}

LEMMA SumsAre ==
  ASSUME NEW S, NEW list \in Seq(S), NEW counter, \A n \in 1 .. Len(list) : counter[list[n]] \in Usage
  PROVE  \E f : f \in Sums(list, counter)
<1> DEFINE N == Len(list)
           Round(k, x) == Plus(x, counter[list[k]])
           Loop(g) == [k \in 0 .. N |-> IF k = 0 THEN NoTokens ELSE Round(k, g[k - 1])]
           v == CHOOSE g : g = Loop(g)
           step == [k \in 1 .. N |-> [x \in Usage |-> Round(k, x)]]
<1>1. N \in Nat /\ NoTokens \in Usage
  BY PlusIs
<1>2. \A k \in 1 .. N, x \in Usage : Round(k, x) \in Usage
  BY PlusIs
<1> HIDE DEF N, Round
<1>3. step \in [1 .. N -> [Usage -> Usage]]
  BY <1>2
<1>4. PICK f : f \in Loops(Usage, NoTokens, N, step)
  <2> HIDE DEF step
  <2> QED BY <1>1, <1>3, LoopRuns
<1>5. /\ f \in [0 .. N -> Usage] /\ f[0] = NoTokens
      /\ \A k \in 1 .. N : f[k] = Round(k, f[k - 1])
  <2>1. \A k \in 1 .. N : k - 1 \in 0 .. N
    BY <1>1
  <2> QED BY <1>4, <2>1 DEF Loops
<1>6. f = Loop(f)
  BY <1>1, <1>5
<1>7. v = Loop(v)
  <2> HIDE DEF Loop
  <2> QED BY <1>6
<1>8. Follows(v, Usage, NoTokens, N, step)
  <2> HIDE DEF v
  <2>1. \A k \in 0 .. N : v[k] = IF k = 0 THEN NoTokens ELSE Round(k, v[k - 1])
    BY <1>7
  <2> QED BY <1>1, <2>1 DEF Follows
<1>9. v[N] = f[N]
  <2> HIDE DEF v, step
  <2>1. \A k \in 0 .. N : v[k] = f[k]
    BY <1>1, <1>4, <1>8, LoopUnique
  <2> QED BY <1>1, <2>1
<1>10. Total(list, counter) = v[N]
  BY DEF Total, N, Round
<1> HIDE DEF v
<1> QED BY <1>5, <1>9, <1>10 DEF Sums, N, Round

\* The sum over counters that are all 0, and over counters of which one grows.
LEMMA TotalOfNone ==
  ASSUME NEW S, NEW list \in Seq(S), NEW counter, \A n \in 1 .. Len(list) : counter[list[n]] = NoTokens
  PROVE  Total(list, counter) = NoTokens
<1> DEFINE N == Len(list)
<1>1. PICK f : f \in Sums(list, counter)
  BY SumsAre, PlusIs
<1>2. /\ N \in Nat
      /\ f[0] = NoTokens
      /\ \A n \in 1 .. N : f[n] = Plus(f[n - 1], NoTokens)
      /\ Total(list, counter) = f[N]
  BY <1>1 DEF Sums
<1> HIDE DEF N
<1> DEFINE T == {n \in 0 .. N : f[n] = NoTokens}
<1>3. 0 \in T
  BY <1>2
<1>4. ASSUME NEW n \in 1 .. N, n - 1 \in T PROVE n \in T
  BY <1>2, <1>4, PlusIs
<1> HIDE DEF T
<1>5. \A n \in 1 .. N : n - 1 \in T => n \in T
  BY <1>4
<1>6. \A n \in 0 .. N : n \in T
  BY <1>2, <1>3, <1>5, UpTo
<1> QED BY <1>2, <1>6 DEF T

Once(list) == \A i, j \in DOMAIN list : list[i] = list[j] => i = j

Grown(counter, name, used) == [counter EXCEPT ![name] = Plus(@, used)]

LEMMA TotalGrows ==
  ASSUME NEW S, NEW list \in Seq(S), Once(list), NEW counter \in [Names(list) -> Usage],
         NEW name \in Names(list), NEW used \in Usage
  PROVE  Total(list, Grown(counter, name, used)) = Plus(Total(list, counter), used)
<1> DEFINE N == Len(list)
           after == [counter EXCEPT ![name] = Plus(@, used)]
<1>1. N \in Nat /\ DOMAIN list = 1 .. N
  OBVIOUS
<1>2. \A n \in 1 .. N : list[n] \in Names(list) /\ counter[list[n]] \in Usage
  BY DEF Names
<1>3. after \in [Names(list) -> Usage]
  BY PlusIs
<1>4. \A n \in 1 .. N : after[list[n]] \in Usage
  <2> HIDE DEF after
  <2> QED BY <1>2, <1>3
<1>5. PICK f : f \in Sums(list, counter)
  BY <1>2, SumsAre
<1>6. PICK g : g \in Sums(list, after)
  <2> HIDE DEF after
  <2> QED BY <1>4, SumsAre
<1>7. PICK p \in 1 .. N : list[p] = name
  BY <1>1 DEF Names
<1>8. \A n \in 1 .. N : n # p => list[n] # name
  BY <1>1, <1>7 DEF Once
<1>9. \A n \in 1 .. N : after[list[n]] = IF n = p THEN Plus(counter[list[n]], used) ELSE counter[list[n]]
  BY <1>2, <1>7, <1>8
<1> HIDE DEF after
<1>10. /\ f \in [0 .. N -> Usage] /\ f[0] = NoTokens
       /\ \A n \in 1 .. N : f[n] = Plus(f[n - 1], counter[list[n]])
       /\ Total(list, counter) = f[N]
  BY <1>5 DEF Sums
<1>11. /\ g[0] = NoTokens
       /\ \A n \in 1 .. N : g[n] = Plus(g[n - 1], after[list[n]])
       /\ Total(list, after) = g[N]
  BY <1>6 DEF Sums
<1> HIDE DEF N
<1> DEFINE T == {n \in 0 .. N : g[n] = IF n < p THEN f[n] ELSE Plus(f[n], used)}
<1>12. 0 \in T
  BY <1>1, <1>10, <1>11
<1>13. ASSUME NEW n \in 1 .. N, n - 1 \in T PROVE n \in T
  <2> DEFINE x == f[n - 1]
             y == counter[list[n]]
  <2>1. x \in Usage /\ y \in Usage /\ n \in 0 .. N /\ n - 1 \in 0 .. N
    BY <1>1, <1>2, <1>10
  <2>2. /\ f[n] = Plus(x, y) /\ g[n] = Plus(g[n - 1], after[list[n]])
        /\ g[n - 1] = IF n - 1 < p THEN x ELSE Plus(x, used)
        /\ after[list[n]] = IF n = p THEN Plus(y, used) ELSE y
    BY <1>9, <1>10, <1>11, <1>13
  <2> HIDE DEF x, y, T
  <2>3. CASE n < p
    <3>1. n - 1 < p /\ n # p
      BY <1>1, <2>3
    <3>2. g[n] = f[n]
      BY <2>2, <3>1
    <3> QED BY <2>1, <2>3, <3>2 DEF T
  <2>4. CASE n = p
    <3>1. n - 1 < p /\ ~(n < p)
      BY <1>1, <2>4
    <3>2. g[n] = Plus(x, Plus(y, used))
      BY <2>2, <2>4, <3>1
    <3>3. Plus(x, Plus(y, used)) = Plus(Plus(x, y), used)
      BY <2>1, PlusIs
    <3>4. g[n] = Plus(f[n], used)
      BY <2>2, <3>2, <3>3
    <3> QED BY <2>1, <3>1, <3>4 DEF T
  <2>5. CASE ~(n < p) /\ n # p
    <3>1. ~(n - 1 < p)
      BY <1>1, <2>5
    <3>2. g[n] = Plus(Plus(x, used), y)
      BY <2>2, <2>5, <3>1
    <3>3. Plus(Plus(x, used), y) = Plus(x, Plus(used, y))
      BY <2>1, PlusIs
    <3>4. Plus(used, y) = Plus(y, used)
      BY <2>1, PlusIs
    <3>5. Plus(x, Plus(y, used)) = Plus(Plus(x, y), used)
      BY <2>1, PlusIs
    <3>6. g[n] = Plus(f[n], used)
      BY <2>2, <3>2, <3>3, <3>4, <3>5
    <3> QED BY <2>1, <2>5, <3>6 DEF T
  <2> QED BY <2>3, <2>4, <2>5
<1> HIDE DEF T
<1>14. \A n \in 1 .. N : n - 1 \in T => n \in T
  BY <1>13
<1>15. \A n \in 0 .. N : n \in T
  BY <1>1, <1>12, <1>14, UpTo
<1>16. N \in 0 .. N /\ ~(N < p)
  BY <1>1
<1>17. g[N] = Plus(f[N], used)
  BY <1>15, <1>16 DEF T
<1> QED BY <1>10, <1>11, <1>17 DEF after, Grown
-----------------------------------------------------------------------------
\* What the output of a run says it used goes through what each event adds.
LEMMA UsedIsUsage ==
  ASSUME NEW run, run.output \in Seq(OutputEvent)
  PROVE  Used(run) \in Usage
<1> DEFINE N == Len(run.output)
           Round(k, x) == Reads(run, x, run.output[k])
           Loop(g) == [k \in 0 .. N |-> IF k = 0 THEN NoTokens ELSE Round(k, g[k - 1])]
           v == CHOOSE g : g = Loop(g)
           step == [k \in 1 .. N |-> [x \in Usage |-> Round(k, x)]]
<1>1. N \in Nat /\ NoTokens \in Usage
  BY PlusIs
<1>2. ASSUME NEW k \in 1 .. N, NEW x \in Usage PROVE Round(k, x) \in Usage
  <2> DEFINE event == run.output[k]
  <2>1. event \in OutputEvent
    BY <1>2, ElementOfSeq
  <2> HIDE DEF event
  <2>2. event.usage \in Usage /\ Plus(x, event.usage) \in Usage
    BY <1>2, <2>1, PlusIs DEF OutputEvent
  <2>3. /\ ClaudeReads(x, event) \in Usage /\ CodexReads(x, event) \in Usage
        /\ OpenCodeReads(x, event) \in Usage /\ StreamReads(x, event) \in Usage
    BY <1>2, <2>2 DEF ClaudeReads, CodexReads, OpenCodeReads, StreamReads
  <2>4. TaskReads(run.agent, x, event) \in Usage
    BY <1>2, <2>3 DEF TaskReads
  <2>5. Reads(run, x, event) \in Usage
    BY <2>3, <2>4 DEF Reads
  <2> QED BY <2>5 DEF event
<1> HIDE DEF N, Round
<1>3. step \in [1 .. N -> [Usage -> Usage]]
  BY <1>2
<1>4. PICK f : f \in Loops(Usage, NoTokens, N, step)
  <2> HIDE DEF step
  <2> QED BY <1>1, <1>3, LoopRuns
<1>5. /\ f \in [0 .. N -> Usage] /\ f[0] = NoTokens
      /\ \A k \in 1 .. N : f[k] = Round(k, f[k - 1])
  <2>1. \A k \in 1 .. N : k - 1 \in 0 .. N
    BY <1>1
  <2> QED BY <1>4, <2>1 DEF Loops
<1>6. f = Loop(f)
  BY <1>1, <1>5
<1>7. v = Loop(v)
  <2> HIDE DEF Loop
  <2> QED BY <1>6
<1>8. Follows(v, Usage, NoTokens, N, step)
  <2> HIDE DEF v
  <2>1. \A k \in 0 .. N : v[k] = IF k = 0 THEN NoTokens ELSE Round(k, v[k - 1])
    BY <1>7
  <2> QED BY <1>1, <2>1 DEF Follows
<1>9. \A k \in 0 .. N : v[k] = f[k]
  <2> HIDE DEF v, step
  <2> QED BY <1>1, <1>4, <1>8, LoopUnique
<1>10. Used(run) = v[N]
  BY DEF Used, N, Round
<1> HIDE DEF v, Loop, step
<1>11. v[N] = f[N] /\ f[N] \in Usage
  BY <1>1, <1>5, <1>9
<1> QED BY <1>10, <1>11

LEMMA TotalIsUsage ==
  ASSUME NEW S, NEW list \in Seq(S), NEW counter \in [Names(list) -> Usage]
  PROVE  Total(list, counter) \in Usage
<1>1. Len(list) \in Nat /\ DOMAIN list = 1 .. Len(list)
  OBVIOUS
<1>2. \A n \in 1 .. Len(list) : counter[list[n]] \in Usage
  BY DEF Names
<1>3. PICK f : f \in Sums(list, counter)
  BY <1>2, SumsAre
<1>4. f \in [0 .. Len(list) -> Usage] /\ Total(list, counter) = f[Len(list)]
  BY <1>3 DEF Sums
<1> QED BY <1>1, <1>4

\* The counters, and a run they can count.
Books(agents, tasks, threads) ==
  [total : Usage, runs : Nat, agent : [Names(agents) -> Usage],
   task : [Names(tasks) -> Usage], thread : [Names(threads) -> Usage]]

IsRun(run, agents, tasks, threads) ==
  /\ Used(run) \in Usage /\ run.agent \in Names(agents)
  /\ IF run.what = "task" THEN run.id \in Names(tasks) ELSE run.id \in Names(threads)

\* What a run leaves in the counters.
Persisted(c, d, run) ==
  /\ d.runs = c.runs + 1
  /\ d.total = Plus(c.total, Used(run))
  /\ d.agent = Grown(c.agent, run.agent, Used(run))
  /\ IF run.what = "task"
     THEN d.task = [c.task EXCEPT ![run.id] = Written(@, Used(run))] /\ d.thread = c.thread
     ELSE d.task = c.task /\ d.thread = Grown(c.thread, run.id, Used(run))

LEMMA PersistIs ==
  ASSUME NEW agents, NEW tasks, NEW threads, NEW c \in Books(agents, tasks, threads), NEW run,
         IsRun(run, agents, tasks, threads)
  PROVE  /\ Persist(c, run) \in Books(agents, tasks, threads)
         /\ Persisted(c, Persist(c, run), run)
<1> DEFINE used == Used(run)
           id == run.id
           name == run.agent
           counted == CountFor(c, name, used)
           books == Books(agents, tasks, threads)
<1>1. used \in Usage /\ name \in Names(agents)
  BY DEF IsRun
<1>2. /\ c.total \in Usage /\ c.runs \in Nat
      /\ c.agent \in [Names(agents) -> Usage]
      /\ c.task \in [Names(tasks) -> Usage]
      /\ c.thread \in [Names(threads) -> Usage]
  BY DEF Books
<1>3. counted = [c EXCEPT !.total = Plus(c.total, used), !.runs = c.runs + 1,
                          !.agent = [c.agent EXCEPT ![name] = Plus(c.agent[name], used)]]
  BY DEF CountFor
<1>4. /\ Plus(c.total, used) \in Usage /\ c.runs + 1 \in Nat
      /\ [c.agent EXCEPT ![name] = Plus(c.agent[name], used)] \in [Names(agents) -> Usage]
  <2> HIDE DEF used, name
  <2>1. c.agent[name] \in Usage /\ Plus(c.agent[name], used) \in Usage
    BY <1>1, <1>2, PlusIs
  <2>2. Plus(c.total, used) \in Usage
    BY <1>1, <1>2, PlusIs
  <2> QED BY <1>1, <1>2, <2>1, <2>2
<1>5. /\ counted \in books
      /\ counted.total = Plus(c.total, used) /\ counted.runs = c.runs + 1
      /\ counted.agent = [c.agent EXCEPT ![name] = Plus(@, used)]
      /\ counted.task = c.task /\ counted.thread = c.thread
  <2> HIDE DEF counted, used, name
  <2> QED BY <1>3, <1>4 DEF Books
<1> HIDE DEF counted
<1>6. CASE run.what = "task"
  <2>1. Persist(c, run) = [counted EXCEPT !.task = [c.task EXCEPT ![id] = Written(c.task[id], used)]]
    BY <1>5, <1>6 DEF Persist, PersistTokenStats, counted
  <2>2. id \in Names(tasks)
    BY <1>6 DEF IsRun
  <2>3. [c.task EXCEPT ![id] = Written(c.task[id], used)] \in [Names(tasks) -> Usage]
    BY <1>1, <1>2, <2>2, PlusIs
  <2>4. /\ Persist(c, run) \in books
        /\ Persist(c, run).task = [c.task EXCEPT ![id] = Written(c.task[id], used)]
        /\ Persist(c, run).total = counted.total /\ Persist(c, run).runs = counted.runs
        /\ Persist(c, run).agent = counted.agent /\ Persist(c, run).thread = c.thread
    <3> HIDE DEF used, id
    <3> QED BY <1>5, <2>1, <2>3 DEF Books
  <2> QED BY <1>5, <1>6, <2>4 DEF Persisted, Grown
<1>7. CASE run.what # "task"
  <2>1. Persist(c, run) = [counted EXCEPT !.thread = [c.thread EXCEPT ![id] = Plus(c.thread[id], used)]]
    BY <1>5, <1>7 DEF Persist, PersistMasterTokenStats, counted
  <2>2. id \in Names(threads)
    BY <1>7 DEF IsRun
  <2>3. [c.thread EXCEPT ![id] = Plus(c.thread[id], used)] \in [Names(threads) -> Usage]
    BY <1>1, <1>2, <2>2, PlusIs
  <2>4. /\ Persist(c, run) \in books
        /\ Persist(c, run).thread = [c.thread EXCEPT ![id] = Plus(c.thread[id], used)]
        /\ Persist(c, run).total = counted.total /\ Persist(c, run).runs = counted.runs
        /\ Persist(c, run).agent = counted.agent /\ Persist(c, run).task = c.task
    <3> HIDE DEF used, id
    <3> QED BY <1>5, <2>1, <2>3 DEF Books
  <2> QED BY <1>5, <1>7, <2>4 DEF Persisted, Grown
<1> QED BY <1>6, <1>7

\* The counters after each of the runs.
CounterLoops(runs, agents, tasks, threads) ==
  {f \in [0 .. Len(runs) -> Books(agents, tasks, threads)] :
     /\ f[0] = NoCounters(Names(agents), Names(tasks), Names(threads))
     /\ \A n \in 1 .. Len(runs) : f[n] = Persist(f[n - 1], runs[n])
     /\ Counters(runs, Names(agents), Names(tasks), Names(threads)) = f[Len(runs)]}

LEMMA CountersRun ==
  ASSUME NEW agents, NEW tasks, NEW threads, NEW runs, Len(runs) \in Nat,
         \A n \in 1 .. Len(runs) : IsRun(runs[n], agents, tasks, threads)
  PROVE  \E f : f \in CounterLoops(runs, agents, tasks, threads)
<1> DEFINE N == Len(runs)
           V == Books(agents, tasks, threads)
           start == NoCounters(Names(agents), Names(tasks), Names(threads))
           Round(k, x) == Persist(x, runs[k])
           Loop(g) == [k \in 0 .. N |-> IF k = 0 THEN start ELSE Round(k, g[k - 1])]
           v == CHOOSE g : g = Loop(g)
           step == [k \in 1 .. N |-> [x \in V |-> Round(k, x)]]
<1>1. N \in Nat /\ start \in V
  BY PlusIs DEF NoCounters, Books
<1>2. \A k \in 1 .. N, x \in V : Round(k, x) \in V
  BY PersistIs
<1> HIDE DEF N, V, start, Round
<1>3. step \in [1 .. N -> [V -> V]]
  BY <1>2
<1>4. PICK f : f \in Loops(V, start, N, step)
  <2> HIDE DEF step
  <2> QED BY <1>1, <1>3, LoopRuns
<1>5. /\ f \in [0 .. N -> V] /\ f[0] = start
      /\ \A k \in 1 .. N : f[k] = Round(k, f[k - 1])
  <2>1. \A k \in 1 .. N : k - 1 \in 0 .. N
    BY <1>1
  <2> QED BY <1>4, <2>1 DEF Loops
<1>6. f = Loop(f)
  BY <1>1, <1>5
<1>7. v = Loop(v)
  <2> HIDE DEF Loop
  <2> QED BY <1>6
<1>8. Follows(v, V, start, N, step)
  <2> HIDE DEF v
  <2>1. \A k \in 0 .. N : v[k] = IF k = 0 THEN start ELSE Round(k, v[k - 1])
    BY <1>7
  <2> QED BY <1>1, <2>1 DEF Follows
<1>9. \A k \in 0 .. N : v[k] = f[k]
  <2> HIDE DEF v, step
  <2> QED BY <1>1, <1>4, <1>8, LoopUnique
<1>10. Counters(runs, Names(agents), Names(tasks), Names(threads)) = v[N]
  BY DEF Counters, N, Round, start
<1> HIDE DEF v, Loop, step
<1>11. v[N] = f[N]
  BY <1>1, <1>9
<1> QED BY <1>5, <1>10, <1>11 DEF CounterLoops, N, V, start, Round

RunsOf(agents, tasks, threads) ==
  [what : {"task"}, id : Names(tasks), agent : Names(agents), output : Seq(OutputEvent)]
  \union [what : {"turn"}, id : Names(threads), agent : Names(agents), output : Seq(OutputEvent)]

TaskRunsOnce(runs) ==
  \A i, j \in DOMAIN runs : runs[i].what = "task" /\ runs[j].what = "task" /\ runs[i].id = runs[j].id => i = j

NotRunBy(runs, t, n) == \A i \in 1 .. n : runs[i].what = "task" => runs[i].id # t

\* One run more keeps the sums right.
LEMMA AgentsBalance ==
  ASSUME NEW S, NEW agents \in Seq(S), Once(agents), NEW tasks, NEW threads,
         NEW c \in Books(agents, tasks, threads), NEW d,
         NEW run, IsRun(run, agents, tasks, threads), Persisted(c, d, run),
         c.total = Total(agents, c.agent)
  PROVE  d.total = Total(agents, d.agent)
<1> DEFINE used == Used(run)
<1>1. used \in Usage /\ run.agent \in Names(agents) /\ c.agent \in [Names(agents) -> Usage]
  BY DEF IsRun, Books
<1>2. d.total = Plus(c.total, used) /\ d.agent = Grown(c.agent, run.agent, used)
  BY DEF Persisted
<1>3. Total(agents, d.agent) = Plus(Total(agents, c.agent), used)
  <2> HIDE DEF used
  <2> QED BY <1>1, <1>2, TotalGrows
<1> QED BY <1>2, <1>3

LEMMA TasksBalance ==
  ASSUME NEW S, NEW agents, NEW tasks \in Seq(S), NEW threads \in Seq(S),
         Once(tasks), Once(threads),
         NEW c \in Books(agents, tasks, threads), NEW d \in Books(agents, tasks, threads),
         NEW run, IsRun(run, agents, tasks, threads), Persisted(c, d, run)
  PROVE  /\ c.total = Plus(Total(tasks, c.task), Total(threads, c.thread))
         /\ run.what = "task" => c.task[run.id] = NoTokens
         => d.total = Plus(Total(tasks, d.task), Total(threads, d.thread))
<1> DEFINE used == Used(run)
           x == Total(tasks, c.task)
           y == Total(threads, c.thread)
<1>1. /\ used \in Usage
      /\ c.task \in [Names(tasks) -> Usage]
      /\ c.thread \in [Names(threads) -> Usage]
  BY DEF IsRun, Books
<1>2. d.total = Plus(c.total, used)
  BY DEF Persisted
<1>3. x \in Usage /\ y \in Usage
  BY <1>1, TotalIsUsage
<1>4. ASSUME c.total = Plus(x, y), run.what = "task" => c.task[run.id] = NoTokens
      PROVE  d.total = Plus(Total(tasks, d.task), Total(threads, d.thread))
  <2>1. CASE run.what = "task"
    <3>1. run.id \in Names(tasks) /\ d.thread = c.thread
      BY <2>1 DEF IsRun, Persisted
    <3>2. d.task = Grown(c.task, run.id, used)
      <4>1. d.task = [c.task EXCEPT ![run.id] = Written(c.task[run.id], used)]
        BY <2>1 DEF Persisted
      <4>2. c.task[run.id] = NoTokens
        BY <1>4, <2>1
      <4> HIDE DEF used
      <4>3. Written(NoTokens, used) = used /\ Plus(NoTokens, used) = used
        BY <1>1, PlusIs
      <4> QED BY <4>1, <4>2, <4>3 DEF Grown
    <3> HIDE DEF used
    <3>3. Total(tasks, d.task) = Plus(x, used)
      BY <1>1, <3>1, <3>2, TotalGrows
    <3> HIDE DEF x, y
    <3>4. Plus(Plus(x, used), y) = Plus(x, Plus(used, y)) /\ Plus(used, y) = Plus(y, used)
      BY <1>1, <1>3, PlusIs
    <3>5. Plus(Plus(x, y), used) = Plus(x, Plus(y, used))
      BY <1>1, <1>3, PlusIs
    <3>6. d.total = Plus(Plus(x, used), y)
      BY <1>2, <1>4, <3>4, <3>5
    <3> QED BY <3>1, <3>3, <3>6 DEF y
  <2>2. CASE run.what # "task"
    <3>1. run.id \in Names(threads) /\ d.task = c.task
      BY <2>2 DEF IsRun, Persisted
    <3>2. d.thread = Grown(c.thread, run.id, used)
      BY <2>2 DEF Persisted
    <3> HIDE DEF used
    <3>3. Total(threads, d.thread) = Plus(y, used)
      BY <1>1, <3>1, <3>2, TotalGrows
    <3> HIDE DEF x, y
    <3>4. Plus(Plus(x, y), used) = Plus(x, Plus(y, used))
      BY <1>1, <1>3, PlusIs
    <3>5. d.total = Plus(x, Plus(y, used))
      BY <1>2, <1>4, <3>4
    <3> QED BY <3>1, <3>3, <3>5 DEF x
  <2> QED BY <2>1, <2>2
<1> QED BY <1>4

\* The books balance after any runs (PersistTokenStats,
\* PersistMasterTokenStats): the total is the sum over the agents, and
\* over the tasks and threads if no task is run twice.
THEOREM BooksBalance ==
  ASSUME NEW S, NEW agents \in Seq(S), NEW tasks \in Seq(S), NEW threads \in Seq(S),
         Once(agents), Once(tasks), Once(threads), NEW runs \in Seq(RunsOf(agents, tasks, threads))
  PROVE  LedgerFact(runs, agents, tasks, threads)
<1> DEFINE N == Len(runs)
           V == Books(agents, tasks, threads)
<1>1. N \in Nat /\ DOMAIN runs = 1 .. N
  OBVIOUS
<1>2. \A n \in 1 .. N : IsRun(runs[n], agents, tasks, threads)
  <2>1. \A n \in 1 .. N : runs[n] \in RunsOf(agents, tasks, threads)
    BY ElementOfSeq
  <2>2. \A run \in RunsOf(agents, tasks, threads) : IsRun(run, agents, tasks, threads)
    BY UsedIsUsage DEF RunsOf, IsRun
  <2> QED BY <2>1, <2>2
<1>3. PICK f : f \in CounterLoops(runs, agents, tasks, threads)
  BY <1>1, <1>2, CountersRun
<1>4. /\ f \in [0 .. N -> V]
      /\ f[0] = NoCounters(Names(agents), Names(tasks), Names(threads))
      /\ \A n \in 1 .. N : f[n] = Persist(f[n - 1], runs[n])
      /\ Counters(runs, Names(agents), Names(tasks), Names(threads)) = f[N]
  BY <1>3 DEF CounterLoops
<1>5. ASSUME NEW n \in 1 .. N
      PROVE  /\ n \in 0 .. N /\ n - 1 \in 0 .. N
             /\ f[n - 1] \in V /\ f[n] \in V /\ Persisted(f[n - 1], f[n], runs[n])
  <2>1. n \in 0 .. N /\ n - 1 \in 0 .. N
    BY <1>1
  <2>2. f[n - 1] \in V
    BY <1>4, <2>1
  <2>3. Persisted(f[n - 1], f[n], runs[n]) /\ f[n] \in V
    BY <1>2, <1>4, <2>2, PersistIs
  <2> QED BY <2>1, <2>2, <2>3
<1>6. /\ f[0].runs = 0 /\ f[0].total = NoTokens
      /\ Total(agents, f[0].agent) = NoTokens
      /\ Total(tasks, f[0].task) = NoTokens /\ Total(threads, f[0].thread) = NoTokens
      /\ \A t \in Names(tasks) : f[0].task[t] = NoTokens
  <2>1. /\ f[0].runs = 0 /\ f[0].total = NoTokens
        /\ f[0].agent = [a \in Names(agents) |-> NoTokens]
        /\ f[0].task = [t \in Names(tasks) |-> NoTokens]
        /\ f[0].thread = [th \in Names(threads) |-> NoTokens]
    BY <1>4 DEF NoCounters
  <2>2. ASSUME NEW list \in Seq(S), NEW counter, counter = [name \in Names(list) |-> NoTokens]
        PROVE  Total(list, counter) = NoTokens
    <3>1. \A n \in 1 .. Len(list) : counter[list[n]] = NoTokens
      BY <2>2 DEF Names
    <3> QED BY <3>1, TotalOfNone
  <2>3. \A t \in Names(tasks) : f[0].task[t] = NoTokens
    BY <2>1
  <2> QED BY <2>1, <2>2, <2>3
<1> HIDE DEF N, V
<1> DEFINE T == {n \in 0 .. N : f[n].runs = n /\ f[n].total = Total(agents, f[n].agent)}
<1>7. \A n \in 0 .. N : n \in T
  <2>1. 0 \in T
    BY <1>1, <1>6
  <2>2. ASSUME NEW n \in 1 .. N, n - 1 \in T PROVE n \in T
    <3>1. f[n].runs = n
      <4>1. f[n].runs = f[n - 1].runs + 1
        BY <1>5 DEF Persisted
      <4>2. f[n - 1].runs = n - 1
        BY <2>2
      <4> QED BY <1>1, <4>1, <4>2
    <3>2. f[n].total = Total(agents, f[n].agent)
      <4> DEFINE c == f[n - 1]
                 d == f[n]
                 run == runs[n]
      <4>1. c.total = Total(agents, c.agent)
        BY <2>2
      <4>2. c \in Books(agents, tasks, threads) /\ IsRun(run, agents, tasks, threads) /\ Persisted(c, d, run)
        BY <1>2, <1>5 DEF V
      <4> HIDE DEF T, c, d, run
      <4>3. d.total = Total(agents, d.agent)
        BY <4>1, <4>2, AgentsBalance
      <4> QED BY <4>3 DEF d
    <3> QED BY <1>5, <3>1, <3>2
  <2> HIDE DEF T
  <2>3. \A n \in 1 .. N : n - 1 \in T => n \in T
    BY <2>2
  <2> QED BY <1>1, <2>1, <2>3, UpTo
<1> DEFINE Unset(n) == \A t \in Names(tasks) : NotRunBy(runs, t, n) => f[n].task[t] = NoTokens
           U == {n \in 0 .. N : /\ Unset(n)
                                /\ f[n].total = Plus(Total(tasks, f[n].task), Total(threads, f[n].thread))}
<1>8. ASSUME TaskRunsOnce(runs) PROVE \A n \in 0 .. N : n \in U
  <2>1. 0 \in U
    <3>1. NoTokens = Plus(NoTokens, NoTokens)
      BY PlusIs
    <3> QED BY <1>1, <1>6, <3>1
  <2>2. ASSUME NEW n \in 1 .. N, n - 1 \in U PROVE n \in U
    <3>1. runs[n].what = "task" => f[n - 1].task[runs[n].id] = NoTokens
      <4> SUFFICES ASSUME runs[n].what = "task" PROVE f[n - 1].task[runs[n].id] = NoTokens
        OBVIOUS
      <4>1. runs[n].id \in Names(tasks)
        BY <1>2 DEF IsRun
      <4>2. NotRunBy(runs, runs[n].id, n - 1)
        <5>1. \A i \in 1 .. n - 1 : i \in 1 .. N /\ i # n
          BY <1>1
        <5> QED BY <1>1, <1>8, <5>1 DEF NotRunBy, TaskRunsOnce
      <4> QED BY <2>2, <4>1, <4>2
    <3>2. f[n].total = Plus(Total(tasks, f[n].task), Total(threads, f[n].thread))
      BY <1>2, <1>5, <2>2, <3>1, TasksBalance DEF V
    <3>3. ASSUME NEW t \in Names(tasks), NotRunBy(runs, t, n) PROVE f[n].task[t] = NoTokens
      <4>1. NotRunBy(runs, t, n - 1) /\ (runs[n].what = "task" => runs[n].id # t)
        <5>1. n \in 1 .. n /\ \A i \in 1 .. n - 1 : i \in 1 .. n
          BY <1>1
        <5> QED BY <3>3, <5>1 DEF NotRunBy
      <4>2. f[n - 1].task[t] = NoTokens
        BY <2>2, <4>1
      <4>3. f[n].task[t] = f[n - 1].task[t]
        <5>1. f[n - 1].task \in [Names(tasks) -> Usage]
          BY <1>5 DEF V, Books
        <5> QED BY <1>5, <4>1, <5>1 DEF Persisted
      <4> QED BY <4>2, <4>3
    <3> QED BY <1>5, <3>2, <3>3
  <2> HIDE DEF U
  <2>3. \A n \in 1 .. N : n - 1 \in U => n \in U
    BY <2>2
  <2> QED BY <1>1, <2>1, <2>3, UpTo
<1>9. N \in 0 .. N
  BY <1>1
<1>10. f[N].runs = N /\ f[N].total = Total(agents, f[N].agent)
  BY <1>7, <1>9
<1>11. TaskRunsOnce(runs) => f[N].total = Plus(Total(tasks, f[N].task), Total(threads, f[N].thread))
  <2> HIDE DEF Unset
  <2> QED BY <1>8, <1>9
<1> QED BY <1>4, <1>10, <1>11 DEF LedgerFact, TaskRunsOnce, N
=============================================================================
