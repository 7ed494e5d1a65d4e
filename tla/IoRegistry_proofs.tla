------------------------- MODULE IoRegistry_proofs -------------------------
(***************************************************************************)
(* The dispatch tables find what was registered, for any ports, regions,   *)
(* capacities and order of registration: the bubble sort of sort.h sorts,  *)
(* the two-ended search of search.h finds, and both fit together.          *)
(***************************************************************************)
EXTENDS IoRegistry, WellFoundedInduction, TLAPS

-----------------------------------------------------------------------------
(* Induction over the turns of a loop.                                     *)

\* A set of natural numbers that has an element has a least one.
LEMMA Least ==
  ASSUME NEW T, T \subseteq Nat, T # {}
  PROVE  \E x \in T : \A y \in T : x <= y
  <1> DEFINE R == OpToRel(<, Nat)
  <1>1. IsWellFoundedOn(R, Nat)
    BY NatLessThanWellFounded, Zenon
  <1>2. \A x, y \in Nat : <<x, y>> \in R <=> x < y
    BY Zenon DEF OpToRel
  <1> HIDE DEF R
  <1>3. PICK x \in T : \A y \in T : ~(<<y, x>> \in R)
    BY <1>1, WFMin, Zenon
  <1>4. \A y \in T : ~(y < x)
    BY <1>2, <1>3, Zenon
  <1>. QED
    BY <1>4

\* T has 0, and with each number below n the next.
Climbs(T, n) == 0 \in T /\ \A i \in 0 .. n - 1 : i \in T => i + 1 \in T

LEMMA Climb ==
  ASSUME NEW n \in Nat, NEW T, Climbs(T, n), NEW j \in 0 .. n
  PROVE  j \in T
  <1> DEFINE U == {i \in 0 .. n : i \notin T}
  <1> SUFFICES ASSUME j \notin T PROVE FALSE
    OBVIOUS
  <1>1. U \subseteq Nat /\ U # {}
    OBVIOUS
  <1>2. PICK x \in U : \A y \in U : x <= y
    <2> HIDE DEF U
    <2>. QED
      BY <1>1, Least, Zenon
  <1>3. x # 0
    BY DEF Climbs
  <1>4. x - 1 \in 0 .. n - 1 /\ x - 1 \notin U /\ x - 1 + 1 = x
    BY <1>2, <1>3
  <1>. QED
    BY <1>4 DEF Climbs

\* What the loops compute turn by turn: g[i] is the value after turn i.
Run(g, m, x, step, S) ==
  /\ g \in [0 .. m -> S]
  /\ g[0] = x
  /\ \A i \in 1 .. m : g[i] = step[i][g[i - 1]]

\* A loop of n turns has a run.
LEMMA Runs ==
  ASSUME NEW n \in Nat, NEW S, NEW x \in S, NEW step \in [1 .. n -> [S -> S]]
  PROVE  \E g : Run(g, n, x, step, S)
  <1> DEFINE T == {m \in 0 .. n : \E g : Run(g, m, x, step, S)}
  <1>1. 0 \in T
    <2>1. Run([i \in 0 .. 0 |-> x], 0, x, step, S)
      BY DEF Run
    <2>. QED
      BY <2>1
  <1>2. ASSUME NEW m \in 0 .. n - 1, m \in T
        PROVE  m + 1 \in T
    <2>1. PICK g : Run(g, m, x, step, S)
      BY <1>2, Zenon
    <2> DEFINE h == [i \in 0 .. m + 1 |-> IF i = m + 1 THEN step[m + 1][g[m]] ELSE g[i]]
    <2>2. m \in 0 .. m /\ m + 1 \in 1 .. n /\ m + 1 \in 0 .. m + 1
      OBVIOUS
    <2>3. g[m] \in S /\ step[m + 1][g[m]] \in S
      BY <2>1, <2>2, Zenon DEF Run
    <2>4. h \in [0 .. m + 1 -> S]
      <3>1. \A i \in 0 .. m + 1 : i = m + 1 \/ i \in 0 .. m
        OBVIOUS
      <3>. QED
        BY <2>1, <2>3, <3>1, Zenon DEF Run
    <2>5. h[0] = x /\ h[m + 1] = step[m + 1][g[m]] /\ \A i \in 0 .. m : h[i] = g[i]
      BY <2>1 DEF Run
    <2> HIDE DEF h
    <2>6. ASSUME NEW i \in 1 .. m + 1 PROVE h[i] = step[i][h[i - 1]]
      <3>1. CASE i = m + 1
        BY <2>2, <2>5, <3>1
      <3>2. CASE i # m + 1
        <4>1. i \in 1 .. m /\ i \in 0 .. m /\ i - 1 \in 0 .. m
          BY <3>2
        <4>. QED
          BY <2>1, <2>5, <4>1, Zenon DEF Run
      <3>. QED
        BY <3>1, <3>2, Zenon
    <2>7. Run(h, m + 1, x, step, S)
      BY <2>4, <2>5, <2>6, Zenon DEF Run
    <2>. QED
      BY <2>2, <2>7
  <1>3. Climbs(T, n)
    <2> HIDE DEF T
    <2>. QED
      BY <1>1, <1>2, Zenon DEF Climbs
  <1> HIDE DEF T
  <1>4. n \in T
    BY <1>3, Climb
  <1>. QED
    BY <1>4, Zenon DEF T

-----------------------------------------------------------------------------
(* The sort.                                                               *)

\* The body of the inner loop keeps the length and the elements' type.
LEMMA SwapType ==
  ASSUME NEW n \in Nat, NEW E, NEW b \in [1 .. n -> E], NEW i \in 1 .. n - 1, NEW after
  PROVE  SwapIfAfter(b, i, after) \in [1 .. n -> E]
  BY DEF SwapIfAfter

Arrays(n, E) == [1 .. n -> E]

\* g is the array after each turn of the inner loop.
Passes(g, a, m, n, E, after) ==
  /\ g \in [0 .. m -> [1 .. n -> E]]
  /\ g[0] = a
  /\ \A i \in 1 .. m : g[i] = SwapIfAfter(g[i - 1], i, after)

PassRuns(a, m, n, E, after) ==
  \E g : Passes(g, a, m, n, E, after) /\ Pass(a, m, after) = g[m]

LEMMA PassRun ==
  ASSUME NEW n \in Nat, NEW E, NEW a \in Arrays(n, E), NEW after,
         NEW m \in 0 .. n - 1
  PROVE  PassRuns(a, m, n, E, after)
  <1>0. a \in [1 .. n -> E]
    BY DEF Arrays
  <1> DEFINE S == [1 .. n -> E]
             step == [i \in 1 .. m |-> [b \in S |-> SwapIfAfter(b, i, after)]]
             Eq(f) == f = [i \in 0 .. m |->
                             IF i = 0 THEN a ELSE SwapIfAfter(f[i - 1], i, after)]
             turn == CHOOSE f : Eq(f)
  <1>1. \A i \in 1 .. m : i \in 1 .. n - 1
    OBVIOUS
  <1>2. step \in [1 .. m -> [S -> S]]
    BY <1>1, SwapType, Zenon
  <1>3. \E f : Eq(f)
    <2>1. PICK g : Run(g, m, a, step, S)
      <3> HIDE DEF S, step
      <3>1. a \in S /\ m \in Nat
        BY <1>0 DEF S
      <3>. QED
        BY <1>2, <3>1, Runs, Zenon
    <2>2. \A i \in 1 .. m : i - 1 \in 0 .. m
      OBVIOUS
    <2>3. \A i \in 1 .. m : g[i] = SwapIfAfter(g[i - 1], i, after)
      BY <2>1, <2>2, Zenon DEF Run
    <2>4. \A i \in 0 .. m : i # 0 => i \in 1 .. m
      OBVIOUS
    <2>5. \A i \in 0 .. m : g[i] = IF i = 0 THEN a ELSE SwapIfAfter(g[i - 1], i, after)
      BY <2>1, <2>3, <2>4, Zenon DEF Run
    <2>. QED
      BY <2>1, <2>5, Zenon DEF Run
  <1>4. Eq(turn)
    BY <1>3, Zenon
  <1>5. Pass(a, m, after) = turn[m]
    BY Zenon DEF Pass
  <1> HIDE DEF turn
  <1>6. /\ turn[0] = a
        /\ \A i \in 1 .. m : turn[i] = SwapIfAfter(turn[i - 1], i, after)
    <2>1. 0 \in 0 .. m /\ \A i \in 1 .. m : i \in 0 .. m /\ i # 0
      OBVIOUS
    <2>. QED
      BY <1>4, <2>1, Zenon
  <1> DEFINE T == {i \in 0 .. m : turn[i] \in S}
  <1>7. Climbs(T, m)
    <2>1. 0 \in T
      BY <1>0, <1>6
    <2>2. ASSUME NEW i \in 0 .. m - 1, i \in T
          PROVE  i + 1 \in T
      <3>1. i + 1 \in 1 .. m /\ i + 1 \in 1 .. n - 1 /\ i + 1 - 1 = i /\ i + 1 \in 0 .. m
        OBVIOUS
      <3>2. turn[i + 1] = SwapIfAfter(turn[i], i + 1, after)
        BY <1>6, <3>1
      <3>3. turn[i] \in [1 .. n -> E]
        BY <2>2
      <3>4. SwapIfAfter(turn[i], i + 1, after) \in [1 .. n -> E]
        BY <3>1, <3>3, SwapType, Zenon
      <3>. QED
        BY <3>1, <3>2, <3>4, Zenon
    <2> HIDE DEF T
    <2>. QED
      BY <2>1, <2>2, Zenon DEF Climbs
  <1>8. \A i \in 0 .. m : turn[i] \in S
    <2>1. ASSUME NEW i \in 0 .. m PROVE i \in T
      <3> HIDE DEF T
      <3>. QED
        BY <1>7, Climb
    <2>. QED
      BY <2>1
  <1>9. Passes(turn, a, m, n, E, after)
    <2>1. turn \in [0 .. m -> S]
      BY <1>4, <1>8, Zenon
    <2>. QED
      BY <1>6, <2>1, Zenon DEF Passes
  <1>. QED
    BY <1>5, <1>9, Zenon DEF PassRuns

LEMMA PassType ==
  ASSUME NEW n \in Nat, NEW E, NEW a \in Arrays(n, E), NEW after,
         NEW m \in 0 .. n - 1
  PROVE  Pass(a, m, after) \in Arrays(n, E)
  <1>1. PICK g : Passes(g, a, m, n, E, after) /\ Pass(a, m, after) = g[m]
    <2>1. PassRuns(a, m, n, E, after)
      BY PassRun
    <2>. QED
      BY <2>1, Zenon DEF PassRuns
  <1>2. m \in 0 .. m
    OBVIOUS
  <1>. QED
    BY <1>1, <1>2, Zenon DEF Passes, Arrays

\* g is the array after each turn of the outer loop.
Sorts(g, a, n, E, after) ==
  /\ g \in [0 .. n -> [1 .. n -> E]]
  /\ g[0] = a
  /\ \A k \in 1 .. n : g[k] = Pass(g[k - 1], n - k, after)

SortRuns(a, n, E, after) ==
  \E g : Sorts(g, a, n, E, after) /\ BubbleSort(a, after) = g[n]

LEMMA SortRun ==
  ASSUME NEW n \in Nat, NEW E, NEW a \in Arrays(n, E), NEW after
  PROVE  SortRuns(a, n, E, after)
  <1> DEFINE S == [1 .. n -> E]
             step == [k \in 1 .. n |-> [b \in S |-> Pass(b, n - k, after)]]
             Eq(f) == f = [k \in 0 .. n |->
                             IF k = 0 THEN a ELSE Pass(f[k - 1], n - k, after)]
             turn == CHOOSE f : Eq(f)
  <1>0. a \in [1 .. n -> E] /\ Len(a) = n
    BY DEF Arrays
  <1>1. \A k \in 1 .. n : n - k \in 0 .. n - 1
    OBVIOUS
  <1>2. step \in [1 .. n -> [S -> S]]
    BY <1>1, PassType, Zenon DEF Arrays
  <1>3. \E f : Eq(f)
    <2>1. PICK g : Run(g, n, a, step, S)
      <3> HIDE DEF S, step
      <3>1. a \in S
        BY <1>0 DEF S
      <3>. QED
        BY <1>2, <3>1, Runs, Zenon
    <2>2. \A k \in 1 .. n : k - 1 \in 0 .. n
      OBVIOUS
    <2>3. \A k \in 1 .. n : g[k] = Pass(g[k - 1], n - k, after)
      BY <2>1, <2>2, Zenon DEF Run
    <2>4. \A k \in 0 .. n : k # 0 => k \in 1 .. n
      OBVIOUS
    <2>5. \A k \in 0 .. n : g[k] = IF k = 0 THEN a ELSE Pass(g[k - 1], n - k, after)
      BY <2>1, <2>3, <2>4, Zenon DEF Run
    <2>. QED
      BY <2>1, <2>5, Zenon DEF Run
  <1>4. Eq(turn)
    BY <1>3, Zenon
  <1>5. BubbleSort(a, after) = turn[n]
    BY <1>0, Zenon DEF BubbleSort
  <1> HIDE DEF turn
  <1>6. /\ turn[0] = a
        /\ \A k \in 1 .. n : turn[k] = Pass(turn[k - 1], n - k, after)
    <2>1. 0 \in 0 .. n /\ \A k \in 1 .. n : k \in 0 .. n /\ k # 0
      OBVIOUS
    <2>. QED
      BY <1>4, <2>1, Zenon
  <1> DEFINE T == {k \in 0 .. n : turn[k] \in S}
  <1>7. Climbs(T, n)
    <2>1. 0 \in T
      BY <1>0, <1>6
    <2>2. ASSUME NEW k \in 0 .. n - 1, k \in T
          PROVE  k + 1 \in T
      <3>1. /\ k + 1 \in 1 .. n /\ n - (k + 1) \in 0 .. n - 1 /\ k + 1 - 1 = k
            /\ k + 1 \in 0 .. n
        OBVIOUS
      <3>2. turn[k + 1] = Pass(turn[k], n - (k + 1), after)
        BY <1>6, <3>1
      <3>3. turn[k] \in [1 .. n -> E]
        BY <2>2
      <3>4. Pass(turn[k], n - (k + 1), after) \in [1 .. n -> E]
        BY <3>1, <3>3, PassType, Zenon DEF Arrays
      <3>. QED
        BY <3>1, <3>2, <3>4, Zenon
    <2> HIDE DEF T
    <2>. QED
      BY <2>1, <2>2, Zenon DEF Climbs
  <1>8. \A k \in 0 .. n : turn[k] \in S
    <2>1. ASSUME NEW k \in 0 .. n PROVE k \in T
      <3> HIDE DEF T
      <3>. QED
        BY <1>7, Climb
    <2>. QED
      BY <2>1
  <1>9. Sorts(turn, a, n, E, after)
    <2>1. turn \in [0 .. n -> S]
      BY <1>4, <1>8, Zenon
    <2>. QED
      BY <1>6, <2>1, Zenon DEF Sorts
  <1>. QED
    BY <1>5, <1>9, Zenon DEF SortRuns

\* comp(x, y) > 0 is the order of a key the elements have.
Keyed(after, key, E) ==
  /\ key \in [E -> Int]
  /\ \A x, y \in E : <<x, y>> \in after <=> key[x] > key[y]

\* The first m elements of a are rearranged, the others are where they were.
Rearranged(b, a, m, n) ==
  /\ \A j \in 1 .. m : \E i \in 1 .. m : b[j] = a[i]
  /\ \A j \in m + 1 .. n : b[j] = a[j]
  /\ \A i \in 1 .. n : \E j \in 1 .. n : b[j] = a[i]

Distinct(b, n, key) == \A i, j \in 1 .. n : i # j => key[b[i]] # key[b[j]]

\* The last of the first i elements is one of the greatest of them.
Top(b, i, key) == \A j \in 1 .. i : key[b[j]] <= key[b[i]]

\* The elements behind the first s have found their places.
Settled(b, s, n, key) == \A j \in s + 1 .. n : \A i \in 1 .. j : key[b[i]] <= key[b[j]]

LEMMA SwapFacts ==
  ASSUME NEW n \in Nat, NEW E, NEW b \in [1 .. n -> E], NEW i \in 1 .. n - 1, NEW after
  PROVE  IF <<b[i], b[i + 1]>> \in after
         THEN /\ SwapIfAfter(b, i, after)[i] = b[i + 1]
              /\ SwapIfAfter(b, i, after)[i + 1] = b[i]
              /\ \A j \in 1 .. n : j # i /\ j # i + 1 => SwapIfAfter(b, i, after)[j] = b[j]
         ELSE SwapIfAfter(b, i, after) = b
  BY DEF SwapIfAfter

\* What a turn of the inner loop does.
Swapped(c, b, i, n, key) ==
  /\ Rearranged(c, b, i + 1, n)
  /\ Distinct(b, n, key) => Distinct(c, n, key)
  /\ Top(b, i, key) => Top(c, i + 1, key)

LEMMA SwapStep ==
  ASSUME NEW n \in Nat, NEW E, NEW b \in Arrays(n, E), NEW i \in 1 .. n - 1,
         NEW after, NEW key, Keyed(after, key, E)
  PROVE  Swapped(SwapIfAfter(b, i, after), b, i, n, key)
  <1> DEFINE c == SwapIfAfter(b, i, after)
  <1>a. b \in [1 .. n -> E]
    BY DEF Arrays
  <1>b. c = SwapIfAfter(b, i, after)
    OBVIOUS
  <1> HIDE DEF c
  <1>0. i \in 1 .. n /\ i + 1 \in 1 .. n
    OBVIOUS
  <1>1. CASE <<b[i], b[i + 1]>> \in after
    <2>1. c[i] = b[i + 1] /\ c[i + 1] = b[i] /\ \A j \in 1 .. n : j # i /\ j # i + 1 => c[j] = b[j]
      BY <1>a, <1>b, <1>1, SwapFacts, ZenonT(60)
    <2>2. key[b[i]] > key[b[i + 1]]
      BY <1>0, <1>a, <1>1, Zenon DEF Keyed
    <2>3. \A j \in 1 .. n : key[b[j]] \in Int
      BY <1>a DEF Keyed
    <2>4. Rearranged(c, b, i + 1, n)
      <3>1. ASSUME NEW j \in 1 .. i + 1 PROVE \E k \in 1 .. i + 1 : c[j] = b[k]
        <4>1. i \in 1 .. i + 1 /\ i + 1 \in 1 .. i + 1 /\ j \in 1 .. n
          OBVIOUS
        <4>. QED
          BY <2>1, <4>1, Zenon
      <3>2. ASSUME NEW j \in (i + 1) + 1 .. n PROVE c[j] = b[j]
        BY <2>1
      <3>3. ASSUME NEW k \in 1 .. n PROVE \E j \in 1 .. n : c[j] = b[k]
        BY <1>0, <2>1, Zenon
      <3>. QED
        BY <3>1, <3>2, <3>3, Zenon DEF Rearranged
    <2>5. ASSUME Distinct(b, n, key) PROVE Distinct(c, n, key)
      <3> DEFINE from(j) == IF j = i THEN i + 1 ELSE IF j = i + 1 THEN i ELSE j
      <3>1. \A j, k \in 1 .. n : from(j) \in 1 .. n /\ (j # k => from(j) # from(k))
        OBVIOUS
      <3>2. ASSUME NEW j \in 1 .. n PROVE c[j] = b[from(j)]
        <4>1. CASE j = i
          BY <2>1, <4>1, Zenon
        <4>2. CASE j = i + 1
          <5>1. j # i
            BY <4>2
          <5>. QED
            BY <2>1, <4>2, <5>1, Zenon
        <4>3. CASE j # i /\ j # i + 1
          BY <2>1, <4>3, Zenon
        <4>. QED
          BY <4>1, <4>2, <4>3, Zenon
      <3> HIDE DEF from
      <3>3. ASSUME NEW j \in 1 .. n, NEW k \in 1 .. n, j # k
            PROVE  key[c[j]] # key[c[k]]
        <4>1. from(j) \in 1 .. n /\ from(k) \in 1 .. n /\ from(j) # from(k)
          BY <3>1, <3>3, Zenon
        <4>2. key[b[from(j)]] # key[b[from(k)]]
          BY <2>5, <4>1, Zenon DEF Distinct
        <4>. QED
          BY <3>2, <4>2, Zenon
      <3>. QED
        BY <3>3, Zenon DEF Distinct
    <2>6. ASSUME Top(b, i, key) PROVE Top(c, i + 1, key)
      <3>1. ASSUME NEW j \in 1 .. i + 1 PROVE key[c[j]] <= key[c[i + 1]]
        <4>1. j \in 1 .. n /\ (j # i + 1 => j \in 1 .. i)
          OBVIOUS
        <4>2. CASE j = i
          BY <1>0, <2>1, <2>2, <2>3, <4>2
        <4>3. CASE j = i + 1
          BY <1>0, <2>1, <2>3, <4>3
        <4>4. CASE j # i /\ j # i + 1
          BY <2>1, <2>6, <4>1, <4>4, Zenon DEF Top
        <4>. QED
          BY <4>2, <4>3, <4>4, Zenon
      <3>. QED
        BY <3>1, Zenon DEF Top
    <2>. QED
      BY <1>b, <2>4, <2>5, <2>6, Zenon DEF Swapped
  <1>2. CASE <<b[i], b[i + 1]>> \notin after
    <2>1. c = b
      BY <1>b, <1>2, Zenon DEF SwapIfAfter
    <2>2. ~(key[b[i]] > key[b[i + 1]])
      BY <1>0, <1>a, <1>2, Zenon DEF Keyed
    <2>3. \A j \in 1 .. n : key[b[j]] \in Int
      BY <1>a DEF Keyed
    <2>4. Rearranged(b, b, i + 1, n)
      BY Zenon DEF Rearranged
    <2>5. ASSUME Top(b, i, key) PROVE Top(b, i + 1, key)
      <3>1. ASSUME NEW j \in 1 .. i + 1 PROVE key[b[j]] <= key[b[i + 1]]
        <4>1. j \in 1 .. n /\ (j # i + 1 => j \in 1 .. i)
          OBVIOUS
        <4>2. CASE j = i + 1
          BY <1>0, <2>3, <4>2
        <4>3. CASE j # i + 1
          <5>1. key[b[j]] <= key[b[i]]
            BY <2>5, <4>1, <4>3, Zenon DEF Top
          <5>2. key[b[j]] \in Int /\ key[b[i]] \in Int /\ key[b[i + 1]] \in Int
            BY <1>0, <2>3, <4>1, Zenon
          <5>. QED
            BY <2>2, <5>1, <5>2
        <4>. QED
          BY <4>2, <4>3, Zenon
      <3>. QED
        BY <3>1, Zenon DEF Top
    <2>. QED
      BY <1>b, <2>1, <2>4, <2>5, Zenon DEF Swapped
  <1>. QED
    BY <1>1, <1>2, Zenon

LEMMA RearrangedTwice ==
  ASSUME NEW n \in Nat, NEW m \in 0 .. n, NEW k \in 0 .. m, NEW a, NEW b, NEW c,
         Rearranged(c, b, m, n), Rearranged(b, a, k, n)
  PROVE  Rearranged(c, a, m, n)
  <1>1. ASSUME NEW j \in 1 .. m PROVE \E i \in 1 .. m : c[j] = a[i]
    <2>1. PICK i \in 1 .. m : c[j] = b[i]
      BY Zenon DEF Rearranged
    <2>2. CASE i \in 1 .. k
      <3>1. PICK h \in 1 .. k : b[i] = a[h]
        BY <2>2, Zenon DEF Rearranged
      <3>2. h \in 1 .. m
        OBVIOUS
      <3>. QED
        BY <2>1, <3>1, <3>2, Zenon
    <2>3. CASE i \notin 1 .. k
      <3>1. i \in k + 1 .. n
        BY <2>3
      <3>2. b[i] = a[i]
        BY <3>1, Zenon DEF Rearranged
      <3>. QED
        BY <2>1, <3>2, Zenon
    <2>. QED
      BY <2>2, <2>3, Zenon
  <1>2. ASSUME NEW j \in m + 1 .. n PROVE c[j] = a[j]
    <2>1. j \in k + 1 .. n
      OBVIOUS
    <2>. QED
      BY <2>1, Zenon DEF Rearranged
  <1>3. ASSUME NEW i \in 1 .. n PROVE \E j \in 1 .. n : c[j] = a[i]
    <2>1. PICK h \in 1 .. n : b[h] = a[i]
      BY Zenon DEF Rearranged
    <2>2. PICK j \in 1 .. n : c[j] = b[h]
      BY Zenon DEF Rearranged
    <2>. QED
      BY <2>1, <2>2, Zenon
  <1>. QED
    BY <1>1, <1>2, <1>3, Zenon DEF Rearranged

\* What a pass over the first m + 1 elements of a leaves in b.
Bubbled(b, a, m, n, key) ==
  /\ Rearranged(b, a, m, n)
  /\ Distinct(a, n, key) => Distinct(b, n, key)
  /\ Top(b, m, key)

\* A pass takes the greatest element to its end.
LEMMA PassBubbles ==
  ASSUME NEW n \in Nat, NEW E, NEW a \in Arrays(n, E), NEW after, NEW key,
         Keyed(after, key, E), NEW m \in 0 .. n - 1
  PROVE  Bubbled(Pass(a, m, after), a, m + 1, n, key)
  <1>1. PICK g : Passes(g, a, m, n, E, after) /\ Pass(a, m, after) = g[m]
    <2>1. PassRuns(a, m, n, E, after)
      BY PassRun
    <2>. QED
      BY <2>1, Zenon DEF PassRuns
  <1> DEFINE T == {i \in 0 .. m : Bubbled(g[i], a, i + 1, n, key)}
  <1>2. 0 \in T
    <2>1. g[0] = a
      BY <1>1, Zenon DEF Passes
    <2>2. Rearranged(a, a, 1, n)
      BY Zenon DEF Rearranged
    <2>3. Top(a, 1, key)
      BY DEF Top, Keyed, Arrays
    <2>4. 0 \in 0 .. m /\ 0 + 1 = 1
      OBVIOUS
    <2>5. Bubbled(a, a, 1, n, key)
      BY <2>2, <2>3, Zenon DEF Bubbled
    <2>. QED
      BY <2>1, <2>4, <2>5
  <1>3. ASSUME NEW i \in 0 .. m - 1, i \in T
        PROVE  i + 1 \in T
    <2>1. /\ i + 1 \in 1 .. m /\ i + 1 \in 1 .. n - 1 /\ (i + 1) - 1 = i /\ i \in 0 .. m
          /\ i + 1 \in 0 .. m /\ (i + 1) + 1 \in 0 .. n /\ i + 1 \in 0 .. (i + 1) + 1
      OBVIOUS
    <2>2. g[i + 1] = SwapIfAfter(g[i], i + 1, after)
      <3>1. g[i + 1] = SwapIfAfter(g[(i + 1) - 1], i + 1, after)
        BY <1>1, <2>1, Zenon DEF Passes
      <3>. QED
        BY <2>1, <3>1
    <2>3. g[i] \in Arrays(n, E)
      BY <1>1, <2>1, Zenon DEF Passes, Arrays
    <2>4. Bubbled(g[i], a, i + 1, n, key)
      BY <1>3
    <2>5. /\ Rearranged(g[i + 1], g[i], (i + 1) + 1, n)
          /\ Distinct(g[i], n, key) => Distinct(g[i + 1], n, key)
          /\ Top(g[i], i + 1, key) => Top(g[i + 1], (i + 1) + 1, key)
      <3>1. Swapped(SwapIfAfter(g[i], i + 1, after), g[i], i + 1, n, key)
        BY <2>1, <2>3, SwapStep
      <3>. QED
        BY <2>2, <3>1, Zenon DEF Swapped
    <2>6. Rearranged(g[i + 1], a, (i + 1) + 1, n)
      <3>1. Rearranged(g[i], a, i + 1, n)
        BY <2>4, Zenon DEF Bubbled
      <3>. QED
        BY <2>1, <2>5, <3>1, RearrangedTwice
    <2>7. Bubbled(g[i + 1], a, (i + 1) + 1, n, key)
      BY <2>4, <2>5, <2>6, Zenon DEF Bubbled
    <2>. QED
      BY <2>1, <2>7, Zenon
  <1> HIDE DEF T
  <1>4. Climbs(T, m)
    BY <1>2, <1>3, Zenon DEF Climbs
  <1>5. m \in T
    BY <1>4, Climb
  <1>. QED
    BY <1>1, <1>5, Zenon DEF T

\* What the first k turns of the outer loop leave of a.
Sunk(b, a, k, n, key) ==
  /\ Rearranged(b, a, n, n)
  /\ Distinct(a, n, key) => Distinct(b, n, key)
  /\ Settled(b, n - k, n, key)

\* A pass settles one more element.
LEMMA PassSettles ==
  ASSUME NEW n \in Nat, NEW a, NEW b, NEW c, NEW key, NEW s \in 1 .. n,
         Settled(b, s, n, key), Bubbled(c, b, s, n, key)
  PROVE  Settled(c, s - 1, n, key)
  <1>1. ASSUME NEW j \in (s - 1) + 1 .. n, NEW i \in 1 .. j
        PROVE  key[c[i]] <= key[c[j]]
    <2>1. CASE j = s
      <3>1. i \in 1 .. s
        BY <2>1
      <3>. QED
        BY <2>1, <3>1, Zenon DEF Bubbled, Top
    <2>2. CASE j # s
      <3>1. j \in s + 1 .. n
        BY <2>2
      <3>2. c[j] = b[j]
        BY <3>1, Zenon DEF Bubbled, Rearranged
      <3>3. CASE i \in 1 .. s
        <4>1. PICK h \in 1 .. s : c[i] = b[h]
          BY <3>3, Zenon DEF Bubbled, Rearranged
        <4>2. h \in 1 .. j
          BY <3>1
        <4>. QED
          BY <3>1, <3>2, <4>1, <4>2, Zenon DEF Settled
      <3>4. CASE i \notin 1 .. s
        <4>1. i \in s + 1 .. n
          BY <3>4
        <4>2. c[i] = b[i]
          BY <4>1, Zenon DEF Bubbled, Rearranged
        <4>. QED
          BY <3>1, <3>2, <4>2, Zenon DEF Settled
      <3>. QED
        BY <3>3, <3>4, Zenon
    <2>. QED
      BY <2>1, <2>2, Zenon
  <1>. QED
    BY <1>1, Zenon DEF Settled

\* Widening the part that may be rearranged.
LEMMA RearrangedWider ==
  ASSUME NEW n \in Nat, NEW m \in 0 .. n, NEW a, NEW b, Rearranged(b, a, m, n)
  PROVE  Rearranged(b, a, n, n)
  <1>1. Rearranged(b, b, n, n)
    BY DEF Rearranged
  <1>2. n \in 0 .. n
    OBVIOUS
  <1>. QED
    BY <1>1, <1>2, RearrangedTwice

LEMMA SortSinks ==
  ASSUME NEW n \in Nat, NEW E, NEW a \in Arrays(n, E), NEW after, NEW key,
         Keyed(after, key, E)
  PROVE  BubbleSort(a, after) \in Arrays(n, E) /\ Sunk(BubbleSort(a, after), a, n, n, key)
  <1>1. PICK g : Sorts(g, a, n, E, after) /\ BubbleSort(a, after) = g[n]
    <2>1. SortRuns(a, n, E, after)
      BY SortRun
    <2>. QED
      BY <2>1, Zenon DEF SortRuns
  <1> DEFINE T == {k \in 0 .. n : Sunk(g[k], a, k, n, key)}
  <1>2. 0 \in T
    <2>1. g[0] = a
      BY <1>1, Zenon DEF Sorts
    <2>2. Rearranged(a, a, n, n)
      BY DEF Rearranged
    <2>3. Settled(a, n - 0, n, key)
      BY DEF Settled
    <2>4. 0 \in 0 .. n
      OBVIOUS
    <2>5. Sunk(a, a, 0, n, key)
      BY <2>2, <2>3, Zenon DEF Sunk
    <2>. QED
      BY <2>1, <2>4, <2>5, Zenon
  <1>3. ASSUME NEW k \in 0 .. n - 1, k \in T
        PROVE  k + 1 \in T
    <2>1. /\ k + 1 \in 1 .. n /\ k + 1 \in 0 .. n /\ (k + 1) - 1 = k /\ k \in 0 .. n
          /\ n - (k + 1) \in 0 .. n - 1 /\ (n - (k + 1)) + 1 = n - k
          /\ n - k \in 1 .. n /\ n - k \in 0 .. n /\ (n - k) - 1 = n - (k + 1)
          /\ n \in 0 .. n
      OBVIOUS
    <2>2. g[k + 1] = Pass(g[k], n - (k + 1), after)
      <3>1. g[k + 1] = Pass(g[(k + 1) - 1], n - (k + 1), after)
        BY <1>1, <2>1, Zenon DEF Sorts
      <3>. QED
        BY <2>1, <3>1
    <2>3. g[k] \in Arrays(n, E)
      BY <1>1, <2>1, Zenon DEF Sorts, Arrays
    <2>4. Sunk(g[k], a, k, n, key)
      BY <1>3
    <2>5. Bubbled(g[k + 1], g[k], n - k, n, key)
      <3>1. Bubbled(Pass(g[k], n - (k + 1), after), g[k], (n - (k + 1)) + 1, n, key)
        BY <2>1, <2>3, PassBubbles
      <3>. QED
        BY <2>1, <2>2, <3>1
    <2>6. Settled(g[k + 1], n - (k + 1), n, key)
      <3>1. Settled(g[k], n - k, n, key)
        BY <2>4, Zenon DEF Sunk
      <3>2. Settled(g[k + 1], (n - k) - 1, n, key)
        BY <2>1, <2>5, <3>1, PassSettles
      <3>. QED
        BY <2>1, <3>2
    <2>7. Rearranged(g[k + 1], a, n, n)
      <3>1. Rearranged(g[k], a, n, n)
        BY <2>4, Zenon DEF Sunk
      <3>2. Rearranged(g[k + 1], g[k], n - k, n)
        BY <2>5, Zenon DEF Bubbled
      <3>3. Rearranged(g[k + 1], g[k], n, n)
        BY <2>1, <3>2, RearrangedWider
      <3>. QED
        BY <2>1, <3>1, <3>3, RearrangedTwice
    <2>8. Sunk(g[k + 1], a, k + 1, n, key)
      BY <2>4, <2>5, <2>6, <2>7, Zenon DEF Sunk, Bubbled
    <2>. QED
      BY <2>1, <2>8, Zenon
  <1> HIDE DEF T
  <1>4. Climbs(T, n)
    BY <1>2, <1>3, Zenon DEF Climbs
  <1>5. n \in T
    BY <1>4, Climb
  <1>6. n \in 0 .. n
    OBVIOUS
  <1>7. g[n] \in Arrays(n, E)
    BY <1>1, <1>6, Zenon DEF Sorts, Arrays
  <1>. QED
    BY <1>1, <1>5, <1>7, Zenon DEF T

-----------------------------------------------------------------------------
(* The search.                                                             *)

\* The target is before, at or behind each element, in this order.
Falling(diff, n) ==
  /\ diff \in [1 .. n -> Int]
  /\ \A i, j \in 1 .. n : i < j /\ diff[i] <= 0 => diff[j] < 0

\* The intervals of the search: both ends are elements.
Intervals(n) == {w \in [low : 1 .. n, high : 1 .. n] : w.low <= w.high}

\* The target, if it is there, is in the interval.
Encloses(w, diff, n) == \A j \in 1 .. n : diff[j] = 0 => w.low <= j /\ j <= w.high

\* The conditions under which the loop breaks.
Breaks(w, diff) ==
  diff[w.low] = 0 \/ diff[w.high] = 0 \/ (w.low + w.high) \div 2 \in {w.low, w.high}

\* A turn that does not break leaves a shorter interval.
LEMMA HalveType ==
  ASSUME NEW n \in Nat, NEW diff, NEW w \in Intervals(n)
  PROVE  /\ Halve(w, diff) \in Intervals(n)
         /\ Breaks(w, diff) => Halve(w, diff) = w
         /\ ~Breaks(w, diff) => Halve(w, diff).high - Halve(w, diff).low < w.high - w.low
  <1> DEFINE low == w.low
             high == w.high
             mid == (low + high) \div 2
  <1>1. low \in 1 .. n /\ high \in 1 .. n /\ low <= high
    BY DEF Intervals
  <1>2. CASE Breaks(w, diff)
    <2>1. Halve(w, diff) = w
      BY <1>2, Zenon DEF Breaks, Halve
    <2>. QED
      BY <1>2, <2>1, Zenon
  <1>3. CASE ~Breaks(w, diff)
    <2>1. Halve(w, diff) = IF diff[mid] < 0 THEN [low |-> low, high |-> mid]
                           ELSE [low |-> mid, high |-> high]
      BY <1>3, Zenon DEF Breaks, Halve
    <2>2. mid # low /\ mid # high
      BY <1>3, Zenon DEF Breaks
    <2> HIDE DEF low, high
    <2>3. mid \in 1 .. n /\ low < mid /\ mid < high
      BY <1>1, <2>2
    <2> HIDE DEF mid
    <2>4. CASE diff[mid] < 0
      <3>1. Halve(w, diff) = [low |-> low, high |-> mid]
        BY <2>1, <2>4, Zenon
      <3>2. Halve(w, diff) \in Intervals(n)
        BY <1>1, <2>3, <3>1 DEF Intervals
      <3>. QED
        BY <1>1, <1>3, <2>3, <3>1, <3>2 DEF low, high
    <2>5. CASE ~(diff[mid] < 0)
      <3>1. Halve(w, diff) = [low |-> mid, high |-> high]
        BY <2>1, <2>5, Zenon
      <3>2. Halve(w, diff) \in Intervals(n)
        BY <1>1, <2>3, <3>1 DEF Intervals
      <3>. QED
        BY <1>1, <1>3, <2>3, <3>1, <3>2 DEF low, high
    <2>. QED
      BY <2>4, <2>5, Zenon
  <1>. QED
    BY <1>2, <1>3, Zenon

\* A turn does not drop the half that holds the target.
LEMMA HalveEncloses ==
  ASSUME NEW n \in Nat, NEW diff, Falling(diff, n), NEW w \in Intervals(n),
         Encloses(w, diff, n)
  PROVE  Encloses(Halve(w, diff), diff, n)
  <1> DEFINE low == w.low
             high == w.high
             mid == (low + high) \div 2
  <1>1. low \in 1 .. n /\ high \in 1 .. n /\ low <= high
    BY DEF Intervals
  <1>2. CASE Breaks(w, diff)
    BY <1>2, HalveType, Zenon
  <1>3. CASE ~Breaks(w, diff)
    <2>1. Halve(w, diff) = IF diff[mid] < 0 THEN [low |-> low, high |-> mid]
                           ELSE [low |-> mid, high |-> high]
      BY <1>3, Zenon DEF Breaks, Halve
    <2>2. \A j \in 1 .. n : diff[j] = 0 => low <= j /\ j <= high
      BY Zenon DEF Encloses
    <2> HIDE DEF low, high
    <2>3. mid \in 1 .. n
      BY <1>1
    <2> HIDE DEF mid
    <2>4. ASSUME NEW j \in 1 .. n, diff[j] = 0, diff[mid] < 0 PROVE j <= mid
      <3>1. mid < j /\ diff[mid] <= 0 => diff[j] < 0
        BY <2>3, Zenon DEF Falling
      <3>2. diff[mid] \in Int
        BY <2>3, Zenon DEF Falling
      <3>. QED
        BY <2>3, <2>4, <3>1, <3>2
    <2>5. ASSUME NEW j \in 1 .. n, diff[j] = 0, ~(diff[mid] < 0) PROVE mid <= j
      <3>1. j < mid /\ diff[j] <= 0 => diff[mid] < 0
        BY <2>3, Zenon DEF Falling
      <3>. QED
        BY <2>3, <2>5, <3>1
    <2>6. CASE diff[mid] < 0
      <3>1. Halve(w, diff) = [low |-> low, high |-> mid]
        BY <2>1, <2>6, Zenon
      <3>2. Halve(w, diff).low = low /\ Halve(w, diff).high = mid
        BY <3>1
      <3>. QED
        BY <2>2, <2>4, <2>6, <3>2, Zenon DEF Encloses
    <2>7. CASE ~(diff[mid] < 0)
      <3>1. Halve(w, diff) = [low |-> mid, high |-> high]
        BY <2>1, <2>7, Zenon
      <3>2. Halve(w, diff).low = mid /\ Halve(w, diff).high = high
        BY <3>1
      <3>. QED
        BY <2>2, <2>5, <2>7, <3>2, Zenon DEF Encloses
    <2>. QED
      BY <2>6, <2>7, Zenon
  <1>. QED
    BY <1>2, <1>3, Zenon

\* g is the interval after each turn of the loop.
Halvings(g, diff, n) ==
  /\ g \in [0 .. n -> Intervals(n)]
  /\ g[0] = [low |-> 1, high |-> n]
  /\ \A k \in 1 .. n : g[k] = Halve(g[k - 1], diff)

BisectRuns(diff, n) == \E g : Halvings(g, diff, n) /\ Bisect(diff) = elem_found(g[n], diff)

LEMMA BisectRun ==
  ASSUME NEW n \in Nat, n # 0, NEW diff, Falling(diff, n)
  PROVE  BisectRuns(diff, n)
  <1> DEFINE S == Intervals(n)
             x == [low |-> 1, high |-> n]
             step == [k \in 1 .. n |-> [w \in S |-> Halve(w, diff)]]
             Eq(f) == f = [k \in 0 .. n |-> IF k = 0 THEN x ELSE Halve(f[k - 1], diff)]
             turn == CHOOSE f : Eq(f)
  <1>0. Len(diff) = n
    BY DEF Falling
  <1>1. x \in S
    BY DEF Intervals
  <1>2. step \in [1 .. n -> [S -> S]]
    BY HalveType, Zenon
  <1>3. \E f : Eq(f)
    <2>1. PICK g : Run(g, n, x, step, S)
      <3> HIDE DEF S, step, x
      <3>. QED
        BY <1>1, <1>2, Runs, Zenon
    <2>2. \A k \in 1 .. n : k - 1 \in 0 .. n
      OBVIOUS
    <2>3. \A k \in 1 .. n : g[k] = Halve(g[k - 1], diff)
      BY <2>1, <2>2, Zenon DEF Run
    <2>4. \A k \in 0 .. n : k # 0 => k \in 1 .. n
      OBVIOUS
    <2> HIDE DEF x
    <2>5. \A k \in 0 .. n : g[k] = IF k = 0 THEN x ELSE Halve(g[k - 1], diff)
      BY <2>1, <2>3, <2>4, Zenon DEF Run
    <2>. QED
      BY <2>1, <2>5, Zenon DEF Run
  <1>4. Eq(turn)
    BY <1>3, Zenon
  <1>5. Bisect(diff) = elem_found(turn[n], diff)
    BY <1>0, Zenon DEF Bisect
  <1> HIDE DEF turn, x
  <1>6. /\ turn[0] = x
        /\ \A k \in 1 .. n : turn[k] = Halve(turn[k - 1], diff)
    <2>1. 0 \in 0 .. n /\ \A k \in 1 .. n : k \in 0 .. n /\ k # 0
      OBVIOUS
    <2>. QED
      BY <1>4, <2>1, Zenon
  <1> DEFINE T == {k \in 0 .. n : turn[k] \in S}
  <1>7. Climbs(T, n)
    <2>1. 0 \in T
      BY <1>1, <1>6
    <2>2. ASSUME NEW k \in 0 .. n - 1, k \in T
          PROVE  k + 1 \in T
      <3>1. k + 1 \in 1 .. n /\ k + 1 - 1 = k /\ k + 1 \in 0 .. n
        OBVIOUS
      <3>2. turn[k + 1] = Halve(turn[k], diff)
        BY <1>6, <3>1
      <3>3. turn[k] \in Intervals(n)
        BY <2>2
      <3>4. Halve(turn[k], diff) \in Intervals(n)
        BY <3>3, HalveType, Zenon
      <3>. QED
        BY <3>1, <3>2, <3>4, Zenon
    <2> HIDE DEF T
    <2>. QED
      BY <2>1, <2>2, Zenon DEF Climbs
  <1>8. \A k \in 0 .. n : turn[k] \in S
    <2>1. ASSUME NEW k \in 0 .. n PROVE k \in T
      <3> HIDE DEF T
      <3>. QED
        BY <1>7, Climb
    <2>. QED
      BY <2>1
  <1>9. Halvings(turn, diff, n)
    <2>1. turn \in [0 .. n -> S]
      BY <1>4, <1>8, Zenon
    <2>. QED
      BY <1>6, <2>1, Zenon DEF Halvings, x
  <1>. QED
    BY <1>5, <1>9, Zenon DEF BisectRuns

\* What a search has to return.
Finds(r, diff, n) ==
  /\ r \in 0 .. n
  /\ r # 0 => diff[r] = 0
  /\ r = 0 => \A j \in 1 .. n : diff[j] # 0

\* An interval that encloses the target, and at which the loop breaks, has it
\* at one of its ends.
LEMMA BreaksFound ==
  ASSUME NEW n \in Nat, NEW diff, Falling(diff, n), NEW w \in Intervals(n),
         Encloses(w, diff, n), Breaks(w, diff)
  PROVE  Finds(elem_found(w, diff), diff, n)
  <1>1. w.low \in 1 .. n /\ w.high \in 1 .. n /\ w.low <= w.high
    BY DEF Intervals
  <1>2. CASE diff[w.low] = 0
    <2>1. elem_found(w, diff) = w.low
      BY <1>2 DEF elem_found
    <2>2. w.low \in 0 .. n /\ w.low # 0
      BY <1>1
    <2>. QED
      BY <1>2, <2>1, <2>2 DEF Finds
  <1>3. CASE diff[w.low] # 0 /\ diff[w.high] = 0
    <2>1. elem_found(w, diff) = w.high
      BY <1>3 DEF elem_found
    <2>2. w.high \in 0 .. n /\ w.high # 0
      BY <1>1
    <2>. QED
      BY <1>3, <2>1, <2>2 DEF Finds
  <1>4. CASE diff[w.low] # 0 /\ diff[w.high] # 0
    <2>1. elem_found(w, diff) = 0
      BY <1>4 DEF elem_found
    <2>2. (w.low + w.high) \div 2 = w.low \/ (w.low + w.high) \div 2 = w.high
      BY <1>4, Zenon DEF Breaks
    <2>3. w.high <= w.low + 1
      BY <1>1, <2>2
    <2>4. ASSUME NEW j \in 1 .. n, diff[j] = 0 PROVE FALSE
      <3>1. w.low <= j /\ j <= w.high
        BY <2>4, Zenon DEF Encloses
      <3>2. j = w.low \/ j = w.high
        BY <1>1, <2>3, <3>1
      <3>. QED
        BY <1>4, <2>4, <3>2, Zenon
    <2>5. 0 \in 0 .. n
      OBVIOUS
    <2>. QED
      BY <2>1, <2>4, <2>5, Zenon DEF Finds
  <1>. QED
    BY <1>2, <1>3, <1>4, Zenon

\* The two-ended search finds the target if it is there (search.h 10-37).
LEMMA BisectFinds ==
  ASSUME NEW n \in Nat, NEW diff, Falling(diff, n)
  PROVE  Finds(Bisect(diff), diff, n)
  <1>1. CASE n = 0
    <2>1. Len(diff) = 0
      BY <1>1 DEF Falling
    <2>2. Bisect(diff) = 0
      BY <2>1, Zenon DEF Bisect
    <2>. QED
      BY <1>1, <2>2 DEF Finds
  <1>2. CASE n # 0
    <2>1. PICK g : Halvings(g, diff, n) /\ Bisect(diff) = elem_found(g[n], diff)
      <3>1. BisectRuns(diff, n)
        BY <1>2, BisectRun
      <3>. QED
        BY <3>1, Zenon DEF BisectRuns
    <2> DEFINE T == {k \in 0 .. n : /\ Encloses(g[k], diff, n)
                                    /\ Breaks(g[k], diff) \/ g[k].high - g[k].low <= n - 1 - k}
    <2>2. 0 \in T
      <3>1. g[0].low = 1 /\ g[0].high = n
        BY <2>1 DEF Halvings
      <3>2. Encloses(g[0], diff, n)
        BY <3>1 DEF Encloses
      <3>. QED
        BY <3>1, <3>2
    <2>3. ASSUME NEW k \in 0 .. n - 1, k \in T
          PROVE  k + 1 \in T
      <3>1. k + 1 \in 1 .. n /\ (k + 1) - 1 = k /\ k \in 0 .. n /\ k + 1 \in 0 .. n
        OBVIOUS
      <3>2. g[k + 1] = Halve(g[k], diff)
        <4>1. g[k + 1] = Halve(g[(k + 1) - 1], diff)
          BY <2>1, <3>1, Zenon DEF Halvings
        <4>. QED
          BY <3>1, <4>1
      <3>3. g[k] \in Intervals(n) /\ g[k + 1] \in Intervals(n)
        BY <2>1, <3>1, Zenon DEF Halvings
      <3>4. Encloses(g[k + 1], diff, n)
        BY <2>3, <3>2, <3>3, HalveEncloses
      <3>5. CASE Breaks(g[k], diff)
        <4>1. g[k + 1] = g[k]
          BY <3>2, <3>3, <3>5, HalveType, Zenon
        <4>. QED
          BY <3>1, <3>4, <3>5, <4>1
      <3>6. CASE ~Breaks(g[k], diff)
        <4>1. g[k + 1].high - g[k + 1].low < g[k].high - g[k].low
          BY <3>2, <3>3, <3>6, HalveType, Zenon
        <4>2. g[k].high - g[k].low <= n - 1 - k
          BY <2>3, <3>6
        <4>3. /\ g[k].high \in Int /\ g[k].low \in Int
              /\ g[k + 1].high \in Int /\ g[k + 1].low \in Int
          BY <3>3 DEF Intervals
        <4>4. g[k + 1].high - g[k + 1].low <= n - 1 - (k + 1)
          BY <4>1, <4>2, <4>3
        <4>. QED
          BY <3>1, <3>4, <4>4, Zenon
      <3>. QED
        BY <3>5, <3>6, Zenon
    <2>4. Climbs(T, n)
      <3> HIDE DEF T
      <3>. QED
        BY <2>2, <2>3, Zenon DEF Climbs
    <2>5. n \in T
      <3> HIDE DEF T
      <3>. QED
        BY <2>4, Climb
    <2>6. n \in 0 .. n
      OBVIOUS
    <2>7. g[n] \in Intervals(n)
      BY <2>1, <2>6, Zenon DEF Halvings
    <2>8. Encloses(g[n], diff, n)
      BY <2>5, Zenon
    <2>9. Breaks(g[n], diff)
      <3>1. ~(g[n].high - g[n].low <= n - 1 - n)
        BY <2>7 DEF Intervals
      <3>. QED
        BY <2>5, <3>1, Zenon
    <2>. QED
      BY <2>1, <2>7, <2>8, <2>9, BreaksFound
  <1>. QED
    BY <1>1, <1>2, Zenon

\* b is a sorted by key.
Sorted(b, a, n, E, key) ==
  /\ b \in Arrays(n, E)
  /\ \A i, j \in 1 .. n : i < j => key[b[i]] < key[b[j]]
  /\ \A j \in 1 .. n : \E i \in 1 .. n : b[j] = a[i]
  /\ \A i \in 1 .. n : \E j \in 1 .. n : b[j] = a[i]

\* The bubble sort sorts (sort.h 12-27).
LEMMA SortSorts ==
  ASSUME NEW n \in Nat, NEW E, NEW a \in Arrays(n, E), NEW after, NEW key,
         Keyed(after, key, E), Distinct(a, n, key)
  PROVE  Sorted(BubbleSort(a, after), a, n, E, key)
  <1> DEFINE b == BubbleSort(a, after)
  <1>1. b \in Arrays(n, E) /\ Sunk(b, a, n, n, key)
    BY SortSinks
  <1> HIDE DEF b
  <1>2. ASSUME NEW i \in 1 .. n, NEW j \in 1 .. n, i < j
        PROVE  key[b[i]] < key[b[j]]
    <2>1. i \in 1 .. j /\ j \in (n - n) + 1 .. n /\ i # j
      BY <1>2
    <2>2. key[b[i]] <= key[b[j]]
      BY <1>1, <2>1, Zenon DEF Sunk, Settled
    <2>3. key[b[i]] # key[b[j]]
      BY <1>1, <2>1, Zenon DEF Sunk, Distinct
    <2>4. key[b[i]] \in Int /\ key[b[j]] \in Int
      BY <1>1, Zenon DEF Arrays, Keyed
    <2>. QED
      BY <2>2, <2>3, <2>4
  <1>3. Sorted(b, a, n, E, key)
    BY <1>1, <1>2, Zenon DEF Sorted, Sunk, Rearranged
  <1>. QED
    BY <1>3, Zenon DEF b

-----------------------------------------------------------------------------
(* The tables.                                                             *)

PortOps == [portid : Ports, ops : Callbacks]

LEMMA PortIds == (\A p \in Ports : p \in Nat) /\ \A x \in PortOps : x.portid \in Nat
  <1>1. \A p \in Ports : p \in Nat
    <2>1. \A p \in PortNumbers : p \in Nat
      BY Zenon DEF PortNumbers
    <2>. QED
      BY <2>1, PortsAssumption, Zenon
  <1>2. \A x \in PortOps : x.portid \in Ports
    BY Zenon DEF PortOps
  <1>. QED
    BY <1>1, <1>2, Zenon

PortsAscend(s) ==
  /\ s \in Seq(PortOps)
  /\ \A i, j \in 1 .. Len(s) : i < j => s[i].portid < s[j].portid

\* What a search for a port returns.
PortFound(r, s, port) ==
  /\ r \in 0 .. Len(s)
  /\ r # 0 => s[r].portid = port
  /\ r = 0 => \A i \in 1 .. Len(s) : s[i].portid # port

LEMMA PortSearch ==
  ASSUME NEW s, PortsAscend(s), NEW target, target.portid \in Nat
  PROVE  PortFound(SEARCH(s, target, port_ops_compare), s, target.portid)
  <1> DEFINE n == Len(s)
             t == target.portid
             diff == [i \in 1 .. n |-> t - s[i].portid]
  <1>1. SEARCH(s, target, port_ops_compare) = Bisect(diff)
    <2>1. SEARCH(s, target, port_ops_compare)
            = Bisect([i \in 1 .. Len(s) |-> port_ops_compare(target, s[i])])
      BY Zenon DEF SEARCH
    <2>2. \A i \in 1 .. n : port_ops_compare(target, s[i]) = t - s[i].portid
      BY Zenon DEF port_ops_compare
    <2>3. [i \in 1 .. Len(s) |-> port_ops_compare(target, s[i])] = diff
      BY <2>2, Zenon
    <2>. QED
      BY <2>1, <2>3, Zenon
  <1>2. n \in Nat /\ \A i \in 1 .. n : s[i].portid \in Nat
    <2>1. Len(s) \in Nat /\ \A i \in 1 .. Len(s) : s[i] \in PortOps
      BY DEF PortsAscend
    <2>2. \A x \in PortOps : x.portid \in Nat
      BY PortIds, Zenon
    <2>. QED
      BY <2>1, <2>2, Zenon
  <1>3. \A i, j \in 1 .. n : i < j => s[i].portid < s[j].portid
    BY Zenon DEF PortsAscend
  <1>4. t \in Nat
    OBVIOUS
  <1> HIDE DEF n, t
  <1>5. \A i \in 1 .. n : diff[i] = t - s[i].portid
    OBVIOUS
  <1>6. diff \in [1 .. n -> Int]
    BY <1>2, <1>4
  <1> HIDE DEF diff
  <1>7. Falling(diff, n)
    <2>1. ASSUME NEW i \in 1 .. n, NEW j \in 1 .. n, i < j, diff[i] <= 0 PROVE diff[j] < 0
      <3>1. s[i].portid < s[j].portid /\ s[i].portid \in Nat /\ s[j].portid \in Nat
        BY <1>2, <1>3, <2>1, Zenon
      <3>2. diff[i] = t - s[i].portid /\ diff[j] = t - s[j].portid
        BY <1>5, Zenon
      <3>. QED
        BY <1>4, <2>1, <3>1, <3>2
    <2>. QED
      BY <1>6, <2>1, Zenon DEF Falling
  <1>8. Finds(Bisect(diff), diff, n)
    BY <1>2, <1>7, BisectFinds
  <1> DEFINE r == Bisect(diff)
  <1>9. PortFound(r, s, t)
    <2> HIDE DEF r
    <2>1. \A i \in 1 .. n : diff[i] = 0 <=> s[i].portid = t
      BY <1>2, <1>4, <1>5
    <2>2. r # 0 /\ r \in 0 .. n => r \in 1 .. n
      BY <1>2
    <2>. QED
      BY <1>8, <2>1, <2>2, Zenon DEF Finds, PortFound, n, r
  <1>. QED
    BY <1>1, <1>9, Zenon DEF t

\* b has the elements of s, and x.
Inserted(b, s, x) ==
  /\ Len(b) = Len(s) + 1
  /\ \A j \in 1 .. Len(b) : b[j] = x \/ \E i \in 1 .. Len(s) : b[j] = s[i]
  /\ \A i \in 1 .. Len(s) : \E j \in 1 .. Len(b) : b[j] = s[i]
  /\ \E j \in 1 .. Len(b) : b[j] = x

\* A sequence ordered by a key to which an element with another key is
\* appended: what the bubble sort makes of it.
LEMMA SortInserts ==
  ASSUME NEW E, NEW s \in Seq(E), NEW x \in E, NEW after, NEW key,
         Keyed(after, key, E),
         \A i, j \in 1 .. Len(s) : i < j => key[s[i]] < key[s[j]],
         \A i \in 1 .. Len(s) : key[s[i]] # key[x],
         NEW b, b = BubbleSort(Append(s, x), after)
  PROVE  /\ b \in Seq(E)
         /\ Inserted(b, s, x)
         /\ \A i, j \in 1 .. Len(b) : i < j => key[b[i]] < key[b[j]]
  <1> DEFINE a == Append(s, x)
             m == Len(s)
             n == m + 1
  <1>1. m \in Nat /\ n \in Nat /\ n \in 1 .. n /\ \A i \in 1 .. m : i \in 1 .. n
    OBVIOUS
  <1>2. /\ a[n] = x
        /\ \A i \in 1 .. m : a[i] = s[i]
        /\ a \in [1 .. n -> E]
    <2>1. a[n] = x /\ \A i \in 1 .. m : a[i] = s[i]
      OBVIOUS
    <2>2. a \in Seq(E) /\ Len(a) = n
      OBVIOUS
    <2>3. a \in [1 .. n -> E]
      <3> HIDE DEF a, n
      <3>. QED
        BY <2>2
    <2>. QED
      BY <2>1, <2>3, Zenon
  <1>3. \A i \in 1 .. n : i # n => i \in 1 .. m
    <2> HIDE DEF m
    <2>. QED
      BY <1>1
  <1>4. \A i \in 1 .. m : key[s[i]] \in Int
    BY DEF Keyed
  <1>5. b = BubbleSort(a, after)
    OBVIOUS
  <1>6. \A i, j \in 1 .. m : i < j => key[s[i]] < key[s[j]]
    OBVIOUS
  <1>7. \A i \in 1 .. m : key[s[i]] # key[x]
    OBVIOUS
  <1> HIDE DEF a
  <1>8. Distinct(a, n, key)
    <2>1. ASSUME NEW i \in 1 .. m, NEW j \in 1 .. m, i # j PROVE key[s[i]] # key[s[j]]
      <3>1. i < j \/ j < i
        BY <2>1
      <3>2. key[s[i]] \in Int /\ key[s[j]] \in Int
        BY <1>4, Zenon
      <3>3. key[s[i]] < key[s[j]] \/ key[s[j]] < key[s[i]]
        BY <1>6, <3>1, Zenon
      <3>. QED
        BY <3>2, <3>3
    <2> HIDE DEF m, n
    <2>2. ASSUME NEW i \in 1 .. n, NEW j \in 1 .. n, i # j PROVE key[a[i]] # key[a[j]]
      <3>1. CASE i = n
        <4>1. a[i] = x /\ j \in 1 .. m
          BY <1>2, <1>3, <2>2, <3>1, Zenon
        <4>. QED
          BY <1>2, <1>7, <4>1, Zenon
      <3>2. CASE j = n
        <4>1. a[j] = x /\ i \in 1 .. m
          BY <1>2, <1>3, <2>2, <3>2, Zenon
        <4>. QED
          BY <1>2, <1>7, <4>1, Zenon
      <3>3. CASE i # n /\ j # n
        <4>1. i \in 1 .. m /\ j \in 1 .. m
          BY <1>3, <3>3, Zenon
        <4>. QED
          BY <1>2, <2>1, <2>2, <4>1, ZenonT(60)
      <3>. QED
        BY <3>1, <3>2, <3>3, Zenon
    <2>. QED
      BY <2>2, Zenon DEF Distinct
  <1> HIDE DEF m, n
  <1>9. Sorted(b, a, n, E, key)
    <2>1. a \in Arrays(n, E)
      BY <1>2, Zenon DEF Arrays
    <2>2. Sorted(BubbleSort(a, after), a, n, E, key)
      BY <1>1, <1>8, <2>1, SortSorts
    <2>. QED
      BY <1>5, <2>2, Zenon
  <1>10. b \in Seq(E) /\ Len(b) = n
    <2>1. b \in [1 .. n -> E]
      BY <1>9, Zenon DEF Sorted, Arrays
    <2>. QED
      BY <1>1, <2>1
  <1>11. \A j \in 1 .. n : b[j] = x \/ \E i \in 1 .. m : b[j] = s[i]
    <2>1. ASSUME NEW j \in 1 .. n PROVE b[j] = x \/ \E i \in 1 .. m : b[j] = s[i]
      <3>1. PICK i \in 1 .. n : b[j] = a[i]
        BY <1>9, Zenon DEF Sorted
      <3>2. i = n \/ i \in 1 .. m
        BY <1>3, Zenon
      <3>. QED
        BY <1>2, <3>1, <3>2, Zenon
    <2>. QED
      BY <2>1
  <1>12. \A i \in 1 .. m : \E j \in 1 .. n : b[j] = s[i]
    <2>1. ASSUME NEW i \in 1 .. m PROVE \E j \in 1 .. n : b[j] = s[i]
      <3>1. i \in 1 .. n /\ a[i] = s[i]
        BY <1>1, <1>2, Zenon
      <3>2. PICK j \in 1 .. n : b[j] = a[i]
        BY <1>9, <3>1, Zenon DEF Sorted
      <3>. QED
        BY <3>1, <3>2, Zenon
    <2>. QED
      BY <2>1
  <1>13. \E j \in 1 .. n : b[j] = x
    <2>1. PICK j \in 1 .. n : b[j] = a[n]
      BY <1>1, <1>9, Zenon DEF Sorted
    <2>. QED
      BY <1>2, <2>1, Zenon
  <1>14. Inserted(b, s, x)
    BY <1>10, <1>11, <1>12, <1>13, Zenon DEF Inserted, m, n
  <1>. QED
    BY <1>9, <1>10, <1>14, Zenon DEF Sorted

LEMMA PortSort ==
  ASSUME NEW s, PortsAscend(s), NEW pio \in PortOps, PortFound(0, s, pio.portid),
         NEW b, b = SORT(Append(s, pio), port_ops_compare)
  PROVE  PortsAscend(b) /\ Inserted(b, s, pio)
  <1> DEFINE a == Append(s, pio)
             E == {a[i] : i \in DOMAIN a}
             after == {p \in E \X E : port_ops_compare(p[1], p[2]) > 0}
             key == [x \in E |-> x.portid]
  <1>1. b = BubbleSort(a, after)
    BY Zenon DEF SORT
  <1>2. s \in Seq(PortOps) /\ pio \in PortOps
    BY Zenon DEF PortsAscend
  <1>3. DOMAIN a = 1 .. Len(s) + 1 /\ a[Len(s) + 1] = pio /\ Len(s) \in Nat
    BY <1>2
  <1>4. \A i \in 1 .. Len(s) : a[i] = s[i] /\ s[i] \in PortOps
    BY <1>2
  <1>5. Len(s) + 1 \in 1 .. Len(s) + 1 /\ \A i \in 1 .. Len(s) : i \in 1 .. Len(s) + 1
    BY <1>3
  <1> HIDE DEF a
  <1>6. pio \in E /\ \A i \in 1 .. Len(s) : s[i] \in E
    BY <1>3, <1>4, <1>5, Zenon
  <1>7. ASSUME NEW x \in E PROVE x \in PortOps
    <2>1. PICK i \in DOMAIN a : x = a[i]
      BY Zenon
    <2>2. i = Len(s) + 1 \/ i \in 1 .. Len(s)
      BY <1>3, <2>1
    <2>. QED
      BY <1>2, <1>3, <1>4, <2>1, <2>2, Zenon
  <1>8. s \in Seq(E)
    <2> HIDE DEF E
    <2>. QED
      BY <1>2, <1>3, <1>6
  <1>9. \A x \in PortOps : x.portid \in Nat
    BY PortIds, Zenon
  <1>10. Keyed(after, key, E)
    <2>1. key \in [E -> Int]
      <3>1. \A x \in E : x.portid \in Int
        <4> HIDE DEF E
        <4>. QED
          BY <1>7, <1>9
      <3>. QED
        BY <3>1, Zenon
    <2>2. ASSUME NEW x \in E, NEW y \in E
          PROVE  <<x, y>> \in after <=> key[x] > key[y]
      <3> HIDE DEF E
      <3>1. x.portid \in Nat /\ y.portid \in Nat
        BY <1>7, <1>9, Zenon
      <3>2. key[x] = x.portid /\ key[y] = y.portid
        BY Zenon
      <3>3. x.portid - y.portid > 0 <=> x.portid > y.portid
        BY <3>1
      <3>4. <<x, y>> \in after <=> port_ops_compare(<<x, y>>[1], <<x, y>>[2]) > 0
        BY Zenon
      <3>5. <<x, y>>[1] = x /\ <<x, y>>[2] = y
        OBVIOUS
      <3>. QED
        BY <3>2, <3>3, <3>4, <3>5, Zenon DEF port_ops_compare
    <2> HIDE DEF E, after, key
    <2>. QED
      BY <2>1, <2>2, Zenon DEF Keyed
  <1>11. \A i \in 1 .. Len(s) : key[s[i]] = s[i].portid
    BY <1>6, Zenon
  <1>12. key[pio] = pio.portid
    BY <1>6, Zenon
  <1>13. \A x \in E : key[x] = x.portid
    OBVIOUS
  <1> HIDE DEF E, after, key
  <1>14. \A i, j \in 1 .. Len(s) : i < j => key[s[i]] < key[s[j]]
    BY <1>11, Zenon DEF PortsAscend
  <1>15. \A i \in 1 .. Len(s) : key[s[i]] # key[pio]
    BY <1>11, <1>12, Zenon DEF PortFound
  <1>16. b = BubbleSort(Append(s, pio), after)
    BY <1>1, Zenon DEF a
  <1>17. /\ b \in Seq(E) /\ Inserted(b, s, pio)
         /\ \A i, j \in 1 .. Len(b) : i < j => key[b[i]] < key[b[j]]
    BY <1>6, <1>8, <1>10, <1>14, <1>15, <1>16, SortInserts
  <1>18. \A i \in 1 .. Len(b) : b[i] \in E
    BY <1>17
  <1>19. b \in Seq(PortOps)
    BY <1>7, <1>17, <1>18
  <1>20. \A i, j \in 1 .. Len(b) : i < j => b[i].portid < b[j].portid
    BY <1>13, <1>17, <1>18, Zenon
  <1>. QED
    BY <1>17, <1>19, <1>20, Zenon DEF PortsAscend

RegionsAscend(s) ==
  /\ s \in Seq(Regions)
  /\ \A i, j \in 1 .. Len(s) : i < j => s[i].addr_low < s[j].addr_low

Holds(r, a) == r.addr_low <= a /\ a < r.addr_high

\* What a search for an address returns.
RegionFound(r, s, a) ==
  /\ r \in 0 .. Len(s)
  /\ r # 0 => Holds(s[r], a)
  /\ r = 0 => \A i \in 1 .. Len(s) : ~Holds(s[i], a)

\* Of two regions the one that begins first ends before the other begins.
LEMMA Disjoint ==
  ASSUME NEW r \in Regions, NEW q \in Regions
  PROVE  /\ r.addr_low \in Nat /\ r.addr_high \in Nat /\ r.addr_low < r.addr_high
         /\ r.addr_low < q.addr_low => r.addr_high <= q.addr_low
  <1>1. /\ r.addr_low \in Nat /\ r.addr_high \in Nat /\ r.addr_low < r.addr_high
        /\ q.addr_low \in Nat /\ q.addr_high \in Nat /\ q.addr_low < q.addr_high
    BY RegionsAssumption
  <1>2. r # q => r.addr_high <= q.addr_low \/ q.addr_high <= r.addr_low
    BY RegionsAssumption, Zenon
  <1>3. r.addr_low < q.addr_low => r # q
    BY <1>1
  <1>. QED
    BY <1>1, <1>2, <1>3

LEMMA RegionOrder ==
  ASSUME NEW x \in Regions, NEW y \in Regions
  PROVE  mmio_operation_compare(x, y) > 0 <=> x.addr_low > y.addr_low
  <1>1. /\ x.addr_low \in Nat /\ x.addr_high \in Nat /\ x.addr_low < x.addr_high
        /\ y.addr_low \in Nat /\ y.addr_high \in Nat /\ y.addr_low < y.addr_high
        /\ y.addr_low < x.addr_low => y.addr_high <= x.addr_low
    BY Disjoint, Zenon
  <1>. QED
    BY <1>1 DEF mmio_operation_compare

LEMMA RegionSearch ==
  ASSUME NEW s, RegionsAscend(s), NEW a \in Nat
  PROVE  RegionFound(search_mmio_callback(s, a), s, a)
  <1> DEFINE n == Len(s)
             target == [addr_low |-> a, addr_high |-> a + 1]
             diff == [i \in 1 .. n |-> mmio_operation_compare(target, s[i])]
             r == Bisect(diff)
  <1>1. search_mmio_callback(s, a) = r
    BY Zenon DEF SEARCH, search_mmio_callback
  <1>2. n \in Nat /\ \A i \in 1 .. n : s[i] \in Regions
    BY DEF RegionsAscend
  <1>3. ASSUME NEW i \in 1 .. n
        PROVE  diff[i] = IF a < s[i].addr_low THEN -1
                         ELSE IF a >= s[i].addr_high THEN 1 ELSE 0
    <2>1. diff[i] = mmio_operation_compare(target, s[i])
      BY Zenon
    <2>2. /\ s[i].addr_low \in Nat /\ s[i].addr_high \in Nat
          /\ s[i].addr_low < s[i].addr_high
      BY <1>2, Disjoint, Zenon
    <2>3. target.addr_low = a /\ target.addr_high = a + 1
      OBVIOUS
    <2> HIDE DEF target, diff
    <2>. QED
      BY <2>1, <2>2, <2>3 DEF mmio_operation_compare
  <1>4. \A i, j \in 1 .. n : i < j => s[i].addr_low < s[j].addr_low
    BY Zenon DEF RegionsAscend
  <1>5. diff \in [1 .. n -> Int]
    <2>1. \A i \in 1 .. n : diff[i] \in Int
      <3> HIDE DEF diff
      <3>. QED
        BY <1>3
    <2>. QED
      BY <2>1, Zenon
  <1> HIDE DEF diff
  <1>6. Falling(diff, n)
    <2>1. ASSUME NEW i \in 1 .. n, NEW j \in 1 .. n, i < j, diff[i] <= 0 PROVE diff[j] < 0
      <3>1. s[i].addr_low < s[j].addr_low /\ s[i] \in Regions /\ s[j] \in Regions
        BY <1>2, <1>4, <2>1, Zenon
      <3>2. /\ s[i].addr_low \in Nat /\ s[i].addr_high \in Nat
            /\ s[j].addr_low \in Nat /\ s[j].addr_high \in Nat
            /\ s[i].addr_high <= s[j].addr_low
        BY <3>1, Disjoint, Zenon
      <3>3. ~(a >= s[i].addr_high)
        <4>1. /\ diff[i] = IF a < s[i].addr_low THEN -1
                           ELSE IF a >= s[i].addr_high THEN 1 ELSE 0
              /\ s[i].addr_low < s[i].addr_high
          BY <1>3, <3>1, Disjoint, Zenon
        <4>. QED
          BY <2>1, <3>2, <4>1
      <3>4. a < s[j].addr_low
        BY <3>2, <3>3
      <3>5. diff[j] = -1
        BY <1>3, <3>4, Zenon
      <3>. QED
        BY <3>5
    <2>. QED
      BY <1>5, <2>1, Zenon DEF Falling
  <1>7. Finds(Bisect(diff), diff, n)
    BY <1>2, <1>6, BisectFinds
  <1>8. RegionFound(r, s, a)
    <2>1. ASSUME NEW i \in 1 .. n PROVE diff[i] = 0 <=> Holds(s[i], a)
      <3>1. s[i].addr_low \in Nat /\ s[i].addr_high \in Nat
        BY <1>2, Disjoint, Zenon
      <3>2. diff[i] = IF a < s[i].addr_low THEN -1
                      ELSE IF a >= s[i].addr_high THEN 1 ELSE 0
        BY <1>3, Zenon
      <3>. QED
        BY <3>1, <3>2 DEF Holds
    <2>2. Finds(r, diff, n)
      BY <1>7, Zenon
    <2> HIDE DEF r
    <2>3. r # 0 /\ r \in 0 .. n => r \in 1 .. n
      BY <1>2
    <2>. QED
      BY <2>1, <2>2, <2>3, Zenon DEF Finds, RegionFound, n
  <1>. QED
    BY <1>1, <1>8, Zenon
LEMMA RegionSort ==
  ASSUME NEW s, RegionsAscend(s), NEW mmio \in Regions, RegionFound(0, s, mmio.addr_low),
         NEW b, b = SORT(Append(s, mmio), mmio_operation_compare)
  PROVE  RegionsAscend(b) /\ Inserted(b, s, mmio)
  <1> DEFINE a == Append(s, mmio)
             E == {a[i] : i \in DOMAIN a}
             after == {p \in E \X E : mmio_operation_compare(p[1], p[2]) > 0}
             key == [x \in E |-> x.addr_low]
  <1>1. b = BubbleSort(a, after)
    BY Zenon DEF SORT
  <1>2. s \in Seq(Regions) /\ mmio \in Regions
    BY Zenon DEF RegionsAscend
  <1>3. DOMAIN a = 1 .. Len(s) + 1 /\ a[Len(s) + 1] = mmio /\ Len(s) \in Nat
    BY <1>2
  <1>4. \A i \in 1 .. Len(s) : a[i] = s[i] /\ s[i] \in Regions
    BY <1>2
  <1>5. Len(s) + 1 \in 1 .. Len(s) + 1 /\ \A i \in 1 .. Len(s) : i \in 1 .. Len(s) + 1
    BY <1>3
  <1> HIDE DEF a
  <1>6. mmio \in E /\ \A i \in 1 .. Len(s) : s[i] \in E
    BY <1>3, <1>4, <1>5, Zenon
  <1>7. ASSUME NEW x \in E PROVE x \in Regions
    <2>1. PICK i \in DOMAIN a : x = a[i]
      BY Zenon
    <2>2. i = Len(s) + 1 \/ i \in 1 .. Len(s)
      BY <1>3, <2>1
    <2>. QED
      BY <1>2, <1>3, <1>4, <2>1, <2>2, Zenon
  <1>8. s \in Seq(E)
    <2> HIDE DEF E
    <2>. QED
      BY <1>2, <1>3, <1>6
  <1>9. \A x \in Regions : x.addr_low \in Nat
    BY Disjoint
  <1>10. Keyed(after, key, E)
    <2>1. key \in [E -> Int]
      <3>1. \A x \in E : x.addr_low \in Int
        <4> HIDE DEF E
        <4>. QED
          BY <1>7, <1>9
      <3>. QED
        BY <3>1, Zenon
    <2>2. ASSUME NEW x \in E, NEW y \in E
          PROVE  <<x, y>> \in after <=> key[x] > key[y]
      <3> HIDE DEF E
      <3>1. x \in Regions /\ y \in Regions
        BY <1>7, Zenon
      <3>2. key[x] = x.addr_low /\ key[y] = y.addr_low
        BY Zenon
      <3>3. mmio_operation_compare(x, y) > 0 <=> x.addr_low > y.addr_low
        BY <3>1, RegionOrder, Zenon
      <3>4. <<x, y>> \in after <=> mmio_operation_compare(<<x, y>>[1], <<x, y>>[2]) > 0
        BY Zenon
      <3>5. <<x, y>>[1] = x /\ <<x, y>>[2] = y
        OBVIOUS
      <3>. QED
        BY <3>2, <3>3, <3>4, <3>5, Zenon
    <2> HIDE DEF E, after, key
    <2>. QED
      BY <2>1, <2>2, Zenon DEF Keyed
  <1>11. \A i \in 1 .. Len(s) : key[s[i]] = s[i].addr_low
    BY <1>6, Zenon
  <1>12. key[mmio] = mmio.addr_low
    BY <1>6, Zenon
  <1>13. \A x \in E : key[x] = x.addr_low
    OBVIOUS
  <1> HIDE DEF E, after, key
  <1>14. \A i, j \in 1 .. Len(s) : i < j => key[s[i]] < key[s[j]]
    BY <1>11, Zenon DEF RegionsAscend
  <1>15. ASSUME NEW i \in 1 .. Len(s) PROVE key[s[i]] # key[mmio]
    <2>1. ~Holds(s[i], mmio.addr_low)
      BY Zenon DEF RegionFound
    <2>2. /\ s[i].addr_low \in Nat /\ s[i].addr_high \in Nat
          /\ s[i].addr_low < s[i].addr_high
      BY <1>4, Disjoint, Zenon
    <2>3. s[i].addr_low # mmio.addr_low
      BY <2>1, <2>2 DEF Holds
    <2>. QED
      BY <1>11, <1>12, <2>3, Zenon
  <1>16. b = BubbleSort(Append(s, mmio), after)
    BY <1>1, Zenon DEF a
  <1>17. /\ b \in Seq(E) /\ Inserted(b, s, mmio)
         /\ \A i, j \in 1 .. Len(b) : i < j => key[b[i]] < key[b[j]]
    BY <1>6, <1>8, <1>10, <1>14, <1>15, <1>16, SortInserts
  <1>18. \A i \in 1 .. Len(b) : b[i] \in E
    BY <1>17
  <1>19. b \in Seq(Regions)
    BY <1>7, <1>17, <1>18
  <1>20. \A i, j \in 1 .. Len(b) : i < j => b[i].addr_low < b[j].addr_low
    BY <1>13, <1>17, <1>18, Zenon
  <1>. QED
    BY <1>17, <1>19, <1>20, Zenon DEF RegionsAscend


-----------------------------------------------------------------------------
(* The invariant.                                                          *)

\* The port table is in order and has, for each port, what was last
\* registered for it.
PortRegistered(s, l, p) ==
  IF l[p] = None
  THEN \A i \in 1 .. Len(s) : s[i].portid # p
  ELSE \E i \in 1 .. Len(s) : s[i] = [portid |-> p, ops |-> l[p]]

PortsKept(s, l) ==
  /\ PortsAscend(s) /\ Len(s) <= MAX_PORTS_SUPPORTED
  /\ l \in [Ports -> Callbacks \cup {None}]
  /\ \A p \in Ports : PortRegistered(s, l, p)

RegionsKept(s) == RegionsAscend(s) /\ Len(s) <= MAX_NR_MMIO_REGIONS

IInv == PortsKept(portio_ops, latest) /\ RegionsKept(mmio_ops)

\* A port that has been registered has its callbacks replaced.
LEMMA PortReplaced ==
  ASSUME NEW s, NEW l, PortsKept(s, l), NEW pio \in PortOps, NEW k \in 1 .. Len(s),
         s[k].portid = pio.portid
  PROVE  PortsKept([s EXCEPT ![k] = pio], [l EXCEPT ![pio.portid] = pio.ops])
  <1> DEFINE t == [s EXCEPT ![k] = pio]
             m == [l EXCEPT ![pio.portid] = pio.ops]
  <1>1. pio.portid \in Ports /\ pio.ops \in Callbacks
        /\ pio = [portid |-> pio.portid, ops |-> pio.ops]
    BY DEF PortOps
  <1>2. s \in Seq(PortOps)
    BY Zenon DEF PortsKept, PortsAscend
  <1>3. /\ t \in Seq(PortOps) /\ Len(t) = Len(s) /\ t[k] = pio
        /\ \A i \in 1 .. Len(s) : i # k => t[i] = s[i]
    BY <1>2
  <1>4. /\ m \in [Ports -> Callbacks \cup {None}] /\ m[pio.portid] = pio.ops
        /\ \A p \in Ports : p # pio.portid => m[p] = l[p]
    BY <1>1, Zenon DEF PortsKept
  <1> HIDE DEF t, m
  <1>5. \A i \in 1 .. Len(s) : t[i].portid = s[i].portid
    BY <1>3, Zenon
  <1>6. PortsAscend(t)
    BY <1>3, <1>5, Zenon DEF PortsKept, PortsAscend
  <1>7. ASSUME NEW p \in Ports PROVE PortRegistered(t, m, p)
    <2>1. CASE p = pio.portid
      <3>1. m[p] # None
        BY <1>1, <1>4, <2>1, PortsAssumption, Zenon
      <3>2. t[k] = [portid |-> p, ops |-> m[p]]
        BY <1>1, <1>3, <1>4, <2>1, Zenon
      <3>. QED
        BY <1>3, <3>1, <3>2, Zenon DEF PortRegistered
    <2>2. CASE p # pio.portid
      <3>1. PortRegistered(s, l, p) /\ m[p] = l[p]
        BY <1>4, <2>2, Zenon DEF PortsKept
      <3>2. CASE l[p] = None
        BY <1>3, <1>5, <3>1, <3>2, Zenon DEF PortRegistered
      <3>3. CASE l[p] # None
        <4>1. PICK i \in 1 .. Len(s) : s[i] = [portid |-> p, ops |-> l[p]]
          BY <3>1, <3>3, Zenon DEF PortRegistered
        <4>2. s[i].portid = p
          BY <4>1
        <4>3. i # k
          BY <2>2, <4>2, Zenon
        <4>4. t[i] = [portid |-> p, ops |-> m[p]]
          BY <1>3, <3>1, <4>1, <4>3, Zenon
        <4>. QED
          BY <1>3, <3>1, <3>3, <4>4, Zenon DEF PortRegistered
      <3>. QED
        BY <3>2, <3>3, Zenon
    <2>. QED
      BY <2>1, <2>2, Zenon
  <1>8. PortsKept(t, m)
    BY <1>3, <1>4, <1>6, <1>7, Zenon DEF PortsKept
  <1>. QED
    BY <1>8, Zenon DEF t, m

\* A port that has not is inserted.
LEMMA PortAdded ==
  ASSUME NEW s, NEW l, PortsKept(s, l), NEW pio \in PortOps,
         Len(s) < MAX_PORTS_SUPPORTED, NEW t, PortsAscend(t), Inserted(t, s, pio)
  PROVE  PortsKept(t, [l EXCEPT ![pio.portid] = pio.ops])
  <1> DEFINE m == [l EXCEPT ![pio.portid] = pio.ops]
  <1>1. pio.portid \in Ports /\ pio.ops \in Callbacks
        /\ pio = [portid |-> pio.portid, ops |-> pio.ops]
    BY DEF PortOps
  <1>2. /\ m \in [Ports -> Callbacks \cup {None}] /\ m[pio.portid] = pio.ops
        /\ \A p \in Ports : p # pio.portid => m[p] = l[p]
    BY <1>1, Zenon DEF PortsKept
  <1> HIDE DEF m
  <1>3. Len(t) <= MAX_PORTS_SUPPORTED
    <2>1. Len(t) = Len(s) + 1 /\ s \in Seq(PortOps)
      BY Zenon DEF Inserted, PortsKept, PortsAscend
    <2>2. Len(s) \in Nat
      BY <2>1
    <2>. QED
      BY <2>1, <2>2, PortsAssumption
  <1>4. ASSUME NEW p \in Ports PROVE PortRegistered(t, m, p)
    <2>1. CASE p = pio.portid
      <3>1. m[p] # None
        BY <1>1, <1>2, <2>1, PortsAssumption, Zenon
      <3>2. PICK j \in 1 .. Len(t) : t[j] = pio
        BY Zenon DEF Inserted
      <3>3. t[j] = [portid |-> p, ops |-> m[p]]
        BY <1>1, <1>2, <2>1, <3>2, Zenon
      <3>. QED
        BY <3>1, <3>3, Zenon DEF PortRegistered
    <2>2. CASE p # pio.portid
      <3>1. PortRegistered(s, l, p) /\ m[p] = l[p]
        BY <1>2, <2>2, Zenon DEF PortsKept
      <3>2. CASE l[p] = None
        <4>1. ASSUME NEW j \in 1 .. Len(t) PROVE t[j].portid # p
          <5>1. t[j] = pio \/ \E i \in 1 .. Len(s) : t[j] = s[i]
            BY Zenon DEF Inserted
          <5>2. CASE t[j] = pio
            BY <2>2, <5>2, Zenon
          <5>3. CASE \E i \in 1 .. Len(s) : t[j] = s[i]
            BY <3>1, <3>2, <5>3, Zenon DEF PortRegistered
          <5>. QED
            BY <5>1, <5>2, <5>3, Zenon
        <4>. QED
          BY <3>1, <3>2, <4>1, Zenon DEF PortRegistered
      <3>3. CASE l[p] # None
        <4>1. PICK i \in 1 .. Len(s) : s[i] = [portid |-> p, ops |-> l[p]]
          BY <3>1, <3>3, Zenon DEF PortRegistered
        <4>2. PICK j \in 1 .. Len(t) : t[j] = s[i]
          BY Zenon DEF Inserted
        <4>. QED
          BY <3>1, <3>3, <4>1, <4>2, Zenon DEF PortRegistered
      <3>. QED
        BY <3>2, <3>3, Zenon
    <2>. QED
      BY <2>1, <2>2, Zenon
  <1>5. PortsKept(t, m)
    BY <1>2, <1>3, <1>4, Zenon DEF PortsKept
  <1>. QED
    BY <1>5, Zenon DEF m

\* The assertions that look a new element up after the sort never fire: a
\* step that changes a table leaves the machine running.
LookedUp ==
  portio_ops' # portio_ops \/ mmio_ops' # mmio_ops => host' = "running"

LEMMA PioStep ==
  ASSUME IInv, NEW pio \in PortOps, register_pio_operation(pio)
  PROVE  IInv' /\ LookedUp
  <1> DEFINE found == search_portio_callback(pio.portid)
             sorted == SORT(Append(portio_ops, pio), port_ops_compare)
             again == SEARCH(sorted, pio, port_ops_compare)
  <1>1. /\ host = "running" /\ mmio_ops' = mmio_ops
        /\ CASE found # 0 ->
                  /\ portio_ops' = [portio_ops EXCEPT ![found] = pio]
                  /\ latest' = [latest EXCEPT ![pio.portid] = pio.ops]
                  /\ host' = host
             [] found = 0 /\ Len(portio_ops) < MAX_PORTS_SUPPORTED ->
                  /\ portio_ops' = sorted
                  /\ latest' = [latest EXCEPT ![pio.portid] = pio.ops]
                  /\ host' = IF again # 0 THEN "running" ELSE "panic"
             [] OTHER ->
                  host' = "panic" /\ portio_ops' = portio_ops /\ latest' = latest
    BY Zenon DEF register_pio_operation
  <1>2. PortsKept(portio_ops, latest) /\ RegionsKept(mmio_ops) /\ PortsAscend(portio_ops)
    BY Zenon DEF IInv, PortsKept
  <1>3. pio.portid \in Nat
    BY PortIds, Zenon
  <1>4. PortFound(found, portio_ops, pio.portid)
    <2> DEFINE target == [portid |-> pio.portid]
    <2>1. found = SEARCH(portio_ops, target, port_ops_compare)
      BY Zenon DEF search_portio_callback
    <2>2. target.portid = pio.portid /\ target.portid \in Nat
      <3>1. target.portid = pio.portid
        OBVIOUS
      <3>. QED
        BY <1>3, <3>1, Zenon
    <2> HIDE DEF target
    <2>3. PortFound(SEARCH(portio_ops, target, port_ops_compare), portio_ops, target.portid)
      BY <1>2, <2>2, PortSearch, Zenon
    <2>. QED
      BY <2>1, <2>2, <2>3, Zenon
  <1>5. found = 0 => PortsAscend(sorted) /\ Inserted(sorted, portio_ops, pio)
    <2>1. found = 0 => PortFound(0, portio_ops, pio.portid)
      BY <1>4, Zenon
    <2>. QED
      BY <1>2, <2>1, PortSort, Zenon
  <1>6. found = 0 => again # 0
    <2>1. ASSUME found = 0 PROVE PortFound(again, sorted, pio.portid)
      BY <1>3, <1>5, <2>1, PortSearch, Zenon
    <2> HIDE DEF again, sorted
    <2>. QED
      BY <1>5, <2>1, Zenon DEF PortFound, Inserted
  <1>7. found # 0 => found \in 1 .. Len(portio_ops) /\ portio_ops[found].portid = pio.portid
    <2>1. portio_ops \in Seq(PortOps)
      BY <1>2, Zenon DEF PortsAscend
    <2>2. Len(portio_ops) \in Nat
      BY <2>1
    <2> HIDE DEF found
    <2>3. \A k \in 0 .. Len(portio_ops) : k # 0 => k \in 1 .. Len(portio_ops)
      BY <2>2
    <2>. QED
      BY <1>4, <2>3, Zenon DEF PortFound
  <1> HIDE DEF found, again, sorted
  <1>8. CASE found # 0
    <2>1. /\ portio_ops' = [portio_ops EXCEPT ![found] = pio]
          /\ latest' = [latest EXCEPT ![pio.portid] = pio.ops]
          /\ host' = host
      BY <1>1, <1>8, Zenon
    <2>2. PortsKept(portio_ops', latest')
      BY <1>2, <1>7, <1>8, <2>1, PortReplaced, Zenon
    <2>. QED
      BY <1>1, <1>2, <2>1, <2>2, Zenon DEF IInv, LookedUp
  <1>9. CASE found = 0 /\ Len(portio_ops) < MAX_PORTS_SUPPORTED
    <2>1. /\ portio_ops' = sorted
          /\ latest' = [latest EXCEPT ![pio.portid] = pio.ops]
          /\ host' = "running"
      BY <1>1, <1>6, <1>9, Zenon
    <2>2. PortsKept(portio_ops', latest')
      BY <1>2, <1>5, <1>9, <2>1, PortAdded, Zenon
    <2>. QED
      BY <1>1, <1>2, <2>1, <2>2, Zenon DEF IInv, LookedUp
  <1>10. CASE found = 0 /\ ~(Len(portio_ops) < MAX_PORTS_SUPPORTED)
    <2>1. portio_ops' = portio_ops /\ latest' = latest
      BY <1>1, <1>10, Zenon
    <2>. QED
      BY <1>1, <1>2, <2>1, Zenon DEF IInv, LookedUp
  <1>. QED
    BY <1>8, <1>9, <1>10, Zenon

LEMMA MmioStep ==
  ASSUME IInv, NEW mmio \in Regions, register_mmio_operation(mmio)
  PROVE  IInv' /\ LookedUp
  <1> DEFINE found == search_mmio_callback(mmio_ops, mmio.addr_low)
             sorted == SORT(Append(mmio_ops, mmio), mmio_operation_compare)
             again == search_mmio_callback(sorted, mmio.addr_low)
             full == Len(mmio_ops) >= MAX_NR_MMIO_REGIONS
  <1>1. /\ host = "running" /\ portio_ops' = portio_ops /\ latest' = latest
        /\ IF found # 0 \/ full
           THEN host' = "panic" /\ mmio_ops' = mmio_ops
           ELSE /\ mmio_ops' = sorted
                /\ host' = IF again # 0 THEN "running" ELSE "panic"
    BY Zenon DEF register_mmio_operation
  <1>2. PortsKept(portio_ops, latest) /\ RegionsKept(mmio_ops) /\ RegionsAscend(mmio_ops)
    BY Zenon DEF IInv, RegionsKept
  <1>3. mmio.addr_low \in Nat /\ Holds(mmio, mmio.addr_low)
    BY Disjoint DEF Holds
  <1>4. RegionFound(found, mmio_ops, mmio.addr_low)
    BY <1>2, <1>3, RegionSearch, Zenon
  <1>5. found = 0 => RegionsAscend(sorted) /\ Inserted(sorted, mmio_ops, mmio)
    <2>1. found = 0 => RegionFound(0, mmio_ops, mmio.addr_low)
      BY <1>4, Zenon
    <2>. QED
      BY <1>2, <2>1, RegionSort, Zenon
  <1> HIDE DEF sorted, found
  <1>6. found = 0 => again # 0
    <2>1. ASSUME found = 0 PROVE RegionFound(again, sorted, mmio.addr_low)
      BY <1>3, <1>5, <2>1, RegionSearch, Zenon
    <2> HIDE DEF again
    <2>. QED
      BY <1>3, <1>5, <2>1, Zenon DEF RegionFound, Inserted
  <1> HIDE DEF again
  <1>7. CASE found # 0 \/ full
    BY <1>1, <1>2, <1>7, Zenon DEF IInv, LookedUp
  <1>8. CASE found = 0 /\ ~full
    <2>1. mmio_ops' = sorted /\ host' = "running"
      BY <1>1, <1>6, <1>8, Zenon
    <2>2. Len(sorted) <= MAX_NR_MMIO_REGIONS
      <3>1. Len(sorted) = Len(mmio_ops) + 1 /\ mmio_ops \in Seq(Regions)
        BY <1>2, <1>5, <1>8, Zenon DEF Inserted, RegionsAscend
      <3>2. Len(mmio_ops) \in Nat
        BY <3>1
      <3>. QED
        BY <1>8, <3>1, <3>2, PortsAssumption
    <2>3. RegionsKept(mmio_ops')
      BY <1>5, <1>8, <2>1, <2>2, Zenon DEF RegionsKept
    <2>. QED
      BY <1>1, <1>2, <2>1, <2>3, Zenon DEF IInv, LookedUp
  <1>. QED
    BY <1>7, <1>8, Zenon

LEMMA Starts ==
  ASSUME Init
  PROVE  IInv
  <1>1. PortsAscend(<<>>) /\ RegionsAscend(<<>>) /\ Len(<<>>) = 0
    BY DEF PortsAscend, RegionsAscend
  <1>2. 0 <= MAX_PORTS_SUPPORTED /\ 0 <= MAX_NR_MMIO_REGIONS
    BY PortsAssumption
  <1>3. latest \in [Ports -> Callbacks \cup {None}] /\ \A p \in Ports : latest[p] = None
    BY Zenon DEF Init
  <1>4. \A i \in 1 .. 0 : FALSE
    OBVIOUS
  <1>5. portio_ops = <<>> /\ mmio_ops = <<>>
    BY Zenon DEF Init
  <1>. QED
    BY <1>1, <1>2, <1>3, <1>4, <1>5, Zenon
       DEF IInv, PortsKept, RegionsKept, PortRegistered

LEMMA Steps ==
  ASSUME IInv, [Next]_vars
  PROVE  IInv' /\ (LookedUp \/ UNCHANGED vars)
  <1>1. CASE UNCHANGED vars
    <2>1. portio_ops' = portio_ops /\ mmio_ops' = mmio_ops /\ latest' = latest
      BY <1>1, Zenon DEF vars
    <2>. QED
      BY <1>1, <2>1, Zenon DEF IInv
  <1>2. ASSUME NEW p \in Ports, NEW c \in Callbacks,
               register_pio_operation([portid |-> p, ops |-> c])
        PROVE  IInv' /\ LookedUp
    <2> DEFINE pio == [portid |-> p, ops |-> c]
    <2>1. pio \in PortOps /\ register_pio_operation(pio)
      BY <1>2, Zenon DEF PortOps
    <2> HIDE DEF pio
    <2>. QED
      BY <2>1, PioStep, Zenon
  <1>3. ASSUME NEW r \in Regions, register_mmio_operation(r)
        PROVE  IInv' /\ LookedUp
    BY <1>3, MmioStep, Zenon
  <1>. QED
    BY <1>1, <1>2, <1>3, Zenon DEF Next

\* Whatever devices register in whatever order, both tables stay ordered
\* without doublets and within their arrays, and the port table has for each
\* port what was registered last (vmx_pio.c 30-44, vmx_mmio.c 51-62).
THEOREM Invariance == Spec => []IInv
  <1>1. Init => IInv
    BY Starts
  <1>2. IInv /\ [Next]_vars => IInv'
    BY Steps
  <1>. QED
    BY <1>1, <1>2, PTL DEF Spec

\* An access to a port reaches the callbacks registered for it last and an
\* access to any other port is noticed (vmx_pio.c 20-61).
THEOREM PortsAreDispatched == Spec => []PortsDispatched
  <1>1. IInv => PortsDispatched
    <2> SUFFICES ASSUME IInv PROVE PortsDispatched
      OBVIOUS
    <2>1. PortsAscend(portio_ops) /\ Len(portio_ops) <= MAX_PORTS_SUPPORTED
      BY Zenon DEF IInv, PortsKept
    <2>2. ASSUME NEW p \in Ports
          PROVE  LET i == search_portio_callback(p) IN
                 IF latest[p] = None
                 THEN i = 0
                 ELSE i # 0 /\ portio_ops[i] = [portid |-> p, ops |-> latest[p]]
      <3> DEFINE i == search_portio_callback(p)
                 target == [portid |-> p]
      <3>1. PortFound(i, portio_ops, p)
        <4>1. i = SEARCH(portio_ops, target, port_ops_compare)
          BY Zenon DEF search_portio_callback
        <4>2. target.portid = p /\ target.portid \in Nat
          <5>1. target.portid = p
            OBVIOUS
          <5>. QED
            BY <5>1, PortIds, Zenon
        <4> HIDE DEF target
        <4>3. PortFound(SEARCH(portio_ops, target, port_ops_compare), portio_ops, target.portid)
          BY <2>1, <4>2, PortSearch, Zenon
        <4>. QED
          BY <4>1, <4>2, <4>3, Zenon
      <3>2. PortRegistered(portio_ops, latest, p)
        BY Zenon DEF IInv, PortsKept
      <3> HIDE DEF i
      <3>3. \A k \in 0 .. Len(portio_ops) : k # 0 => k \in 1 .. Len(portio_ops)
        <4>1. portio_ops \in Seq(PortOps)
          BY <2>1, Zenon DEF PortsAscend
        <4>. QED
          BY <4>1
      <3>4. CASE latest[p] = None
        <4>1. i = 0
          BY <3>1, <3>2, <3>3, <3>4, Zenon DEF PortFound, PortRegistered
        <4>. QED
          BY <3>4, <4>1, Zenon DEF i
      <3>5. CASE latest[p] # None
        <4>1. PICK k \in 1 .. Len(portio_ops) :
                portio_ops[k] = [portid |-> p, ops |-> latest[p]]
          BY <3>2, <3>5, Zenon DEF PortRegistered
        <4>2. portio_ops[k].portid = p
          BY <4>1
        <4>3. i # 0
          BY <3>1, <4>2, Zenon DEF PortFound
        <4>4. i \in 1 .. Len(portio_ops) /\ portio_ops[i].portid = p
          BY <3>1, <3>3, <4>3, Zenon DEF PortFound
        <4>5. i = k
          <5>1. i < k => portio_ops[i].portid < portio_ops[k].portid
            BY <2>1, <4>4, Zenon DEF PortsAscend
          <5>2. k < i => portio_ops[k].portid < portio_ops[i].portid
            BY <2>1, <4>4, Zenon DEF PortsAscend
          <5>3. p \in Nat
            BY PortIds, Zenon
          <5>4. i \in Int /\ k \in Int
            BY <4>4
          <5>. QED
            BY <4>2, <4>4, <5>1, <5>2, <5>3, <5>4
        <4>6. i # 0 /\ portio_ops[i] = [portid |-> p, ops |-> latest[p]]
          BY <4>1, <4>3, <4>5, Zenon
        <4>. QED
          BY <3>5, <4>6, Zenon DEF i
      <3>. QED
        BY <3>4, <3>5, Zenon
    <2>. QED
      BY <2>1, <2>2, Zenon DEF PortsDispatched
  <1>. QED
    BY <1>1, Invariance, PTL

\* An address is found exactly when a registered region holds it, and in that
\* region (vmx_mmio.c 13-49).
THEOREM RegionsAreDispatched == Spec => []RegionsDispatched
  <1>1. IInv => RegionsDispatched
    <2> SUFFICES ASSUME IInv, NEW a \in Addresses
                 PROVE  LET i == search_mmio_callback(mmio_ops, a)
                            holders == {k \in DOMAIN mmio_ops :
                                          mmio_ops[k].addr_low <= a /\ a < mmio_ops[k].addr_high}
                        IN  IF holders = {} THEN i = 0 ELSE i \in holders
      BY Zenon DEF RegionsDispatched
    <2> DEFINE i == search_mmio_callback(mmio_ops, a)
               holders == {k \in DOMAIN mmio_ops :
                             mmio_ops[k].addr_low <= a /\ a < mmio_ops[k].addr_high}
    <2>1. RegionsAscend(mmio_ops)
      BY Zenon DEF IInv, RegionsKept
    <2>2. RegionFound(i, mmio_ops, a)
      <3>1. a \in Nat
        BY PortsAssumption
      <3>. QED
        BY <2>1, <3>1, RegionSearch, Zenon
    <2>3. /\ DOMAIN mmio_ops = 1 .. Len(mmio_ops)
          /\ \A k \in 0 .. Len(mmio_ops) : k # 0 => k \in 1 .. Len(mmio_ops)
      BY <2>1 DEF RegionsAscend
    <2> HIDE DEF i
    <2>4. \A k : k \in holders <=> k \in 1 .. Len(mmio_ops) /\ Holds(mmio_ops[k], a)
      BY <2>3, Zenon DEF Holds
    <2> HIDE DEF holders
    <2>5. CASE i = 0
      <3>1. holders = {}
        BY <2>2, <2>4, <2>5, Zenon DEF RegionFound
      <3>. QED
        BY <2>5, <3>1, Zenon DEF i, holders
    <2>6. CASE i # 0
      <3>1. i \in holders
        BY <2>2, <2>3, <2>4, <2>6, Zenon DEF RegionFound
      <3>2. holders # {}
        BY <3>1, Zenon
      <3>. QED
        BY <3>1, <3>2, Zenon DEF i, holders
    <2>. QED
      BY <2>5, <2>6, Zenon
  <1>. QED
    BY <1>1, Invariance, PTL

\* The two assertions that look up what has just been sorted in
\* (vmx_pio.c 42, vmx_mmio.c 60) never stop the machine: registering fails
\* only where a table is full or a region is taken.
THEOREM AssertionsHold == Spec => [][LookedUp]_vars
  <1>1. IInv /\ [Next]_vars => [LookedUp]_vars
    BY Steps
  <1>. QED
    BY <1>1, Invariance, PTL DEF Spec
=============================================================================
