---------------------------- MODULE ListsProofs ----------------------------
(***************************************************************************)
(* Proofs about Lists: what the sorts give for every finite set, every     *)
(* list and every order, and what a loop keeps.  They rest on the least    *)
(* number of a set, from which induction follows for sets of numbers.      *)
(***************************************************************************)
EXTENDS Lists, Integers, FiniteSetTheorems, WellFoundedInduction, TLAPS

\* A set of numbers has a least one.
LEMMA NatLeast ==
    ASSUME NEW T \in SUBSET Nat, T # {}
    PROVE  \E x \in T : \A y \in T : x <= y
<1> DEFINE R == OpToRel(<, Nat)
<1>1. IsWellFoundedOn(R, Nat)
  BY NatLessThanWellFounded
<1>2. PICK x \in T : \A y \in T : ~(<<y, x>> \in R)
  BY <1>1, WFMin, Zenon
<1>3. R = {p \in Nat \X Nat : p[1] < p[2]}
  BY DEF OpToRel
<1>4. ASSUME NEW y \in T PROVE x <= y
  <2>1. <<y, x>> \in Nat \X Nat /\ <<y, x>>[1] = y /\ <<y, x>>[2] = x
    OBVIOUS
  <2>2. ~(y < x)
    BY <1>2, <1>3, <2>1
  <2> QED
    BY <2>2
<1> QED
  BY <1>4

\* Induction: a set with 0 that is closed under successors has every number.
LEMMA NatAll ==
    ASSUME NEW T, 0 \in T, \A n \in Nat : n \in T => n + 1 \in T
    PROVE  \A n \in Nat : n \in T
<1> SUFFICES ASSUME NEW n \in Nat, n \notin T PROVE FALSE
  OBVIOUS
<1>1. PICK x \in Nat \ T : \A y \in Nat \ T : x <= y
  BY NatLeast
<1>2. x # 0 /\ x - 1 \in Nat /\ ~(x <= x - 1)
  OBVIOUS
<1>3. x - 1 \in T
  BY <1>1, <1>2
<1> QED
  BY <1>2, <1>3

-----------------------------------------------------------------------------
\* The states of a loop over the first L elements of a list.
States(f, T, L, first, body, list) ==
    /\ f \in [0 .. L -> T]
    /\ f[0] = first
    /\ \A n \in 1 .. L : f[n] = body[f[n - 1]][list[n]]

LEMMA StatesExist ==
    ASSUME NEW T, NEW E, NEW first \in T, NEW list \in Seq(E), NEW body \in [T -> [E -> T]]
    PROVE  \E f : States(f, T, Len(list), first, body, list)
<1> DEFINE Good == {n \in Nat : n <= Len(list) => \E f : States(f, T, n, first, body, list)}
<1>1. 0 \in Good
  <2>1. States([m \in 0 .. 0 |-> first], T, 0, first, body, list)
    BY DEF States
  <2> QED
    BY <2>1
<1>2. ASSUME NEW n \in Nat, n \in Good PROVE n + 1 \in Good
  <2> SUFFICES ASSUME n + 1 <= Len(list)
               PROVE  \E f : States(f, T, n + 1, first, body, list)
    OBVIOUS
  <2>1. PICK f : States(f, T, n, first, body, list)
    BY <1>2
  <2> DEFINE g == [m \in 0 .. n + 1 |->
                     IF m = n + 1 THEN body[f[n]][list[n + 1]] ELSE f[m]]
  <2>2. f \in [0 .. n -> T] /\ f[n] \in T /\ list[n + 1] \in E
    BY <2>1 DEF States
  <2>3. body[f[n]][list[n + 1]] \in T
    BY <2>2
  <2>4. g \in [0 .. n + 1 -> T] /\ g[0] = first
    BY <2>1, <2>2, <2>3 DEF States
  <2>5. ASSUME NEW m \in 1 .. n + 1 PROVE g[m] = body[g[m - 1]][list[m]]
    <3>1. m - 1 \in 0 .. n /\ g[m - 1] = f[m - 1]
      OBVIOUS
    <3>2. CASE m = n + 1
      <4>1. g[m] = body[f[n]][list[n + 1]] /\ m - 1 = n
        BY <3>2
      <4> QED
        BY <3>1, <3>2, <4>1
    <3>3. CASE m # n + 1
      <4>1. m \in 1 .. n /\ g[m] = f[m]
        BY <3>3
      <4> QED
        BY <2>1, <3>1, <4>1 DEF States
    <3> QED
      BY <3>2, <3>3
  <2> QED
    BY <2>4, <2>5 DEF States
<1> HIDE DEF Good
<1>3. \A n \in Nat : n \in Good
  BY <1>1, <1>2, NatAll
<1>4. Len(list) \in Nat /\ Len(list) <= Len(list)
  OBVIOUS
<1>5. Len(list) \in Good
  BY <1>3, <1>4
<1> QED
  BY <1>4, <1>5 DEF Good

\* What every iteration of a loop keeps, holds after it: J has the pairs of a number of
\* iterations and a state after them for which it holds.
LEMMA LoopKeeps ==
    ASSUME NEW T, NEW E, NEW first \in T, NEW list \in Seq(E), NEW body \in [T -> [E -> T]],
           NEW J, <<0, first>> \in J,
           \A n \in 1 .. Len(list) : \A x \in T :
               <<n - 1, x>> \in J => <<n, body[x][list[n]]>> \in J
    PROVE  Loop(body, first, list) \in T /\ <<Len(list), Loop(body, first, list)>> \in J
<1> DEFINE L == Len(list)
           after[n \in 0 .. L] == IF n = 0 THEN first ELSE body[after[n - 1]][list[n]]
<1>1. PICK f : States(f, T, L, first, body, list)
  BY StatesExist
<1>2. f = [n \in 0 .. L |-> IF n = 0 THEN first ELSE body[f[n - 1]][list[n]]]
  BY <1>1 DEF States
<1>3. after = [n \in 0 .. L |-> IF n = 0 THEN first ELSE body[after[n - 1]][list[n]]]
  BY <1>2
<1>4. Loop(body, first, list) = after[L]
  BY DEF Loop
<1> HIDE DEF after
<1>5. /\ L \in Nat
      /\ after[0] = first
      /\ \A n \in 1 .. L : after[n] = body[after[n - 1]][list[n]]
  <2>1. L \in Nat /\ \A n \in 1 .. L : n \in 0 .. L /\ n # 0
    OBVIOUS
  <2> HIDE DEF L
  <2>2. ASSUME NEW n \in 0 .. L
        PROVE  after[n] = IF n = 0 THEN first ELSE body[after[n - 1]][list[n]]
    BY <1>3, Zenon
  <2>3. 0 \in 0 .. L
    BY <2>1
  <2> QED
    BY <2>1, <2>2, <2>3
<1> DEFINE Good == {n \in Nat : n <= L => after[n] \in T /\ <<n, after[n]>> \in J}
<1>6. 0 \in Good
  BY <1>5
<1>7. ASSUME NEW n \in Nat, n \in Good PROVE n + 1 \in Good
  <2> SUFFICES ASSUME n + 1 <= L
               PROVE  after[n + 1] \in T /\ <<n + 1, after[n + 1]>> \in J
    OBVIOUS
  <2>1. n + 1 \in 1 .. L /\ (n + 1) - 1 = n /\ list[n + 1] \in E
    OBVIOUS
  <2>2. after[n] \in T /\ <<n, after[n]>> \in J
    BY <1>7
  <2>3. after[n + 1] = body[after[n]][list[n + 1]]
    BY <1>5, <2>1
  <2>4. body[after[n]][list[n + 1]] \in T
    BY <2>1, <2>2
  <2> QED
    BY <2>1, <2>2, <2>3, <2>4
<1> HIDE DEF Good
<1>8. \A n \in Nat : n \in Good
  BY <1>6, <1>7, NatAll
<1>9. L \in Good /\ L <= L
  BY <1>5, <1>8
<1> QED
  BY <1>4, <1>9 DEF Good

-----------------------------------------------------------------------------
\* An order without ties.
Strict(R, S) ==
    /\ \A x \in S : <<x, x>> \notin R
    /\ \A x, y \in S : x = y \/ <<x, y>> \in R \/ <<y, x>> \in R
    /\ \A x, y, z \in S : <<x, y>> \in R /\ <<y, z>> \in R => <<x, z>> \in R

\* An order by a key with ties.
Weak(R, S) ==
    /\ \A x \in S : <<x, x>> \notin R
    /\ \A x, y, z \in S : <<x, y>> \in R /\ <<y, z>> \in R => <<x, z>> \in R
    /\ \A x, y, z \in S : <<x, z>> \in R => <<x, y>> \in R \/ <<y, z>> \in R

\* The list s has every element of S, once.
Lists(s, S) ==
    /\ s \in [1 .. Cardinality(S) -> S]
    /\ \A x \in S : \E n \in 1 .. Cardinality(S) : s[n] = x

\* It is sorted.
Sorted(s, R) == \A m, n \in DOMAIN s : m < n => <<s[m], s[n]>> \in R

\* Those that go before x.
Ahead(x, S, R) == {y \in S : <<y, x>> \in R}

\* Who goes before another has fewer before it; all have fewer than there are.
LEMMA FewerBefore ==
    ASSUME NEW S, IsFiniteSet(S), NEW R, Strict(R, S), NEW x \in S
    PROVE  /\ Cardinality(Ahead(x, S, R)) \in 0 .. Cardinality(S) - 1
           /\ \A y \in S : <<x, y>> \in R =>
                 Cardinality(Ahead(x, S, R)) < Cardinality(Ahead(y, S, R))
<1>1. \A z \in S : /\ IsFiniteSet(Ahead(z, S, R))
                   /\ Cardinality(Ahead(z, S, R)) \in Nat
  BY FS_Subset, FS_CardinalityType DEF Ahead
<1>2. Cardinality(S) \in Nat
  BY FS_CardinalityType
<1>3. Cardinality(Ahead(x, S, R)) < Cardinality(S)
  <2>1. Ahead(x, S, R) \in SUBSET S /\ x \notin Ahead(x, S, R)
    BY DEF Ahead, Strict
  <2>2. Ahead(x, S, R) # S
    BY <2>1
  <2> QED
    BY <1>1, <1>2, <2>1, <2>2, FS_Subset
<1>4. ASSUME NEW y \in S, <<x, y>> \in R
      PROVE  Cardinality(Ahead(x, S, R)) < Cardinality(Ahead(y, S, R))
  <2>1. /\ Ahead(x, S, R) \in SUBSET Ahead(y, S, R)
        /\ x \in Ahead(y, S, R) /\ x \notin Ahead(x, S, R)
    BY <1>4 DEF Ahead, Strict
  <2>2. Ahead(x, S, R) # Ahead(y, S, R)
    BY <2>1
  <2> QED
    BY <1>1, <2>1, <2>2, FS_Subset
<1>5. Cardinality(Ahead(x, S, R)) \in 0 .. Cardinality(S) - 1
  BY <1>1, <1>2, <1>3
<1> QED
  BY <1>4, <1>5

\* Ranked lists each element once, in order.
LEMMA RankedSorted ==
    ASSUME NEW S, IsFiniteSet(S), NEW R, Strict(R, S)
    PROVE  Lists(Ranked(S, R), S) /\ Sorted(Ranked(S, R), R)
<1> DEFINE N == Cardinality(S)
           B(z) == Cardinality(Ahead(z, S, R))
           f == [x \in S |-> B(x) + 1]
           r == Ranked(S, R)
<1>1. N \in Nat
  BY FS_CardinalityType
<1>2. \A x \in S : /\ B(x) \in 0 .. N - 1
                   /\ \A y \in S : <<x, y>> \in R => B(x) < B(y)
  BY FewerBefore
<1>3. r = [n \in 1 .. N |-> CHOOSE x \in S : B(x) = n - 1]
  BY DEF Ranked, Ahead
<1> HIDE DEF N, B, r
<1>4. f \in Injection(S, 1 .. N)
  <2>1. f \in [S -> 1 .. N]
    BY <1>1, <1>2
  <2>2. ASSUME NEW x \in S, NEW y \in S, f[x] = f[y] PROVE x = y
    <3>1. B(x) = B(y)
      BY <1>2, <2>2
    <3>2. <<x, y>> \notin R /\ <<y, x>> \notin R
      BY <1>2, <3>1
    <3> QED
      BY <3>2 DEF Strict
  <2> QED
    BY <2>1, <2>2 DEF Injection, IsInjective
<1>5. f \in Surjection(S, 1 .. N)
  <2>1. IsFiniteSet(1 .. N) /\ Cardinality(1 .. N) = N
    BY <1>1, FS_Interval
  <2> QED
    BY <1>4, <2>1, FS_Injection DEF N
<1>6. \A n \in 1 .. N : \E x \in S : B(x) = n - 1
  <2> SUFFICES ASSUME NEW n \in 1 .. N PROVE \E x \in S : B(x) = n - 1
    OBVIOUS
  <2>1. PICK x \in S : f[x] = n
    <3> HIDE DEF f
    <3> QED
      BY <1>5 DEF Surjection
  <2> QED
    BY <1>2, <2>1
<1>7. \A n \in 1 .. N : r[n] \in S /\ B(r[n]) = n - 1
  BY <1>3, <1>6
<1>8. r \in [1 .. N -> S]
  BY <1>3, <1>7
<1>9. ASSUME NEW x \in S PROVE \E n \in 1 .. N : r[n] = x
  <2> DEFINE n == B(x) + 1
  <2>1. n \in 1 .. N /\ r[n] \in S /\ f[r[n]] = f[x]
    BY <1>1, <1>2, <1>7
  <2>2. r[n] = x
    BY <1>4, <2>1 DEF Injection, IsInjective
  <2> QED
    BY <2>1, <2>2
<1>10. ASSUME NEW m \in 1 .. N, NEW n \in 1 .. N, m < n
       PROVE  <<r[m], r[n]>> \in R
  <2>1. r[m] \in S /\ r[n] \in S /\ r[m] # r[n]
    BY <1>7, <1>10, <1>1
  <2>2. <<r[n], r[m]>> \notin R
    BY <1>1, <1>2, <1>7, <1>10, <2>1
  <2> QED
    BY <2>1, <2>2 DEF Strict
<1> QED
  BY <1>8, <1>9, <1>10 DEF Lists, Sorted, N, r

-----------------------------------------------------------------------------
\* A membership in Then.
LEMMA ThenPair ==
    ASSUME NEW R, NEW Q, NEW x, NEW y
    PROVE  <<x, y>> \in Then(R, Q) <=>
               <<x, y>> \in R \/ (<<x, y>> \in Q /\ <<y, x>> \notin R)
<1> DEFINE p == <<x, y>>
<1>1. p[1] = x /\ p[2] = y
  OBVIOUS
<1>2. p \in Then(R, Q) <=> p \in R \/ (p \in Q /\ <<p[2], p[1]>> \notin R)
  <2> HIDE DEF p
  <2> QED
    BY DEF Then
<1> QED
  BY <1>1, <1>2

\* A key before an order without ties leaves no ties.
LEMMA ThenStrict ==
    ASSUME NEW S, NEW R, Weak(R, S), NEW Q, Strict(Q, S)
    PROVE  Strict(Then(R, Q), S)
<1> DEFINE T == Then(R, Q)
<1>1. \A x, y : <<x, y>> \in T <=> <<x, y>> \in R \/ (<<x, y>> \in Q /\ <<y, x>> \notin R)
  BY ThenPair
<1> HIDE DEF T
<1>2. \A x \in S : <<x, x>> \notin T
  BY <1>1 DEF Weak, Strict
<1>3. \A x, y \in S : x = y \/ <<x, y>> \in T \/ <<y, x>> \in T
  BY <1>1 DEF Strict
<1>4. ASSUME NEW x \in S, NEW y \in S, NEW z \in S, <<x, y>> \in T, <<y, z>> \in T
      PROVE  <<x, z>> \in T
  <2>1. /\ <<x, y>> \in R \/ (<<x, y>> \in Q /\ <<y, x>> \notin R)
        /\ <<y, z>> \in R \/ (<<y, z>> \in Q /\ <<z, y>> \notin R)
    BY <1>1, <1>4
  <2>2. CASE <<x, z>> \in R
    BY <1>1, <2>2
  <2>3. CASE <<x, z>> \notin R
    <3>1. <<x, y>> \notin R \/ <<y, z>> \notin R
      BY <2>3 DEF Weak
    <3>2. <<x, y>> \notin R /\ <<y, z>> \notin R
      BY <2>1, <2>3, <3>1 DEF Weak
    <3>3. <<z, x>> \notin R
      BY <2>1, <3>2 DEF Weak
    <3>4. <<x, z>> \in Q
      BY <2>1, <3>2 DEF Strict
    <3> QED
      BY <1>1, <3>3, <3>4
  <2> QED
    BY <2>2, <2>3
<1> QED
  BY <1>2, <1>3, <1>4 DEF Strict, T

\* A set is sorted in one way only.
LEMMA SortedOnce ==
    ASSUME NEW S, IsFiniteSet(S), NEW R, Strict(R, S),
           NEW s, Lists(s, S), Sorted(s, R), NEW t, Lists(t, S), Sorted(t, R)
    PROVE  s = t
<1> DEFINE N == Cardinality(S)
           T == {n \in 1 .. N : s[n] # t[n]}
<1>1. N \in Nat /\ s \in [1 .. N -> S] /\ t \in [1 .. N -> S]
  BY FS_CardinalityType DEF Lists
<1> SUFFICES ASSUME s # t PROVE FALSE
  OBVIOUS
<1>2. T \in SUBSET Nat /\ T # {}
  BY <1>1
<1>3. PICK n \in T : \A k \in T : n <= k
  <2> HIDE DEF T
  <2> QED
    BY <1>2, NatLeast
<1>4. n \in 1 .. N /\ s[n] # t[n] /\ s[n] \in S /\ t[n] \in S
  BY <1>1
<1>5. ASSUME NEW k \in 1 .. N, k < n PROVE s[k] = t[k]
  BY <1>3, <1>5
<1>6. PICK i \in 1 .. N : s[i] = t[n]
  BY <1>4 DEF Lists
<1>7. PICK j \in 1 .. N : t[j] = s[n]
  BY <1>4 DEF Lists
<1>8. \A m, k \in 1 .. N : m < k => <<s[m], s[k]>> \in R /\ <<t[m], t[k]>> \in R
  BY <1>1 DEF Sorted
<1>9. \A x \in S : <<x, x>> \notin R
  BY DEF Strict
<1>10. i > n /\ j > n
  <2>1. i # n /\ j # n
    BY <1>4, <1>6, <1>7
  <2>2. ~(i < n)
    <3> SUFFICES ASSUME i < n PROVE FALSE
      OBVIOUS
    <3>1. t[i] = t[n] /\ <<t[i], t[n]>> \in R
      BY <1>4, <1>5, <1>6, <1>8
    <3> QED
      BY <1>4, <1>9, <3>1
  <2>3. ~(j < n)
    <3> SUFFICES ASSUME j < n PROVE FALSE
      OBVIOUS
    <3>1. s[j] = s[n] /\ <<s[j], s[n]>> \in R
      BY <1>4, <1>5, <1>7, <1>8
    <3> QED
      BY <1>4, <1>9, <3>1
  <2> QED
    BY <1>1, <1>4, <2>1, <2>2, <2>3
<1>11. <<s[n], t[n]>> \in R /\ <<t[n], s[n]>> \in R
  BY <1>1, <1>4, <1>6, <1>7, <1>8, <1>10
<1> QED
  BY <1>4, <1>11 DEF Strict

\* The stable sort itself: which of two places of a list goes first ...
StableOrder(s, R) ==
    {p \in (DOMAIN s) \X (DOMAIN s) :
        \/ <<s[p[1]], s[p[2]]>> \in R
        \/ p[1] < p[2] /\ <<s[p[2]], s[p[1]]>> \notin R}

\* ... and the list rearranged.
StableSort(s, R) ==
    LET places == Ranked(DOMAIN s, StableOrder(s, R)) IN
    [n \in DOMAIN s |-> s[places[n]]]

\* Which of two places goes first.
LEMMA StablePair ==
    ASSUME NEW s, NEW R, NEW m \in DOMAIN s, NEW k \in DOMAIN s
    PROVE  <<m, k>> \in StableOrder(s, R) <=>
               \/ <<s[m], s[k]>> \in R
               \/ m < k /\ <<s[k], s[m]>> \notin R
<1> DEFINE p == <<m, k>>
           D == DOMAIN s
<1>1. p \in D \X D /\ p[1] = m /\ p[2] = k
  <2>1. m \in D /\ k \in D
    OBVIOUS
  <2> HIDE DEF D
  <2> QED
    BY <2>1
<1>2. p \in StableOrder(s, R) <=> \/ <<s[p[1]], s[p[2]]>> \in R
                                  \/ p[1] < p[2] /\ <<s[p[2]], s[p[1]]>> \notin R
  <2>1. p \in D \X D
    BY <1>1
  <2> HIDE DEF p
  <2> QED
    BY <2>1 DEF StableOrder
<1> QED
  BY <1>1, <1>2

\* The order of the places has no ties.
LEMMA StableStrict ==
    ASSUME NEW E, NEW L \in Nat, NEW s \in [1 .. L -> E], NEW R, Weak(R, E)
    PROVE  Strict(StableOrder(s, R), 1 .. L)
<1> DEFINE D == 1 .. L
           Q == StableOrder(s, R)
           First(m, k) == <<s[m], s[k]>> \in R \/ (m < k /\ <<s[k], s[m]>> \notin R)
<1>1. \A m, k \in D : <<m, k>> \in Q <=> First(m, k)
  BY StablePair
<1>2. \A m \in D : m \in Nat /\ s[m] \in E
  OBVIOUS
<1> HIDE DEF Q, D
<1>3. ASSUME NEW m \in D PROVE <<m, m>> \notin Q
  <2>1. ~First(m, m)
    BY <1>2 DEF Weak
  <2> QED
    BY <1>1, <2>1
<1>4. ASSUME NEW m \in D, NEW k \in D, m # k
      PROVE  <<m, k>> \in Q \/ <<k, m>> \in Q
  <2>1. First(m, k) \/ First(k, m)
    BY <1>2, <1>4
  <2> QED
    BY <1>1, <2>1
<1>5. ASSUME NEW m \in D, NEW k \in D, NEW n \in D, <<m, k>> \in Q, <<k, n>> \in Q
      PROVE  <<m, n>> \in Q
  <2>1. First(m, k) /\ First(k, n)
    BY <1>1, <1>5
  <2>2. s[m] \in E /\ s[k] \in E /\ s[n] \in E
    BY <1>2
  <2>3. CASE <<s[m], s[k]>> \in R
    <3>1. CASE <<s[k], s[n]>> \in R
      BY <1>1, <2>2, <2>3, <3>1 DEF Weak
    <3>2. CASE <<s[n], s[k]>> \notin R
      BY <1>1, <2>2, <2>3, <3>2 DEF Weak
    <3> QED
      BY <2>1, <3>1, <3>2
  <2>4. CASE m < k /\ <<s[k], s[m]>> \notin R
    <3>1. CASE <<s[k], s[n]>> \in R
      BY <1>1, <2>2, <2>4, <3>1 DEF Weak
    <3>2. CASE k < n /\ <<s[n], s[k]>> \notin R
      <4>1. m < n
        BY <1>2, <2>4, <3>2
      <4>2. <<s[n], s[m]>> \notin R
        BY <2>2, <2>4, <3>2 DEF Weak
      <4> QED
        BY <1>1, <4>1, <4>2
    <3> QED
      BY <2>1, <3>1, <3>2
  <2> QED
    BY <2>1, <2>3, <2>4
<1> QED
  BY <1>3, <1>4, <1>5 DEF Strict, D, Q

\* StableSort rearranges a list: sorted by one key, it becomes sorted by R first and
\* then by that key.
LEMMA StableSorted ==
    ASSUME NEW S, IsFiniteSet(S), NEW s, Lists(s, S), NEW Q, Sorted(s, Q),
           NEW R, Weak(R, S)
    PROVE  Lists(StableSort(s, R), S) /\ Sorted(StableSort(s, R), Then(R, Q))
<1> DEFINE L == Cardinality(S)
           D == 1 .. L
           P == Ranked(D, StableOrder(s, R))
           t == StableSort(s, R)
<1>1. L \in Nat /\ IsFiniteSet(D) /\ Cardinality(D) = L
  BY FS_CardinalityType, FS_Interval
<1>2. s \in [D -> S] /\ DOMAIN s = D /\ \A x \in S : \E n \in D : s[n] = x
  BY DEF Lists
<1>3. Strict(StableOrder(s, R), D)
  BY <1>1, <1>2, StableStrict
<1>4. Lists(P, D) /\ Sorted(P, StableOrder(s, R))
  BY <1>1, <1>3, RankedSorted
<1>5. t = [n \in D |-> s[P[n]]]
  BY <1>2 DEF StableSort
<1> HIDE DEF P, t, L
<1>6. /\ P \in [D -> D] /\ DOMAIN P = D
      /\ \A k \in D : \E n \in D : P[n] = k
      /\ \A m, n \in D : m < n => <<P[m], P[n]>> \in StableOrder(s, R)
  BY <1>1, <1>4 DEF Lists, Sorted
<1> HIDE DEF D
<1>7. /\ t \in [D -> S] /\ DOMAIN t = D
      /\ \A n \in D : t[n] = s[P[n]]
  BY <1>2, <1>5, <1>6
<1>8. \A x \in S : \E n \in D : t[n] = x
  BY <1>2, <1>6, <1>7
<1>9. ASSUME NEW m \in D, NEW n \in D, m < n
      PROVE  <<t[m], t[n]>> \in Then(R, Q)
  <2>1. /\ P[m] \in DOMAIN s /\ P[n] \in DOMAIN s
        /\ <<P[m], P[n]>> \in StableOrder(s, R)
    BY <1>2, <1>6, <1>9
  <2>2. \/ <<t[m], t[n]>> \in R
        \/ P[m] < P[n] /\ <<t[n], t[m]>> \notin R
    BY <1>7, <2>1, StablePair
  <2>3. P[m] < P[n] => <<t[m], t[n]>> \in Q
    BY <1>7, <2>1 DEF Sorted
  <2> QED
    BY <2>2, <2>3, ThenPair
<1> QED
  BY <1>7, <1>8, <1>9 DEF Lists, Sorted, t, L, D

\* Sorting a list without ties again by another key, with Python's stable sort, is what
\* Then says of it: of the sorts in a row of rank_query_items the last is the first key.
THEOREM SortedAgain ==
    ASSUME NEW S, IsFiniteSet(S), NEW Q, Strict(Q, S), NEW R, Weak(R, S)
    PROVE  StableSort(Ranked(S, Q), R) = Ranked(S, Then(R, Q))
<1>1. Lists(Ranked(S, Q), S) /\ Sorted(Ranked(S, Q), Q)
  BY RankedSorted
<1>2. /\ Lists(StableSort(Ranked(S, Q), R), S)
      /\ Sorted(StableSort(Ranked(S, Q), R), Then(R, Q))
  BY <1>1, StableSorted
<1>3. Strict(Then(R, Q), S)
  BY ThenStrict
<1>4. /\ Lists(Ranked(S, Then(R, Q)), S)
      /\ Sorted(Ranked(S, Then(R, Q)), Then(R, Q))
  BY <1>3, RankedSorted
<1> QED
  BY <1>2, <1>3, <1>4, SortedOnce

-----------------------------------------------------------------------------
\* Two different tuples have a first place where they differ.
LEMMA LessTotal ==
    ASSUME NEW L \in Nat, NEW s \in [1 .. L -> Int], NEW t \in [1 .. L -> Int], s # t
    PROVE  Less(s, t) \/ Less(t, s)
<1> DEFINE T == {n \in 1 .. L : s[n] # t[n]}
<1>1. T \in SUBSET Nat /\ T # {}
  OBVIOUS
<1>2. PICK n \in T : \A k \in T : n <= k
  <2> HIDE DEF T
  <2> QED
    BY <1>1, NatLeast
<1>3. \A m \in 1 .. n - 1 : s[m] = t[m]
  <2> SUFFICES ASSUME NEW m \in 1 .. n - 1, s[m] # t[m] PROVE FALSE
    OBVIOUS
  <2>1. m \in T /\ ~(n <= m)
    OBVIOUS
  <2> QED
    BY <1>2, <2>1
<1>4. n \in 1 .. L /\ s[n] \in Int /\ t[n] \in Int /\ s[n] # t[n]
  OBVIOUS
<1>5. s[n] < t[n] \/ t[n] < s[n]
  BY <1>4
<1>6. n \in DOMAIN s /\ n \in DOMAIN t /\ \A m \in 1 .. n - 1 : t[m] = s[m]
  BY <1>3, <1>4
<1> QED
  BY <1>3, <1>5, <1>6 DEF Less

LEMMA LessIrreflexive ==
    ASSUME NEW L \in Nat, NEW s \in [1 .. L -> Int]
    PROVE  ~Less(s, s)
BY DEF Less

LEMMA LessTransitive ==
    ASSUME NEW L \in Nat, NEW s \in [1 .. L -> Int], NEW t \in [1 .. L -> Int],
           NEW u \in [1 .. L -> Int], Less(s, t), Less(t, u)
    PROVE  Less(s, u)
<1>1. PICK n \in 1 .. L : s[n] < t[n] /\ \A m \in 1 .. n - 1 : s[m] = t[m]
  BY DEF Less
<1>2. PICK k \in 1 .. L : t[k] < u[k] /\ \A m \in 1 .. k - 1 : t[m] = u[m]
  BY DEF Less
<1>3. CASE n <= k
  <2>1. s[n] < u[n]
    <3>1. s[n] \in Int /\ t[n] \in Int /\ u[n] \in Int
      OBVIOUS
    <3>2. t[n] = u[n] \/ (n = k /\ t[n] < u[n])
      BY <1>2, <1>3
    <3> QED
      BY <1>1, <3>1, <3>2
  <2>2. \A m \in 1 .. n - 1 : s[m] = u[m]
    BY <1>1, <1>2, <1>3
  <2> QED
    BY <2>1, <2>2 DEF Less
<1>4. CASE k < n
  <2>1. s[k] < u[k]
    BY <1>1, <1>2, <1>4
  <2>2. \A m \in 1 .. k - 1 : s[m] = u[m]
    BY <1>1, <1>2, <1>4
  <2> QED
    BY <2>1, <2>2 DEF Less
<1> QED
  BY <1>3, <1>4
=============================================================================
