-------------------------- MODULE COFFWriterProofs --------------------------
(***************************************************************************)
(* Proofs about COFFWriter: chunks lie in their sections, sections apart   *)
(* from each other, whatever their number, sizes and alignments.           *)
(***************************************************************************)
EXTENDS COFFWriter, CommonLemmas

-----------------------------------------------------------------------------
(* Multiples, and rounding up to them.                                     *)

\* Quotient and remainder of a division.
LEMMA DivFacts ==
  ASSUME NEW n \in Int, NEW a \in Nat \ {0}
  PROVE  n \div a \in Int /\ n % a \in 0 .. a - 1 /\ n = (n \div a) * a + (n % a)
OBVIOUS

\* What has no remainder is a multiple.
LEMMA MultipleIs ==
  ASSUME NEW x \in Int, NEW a \in Nat \ {0}
  PROVE  x % a = 0 <=> \E k \in Int : x = k * a
<1>1. ASSUME x % a = 0 PROVE \E k \in Int : x = k * a
  <2>1. x \div a \in Int /\ x = (x \div a) * a + (x % a)
    BY DivFacts
  <2>2. x = (x \div a) * a
    BY <1>1, <2>1
  <2> QED BY <2>1, <2>2
<1>2. ASSUME NEW k \in Int, x = k * a PROVE x % a = 0
  <2>1. PICK d \in Int, r \in 0 .. a - 1 : r = x % a /\ x = d * a + r
    BY DivFacts
  <2>2. (k - d) * a = r
    BY <1>2, <2>1
  <2>3. k - d <= 0
    <3>1. ASSUME k - d >= 1 PROVE FALSE
      <4>1. (k - d) * a >= a
        BY <3>1
      <4> QED BY <2>1, <2>2, <4>1
    <3> QED BY <3>1
  <2>4. k - d >= 0
    <3>1. ASSUME k - d <= -1 PROVE FALSE
      <4>1. (k - d) * a <= 0 - a
        BY <3>1
      <4> QED BY <2>1, <2>2, <4>1
    <3> QED BY <3>1
  <2> QED BY <2>1, <2>2, <2>3, <2>4
<1> QED BY <1>1, <1>2

\* RoundUp gives the next multiple.
LEMMA RoundUpFacts ==
  ASSUME NEW n \in Int, NEW a \in Nat \ {0}
  PROVE  /\ RoundUp(n, a) \in Int /\ n <= RoundUp(n, a) /\ RoundUp(n, a) < n + a
         /\ RoundUp(n, a) % a = 0
<1>1. PICK q \in Int, r \in 0 .. a - 1 : q = (n + a - 1) \div a /\ n + a - 1 = q * a + r
  BY DivFacts, n + a - 1 \in Int
<1>2. RoundUp(n, a) = q * a
  BY <1>1 DEF RoundUp
<1>3. q * a \in Int /\ q * a = n + a - 1 - r
  BY <1>1
<1>4. (q * a) % a = 0
  BY <1>3, MultipleIs
<1> QED BY <1>2, <1>3, <1>4

\* The sum of two multiples is one.
LEMMA SumOfMultiples ==
  ASSUME NEW x \in Int, NEW y \in Int, NEW a \in Nat \ {0}, x % a = 0, y % a = 0
  PROVE  (x + y) % a = 0
<1>1. PICK k \in Int, l \in Int : x = k * a /\ y = l * a
  BY MultipleIs
<1>2. x + y = (k + l) * a /\ k + l \in Int /\ x + y \in Int
  BY <1>1
<1> QED BY <1>2, MultipleIs

\* A multiple of a multiple is one.
LEMMA MultipleOfMultiple ==
  ASSUME NEW x \in Int, NEW a \in Nat \ {0}, NEW b \in Nat \ {0}, x % a = 0, a % b = 0
  PROVE  x % b = 0
<1>1. PICK k \in Int : x = k * a
  BY MultipleIs
<1>3. PICK l \in Int : a = l * b
  BY MultipleIs
<1>2. x = (k * l) * b /\ k * l \in Int
  BY <1>1, <1>3
<1> QED BY <1>2, MultipleIs

-----------------------------------------------------------------------------
(* Lists in an order.                                                      *)

Strict(S, R) ==
  /\ \A x \in S : <<x, x>> \notin R
  /\ \A x, y \in S : x = y \/ <<x, y>> \in R \/ <<y, x>> \in R
  /\ \A x, y, z \in S : <<x, y>> \in R /\ <<y, z>> \in R => <<x, z>> \in R

\* The members of a finite set can be listed in any strict order, since no two
\* have the same number of members before them.
LEMMA SortedFacts ==
  ASSUME NEW S, IsFiniteSet(S), NEW R, Strict(S, R)
  PROVE  /\ SortedBy(S, R) \in [1 .. Cardinality(S) -> S] /\ SortedBy(S, R) \in Seq(S)
         /\ Len(SortedBy(S, R)) = Cardinality(S)
         /\ \A x \in S : \E k \in 1 .. Cardinality(S) : SortedBy(S, R)[k] = x
         /\ \A k, l \in 1 .. Cardinality(S) :
              k < l => <<SortedBy(S, R)[k], SortedBy(S, R)[l]>> \in R
<1> DEFINE before(x) == {y \in S : <<y, x>> \in R}
           rank == [x \in S |-> Cardinality(before(x)) + 1]
           N == Cardinality(S)
<1>1. N \in Nat /\ IsFiniteSet(1 .. N) /\ Cardinality(1 .. N) = N
  <2>1. N \in Nat
    BY FS_CardinalityType
  <2> QED BY <2>1, FS_Interval
<1>2. ASSUME NEW x \in S
      PROVE  IsFiniteSet(before(x)) /\ Cardinality(before(x)) \in 0 .. N - 1
  <2>1. before(x) \in SUBSET S /\ x \notin before(x)
    BY DEF Strict
  <2> HIDE DEF before
  <2>2. /\ IsFiniteSet(before(x)) /\ Cardinality(before(x)) <= N
        /\ N = Cardinality(before(x)) => S = before(x)
    BY <2>1, FS_Subset
  <2>3. Cardinality(before(x)) \in Nat
    BY <2>2, FS_CardinalityType
  <2> QED BY <1>1, <2>1, <2>2, <2>3
<1>3. ASSUME NEW x \in S, NEW y \in S, <<x, y>> \in R PROVE rank[x] < rank[y]
  <2>1. before(x) \in SUBSET before(y) /\ x \in before(y) /\ x \notin before(x)
    BY <1>3 DEF Strict
  <2> HIDE DEF before
  <2>2. IsFiniteSet(before(y)) /\ Cardinality(before(y)) \in Int /\ Cardinality(before(x)) \in Int
    BY <1>2
  <2>3. /\ Cardinality(before(x)) <= Cardinality(before(y))
        /\ Cardinality(before(y)) = Cardinality(before(x)) => before(y) = before(x)
    BY <2>1, <2>2, FS_Subset
  <2>4. Cardinality(before(x)) < Cardinality(before(y))
    BY <2>1, <2>2, <2>3
  <2> QED BY <2>2, <2>4
<1>4. rank \in [S -> 1 .. N]
  <2> HIDE DEF before
  <2>1. \A x \in S : Cardinality(before(x)) + 1 \in 1 .. N
    BY <1>1, <1>2
  <2> QED BY <2>1
<1>5. ASSUME NEW x \in S, NEW y \in S, rank[x] = rank[y] PROVE x = y
  <2> HIDE DEF rank
  <2>1. rank[x] \in 1 .. N /\ rank[y] \in 1 .. N
    BY <1>4
  <2>2. ~(rank[x] < rank[y]) /\ ~(rank[y] < rank[x])
    BY <1>5, <2>1
  <2> QED BY <1>3, <2>2 DEF Strict
<1>6. rank \in Surjection(S, 1 .. N)
  <2> HIDE DEF rank, N
  <2>1. rank \in Injection(S, 1 .. N)
    BY <1>4, <1>5 DEF Injection, IsInjective
  <2> QED BY <1>1, <2>1, FS_Injection DEF N
<1>7. ASSUME NEW k \in 1 .. N
      PROVE  SortedBy(S, R)[k] \in S /\ rank[SortedBy(S, R)[k]] = k
  <2>1. PICK x \in S : rank[x] = k
    BY <1>6 DEF Surjection
  <2>2. Cardinality(before(x)) = k - 1
    <3> HIDE DEF before
    <3>1. Cardinality(before(x)) \in Int /\ Cardinality(before(x)) + 1 = k
      BY <1>2, <2>1
    <3> QED BY <1>1, <3>1
  <2>3. SortedBy(S, R)[k] = CHOOSE y \in S : Cardinality(before(y)) = k - 1
    BY DEF SortedBy
  <2> HIDE DEF before
  <2>4. SortedBy(S, R)[k] \in S /\ Cardinality(before(SortedBy(S, R)[k])) = k - 1
    BY <2>2, <2>3
  <2> QED BY <1>1, <2>4
<1>8. \E e : SortedBy(S, R) = [k \in 1 .. N |-> e[k]]
  <2> DEFINE member(k) == CHOOSE x \in S : Cardinality(before(x)) = k - 1
             e == [k \in 1 .. N |-> member(k)]
  <2>1. SortedBy(S, R) = e
    BY DEF SortedBy
  <2> HIDE DEF member
  <2>2. e = [k \in 1 .. N |-> e[k]]
    OBVIOUS
  <2> QED BY <2>1, <2>2
<1> HIDE DEF rank
<1>9. PICK s : s = SortedBy(S, R)
  OBVIOUS
<1>10. s \in [1 .. N -> S] /\ \A k \in 1 .. N : rank[s[k]] = k
  BY <1>7, <1>8, <1>9
<1>11. s \in Seq(S) /\ Len(s) = N
  BY <1>1, <1>10, SeqDef
<1>12. ASSUME NEW x \in S PROVE \E k \in 1 .. N : s[k] = x
  <2>1. rank[x] \in 1 .. N
    BY <1>4
  <2>2. s[rank[x]] \in S /\ rank[s[rank[x]]] = rank[x]
    BY <1>10, <2>1
  <2> QED BY <1>5, <2>1, <2>2
<1>13. ASSUME NEW k \in 1 .. N, NEW l \in 1 .. N, k < l PROVE <<s[k], s[l]>> \in R
  <2>1. s[k] \in S /\ s[l] \in S /\ rank[s[k]] = k /\ rank[s[l]] = l
    BY <1>10
  <2>2. s[k] # s[l]
    BY <1>13, <2>1
  <2>3. <<s[l], s[k]>> \notin R
    <3>1. ~(rank[s[l]] < rank[s[k]])
      BY <1>1, <1>13, <2>1
    <3> QED BY <1>3, <2>1, <3>1
  <2> QED BY <2>1, <2>2, <2>3 DEF Strict
<1> QED BY <1>9, <1>10, <1>11, <1>12, <1>13

\* A finite set of integers in ascending order.
LEMMA AscendingFacts ==
  ASSUME NEW S \in SUBSET Int, IsFiniteSet(S)
  PROVE  /\ Cardinality(S) \in Nat
         /\ Ascending(S) \in [1 .. Cardinality(S) -> S] /\ Ascending(S) \in Seq(S)
         /\ Len(Ascending(S)) = Cardinality(S) /\ DOMAIN Ascending(S) = 1 .. Cardinality(S)
         /\ \A x \in S : \E k \in 1 .. Cardinality(S) : Ascending(S)[k] = x
         /\ \A k, l \in 1 .. Cardinality(S) : k < l => Ascending(S)[k] < Ascending(S)[l]
<1>1. PICK R : R = {p \in S \X S : p[1] < p[2]}
  OBVIOUS
<1>2. \A x, y \in S : <<x, y>> \in R <=> x < y
  BY <1>1
<1>3. Strict(S, R)
  <2>1. S \subseteq Int
    OBVIOUS
  <2> QED BY <1>2, <2>1 DEF Strict
<1>4. Ascending(S) = SortedBy(S, R)
  BY <1>1 DEF Ascending
<1>5. PICK s : s = SortedBy(S, R)
  OBVIOUS
<1>6. PICK N \in Nat : N = Cardinality(S)
  BY FS_CardinalityType
<1>7. /\ s \in [1 .. N -> S] /\ s \in Seq(S) /\ Len(s) = N
      /\ \A x \in S : \E k \in 1 .. N : s[k] = x
      /\ \A k, l \in 1 .. N : k < l => <<s[k], s[l]>> \in R
  <2>1. /\ SortedBy(S, R) \in [1 .. Cardinality(S) -> S] /\ SortedBy(S, R) \in Seq(S)
        /\ Len(SortedBy(S, R)) = Cardinality(S)
        /\ \A x \in S : \E k \in 1 .. Cardinality(S) : SortedBy(S, R)[k] = x
        /\ \A k, l \in 1 .. Cardinality(S) :
             k < l => <<SortedBy(S, R)[k], SortedBy(S, R)[l]>> \in R
    BY <1>3, SortedFacts
  <2> QED BY <1>5, <1>6, <2>1
<1>8. \A k, l \in 1 .. N : k < l => s[k] < s[l]
  BY <1>2, <1>7
<1> QED BY <1>4, <1>5, <1>6, <1>7, <1>8

\* A function on 1 .. n is a sequence of length n.
LEMMA SeqIs ==
  ASSUME NEW T, NEW n \in Nat, NEW f \in [1 .. n -> T]
  PROVE  f \in Seq(T) /\ Len(f) = n /\ DOMAIN f = 1 .. n
BY SeqDef

\* What is picked from a sequence keeps its order.
LEMMA PickedFacts ==
  ASSUME NEW T, NEW s \in Seq(T), NEW I \in SUBSET DOMAIN s
  PROVE  /\ Picked(s, I) \in Seq(T) /\ Len(Picked(s, I)) = Cardinality(I)
         /\ DOMAIN Picked(s, I) = 1 .. Cardinality(I) /\ Cardinality(I) \in Nat
         /\ \A k \in 1 .. Cardinality(I) : \E i \in I : Picked(s, I)[k] = s[i]
         /\ \A k, l \in 1 .. Cardinality(I) : k < l =>
              \E i, j \in I : i < j /\ Picked(s, I)[k] = s[i] /\ Picked(s, I)[l] = s[j]
         /\ \A i \in I : \E k \in 1 .. Cardinality(I) : Picked(s, I)[k] = s[i]
<1>1. DOMAIN s = 1 .. Len(s) /\ Len(s) \in Nat /\ \A i \in DOMAIN s : s[i] \in T
  BY LenProperties, ElementOfSeq
<1>2. I \in SUBSET Int /\ IsFiniteSet(I)
  <2>1. IsFiniteSet(1 .. Len(s)) /\ I \in SUBSET (1 .. Len(s))
    BY <1>1, FS_Interval
  <2> QED BY <2>1, FS_Subset
<1>3. PICK a : a = Ascending(I)
  OBVIOUS
<1>4. PICK N \in Nat : N = Cardinality(I)
  BY <1>2, FS_CardinalityType
<1>5. /\ a \in [1 .. N -> I] /\ DOMAIN a = 1 .. N
      /\ \A x \in I : \E k \in 1 .. N : a[k] = x
      /\ \A k, l \in 1 .. N : k < l => a[k] < a[l]
  BY <1>2, <1>3, <1>4, AscendingFacts
<1>6. Picked(s, I) = [k \in 1 .. N |-> s[a[k]]]
  BY <1>3, <1>5 DEF Picked
<1>7. PICK p : p = Picked(s, I)
  OBVIOUS
<1>8. p \in [1 .. N -> T] /\ \A k \in 1 .. N : a[k] \in I /\ p[k] = s[a[k]]
  BY <1>1, <1>5, <1>6, <1>7
<1>9. p \in Seq(T) /\ Len(p) = N /\ DOMAIN p = 1 .. N
  BY <1>8, SeqIs
<1>10. ASSUME NEW k \in 1 .. N PROVE \E i \in I : p[k] = s[i]
  BY <1>8
<1>11. ASSUME NEW k \in 1 .. N, NEW l \in 1 .. N, k < l
       PROVE  \E i, j \in I : i < j /\ p[k] = s[i] /\ p[l] = s[j]
  <2>1. a[k] \in I /\ a[l] \in I /\ a[k] < a[l] /\ p[k] = s[a[k]] /\ p[l] = s[a[l]]
    BY <1>5, <1>8, <1>11
  <2> QED BY <2>1
<1>12. ASSUME NEW i \in I PROVE \E k \in 1 .. N : p[k] = s[i]
  BY <1>5, <1>8
<1> QED BY <1>4, <1>7, <1>9, <1>10, <1>11, <1>12

-----------------------------------------------------------------------------
(* FlattenSeq, Max and Min.                                                *)

\* Flattening a sequence of sequences gives a sequence with their members.
LEMMA FlattenFacts ==
  ASSUME NEW T, NEW ss \in Seq(Seq(T))
  PROVE  /\ FlattenSeq(ss) \in Seq(T)
         /\ ToSet(FlattenSeq(ss)) = UNION {ToSet(ss[i]) : i \in DOMAIN ss}
<1>1. Len(ss) \in Nat /\ DOMAIN ss = 1 .. Len(ss) /\ \A i \in 1 .. Len(ss) : ss[i] \in Seq(T)
  BY LenProperties, ElementOfSeq
<1>2. CASE Len(ss) = 0
  <2>1. ss = <<>>
    BY <1>2, EmptySeq
  <2>2. FlattenSeq(ss) = <<>> /\ DOMAIN ss = {} /\ ToSet(<<>>) = {}
    BY <1>1, <1>2, <2>1 DEF FlattenSeq, ToSet
  <2> QED BY <2>2, EmptySeq
<1>3. CASE Len(ss) # 0
  <2> DEFINE n == Len(ss)
             S == Nat \X Seq(T)
             Flat(h) == h = [i \in 1 .. n |-> IF i = 1 THEN ss[i] ELSE h[i - 1] \o ss[i]]
             step == [p \in S |-> <<p[1] + 1, IF p[1] + 1 \in 1 .. n
                                              THEN IF p[1] = 0 THEN ss[1]
                                                   ELSE p[2] \o ss[p[1] + 1]
                                              ELSE p[2]>>]
  <2>1. \A v \in Seq(T), w \in Seq(T) : v \o w \in Seq(T)
    BY ConcatProperties
  <2>2. \E h : Flat(h)
    <3>1. step \in [S -> S] /\ <<0, <<>>>> \in S
      <4>1. ASSUME NEW p \in S PROVE step[p] \in S
        <5>1. PICK k \in Nat, v \in Seq(T) : p = <<k, v>>
          OBVIOUS
        <5>2. k + 1 \in 1 .. n => ss[1] \in Seq(T) /\ v \o ss[k + 1] \in Seq(T)
          BY <1>1, <2>1
        <5>3. step[p] = <<k + 1, IF k + 1 \in 1 .. n
                                 THEN IF k = 0 THEN ss[1] ELSE v \o ss[k + 1]
                                 ELSE v>>
          BY <5>1
        <5>4. PICK w : w = IF k + 1 \in 1 .. n
                           THEN IF k = 0 THEN ss[1] ELSE v \o ss[k + 1]
                           ELSE v
          OBVIOUS
        <5>5. w \in Seq(T)
          BY <5>2, <5>4
        <5>6. step[p] = <<k + 1, w>> /\ k + 1 \in Nat
          BY <5>3, <5>4
        <5> HIDE DEF step
        <5> QED BY <5>5, <5>6
      <4>2. <<0, <<>>>> \in S
        BY EmptySeq
      <4>3. DOMAIN step = S /\ step = [p \in S |-> step[p]]
        OBVIOUS
      <4> HIDE DEF step, S
      <4> QED BY <4>1, <4>2, <4>3
    <3>2. PICK f : Orbit(f, S, step, <<0, <<>>>>)
      BY <3>1, Iterate
    <3>3. f \in [Nat -> S] /\ f[0] = <<0, <<>>>> /\ \A k \in Nat : f[k + 1] = step[f[k]]
      BY <3>2 DEF Orbit
    <3>4. \A k \in Nat : f[k][1] = k
      <4> DEFINE K == {k \in Nat : f[k][1] = k}
      <4>1. 0 \in K
        BY <3>3
      <4>2. ASSUME NEW k \in K PROVE k + 1 \in K
        <5>1. f[k] \in S /\ f[k + 1] = step[f[k]] /\ k + 1 \in Nat
          <6>1. k \in Nat
            OBVIOUS
          <6> HIDE DEF step, S, K
          <6> QED BY <3>3, <6>1
        <5>2. step[f[k]][1] = f[k][1] + 1
          BY <5>1
        <5> QED BY <5>1, <5>2
      <4> HIDE DEF step
      <4>3. K \in SUBSET Nat
        OBVIOUS
      <4> HIDE DEF K
      <4>4. K = Nat
        BY <4>1, <4>2, <4>3, Induction
      <4> QED BY <4>4 DEF K
    <3> DEFINE h == [i \in 1 .. n |-> f[i][2]]
    <3>5. ASSUME NEW i \in 1 .. n
          PROVE  h[i] = IF i = 1 THEN ss[i] ELSE h[i - 1] \o ss[i]
      <4>1. i - 1 \in Nat /\ (i - 1) + 1 = i /\ i \in Nat
        BY <1>1
      <4>2. f[i - 1] \in S /\ f[i - 1][1] = i - 1 /\ f[i] = step[f[i - 1]]
        <5> HIDE DEF step, S
        <5> QED BY <3>3, <3>4, <4>1
      <4>3. f[i][2] = IF i - 1 = 0 THEN ss[1] ELSE f[i - 1][2] \o ss[i]
        <5>1. PICK v \in Seq(T) : f[i - 1] = <<i - 1, v>>
          BY <4>2
        <5>2. step[<<i - 1, v>>] = <<i, IF i - 1 = 0 THEN ss[1] ELSE v \o ss[i]>>
          BY <4>1
        <5> HIDE DEF step
        <5> QED BY <4>2, <5>1, <5>2
      <4>4. i # 1 => i - 1 \in 1 .. n
        BY <1>1
      <4> QED BY <1>1, <4>1, <4>3, <4>4
    <3>6. Flat(h)
      <4> DEFINE e(i) == IF i = 1 THEN ss[i] ELSE h[i - 1] \o ss[i]
      <4>1. \A i \in 1 .. n : h[i] = e(i)
        BY <3>5
      <4>2. h = [i \in 1 .. n |-> h[i]]
        OBVIOUS
      <4> HIDE DEF h, e
      <4>3. h = [i \in 1 .. n |-> e(i)]
        BY <4>1, <4>2
      <4> QED BY <4>3 DEF e
    <3> QED BY <3>6
  <2>3. PICK h : h = CHOOSE g : Flat(g)
    OBVIOUS
  <2>4. Flat(h)
    <3> HIDE DEF Flat
    <3> QED BY <2>2, <2>3
  <2>5. FlattenSeq(ss) = h[n]
    BY <1>3, <2>3 DEF FlattenSeq
  <2> DEFINE Upto(k) == UNION {ToSet(ss[i]) : i \in 1 .. k}
  <2>6. \A i \in 1 .. n : h[i] \in Seq(T) /\ ToSet(h[i]) = Upto(i)
    <3> DEFINE K == {k \in Nat : k + 1 \in 1 .. n =>
                       h[k + 1] \in Seq(T) /\ ToSet(h[k + 1]) = Upto(k + 1)}
    <3>1. 0 \in K
      <4>1. ASSUME 1 \in 1 .. n PROVE h[1] = ss[1] /\ h[1] \in Seq(T)
        BY <1>1, <2>4, <4>1
      <4>2. Upto(1) = ToSet(ss[1])
        BY 1 .. 1 = {1}
      <4> QED BY <4>1, <4>2
    <3>2. ASSUME NEW k \in K PROVE k + 1 \in K
      <4>1. SUFFICES ASSUME (k + 1) + 1 \in 1 .. n
                     PROVE  /\ h[(k + 1) + 1] \in Seq(T)
                            /\ ToSet(h[(k + 1) + 1]) = Upto((k + 1) + 1)
        OBVIOUS
      <4>2. k + 1 \in 1 .. n /\ (k + 1) + 1 # 1 /\ ((k + 1) + 1) - 1 = k + 1
        BY <1>1, <4>1
      <4>3. h[(k + 1) + 1] = h[k + 1] \o ss[(k + 1) + 1]
        BY <2>4, <4>1, <4>2
      <4>4. h[k + 1] \in Seq(T) /\ ss[(k + 1) + 1] \in Seq(T) /\ ToSet(h[k + 1]) = Upto(k + 1)
        BY <1>1, <3>2, <4>1, <4>2
      <4>5. 1 .. (k + 1) + 1 = (1 .. k + 1) \cup {(k + 1) + 1}
        OBVIOUS
      <4>6. Upto((k + 1) + 1) = Upto(k + 1) \cup ToSet(ss[(k + 1) + 1])
        BY <4>5
      <4> HIDE DEF Upto
      <4>7. /\ h[k + 1] \o ss[(k + 1) + 1] \in Seq(T)
            /\ ToSet(h[k + 1] \o ss[(k + 1) + 1]) = ToSet(h[k + 1]) \cup ToSet(ss[(k + 1) + 1])
        BY <4>4, ConcatFacts
      <4> QED BY <4>3, <4>4, <4>6, <4>7
    <3>3. K \in SUBSET Nat
      OBVIOUS
    <3> HIDE DEF K
    <3>4. K = Nat
      BY <3>1, <3>2, <3>3, Induction
    <3>5. ASSUME NEW i \in 1 .. n PROVE h[i] \in Seq(T) /\ ToSet(h[i]) = Upto(i)
      <4>1. i - 1 \in K /\ (i - 1) + 1 = i
        BY <1>1, <3>4
      <4> QED BY <4>1 DEF K
    <3> QED BY <3>5
  <2>7. n \in 1 .. n /\ DOMAIN ss = 1 .. n
    BY <1>1, <1>3
  <2>8. Upto(n) = UNION {ToSet(ss[i]) : i \in DOMAIN ss}
    BY <2>7
  <2> HIDE DEF Upto, Flat
  <2> QED BY <2>5, <2>6, <2>7, <2>8
<1> QED BY <1>1, <1>2, <1>3

\* A set of naturals that is not empty has its minimum.
LEMMA MinFacts ==
  ASSUME NEW S \in SUBSET Nat, S # {}
  PROVE  Min(S) \in S /\ \A x \in S : Min(S) <= x
BY Least DEF Min

\* A finite set of naturals has a largest one: of the sets of those above its
\* members one is minimal.
LEMMA MaxFacts ==
  ASSUME NEW S \in SUBSET Nat, S # {}, IsFiniteSet(S)
  PROVE  Max(S) \in S /\ \A x \in S : Max(S) >= x
<1> DEFINE R == StrictSubsetOrdering(S)
           above(x) == {y \in S : y > x}
           A == {above(x) : x \in S}
<1>1. IsWellFoundedOn(R, FiniteSubsetsOf(S))
  BY FS_StrictSubsetOrderingWellFounded
<1>2. A \subseteq FiniteSubsetsOf(S) /\ A # {}
  <2>1. FiniteSubsetsOf(S) = SUBSET S
    BY FS_FiniteSubsetsOfFinite
  <2>2. \A x \in S : above(x) \in SUBSET S
    OBVIOUS
  <2>3. PICK z \in S : TRUE
    OBVIOUS
  <2> HIDE DEF above
  <2>4. above(z) \in A
    OBVIOUS
  <2>5. ASSUME NEW X \in A PROVE X \in SUBSET S
    BY <2>2
  <2> QED BY <2>1, <2>4, <2>5
<1> HIDE DEF R, A
<1>3. \E X \in A : \A Y \in A : <<Y, X>> \notin R
  BY <1>1, <1>2, WFMin
<1>4. PICK x \in S : \A Y \in A : <<Y, above(x)>> \notin R
  BY <1>3 DEF A
<1>5. ASSUME NEW y \in S, y > x PROVE FALSE
  <2>1. above(y) \in A
    BY DEF A
  <2>2. above(y) \in SUBSET above(x) /\ y \in above(x) /\ y \notin above(y)
    <3>1. x \in Nat /\ y \in Nat /\ \A z \in S : z \in Nat
      OBVIOUS
    <3>2. \A z \in S : z > y => z > x
      BY <1>5, <3>1
    <3>3. above(y) \in SUBSET above(x)
      BY <3>2
    <3>4. y \in above(x) /\ y \notin above(y)
      BY <1>5, <3>1
    <3> QED BY <3>3, <3>4
  <2>3. above(y) \in SUBSET S /\ above(x) \in SUBSET S /\ above(y) # above(x)
    BY <2>2
  <2>4. <<above(y), above(x)>> \in R
    BY <2>2, <2>3 DEF R, StrictSubsetOrdering
  <2> QED BY <1>4, <2>1, <2>4
<1>6. \A y \in S : x >= y
  BY <1>5
<1> QED BY <1>6 DEF Max

\* The image of a finite set is finite.
LEMMA FiniteImage ==
  ASSUME NEW S, IsFiniteSet(S), NEW f, DOMAIN f = S
  PROVE  IsFiniteSet({f[x] : x \in S})
<1> DEFINE g == [x \in S |-> f[x]]
<1>1. g \in Surjection(S, {f[x] : x \in S})
  BY DEF Surjection
<1> QED BY <1>1, FS_Surjection

-----------------------------------------------------------------------------
(* The chunks that the writer makes itself.                                *)

Kinds == {"local",
          "lookup", "lookup end", "address", "address end", "dir", "dir end", "hint", "dll",
          "delay name", "delay name end", "delay dir", "delay dir end", "delay hint",
          "delay dll", "delay module", "delay address", "delay address end", "delay thunk",
          "export dir", "export dll", "export addresses", "export names", "export ordinals",
          "export name", "baserel"}
ChunkRecords == [is : Kinds, of : Nat, size : Nat, align : Nat \ {0}, data : BOOLEAN]
ThunkRecords ==
  [is : {"thunk"}, of : Nat, size : Nat, align : Nat \ {0}, data : BOOLEAN]
ImportRecords == [dll : Nat, name : Nat, ext : BOOLEAN, thunk : BOOLEAN]
ExportRecords == [name : Nat, ext : Nat, ordinal : Nat, noname : BOOLEAN, sym : Nat]

\* Chunk and NullChunk make chunks.
LEMMA ChunkTyped ==
  ASSUME NEW is \in Kinds, NEW of \in Nat, NEW size \in Nat
  PROVE  Chunk(is, of, size) \in ChunkRecords /\ NullChunk(is, of, size) \in ChunkRecords
<1>1. Chunk(is, of, size) \in ChunkRecords
  <2>1. 1 \in Nat \ {0}
    OBVIOUS
  <2> QED BY <2>1 DEF Chunk, ChunkRecords
<1>2. PICK c \in ChunkRecords : c = Chunk(is, of, size)
  BY <1>1
<1>3. [c EXCEPT !.data = FALSE] \in ChunkRecords
  BY DEF ChunkRecords
<1> QED BY <1>1, <1>2, <1>3 DEF NullChunk

\* Rounding up a natural number gives one,
LEMMA RoundUpNat ==
  ASSUME NEW n \in Nat, NEW a \in Nat \ {0}
  PROVE  RoundUp(n, a) \in Nat
BY RoundUpFacts

\* which is a multiple and not less.
LEMMA RoundedUp ==
  ASSUME NEW n \in Nat, NEW a \in Nat \ {0}
  PROVE  \E r \in Nat : r = RoundUp(n, a) /\ n <= r /\ r % a = 0
<1>1. /\ RoundUp(n, a) \in Int /\ n <= RoundUp(n, a)
      /\ RoundUp(n, a) % a = 0
  <2>1. n \in Int
    OBVIOUS
  <2> QED BY <2>1, RoundUpFacts
<1>2. PICK r : r = RoundUp(n, a)
  OBVIOUS
<1>3. r \in Nat /\ n <= r /\ r % a = 0
  BY <1>1, <1>2
<1> QED BY <1>2, <1>3

\* Sizes of entries, names and hints.
LEMMA SizesAreNat ==
  ASSUME NEW is64
  PROVE  PtrSize(is64) \in Nat /\ StringSize \in Nat /\ RoundUp(NameLength + 3, 2) \in Nat
<1>1. RoundUp(NameLength + 3, 2) \in Nat
  <2>1. NameLength + 3 \in Nat /\ 2 \in Nat \ {0}
    BY NameLengthAssumption
  <2> QED BY <2>1, RoundUpNat
<1> QED BY <1>1, NameLengthAssumption DEF PtrSize, StringSize

\* Imports as WorldAssumption has them, and some of their indices.
Importing(imports, S) ==
  /\ imports \in Seq(ImportRecords)
  /\ \A i, j \in DOMAIN imports :
       imports[i].dll = imports[j].dll /\ imports[i].name = imports[j].name => i = j
  /\ S \in SUBSET DOMAIN imports

\* Indices of imports are finitely many, and so are their DLLs.
LEMMA ImportFacts ==
  ASSUME NEW imports, NEW S, Importing(imports, S)
  PROVE  /\ S \in SUBSET Nat /\ IsFiniteSet(S) /\ DOMAIN imports = 1 .. Len(imports)
         /\ Len(imports) \in Nat
         /\ \A i \in S : imports[i].dll \in Nat /\ imports[i].name \in Nat
         /\ DLLs(imports, S) \in Seq(Nat)
         /\ DOMAIN DLLs(imports, S) = 1 .. Len(DLLs(imports, S))
         /\ Len(DLLs(imports, S)) \in Nat
         /\ \A k \in DOMAIN DLLs(imports, S) : DLLs(imports, S)[k] \in Nat
<1>1. /\ DOMAIN imports = 1 .. Len(imports) /\ Len(imports) \in Nat
      /\ \A i \in DOMAIN imports : imports[i] \in ImportRecords
  BY LenProperties, ElementOfSeq DEF Importing
<1>2. S \in SUBSET (1 .. Len(imports)) /\ IsFiniteSet(1 .. Len(imports))
  BY <1>1, FS_Interval DEF Importing
<1>3. S \in SUBSET Nat /\ IsFiniteSet(S)
  <2>1. 1 .. Len(imports) \subseteq Nat
    BY <1>1
  <2>2. IsFiniteSet(S)
    BY <1>2, FS_Subset
  <2> QED BY <1>2, <2>1, <2>2
<1>4. \A i \in S : imports[i].dll \in Nat /\ imports[i].name \in Nat
  BY <1>1, <1>2 DEF ImportRecords
<1>5. PICK D : D = {imports[i].dll : i \in S}
  OBVIOUS
<1>6. IsFiniteSet(D) /\ D \in SUBSET Nat
  <2> DEFINE f == [i \in S |-> imports[i].dll]
  <2>1. D = {f[i] : i \in S}
    BY <1>5
  <2>2. DOMAIN f = S
    OBVIOUS
  <2> HIDE DEF f
  <2>3. IsFiniteSet(D)
    BY <1>3, <2>1, <2>2, FiniteImage
  <2> QED BY <1>4, <1>5, <2>3
<1>7. PICK s : s = Ascending(D)
  OBVIOUS
<1>8. s \in Seq(D)
  <2>1. D \in SUBSET Int
    BY <1>6
  <2> QED BY <1>6, <1>7, <2>1, AscendingFacts
<1>9. s \in Seq(Nat)
  BY <1>6, <1>8, SeqMonotonic
<1>10. DOMAIN s = 1 .. Len(s) /\ Len(s) \in Nat /\ \A k \in DOMAIN s : s[k] \in Nat
  BY <1>9, LenProperties, ElementOfSeq
<1>11. DLLs(imports, S) = s
  BY <1>5, <1>7 DEF DLLs
<1> QED BY <1>1, <1>3, <1>4, <1>9, <1>10, <1>11

\* The imports of one DLL can be sorted by name, for their names differ.
LEMMA BinFacts ==
  ASSUME NEW imports, NEW S, Importing(imports, S), NEW d
  PROVE  /\ BinImports(imports, S, d) \in Seq(S) /\ BinImports(imports, S, d) \in Seq(Nat)
         /\ DOMAIN BinImports(imports, S, d) = 1 .. Len(BinImports(imports, S, d))
         /\ Len(BinImports(imports, S, d)) \in Nat
         /\ \A k \in DOMAIN BinImports(imports, S, d) : BinImports(imports, S, d)[k] \in S
<1>1. /\ S \in SUBSET Nat /\ IsFiniteSet(S)
      /\ \A i \in S : imports[i].dll \in Nat /\ imports[i].name \in Nat
  BY ImportFacts
<1>2. PICK own : own = {i \in S : imports[i].dll = d}
  OBVIOUS
<1>3. PICK R : R = {p \in own \X own : imports[p[1]].name < imports[p[2]].name}
  OBVIOUS
<1>4. IsFiniteSet(own) /\ own \in SUBSET S
  BY <1>1, <1>2, FS_Subset
<1>5. Strict(own, R)
  <2>1. \A i, j \in own : <<i, j>> \in R <=> imports[i].name < imports[j].name
    BY <1>3
  <2>2. \A i \in own : imports[i].name \in Nat
    BY <1>1, <1>4
  <2>3. ASSUME NEW i \in own, NEW j \in own, imports[i].name = imports[j].name PROVE i = j
    <3>1. imports[i].dll = imports[j].dll
      BY <1>2
    <3> QED BY <1>4, <2>3, <3>1 DEF Importing
  <2>4. \A i, j \in own : i = j \/ imports[i].name < imports[j].name
                                \/ imports[j].name < imports[i].name
    BY <2>2, <2>3
  <2> QED BY <2>1, <2>2, <2>4 DEF Strict
<1>6. PICK s : s = SortedBy(own, R)
  OBVIOUS
<1>7. s \in Seq(own)
  BY <1>4, <1>5, <1>6, SortedFacts
<1>8. s \in Seq(S) /\ s \in Seq(Nat)
  BY <1>1, <1>4, <1>7, SeqMonotonic
<1>9. DOMAIN s = 1 .. Len(s) /\ Len(s) \in Nat /\ \A k \in DOMAIN s : s[k] \in S
  BY <1>8, LenProperties, ElementOfSeq
<1>10. BinImports(imports, S, d) = s
  BY <1>2, <1>3, <1>6 DEF BinImports
<1> QED BY <1>8, <1>9, <1>10

\* A table of one row for each DLL.
LEMMA RowsFlatten ==
  ASSUME NEW imports, NEW S, Importing(imports, S), NEW T, NEW row,
         DOMAIN row = DOMAIN DLLs(imports, S), row = [k \in DOMAIN row |-> row[k]],
         \A k \in DOMAIN row : row[k] \in Seq(T)
  PROVE  FlattenSeq(row) \in Seq(T)
<1>1. PICK n \in Nat : DOMAIN row = 1 .. n
  BY ImportFacts
<1>2. row \in [1 .. n -> Seq(T)]
  BY <1>1
<1>3. row \in Seq(Seq(T))
  BY <1>2, SeqIs
<1> QED BY <1>3, FlattenFacts

\* The imports of a table, and those by name.
LEMMA AllImportsFacts ==
  ASSUME NEW imports, NEW S, Importing(imports, S)
  PROVE  AllImports(imports, S) \in Seq(Nat) /\ ByName(imports, S) \in Seq(Nat)
<1> DEFINE dlls == DLLs(imports, S)
           bin(d) == BinImports(imports, S, d)
           rows == [k \in DOMAIN dlls |-> bin(dlls[k])]
<1>1. \A k \in DOMAIN dlls : bin(dlls[k]) \in Seq(S)
  BY BinFacts
<1>2. AllImports(imports, S) = FlattenSeq(rows)
  BY DEF AllImports, Each
<1>3. /\ DOMAIN rows = DOMAIN DLLs(imports, S) /\ rows = [k \in DOMAIN rows |-> rows[k]]
      /\ \A k \in DOMAIN rows : rows[k] \in Seq(S)
  <2> HIDE DEF bin
  <2> QED BY <1>1
<1> HIDE DEF rows
<1>4. FlattenSeq(rows) \in Seq(S)
  BY <1>3, RowsFlatten
<1>5. PICK all : all = AllImports(imports, S)
  OBVIOUS
<1>6. PICK I \in SUBSET DOMAIN all : ByName(imports, S) = Picked(all, I)
  BY <1>5 DEF ByName
<1>7. all \in Seq(Nat)
  BY <1>2, <1>4, <1>5, ImportFacts, SeqMonotonic
<1> QED BY <1>5, <1>6, <1>7, PickedFacts

\* A sequence with an operator applied to its elements.
LEMMA MapTyped ==
  ASSUME NEW A, NEW b \in Seq(A), NEW T, NEW f, DOMAIN f = DOMAIN b,
         f = [j \in DOMAIN f |-> f[j]], \A j \in DOMAIN b : f[j] \in T
  PROVE  f \in Seq(T) /\ Len(f) = Len(b)
<1>1. DOMAIN b = 1 .. Len(b) /\ Len(b) \in Nat
  BY LenProperties
<1>2. f \in [1 .. Len(b) -> T]
  BY <1>1
<1> QED BY <1>1, <1>2, SeqIs

\* A sequence of chunks of one kind.
LEMMA EntriesTyped ==
  ASSUME NEW b \in Seq(Nat), NEW is \in Kinds, NEW size \in Nat
  PROVE  [j \in DOMAIN b |-> Chunk(is, b[j], size)] \in Seq(ChunkRecords)
<1> DEFINE f == [j \in DOMAIN b |-> Chunk(is, b[j], size)]
<1>2. ASSUME NEW j \in DOMAIN b PROVE f[j] \in ChunkRecords
  <2>1. b[j] \in Nat
    BY ElementOfSeq, LenProperties
  <2>2. Chunk(is, b[j], size) \in ChunkRecords
    BY <2>1, ChunkTyped
  <2> QED BY <2>2
<1>3. DOMAIN f = DOMAIN b /\ f = [j \in DOMAIN f |-> f[j]]
  OBVIOUS
<1> HIDE DEF f
<1>4. f \in Seq(ChunkRecords)
  BY <1>2, <1>3, MapTyped
<1> QED BY <1>4 DEF f

\* The import lookup tables are chunks.
LEMMA LookupsTyped ==
  ASSUME NEW imports, NEW S, Importing(imports, S), NEW is64
  PROVE  Lookups(imports, S, is64) \in Seq(ChunkRecords)
<1> DEFINE dlls == DLLs(imports, S)
           bin(d) == BinImports(imports, S, d)
           entries(d) == [j \in DOMAIN bin(d) |-> Chunk("lookup", bin(d)[j], PtrSize(is64))]
           row == [k \in DOMAIN dlls |->
                     Append(entries(dlls[k]), NullChunk("lookup end", dlls[k], PtrSize(is64)))]
<1>1. Lookups(imports, S, is64) = FlattenSeq(row)
  BY DEF Lookups, Table, Each
<1>2. ASSUME NEW k \in DOMAIN dlls PROVE row[k] \in Seq(ChunkRecords)
  <2>1. PICK p \in Nat : p = PtrSize(is64)
    BY SizesAreNat
  <2>2. PICK d \in Nat : d = dlls[k]
    BY ImportFacts
  <2>3. entries(d) \in Seq(ChunkRecords)
    <3>1. "lookup" \in Kinds
      BY DEF Kinds
    <3>2. PICK b \in Seq(Nat) : b = bin(d)
      BY BinFacts
    <3>3. [j \in DOMAIN b |-> Chunk("lookup", b[j], p)] \in Seq(ChunkRecords)
      BY <3>1, EntriesTyped
    <3> QED BY <2>1, <3>2, <3>3
  <2>4. NullChunk("lookup end", d, PtrSize(is64)) \in ChunkRecords
    <3>1. "lookup end" \in Kinds
      BY DEF Kinds
    <3> QED BY <2>1, ChunkTyped, <3>1
  <2> HIDE DEF entries
  <2> QED BY <2>2, <2>3, <2>4, AppendProperties
<1>3. DOMAIN row = DOMAIN DLLs(imports, S) /\ row = [k \in DOMAIN row |-> row[k]]
  OBVIOUS
<1> HIDE DEF row
<1> QED BY <1>1, <1>2, <1>3, RowsFlatten

\* The import address tables are chunks.
LEMMA AddressesTyped ==
  ASSUME NEW imports, NEW S, Importing(imports, S), NEW is64
  PROVE  Addresses(imports, S, is64) \in Seq(ChunkRecords)
<1> DEFINE dlls == DLLs(imports, S)
           bin(d) == BinImports(imports, S, d)
           entries(d) == [j \in DOMAIN bin(d) |-> Chunk("address", bin(d)[j], PtrSize(is64))]
           row == [k \in DOMAIN dlls |->
                     Append(entries(dlls[k]), NullChunk("address end", dlls[k], PtrSize(is64)))]
<1>1. Addresses(imports, S, is64) = FlattenSeq(row)
  BY DEF Addresses, Table, Each
<1>2. ASSUME NEW k \in DOMAIN dlls PROVE row[k] \in Seq(ChunkRecords)
  <2>1. PICK p \in Nat : p = PtrSize(is64)
    BY SizesAreNat
  <2>2. PICK d \in Nat : d = dlls[k]
    BY ImportFacts
  <2>3. entries(d) \in Seq(ChunkRecords)
    <3>1. "address" \in Kinds
      BY DEF Kinds
    <3>2. PICK b \in Seq(Nat) : b = bin(d)
      BY BinFacts
    <3>3. [j \in DOMAIN b |-> Chunk("address", b[j], p)] \in Seq(ChunkRecords)
      BY <3>1, EntriesTyped
    <3> QED BY <2>1, <3>2, <3>3
  <2>4. NullChunk("address end", d, PtrSize(is64)) \in ChunkRecords
    <3>1. "address end" \in Kinds
      BY DEF Kinds
    <3> QED BY <2>1, ChunkTyped, <3>1
  <2> HIDE DEF entries
  <2> QED BY <2>2, <2>3, <2>4, AppendProperties
<1>3. DOMAIN row = DOMAIN DLLs(imports, S) /\ row = [k \in DOMAIN row |-> row[k]]
  OBVIOUS
<1> HIDE DEF row
<1> QED BY <1>1, <1>2, <1>3, RowsFlatten

\* The name tables of delay-loaded DLLs are chunks.
LEMMA DelayNamesTyped ==
  ASSUME NEW imports, NEW S, Importing(imports, S), NEW is64
  PROVE  DelayNames(imports, S, is64) \in Seq(ChunkRecords)
<1> DEFINE dlls == DLLs(imports, S)
           bin(d) == BinImports(imports, S, d)
           entries(d) == [j \in DOMAIN bin(d) |-> Chunk("delay name", bin(d)[j], PtrSize(is64))]
           row == [k \in DOMAIN dlls |->
                     Append(entries(dlls[k]), NullChunk("delay name end", dlls[k], 8))]
<1>1. DelayNames(imports, S, is64) = FlattenSeq(row)
  BY DEF DelayNames, Table, Each
<1>2. ASSUME NEW k \in DOMAIN dlls PROVE row[k] \in Seq(ChunkRecords)
  <2>1. PICK p \in Nat : p = PtrSize(is64)
    BY SizesAreNat
  <2>2. PICK d \in Nat : d = dlls[k]
    BY ImportFacts
  <2>3. entries(d) \in Seq(ChunkRecords)
    <3>1. "delay name" \in Kinds
      BY DEF Kinds
    <3>2. PICK b \in Seq(Nat) : b = bin(d)
      BY BinFacts
    <3>3. [j \in DOMAIN b |-> Chunk("delay name", b[j], p)] \in Seq(ChunkRecords)
      BY <3>1, EntriesTyped
    <3> QED BY <2>1, <3>2, <3>3
  <2>4. NullChunk("delay name end", d, 8) \in ChunkRecords
    <3>1. "delay name end" \in Kinds
      BY DEF Kinds
    <3> QED BY <2>1, ChunkTyped, <3>1
  <2> HIDE DEF entries
  <2> QED BY <2>2, <2>3, <2>4, AppendProperties
<1>3. DOMAIN row = DOMAIN DLLs(imports, S) /\ row = [k \in DOMAIN row |-> row[k]]
  OBVIOUS
<1> HIDE DEF row
<1> QED BY <1>1, <1>2, <1>3, RowsFlatten


\* Hint/name entries are chunks.
LEMMA HintsTyped ==
  ASSUME NEW b \in Seq(Nat), NEW is \in Kinds
  PROVE  [j \in DOMAIN b |-> HintName(is, b[j])] \in Seq(ChunkRecords)
<1>1. PICK hint \in Nat : hint = RoundUp(NameLength + 3, 2)
  BY SizesAreNat
<1>2. [j \in DOMAIN b |-> Chunk(is, b[j], hint)] \in Seq(ChunkRecords)
  BY EntriesTyped
<1> QED BY <1>1, <1>2 DEF HintName

\* All of .idata are chunks,
LEMMA IdataTyped ==
  ASSUME NEW imports, NEW S, Importing(imports, S), NEW is64
  PROVE  IdataChunks(imports, S, is64) \in Seq(ChunkRecords)
<1>1. PICK dlls \in Seq(Nat) : dlls = DLLs(imports, S)
  BY ImportFacts
<1>2. PICK named \in Seq(Nat) : named = ByName(imports, S)
  BY AllImportsFacts
<1>3. PICK size \in Nat : size = StringSize
  BY SizesAreNat
<1>4. "dir" \in Kinds /\ "dir end" \in Kinds /\ "hint" \in Kinds /\ "dll" \in Kinds
      /\ 20 \in Nat /\ 0 \in Nat
  BY DEF Kinds
<1>5. PICK dirs \in Seq(ChunkRecords) : dirs = Dirs(imports, S)
  <2>1. [j \in DOMAIN dlls |-> Chunk("dir", dlls[j], 20)] \in Seq(ChunkRecords)
    BY <1>4, EntriesTyped
  <2>2. NullChunk("dir end", 0, 20) \in ChunkRecords
    BY <1>4, ChunkTyped
  <2> QED BY <1>1, <2>1, <2>2, AppendProperties DEF Dirs, Each
<1>6. PICK hints \in Seq(ChunkRecords) :
        hints = [j \in DOMAIN named |-> HintName("hint", named[j])]
  BY <1>4, HintsTyped
<1>7. PICK names \in Seq(ChunkRecords) :
        names = [j \in DOMAIN dlls |-> Chunk("dll", dlls[j], size)]
  BY <1>4, EntriesTyped
<1>8. PICK l \in Seq(ChunkRecords), a \in Seq(ChunkRecords) :
        l = Lookups(imports, S, is64) /\ a = Addresses(imports, S, is64)
  BY LookupsTyped, AddressesTyped
<1>9. IdataChunks(imports, S, is64) = dirs \o l \o a \o hints \o names
  BY <1>1, <1>2, <1>3, <1>5, <1>6, <1>7, <1>8 DEF IdataChunks, Each
<1> QED BY <1>9, ConcatProperties

\* and all of .didat,
LEMMA DelayTyped ==
  ASSUME NEW imports, NEW S, Importing(imports, S), NEW is64
  PROVE  DelayChunks(imports, S, is64) \in Seq(ChunkRecords)
<1>1. PICK dlls \in Seq(Nat) : dlls = DLLs(imports, S)
  BY ImportFacts
<1>2. PICK named \in Seq(Nat) : named = ByName(imports, S)
  BY AllImportsFacts
<1>3. PICK size \in Nat : size = StringSize
  BY SizesAreNat
<1>4. /\ "delay dir" \in Kinds /\ "delay dir end" \in Kinds /\ "delay hint" \in Kinds
      /\ "delay dll" \in Kinds /\ 32 \in Nat /\ 0 \in Nat
  BY DEF Kinds
<1>5. PICK dirs \in Seq(ChunkRecords) :
        dirs = Append([j \in DOMAIN dlls |-> Chunk("delay dir", dlls[j], 32)],
                      NullChunk("delay dir end", 0, 32))
  <2>1. [j \in DOMAIN dlls |-> Chunk("delay dir", dlls[j], 32)] \in Seq(ChunkRecords)
    BY <1>4, EntriesTyped
  <2>2. NullChunk("delay dir end", 0, 32) \in ChunkRecords
    BY <1>4, ChunkTyped
  <2> QED BY <2>1, <2>2, AppendProperties
<1>6. PICK hints \in Seq(ChunkRecords) :
        hints = [j \in DOMAIN named |-> HintName("delay hint", named[j])]
  BY <1>4, HintsTyped
<1>7. PICK names \in Seq(ChunkRecords) :
        names = [j \in DOMAIN dlls |-> Chunk("delay dll", dlls[j], size)]
  BY <1>4, EntriesTyped
<1>8. PICK l \in Seq(ChunkRecords) : l = DelayNames(imports, S, is64)
  BY DelayNamesTyped
<1>9. DelayChunks(imports, S, is64) = dirs \o l \o hints \o names
  BY <1>1, <1>2, <1>3, <1>5, <1>6, <1>7, <1>8 DEF DelayChunks, Each
<1> QED BY <1>9, ConcatProperties

\* the thunks of delay-loaded imports,
LEMMA DelayCodeTyped ==
  ASSUME NEW imports, NEW S, Importing(imports, S)
  PROVE  DelayCodeChunks(imports, S) \in Seq(ChunkRecords)
<1>1. PICK all \in Seq(Nat) : all = AllImports(imports, S)
  BY AllImportsFacts
<1>2. "delay thunk" \in Kinds /\ 87 \in Nat
  BY DEF Kinds
<1>3. [j \in DOMAIN all |-> Chunk("delay thunk", all[j], 87)] \in Seq(ChunkRecords)
  BY <1>2, EntriesTyped
<1> QED BY <1>1, <1>3 DEF DelayCodeChunks, Each

\* and what delay-loading puts into .data.
LEMMA DelayDataTyped ==
  ASSUME NEW imports, NEW S, Importing(imports, S)
  PROVE  DelayDataChunks(imports, S) \in Seq(ChunkRecords)
<1> DEFINE dlls == DLLs(imports, S)
           bin(d) == BinImports(imports, S, d)
           entries(d) == [j \in DOMAIN bin(d) |-> Chunk("delay address", bin(d)[j], 8)]
           row == [k \in DOMAIN dlls |->
                     Append(entries(dlls[k]), NullChunk("delay address end", dlls[k], 8))]
           handle(d) == [NullChunk("delay module", d, 8) EXCEPT !.align = 8]
           handles == [k \in DOMAIN dlls |-> handle(dlls[k])]
<1>1. DelayDataChunks(imports, S) = handles \o FlattenSeq(row)
  BY DEF DelayDataChunks, Table, Each
<1>2. ASSUME NEW k \in DOMAIN dlls PROVE row[k] \in Seq(ChunkRecords)
  <2>2. PICK d \in Nat : d = dlls[k]
    BY ImportFacts
  <2>3. entries(d) \in Seq(ChunkRecords)
    <3>1. "delay address" \in Kinds /\ 8 \in Nat
      BY DEF Kinds
    <3>2. PICK b \in Seq(Nat) : b = bin(d)
      BY BinFacts
    <3>3. [j \in DOMAIN b |-> Chunk("delay address", b[j], 8)] \in Seq(ChunkRecords)
      BY <3>1, EntriesTyped
    <3> QED BY <3>2, <3>3
  <2>4. NullChunk("delay address end", d, 8) \in ChunkRecords
    <3>1. "delay address end" \in Kinds /\ 8 \in Nat
      BY DEF Kinds
    <3> QED BY <3>1, ChunkTyped
  <2> HIDE DEF entries
  <2> QED BY <2>2, <2>3, <2>4, AppendProperties
<1>3. DOMAIN row = DOMAIN DLLs(imports, S) /\ row = [k \in DOMAIN row |-> row[k]]
  OBVIOUS
<1>4. handles \in Seq(ChunkRecords)
  <2>1. ASSUME NEW d \in Nat PROVE handle(d) \in ChunkRecords
    <3>1. "delay module" \in Kinds /\ 8 \in Nat \ {0}
      BY DEF Kinds
    <3>2. PICK c \in ChunkRecords : c = NullChunk("delay module", d, 8)
      BY <3>1, ChunkTyped
    <3>3. [c EXCEPT !.align = 8] \in ChunkRecords
      BY <3>1 DEF ChunkRecords
    <3> QED BY <3>2, <3>3
  <2>2. DOMAIN handles = DOMAIN dlls /\ handles = [k \in DOMAIN handles |-> handles[k]]
    OBVIOUS
  <2>3. ASSUME NEW k \in DOMAIN dlls PROVE handles[k] \in ChunkRecords
    <3>1. dlls[k] \in Nat
      BY ImportFacts
    <3> HIDE DEF handle
    <3> QED BY <2>1, <3>1
  <2>4. dlls \in Seq(Nat)
    BY ImportFacts
  <2> HIDE DEF handles, handle
  <2> QED BY <2>2, <2>3, <2>4, MapTyped
<1> HIDE DEF row, handles
<1>5. FlattenSeq(row) \in Seq(ChunkRecords)
  BY <1>2, <1>3, RowsFlatten
<1> QED BY <1>1, <1>4, <1>5, ConcatProperties

\* Exports are finitely many, have a largest ordinal and a table of names.
LEMMA ExportFacts ==
  ASSUME NEW es \in Seq(ExportRecords)
  PROVE  /\ DOMAIN es = 1 .. Len(es) /\ Len(es) \in Nat /\ IsFiniteSet(DOMAIN es)
         /\ \A i \in DOMAIN es : es[i] \in ExportRecords
         /\ MaxOrdinal(es) \in Nat /\ Named(es) \in Seq(Nat) /\ Len(Named(es)) \in Nat
<1>1. /\ DOMAIN es = 1 .. Len(es) /\ Len(es) \in Nat /\ \A i \in DOMAIN es : es[i] \in ExportRecords
  BY LenProperties, ElementOfSeq
<1>2. IsFiniteSet(DOMAIN es) /\ DOMAIN es \in SUBSET Nat
  BY <1>1, FS_Interval
<1>3. PICK O : O = {es[i].ordinal : i \in DOMAIN es}
  OBVIOUS
<1>4. IsFiniteSet(O) /\ O \in SUBSET Nat
  <2> DEFINE f == [i \in DOMAIN es |-> es[i].ordinal]
  <2>1. O = {f[i] : i \in DOMAIN es}
    BY <1>3
  <2>2. DOMAIN f = DOMAIN es
    OBVIOUS
  <2> HIDE DEF f
  <2>3. IsFiniteSet(O)
    BY <1>2, <2>1, <2>2, FiniteImage
  <2>4. ASSUME NEW i \in DOMAIN es PROVE es[i].ordinal \in Nat
    <3>1. \A e \in ExportRecords : e.ordinal \in Nat
      BY DEF ExportRecords
    <3> QED BY <1>1, <3>1
  <2> QED BY <1>3, <2>3, <2>4
<1>5. PICK P : P = {0} \cup O
  OBVIOUS
<1>6. P \in SUBSET Nat /\ P # {} /\ IsFiniteSet(P)
  <2>1. IsFiniteSet(O \cup {0})
    BY <1>4, FS_AddElement
  <2>2. P = O \cup {0}
    BY <1>5
  <2>3. \A x \in P : x \in Nat
    BY <1>4, <2>2
  <2> QED BY <2>1, <2>2, <2>3
<1>7. MaxOrdinal(es) \in Nat
  <2>1. Max(P) \in P
    BY <1>6, MaxFacts
  <2> QED BY <1>3, <1>5, <1>6, <2>1 DEF MaxOrdinal
<1>8. PICK I : I = {i \in DOMAIN es : ~es[i].noname}
  OBVIOUS
<1>9. I \in SUBSET Nat /\ I \in SUBSET Int /\ IsFiniteSet(I)
  BY <1>2, <1>8, FS_Subset
<1>10. Ascending(I) \in Seq(I)
  BY <1>9, AscendingFacts
<1>11. PICK s \in Seq(Nat) : s = Ascending(I)
  BY <1>9, <1>10, SeqMonotonic
<1>12. Named(es) \in Seq(Nat) /\ Len(Named(es)) \in Nat
  BY <1>8, <1>11, LenProperties DEF Named
<1> QED BY <1>1, <1>2, <1>7, <1>12

\* All of .edata are chunks.
LEMMA EdataTyped ==
  ASSUME NEW es \in Seq(ExportRecords)
  PROVE  EdataChunks(es) \in Seq(ChunkRecords)
<1>1. PICK max \in Nat, named \in Seq(Nat), n \in Nat, size \in Nat :
        /\ max = MaxOrdinal(es) /\ named = Named(es) /\ n = Len(named) /\ size = StringSize
  BY ExportFacts, SizesAreNat
<1>2. /\ "export dir" \in Kinds /\ "export dll" \in Kinds /\ "export addresses" \in Kinds
      /\ "export names" \in Kinds /\ "export ordinals" \in Kinds /\ "export name" \in Kinds
      /\ 0 \in Nat /\ 40 \in Nat /\ 4 * (max + 1) \in Nat /\ 4 * n \in Nat /\ 2 * n \in Nat
  BY DEF Kinds
<1>3. PICK names \in Seq(ChunkRecords) :
        names = [j \in DOMAIN named |-> Chunk("export name", named[j], size)]
  BY <1>2, EntriesTyped
<1>4. PICK a \in ChunkRecords, b \in ChunkRecords, c \in ChunkRecords, d \in ChunkRecords,
           e \in ChunkRecords :
        /\ a = Chunk("export dir", 0, 40) /\ b = Chunk("export dll", 0, size)
        /\ c = Chunk("export addresses", 0, 4 * (max + 1))
        /\ d = Chunk("export names", 0, 4 * n) /\ e = Chunk("export ordinals", 0, 2 * n)
  BY <1>2, ChunkTyped
<1>5. <<a, b, c, d, e>> \in Seq(ChunkRecords)
  OBVIOUS
<1>6. EdataChunks(es) = <<a, b, c, d, e>> \o names
  BY <1>1, <1>3, <1>4 DEF EdataChunks, Each
<1> QED BY <1>3, <1>5, <1>6, ConcatProperties

\* fixupExports leaves exports.
LEMMA FixupTyped ==
  ASSUME NEW es \in Seq(ExportRecords)
  PROVE  FixupExports(es) \in Seq(ExportRecords)
<1>1. /\ DOMAIN es = 1 .. Len(es) /\ Len(es) \in Nat /\ IsFiniteSet(DOMAIN es)
      /\ \A i \in DOMAIN es : es[i] \in ExportRecords
  BY ExportFacts
<1>2. PICK first : first = {i \in DOMAIN es : \A j \in 1 .. i - 1 : es[j].name # es[i].name}
  OBVIOUS
<1>3. PICK R : R = {p \in first \X first :
                      \/ es[p[1]].ext < es[p[2]].ext
                      \/ es[p[1]].ext = es[p[2]].ext /\ p[1] < p[2]}
  OBVIOUS
<1>4. IsFiniteSet(first) /\ first \in SUBSET DOMAIN es
  BY <1>1, <1>2, FS_Subset
<1>5. Strict(first, R)
  <2>1. \A i, j \in first : <<i, j>> \in R <=> \/ es[i].ext < es[j].ext
                                               \/ es[i].ext = es[j].ext /\ i < j
    BY <1>3
  <2>2. ASSUME NEW i \in first PROVE i \in Nat /\ es[i].ext \in Nat
    <3>1. \A e \in ExportRecords : e.ext \in Nat
      BY DEF ExportRecords
    <3> QED BY <1>1, <1>4, <3>1
  <2> QED BY <2>1, <2>2 DEF Strict
<1>6. PICK at : at = SortedBy(first, R)
  OBVIOUS
<1>7. at \in Seq(first)
  BY <1>4, <1>5, <1>6, SortedFacts
<1>8. PICK v : v = [k \in DOMAIN at |-> es[at[k]]]
  OBVIOUS
<1>9. UniqueExports(es) = v
  BY <1>2, <1>3, <1>6, <1>8 DEF UniqueExports, Each
<1>10. v \in Seq(ExportRecords)
  <2>1. \A k \in DOMAIN at : at[k] \in first
    BY <1>7, LenProperties, ElementOfSeq
  <2>2. \A k \in DOMAIN at : v[k] \in ExportRecords
    BY <1>1, <1>4, <1>8, <2>1
  <2>3. DOMAIN v = DOMAIN at /\ v = [k \in DOMAIN v |-> v[k]]
    BY <1>8
  <2> QED BY <1>7, <2>2, <2>3, MapTyped
<1>11. PICK max \in Nat : max = MaxOrdinal(v)
  BY <1>10, ExportFacts
<1>12. /\ DOMAIN v = 1 .. Len(v) /\ Len(v) \in Nat /\ \A i \in DOMAIN v : v[i] \in ExportRecords
  BY <1>10, ExportFacts
<1> DEFINE w == [i \in DOMAIN v |->
                   IF v[i].ordinal # 0 THEN v[i]
                   ELSE [v[i] EXCEPT !.ordinal =
                           Last16(max + Cardinality({j \in 1 .. i : v[j].ordinal = 0}))]]
<1>13. FixupExports(es) = w
  BY <1>9, <1>11 DEF FixupExports
<1>14. ASSUME NEW i \in DOMAIN v PROVE w[i] \in ExportRecords
  <2>1. i \in Nat /\ IsFiniteSet(1 .. i)
    BY <1>12, FS_Interval
  <2>2. PICK J : J = {j \in 1 .. i : v[j].ordinal = 0}
    OBVIOUS
  <2>3. IsFiniteSet(J)
    BY <2>1, <2>2, FS_Subset
  <2>4. PICK c \in Nat : c = Cardinality(J)
    BY <2>3, FS_CardinalityType
  <2>5. PICK e \in ExportRecords : e = v[i]
    BY <1>12
  <2>6. PICK n \in Nat : n = Last16(max + c)
    BY (max + c) % 65536 \in Nat DEF Last16
  <2>7. [e EXCEPT !.ordinal = n] \in ExportRecords
    BY DEF ExportRecords
  <2>8. w[i] = IF e.ordinal # 0 THEN e ELSE [e EXCEPT !.ordinal = n]
    BY <2>2, <2>4, <2>5, <2>6
  <2> QED BY <2>7, <2>8
<1>15. DOMAIN w = DOMAIN v /\ w = [i \in DOMAIN w |-> w[i]]
  OBVIOUS
<1> HIDE DEF w
<1> QED BY <1>10, <1>13, <1>14, <1>15, MapTyped

-----------------------------------------------------------------------------
(* The lists of chunks that the phases add to sections.                    *)

SectionNames ==
  STRING \cup {".text", ".rdata", ".data", ".idata", ".didat", ".edata", ".reloc"}
SectionRecords(w) == [is : {"section"}, of : DOMAIN w.chunks, size : Nat,
                      align : Nat \ {0}, data : BOOLEAN]
AllChunks(w) == ChunkRecords \cup ThunkRecords \cup SectionRecords(w)
Items(w) == [sec : SectionNames, chunk : AllChunks(w) \cup {None}]
Relocs == [at : Nat, abs : BOOLEAN, base : BOOLEAN]
InputChunks == [sec : ToSet(InputNames), size : Nat, align : Nat \ {0},
                data : BOOLEAN, code : BOOLEAN, relocs : Seq(Relocs)]

\* .reloc has no chunks of input sections, and import thunks hold no absolute
\* addresses.
OwnReloc(w) ==
  /\ \A n \in ToSet(InputNames) : Split[n] # ".reloc"
  /\ \A n \in DOMAIN w.merge : w.merge[n] # ".reloc"
  /\ w.is64 \/ \A i \in DOMAIN w.imports : ~w.imports[i].thunk

\* Items of the phases before .reloc is made.
Listed(w) == {x \in Items(w) : OwnReloc(w) =>
                /\ x.sec # ".reloc"
                /\ x.chunk # None => w.is64 \/ x.chunk.is # "thunk"}

\* Chunks for a section are items that a phase can add.
LEMMA ForSectionTyped ==
  ASSUME NEW w, NEW sec \in SectionNames, NEW T \in SUBSET AllChunks(w), NEW cs \in Seq(T)
  PROVE  /\ ForSection(sec, cs) \in Seq(Items(w))
         /\ ForSection(sec, cs) \in Seq([sec : {sec}, chunk : T])
<1> DEFINE f == [j \in DOMAIN cs |-> [sec |-> sec, chunk |-> cs[j]]]
<1>1. ForSection(sec, cs) = f
  BY DEF ForSection, Add, Each
<1>2. ASSUME NEW j \in DOMAIN cs
      PROVE  f[j] \in Items(w) /\ f[j] \in [sec : {sec}, chunk : T]
  <2>1. cs[j] \in T
    BY LenProperties, ElementOfSeq
  <2> QED BY <2>1 DEF Items
<1>3. DOMAIN f = DOMAIN cs /\ f = [j \in DOMAIN f |-> f[j]]
  OBVIOUS
<1> HIDE DEF f
<1>4. f \in Seq(Items(w))
  BY <1>2, <1>3, MapTyped
<1>5. f \in Seq([sec : {sec}, chunk : T])
  BY <1>2, <1>3, MapTyped
<1> QED BY <1>1, <1>4, <1>5

\* Items for a section, of a set of items.
LEMMA ForSectionOf ==
  ASSUME NEW sec, NEW T, NEW cs \in Seq(T), NEW I, \A c \in T : Add(sec, c) \in I
  PROVE  ForSection(sec, cs) \in Seq(I)
<1> DEFINE f == [j \in DOMAIN cs |-> Add(sec, cs[j])]
<1>1. ForSection(sec, cs) = f
  BY DEF ForSection, Each
<1>2. \A j \in DOMAIN cs : f[j] \in I
  BY LenProperties, ElementOfSeq
<1>3. DOMAIN f = DOMAIN cs /\ f = [j \in DOMAIN f |-> f[j]]
  OBVIOUS
<1> HIDE DEF f
<1> QED BY <1>1, <1>2, <1>3, MapTyped

\* What WorldAssumption says of a link, in the words of these proofs.
LEMMA WorldFacts ==
  ASSUME NEW w \in Worlds
  PROVE  /\ w.chunks \in Seq(InputChunks) /\ w.locals \in Nat
         /\ \A n \in DOMAIN w.merge : w.merge[n] \in STRING
         /\ \A S \in SUBSET DOMAIN w.imports : Importing(w.imports, S)
         /\ w.exports \in Seq(ExportRecords)
         /\ w.symbols \in Seq([chunk : Nat, value : Nat, long : BOOLEAN])
BY WorldAssumption DEF InputChunks, Relocs, Importing, ImportRecords, ExportRecords

\* Output sections have names.
LEMMA OutputNames ==
  ASSUME world \in Worlds, NEW n \in ToSet(InputNames)
  PROVE  OutputName(n) \in STRING /\ (OwnReloc(world) => OutputName(n) # ".reloc")
BY WorldFacts, WorldAssumption DEF OutputName, OwnReloc

\* Chunks of input sections.
LEMMA SectionChunks ==
  ASSUME world \in Worlds
  PROVE  /\ DOMAIN world.chunks = 1 .. Len(world.chunks) /\ Len(world.chunks) \in Nat
         /\ \A i \in DOMAIN world.chunks : /\ world.chunks[i] \in InputChunks
                                           /\ SectionChunk(i) \in SectionRecords(world)
<1>1. PICK cs \in Seq(InputChunks) : cs = world.chunks
  BY WorldFacts
<1>2. DOMAIN cs = 1 .. Len(cs) /\ Len(cs) \in Nat /\ \A i \in DOMAIN cs : cs[i] \in InputChunks
  BY LenProperties, ElementOfSeq
<1>3. ASSUME NEW i \in DOMAIN cs PROVE SectionChunk(i) \in SectionRecords(world)
  <2>1. PICK c \in InputChunks : c = cs[i]
    BY <1>2
  <2>2. c.size \in Nat /\ c.align \in Nat \ {0} /\ c.data \in BOOLEAN
    BY DEF InputChunks
  <2>4. SectionChunk(i) = [is |-> "section", of |-> i, size |-> c.size, align |-> c.align,
                           data |-> c.data]
    BY <1>1, <2>1 DEF SectionChunk
  <2> QED BY <1>1, <2>2, <2>4 DEF SectionRecords
<1> QED BY <1>1, <1>2, <1>3

\* createSections lists items.
LEMMA SectionsTyped ==
  ASSUME world \in Worlds
  PROVE  FlattenSeq(Each(InputNames, LAMBDA n :
           ForSection(OutputName(n),
             Each(Ascending({i \in DOMAIN world.chunks : world.chunks[i].sec = n}),
                  SectionChunk)))) \in Seq(Listed(world))
<1> DEFINE own(n) == {i \in DOMAIN world.chunks : world.chunks[i].sec = n}
           list(n) == [j \in DOMAIN Ascending(own(n)) |-> SectionChunk(Ascending(own(n))[j])]
           rows == [k \in DOMAIN InputNames |->
                      ForSection(OutputName(InputNames[k]), list(InputNames[k]))]
<1>1. ASSUME NEW n \in ToSet(InputNames)
      PROVE  ForSection(OutputName(n), list(n)) \in Seq(Listed(world))
  <2>1. PICK S : S = own(n)
    OBVIOUS
  <2>2. S \in SUBSET DOMAIN world.chunks /\ IsFiniteSet(S) /\ S \in SUBSET Int
    <3>1. PICK m \in Nat : DOMAIN world.chunks = 1 .. m
      BY SectionChunks
    <3>2. S \in SUBSET (1 .. m) /\ IsFiniteSet(1 .. m) /\ 1 .. m \subseteq Int
      BY <2>1, <3>1, FS_Interval
    <3>3. IsFiniteSet(S)
      BY <3>2, FS_Subset
    <3> QED BY <3>1, <3>2, <3>3
  <2>3. PICK a \in Seq(S) : a = Ascending(S)
    BY <2>2, AscendingFacts
  <2> DEFINE f == [j \in DOMAIN a |-> SectionChunk(a[j])]
  <2>4. ASSUME NEW j \in DOMAIN a PROVE f[j] \in SectionRecords(world)
    <3>1. a[j] \in S
      BY LenProperties, ElementOfSeq
    <3> QED BY <2>2, <3>1, SectionChunks
  <2>5. DOMAIN f = DOMAIN a /\ f = [j \in DOMAIN f |-> f[j]]
    OBVIOUS
  <2>6. list(n) = f
    BY <2>1, <2>3
  <2> HIDE DEF f, list
  <2>7. f \in Seq(SectionRecords(world))
    BY <2>4, <2>5, MapTyped
  <2>8. OutputName(n) \in SectionNames
    BY OutputNames DEF SectionNames
  <2>9. ASSUME NEW c \in SectionRecords(world) PROVE Add(OutputName(n), c) \in Listed(world)
    <3>1. c \in AllChunks(world) /\ c.is = "section"
      BY DEF AllChunks, SectionRecords
    <3> QED BY <2>8, <3>1, OutputNames DEF Add, Items, Listed
  <2> QED BY <2>6, <2>7, <2>9, ForSectionOf
<1> HIDE DEF list
<1>2. ASSUME NEW k \in DOMAIN InputNames PROVE rows[k] \in Seq(Listed(world))
  <2>1. InputNames[k] \in ToSet(InputNames)
    BY DEF ToSet
  <2> QED BY <1>1, <2>1
<1>3. DOMAIN rows = DOMAIN InputNames /\ rows = [k \in DOMAIN rows |-> rows[k]]
  OBVIOUS
<1> HIDE DEF rows
<1>4. rows \in Seq(Seq(Listed(world)))
  BY <1>2, <1>3, MapTyped, WorldAssumption
<1>5. FlattenSeq(rows) \in Seq(Listed(world))
  BY <1>4, FlattenFacts
<1> QED BY <1>5 DEF rows, list, Each

\* The sections the writer names itself.
LEMMA Names ==
  /\ ".text" \in SectionNames /\ ".rdata" \in SectionNames /\ ".data" \in SectionNames
  /\ ".idata" \in SectionNames /\ ".didat" \in SectionNames /\ ".edata" \in SectionNames
  /\ ".reloc" \in SectionNames
BY DEF SectionNames

\* Chunks the writer makes are items.
LEMMA MadeTyped ==
  ASSUME NEW w, NEW sec \in SectionNames \ {".reloc"}, NEW cs \in Seq(ChunkRecords)
  PROVE  ForSection(sec, cs) \in Seq(Listed(w))
<1>1. ASSUME NEW c \in ChunkRecords PROVE Add(sec, c) \in Listed(w)
  <2>1. c.is # "thunk"
    BY DEF ChunkRecords, Kinds
  <2> QED BY <2>1 DEF Add, Listed, Items, AllChunks
<1> QED BY <1>1, ForSectionOf

\* createMiscChunks lists items.
LEMMA MiscTyped ==
  ASSUME world \in Worlds
  PROVE  [i \in 1 .. world.locals |-> Add(".rdata", LocalImport(i, world.is64))]
           \in Seq(Listed(world))
<1>1. PICK n \in Nat : n = world.locals
  BY WorldFacts
<1>2. PICK size \in Nat : size = PtrSize(world.is64)
  BY SizesAreNat
<1> DEFINE f == [i \in 1 .. n |-> [sec |-> ".rdata", chunk |-> Chunk("local", i, size)]]
<1>3. ASSUME NEW i \in 1 .. n PROVE f[i] \in Listed(world)
  <2>1. "local" \in Kinds /\ i \in Nat
    BY DEF Kinds
  <2>2. PICK c \in ChunkRecords : c = Chunk("local", i, size)
    BY <2>1, ChunkTyped
  <2>3. c.is # "thunk"
    BY DEF ChunkRecords, Kinds
  <2>4. [sec |-> ".rdata", chunk |-> c] \in Listed(world)
    BY <2>3, Names DEF Listed, Items, AllChunks
  <2> QED BY <2>2, <2>4
<1>4. f = [i \in 1 .. n |-> f[i]]
  OBVIOUS
<1>5. [i \in 1 .. world.locals |-> Add(".rdata", LocalImport(i, world.is64))] = f
  BY <1>1, <1>2 DEF Add, LocalImport
<1> HIDE DEF f
<1>6. f \in [1 .. n -> Listed(world)]
  BY <1>3, <1>4
<1> QED BY <1>5, <1>6, SeqIs

\* Import thunks are chunks.
LEMMA ThunksTyped ==
  ASSUME NEW b \in Seq(Nat)
  PROVE  [j \in DOMAIN b |-> ImportThunk(b[j])] \in Seq(ThunkRecords)
<1> DEFINE f == [j \in DOMAIN b |-> ImportThunk(b[j])]
<1>1. ASSUME NEW j \in DOMAIN b PROVE f[j] \in ThunkRecords
  <2>1. PICK i \in Nat : i = b[j]
    BY LenProperties, ElementOfSeq
  <2>2. [is |-> "thunk", of |-> i, size |-> 6, align |-> 16, data |-> TRUE] \in ThunkRecords
    BY 6 \in Nat, 16 \in Nat \ {0} DEF ThunkRecords
  <2> QED BY <2>1, <2>2 DEF ImportThunk, Chunk
<1>2. DOMAIN f = DOMAIN b /\ f = [j \in DOMAIN f |-> f[j]]
  OBVIOUS
<1> HIDE DEF f
<1>3. f \in Seq(ThunkRecords)
  BY <1>1, <1>2, MapTyped
<1> QED BY <1>3 DEF f

\* createImportTables lists items.
LEMMA ImportListTyped ==
  ASSUME world \in Worlds, CreateImportTables
  PROVE  todo' \in Seq(Listed(world))
<1>1. PICK imports : imports = world.imports
  OBVIOUS
<1>2. PICK now \in SUBSET DOMAIN imports, later \in SUBSET DOMAIN imports :
        now = Imports /\ later = DelayImports
  BY <1>1 DEF Imports, DelayImports
<1>3. Importing(imports, now) /\ Importing(imports, later)
  BY <1>1, WorldFacts
<1>4. PICK text \in Seq(Listed(world)) :
        text = IF imports = <<>> THEN <<>> ELSE <<Add(".text", None)>>
  <2>1. [sec |-> ".text", chunk |-> None] \in Listed(world)
    BY Names DEF Items, Listed
  <2>2. Add(".text", None) \in Listed(world)
    BY <2>1 DEF Add
  <2>3. <<Add(".text", None)>> \in Seq(Listed(world)) /\ <<>> \in Seq(Listed(world))
    BY <2>2
  <2> QED BY <2>3
<1>5. PICK thunks \in Seq(Listed(world)) :
        thunks = ForSection(".text",
                   Each(Ascending({i \in DOMAIN imports : imports[i].thunk}), ImportThunk))
  <2>1. PICK S : S = {i \in DOMAIN imports : imports[i].thunk}
    OBVIOUS
  <2>2. Importing(imports, S)
    BY <1>1, <2>1, WorldFacts
  <2>3. S \in SUBSET Nat /\ IsFiniteSet(S) /\ S \in SUBSET Int
    BY <2>2, ImportFacts
  <2>4. PICK a \in Seq(Nat) : a = Ascending(S)
    BY <2>3, AscendingFacts, SeqMonotonic
  <2>5. PICK T \in SUBSET ThunkRecords :
          /\ [j \in DOMAIN a |-> ImportThunk(a[j])] \in Seq(T)
          /\ OwnReloc(world) => world.is64 \/ T = {}
    <3>1. CASE OwnReloc(world) => world.is64
      <4>1. [j \in DOMAIN a |-> ImportThunk(a[j])] \in Seq(ThunkRecords)
        BY ThunksTyped
      <4> QED BY <3>1, <4>1
    <3>2. CASE OwnReloc(world) /\ ~world.is64
      <4>1. S = {}
        BY <1>1, <2>1, <3>2 DEF OwnReloc
      <4>2. DOMAIN a = {}
        BY <2>3, <2>4, <4>1, AscendingFacts, FS_EmptySet
      <4>3. [j \in DOMAIN a |-> ImportThunk(a[j])] = <<>>
        BY <4>2
      <4>4. <<>> \in Seq({})
        BY EmptySeq
      <4> QED BY <4>3, <4>4
    <3> QED BY <3>1, <3>2
  <2>6. ASSUME NEW c \in T PROVE Add(".text", c) \in Listed(world)
    <3>1. c \in AllChunks(world)
      BY DEF AllChunks
    <3> QED BY <2>5, <3>1, Names DEF Add, Items, Listed
  <2> QED BY <2>1, <2>4, <2>5, <2>6, ForSectionOf DEF Each
<1>6. PICK idata \in Seq(Listed(world)) :
        idata = IF now = {} THEN <<>>
                ELSE ForSection(".idata", IdataChunks(imports, now, world.is64))
  <2>1. ForSection(".idata", IdataChunks(imports, now, world.is64)) \in Seq(Listed(world))
    BY <1>3, IdataTyped, MadeTyped, Names
  <2>2. <<>> \in Seq(Listed(world))
    BY EmptySeq
  <2> QED BY <2>1, <2>2
<1>7. PICK delay \in Seq(Listed(world)) :
        delay = IF later = {} THEN <<>>
                ELSE ForSection(".didat", DelayChunks(imports, later, world.is64))
                       \o ForSection(".data", DelayDataChunks(imports, later))
                       \o ForSection(".text", DelayCodeChunks(imports, later))
  <2>1. ForSection(".didat", DelayChunks(imports, later, world.is64)) \in Seq(Listed(world))
    BY <1>3, DelayTyped, MadeTyped, Names
  <2>2. ForSection(".data", DelayDataChunks(imports, later)) \in Seq(Listed(world))
    BY <1>3, DelayDataTyped, MadeTyped, Names
  <2>3. ForSection(".text", DelayCodeChunks(imports, later)) \in Seq(Listed(world))
    BY <1>3, DelayCodeTyped, MadeTyped, Names
  <2>4. <<>> \in Seq(Listed(world))
    BY EmptySeq
  <2> QED BY <2>1, <2>2, <2>3, <2>4, ConcatProperties
<1>8. todo' = text \o thunks \o idata \o delay
  BY <1>1, <1>2, <1>4, <1>5, <1>6, <1>7 DEF CreateImportTables, Fill
<1> QED BY <1>8, ConcatProperties

\* A chunk that is in a section.
PlacedChunks(w) == [chunk : AllChunks(w), rva : Nat, off : Nat]

\* Parts of a chunk; that of an input section is one of the link's.
LEMMA ChunkParts ==
  ASSUME NEW w, NEW c \in AllChunks(w)
  PROVE  /\ c.size \in Nat /\ c.align \in Nat \ {0} /\ c.data \in BOOLEAN
         /\ c.is = "section" => c.of \in DOMAIN w.chunks
<1>1. CASE c \in ChunkRecords
  <2>1. c.is # "section"
    <3>1. c.is \in Kinds
      BY <1>1 DEF ChunkRecords
    <3> QED BY <3>1 DEF Kinds
  <2> QED BY <1>1, <2>1 DEF ChunkRecords
<1>2. CASE c \in SectionRecords(w)
  BY <1>2 DEF SectionRecords
<1>3. CASE c \in ThunkRecords
  BY <1>3 DEF ThunkRecords
<1> QED BY <1>1, <1>2, <1>3 DEF AllChunks

\* Where a chunk has absolute addresses.
LEMMA BaserelsTyped ==
  ASSUME world \in Worlds, NEW p \in PlacedChunks(world)
  PROVE  Baserels(p) \in Seq(Nat)
<1>1. p.chunk \in AllChunks(world) /\ p.rva \in Nat
  BY DEF PlacedChunks
<1>2. CASE p.chunk.is = "section"
  <2>1. world.chunks[p.chunk.of] \in InputChunks
    BY <1>1, <1>2, ChunkParts, SectionChunks
  <2>2. PICK r \in Seq(Relocs) : r = world.chunks[p.chunk.of].relocs
    BY <2>1 DEF InputChunks
  <2>3. PICK I \in SUBSET DOMAIN r : I = {i \in DOMAIN r : r[i].abs /\ ~r[i].base}
    OBVIOUS
  <2>4. PICK s \in Seq(Relocs) : s = Picked(r, I)
    BY PickedFacts
  <2> DEFINE f == [k \in DOMAIN s |-> p.rva + s[k].at]
  <2>5. ASSUME NEW k \in DOMAIN s PROVE f[k] \in Nat
    <3>1. s[k] \in Relocs
      BY LenProperties, ElementOfSeq
    <3>2. s[k].at \in Nat
      BY <3>1 DEF Relocs
    <3> QED BY <1>1, <3>2
  <2>6. DOMAIN f = DOMAIN s /\ f = [k \in DOMAIN f |-> f[k]]
    OBVIOUS
  <2>7. Baserels(p) = f
    BY <1>2, <2>2, <2>3, <2>4 DEF Baserels, Each
  <2> HIDE DEF f
  <2> QED BY <2>5, <2>6, <2>7, MapTyped
<1>3. CASE p.chunk.is # "section" /\ p.chunk.is \in {"local", "delay address"}
  <2>1. Baserels(p) = <<p.rva>>
    BY <1>3 DEF Baserels
  <2> QED BY <1>1, <2>1
<1>4. CASE p.chunk.is # "section" /\ p.chunk.is \notin {"local", "delay address"}
  <2>1. Baserels(p) = <<>>
    BY <1>4 DEF Baserels
  <2> QED BY <2>1, EmptySeq
<1> QED BY <1>2, <1>3, <1>4

Blocks == [page : Nat, entries : Seq(Nat)]

\* The blocks of the locations of one section.
LEMMA BlocksTyped ==
  ASSUME NEW V \in Seq(Nat), NEW size \in Nat \ {0}
  PROVE  BaserelBlocks(V, size) \in Seq(Blocks)
<1>1. DOMAIN V = 1 .. Len(V) /\ Len(V) \in Nat /\ \A i \in DOMAIN V : V[i] \in Nat
  BY LenProperties, ElementOfSeq
<1>2. PICK starts : starts = {i \in DOMAIN V : i = 1 \/ Page(V[i], size) # Page(V[i - 1], size)}
  OBVIOUS
<1>3. starts \in SUBSET (1 .. Len(V)) /\ IsFiniteSet(starts)
  <2>1. starts \in SUBSET (1 .. Len(V)) /\ IsFiniteSet(1 .. Len(V))
    BY <1>1, <1>2, FS_Interval
  <2> QED BY <2>1, FS_Subset
<1>4. PICK a \in Seq(starts) : a = Ascending(starts)
  <2>1. starts \in SUBSET Int
    BY <1>1, <1>3
  <2> QED BY <1>3, <2>1, AscendingFacts
<1> DEFINE end(i) == Min({j \in starts : j > i} \cup {Len(V) + 1}) - 1
           f == [k \in DOMAIN a |-> [page |-> Page(V[a[k]], size),
                                     entries |-> SubSeq(V, a[k], end(a[k]))]]
<1>5. ASSUME NEW k \in DOMAIN a PROVE f[k] \in Blocks
  <2>1. PICK i \in starts : i = a[k]
    BY LenProperties, ElementOfSeq
  <2>2. i \in 1 .. Len(V) /\ V[i] \in Nat
    BY <1>1, <1>3
  <2>3. Page(V[i], size) \in Nat
    <3>1. PICK v \in Nat : v = V[i]
      BY <2>2
    <3>2. v \div size \in Nat
      OBVIOUS
    <3>3. (v \div size) * size \in Nat
      BY <3>2
    <3> QED BY <3>1, <3>3 DEF Page
  <2>4. PICK M : M = {j \in starts : j > i} \cup {Len(V) + 1}
    OBVIOUS
  <2>5. ASSUME NEW x \in M PROVE x \in Nat /\ i < x /\ x <= Len(V) + 1
    <3>1. CASE x \in starts /\ x > i
      <4>1. x \in 1 .. Len(V)
        BY <1>3, <3>1
      <4> QED BY <1>1, <2>2, <3>1, <4>1
    <3>2. CASE x = Len(V) + 1
      BY <1>1, <2>2, <3>2
    <3> QED BY <2>4, <3>1, <3>2
  <2>6. Min(M) \in M
    <3>1. M \in SUBSET Nat
      BY <2>5
    <3>2. Len(V) + 1 \in M
      BY <2>4
    <3>3. M # {}
      BY <3>2
    <3> QED BY <3>1, <3>3, MinFacts
  <2>7. PICK e \in Nat : e = Min(M) - 1 /\ e <= Len(V)
    <3>1. PICK m \in M : m = Min(M)
      BY <2>6
    <3>2. m \in Nat /\ i < m /\ m <= Len(V) + 1
      BY <2>5
    <3>3. m - 1 \in Nat /\ m - 1 <= Len(V)
      BY <1>1, <2>2, <3>2
    <3> QED BY <3>1, <3>3
  <2>8. SubSeq(V, i, e) \in Seq(Nat)
    BY <2>2, <2>7, SubSeqProperties
  <2>9. f[k] = [page |-> Page(V[i], size), entries |-> SubSeq(V, i, e)]
    BY <2>1, <2>4, <2>7
  <2> QED BY <2>3, <2>8, <2>9 DEF Blocks
<1>6. BaserelBlocks(V, size) = f
  BY <1>2, <1>4 DEF BaserelBlocks, Each
<1>7. DOMAIN f = DOMAIN a /\ f = [k \in DOMAIN f |-> f[k]]
  OBVIOUS
<1> HIDE DEF f
<1> QED BY <1>5, <1>6, <1>7, MapTyped

\* Blocks of .reloc are chunks.
LEMMA BaserelChunksTyped ==
  ASSUME NEW bs \in Seq(Blocks)
  PROVE  [i \in DOMAIN bs |-> BaserelChunk(i, bs[i])] \in Seq(ChunkRecords)
<1> DEFINE f == [i \in DOMAIN bs |-> BaserelChunk(i, bs[i])]
<1>1. ASSUME NEW i \in DOMAIN bs PROVE f[i] \in ChunkRecords
  <2>1. PICK b \in Blocks : b = bs[i]
    BY LenProperties, ElementOfSeq
  <2>2. i \in Nat
    BY LenProperties
  <2>3. PICK n \in Nat : n = Len(b.entries)
    BY LenProperties DEF Blocks
  <2>4. RoundUp(2 * n + 8, 4) \in Nat
    BY RoundUpNat, 2 * n + 8 \in Nat, 4 \in Nat \ {0}
  <2>5. "baserel" \in Kinds
    BY DEF Kinds
  <2>6. Chunk("baserel", i, RoundUp(2 * n + 8, 4)) \in ChunkRecords
    BY <2>2, <2>4, <2>5, ChunkTyped
  <2> QED BY <2>1, <2>3, <2>6 DEF BaserelChunk
<1>2. DOMAIN f = DOMAIN bs /\ f = [i \in DOMAIN f |-> f[i]]
  OBVIOUS
<1> HIDE DEF f
<1>3. f \in Seq(ChunkRecords)
  BY <1>1, <1>2, MapTyped
<1> QED BY <1>3 DEF f

-----------------------------------------------------------------------------
(* The inductive invariant.                                                *)

Sections(w) == [chunks : Seq(PlacedChunks(w)), vsize : Nat, raw : Nat, rva : Nat,
                off : Nat, code : BOOLEAN]

\* ChunksFit of one section; all its chunks end before its end.
SectionFits(s) ==
  /\ s.raw % FileAlignment = 0
  /\ \A i \in DOMAIN s.chunks :
       LET p == s.chunks[i]
           start == p.rva - s.rva
       IN  /\ p.rva >= s.rva
           /\ start % p.chunk.align = 0
           /\ start + p.chunk.size <= s.vsize
           /\ i # Len(s.chunks) => start + p.chunk.size <= s.chunks[i + 1].rva - s.rva
           /\ p.chunk.data => start + p.chunk.size <= s.raw /\ p.off - s.off = start

Unassigned(s) == s.rva = 0 /\ s.off = 0

Distinct(s) == \A i, j \in DOMAIN s : s[i] = s[j] => i = j

Adding == {"fixup", "start", "sections", "misc", "imports", "exports", "reloc"}
Assigning == {"addresses", "baserels"}
Assigned == {"empty", "symbols"}

TypeInv ==
  /\ world \in Worlds
  /\ phase \in Adding \cup Assigning \cup Assigned \cup {"write", "done", "failed"}
  /\ exports \in Seq(ExportRecords)
  /\ todo \in Seq(Items(world))
  /\ order \in Seq(SectionNames) /\ Distinct(order)
  /\ \A i \in DOMAIN order : order[i] \in DOMAIN out
  /\ \A n \in DOMAIN out : out[n] \in Sections(world)
  /\ next \in Nat \ {0} /\ rva \in Nat /\ fileOff \in Nat /\ headers \in Nat
  /\ imageSize \in Nat /\ fileSize \in Nat

\* The first k sections have addresses: they are apart from each other, from
\* the headers, and end before the two ends, the second of them if it is known.
LaidOut(k, rvaEnd, fileEnd, known) ==
  \A i \in 1 .. k :
    LET s == out[order[i]]
    IN  /\ s.rva % PageSize = 0 /\ s.rva >= PageSize
        /\ s.rva + s.vsize <= rvaEnd
        /\ s.raw > 0 => s.off >= headers /\ (known => s.off + s.raw <= fileEnd)
        /\ \A j \in i + 1 .. k :
             LET t == out[order[j]]
             IN  /\ s.rva + s.vsize <= t.rva
                 /\ s.raw > 0 /\ t.raw > 0 => s.off + s.raw <= t.off

FitInv == \A n \in DOMAIN out : SectionFits(out[n])

\* While chunks are added no section has an address; of those that are not yet
\* assigned one, only .reloc gets chunks.
AddInv ==
  /\ phase \in Adding => \A n \in DOMAIN out : Unassigned(out[n])
  /\ phase \in Assigning =>
       /\ \A i \in next .. Len(order) : Unassigned(out[order[i]])
       /\ next <= Len(order) + 1
  /\ phase = "baserels" =>
       /\ next <= Len(order) /\ order[next] = ".reloc"
       /\ \A i \in DOMAIN todo : todo[i].sec = ".reloc"
  /\ phase \in {"fixup", "start", "addresses", "failed", "write", "done"} \cup Assigned =>
       todo = <<>>

LayoutInv ==
  /\ phase \in Assigning \cup Assigned \cup {"write", "done"} =>
       headers % PageSize = 0 /\ headers >= PageSize
  /\ phase \in Assigning =>
       /\ rva % PageSize = 0 /\ rva >= PageSize
       /\ fileOff % FileAlignment = 0 /\ fileOff >= headers
       /\ LaidOut(next - 1, rva, fileOff, TRUE)
  /\ phase \in Assigned => LaidOut(Len(order), imageSize, fileSize, TRUE)
  /\ phase \in {"write", "done"} => LaidOut(Len(order), imageSize, fileSize, EndsInData)

IInv == TypeInv /\ FitInv /\ AddInv /\ LayoutInv

-----------------------------------------------------------------------------
(* What happens to one section.                                            *)

\* Parts of a section.
LEMMA SectionParts ==
  ASSUME NEW w, NEW s \in Sections(w)
  PROVE  /\ s.chunks \in Seq(PlacedChunks(w)) /\ DOMAIN s.chunks = 1 .. Len(s.chunks)
         /\ Len(s.chunks) \in Nat
         /\ s.vsize \in Nat /\ s.raw \in Nat /\ s.rva \in Nat /\ s.off \in Nat /\ s.code \in BOOLEAN
         /\ \A i \in DOMAIN s.chunks :
              /\ s.chunks[i].chunk \in AllChunks(w)
              /\ s.chunks[i].rva \in Nat /\ s.chunks[i].off \in Nat
              /\ s.chunks[i].chunk.size \in Nat /\ s.chunks[i].chunk.align \in Nat \ {0}
<1>1. /\ s.chunks \in Seq(PlacedChunks(w))
      /\ s.vsize \in Nat /\ s.raw \in Nat /\ s.rva \in Nat /\ s.off \in Nat /\ s.code \in BOOLEAN
  BY DEF Sections
<1>2. /\ DOMAIN s.chunks = 1 .. Len(s.chunks) /\ Len(s.chunks) \in Nat
      /\ \A i \in DOMAIN s.chunks : s.chunks[i] \in PlacedChunks(w)
  BY <1>1, LenProperties, ElementOfSeq
<1>3. \A p \in PlacedChunks(w) : /\ p.chunk \in AllChunks(w) /\ p.rva \in Nat /\ p.off \in Nat
                                 /\ p.chunk.size \in Nat /\ p.chunk.align \in Nat \ {0}
  BY ChunkParts DEF PlacedChunks
<1> QED BY <1>1, <1>2, <1>3

\* A new section has no chunks that do not fit.
LEMMA EmptyFits ==
  ASSUME NEW w, NEW b \in BOOLEAN
  PROVE  /\ [EmptySection EXCEPT !.code = b] \in Sections(w)
         /\ Unassigned([EmptySection EXCEPT !.code = b])
         /\ SectionFits([EmptySection EXCEPT !.code = b])
<1>1. PICK s : s = [chunks |-> <<>>, vsize |-> 0, raw |-> 0, rva |-> 0, off |-> 0, code |-> b]
  OBVIOUS
<1>2. [EmptySection EXCEPT !.code = b] = s
  BY <1>1 DEF EmptySection
<1>3. s \in Sections(w)
  <2>1. <<>> \in Seq(PlacedChunks(w))
    BY EmptySeq
  <2> QED BY <1>1, <2>1 DEF Sections
<1>4. s.raw = 0 /\ s.rva = 0 /\ s.off = 0 /\ s.chunks = <<>>
  BY <1>1
<1>5. Unassigned(s)
  BY <1>4 DEF Unassigned
<1>6. SectionFits(s)
  <2>1. 0 % FileAlignment = 0
    BY SizesAssumption
  <2> QED BY <1>4, <2>1 DEF SectionFits
<1> QED BY <1>2, <1>3, <1>5, <1>6

\* A chunk is added behind the others, at its alignment.
LEMMA AddChunkFits ==
  ASSUME NEW w, NEW s \in Sections(w), Unassigned(s), SectionFits(s), NEW c \in AllChunks(w)
  PROVE  /\ AddChunk(s, c) \in Sections(w) /\ Unassigned(AddChunk(s, c))
         /\ SectionFits(AddChunk(s, c))
<1>1. c.size \in Nat /\ c.align \in Nat \ {0} /\ c.data \in BOOLEAN
  BY ChunkParts
<1>2. /\ s.chunks \in Seq(PlacedChunks(w)) /\ DOMAIN s.chunks = 1 .. Len(s.chunks)
      /\ Len(s.chunks) \in Nat /\ s.vsize \in Nat /\ s.raw \in Nat /\ s.rva = 0 /\ s.off = 0
      /\ s.code \in BOOLEAN
      /\ \A i \in DOMAIN s.chunks :
           /\ s.chunks[i].rva \in Nat /\ s.chunks[i].off \in Nat
           /\ s.chunks[i].chunk.size \in Nat /\ s.chunks[i].chunk.align \in Nat \ {0}
  BY SectionParts DEF Unassigned
<1>3. PICK start \in Nat : /\ start = RoundUp(s.vsize, c.align) /\ s.vsize <= start
                           /\ start % c.align = 0
  BY <1>1, <1>2, RoundedUp
<1>4. PICK p \in PlacedChunks(w) : p = [chunk |-> c, rva |-> start, off |-> start]
  BY DEF PlacedChunks
<1>5. PICK raw \in Nat : /\ raw = IF c.data THEN RoundUp(start + c.size, FileAlignment) ELSE s.raw
                         /\ raw % FileAlignment = 0
                         /\ c.data => start + c.size <= raw
  <2>1. CASE c.data
    <3>1. start + c.size \in Nat
      BY <1>1
    <3>2. PICK r \in Nat : /\ r = RoundUp(start + c.size, FileAlignment)
                           /\ start + c.size <= r /\ r % FileAlignment = 0
      BY <3>1, SizesAssumption, RoundedUp
    <3> QED BY <2>1, <3>2
  <2>2. CASE ~c.data
    BY <1>2, <2>2 DEF SectionFits
  <2> QED BY <2>1, <2>2
<1>6. PICK cs \in Seq(PlacedChunks(w)) :
        /\ cs = Append(s.chunks, p) /\ Len(cs) = Len(s.chunks) + 1
        /\ cs[Len(s.chunks) + 1] = p
        /\ \A i \in 1 .. Len(s.chunks) : cs[i] = s.chunks[i]
        /\ DOMAIN cs = 1 .. Len(s.chunks) + 1
  <2>1. PICK q \in Seq(PlacedChunks(w)) : q = s.chunks
    BY <1>2
  <2>2. /\ Append(q, p) \in Seq(PlacedChunks(w)) /\ Len(Append(q, p)) = Len(q) + 1
        /\ Append(q, p)[Len(q) + 1] = p
        /\ \A i \in 1 .. Len(q) : Append(q, p)[i] = q[i]
    BY AppendProperties
  <2>3. DOMAIN Append(q, p) = 1 .. Len(q) + 1
    BY <2>2, LenProperties
  <2> QED BY <2>1, <2>2, <2>3
<1>7. PICK t : t = [s EXCEPT !.chunks = cs, !.vsize = start + c.size, !.raw = raw]
  OBVIOUS
<1>8. AddChunk(s, c) = t
  BY <1>3, <1>4, <1>5, <1>6, <1>7 DEF AddChunk
<1>9. t \in Sections(w) /\ t.chunks = cs /\ t.vsize = start + c.size /\ t.raw = raw
      /\ t.rva = 0 /\ t.off = 0
  <2>1. start + c.size \in Nat
    BY <1>1
  <2> QED BY <1>2, <1>7, <2>1 DEF Sections
<1>10. SectionFits(t)
  <2>1. ASSUME NEW i \in 1 .. Len(s.chunks)
        PROVE  /\ cs[i].rva >= 0 /\ cs[i].rva - 0 \in Nat
               /\ (cs[i].rva - 0) % cs[i].chunk.align = 0
               /\ (cs[i].rva - 0) + cs[i].chunk.size <= s.vsize
               /\ i # Len(s.chunks) =>
                    (cs[i].rva - 0) + cs[i].chunk.size <= cs[i + 1].rva - 0
               /\ cs[i].chunk.data =>
                    (cs[i].rva - 0) + cs[i].chunk.size <= s.raw /\ cs[i].off - 0 = cs[i].rva - 0
    <3>1. i # Len(s.chunks) => i + 1 \in 1 .. Len(s.chunks)
      BY <1>2
    <3> QED BY <1>2, <1>6, <3>1 DEF SectionFits
  <2>2. ASSUME NEW i \in 1 .. Len(s.chunks)
        PROVE  /\ (cs[i].rva - 0) + cs[i].chunk.size \in Nat
               /\ (cs[i].rva - 0) + cs[i].chunk.size <= start
               /\ (cs[i].rva - 0) + cs[i].chunk.size <= start + c.size
    <3>1. PICK x \in Nat, z \in Nat, v \in Nat :
            x = cs[i].rva /\ z = cs[i].chunk.size /\ v = s.vsize
      BY <1>2, <1>6
    <3>2. (x - 0) + z <= v /\ v <= start
      BY <1>3, <2>1, <3>1
    <3>3. (x - 0) + z \in Nat /\ (x - 0) + z <= start /\ (x - 0) + z <= start + c.size
      BY <1>1, <3>2
    <3> QED BY <3>1, <3>3
  <2>3. ASSUME NEW i \in 1 .. Len(s.chunks), cs[i].chunk.data
        PROVE  (cs[i].rva - 0) + cs[i].chunk.size <= raw
    <3>1. CASE c.data
      BY <1>1, <1>5, <2>2, <3>1
    <3>2. CASE ~c.data
      BY <1>5, <2>1, <2>3, <3>2
    <3> QED BY <3>1, <3>2
  <2>4. cs[Len(s.chunks) + 1].rva - 0 = start /\ cs[Len(s.chunks) + 1].off - 0 = start
        /\ cs[Len(s.chunks) + 1].chunk = c
    BY <1>4, <1>6
  <2>5. ASSUME NEW i \in DOMAIN cs
        PROVE  /\ cs[i].rva >= 0
               /\ (cs[i].rva - 0) % cs[i].chunk.align = 0
               /\ (cs[i].rva - 0) + cs[i].chunk.size <= start + c.size
               /\ i # Len(cs) => (cs[i].rva - 0) + cs[i].chunk.size <= cs[i + 1].rva - 0
               /\ cs[i].chunk.data =>
                    (cs[i].rva - 0) + cs[i].chunk.size <= raw /\ cs[i].off - 0 = cs[i].rva - 0
    <3>1. CASE i \in 1 .. Len(s.chunks)
      <4>1. CASE i = Len(s.chunks)
        <5>1. cs[i + 1].rva - 0 = start
          BY <2>4, <4>1
        <5> QED BY <2>1, <2>2, <2>3, <3>1, <5>1
      <4>2. CASE i # Len(s.chunks)
        BY <2>1, <2>2, <2>3, <3>1, <4>2
      <4> QED BY <4>1, <4>2
    <3>2. CASE i = Len(s.chunks) + 1
      <4>1. i = Len(cs) /\ cs[i].rva = start /\ cs[i].chunk = c /\ cs[i].off = start
        BY <1>4, <1>6, <3>2
      <4>2. start - 0 = start /\ start >= 0 /\ start + c.size <= start + c.size
        BY <1>1
      <4> QED BY <1>3, <1>5, <4>1, <4>2
    <3> QED BY <1>2, <1>6, <3>1, <3>2
  <2> QED BY <1>5, <1>9, <2>5 DEF SectionFits
<1> QED BY <1>8, <1>9, <1>10 DEF Unassigned

\* A section gets an address, and its chunks move along with it.
LEMMA SetRVAFits ==
  ASSUME NEW w, NEW s \in Sections(w), Unassigned(s), SectionFits(s), NEW a \in Nat
  PROVE  /\ SetRVA(s, a) \in Sections(w) /\ SectionFits(SetRVA(s, a))
         /\ SetRVA(s, a).rva = a /\ SetRVA(s, a).off = 0
         /\ SetRVA(s, a).vsize = s.vsize /\ SetRVA(s, a).raw = s.raw
<1>1. PICK cs \in Seq(PlacedChunks(w)), n \in Nat :
        /\ cs = s.chunks /\ n = Len(cs) /\ DOMAIN cs = 1 .. n
        /\ \A i \in DOMAIN cs : cs[i] \in PlacedChunks(w)
  BY SectionParts, LenProperties, ElementOfSeq
<1>2. /\ s.rva = 0 /\ s.off = 0 /\ s.vsize \in Nat /\ s.raw \in Nat /\ s.code \in BOOLEAN
  BY SectionParts DEF Unassigned
<1> DEFINE f == [i \in DOMAIN cs |-> [cs[i] EXCEPT !.rva = @ + a]]
<1>3. ASSUME NEW i \in DOMAIN cs
      PROVE  f[i] \in PlacedChunks(w) /\ f[i].rva = cs[i].rva + a /\ f[i].off = cs[i].off
             /\ f[i].chunk = cs[i].chunk
  <2>1. PICK p \in PlacedChunks(w) : p = cs[i]
    BY <1>1
  <2>2. p.rva \in Nat /\ p.rva + a \in Nat
    BY DEF PlacedChunks
  <2>3. [p EXCEPT !.rva = p.rva + a] \in PlacedChunks(w)
    BY <2>2 DEF PlacedChunks
  <2>4. f[i] = [p EXCEPT !.rva = p.rva + a]
    BY <2>1
  <2>5. /\ [p EXCEPT !.rva = p.rva + a].rva = p.rva + a
        /\ [p EXCEPT !.rva = p.rva + a].off = p.off
        /\ [p EXCEPT !.rva = p.rva + a].chunk = p.chunk
    BY DEF PlacedChunks
  <2> QED BY <2>1, <2>3, <2>4, <2>5
<1>4. DOMAIN f = DOMAIN cs /\ f = [i \in DOMAIN f |-> f[i]]
  OBVIOUS
<1>5. PICK t : t = [s EXCEPT !.rva = a, !.chunks = f]
  OBVIOUS
<1>6. SetRVA(s, a) = t
  BY <1>1, <1>5 DEF SetRVA, Each
<1> HIDE DEF f
<1>7. f \in Seq(PlacedChunks(w)) /\ Len(f) = n
  BY <1>1, <1>3, <1>4, MapTyped
<1>8. t \in Sections(w) /\ t.chunks = f /\ t.vsize = s.vsize /\ t.raw = s.raw
      /\ t.rva = a /\ t.off = 0
  BY <1>2, <1>5, <1>7 DEF Sections
<1>9. SectionFits(t)
  <2>1. ASSUME NEW i \in DOMAIN f
        PROVE  /\ f[i].rva >= a
               /\ f[i].rva - a = cs[i].rva - 0
               /\ f[i].chunk = cs[i].chunk /\ f[i].off = cs[i].off
    <3>1. PICK x \in Nat : x = cs[i].rva
      BY <1>1, <1>4 DEF PlacedChunks
    <3>2. x + a >= a /\ (x + a) - a = x - 0
      OBVIOUS
    <3> QED BY <1>3, <1>4, <3>1, <3>2
  <2>2. ASSUME NEW i \in DOMAIN f
        PROVE  /\ (cs[i].rva - 0) % cs[i].chunk.align = 0
               /\ (cs[i].rva - 0) + cs[i].chunk.size <= s.vsize
               /\ i # n => i + 1 \in DOMAIN f /\
                           (cs[i].rva - 0) + cs[i].chunk.size <= cs[i + 1].rva - 0
               /\ cs[i].chunk.data =>
                    (cs[i].rva - 0) + cs[i].chunk.size <= s.raw /\ cs[i].off - 0 = cs[i].rva - 0
    <3>1. i \in 1 .. n /\ (i # n => i + 1 \in 1 .. n)
      BY <1>1, <1>4
    <3> QED BY <1>1, <1>2, <1>4, <3>1 DEF SectionFits
  <2>3. s.raw % FileAlignment = 0
    BY DEF SectionFits
  <2>4. ASSUME NEW i \in DOMAIN f
        PROVE  /\ f[i].rva >= a
               /\ (f[i].rva - a) % f[i].chunk.align = 0
               /\ (f[i].rva - a) + f[i].chunk.size <= s.vsize
               /\ i # n => (f[i].rva - a) + f[i].chunk.size <= f[i + 1].rva - a
               /\ f[i].chunk.data =>
                    (f[i].rva - a) + f[i].chunk.size <= s.raw /\ f[i].off - 0 = f[i].rva - a
    BY <2>1, <2>2
  <2> QED BY <1>7, <1>8, <2>3, <2>4 DEF SectionFits
<1> QED BY <1>6, <1>8, <1>9

\* A section with data gets a place in the file, and so do its chunks.
LEMMA SetFileOffsetFits ==
  ASSUME NEW w, NEW s \in Sections(w), s.off = 0, SectionFits(s), NEW a \in Nat
  PROVE  /\ SetFileOffset(s, a) \in Sections(w) /\ SectionFits(SetFileOffset(s, a))
         /\ SetFileOffset(s, a).rva = s.rva
         /\ s.raw # 0 => SetFileOffset(s, a).off = a
         /\ SetFileOffset(s, a).vsize = s.vsize /\ SetFileOffset(s, a).raw = s.raw
<1>0. CASE s.raw = 0
  BY <1>0 DEF SetFileOffset
<1>1. PICK cs \in Seq(PlacedChunks(w)), n \in Nat :
        /\ cs = s.chunks /\ n = Len(cs) /\ DOMAIN cs = 1 .. n
        /\ \A i \in DOMAIN cs : cs[i] \in PlacedChunks(w)
  BY SectionParts, LenProperties, ElementOfSeq
<1>2. PICK r \in Nat : /\ s.rva = r /\ s.off = 0 /\ s.vsize \in Nat /\ s.raw \in Nat
                       /\ s.code \in BOOLEAN
  BY SectionParts
<1> DEFINE f == [i \in DOMAIN cs |-> [cs[i] EXCEPT !.off = @ + a]]
<1>3. ASSUME NEW i \in DOMAIN cs
      PROVE  f[i] \in PlacedChunks(w) /\ f[i].off = cs[i].off + a /\ f[i].rva = cs[i].rva
             /\ f[i].chunk = cs[i].chunk
  <2>1. PICK p \in PlacedChunks(w) : p = cs[i]
    BY <1>1
  <2>2. p.off \in Nat /\ p.off + a \in Nat
    BY DEF PlacedChunks
  <2>3. [p EXCEPT !.off = p.off + a] \in PlacedChunks(w)
    BY <2>2 DEF PlacedChunks
  <2>4. f[i] = [p EXCEPT !.off = p.off + a]
    BY <2>1
  <2>5. /\ [p EXCEPT !.off = p.off + a].off = p.off + a
        /\ [p EXCEPT !.off = p.off + a].rva = p.rva
        /\ [p EXCEPT !.off = p.off + a].chunk = p.chunk
    BY DEF PlacedChunks
  <2> QED BY <2>1, <2>3, <2>4, <2>5
<1>4. DOMAIN f = DOMAIN cs /\ f = [i \in DOMAIN f |-> f[i]]
  OBVIOUS
<1>5. PICK t : t = [s EXCEPT !.off = a, !.chunks = f]
  OBVIOUS
<1>6. s.raw # 0 => SetFileOffset(s, a) = t
  BY <1>1, <1>5 DEF SetFileOffset, Each
<1> HIDE DEF f
<1>7. f \in Seq(PlacedChunks(w)) /\ Len(f) = n
  BY <1>1, <1>3, <1>4, MapTyped
<1>8. t \in Sections(w) /\ t.chunks = f /\ t.vsize = s.vsize /\ t.raw = s.raw
      /\ t.rva = r /\ t.off = a
  BY <1>2, <1>5, <1>7 DEF Sections
<1>9. SectionFits(t)
  <2>1. ASSUME NEW i \in DOMAIN f
        PROVE  /\ f[i].rva = cs[i].rva /\ f[i].chunk = cs[i].chunk
               /\ f[i].off - a = cs[i].off - 0
    <3>1. PICK x \in Nat : x = cs[i].off
      BY <1>1, <1>4 DEF PlacedChunks
    <3>2. (x + a) - a = x - 0
      OBVIOUS
    <3> QED BY <1>3, <1>4, <3>1, <3>2
  <2>2. ASSUME NEW i \in DOMAIN f
        PROVE  /\ cs[i].rva >= r
               /\ (cs[i].rva - r) % cs[i].chunk.align = 0
               /\ (cs[i].rva - r) + cs[i].chunk.size <= s.vsize
               /\ i # n => i + 1 \in DOMAIN f /\
                           (cs[i].rva - r) + cs[i].chunk.size <= cs[i + 1].rva - r
               /\ cs[i].chunk.data =>
                    (cs[i].rva - r) + cs[i].chunk.size <= s.raw /\ cs[i].off - 0 = cs[i].rva - r
    <3>1. i \in 1 .. n /\ (i # n => i + 1 \in 1 .. n)
      BY <1>1, <1>4
    <3> QED BY <1>1, <1>2, <1>4, <3>1 DEF SectionFits
  <2>3. s.raw % FileAlignment = 0
    BY DEF SectionFits
  <2>4. ASSUME NEW i \in DOMAIN f
        PROVE  /\ f[i].rva >= r
               /\ (f[i].rva - r) % f[i].chunk.align = 0
               /\ (f[i].rva - r) + f[i].chunk.size <= s.vsize
               /\ i # n => (f[i].rva - r) + f[i].chunk.size <= f[i + 1].rva - r
               /\ f[i].chunk.data =>
                    (f[i].rva - r) + f[i].chunk.size <= s.raw /\ f[i].off - a = f[i].rva - r
    BY <2>1, <2>2
  <2> QED BY <1>7, <1>8, <2>3, <2>4 DEF SectionFits
<1> QED BY <1>0, <1>2, <1>6, <1>8, <1>9

-----------------------------------------------------------------------------
(* Every step keeps the invariant.                                         *)

\* It holds at the start of a link.
LEMMA InitHolds == Init => IInv
<1> SUFFICES ASSUME Init PROVE IInv
  OBVIOUS
<1>1. TypeInv
  <2>1. exports \in Seq(ExportRecords)
    BY WorldFacts DEF Init
  <2>2. <<>> \in Seq(Items(world)) /\ <<>> \in Seq(SectionNames)
    BY EmptySeq
  <2>3. order = <<>> /\ DOMAIN order = {} /\ out = <<>> /\ DOMAIN out = {}
    BY DEF Init
  <2>4. Distinct(order)
    BY <2>3 DEF Distinct
  <2>5. phase \in Adding
    BY DEF Init, Adding
  <2> QED BY <2>1, <2>2, <2>3, <2>4, <2>5 DEF Init, TypeInv
<1>2. FitInv /\ AddInv /\ LayoutInv
  <2>1. DOMAIN out = {} /\ phase = "fixup" /\ todo = <<>>
    BY DEF Init
  <2> QED BY <2>1 DEF FitInv, AddInv, LayoutInv, Assigning, Assigned
<1> QED BY <1>1, <1>2 DEF IInv

\* Adding a chunk: to a new section, or to one without an address.
LEMMA PlaceStep == IInv /\ PlaceChunk => IInv'
<1> SUFFICES ASSUME IInv, PlaceChunk PROVE IInv'
  OBVIOUS
<1>1. PICK a \in Items(world) :
        /\ a = Head(todo) /\ todo' = Tail(todo) /\ todo' \in Seq(Items(world))
        /\ \A i \in DOMAIN todo' : \E j \in DOMAIN todo : todo'[i] = todo[j]
        /\ \E j \in DOMAIN todo : a = todo[j]
  <2>1. PICK q \in Seq(Items(world)) : q = todo /\ q # <<>>
    BY DEF IInv, TypeInv, PlaceChunk
  <2>2. /\ Head(q) \in Items(world) /\ Tail(q) \in Seq(Items(world))
        /\ Len(Tail(q)) = Len(q) - 1 /\ \A i \in 1 .. Len(Tail(q)) : Tail(q)[i] = q[i + 1]
    BY <2>1, HeadTailProperties
  <2>3. DOMAIN q = 1 .. Len(q) /\ Len(q) \in Nat /\ Len(q) # 0 /\ Head(q) = q[1]
    BY <2>1, LenProperties, EmptySeq
  <2>4. DOMAIN Tail(q) = 1 .. Len(q) - 1
    BY <2>2, LenProperties
  <2>5. ASSUME NEW i \in DOMAIN Tail(q) PROVE \E j \in DOMAIN q : Tail(q)[i] = q[j]
    <3>1. i + 1 \in DOMAIN q /\ Tail(q)[i] = q[i + 1]
      BY <2>2, <2>3, <2>4
    <3> QED BY <3>1
  <2>6. 1 \in DOMAIN q
    BY <2>3
  <2>7. todo' = Tail(q)
    BY <2>1 DEF PlaceChunk
  <2> QED BY <2>1, <2>2, <2>3, <2>5, <2>6, <2>7
<1>2. phase \in Adding \/ phase = "baserels"
  <2>1. todo # <<>>
    BY DEF PlaceChunk
  <2>2. phase \notin {"fixup", "start", "addresses", "failed", "write", "done"} \cup Assigned
    BY <2>1 DEF IInv, AddInv
  <2>3. phase \in Adding \cup Assigning \cup Assigned \cup {"write", "done", "failed"}
    BY DEF IInv, TypeInv
  <2> QED BY <2>2, <2>3 DEF Adding, Assigning, Assigned
<1>3. phase = "baserels" =>
        /\ a.sec = ".reloc" /\ order[next] = ".reloc" /\ next \in DOMAIN order
        /\ ".reloc" \in DOMAIN out /\ Unassigned(out[".reloc"])
  <2> SUFFICES ASSUME phase = "baserels"
               PROVE  /\ a.sec = ".reloc" /\ order[next] = ".reloc" /\ next \in DOMAIN order
                      /\ ".reloc" \in DOMAIN out /\ Unassigned(out[".reloc"])
    OBVIOUS
  <2>1. /\ next <= Len(order) /\ order[next] = ".reloc"
        /\ \A i \in DOMAIN todo : todo[i].sec = ".reloc"
        /\ \A i \in next .. Len(order) : Unassigned(out[order[i]])
    BY DEF IInv, AddInv, Assigning
  <2>2. DOMAIN order = 1 .. Len(order) /\ Len(order) \in Nat /\ next \in Nat \ {0}
    BY LenProperties DEF IInv, TypeInv
  <2>3. next \in DOMAIN order /\ next \in next .. Len(order)
    BY <2>1, <2>2
  <2>4. a.sec = ".reloc"
    BY <1>1, <2>1
  <2> QED BY <2>1, <2>3, <2>4 DEF IInv, TypeInv
<1> DEFINE fresh == a.sec \notin DOMAIN out
<1>4. PICK s \in Sections(world) :
        /\ s = IF fresh THEN [EmptySection EXCEPT !.code = phase # "sections" /\ a.sec = ".text"]
               ELSE out[a.sec]
        /\ Unassigned(s) /\ SectionFits(s)
  <2>1. CASE fresh
    <3>1. PICK b \in BOOLEAN : b = (phase # "sections" /\ a.sec = ".text")
      OBVIOUS
    <3> QED BY <2>1, <3>1, EmptyFits
  <2>2. CASE ~fresh
    <3>1. out[a.sec] \in Sections(world) /\ SectionFits(out[a.sec])
      BY <2>2 DEF IInv, TypeInv, FitInv
    <3>2. Unassigned(out[a.sec])
      BY <1>2, <1>3, <2>2 DEF IInv, AddInv
    <3> QED BY <2>2, <3>1, <3>2
  <2> QED BY <2>1, <2>2
<1>5. PICK t \in Sections(world) :
        /\ t = IF a.chunk = None THEN s
               ELSE IF a.chunk.is = "section"
               THEN [AddChunk(s, a.chunk) EXCEPT !.code = @ \/ world.chunks[a.chunk.of].code]
               ELSE AddChunk(s, a.chunk)
        /\ Unassigned(t) /\ SectionFits(t)
  <2>1. CASE a.chunk = None
    BY <1>4, <2>1
  <2>2. CASE a.chunk # None
    <3>1. a.chunk \in AllChunks(world)
      BY <2>2 DEF Items
    <3>2. PICK u \in Sections(world) : u = AddChunk(s, a.chunk) /\ Unassigned(u) /\ SectionFits(u)
      BY <1>4, <3>1, AddChunkFits
    <3>3. PICK b \in BOOLEAN : b = (u.code \/ world.chunks[a.chunk.of].code)
      OBVIOUS
    <3>4. PICK v : v = [u EXCEPT !.code = b]
      OBVIOUS
    <3>5. /\ v \in Sections(world) /\ v.chunks = u.chunks /\ v.vsize = u.vsize
          /\ v.raw = u.raw /\ v.rva = u.rva /\ v.off = u.off
      BY <3>4 DEF Sections
    <3>6. Unassigned(v) /\ SectionFits(v)
      BY <3>2, <3>5 DEF Unassigned, SectionFits
    <3>7. [AddChunk(s, a.chunk) EXCEPT !.code = @ \/ world.chunks[a.chunk.of].code] = v
      BY <3>2, <3>3, <3>4
    <3> QED BY <2>2, <3>2, <3>5, <3>6, <3>7
  <2> QED BY <2>1, <2>2
<1>6. /\ order' = IF fresh THEN Append(order, a.sec) ELSE order
      /\ out' = [n \in DOMAIN out \cup {a.sec} |-> IF n = a.sec THEN t ELSE out[n]]
  BY <1>1, <1>4, <1>5 DEF PlaceChunk
<1>7. UNCHANGED <<world, phase, exports, next, rva, fileOff, headers, imageSize, fileSize>>
  BY DEF PlaceChunk
<1>8. /\ DOMAIN out' = DOMAIN out \cup {a.sec} /\ out'[a.sec] = t
      /\ \A n \in DOMAIN out \ {a.sec} : out'[n] = out[n]
  BY <1>6
<1>9. /\ order' \in Seq(SectionNames) /\ Distinct(order')
      /\ \A i \in DOMAIN order' : order'[i] \in DOMAIN out'
  <2>1. CASE fresh
    <3>1. PICK q \in Seq(SectionNames) : q = order
      BY DEF IInv, TypeInv
    <3>2. a.sec \in SectionNames
      BY DEF Items
    <3>3. PICK m \in Nat : m = Len(q) /\ DOMAIN q = 1 .. m
      BY LenProperties
    <3>4. PICK o \in Seq(SectionNames) :
            /\ o = Append(q, a.sec) /\ DOMAIN o = 1 .. m + 1
            /\ o[m + 1] = a.sec /\ \A i \in 1 .. m : o[i] = q[i]
      <4>1. /\ Append(q, a.sec) \in Seq(SectionNames) /\ Len(Append(q, a.sec)) = Len(q) + 1
            /\ Append(q, a.sec)[Len(q) + 1] = a.sec
            /\ \A i \in 1 .. Len(q) : Append(q, a.sec)[i] = q[i]
        BY <3>2, AppendProperties
      <4>2. DOMAIN Append(q, a.sec) = 1 .. m + 1
        BY <3>3, <4>1, LenProperties
      <4> QED BY <3>3, <4>1, <4>2
    <3>5. \A i \in 1 .. m : q[i] \in DOMAIN out /\ q[i] # a.sec
      BY <2>1, <3>1, <3>3 DEF IInv, TypeInv
    <3>6. \A i, j \in 1 .. m : q[i] = q[j] => i = j
      BY <3>1, <3>3 DEF IInv, TypeInv, Distinct
    <3>7. Distinct(o)
      BY <3>4, <3>5, <3>6 DEF Distinct
    <3>8. \A i \in DOMAIN o : o[i] \in DOMAIN out'
      BY <1>8, <3>4, <3>5
    <3> QED BY <1>6, <2>1, <3>1, <3>4, <3>7, <3>8
  <2>2. CASE ~fresh
    BY <1>6, <1>8, <2>2 DEF IInv, TypeInv
  <2> QED BY <2>1, <2>2
<1>10. ASSUME NEW n \in DOMAIN out'
       PROVE  out'[n] \in Sections(world) /\ SectionFits(out'[n])
  <2>1. CASE n = a.sec
    BY <1>5, <1>8, <2>1
  <2>2. CASE n # a.sec
    BY <1>8, <2>2 DEF IInv, TypeInv, FitInv
  <2> QED BY <2>1, <2>2
<1>11. TypeInv'
  BY <1>1, <1>7, <1>9, <1>10 DEF IInv, TypeInv
<1>12. FitInv'
  BY <1>10 DEF FitInv
<1>13. CASE phase \in Adding
  <2>1. \A n \in DOMAIN out' : Unassigned(out'[n])
    BY <1>5, <1>8, <1>13 DEF IInv, AddInv
  <2>2. phase' \in Adding /\ phase \notin Assigning /\ phase \notin Assigned
        /\ phase # "baserels" /\ phase \notin {"write", "done"}
    BY <1>7, <1>13 DEF Adding, Assigning, Assigned
  <2>3. phase \notin {"fixup", "start", "addresses", "failed", "write", "done"} \cup Assigned
    BY DEF IInv, AddInv, PlaceChunk
  <2>4. AddInv'
    BY <1>7, <2>1, <2>2, <2>3 DEF AddInv
  <2>5. LayoutInv'
    BY <1>7, <2>2 DEF LayoutInv
  <2> QED BY <1>11, <1>12, <2>4, <2>5 DEF IInv
<1>14. CASE phase = "baserels"
  <2>1. order' = order /\ a.sec = order[next] /\ next \in DOMAIN order
    BY <1>3, <1>6, <1>14
  <2>2. DOMAIN order = 1 .. Len(order) /\ Len(order) \in Nat /\ next \in Nat \ {0}
    BY LenProperties DEF IInv, TypeInv
  <2>3. ASSUME NEW i \in DOMAIN order, i # next PROVE out'[order[i]] = out[order[i]]
    BY <1>8, <2>1, <2>3 DEF IInv, TypeInv, Distinct
  <2>4. phase \in Assigning /\ phase \notin Adding /\ phase \notin Assigned
        /\ phase \notin {"write", "done"}
        /\ phase \notin {"fixup", "start", "addresses", "failed", "write", "done"} \cup Assigned
    BY <1>14 DEF Adding, Assigning, Assigned
  <2>5. ASSUME NEW i \in next .. Len(order) PROVE Unassigned(out'[order[i]])
    <3>1. i \in DOMAIN order
      BY <2>2
    <3>2. Unassigned(out[order[i]])
      BY <2>4 DEF IInv, AddInv
    <3> QED BY <1>5, <1>8, <2>1, <2>3, <3>1, <3>2
  <2>6. \A i \in DOMAIN todo' : todo'[i].sec = ".reloc"
    <3>1. \A i \in DOMAIN todo : todo[i].sec = ".reloc"
      BY <1>14 DEF IInv, AddInv
    <3> QED BY <1>1, <3>1
  <2>7. AddInv'
    BY <1>7, <1>14, <2>1, <2>4, <2>5, <2>6 DEF IInv, AddInv
  <2>8. LaidOut(next - 1, rva, fileOff, TRUE)'
    <3>1. LaidOut(next - 1, rva, fileOff, TRUE)
      BY <2>4 DEF IInv, LayoutInv
    <3>2. ASSUME NEW i \in 1 .. next - 1
          PROVE  out'[order[i]] = out[order[i]]
      <4>1. i \in DOMAIN order /\ i # next
        BY <2>1, <2>2
      <4> QED BY <2>3, <4>1
    <3>3. next' = next /\ rva' = rva /\ fileOff' = fileOff /\ headers' = headers /\ order' = order
      BY <1>7, <2>1
    <3>4. \A i \in 1 .. next - 1 : \A j \in i + 1 .. next - 1 : j \in 1 .. next - 1
      BY <2>2
    <3> QED BY <3>1, <3>2, <3>3, <3>4 DEF LaidOut
  <2>9. LayoutInv'
    BY <1>7, <2>4, <2>8 DEF IInv, LayoutInv
  <2> QED BY <1>11, <1>12, <2>7, <2>9 DEF IInv
<1> QED BY <1>2, <1>13, <1>14

\* A phase that lists chunks changes no section.
LEMMA FillStep ==
  ASSUME IInv, phase \in Adding,
         phase' \in {"sections", "misc", "imports", "exports", "reloc"},
         todo' \in Seq(Items(world)),
         UNCHANGED <<world, exports, order, out, next, rva, fileOff, headers,
                     imageSize, fileSize>>
  PROVE  IInv'
<1>1. phase' \in Adding /\ phase' \notin Assigning /\ phase' \notin Assigned
      /\ phase' # "baserels" /\ phase' \notin {"write", "done"}
      /\ phase' \notin {"fixup", "start", "addresses", "failed", "write", "done"} \cup Assigned
  BY DEF Adding, Assigning, Assigned
<1>2. TypeInv'
  BY <1>1 DEF IInv, TypeInv
<1>3. FitInv'
  BY DEF IInv, FitInv
<1>4. AddInv'
  BY <1>1 DEF IInv, AddInv
<1>5. LayoutInv'
  BY <1>1 DEF LayoutInv
<1> QED BY <1>2, <1>3, <1>4, <1>5 DEF IInv

\* fixupExports changes the exports only.
LEMMA FixupStep == IInv /\ Fixup => IInv'
<1> SUFFICES ASSUME IInv, Fixup PROVE IInv'
  OBVIOUS
<1>1. /\ phase = "fixup" /\ phase' \in {"failed", "start"} /\ todo' = <<>>
      /\ UNCHANGED <<world, todo, order, out, next, rva, fileOff, headers, imageSize, fileSize>>
  BY DEF Fixup, At
<1>2. exports' \in Seq(ExportRecords)
  <2>1. exports \in Seq(ExportRecords)
    BY DEF IInv, TypeInv
  <2>2. exports' = exports \/ exports' = FixupExports(exports)
    BY DEF Fixup
  <2> QED BY <2>1, <2>2, FixupTyped
<1>3. phase \in Adding /\ phase' \notin Assigning /\ phase' \notin Assigned
      /\ phase' # "baserels" /\ phase' \notin {"write", "done"}
  BY <1>1 DEF Adding, Assigning, Assigned
<1>4. TypeInv'
  BY <1>1, <1>2 DEF IInv, TypeInv, Adding
<1>5. FitInv'
  BY <1>1 DEF IInv, FitInv
<1>6. AddInv'
  BY <1>1, <1>3 DEF IInv, AddInv
<1>7. LayoutInv'
  BY <1>3 DEF LayoutInv
<1> QED BY <1>4, <1>5, <1>6, <1>7 DEF IInv

\* The phases that list chunks.
LEMMA ListSteps ==
  IInv /\ (\/ CreateSections \/ CreateMiscChunks \/ CreateImportTables
           \/ CreateExportTable \/ CreateReloc) => IInv'
<1> SUFFICES ASSUME IInv, \/ CreateSections \/ CreateMiscChunks \/ CreateImportTables
                          \/ CreateExportTable \/ CreateReloc
             PROVE  IInv'
  OBVIOUS
<1>1. world \in Worlds /\ exports \in Seq(ExportRecords)
  BY DEF IInv, TypeInv
<1>2. <<>> \in Seq(Items(world)) /\ Seq(Listed(world)) \subseteq Seq(Items(world))
  <2>1. Listed(world) \subseteq Items(world)
    BY DEF Listed
  <2> QED BY <2>1, EmptySeq, SeqMonotonic
<1>3. CASE CreateSections
  <2>1. todo' \in Seq(Items(world))
    BY <1>1, <1>2, <1>3, SectionsTyped DEF CreateSections, Fill
  <2>2. /\ phase \in Adding /\ phase' = "sections"
        /\ UNCHANGED <<world, exports, order, out, next, rva, fileOff, headers,
                       imageSize, fileSize>>
    BY <1>3 DEF CreateSections, Fill, At, Adding
  <2> QED BY <2>1, <2>2, FillStep
<1>4. CASE CreateMiscChunks
  <2>1. todo' \in Seq(Items(world))
    BY <1>1, <1>2, <1>4, MiscTyped DEF CreateMiscChunks, Fill
  <2>2. /\ phase \in Adding /\ phase' = "misc"
        /\ UNCHANGED <<world, exports, order, out, next, rva, fileOff, headers,
                       imageSize, fileSize>>
    BY <1>4 DEF CreateMiscChunks, Fill, At, Adding
  <2> QED BY <2>1, <2>2, FillStep
<1>5. CASE CreateImportTables
  <2>1. todo' \in Seq(Items(world))
    BY <1>1, <1>2, <1>5, ImportListTyped
  <2>2. /\ phase \in Adding /\ phase' = "imports"
        /\ UNCHANGED <<world, exports, order, out, next, rva, fileOff, headers,
                       imageSize, fileSize>>
    BY <1>5 DEF CreateImportTables, Fill, At, Adding
  <2> QED BY <2>1, <2>2, FillStep
<1>6. CASE CreateExportTable
  <2>1. ForSection(".edata", EdataChunks(exports)) \in Seq(Items(world))
    BY <1>1, <1>2, EdataTyped, MadeTyped, Names
  <2>2. todo' \in Seq(Items(world))
    BY <1>2, <1>6, <2>1 DEF CreateExportTable, Fill
  <2>3. /\ phase \in Adding /\ phase' = "exports"
        /\ UNCHANGED <<world, exports, order, out, next, rva, fileOff, headers,
                       imageSize, fileSize>>
    BY <1>6 DEF CreateExportTable, Fill, At, Adding
  <2> QED BY <2>2, <2>3, FillStep
<1>7. CASE CreateReloc
  <2>1. [sec |-> ".reloc", chunk |-> None] \in Items(world)
    BY Names DEF Items
  <2>2. <<Add(".reloc", None)>> \in Seq(Items(world))
    BY <2>1 DEF Add
  <2>3. todo' \in Seq(Items(world))
    BY <1>2, <1>7, <2>2 DEF CreateReloc, Fill
  <2>4. /\ phase \in Adding /\ phase' = "reloc"
        /\ UNCHANGED <<world, exports, order, out, next, rva, fileOff, headers,
                       imageSize, fileSize>>
    BY <1>7 DEF CreateReloc, Fill, At, Adding
  <2> QED BY <2>3, <2>4, FillStep
<1> QED BY <1>3, <1>4, <1>5, <1>6, <1>7

\* assignAddresses starts at a page, behind the headers.
LEMMA StartStep == IInv /\ StartAddresses => IInv'
<1> SUFFICES ASSUME IInv, StartAddresses PROVE IInv'
  OBVIOUS
<1>1. /\ phase = "reloc" /\ todo = <<>> /\ phase' = "addresses" /\ next' = 1
      /\ rva' = PageSize /\ headers' = HeaderSize(Len(order)) /\ fileOff' = headers'
      /\ UNCHANGED <<world, exports, todo, order, out, imageSize, fileSize>>
  BY DEF StartAddresses, At
<1>2. PICK k \in Nat : k = Len(order) /\ DOMAIN order = 1 .. k
  BY LenProperties DEF IInv, TypeInv
<1>3. PICK h \in Nat : h = headers' /\ h % PageSize = 0 /\ h >= PageSize
  <2>1. PICK n \in Nat : /\ n = 64 + 4 + 20 + 8 * 16 + 40 * k + (IF world.is64 THEN 112 ELSE 96)
                         /\ n > 0
    OBVIOUS
  <2>2. PICK r \in Nat : r = RoundUp(n, PageSize) /\ n <= r /\ r % PageSize = 0
    BY SizesAssumption, RoundedUp
  <2>3. r >= PageSize
    <3>0. r \in Int /\ PageSize \in Nat \ {0}
      BY SizesAssumption
    <3>1. PICK m \in Int : r = m * PageSize
      BY <2>2, <3>0, MultipleIs
    <3>2. m >= 1
      <4>1. ASSUME m <= 0 PROVE FALSE
        <5>1. m * PageSize <= 0
          BY <4>1, SizesAssumption
        <5> QED BY <2>1, <2>2, <3>1, <5>1
      <4> QED BY <4>1
    <3>3. m * PageSize >= PageSize
      BY <3>2, SizesAssumption
    <3> QED BY <3>1, <3>3
  <2> QED BY <1>1, <1>2, <2>1, <2>2, <2>3 DEF HeaderSize
<1>4. PageSize \in Nat \ {0} /\ FileAlignment \in Nat \ {0} /\ PageSize % FileAlignment = 0
      /\ PageSize % PageSize = 0 /\ PageSize >= PageSize
  <2>1. PageSize = 1 * PageSize
    BY SizesAssumption
  <2> QED BY <2>1, SizesAssumption, MultipleIs
<1>5. h % FileAlignment = 0
  <2>1. h \in Int
    OBVIOUS
  <2> QED BY <1>3, <1>4, <2>1, MultipleOfMultiple
<1>6. TypeInv'
  BY <1>1, <1>3, <1>4 DEF IInv, TypeInv, Assigning
<1>7. FitInv'
  BY <1>1 DEF IInv, FitInv
<1>8. AddInv'
  <2>1. \A n \in DOMAIN out : Unassigned(out[n])
    BY <1>1 DEF IInv, AddInv, Adding
  <2>2. \A i \in 1 .. k : Unassigned(out[order[i]])
    BY <1>2, <2>1 DEF IInv, TypeInv
  <2>3. phase' \in Assigning /\ phase' \notin Adding /\ phase' # "baserels" /\ 1 <= k + 1
    BY <1>1 DEF Adding, Assigning
  <2> QED BY <1>1, <1>2, <2>2, <2>3 DEF AddInv
<1>9. LayoutInv'
  <2>1. phase' \in Assigning /\ phase' \notin Assigned /\ phase' \notin {"write", "done"}
    BY <1>1 DEF Assigned, Assigning
  <2>2. LaidOut(next - 1, rva, fileOff, TRUE)'
    <3>1. 1 .. next' - 1 = {}
      BY <1>1
    <3> QED BY <3>1 DEF LaidOut
  <2>3. fileOff' = h /\ headers' = h /\ h >= h
    BY <1>1, <1>3
  <2> QED BY <1>1, <1>3, <1>4, <1>5, <2>1, <2>2, <2>3 DEF LayoutInv
<1> QED BY <1>6, <1>7, <1>8, <1>9 DEF IInv

\* addBaserels lists chunks for .reloc only, which has no address yet.
LEMMA BaserelStep == IInv /\ AddBaserels => IInv'
<1> SUFFICES ASSUME IInv, AddBaserels PROVE IInv'
  OBVIOUS
<1>1. /\ phase = "addresses" /\ todo = <<>> /\ phase' = "baserels"
      /\ next <= Len(order) /\ order[next] = ".reloc" /\ blocks' = NewBlocks
      /\ UNCHANGED <<world, exports, order, out, next, rva, fileOff, headers, imageSize, fileSize>>
  BY DEF AddBaserels, At
<1>2. NewBlocks \in Seq(Blocks)
  <2>1. PICK q \in Seq(SectionNames) : q = order
    BY DEF IInv, TypeInv
  <2>2. PICK I \in SUBSET DOMAIN q : I = {i \in DOMAIN q : q[i] # ".reloc"}
    OBVIOUS
  <2>3. PICK names \in Seq(SectionNames) :
          /\ names = Picked(q, I)
          /\ \A k \in DOMAIN names : names[k] \in DOMAIN out
    <3>1. /\ Picked(q, I) \in Seq(SectionNames) /\ DOMAIN Picked(q, I) = 1 .. Cardinality(I)
          /\ \A k \in 1 .. Cardinality(I) : \E i \in I : Picked(q, I)[k] = q[i]
      BY PickedFacts
    <3>2. \A i \in I : q[i] \in DOMAIN out
      BY <2>1 DEF IInv, TypeInv
    <3>3. \A k \in DOMAIN Picked(q, I) : Picked(q, I)[k] \in DOMAIN out
      BY <3>1, <3>2
    <3> QED BY <3>1, <3>3
  <2> DEFINE places(n) == [j \in DOMAIN out[n].chunks |-> Baserels(out[n].chunks[j])]
             row == [k \in DOMAIN names |-> BaserelBlocks(FlattenSeq(places(names[k])), PageSize)]
  <2>4. NewBlocks = FlattenSeq(row)
    BY <2>1, <2>2, <2>3 DEF NewBlocks, Each
  <2>5. ASSUME NEW n \in DOMAIN out
        PROVE  BaserelBlocks(FlattenSeq(places(n)), PageSize) \in Seq(Blocks)
    <3>1. world \in Worlds /\ out[n] \in Sections(world)
      BY DEF IInv, TypeInv
    <3>2. PICK cs \in Seq(PlacedChunks(world)) : cs = out[n].chunks
      BY <3>1, SectionParts
    <3> DEFINE f == [j \in DOMAIN cs |-> Baserels(cs[j])]
    <3>3. ASSUME NEW j \in DOMAIN cs PROVE f[j] \in Seq(Nat)
      <4>1. cs[j] \in PlacedChunks(world)
        BY LenProperties, ElementOfSeq
      <4>2. Baserels(cs[j]) \in Seq(Nat)
        BY <3>1, <4>1, BaserelsTyped
      <4> QED BY <4>2
    <3>4. DOMAIN f = DOMAIN cs /\ f = [j \in DOMAIN f |-> f[j]]
      OBVIOUS
    <3>5. places(n) = f
      BY <3>2
    <3> HIDE DEF f, places
    <3>6. f \in Seq(Seq(Nat))
      BY <3>3, <3>4, MapTyped
    <3>7. PICK V \in Seq(Nat) : V = FlattenSeq(f)
      BY <3>6, FlattenFacts
    <3>8. BaserelBlocks(V, PageSize) \in Seq(Blocks)
      BY SizesAssumption, BlocksTyped
    <3> QED BY <3>5, <3>7, <3>8
  <2>6. ASSUME NEW k \in DOMAIN names PROVE row[k] \in Seq(Blocks)
    <3> HIDE DEF places
    <3> QED BY <2>3, <2>5
  <2>7. DOMAIN row = DOMAIN names /\ row = [k \in DOMAIN row |-> row[k]]
    OBVIOUS
  <2> HIDE DEF row
  <2>8. row \in Seq(Seq(Blocks))
    BY <2>6, <2>7, MapTyped
  <2> QED BY <2>4, <2>8, FlattenFacts
<1>3. PICK bs \in Seq(Blocks) : bs = blocks'
  BY <1>1, <1>2
<1>4. PICK cs \in Seq(ChunkRecords) : cs = [i \in DOMAIN bs |-> BaserelChunk(i, bs[i])]
  BY BaserelChunksTyped
<1>5. todo' = ForSection(".reloc", cs)
  BY <1>3, <1>4 DEF AddBaserels
<1>6. ChunkRecords \in SUBSET AllChunks(world)
  BY DEF AllChunks
<1>7. /\ todo' \in Seq(Items(world))
      /\ todo' \in Seq([sec : {".reloc"}, chunk : ChunkRecords])
  BY <1>5, <1>6, Names, ForSectionTyped
<1>8. \A i \in DOMAIN todo' : todo'[i].sec = ".reloc"
  <2>1. \A i \in DOMAIN todo' : todo'[i] \in [sec : {".reloc"}, chunk : ChunkRecords]
    BY <1>7, LenProperties, ElementOfSeq
  <2>2. \A x \in [sec : {".reloc"}, chunk : ChunkRecords] : x.sec = ".reloc"
    OBVIOUS
  <2> QED BY <2>1, <2>2
<1>9. /\ phase \in Assigning /\ phase' \in Assigning /\ phase' \notin Adding
      /\ phase' \notin Assigned /\ phase' \notin {"write", "done"}
      /\ phase' \notin {"fixup", "start", "addresses", "failed", "write", "done"} \cup Assigned
  BY <1>1 DEF Adding, Assigning, Assigned
<1>10. TypeInv'
  BY <1>1, <1>7, <1>9 DEF IInv, TypeInv
<1>11. FitInv'
  BY <1>1 DEF IInv, FitInv
<1>12. AddInv'
  BY <1>1, <1>8, <1>9 DEF IInv, AddInv
<1>13. LayoutInv'
  <2>1. LaidOut(next - 1, rva, fileOff, TRUE)'
    BY <1>1, <1>9 DEF IInv, LayoutInv, LaidOut
  <2> QED BY <1>1, <1>9, <2>1 DEF IInv, LayoutInv
<1> QED BY <1>10, <1>11, <1>12, <1>13 DEF IInv

\* A section is put behind the ones that have addresses.
LEMMA AssignStep == IInv /\ AssignAddress => IInv'
<1> SUFFICES ASSUME IInv, AssignAddress PROVE IInv'
  OBVIOUS
<1>1. PICK n : n = order[next]
  OBVIOUS
<1>2. PICK k \in Nat : k = Len(order) /\ DOMAIN order = 1 .. k
  BY LenProperties DEF IInv, TypeInv
<1>3. /\ next <= Len(order) /\ next' = next + 1 /\ phase' = "addresses" /\ todo = <<>>
      /\ phase \in Assigning
      /\ UNCHANGED <<world, exports, todo, order, headers, imageSize, fileSize>>
  BY DEF AssignAddress, At, Assigning
<1>4. next \in 1 .. k /\ n \in DOMAIN out /\ next \in Nat
  BY <1>1, <1>2, <1>3 DEF IInv, TypeInv
<1>5. /\ out[n] \in Sections(world) /\ SectionFits(out[n]) /\ Unassigned(out[n])
  <2>1. next \in next .. Len(order)
    BY <1>2, <1>4
  <2> QED BY <1>1, <1>3, <1>4, <2>1 DEF IInv, TypeInv, FitInv, AddInv
<1>6. PICK a \in Nat, f \in Nat, h \in Nat :
        /\ a = rva /\ f = fileOff /\ h = headers
        /\ a % PageSize = 0 /\ a >= PageSize /\ f % FileAlignment = 0 /\ f >= h
        /\ LaidOut(next - 1, rva, fileOff, TRUE)
  BY <1>3 DEF IInv, TypeInv, LayoutInv
<1>7. PICK s \in Sections(world) :
        /\ s = SetFileOffset(SetRVA(out[n], rva), fileOff) /\ SectionFits(s)
        /\ s.rva = a /\ (s.raw # 0 => s.off = f)
  <2>1. PICK u \in Sections(world) :
          u = SetRVA(out[n], a) /\ SectionFits(u) /\ u.rva = a /\ u.off = 0
    BY <1>5, SetRVAFits
  <2>2. PICK v \in Sections(world) : /\ v = SetFileOffset(u, f) /\ SectionFits(v) /\ v.rva = u.rva
                                     /\ (u.raw # 0 => v.off = f) /\ v.raw = u.raw
    BY <2>1, SetFileOffsetFits
  <2> QED BY <1>6, <2>1, <2>2
<1>8. PICK vs \in Nat, raw \in Nat, off \in Nat :
        vs = s.vsize /\ raw = s.raw /\ off = s.off /\ raw % FileAlignment = 0
  BY <1>7, SectionParts DEF SectionFits
<1>9. PICK dv \in Nat : dv = RoundUp(vs, PageSize) /\ vs <= dv /\ dv % PageSize = 0
  BY SizesAssumption, RoundedUp
<1>10. PICK dr \in Nat : dr = RoundUp(raw, FileAlignment) /\ raw <= dr /\ dr % FileAlignment = 0
  BY SizesAssumption, RoundedUp
<1>11. out' = [out EXCEPT ![n] = s] /\ rva' = a + dv /\ fileOff' = f + dr
  BY <1>1, <1>6, <1>7, <1>8, <1>9, <1>10 DEF AssignAddress
<1>12. DOMAIN out' = DOMAIN out /\ out'[n] = s /\ \A m \in DOMAIN out \ {n} : out'[m] = out[m]
  BY <1>4, <1>11
<1>13. ASSUME NEW i \in 1 .. k, i # next
       PROVE  order[i] \in DOMAIN out /\ out'[order[i]] = out[order[i]]
  <2>1. order[i] # n /\ order[i] \in DOMAIN out
    BY <1>1, <1>2, <1>4, <1>13 DEF IInv, TypeInv, Distinct
  <2> QED BY <1>12, <2>1
<1>14. (a + dv) % PageSize = 0 /\ (f + dr) % FileAlignment = 0
  BY <1>6, <1>9, <1>10, SizesAssumption, SumOfMultiples,
     a \in Int, dv \in Int, f \in Int, dr \in Int
<1>15. phase' \in Assigning /\ phase' \notin Adding /\ phase' # "baserels"
       /\ phase' \notin Assigned /\ phase' \notin {"write", "done"}
  BY <1>3 DEF Adding, Assigning, Assigned
<1>16. TypeInv'
  <2>1. \A m \in DOMAIN out' : out'[m] \in Sections(world)
    BY <1>7, <1>12 DEF IInv, TypeInv
  <2>2. \A i \in DOMAIN order' : order'[i] \in DOMAIN out'
    BY <1>3, <1>12 DEF IInv, TypeInv
  <2>3. rva' \in Nat /\ fileOff' \in Nat /\ next' \in Nat \ {0}
    BY <1>3, <1>4, <1>11
  <2> QED BY <1>3, <1>15, <2>1, <2>2, <2>3 DEF IInv, TypeInv
<1>17. FitInv'
  BY <1>7, <1>12 DEF IInv, FitInv
<1>18. AddInv'
  <2>1. ASSUME NEW i \in next + 1 .. k PROVE Unassigned(out'[order[i]])
    <3>1. i \in 1 .. k /\ i # next /\ i \in next .. Len(order)
      BY <1>2, <1>4
    <3>2. Unassigned(out[order[i]])
      BY <1>3, <3>1 DEF IInv, AddInv
    <3> QED BY <1>13, <3>1, <3>2
  <2>2. next + 1 <= k + 1
    BY <1>4
  <2> QED BY <1>2, <1>3, <1>15, <2>1, <2>2 DEF AddInv
<1>19. LaidOut(next - 1, rva, fileOff, TRUE)'
  <2>1. ASSUME NEW i \in 1 .. next - 1
        PROVE  \E x \in Nat, v \in Nat, r \in Nat, o \in Nat :
                 /\ x = out'[order[i]].rva /\ v = out'[order[i]].vsize
                 /\ r = out'[order[i]].raw /\ o = out'[order[i]].off
                 /\ x % PageSize = 0 /\ x >= PageSize /\ x + v <= a
                 /\ r > 0 => o >= h /\ o + r <= f
    <3>1. i \in 1 .. k /\ i # next
      BY <1>4
    <3>2. out'[order[i]] = out[order[i]] /\ order[i] \in DOMAIN out
      BY <1>13, <3>1
    <3>3. PICK x \in Nat, v \in Nat, r \in Nat, o \in Nat :
            /\ x = out[order[i]].rva /\ v = out[order[i]].vsize
            /\ r = out[order[i]].raw /\ o = out[order[i]].off
      BY <3>2, SectionParts DEF IInv, TypeInv
    <3>4. /\ x % PageSize = 0 /\ x >= PageSize /\ x + v <= a
          /\ r > 0 => o >= h /\ o + r <= f
      BY <1>6, <3>3 DEF LaidOut
    <3> QED BY <3>2, <3>3, <3>4
  <2>2. ASSUME NEW i \in 1 .. next - 1, NEW j \in i + 1 .. next - 1
        PROVE  /\ out'[order[i]].rva + out'[order[i]].vsize <= out'[order[j]].rva
               /\ out'[order[i]].raw > 0 /\ out'[order[j]].raw > 0 =>
                    out'[order[i]].off + out'[order[i]].raw <= out'[order[j]].off
    <3>1. i \in 1 .. k /\ i # next /\ j \in 1 .. k /\ j # next
      BY <1>4
    <3>2. out'[order[i]] = out[order[i]] /\ out'[order[j]] = out[order[j]]
      BY <1>13, <3>1
    <3> QED BY <1>6, <3>2 DEF LaidOut
  <2>3. out'[order[next]] = s
    BY <1>1, <1>12
  <2>4. ASSUME NEW i \in 1 .. next
        PROVE  /\ out'[order[i]].rva % PageSize = 0 /\ out'[order[i]].rva >= PageSize
               /\ out'[order[i]].rva + out'[order[i]].vsize <= a + dv
               /\ out'[order[i]].raw > 0 =>
                    /\ out'[order[i]].off >= h
                    /\ out'[order[i]].off + out'[order[i]].raw <= f + dr
    <3>1. CASE i = next
      <4>1. a + vs <= a + dv /\ (raw > 0 => f >= h /\ off = f /\ f + raw <= f + dr)
        BY <1>6, <1>7, <1>8, <1>9, <1>10
      <4> QED BY <1>6, <1>7, <1>8, <2>3, <3>1, <4>1
    <3>2. CASE i # next
      <4>1. i \in 1 .. next - 1
        BY <1>4, <3>2
      <4>2. PICK x \in Nat, v \in Nat, r \in Nat, o \in Nat :
              /\ x = out'[order[i]].rva /\ v = out'[order[i]].vsize
              /\ r = out'[order[i]].raw /\ o = out'[order[i]].off
              /\ x % PageSize = 0 /\ x >= PageSize /\ x + v <= a
              /\ r > 0 => o >= h /\ o + r <= f
        BY <2>1, <4>1
      <4>3. x + v <= a + dv /\ (r > 0 => o + r <= f + dr)
        BY <4>2
      <4> QED BY <4>2, <4>3
    <3> QED BY <3>1, <3>2
  <2>5. ASSUME NEW i \in 1 .. next, NEW j \in i + 1 .. next
        PROVE  /\ out'[order[i]].rva + out'[order[i]].vsize <= out'[order[j]].rva
               /\ out'[order[i]].raw > 0 /\ out'[order[j]].raw > 0 =>
                    out'[order[i]].off + out'[order[i]].raw <= out'[order[j]].off
    <3>1. i \in 1 .. next - 1
      BY <1>4
    <3>2. CASE j = next
      <4>1. PICK x \in Nat, v \in Nat, r \in Nat, o \in Nat :
              /\ x = out'[order[i]].rva /\ v = out'[order[i]].vsize
              /\ r = out'[order[i]].raw /\ o = out'[order[i]].off
              /\ x + v <= a /\ (r > 0 => o + r <= f)
        BY <2>1, <3>1
      <4>2. raw > 0 => off = f
        BY <1>7, <1>8
      <4> QED BY <1>7, <1>8, <2>3, <3>2, <4>1, <4>2
    <3>3. CASE j # next
      <4>1. j \in i + 1 .. next - 1
        BY <1>4, <3>1, <3>3
      <4> QED BY <2>2, <3>1, <4>1
    <3> QED BY <3>2, <3>3
  <2>6. next' - 1 = next
    BY <1>3, <1>4
  <2> QED BY <1>3, <1>6, <1>11, <2>4, <2>5, <2>6 DEF LaidOut
<1>20. LayoutInv'
  <2>1. headers % PageSize = 0 /\ headers >= PageSize
    BY <1>3 DEF IInv, LayoutInv
  <2>2. a + dv >= PageSize /\ f + dr >= h
    BY <1>6, SizesAssumption
  <2> QED BY <1>3, <1>6, <1>11, <1>14, <1>15, <1>19, <2>1, <2>2 DEF LayoutInv
<1> QED BY <1>16, <1>17, <1>18, <1>20 DEF IInv

\* The sizes of image and file cover what has been assigned.
LEMMA DoneStep == IInv /\ AddressesDone => IInv'
<1> SUFFICES ASSUME IInv, AddressesDone PROVE IInv'
  OBVIOUS
<1>1. /\ phase = "addresses" /\ phase' = "empty" /\ next > Len(order) /\ todo = <<>>
      /\ UNCHANGED <<world, exports, todo, order, out, next, rva, fileOff, headers>>
  BY DEF AddressesDone, At
<1>2. PICK k \in Nat : k = Len(order) /\ DOMAIN order = 1 .. k
  BY LenProperties DEF IInv, TypeInv
<1>3. /\ phase \in Assigning /\ phase' \notin Assigning /\ phase' \notin Adding
      /\ phase' \in Assigned /\ phase' # "baserels" /\ phase' \notin {"write", "done"}
  BY <1>1 DEF Adding, Assigning, Assigned
<1>4. next - 1 = k
  <2>1. next <= Len(order) + 1 /\ next \in Nat
    BY <1>3 DEF IInv, AddInv, TypeInv
  <2> QED BY <1>1, <1>2, <2>1
<1>5. PICK a \in Nat, f \in Nat, h \in Nat :
        /\ a = rva /\ f = fileOff /\ h = headers
        /\ a % PageSize = 0 /\ a >= PageSize /\ f % FileAlignment = 0 /\ f >= h
        /\ h % PageSize = 0 /\ h >= PageSize
        /\ LaidOut(k, rva, fileOff, TRUE)
  BY <1>3, <1>4 DEF IInv, TypeInv, LayoutInv
<1>6. PICK ia \in Nat : ia = imageSize' /\ a <= ia
  <2>1. a - PageSize \in Nat
    BY <1>5, SizesAssumption
  <2>2. PICK r \in Nat : r = RoundUp(a - PageSize, PageSize) /\ a - PageSize <= r
    BY <2>1, SizesAssumption, RoundedUp
  <2>3. h + r \in Nat /\ a <= h + r
    BY <1>5, <2>2, SizesAssumption
  <2> QED BY <1>5, <2>2, <2>3 DEF AddressesDone
<1>7. PICK fs \in Nat : fs = fileSize' /\ f <= fs
  <2>1. f - h \in Nat
    BY <1>5
  <2>2. PICK r \in Nat : r = RoundUp(f - h, FileAlignment) /\ f - h <= r
    BY <2>1, SizesAssumption, RoundedUp
  <2>3. h + r \in Nat /\ f <= h + r
    BY <1>5, <2>2
  <2> QED BY <1>5, <2>2, <2>3 DEF AddressesDone
<1>8. TypeInv'
  BY <1>1, <1>3, <1>6, <1>7 DEF IInv, TypeInv
<1>9. FitInv'
  BY <1>1 DEF IInv, FitInv
<1>10. AddInv'
  BY <1>1, <1>3 DEF AddInv
<1>11. LaidOut(Len(order), imageSize, fileSize, TRUE)'
  <2>1. ASSUME NEW i \in 1 .. k
        PROVE  /\ out[order[i]].rva + out[order[i]].vsize <= ia
               /\ out[order[i]].raw > 0 => out[order[i]].off + out[order[i]].raw <= fs
    <3>1. PICK x \in Nat, v \in Nat, r \in Nat, o \in Nat :
            /\ x = out[order[i]].rva /\ v = out[order[i]].vsize
            /\ r = out[order[i]].raw /\ o = out[order[i]].off
      BY <1>2, SectionParts DEF IInv, TypeInv
    <3>2. x + v <= a /\ (r > 0 => o + r <= f)
      BY <1>5, <3>1 DEF LaidOut
    <3>3. x + v <= ia /\ (r > 0 => o + r <= fs)
      BY <1>6, <1>7, <3>2
    <3> QED BY <3>1, <3>3
  <2> QED BY <1>1, <1>2, <1>5, <1>6, <1>7, <2>1 DEF LaidOut
<1>12. LayoutInv'
  BY <1>1, <1>3, <1>5, <1>11 DEF LayoutInv
<1> QED BY <1>8, <1>9, <1>10, <1>12 DEF IInv

\* Removing sections keeps the others in their order.
LEMMA RemoveStep == IInv /\ RemoveEmptySections => IInv'
<1> SUFFICES ASSUME IInv, RemoveEmptySections PROVE IInv'
  OBVIOUS
<1>1. /\ phase = "empty" /\ phase' = "symbols" /\ todo = <<>>
      /\ UNCHANGED <<world, exports, todo, out, next, rva, fileOff, headers, imageSize, fileSize>>
  BY DEF RemoveEmptySections, At
<1>2. /\ phase \in Assigned /\ phase' \in Assigned /\ phase' \notin Adding
      /\ phase' \notin Assigning /\ phase' # "baserels" /\ phase' \notin {"write", "done"}
  BY <1>1 DEF Adding, Assigning, Assigned
<1>3. PICK q \in Seq(SectionNames), k \in Nat : q = order /\ k = Len(q) /\ DOMAIN q = 1 .. k
  BY LenProperties DEF IInv, TypeInv
<1>4. PICK I \in SUBSET DOMAIN q : I = {i \in DOMAIN q : out[q[i]].vsize # 0}
  OBVIOUS
<1>5. PICK p \in Seq(SectionNames), m \in Nat :
        /\ p = Picked(q, I) /\ m = Len(p) /\ DOMAIN p = 1 .. m
        /\ \A x \in 1 .. m : \E i \in I : p[x] = q[i]
        /\ \A x, y \in 1 .. m : x < y => \E i, j \in I : i < j /\ p[x] = q[i] /\ p[y] = q[j]
  <2>1. /\ Picked(q, I) \in Seq(SectionNames) /\ Len(Picked(q, I)) = Cardinality(I)
        /\ DOMAIN Picked(q, I) = 1 .. Cardinality(I) /\ Cardinality(I) \in Nat
        /\ \A x \in 1 .. Cardinality(I) : \E i \in I : Picked(q, I)[x] = q[i]
        /\ \A x, y \in 1 .. Cardinality(I) : x < y =>
             \E i, j \in I : i < j /\ Picked(q, I)[x] = q[i] /\ Picked(q, I)[y] = q[j]
    BY PickedFacts
  <2> USE <2>1
  <2> WITNESS Picked(q, I) \in Seq(SectionNames), Cardinality(I) \in Nat
  <2> QED BY <2>1, Zenon
<1>6. order' = p
  BY <1>3, <1>4, <1>5 DEF RemoveEmptySections
<1>7. \A i, j \in 1 .. k : q[i] = q[j] => i = j
  BY <1>3 DEF IInv, TypeInv, Distinct
<1>8. TypeInv'
  <2>1. Distinct(p)
    <3>1. ASSUME NEW x \in 1 .. m, NEW y \in 1 .. m, x < y PROVE p[x] # p[y]
      <4>1. PICK i \in I, j \in I : i < j /\ p[x] = q[i] /\ p[y] = q[j]
        BY <1>5, <3>1
      <4>2. i \in 1 .. k /\ j \in 1 .. k /\ i # j
        BY <1>3, <4>1
      <4> QED BY <1>7, <4>1, <4>2
    <3>2. \A x, y \in 1 .. m : x = y \/ x < y \/ y < x
      OBVIOUS
    <3> QED BY <1>5, <3>1, <3>2 DEF Distinct
  <2>2. \A x \in 1 .. m : p[x] \in DOMAIN out
    BY <1>3, <1>5 DEF IInv, TypeInv
  <2> QED BY <1>1, <1>2, <1>5, <1>6, <2>1, <2>2 DEF IInv, TypeInv
<1>9. FitInv'
  BY <1>1 DEF IInv, FitInv
<1>10. AddInv'
  BY <1>1, <1>2 DEF AddInv
<1>11. LaidOut(Len(order), imageSize, fileSize, TRUE)'
  <2>1. LaidOut(k, imageSize, fileSize, TRUE)
    BY <1>2, <1>3 DEF IInv, LayoutInv
  <2>2. ASSUME NEW x \in 1 .. m
        PROVE  LET s == out[p[x]]
               IN  /\ s.rva % PageSize = 0 /\ s.rva >= PageSize
                   /\ s.rva + s.vsize <= imageSize
                   /\ s.raw > 0 => s.off >= headers /\ s.off + s.raw <= fileSize
    <3>1. PICK i \in I : p[x] = q[i]
      BY <1>5
    <3>2. i \in 1 .. k
      BY <1>3
    <3> QED BY <1>3, <2>1, <3>1, <3>2 DEF LaidOut
  <2>3. ASSUME NEW x \in 1 .. m, NEW y \in x + 1 .. m
        PROVE  LET s == out[p[x]]
                   t == out[p[y]]
               IN  /\ s.rva + s.vsize <= t.rva
                   /\ s.raw > 0 /\ t.raw > 0 => s.off + s.raw <= t.off
    <3>1. y \in 1 .. m /\ x < y
      OBVIOUS
    <3>2. PICK i \in I, j \in I : i < j /\ p[x] = q[i] /\ p[y] = q[j]
      BY <1>5, <3>1
    <3>3. i \in 1 .. k /\ j \in i + 1 .. k
      BY <1>3, <3>2
    <3> QED BY <1>3, <2>1, <3>2, <3>3 DEF LaidOut
  <2> QED BY <1>1, <1>5, <1>6, <2>2, <2>3 DEF LaidOut
<1>12. headers % PageSize = 0 /\ headers >= PageSize
  BY <1>2 DEF IInv, LayoutInv
<1>13. LayoutInv'
  BY <1>1, <1>2, <1>11, <1>12 DEF LayoutInv
<1> QED BY <1>8, <1>9, <1>10, <1>13 DEF IInv

\* The symbol table is put behind the end of the last section.
LEMMA SymbolsStep == IInv /\ CreateSymbolTable => IInv'
<1> SUFFICES ASSUME IInv, CreateSymbolTable PROVE IInv'
  OBVIOUS
<1>1. /\ phase = "symbols" /\ phase' = "write" /\ todo = <<>>
      /\ UNCHANGED <<world, exports, todo, order, out, next, rva, fileOff, headers, imageSize>>
  BY DEF CreateSymbolTable, At
<1>2. /\ phase \in Assigned /\ phase' \notin Assigned /\ phase' \notin Adding
      /\ phase' \notin Assigning /\ phase' # "baserels"
  BY <1>1 DEF Adding, Assigning, Assigned
<1>3. PICK k \in Nat : k = Len(order) /\ DOMAIN order = 1 .. k
  BY LenProperties DEF IInv, TypeInv
<1>4. headers % PageSize = 0 /\ headers >= PageSize /\ LaidOut(k, imageSize, fileSize, TRUE)
  BY <1>2, <1>3 DEF IInv, LayoutInv
<1>5. ASSUME NEW i \in 1 .. k
      PROVE  \E x \in Nat, v \in Nat, r \in Nat, o \in Nat :
               /\ x = out[order[i]].rva /\ v = out[order[i]].vsize
               /\ r = out[order[i]].raw /\ o = out[order[i]].off
  BY <1>3, SectionParts DEF IInv, TypeInv
<1>6. \/ fileSize' = fileSize /\ ~(world.debug /\ order # <<>>)
      \/ /\ world.debug /\ order # <<>> /\ k >= 1
         /\ \E e \in Nat : /\ e = out[order[k]].off + RoundUp(out[order[k]].raw, FileAlignment)
                           /\ fileSize' \in Nat /\ e <= fileSize'
  <2>1. CASE ~world.debug \/ order = <<>>
    BY <2>1 DEF CreateSymbolTable
  <2>2. CASE world.debug /\ order # <<>>
    <3>1. k >= 1
      BY <1>3, <2>2, EmptySeq DEF IInv, TypeInv
    <3>2. PICK r \in Nat, o \in Nat : r = out[order[k]].raw /\ o = out[order[k]].off
      BY <1>5, <3>1
    <3>3. PICK dr \in Nat : dr = RoundUp(r, FileAlignment)
      BY SizesAssumption, RoundedUp
    <3>4. PICK h \in Nat : h = headers
      BY DEF IInv, TypeInv
    <3>5. PICK st \in Nat : st = IF StringTableSize = 0 THEN 0 ELSE StringTableSize + 4
      <4>1. PICK long : long = {n \in ToSet(order) : n \in LongNames}
        OBVIOUS
      <4>2. IsFiniteSet(long)
        <5>1. IsFiniteSet(1 .. k)
          BY FS_Interval
        <5>2. IsFiniteSet({order[i] : i \in DOMAIN order})
          BY <1>3, <5>1, FiniteImage
        <5>3. long \in SUBSET {order[i] : i \in DOMAIN order}
          BY <4>1 DEF ToSet
        <5> QED BY <5>2, <5>3, FS_Subset
      <4>3. PICK syms : syms = {i \in DOMAIN world.symbols : world.symbols[i].long}
        OBVIOUS
      <4>4. IsFiniteSet(syms)
        <5>1. PICK n \in Nat : DOMAIN world.symbols = 1 .. n
          BY WorldFacts, LenProperties DEF IInv, TypeInv
        <5>2. IsFiniteSet(1 .. n) /\ syms \in SUBSET (1 .. n)
          BY <4>3, <5>1, FS_Interval
        <5> QED BY <5>2, FS_Subset
      <4>5. PICK x \in Nat, y \in Nat : x = Cardinality(long) /\ y = Cardinality(syms)
        BY <4>2, <4>4, FS_CardinalityType
      <4>6. (NameLength + 9) * (x + y) \in Nat
        BY NameLengthAssumption
      <4>7. StringTableSize = (NameLength + 9) * (x + y)
        BY <4>1, <4>3, <4>5 DEF StringTableSize
      <4> QED BY <4>6, <4>7
    <3>6. PICK l \in Nat : l = Len(symtab')
      <4>1. PICK ss \in Seq([chunk : Nat, value : Nat, long : BOOLEAN]) : ss = world.symbols
        BY WorldFacts DEF IInv, TypeInv
      <4>2. PICK n \in Nat : n = Len(ss) /\ DOMAIN ss = 1 .. n
        BY LenProperties
      <4> DEFINE entry(s) == [section |-> index[SectionAt(SymbolRVA(s))],
                              value |-> SymbolRVA(s) - out[SectionAt(SymbolRVA(s))].rva]
                 f == [i \in 1 .. n |-> entry(ss[i])]
      <4>3. symtab' = f
        BY <2>2, <4>1, <4>2 DEF CreateSymbolTable, Each
      <4> HIDE DEF entry
      <4>4. f \in [1 .. n -> {f[i] : i \in 1 .. n}]
        OBVIOUS
      <4> HIDE DEF f
      <4>5. Len(f) = n
        BY <4>4, SeqIs
      <4> QED BY <4>3, <4>5
    <3>7. PICK z \in Int : z = o + dr + 18 * l + st - h
      OBVIOUS
    <3>8. PICK rz : rz = RoundUp(z, FileAlignment)
      OBVIOUS
    <3>9. rz \in Int /\ z <= rz
      <4>1. RoundUp(z, FileAlignment) \in Int /\ z <= RoundUp(z, FileAlignment)
        BY SizesAssumption, RoundUpFacts
      <4> QED BY <3>8, <4>1
    <3>10. fileSize' = h + rz
      BY <1>3, <2>2, <3>2, <3>3, <3>4, <3>5, <3>6, <3>7, <3>8 DEF CreateSymbolTable
    <3>11. o + dr \in Nat /\ h + rz \in Nat /\ o + dr <= h + rz
      BY <3>7, <3>9
    <3> QED BY <2>2, <3>1, <3>2, <3>3, <3>10, <3>11
  <2> QED BY <2>1, <2>2
<1>7. fileSize' \in Nat
  BY <1>6 DEF IInv, TypeInv
<1>8. TypeInv'
  BY <1>1, <1>7 DEF IInv, TypeInv
<1>9. FitInv'
  BY <1>1 DEF IInv, FitInv
<1>10. AddInv'
  BY <1>1, <1>2 DEF AddInv
<1>11. EndsInData' <=> EndsInData
  BY <1>1 DEF EndsInData
<1>12. ASSUME NEW i \in 1 .. k, out[order[i]].raw > 0, EndsInData
       PROVE  out[order[i]].off + out[order[i]].raw <= fileSize'
  <2>1. PICK r \in Nat, o \in Nat : r = out[order[i]].raw /\ o = out[order[i]].off
    BY <1>5
  <2>2. CASE fileSize' = fileSize
    BY <1>4, <1>12, <2>2 DEF LaidOut
  <2>3. CASE world.debug /\ order # <<>> /\ k >= 1
    <3>1. PICK e \in Nat, fs \in Nat :
            /\ e = out[order[k]].off + RoundUp(out[order[k]].raw, FileAlignment)
            /\ fs = fileSize' /\ e <= fs
      BY <1>6, <2>3
    <3>2. out[order[k]].raw > 0
      BY <1>3, <1>12, <2>3 DEF EndsInData
    <3>3. PICK lr \in Nat, lo \in Nat : lr = out[order[k]].raw /\ lo = out[order[k]].off
      <4>1. k \in 1 .. k
        BY <2>3
      <4> QED BY <1>5, <4>1
    <3>4. PICK dr \in Nat : dr = RoundUp(lr, FileAlignment) /\ lr <= dr
      BY SizesAssumption, RoundedUp
    <3>5. CASE i = k
      <4>1. o + r <= e
        BY <2>1, <3>1, <3>3, <3>4, <3>5
      <4> QED BY <2>1, <3>1, <4>1
    <3>6. CASE i # k
      <4>1. k \in i + 1 .. k
        BY <3>6
      <4>2. o + r <= lo
        BY <1>4, <1>12, <2>1, <3>2, <3>3, <4>1 DEF LaidOut
      <4>3. o + r <= fs
        BY <3>1, <3>3, <3>4, <4>2
      <4> QED BY <2>1, <3>1, <4>3
    <3> QED BY <3>5, <3>6
  <2> QED BY <1>6, <2>2, <2>3
<1>13. LaidOut(Len(order), imageSize, fileSize, EndsInData)'
  BY <1>1, <1>3, <1>4, <1>11, <1>12 DEF LaidOut
<1>14. LayoutInv'
  BY <1>1, <1>2, <1>4, <1>13 DEF LayoutInv
<1> QED BY <1>8, <1>9, <1>10, <1>14 DEF IInv

\* writeSections moves nothing.
LEMMA WriteStep == IInv /\ WriteSections => IInv'
<1> SUFFICES ASSUME IInv, WriteSections PROVE IInv'
  OBVIOUS
<1>1. /\ phase = "write" /\ phase' = "done" /\ todo = <<>>
      /\ UNCHANGED <<world, exports, todo, order, out, next, rva, fileOff, headers, imageSize,
                     fileSize>>
  BY DEF WriteSections, At
<1>2. /\ phase' \notin Assigned /\ phase' \notin Adding /\ phase' \notin Assigning
      /\ phase' # "baserels"
  BY <1>1 DEF Adding, Assigning, Assigned
<1>3. TypeInv' /\ FitInv' /\ AddInv'
  BY <1>1, <1>2 DEF IInv, TypeInv, FitInv, AddInv
<1>4. LaidOut(Len(order), imageSize, fileSize, EndsInData)'
  BY <1>1 DEF IInv, LayoutInv, LaidOut, EndsInData
<1>5. LayoutInv'
  BY <1>1, <1>2, <1>4 DEF IInv, LayoutInv
<1> QED BY <1>3, <1>5 DEF IInv

\* Nothing changes once a link has ended.
LEMMA EndedStep == IInv /\ UNCHANGED vars => IInv'
<1> SUFFICES ASSUME IInv, UNCHANGED vars PROVE IInv'
  OBVIOUS
<1>1. UNCHANGED <<world, phase, exports, todo, order, out, next, rva, fileOff, headers,
                  imageSize, fileSize>>
  BY DEF vars
<1>2. TypeInv' /\ FitInv' /\ AddInv'
  BY <1>1 DEF IInv, TypeInv, FitInv, AddInv
<1>3. LayoutInv'
  BY <1>1 DEF IInv, LayoutInv, LaidOut, EndsInData
<1> QED BY <1>2, <1>3 DEF IInv

(* The invariant holds in every state of a link.                           *)
THEOREM Invariant == Spec => []IInv
<1>1. IInv /\ [Next]_vars => IInv'
  <2> SUFFICES ASSUME IInv, [Next]_vars PROVE IInv'
    OBVIOUS
  <2>1. CASE PlaceChunk
    BY <2>1, PlaceStep
  <2>2. CASE Fixup
    BY <2>2, FixupStep
  <2>3. CASE \/ CreateSections \/ CreateMiscChunks \/ CreateImportTables
             \/ CreateExportTable \/ CreateReloc
    BY <2>3, ListSteps
  <2>4. CASE StartAddresses
    BY <2>4, StartStep
  <2>5. CASE AddBaserels
    BY <2>5, BaserelStep
  <2>6. CASE AssignAddress
    BY <2>6, AssignStep
  <2>7. CASE AddressesDone
    BY <2>7, DoneStep
  <2>8. CASE RemoveEmptySections
    BY <2>8, RemoveStep
  <2>9. CASE CreateSymbolTable
    BY <2>9, SymbolsStep
  <2>10. CASE WriteSections
    BY <2>10, WriteStep
  <2>11. CASE Ended \/ UNCHANGED vars
    BY <2>11, EndedStep DEF Ended
  <2> QED BY <2>1, <2>2, <2>3, <2>4, <2>5, <2>6, <2>7, <2>8, <2>9, <2>10, <2>11 DEF Next
<1> QED BY <1>1, InitHolds, PTL DEF Spec

(* Chunks of a section follow each other aligned and without overlap, in   *)
(* memory as in the file, at any time of any link (OutputSection::addChunk, *)
(* setRVA and setFileOffset).                                              *)
THEOREM ChunksAlwaysFit == Spec => []ChunksFit
<1>1. IInv => ChunksFit
  <2> SUFFICES ASSUME IInv, NEW n \in DOMAIN out PROVE
        LET s == out[n]
            start(i) == s.chunks[i].rva - s.rva
        IN  \A i \in DOMAIN s.chunks :
              LET p == s.chunks[i]
              IN  /\ start(i) % p.chunk.align = 0
                  /\ start(i) + p.chunk.size
                       <= IF i = Len(s.chunks) THEN s.vsize ELSE start(i + 1)
                  /\ p.chunk.data =>
                       /\ start(i) + p.chunk.size <= s.raw
                       /\ p.off - s.off = start(i)
    BY DEF ChunksFit
  <2>1. SectionFits(out[n])
    BY DEF IInv, FitInv
  <2> QED BY <2>1 DEF SectionFits
<1> QED BY <1>1, Invariant, PTL

(* The sections that are written are apart from each other in memory and   *)
(* in the file, and within the sizes the headers give (assignAddresses,    *)
(* removeEmptySections, createSymbolAndStringTable).                       *)
THEOREM SectionsAreApart == Spec => []SectionsApart
<1>1. IInv => SectionsApart
  <2> SUFFICES ASSUME IInv, Written PROVE SectionsApart
    BY DEF SectionsApart
  <2>1. PICK k \in Nat : k = Len(order) /\ DOMAIN order = 1 .. k
    BY LenProperties DEF IInv, TypeInv
  <2>2. LaidOut(k, imageSize, fileSize, EndsInData)
    BY <2>1 DEF IInv, LayoutInv, Written
  <2> QED BY <2>1, <2>2 DEF LaidOut, SectionsApart
<1> QED BY <1>1, Invariant, PTL
=============================================================================
