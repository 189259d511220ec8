---------------------------- MODULE CommonLemmas ----------------------------
(***************************************************************************)
(* Facts the proofs about several components need: every set of naturals   *)
(* that is not empty has a least member, which stands in for induction;    *)
(* what iterating a function gives; how sequences grow and shrink, and the *)
(* sequence made of a finite set.                                          *)
(***************************************************************************)
EXTENDS Integers, SequencesExt, FiniteSetTheorems, SequenceTheorems, TLAPS

(* A set of naturals that is not empty has a least member: of the finite   *)
(* intervals from 0 to its members one is minimal.                         *)
LEMMA Least ==
  ASSUME NEW S \in SUBSET Nat, S # {}
  PROVE  \E x \in S : \A y \in S : x <= y
<1> DEFINE R == StrictSubsetOrdering(Nat)
           T == {0 .. x : x \in S}
<1>1. IsWellFoundedOn(R, FiniteSubsetsOf(Nat))
  BY FS_StrictSubsetOrderingWellFounded
<1>2. T \subseteq FiniteSubsetsOf(Nat) /\ T # {}
  <2>1. ASSUME NEW x \in S PROVE 0 .. x \in FiniteSubsetsOf(Nat)
    <3>1. x \in Nat /\ 0 .. x \in SUBSET Nat
      OBVIOUS
    <3>2. IsFiniteSet(0 .. x)
      BY <3>1, FS_Interval
    <3> QED BY <3>1, <3>2 DEF FiniteSubsetsOf
  <2> QED BY <2>1
<1> HIDE DEF R, T
<1>3. \E A \in T : \A B \in T : <<B, A>> \notin R
  BY <1>1, <1>2, WFMin
<1>4. PICK x \in S : \A B \in T : <<B, 0 .. x>> \notin R
  BY <1>3 DEF T
<1>5. ASSUME NEW y \in S, y < x PROVE FALSE
  <2>1. 0 .. y \in T
    BY DEF T
  <2>2. 0 .. y \subseteq 0 .. x /\ x \in 0 .. x /\ x \notin 0 .. y
    BY <1>5
  <2>3. 0 .. y \in SUBSET Nat /\ 0 .. x \in SUBSET Nat /\ 0 .. y # 0 .. x
    BY <2>2
  <2>4. <<0 .. y, 0 .. x>> \in R
    BY <2>2, <2>3 DEF R, StrictSubsetOrdering
  <2> QED BY <1>4, <2>1, <2>4
<1> QED BY <1>5

(* Induction over the naturals, of a set in place of a predicate.          *)
LEMMA Induction ==
  ASSUME NEW S \in SUBSET Nat, 0 \in S, \A n \in S : n + 1 \in S
  PROVE  S = Nat
<1> SUFFICES ASSUME Nat \ S # {} PROVE FALSE
  OBVIOUS
<1>1. PICK x \in Nat \ S : \A y \in Nat \ S : x <= y
  BY Least
<1>2. x - 1 \in S
  BY <1>1
<1> QED BY <1>1, <1>2

\* f is what becomes of x when g is applied to it again and again.
Orbit(f, S, g, x) ==
  f \in [Nat -> S] /\ f[0] = x /\ \A n \in Nat : f[n + 1] = g[f[n]]

(* Starting from x, a function of S into itself can be applied as often as *)
(* one likes.                                                              *)
LEMMA Iterate ==
  ASSUME NEW S, NEW g \in [S -> S], NEW x \in S
  PROVE  \E f : Orbit(f, S, g, x)
<1> DEFINE Run(n, f) == f[0] = x /\ \A i \in 0 .. n - 1 : f[i + 1] = g[f[i]]
           Long == {n \in Nat : \E f \in [0 .. n -> S] : Run(n, f)}
           Same == {n \in Nat : \A k, l \in Nat : n <= k /\ n <= l =>
                       \A f \in [0 .. k -> S], h \in [0 .. l -> S] :
                          Run(k, f) /\ Run(l, h) => f[n] = h[n]}
<1>1. Long = Nat
  <2>1. 0 \in Long
    <3> DEFINE f == [i \in 0 .. 0 |-> x]
    <3>1. f \in [0 .. 0 -> S] /\ Run(0, f)
      OBVIOUS
    <3> QED BY <3>1
  <2>2. ASSUME NEW n \in Long PROVE n + 1 \in Long
    <3>1. PICK f \in [0 .. n -> S] : Run(n, f)
      OBVIOUS
    <3> DEFINE h == [i \in 0 .. n + 1 |-> IF i <= n THEN f[i] ELSE g[f[n]]]
    <3>2. f[n] \in S
      OBVIOUS
    <3>3. h \in [0 .. n + 1 -> S]
      BY <3>2
    <3>4. Run(n + 1, h)
      <4>1. h[0] = x
        BY <3>1
      <4>2. ASSUME NEW i \in 0 .. n PROVE h[i + 1] = g[h[i]]
        <5>1. CASE i = n
          <6>1. n \in 0 .. n + 1 /\ n + 1 \in 0 .. n + 1 /\ ~(n + 1 <= n)
            OBVIOUS
          <6> QED BY <5>1, <6>1
        <5>2. CASE i # n
          <6>1. i \in 0 .. n - 1 /\ i + 1 <= n /\ i + 1 \in 0 .. n + 1
            BY <5>2
          <6> QED BY <3>1, <6>1
        <5> QED BY <5>1, <5>2
      <4>3. (n + 1) - 1 = n
        OBVIOUS
      <4> QED BY <4>1, <4>2, <4>3
    <3> HIDE DEF h, Run
    <3> QED BY <3>3, <3>4
  <2> HIDE DEF Long
  <2>3. Long \in SUBSET Nat
    BY DEF Long
  <2> QED BY <2>1, <2>2, <2>3, Induction
<1>2. Same = Nat
  <2>1. 0 \in Same
    OBVIOUS
  <2>2. ASSUME NEW n \in Same PROVE n + 1 \in Same
    <3> HIDE DEF Run
    <3> SUFFICES ASSUME NEW k \in Nat, NEW l \in Nat, n + 1 <= k, n + 1 <= l,
                        NEW f \in [0 .. k -> S], NEW h \in [0 .. l -> S],
                        Run(k, f), Run(l, h)
                 PROVE  f[n + 1] = h[n + 1]
      OBVIOUS
    <3>1. n <= k /\ n <= l /\ n \in 0 .. k - 1 /\ n \in 0 .. l - 1
      OBVIOUS
    <3>2. f[n] = h[n]
      BY <2>2, <3>1
    <3>3. f[n + 1] = g[f[n]] /\ h[n + 1] = g[h[n]]
      BY <3>1 DEF Run
    <3> QED BY <3>2, <3>3
  <2> HIDE DEF Same
  <2>3. Same \in SUBSET Nat
    BY DEF Same
  <2> QED BY <2>1, <2>2, <2>3, Induction
<1> DEFINE At(n) == CHOOSE f \in [0 .. n -> S] : Run(n, f)
           run == [n \in Nat |-> At(n)[n]]
<1> HIDE DEF Long, Same, Run
<1>3. ASSUME NEW n \in Nat PROVE At(n) \in [0 .. n -> S] /\ Run(n, At(n))
  BY <1>1 DEF Long
<1> HIDE DEF At
<1>4. run \in [Nat -> S]
  <2>1. ASSUME NEW n \in Nat PROVE At(n)[n] \in S
    BY <1>3
  <2> QED BY <2>1
<1>5. run[0] = x
  BY <1>3 DEF Run
<1>6. ASSUME NEW n \in Nat PROVE run[n + 1] = g[run[n]]
  <2>1. At(n + 1)[n + 1] = g[At(n + 1)[n]]
    <3>1. n \in 0 .. (n + 1) - 1
      OBVIOUS
    <3> QED BY <1>3, <3>1 DEF Run
  <2>2. At(n + 1)[n] = At(n)[n]
    <3>1. n \in Nat /\ n + 1 \in Nat /\ n <= n + 1 /\ n <= n
      OBVIOUS
    <3>2. /\ At(n) \in [0 .. n -> S] /\ Run(n, At(n))
          /\ At(n + 1) \in [0 .. n + 1 -> S] /\ Run(n + 1, At(n + 1))
      BY <1>3, <3>1
    <3>3. n \in Same
      BY <1>2
    <3> QED BY <3>1, <3>2, <3>3 DEF Same
  <2> QED BY <2>1, <2>2
<1> QED BY <1>4, <1>5, <1>6 DEF Orbit

(* Sequences that grow and shrink.                                         *)
LEMMA AppendFacts ==
  ASSUME NEW S, NEW s \in Seq(S), NEW x \in S
  PROVE  /\ Append(s, x) \in Seq(S) /\ Len(Append(s, x)) = Len(s) + 1 /\ Len(s) \in Nat
         /\ DOMAIN s = 1 .. Len(s) /\ DOMAIN Append(s, x) = 1 .. Len(s) + 1
         /\ \A i \in DOMAIN s : Append(s, x)[i] = s[i]
         /\ Append(s, x)[Len(s) + 1] = x
         /\ ToSet(Append(s, x)) = ToSet(s) \cup {x}
<1>1. /\ Append(s, x) \in Seq(S) /\ Len(Append(s, x)) = Len(s) + 1 /\ Len(s) \in Nat
      /\ DOMAIN s = 1 .. Len(s) /\ DOMAIN Append(s, x) = 1 .. Len(s) + 1
      /\ \A i \in DOMAIN s : Append(s, x)[i] = s[i]
      /\ Append(s, x)[Len(s) + 1] = x
  BY AppendProperties, LenProperties
<1>2. DOMAIN Append(s, x) = DOMAIN s \cup {Len(s) + 1}
  BY <1>1
<1> QED BY <1>1, <1>2 DEF ToSet

LEMMA TailFacts ==
  ASSUME NEW S, NEW s \in Seq(S), s # <<>>
  PROVE  /\ Head(s) \in ToSet(s) /\ Head(s) \in S
         /\ Tail(s) \in Seq(S) /\ ToSet(Tail(s)) \subseteq ToSet(s)
<1>1. /\ Head(s) \in S /\ Tail(s) \in Seq(S) /\ Len(Tail(s)) = Len(s) - 1
      /\ Len(s) \in Nat \ {0} /\ DOMAIN s = 1 .. Len(s) /\ DOMAIN Tail(s) = 1 .. Len(Tail(s))
  BY HeadTailProperties, EmptySeq, LenProperties
<1>2. Head(s) = s[1] /\ \A i \in 1 .. Len(s) - 1 : Tail(s)[i] = s[i + 1]
  BY <1>1
<1> QED BY <1>1, <1>2 DEF ToSet

\* A member of a sequence is its head or in its tail.
LEMMA HeadOrTail ==
  ASSUME NEW S, NEW s \in Seq(S), s # <<>>
  PROVE  ToSet(s) \subseteq {Head(s)} \cup ToSet(Tail(s))
<1>1. /\ Len(Tail(s)) = Len(s) - 1 /\ Len(s) \in Nat \ {0} /\ DOMAIN s = 1 .. Len(s)
      /\ Tail(s) \in Seq(S) /\ DOMAIN Tail(s) = 1 .. Len(Tail(s))
  BY HeadTailProperties, EmptySeq, LenProperties
<1>2. Head(s) = s[1] /\ \A i \in 1 .. Len(s) - 1 : Tail(s)[i] = s[i + 1]
  BY <1>1
<1> SUFFICES ASSUME NEW i \in 1 .. Len(s), i # 1 PROVE s[i] \in ToSet(Tail(s))
  BY <1>1, <1>2 DEF ToSet
<1>3. i - 1 \in 1 .. Len(s) - 1 /\ s[i] = Tail(s)[i - 1]
  BY <1>1, <1>2
<1> QED BY <1>1, <1>3 DEF ToSet

LEMMA ConcatFacts ==
  ASSUME NEW S, NEW s \in Seq(S), NEW t \in Seq(S)
  PROVE  /\ s \o t \in Seq(S) /\ Len(s \o t) = Len(s) + Len(t)
         /\ Len(s) \in Nat /\ Len(t) \in Nat
         /\ \A i \in DOMAIN s : i \in DOMAIN (s \o t) /\ (s \o t)[i] = s[i]
         /\ \A i \in DOMAIN (s \o t) : (s \o t)[i] \in ToSet(s) \cup ToSet(t)
         /\ ToSet(s \o t) = ToSet(s) \cup ToSet(t)
<1>1. /\ s \o t \in Seq(S) /\ DOMAIN (s \o t) = 1 .. Len(s) + Len(t)
      /\ Len(s \o t) = Len(s) + Len(t)
      /\ \A i \in 1 .. Len(s) + Len(t) : (s \o t)[i] = IF i <= Len(s) THEN s[i] ELSE t[i - Len(s)]
      /\ Len(s) \in Nat /\ Len(t) \in Nat /\ DOMAIN s = 1 .. Len(s) /\ DOMAIN t = 1 .. Len(t)
  BY ConcatProperties, LenProperties
<1>2. ASSUME NEW i \in 1 .. Len(s) + Len(t) PROVE (s \o t)[i] \in ToSet(s) \cup ToSet(t)
  <2>1. CASE i <= Len(s)
    BY <1>1, <2>1 DEF ToSet
  <2>2. CASE ~(i <= Len(s))
    <3>1. i - Len(s) \in 1 .. Len(t)
      BY <1>1, <2>2
    <3> QED BY <1>1, <2>2, <3>1 DEF ToSet
  <2> QED BY <2>1, <2>2
<1>3. ASSUME NEW i \in DOMAIN s PROVE i \in DOMAIN (s \o t) /\ (s \o t)[i] = s[i]
  BY <1>1
<1>4. ASSUME NEW i \in DOMAIN t PROVE t[i] \in ToSet(s \o t)
  <2>1. Len(s) + i \in 1 .. Len(s) + Len(t) /\ ~(Len(s) + i <= Len(s)) /\ (Len(s) + i) - Len(s) = i
    BY <1>1
  <2>2. (s \o t)[Len(s) + i] = t[i]
    BY <1>1, <2>1
  <2> QED BY <1>1, <2>1, <2>2 DEF ToSet
<1>5. ToSet(s \o t) = ToSet(s) \cup ToSet(t)
  BY <1>1, <1>2, <1>3, <1>4 DEF ToSet
<1> QED BY <1>1, <1>2, <1>3, <1>5

(* The members of a finite set, each of them once, in some order.          *)
LEMMA SetToSeqFacts ==
  ASSUME NEW S, IsFiniteSet(S)
  PROVE  /\ SetToSeq(S) \in Seq(S) /\ ToSet(SetToSeq(S)) = S
         /\ \A i, j \in DOMAIN SetToSeq(S) : SetToSeq(S)[i] = SetToSeq(S)[j] => i = j
<1> DEFINE N == Cardinality(S)
           q == SetToSeq(S)
<1>1. N \in Nat /\ \E f \in [1 .. N -> S] : IsInjective(f)
  BY FS_CardinalityType DEF ExistsBijection, Bijection, Injection
<1>2. q \in [1 .. N -> S] /\ IsInjective(q)
  BY <1>1 DEF SetToSeq
<1>3. q \in Seq(S)
  BY <1>1, <1>2, SeqDef
<1>4. q \in Surjection(1 .. N, S)
  <2>1. IsFiniteSet(1 .. N) /\ Cardinality(1 .. N) = N
    BY <1>1, FS_Interval
  <2> HIDE DEF q
  <2>2. q \in Injection(1 .. N, S)
    BY <1>2 DEF Injection
  <2> HIDE DEF N
  <2> QED BY <2>1, <2>2, FS_Injection DEF N
<1>5. ToSet(q) = S
  <2> HIDE DEF q, N
  <2> QED BY <1>2, <1>4 DEF Surjection, ToSet
<1> QED BY <1>2, <1>3, <1>5 DEF IsInjective
=============================================================================
