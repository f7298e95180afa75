-------------------------- MODULE YafRouterProofs --------------------------
(***************************************************************************)
(* Theorems about the routes and the router, for every set of segments,    *)
(* modules, routes and configurations.                                     *)
(***************************************************************************)
EXTENDS YafRouter, SequenceTheorems, FiniteSetTheorems, WellFoundedInduction, TLAPS

-----------------------------------------------------------------------------
(* Least and greatest elements *)

\* A nonempty set of natural numbers has a least element.
LEMMA LeastOf ==
  ASSUME NEW S \in SUBSET Nat, S # {}
  PROVE  \E x \in S : \A y \in S : x <= y
<1> DEFINE R == OpToRel(<, Nat)
<1>1. IsWellFoundedOn(R, Nat)
  BY NatLessThanWellFounded
<1>2. \A x, y \in Nat : <<x, y>> \in R <=> x < y
  BY DEF OpToRel
<1> HIDE DEF R
<1>3. PICK x \in S : \A y \in S : ~(<<y, x>> \in R)
  BY <1>1, WFMin
<1>4. \A y \in S : y \in Nat /\ x \in Nat /\ ~(y < x)
  BY <1>2, <1>3
<1>5. \A y \in S : x <= y
  BY <1>4
<1> QED
  BY <1>5

\* A nonempty set of numbers up to n has a greatest element.
LEMMA GreatestOf ==
  ASSUME NEW n \in Nat, NEW S \in SUBSET (0 .. n), S # {}
  PROVE  \E x \in S : \A y \in S : y <= x
<1> DEFINE T == {n - y : y \in S}
<1>1. T \in SUBSET Nat /\ T # {}
  <2>1. \A y \in S : y \in 0 .. n /\ n - y \in Nat
    OBVIOUS
  <2> QED
    BY <2>1
<1>2. \A y \in S : n - y \in T
  OBVIOUS
<1>3. \A z \in T : \E y \in S : z = n - y
  OBVIOUS
<1> HIDE DEF T
<1>4. PICK z \in T : \A y \in T : z <= y
  BY <1>1, LeastOf
<1>5. PICK x \in S : z = n - x
  BY <1>3
<1>6. \A y \in S : y <= x
  BY <1>2, <1>4, <1>5
<1> QED
  BY <1>6

-----------------------------------------------------------------------------
(* Merging, and the parameters of a path *)

\* Entries of the second array replace those of the first.
LEMMA MergeAt ==
  ASSUME NEW f, NEW g
  PROVE  /\ DOMAIN Merge(f, g) = DOMAIN f \cup DOMAIN g
         /\ \A k \in DOMAIN g : Merge(f, g)[k] = g[k]
         /\ \A k \in DOMAIN f \ DOMAIN g : Merge(f, g)[k] = f[k]
BY DEF Merge

\* The pair among the first n of s that gives key k its value.
IsLastPair(s, n, k, i) ==
  i \in 1 .. n /\ s[2 * i - 1] = k /\ \A m \in 1 .. n : s[2 * m - 1] = k => m <= i

LastPair(s, n, k) == CHOOSE i \in 1 .. n :
  s[2 * i - 1] = k /\ \A m \in 1 .. n : s[2 * m - 1] = k => m <= i

KeysOf(s, n) == {s[2 * i - 1] : i \in 1 .. n}

MeaningOf(s, n) == [k \in KeysOf(s, n) |-> PairValue(s, LastPair(s, n, k))]

\* Every key has a last occurrence.
LEMMA LastPairIs ==
  ASSUME NEW s, NEW n \in Nat, NEW k \in KeysOf(s, n)
  PROVE  IsLastPair(s, n, k, LastPair(s, n, k))
<1> DEFINE S == {i \in 1 .. n : s[2 * i - 1] = k}
<1>1. S \in SUBSET (0 .. n) /\ S # {}
  BY DEF KeysOf
<1>2. \A i : i \in S <=> i \in 1 .. n /\ s[2 * i - 1] = k
  OBVIOUS
<1> HIDE DEF S
<1>3. PICK i \in S : \A m \in S : m <= i
  BY <1>1, GreatestOf
<1>4. \E j \in 1 .. n : s[2 * j - 1] = k /\ \A m \in 1 .. n : s[2 * m - 1] = k => m <= j
  BY <1>2, <1>3
<1> QED
  BY <1>4 DEF LastPair, IsLastPair

\* It has only one.
LEMMA LastPairOnly ==
  ASSUME NEW s, NEW n \in Nat, NEW k, NEW i, IsLastPair(s, n, k, i)
  PROVE  LastPair(s, n, k) = i
<1>1. k \in KeysOf(s, n)
  BY DEF KeysOf, IsLastPair
<1>2. IsLastPair(s, n, k, LastPair(s, n, k))
  BY <1>1, LastPairIs
<1> QED
  BY <1>2 DEF IsLastPair

\* One more pair is merged over what the pairs before it mean.
LEMMA MeaningOfStep ==
  ASSUME NEW s, NEW n \in Nat, n # 0
  PROVE  MeaningOf(s, n) = Merge(MeaningOf(s, n - 1), [k \in {s[2 * n - 1]} |-> PairValue(s, n)])
<1> DEFINE key == s[2 * n - 1]
           one == [k \in {key} |-> PairValue(s, n)]
           f == MeaningOf(s, n - 1)
<1>0. n - 1 \in Nat /\ 1 .. n = (1 .. n - 1) \cup {n}
  OBVIOUS
<1>1. KeysOf(s, n) = KeysOf(s, n - 1) \cup {key}
  BY <1>0 DEF KeysOf
<1>2. DOMAIN f = KeysOf(s, n - 1) /\ DOMAIN one = {key}
  BY DEF MeaningOf
<1>3. ASSUME NEW k \in KeysOf(s, n)
      PROVE  PairValue(s, LastPair(s, n, k)) = IF k \in DOMAIN one THEN one[k] ELSE f[k]
  <2>1. CASE k = key
    <3>1. IsLastPair(s, n, k, n)
      BY <2>1 DEF IsLastPair
    <3> QED
      BY <2>1, <3>1, LastPairOnly
  <2>2. CASE k # key
    <3>1. k \in KeysOf(s, n - 1)
      BY <1>1, <2>2
    <3> DEFINE j == LastPair(s, n - 1, k)
    <3>2. IsLastPair(s, n - 1, k, j)
      BY <1>0, <3>1, LastPairIs
    <3> HIDE DEF j
    <3>3. IsLastPair(s, n, k, j)
      BY <1>0, <2>2, <3>2 DEF IsLastPair
    <3>4. LastPair(s, n, k) = j
      BY <3>3, LastPairOnly
    <3>5. f[k] = PairValue(s, j)
      BY <3>1 DEF MeaningOf, j
    <3> QED
      BY <1>2, <2>2, <3>4, <3>5
  <2> QED
    BY <2>1, <2>2
<1>4. MeaningOf(s, n) = [k \in KeysOf(s, n) |-> IF k \in DOMAIN one THEN one[k] ELSE f[k]]
  BY <1>3, Zenon DEF MeaningOf
<1>5. KeysOf(s, n) = DOMAIN f \cup DOMAIN one
  BY <1>1, <1>2
<1> QED
  BY <1>4, <1>5, Zenon DEF Merge

\* The loop of yaf_router_parse_parameters, for every path: the last value given
\* to each key stays.
THEOREM LastValuesStay ==
  ASSUME NEW S, NEW s \in Seq(S)
  PROVE  ParseParameters(s) = ParametersMeaning(s)
<1> DEFINE top == PairCount(s)
           F(h) == [n \in 0 .. PairCount(s) |->
                      IF n = 0 THEN NoParams
                      ELSE Merge(h[n - 1], [k \in {s[2 * n - 1]} |-> PairValue(s, n)])]
           f == CHOOSE h : h = F(h)
           g == [n \in 0 .. top |-> MeaningOf(s, n)]
<1>0. top \in Nat
  <2>1. Len(s) \in Nat
    BY LenProperties
  <2> QED
    BY <2>1 DEF PairCount
<1>1. MeaningOf(s, 0) = NoParams
  BY DEF MeaningOf, KeysOf, NoParams
<1>2. ASSUME NEW n \in 0 .. top
      PROVE  g[n] = IF n = 0 THEN NoParams
                    ELSE Merge(g[n - 1], [k \in {s[2 * n - 1]} |-> PairValue(s, n)])
  <2>1. CASE n = 0
    BY <1>1, <2>1
  <2>2. CASE n # 0
    <3>1. n - 1 \in 0 .. top /\ n \in Nat
      BY <1>0, <2>2
    <3>2. g[n] = MeaningOf(s, n) /\ g[n - 1] = MeaningOf(s, n - 1)
      BY <3>1
    <3> HIDE DEF g
    <3> QED
      BY <2>2, <3>1, <3>2, MeaningOfStep
  <2> QED
    BY <2>1, <2>2
<1>3. g = F(g)
  <2>1. F(g) = [n \in 0 .. top |-> g[n]]
    <3> HIDE DEF g
    <3> QED
      BY <1>2, Zenon
  <2> QED
    BY <2>1
<1>4. f = F(f)
  <2> HIDE DEF g
  <2> QED
    BY <1>3
<1>5. ParseParameters(s) = f[top]
  BY DEF ParseParameters
<1> HIDE DEF f
<1>6. ASSUME NEW n \in 0 .. top
      PROVE  f[n] = IF n = 0 THEN NoParams
                    ELSE Merge(f[n - 1], [k \in {s[2 * n - 1]} |-> PairValue(s, n)])
  BY <1>4
<1> HIDE DEF top, g
<1> DEFINE Bad == {n \in 0 .. top : f[n] # g[n]}
<1>7. Bad = {}
  <2> SUFFICES ASSUME Bad # {} PROVE FALSE
    OBVIOUS
  <2>1. PICK n \in Bad : \A m \in Bad : n <= m
    <3>1. Bad \in SUBSET Nat
      BY <1>0
    <3> HIDE DEF Bad
    <3> QED
      BY <3>1, LeastOf
  <2>2. n \in 0 .. top /\ f[n] # g[n]
    OBVIOUS
  <2>3. n # 0
    BY <1>2, <1>6, <2>2
  <2>4. n - 1 \in 0 .. top /\ ~(n <= n - 1)
    BY <1>0, <2>2, <2>3
  <2>5. f[n - 1] = g[n - 1]
    BY <2>1, <2>4
  <2>6. f[n] = g[n]
    BY <1>2, <1>6, <2>2, <2>3, <2>5
  <2> QED
    BY <2>2, <2>6
<1>8. f[top] = g[top]
  BY <1>0, <1>7
<1>9. g[top] = MeaningOf(s, top)
  BY <1>0 DEF g
<1>10. MeaningOf(s, top) = ParametersMeaning(s)
  BY Zenon DEF MeaningOf, KeysOf, LastPair, ParametersMeaning, top
<1> QED
  BY <1>5, <1>8, <1>9, <1>10

-----------------------------------------------------------------------------
(* Key, value, key, value ... *)

\* The variables of f in the order in which Pairs lists them, and what it lists
\* for the first n.
PairOf(e, f, j) == IF j % 2 = 1 THEN e[(j + 1) \div 2] ELSE f[e[j \div 2]]

PairsUpTo(e, f, n) == [j \in 1 .. 2 * n |-> PairOf(e, f, j)]

Enumerates(e, f) ==
  /\ e \in [1 .. Cardinality(DOMAIN f) -> DOMAIN f]
  /\ \A i, j \in 1 .. Cardinality(DOMAIN f) : e[i] = e[j] => i = j
  /\ \A k \in DOMAIN f : \E i \in 1 .. Cardinality(DOMAIN f) : e[i] = k

\* SetToSeq lists every variable of f once.
LEMMA InfoEnumerated ==
  ASSUME NEW f, IsFiniteSet(DOMAIN f)
  PROVE  Cardinality(DOMAIN f) \in Nat /\ Enumerates(SetToSeq(DOMAIN f), f)
<1> DEFINE D == DOMAIN f
           n == Cardinality(D)
           e == SetToSeq(D)
<1>1. n \in Nat /\ ExistsBijection(1 .. n, D)
  BY FS_CardinalityType
<1>2. \E h \in [1 .. n -> D] : IsInjective(h)
  BY <1>1 DEF ExistsBijection, Bijection, Injection, IsInjective
<1>3. e \in [1 .. n -> D] /\ IsInjective(e)
  BY <1>2 DEF SetToSeq
<1> HIDE DEF e
<1>4. e \in Injection(1 .. n, D)
  BY <1>3 DEF Injection, IsInjective
<1>5. Cardinality(1 .. n) = n
  BY <1>1, FS_Interval
<1>6. e \in Surjection(1 .. n, D)
  BY <1>4, <1>5, FS_Injection
<1>7. \A i, j \in 1 .. n : e[i] = e[j] => i = j
  BY <1>3 DEF IsInjective
<1>8. \A k \in D : \E i \in 1 .. n : e[i] = k
  BY <1>6 DEF Surjection
<1> QED
  BY <1>1, <1>3, <1>7, <1>8 DEF Enumerates, e

PairsIn(e, f, n, S) == \A i \in 1 .. n : e[i] \in S /\ f[e[i]] \in S

\* One more pair is appended to the pairs before it.
LEMMA PairsUpToStep ==
  ASSUME NEW S, NEW e, NEW f, NEW n \in Nat, n # 0, PairsIn(e, f, n, S)
  PROVE  /\ PairsUpTo(e, f, n) \in Seq(S)
         /\ PairsUpTo(e, f, n - 1) \in Seq(S)
         /\ PairsUpTo(e, f, n) = PairsUpTo(e, f, n - 1) \o <<e[n], f[e[n]]>>
<1> DEFINE a == PairsUpTo(e, f, n)
           b == PairsUpTo(e, f, n - 1)
           c == <<e[n], f[e[n]]>>
<1>0. \A i \in 1 .. n : e[i] \in S /\ f[e[i]] \in S
  BY DEF PairsIn
<1>1. ASSUME NEW j \in 1 .. 2 * n PROVE PairOf(e, f, j) \in S
  <2>1. CASE j % 2 = 1
    <3>1. (j + 1) \div 2 \in 1 .. n
      BY <2>1
    <3> QED
      BY <1>0, <2>1, <3>1 DEF PairOf
  <2>2. CASE j % 2 # 1
    <3>1. j \div 2 \in 1 .. n
      BY <2>2
    <3> QED
      BY <1>0, <2>2, <3>1 DEF PairOf
  <2> QED
    BY <2>1, <2>2
<1>2. a \in Seq(S) /\ Len(a) = 2 * n /\ \A j \in 1 .. 2 * n : a[j] = PairOf(e, f, j)
  <2>1. 2 * n \in Nat
    OBVIOUS
  <2> QED
    BY <1>1, <2>1 DEF PairsUpTo
<1>3. b \in Seq(S) /\ Len(b) = 2 * n - 2 /\ \A j \in 1 .. 2 * n - 2 : b[j] = PairOf(e, f, j)
  <2>1. 2 * (n - 1) \in Nat /\ 2 * (n - 1) = 2 * n - 2 /\ \A j \in 1 .. 2 * n - 2 : j \in 1 .. 2 * n
    OBVIOUS
  <2> QED
    BY <1>1, <2>1 DEF PairsUpTo
<1>4. c \in Seq(S) /\ Len(c) = 2 /\ c[1] = e[n] /\ c[2] = f[e[n]]
  <2>1. e[n] \in S /\ f[e[n]] \in S
    BY <1>0
  <2> QED
    BY <2>1
<1>5. PairOf(e, f, 2 * n - 1) = e[n] /\ PairOf(e, f, 2 * n) = f[e[n]]
  <2>1. (2 * n - 1) % 2 = 1 /\ (2 * n - 1 + 1) \div 2 = n /\ (2 * n) % 2 = 0 /\ (2 * n) \div 2 = n
    OBVIOUS
  <2> QED
    BY <2>1 DEF PairOf
<1> HIDE DEF a, b, c
<1>9. /\ b \o c \in Seq(S) /\ Len(b \o c) = Len(b) + Len(c)
      /\ \A j \in 1 .. Len(b) + Len(c) : (b \o c)[j] =
           IF j <= Len(b) THEN b[j] ELSE c[j - Len(b)]
  <2>1. b \in Seq(S) /\ c \in Seq(S)
    BY <1>3, <1>4
  <2> QED
    BY <2>1, ConcatProperties, Zenon
<1>10. Len(b) + Len(c) = 2 * n
  BY <1>3, <1>4
<1>6. b \o c \in Seq(S) /\ Len(b \o c) = 2 * n
  BY <1>9, <1>10
<1>7. ASSUME NEW j \in 1 .. 2 * n PROVE a[j] = (b \o c)[j]
  <2>1. (b \o c)[j] = IF j <= 2 * n - 2 THEN b[j] ELSE c[j - (2 * n - 2)]
    BY <1>3, <1>9, <1>10
  <2>2. CASE j <= 2 * n - 2
    BY <1>2, <1>3, <2>1, <2>2
  <2>3. CASE j = 2 * n - 1
    BY <1>2, <1>4, <1>5, <2>1, <2>3
  <2>4. CASE j = 2 * n
    BY <1>2, <1>4, <1>5, <2>1, <2>4
  <2>5. j <= 2 * n - 2 \/ j = 2 * n - 1 \/ j = 2 * n
    OBVIOUS
  <2> QED
    BY <2>2, <2>3, <2>4, <2>5
<1>8. a = b \o c
  BY <1>2, <1>6, <1>7, SeqEqual
<1> QED
  BY <1>2, <1>3, <1>8 DEF a, b, c

\* Pairs is key, value, key, value ... of the enumeration SetToSeq chooses.
LEMMA PairsShape ==
  ASSUME NEW S, NEW f, IsFiniteSet(DOMAIN f), \A k \in DOMAIN f : k \in S /\ f[k] \in S
  PROVE  Pairs(f) = PairsUpTo(SetToSeq(DOMAIN f), f, Cardinality(DOMAIN f))
<1> DEFINE D == DOMAIN f
           n == Cardinality(D)
           e == SetToSeq(D)
           s == [i \in 1 .. n |-> <<e[i], f[e[i]]>>]
           F(h) == [i \in 1 .. Len(s) |-> IF i = 1 THEN s[i] ELSE h[i - 1] \o s[i]]
           g == [i \in 1 .. n |-> PairsUpTo(e, f, i)]
           h0 == CHOOSE h : h = F(h)
<1>1. n \in Nat /\ Enumerates(e, f)
  BY InfoEnumerated
<1>2. ASSUME NEW i \in 1 .. n PROVE e[i] \in S /\ f[e[i]] \in S
  BY <1>1 DEF Enumerates
<1>3. Pairs(f) = FlattenSeq(s)
  BY DEF Pairs
<1>4. Len(s) = n
  BY <1>1
<1> HIDE DEF n, e
<1>5. CASE n = 0
  <2>1. s = <<>>
    BY <1>5
  <2>2. FlattenSeq(s) = s
    BY <1>4, <1>5, Zenon DEF FlattenSeq
  <2>3. PairsUpTo(e, f, n) = <<>>
    <3>1. 1 .. 2 * n = {}
      BY <1>5
    <3> QED
      BY <3>1 DEF PairsUpTo
  <2> QED
    BY <1>3, <2>1, <2>2, <2>3 DEF n, e
<1>6. CASE n # 0
  <2>1. FlattenSeq(s) = h0[n]
    BY <1>4, <1>6 DEF FlattenSeq
  <2>2. ASSUME NEW i \in 1 .. n
        PROVE  g[i] = IF i = 1 THEN s[i] ELSE g[i - 1] \o s[i]
    <3>1. g[i] = PairsUpTo(e, f, i) /\ s[i] = <<e[i], f[e[i]]>>
      OBVIOUS
    <3>2. PairsUpTo(e, f, i) = PairsUpTo(e, f, i - 1) \o <<e[i], f[e[i]]>>
      <4>1. i \in Nat /\ i # 0 /\ \A j \in 1 .. i : j \in 1 .. n
        BY <1>1
      <4>2. PairsIn(e, f, i, S)
        BY <1>2, <4>1 DEF PairsIn
      <4>3. /\ PairsUpTo(e, f, i) \in Seq(S)
            /\ PairsUpTo(e, f, i - 1) \in Seq(S)
            /\ PairsUpTo(e, f, i) = PairsUpTo(e, f, i - 1) \o <<e[i], f[e[i]]>>
        BY <4>1, <4>2, PairsUpToStep
      <4> QED
        BY <4>3
    <3>3. CASE i = 1
      <4>1. PairsUpTo(e, f, 0) = <<>>
        <5>1. 1 .. 2 * 0 = {}
          OBVIOUS
        <5> QED
          BY <5>1 DEF PairsUpTo
      <4>2. <<>> \o <<e[1], f[e[1]]>> = <<e[1], f[e[1]]>>
        BY <1>2, <3>3
      <4> QED
        BY <3>1, <3>2, <3>3, <4>1, <4>2
    <3>4. CASE i # 1
      <4>1. i - 1 \in 1 .. n
        BY <1>1, <3>4
      <4>2. g[i - 1] = PairsUpTo(e, f, i - 1)
        BY <4>1
      <4> QED
        BY <3>1, <3>2, <3>4, <4>2
    <3> QED
      BY <3>3, <3>4
  <2> HIDE DEF s
  <2>3. g = F(g)
    <3>1. F(g) = [i \in 1 .. n |-> g[i]]
      <4> HIDE DEF g
      <4> QED
        BY <1>4, <2>2, Zenon
    <3> QED
      BY <3>1
  <2>4. h0 = F(h0)
    <3> HIDE DEF g
    <3> QED
      BY <2>3
  <2> HIDE DEF h0
  <2>5. ASSUME NEW i \in 1 .. n
        PROVE  h0[i] = IF i = 1 THEN s[i] ELSE h0[i - 1] \o s[i]
    BY <1>4, <2>4
  <2> HIDE DEF g
  <2> DEFINE Bad == {i \in 1 .. n : h0[i] # g[i]}
  <2>6. Bad = {}
    <3> SUFFICES ASSUME Bad # {} PROVE FALSE
      OBVIOUS
    <3>1. PICK i \in Bad : \A j \in Bad : i <= j
      <4>1. Bad \in SUBSET Nat
        BY <1>1
      <4> HIDE DEF Bad
      <4> QED
        BY <4>1, LeastOf
    <3>2. i \in 1 .. n /\ h0[i] # g[i]
      OBVIOUS
    <3>3. i # 1
      BY <2>2, <2>5, <3>2
    <3>4. i - 1 \in 1 .. n /\ ~(i <= i - 1)
      BY <1>1, <3>2, <3>3
    <3>5. h0[i - 1] = g[i - 1]
      BY <3>1, <3>4
    <3>6. h0[i] = g[i]
      BY <2>2, <2>5, <3>2, <3>3, <3>5
    <3> QED
      BY <3>2, <3>6
  <2>7. h0[n] = g[n] /\ g[n] = PairsUpTo(e, f, n)
    <3>1. n \in 1 .. n
      BY <1>1, <1>6
    <3> QED
      BY <2>6, <3>1 DEF g
  <2> QED
    BY <1>3, <2>1, <2>7 DEF n, e
<1> QED
  BY <1>5, <1>6

\* For every array of strings: what assemble() appends to a path, key after value,
\* yaf_router_parse_parameters reads back as the same array.
THEOREM PairsParsed ==
  ASSUME NEW S, NEW f, IsFiniteSet(DOMAIN f), \A k \in DOMAIN f : k \in S /\ f[k] \in S
  PROVE  /\ Pairs(f) \in Seq(S)
         /\ DOMAIN ParseParameters(Pairs(f)) = DOMAIN f
         /\ \A k \in DOMAIN f : ParseParameters(Pairs(f))[k] = f[k]
<1> DEFINE n == Cardinality(DOMAIN f)
           e == SetToSeq(DOMAIN f)
           s == Pairs(f)
<1>1. n \in Nat /\ Enumerates(e, f)
  BY InfoEnumerated
<1>2. \A i \in 1 .. n : e[i] \in S /\ f[e[i]] \in S
  BY <1>1 DEF Enumerates
<1>3. s = PairsUpTo(e, f, n)
  BY PairsShape
<1> HIDE DEF n, e, s
<1>4. s \in Seq(S) /\ Len(s) = 2 * n
  <2>1. CASE n = 0
    <3>1. 1 .. 2 * n = {}
      BY <2>1
    <3>2. s = <<>>
      BY <1>3, <3>1 DEF PairsUpTo
    <3> QED
      BY <2>1, <3>2
  <2>2. CASE n # 0
    <3>1. s \in Seq(S)
      BY <1>1, <1>2, <1>3, <2>2, PairsUpToStep DEF PairsIn
    <3>2. DOMAIN s = 1 .. 2 * n
      BY <1>3 DEF PairsUpTo
    <3> QED
      BY <1>1, <3>1, <3>2, LenProperties
  <2> QED
    BY <2>1, <2>2
<1>5. PairCount(s) = n
  BY <1>1, <1>4 DEF PairCount
<1>6. ASSUME NEW i \in 1 .. n PROVE s[2 * i - 1] = e[i] /\ PairValue(s, i) = f[e[i]]
  <2>1. 2 * i - 1 \in 1 .. 2 * n /\ 2 * i \in 1 .. 2 * n /\ 2 * i <= 2 * n
    BY <1>1
  <2>2. (2 * i - 1) % 2 = 1 /\ (2 * i - 1 + 1) \div 2 = i /\ (2 * i) % 2 = 0 /\ (2 * i) \div 2 = i
    BY <1>1
  <2>3. s[2 * i - 1] = e[i] /\ s[2 * i] = f[e[i]]
    BY <1>3, <2>1, <2>2 DEF PairsUpTo, PairOf
  <2> QED
    BY <1>4, <2>1, <2>3 DEF PairValue
<1>7. ParseParameters(s) = MeaningOf(s, n)
  <2>1. ParseParameters(s) = ParametersMeaning(s)
    BY <1>4, LastValuesStay
  <2>2. ParametersMeaning(s) = MeaningOf(s, PairCount(s))
    BY Zenon DEF MeaningOf, KeysOf, LastPair, ParametersMeaning
  <2> QED
    BY <1>5, <2>1, <2>2
<1>8. KeysOf(s, n) = DOMAIN f
  <2>1. KeysOf(s, n) = {e[i] : i \in 1 .. n}
    BY <1>6 DEF KeysOf
  <2>2. /\ \A i \in 1 .. n : e[i] \in DOMAIN f
        /\ \A k \in DOMAIN f : \E i \in 1 .. n : e[i] = k
    BY <1>1 DEF Enumerates, n
  <2> QED
    BY <2>1, <2>2
<1>9. ASSUME NEW k \in DOMAIN f PROVE MeaningOf(s, n)[k] = f[k]
  <2> DEFINE i == LastPair(s, n, k)
  <2>1. IsLastPair(s, n, k, i)
    BY <1>1, <1>8, LastPairIs
  <2>2. MeaningOf(s, n)[k] = PairValue(s, i)
    BY <1>8 DEF MeaningOf
  <2> HIDE DEF i
  <2>3. i \in 1 .. n /\ e[i] = k
    BY <1>6, <2>1 DEF IsLastPair
  <2> QED
    BY <1>6, <2>2, <2>3
<1>10. DOMAIN MeaningOf(s, n) = KeysOf(s, n)
  BY DEF MeaningOf
<1> QED
  BY <1>4, <1>7, <1>8, <1>9, <1>10 DEF s

Value == Segs \cup {Null}

IsArgs(f) == \A k \in DOMAIN f : f[k] \in Value

\* Parameters are segments, or null for a key without a value.
LEMMA ParametersTyped ==
  ASSUME NEW s \in Seq(Segs)
  PROVE  IsArgs(ParseParameters(s))
<1>1. Len(s) \in Nat /\ \A i \in 1 .. Len(s) : s[i] \in Segs
  OBVIOUS
<1> DEFINE n == PairCount(s)
<1>2. n \in Nat
  BY <1>1 DEF PairCount
<1>3. \A i \in 1 .. n : PairValue(s, i) \in Value
  BY <1>1, <1>2 DEF PairValue, Value
<1>4. ParseParameters(s) = MeaningOf(s, n)
  <2>1. ParseParameters(s) = ParametersMeaning(s)
    BY LastValuesStay
  <2>2. ParametersMeaning(s) = MeaningOf(s, n)
    BY Zenon DEF MeaningOf, KeysOf, LastPair, ParametersMeaning
  <2> QED
    BY <2>1, <2>2
<1> HIDE DEF n
<1>5. ASSUME NEW k \in KeysOf(s, n) PROVE MeaningOf(s, n)[k] \in Value
  <2>1. LastPair(s, n, k) \in 1 .. n
    BY <1>2, LastPairIs DEF IsLastPair
  <2> QED
    BY <1>3, <2>1 DEF MeaningOf
<1>6. DOMAIN MeaningOf(s, n) = KeysOf(s, n)
  BY DEF MeaningOf
<1> QED
  BY <1>4, <1>5, <1>6 DEF IsArgs

\* Merging keeps the type of parameters.
LEMMA MergeArgs ==
  ASSUME NEW f, NEW g, IsArgs(f), IsArgs(g)
  PROVE  IsArgs(Merge(f, g))
<1>1. /\ \A k \in DOMAIN Merge(f, g) : k \in DOMAIN g \/ k \in DOMAIN f \ DOMAIN g
      /\ \A k \in DOMAIN g : Merge(f, g)[k] = g[k]
      /\ \A k \in DOMAIN f \ DOMAIN g : Merge(f, g)[k] = f[k]
  BY DEF Merge
<1>2. ASSUME NEW k \in DOMAIN Merge(f, g) PROVE Merge(f, g)[k] \in Value
  <2>1. CASE k \in DOMAIN g
    <3>1. Merge(f, g)[k] = g[k]
      BY <1>1, <2>1
    <3> QED
      BY <2>1, <3>1 DEF IsArgs
  <2>2. CASE k \in DOMAIN f \ DOMAIN g
    <3>1. Merge(f, g)[k] = f[k]
      BY <1>1, <2>2
    <3> QED
      BY <2>2, <3>1 DEF IsArgs
  <2> QED
    BY <1>1, <2>1, <2>2
<1> QED
  BY <1>2 DEF IsArgs

-----------------------------------------------------------------------------
(* Patterns *)

\* RestAt is the end of the literals and variables of a pattern.
LEMMA RestAtIs ==
  ASSUME NEW pat, IsPattern(pat)
  PROVE  /\ Len(pat) \in Nat
         /\ RestAt(pat) \in 1 .. Len(pat) + 1
         /\ \A i \in 1 .. RestAt(pat) - 1 :
              /\ i \in 1 .. Len(pat)
              /\ pat[i].t \in {"lit", "var"}
              /\ pat[i].t = "lit" => pat[i].v \in Segs
<1> DEFINE S == {i \in 1 .. Len(pat) : pat[i].t = "rest"}
<1>1. Len(pat) \in Nat /\ DOMAIN pat = 1 .. Len(pat)
  BY LenProperties DEF IsPattern
<1>4. \A i \in 1 .. Len(pat) : i \notin S => pat[i].t \in {"lit", "var"}
  <2>1. \A i \in 1 .. Len(pat) : pat[i].t \in {"lit", "var", "rest"}
    BY <1>1 DEF IsPattern
  <2>2. \A i \in 1 .. Len(pat) : i \notin S => pat[i].t # "rest"
    OBVIOUS
  <2> HIDE DEF S
  <2> QED
    BY <2>1, <2>2
<1>5. \A i \in 1 .. Len(pat) : pat[i].t = "lit" => pat[i].v \in Segs
  BY <1>1 DEF IsPattern
<1>2. CASE S = {}
  <2>1. RestAt(pat) = Len(pat) + 1
    BY <1>2 DEF RestAt
  <2>2. \A i \in 1 .. RestAt(pat) - 1 : i \in 1 .. Len(pat) /\ i \notin S
    BY <1>1, <1>2, <2>1
  <2> HIDE DEF S
  <2>3. RestAt(pat) \in 1 .. Len(pat) + 1
    BY <1>1, <2>1
  <2>4. ASSUME NEW i \in 1 .. RestAt(pat) - 1
        PROVE  /\ i \in 1 .. Len(pat)
               /\ pat[i].t \in {"lit", "var"}
               /\ pat[i].t = "lit" => pat[i].v \in Segs
    <3>1. i \in 1 .. Len(pat) /\ i \notin S
      BY <2>2
    <3> QED
      BY <1>4, <1>5, <3>1
  <2> QED
    BY <1>1, <2>3, <2>4
<1>3. CASE S # {}
  <2>1. \E i \in S : \A j \in S : i <= j
    <3>1. S \in SUBSET Nat
      BY <1>1
    <3> HIDE DEF S
    <3> QED
      BY <1>3, <3>1, LeastOf
  <2>2. RestAt(pat) \in S /\ \A j \in S : RestAt(pat) <= j
    BY <1>3, <2>1 DEF RestAt
  <2>3. \A i \in 1 .. RestAt(pat) - 1 : i \in 1 .. Len(pat) /\ i \notin S
    BY <1>1, <2>2
  <2>4. RestAt(pat) \in 1 .. Len(pat) + 1
    BY <1>1, <2>2
  <2> HIDE DEF S
  <2>5. ASSUME NEW i \in 1 .. RestAt(pat) - 1
        PROVE  /\ i \in 1 .. Len(pat)
               /\ pat[i].t \in {"lit", "var"}
               /\ pat[i].t = "lit" => pat[i].v \in Segs
    <3>1. i \in 1 .. Len(pat) /\ i \notin S
      BY <2>3
    <3> QED
      BY <1>4, <1>5, <3>1
  <2> QED
    BY <1>1, <2>4, <2>5
<1> QED
  BY <1>2, <1>3

\* The variables of the pattern are in info.
Fills(info, pat) == \A i \in VarPlaces(pat) : info[pat[i].v] \in Segs

\* What Filled puts in the places of a pattern.
LEMMA FilledIs ==
  ASSUME NEW pat, IsPattern(pat), NEW info, Fills(info, pat)
  PROVE  /\ Filled(pat, info) \in Seq(Segs)
         /\ Len(Filled(pat, info)) = RestAt(pat) - 1
         /\ \A i \in VarPlaces(pat) : i \in 1 .. RestAt(pat) - 1
              /\ Filled(pat, info)[i] = info[pat[i].v]
<1> DEFINE n == RestAt(pat) - 1
           e(i) == IF pat[i].t = "var" THEN info[pat[i].v] ELSE pat[i].v
<1>1. n \in Nat
  BY RestAtIs
<1>2. \A i \in 1 .. n : e(i) \in Segs
  BY RestAtIs DEF Fills, VarPlaces
<1>3. Filled(pat, info) = [i \in 1 .. n |-> e(i)]
  BY DEF Filled
<1> HIDE DEF n
<1>4. Filled(pat, info) \in Seq(Segs) /\ Len(Filled(pat, info)) = n
  BY <1>1, <1>2, <1>3
<1>5. \A i \in VarPlaces(pat) : i \in 1 .. n /\ pat[i].t = "var"
  BY DEF VarPlaces, n
<1> QED
  BY <1>3, <1>4, <1>5 DEF n

\* The groups of a URI that a pattern matches are segments of it.
LEMMA GroupsAreSegments ==
  ASSUME NEW pat, IsPattern(pat), NEW u \in Uri, PcreMatches(pat, u)
  PROVE  \A i \in VarPlaces(pat) : i \in 1 .. Len(u.path) /\ u.path[i] \in Segs
<1>1. u.path \in Seq(Segs)
  BY DEF Uri
<1>2. \A i \in 1 .. RestAt(pat) - 1 : i <= Len(u.path)
  BY DEF PcreMatches, MatchesAt
<1>3. \A i \in VarPlaces(pat) : i \in 1 .. RestAt(pat) - 1 /\ i \in Nat /\ i >= 1
  BY RestAtIs DEF VarPlaces
<1> QED
  BY <1>1, <1>2, <1>3

\* The arguments of a rewrite route are parameters.
LEMMA RewriteArgsTyped ==
  ASSUME NEW pat, IsPattern(pat), NEW u \in Uri, PcreMatches(pat, u)
  PROVE  IsArgs(RewriteArgs(pat, u))
<1> DEFINE names == {pat[i].v : i \in VarPlaces(pat)}
           named == [v \in names |-> u.path[CHOOSE i \in VarPlaces(pat) : pat[i].v = v]]
           rest == SubSeq(u.path, RestAt(pat), Len(u.path))
<1>1. IsArgs(named)
  <2>1. ASSUME NEW v \in names PROVE named[v] \in Value
    <3> DEFINE j == CHOOSE i \in VarPlaces(pat) : pat[i].v = v
    <3>1. j \in VarPlaces(pat)
      OBVIOUS
    <3>2. named[v] = u.path[j]
      OBVIOUS
    <3> HIDE DEF j, named, names
    <3> QED
      BY <3>1, <3>2, GroupsAreSegments DEF Value
  <2>2. DOMAIN named = names
    OBVIOUS
  <2> HIDE DEF named, names
  <2> QED
    BY <2>1, <2>2 DEF IsArgs
<1>2. rest \in Seq(Segs)
  <2>1. u.path \in Seq(Segs) /\ Len(u.path) \in Nat /\ RestAt(pat) \in Nat /\ RestAt(pat) >= 1
    BY RestAtIs DEF Uri
  <2>2. \A i \in RestAt(pat) .. Len(u.path) : u.path[i] \in Segs
    BY <2>1
  <2> QED
    BY <2>1, <2>2, SubSeqProperties
<1>3. RewriteArgs(pat, u) = named \/ RewriteArgs(pat, u) = Merge(named, ParseParameters(rest))
  BY Zenon DEF RewriteArgs
<1> HIDE DEF named, rest
<1> QED
  BY <1>1, <1>2, <1>3, ParametersTyped, MergeArgs

\* The last of the groups that share a name.
LastMapped(pat, map, v) == CHOOSE i \in Mapped(pat, map) :
  MapName(pat, map, i) = v /\ \A j \in Mapped(pat, map) : MapName(pat, map, j) = v => j <= i

\* args holds the last segment of path mapped to each name.
IsLastSegments(args, pat, map, path) ==
  /\ DOMAIN args = {MapName(pat, map, i) : i \in Mapped(pat, map)}
  /\ \A v \in DOMAIN args :
       /\ LastMapped(pat, map, v) \in Mapped(pat, map)
       /\ MapName(pat, map, LastMapped(pat, map, v)) = v
       /\ args[v] = path[LastMapped(pat, map, v)]

\* RegexArgs takes the last group of each name.
LEMMA RegexArgsAre ==
  ASSUME NEW pat, IsPattern(pat), NEW map, NEW u
  PROVE  IsLastSegments(RegexArgs(pat, map, u), pat, map, u.path)
<1> DEFINE names == {MapName(pat, map, i) : i \in Mapped(pat, map)}
<1>1. RegexArgs(pat, map, u) = [v \in names |-> u.path[LastMapped(pat, map, v)]]
  BY Zenon DEF RegexArgs, Mapped, MapName, LastMapped
<1>2. ASSUME NEW v \in names
      PROVE  LastMapped(pat, map, v) \in Mapped(pat, map) /\ MapName(pat, map, LastMapped(pat, map, v)) = v
  <2> DEFINE S == {i \in Mapped(pat, map) : MapName(pat, map, i) = v}
  <2>1. S # {}
    OBVIOUS
  <2>2. S \in SUBSET (0 .. Len(pat)) /\ Len(pat) \in Nat
    <3>1. Len(pat) \in Nat /\ \A i \in 1 .. RestAt(pat) - 1 : i \in 0 .. Len(pat)
      BY RestAtIs
    <3> QED
      BY <3>1 DEF Mapped, VarPlaces
  <2>3. \A i : i \in S <=> i \in Mapped(pat, map) /\ MapName(pat, map, i) = v
    OBVIOUS
  <2> HIDE DEF S
  <2>4. PICK i \in S : \A j \in S : j <= i
    BY <2>1, <2>2, GreatestOf
  <2>5. \E j \in Mapped(pat, map) : /\ MapName(pat, map, j) = v
          /\ \A k \in Mapped(pat, map) : MapName(pat, map, k) = v => k <= j
    BY <2>3, <2>4
  <2> QED
    BY <2>5, Zenon DEF LastMapped
<1> HIDE DEF names
<1>3. DOMAIN RegexArgs(pat, map, u) = names
  BY <1>1
<1>4. \A v \in names : RegexArgs(pat, map, u)[v] = u.path[LastMapped(pat, map, v)]
  BY <1>1
<1> QED
  BY <1>2, <1>3, <1>4 DEF names, IsLastSegments

\* The arguments of a regex route are parameters.
LEMMA RegexArgsTyped ==
  ASSUME NEW pat, IsPattern(pat), NEW map, NEW u \in Uri, PcreMatches(pat, u)
  PROVE  IsArgs(RegexArgs(pat, map, u))
<1>1. Mapped(pat, map) \subseteq VarPlaces(pat)
  BY DEF Mapped
<1>2. \A i \in VarPlaces(pat) : u.path[i] \in Segs
  BY GroupsAreSegments
<1> DEFINE args == RegexArgs(pat, map, u)
<1>3. IsLastSegments(args, pat, map, u.path)
  BY RegexArgsAre
<1> HIDE DEF args
<1>4. \A v \in DOMAIN args : args[v] \in Value
  BY <1>1, <1>2, <1>3 DEF Value, IsLastSegments
<1> QED
  BY <1>4 DEF IsArgs, args

-----------------------------------------------------------------------------
(* The path of a URI *)

\* PathInfoMeaning for a path of n segments.
LEMMA PathInfoOfLength ==
  ASSUME NEW p, NEW n \in Nat, Len(p) = n
  PROVE  PathInfo(p) = PathMeaning(p)
<1>n. \A x : <<x>> # NoName
  BY DEF NoName
<1>k. 0 + 1 = 1 /\ 1 + 1 = 2 /\ 2 + 1 = 3
  OBVIOUS
<1>0. CASE n = 0
  <2> DEFINE none == PathState(NoName, NoName, NoName, 0)
  <2>0. n < 2 /\ ~(1 < n)
    BY <1>0
  <2>1. ScanHead(p) = none
    BY <2>0, Zenon DEF ScanHead
  <2>2. ScanAction(p, none) = none
    BY <1>k, <2>0, Zenon DEF ScanAction, PathState
  <2>3. ScanLast(p, none) = none
    BY <1>0, Zenon DEF ScanLast, PathState
  <2>4. Shift(none) = none
    BY Zenon DEF Shift, PathState
  <2>5. PathMeaning(p) = none
    BY <1>0, Zenon DEF PathMeaning
  <2> QED
    BY <2>1, <2>2, <2>3, <2>4, <2>5 DEF PathInfo
<1>1. CASE n = 1
  <2> DEFINE none == PathState(NoName, NoName, NoName, 0)
             mod == PathState(<<p[1]>>, NoName, NoName, 1)
             ctl == PathState(NoName, <<p[1]>>, NoName, 1)
             act == PathState(NoName, NoName, <<p[1]>>, 1)
  <2>0. n < 2 /\ n # 0 /\ 0 # Len(p) /\ ~(1 < n) /\ ~(n > 2)
    BY <1>1
  <2>1. ScanHead(p) = none
    BY <2>0, Zenon DEF ScanHead
  <2>2. ScanAction(p, none) = none
    BY <1>k, <2>0, Zenon DEF ScanAction, PathState
  <2>3. CASE p[1] \in Modules
    <3>1. ScanLast(p, none) = mod
      BY <1>k, <2>0, <2>3, Zenon DEF ScanLast, PathState
    <3>2. Shift(mod) = ctl
      BY <1>n, Zenon DEF Shift, PathState
    <3>3. PathMeaning(p) = ctl
      BY <1>1, <2>0, <2>3, Zenon DEF PathMeaning
    <3> QED
      BY <2>1, <2>2, <3>1, <3>2, <3>3 DEF PathInfo
  <2>4. CASE p[1] \notin Modules
    <3>1. ScanLast(p, none) = ctl
      BY <1>k, <2>0, <2>4, Zenon DEF ScanLast, PathState
    <3>2. CASE ActionPrefer
      <4>1. Shift(ctl) = act
        BY <1>n, <3>2, Zenon DEF Shift, PathState
      <4>2. PathMeaning(p) = act
        BY <1>1, <2>0, <2>4, <3>2, Zenon DEF PathMeaning
      <4> QED
        BY <2>1, <2>2, <3>1, <4>1, <4>2 DEF PathInfo
    <3>3. CASE ~ActionPrefer
      <4>1. Shift(ctl) = ctl
        BY <1>n, <3>3, Zenon DEF Shift, PathState
      <4>2. PathMeaning(p) = ctl
        BY <1>1, <2>0, <2>4, <3>3, Zenon DEF PathMeaning
      <4> QED
        BY <2>1, <2>2, <3>1, <4>1, <4>2 DEF PathInfo
    <3> QED
      BY <3>2, <3>3
  <2> QED
    BY <2>3, <2>4
<1>2. CASE n = 2 /\ p[1] \in Modules
  <2> DEFINE mod == PathState(<<p[1]>>, NoName, NoName, 1)
             modctl == PathState(<<p[1]>>, <<p[2]>>, NoName, 2)
             ctlact == PathState(NoName, <<p[1]>>, <<p[2]>>, 2)
  <2>0. ~(n < 2) /\ n # 0 /\ n # 1 /\ 1 # Len(p) /\ ~(2 < n) /\ ~(n > 2) /\ <<p[1]>> # NoName
    BY <1>2, <1>n
  <2>1. ScanHead(p) = mod
    BY <1>2, <2>0, Zenon DEF ScanHead
  <2>2. ScanAction(p, mod) = mod
    BY <1>k, <2>0, Zenon DEF ScanAction, PathState
  <2>3. ScanLast(p, mod) = modctl
    BY <1>k, <2>0, Zenon DEF ScanLast, PathState
  <2>4. Shift(modctl) = ctlact
    BY <1>n, Zenon DEF Shift, PathState
  <2>5. PathMeaning(p) = ctlact
    BY <2>0, Zenon DEF PathMeaning
  <2> QED
    BY <2>1, <2>2, <2>3, <2>4, <2>5 DEF PathInfo
<1>3. CASE n >= 2 /\ p[1] \notin Modules
  <2> DEFINE ctl == PathState(NoName, <<p[1]>>, NoName, 1)
             ctlact == PathState(NoName, <<p[1]>>, <<p[2]>>, 2)
  <2>0. ~(n < 2) /\ n # 0 /\ n # 1 /\ 1 # Len(p)
    BY <1>3
  <2>1. ScanHead(p) = ctl
    BY <1>3, <2>0, Zenon DEF ScanHead
  <2>2. ScanLast(p, ScanAction(p, ctl)) = ctlact
    <3>1. CASE 2 < Len(p)
      <4>1. ScanAction(p, ctl) = ctlact
        BY <1>k, <3>1, Zenon DEF ScanAction, PathState
      <4>2. ScanLast(p, ctlact) = ctlact
        BY <1>n, Zenon DEF ScanLast, PathState
      <4> QED
        BY <4>1, <4>2
    <3>2. CASE ~(2 < Len(p))
      <4>1. ScanAction(p, ctl) = ctl
        BY <1>k, <3>2, Zenon DEF ScanAction, PathState
      <4>2. ScanLast(p, ctl) = ctlact
        BY <1>k, <1>n, <2>0, Zenon DEF ScanLast, PathState
      <4> QED
        BY <4>1, <4>2
    <3> QED
      BY <3>1, <3>2
  <2>3. Shift(ctlact) = ctlact
    BY <1>n, Zenon DEF Shift, PathState
  <2>4. PathMeaning(p) = ctlact
    BY <1>3, <2>0, Zenon DEF PathMeaning
  <2> QED
    BY <2>1, <2>2, <2>3, <2>4 DEF PathInfo
<1>4. CASE n > 2 /\ p[1] \in Modules
  <2> DEFINE modctl == PathState(<<p[1]>>, <<p[2]>>, NoName, 2)
             all == PathState(<<p[1]>>, <<p[2]>>, <<p[3]>>, 3)
  <2>0. ~(n < 2) /\ n # 0 /\ n # 1 /\ n # 2 /\ 2 # Len(p)
    BY <1>4
  <2>1. ScanHead(p) = modctl
    BY <1>4, <2>0, Zenon DEF ScanHead
  <2>2. ScanLast(p, ScanAction(p, modctl)) = all
    <3>1. CASE 3 < Len(p)
      <4>1. ScanAction(p, modctl) = all
        BY <1>k, <3>1, Zenon DEF ScanAction, PathState
      <4>2. ScanLast(p, all) = all
        BY <1>n, Zenon DEF ScanLast, PathState
      <4> QED
        BY <4>1, <4>2
    <3>2. CASE ~(3 < Len(p))
      <4>1. ScanAction(p, modctl) = modctl
        BY <1>k, <3>2, Zenon DEF ScanAction, PathState
      <4>2. ScanLast(p, modctl) = all
        BY <1>k, <1>n, <2>0, Zenon DEF ScanLast, PathState
      <4> QED
        BY <4>1, <4>2
    <3> QED
      BY <3>1, <3>2
  <2>3. Shift(all) = all
    BY <1>n, Zenon DEF Shift, PathState
  <2>4. PathMeaning(p) = all
    BY <1>4, <2>0, Zenon DEF PathMeaning
  <2> QED
    BY <2>1, <2>2, <2>3, <2>4 DEF PathInfo
<1>5. \/ n = 0 \/ n = 1 \/ (n = 2 /\ p[1] \in Modules)
      \/ (n >= 2 /\ p[1] \notin Modules) \/ (n > 2 /\ p[1] \in Modules)
  OBVIOUS
<1> QED
  BY <1>0, <1>1, <1>2, <1>3, <1>4, <1>5

\* The stages of yaf_route_pathinfo_route compute the closed form PathMeaning
\* for every path: which segments are module, controller and action, and where
\* the parameters begin.
THEOREM PathInfoMeaning ==
  ASSUME NEW p \in Seq(Segs)
  PROVE  PathInfo(p) = PathMeaning(p)
<1>1. PICK n \in Nat : Len(p) = n
  OBVIOUS
<1> QED
  BY <1>1, PathInfoOfLength

-----------------------------------------------------------------------------
(* The route table *)

\* The part of TypeOK that concerns the table and the walk: rows are well formed,
\* no name occurs twice, and the places are places of the table.
TableInv ==
  /\ routes \in Seq(Row)
  /\ \A i, j \in 1 .. Len(routes) : routes[i].name = routes[j].name => i = j
  /\ entries \in Seq(Entries)
  /\ at \in 0 .. Len(routes)
  /\ pc # "routing" => at = 0
  /\ pc = "routing" => claim = NoClaim
  /\ pc = "config" => claim = NoClaim
  /\ claim.place \in 0 .. Len(routes)

\* zend_hash_update keeps the table a table without double names, and never
\* shorter than it was.
LEMMA PutTable ==
  ASSUME NEW table \in Seq(Row), NEW n \in RouteNames, NEW r \in Routes,
         \A i, j \in 1 .. Len(table) : table[i].name = table[j].name => i = j
  PROVE  /\ Put(table, n, r) \in Seq(Row)
         /\ Len(Put(table, n, r)) \in {Len(table), Len(table) + 1}
         /\ \A i, j \in 1 .. Len(Put(table, n, r)) :
              Put(table, n, r)[i].name = Put(table, n, r)[j].name => i = j
<1> DEFINE row == [name |-> n, route |-> r]
           new == Put(table, n, r)
<1>1. row \in Row /\ row.name = n
  BY DEF Row
<1>2. CASE \E i \in 1 .. Len(table) : table[i].name = n
  <2>1. new = [i \in 1 .. Len(table) |-> IF table[i].name = n THEN row ELSE table[i]]
    BY <1>2 DEF Put
  <2>2. new \in Seq(Row) /\ Len(new) = Len(table)
    BY <1>1, <2>1
  <2>3. \A i \in 1 .. Len(table) : new[i].name = table[i].name
    BY <1>1, <2>1
  <2> QED
    BY <2>2, <2>3
<1>3. CASE ~\E i \in 1 .. Len(table) : table[i].name = n
  <2>1. new = Append(table, row)
    BY <1>3 DEF Put
  <2>2. new \in Seq(Row) /\ Len(new) = Len(table) + 1
    BY <1>1, <2>1
  <2>3. \A i \in 1 .. Len(table) : new[i] = table[i]
    BY <2>1
  <2>4. new[Len(table) + 1].name = n
    BY <1>1, <2>1
  <2> QED
    BY <1>3, <2>2, <2>3, <2>4
<1> QED
  BY <1>2, <1>3

\* A router starts with a well-formed table.
LEMMA NewRouterTable ==
  ASSUME NEW d \in DefaultConfigs
  PROVE  NewRouter(d) \in Seq(Row) /\ Len(NewRouter(d)) = 1
<1>1. DefaultRoute(d) \in Routes
  BY DEF Routes
<1> QED
  BY <1>1, TableAssumption DEF NewRouter, Row

\* The initial table is that of a new router.
LEMMA InitTable == Init => TableInv
<1> SUFFICES ASSUME Init PROVE TableInv
  OBVIOUS
<1>1. PICK d \in DefaultConfigs : routes = NewRouter(d)
  BY DEF Init
<1>2. routes \in Seq(Row) /\ Len(routes) = 1
  BY <1>1, NewRouterTable
<1> QED
  BY <1>2 DEF Init, TableInv, NoClaim

\* Every step keeps the table well formed; it changes only between two walks.
LEMMA NextTable == TableInv /\ [Next]_vars => TableInv'
<1> SUFFICES ASSUME TableInv, [Next]_vars PROVE TableInv'
  OBVIOUS
<1>0. NoClaim.place = 0
  BY DEF NoClaim
<1>1. CASE AddRoute
  <2>1. PICK n \in RouteNames, r \in NewRoutes : routes' = Put(routes, n, r)
    BY <1>1 DEF AddRoute
  <2>2. r \in Routes
    BY DEF Routes
  <2>3. /\ routes' \in Seq(Row)
        /\ \A i, j \in 1 .. Len(routes') : routes'[i].name = routes'[j].name => i = j
    BY <2>1, <2>2, PutTable DEF TableInv
  <2>4. /\ pc' = "idle" /\ entries' = entries /\ at' = 0 /\ claim' = NoClaim
    BY <1>1 DEF AddRoute, RequestOver, TableInv
  <2> QED
    BY <1>0, <2>3, <2>4 DEF TableInv
<1>2. CASE AddConfig
  <2>1. entries' \in Seq(Entries)
    BY <1>2, TableAssumption DEF AddConfig
  <2>2. /\ pc' = "config" /\ routes' = routes /\ at' = 0 /\ claim' = NoClaim
    BY <1>2 DEF AddConfig, RequestOver, TableInv
  <2> QED
    BY <1>0, <2>1, <2>2 DEF TableInv
<1>3. CASE AddEntry
  <2> DEFINE e == Head(entries)
  <2>1. e \in Entries /\ entries' \in Seq(Entries)
    BY <1>3 DEF AddEntry, TableInv
  <2>2. e.name \in RouteNames /\ (Instantiable(e.config) => Instance(e.config) \in Routes)
    BY <2>1, TableAssumption DEF Routes
  <2>3. \/ Instantiable(e.config) /\ routes' = Put(routes, e.name, Instance(e.config))
        \/ routes' = routes
    BY <1>3 DEF AddEntry
  <2>4. /\ routes' \in Seq(Row)
        /\ \A i, j \in 1 .. Len(routes') : routes'[i].name = routes'[j].name => i = j
    BY <2>2, <2>3, PutTable DEF TableInv
  <2>5. /\ pc' = "config" /\ at' = 0 /\ claim' = NoClaim
    BY <1>3 DEF AddEntry, TableInv
  <2> QED
    BY <1>0, <2>1, <2>4, <2>5 DEF TableInv
<1>4. CASE \/ AddConfigDone \/ RequestEnds \/ AskAnything
  BY <1>0, <1>4 DEF TableInv, AddConfigDone, RequestEnds, RequestOver, AskAnything, Ask
<1>5. CASE Assemble
  <2>1. /\ UNCHANGED <<routes, entries>> /\ pc = "idle"
    BY <1>5 DEF Assemble, Fresh
  <2>2. \/ pc' = "routing" /\ at' = Len(routes) /\ claim' = NoClaim
        \/ pc' \in {"idle", "crashed"} /\ UNCHANGED <<at, claim>>
    BY <1>5 DEF Assemble, Ask
  <2> QED
    BY <1>0, <2>1, <2>2 DEF TableInv
<1>6. CASE RouteClaims \/ CustomClaims
  <2>1. /\ UNCHANGED <<routes, entries>> /\ pc' = "idle" /\ at' = 0
        /\ claim'.place = at
    BY <1>6 DEF RouteClaims, CustomClaims, Claimed
  <2> QED
    BY <2>1 DEF TableInv
<1>7. CASE RouteDeclines \/ CustomDeclines \/ SkippedAfterThrow
  BY <1>7 DEF TableInv, RouteDeclines, CustomDeclines, SkippedAfterThrow, Previous
<1>8. CASE RouteFails
  <2>1. /\ UNCHANGED <<routes, entries>> /\ pc' = "idle" /\ at' = 0
        /\ claim'.place = claim.place
    BY <1>8 DEF RouteFails, TableInv, NoClaim
  <2> QED
    BY <2>1 DEF TableInv
<1>9. CASE NextHttpRequest
  <2>1. /\ entries' = <<>> /\ at' = 0 /\ pc' = "idle" /\ claim' = NoClaim
    BY <1>9 DEF NextHttpRequest, RequestOver
  <2>2. PICK d \in DefaultConfigs : routes' = NewRouter(d)
    BY <1>9 DEF NextHttpRequest
  <2>3. routes' \in Seq(Row) /\ Len(routes') = 1
    BY <2>2, NewRouterTable
  <2> QED
    BY <1>0, <2>1, <2>3 DEF TableInv
<1>10. CASE UNCHANGED vars
  BY <1>10 DEF vars, TableInv
<1> QED
  BY <1>1, <1>2, <1>3, <1>4, <1>5, <1>6, <1>7, <1>8, <1>9, <1>10 DEF Next

-----------------------------------------------------------------------------
(* The walk *)

\* No built-in route above place n matches the request.
NoneAbove(n) ==
  \A i \in n + 1 .. Len(routes) :
    Builtin(routes[i].route) => ~Matches(routes[i].route, uri, get)

\* FirstMatchWins and DefaultCatchesAll speak of a walk that is over; while it
\* goes on, what they need is that every route passed so far has declined.
WalkInv ==
  /\ pc = "routing" /\ ~threw => NoneAbove(at)
  /\ claim.place > 0 => NoneAbove(claim.place)
  /\ claim.result = "failed" /\ ~threw => NoneAbove(0)

\* Nothing has been walked.
LEMMA InitWalk == Init => WalkInv
BY DEF Init, WalkInv, NoClaim

\* Every step keeps WalkInv.
LEMMA NextWalk == TableInv /\ WalkInv /\ [Next]_vars => WalkInv'
<1> SUFFICES ASSUME TableInv, WalkInv, [Next]_vars PROVE WalkInv'
  OBVIOUS
<1>0. NoClaim.place = 0 /\ NoClaim.result = "none"
  BY DEF NoClaim
<1>1. CASE AddRoute \/ AddConfig \/ AddEntry \/ NextHttpRequest \/ RequestEnds
  <2>1. claim' = NoClaim /\ pc' \in {"idle", "config"}
    BY <1>1 DEF AddRoute, AddConfig, AddEntry, NextHttpRequest, RequestEnds,
                RequestOver, TableInv
  <2> QED
    BY <1>0, <2>1 DEF WalkInv
<1>2. CASE AddConfigDone
  BY <1>2 DEF AddConfigDone, WalkInv, NoneAbove
<1>3. CASE AskAnything \/ Assemble
  <2>1. CASE pc' = "routing" /\ at' = Len(routes) /\ claim' = NoClaim /\ routes' = routes
    <3>1. NoneAbove(at)'
      BY <2>1 DEF NoneAbove, TableInv
    <3> QED
      BY <1>0, <2>1, <3>1 DEF WalkInv
  <2>2. CASE pc' \in {"idle", "crashed"} /\ UNCHANGED <<routes, uri, get, threw, claim>>
    BY <2>2 DEF WalkInv, NoneAbove
  <2> QED
    BY <1>3, <2>1, <2>2 DEF AskAnything, Assemble, Ask
<1>4. CASE RouteClaims \/ CustomClaims
  <2>1. /\ pc = "routing" /\ ~threw /\ pc' = "idle"
        /\ UNCHANGED <<routes, uri, get>>
        /\ claim'.place = at /\ claim'.result = "claimed"
    BY <1>4 DEF RouteClaims, CustomClaims, Claimed
  <2> QED
    BY <2>1 DEF WalkInv, NoneAbove
<1>5. CASE RouteDeclines
  <2>1. /\ at' = at - 1 /\ at > 0 /\ UNCHANGED <<routes, uri, get, pc, threw, claim>>
        /\ ~Matches(routes[at].route, uri, get)
        /\ pc = "routing" /\ ~threw
    BY <1>5 DEF RouteDeclines, Previous
  <2>2. NoneAbove(at)'
    BY <2>1 DEF WalkInv, NoneAbove, TableInv
  <2> QED
    BY <2>1, <2>2 DEF WalkInv, NoneAbove
<1>6. CASE CustomDeclines
  <2>1. /\ at' = at - 1 /\ at > 0 /\ UNCHANGED <<routes, uri, get, pc, claim>>
        /\ ~Builtin(routes[at].route) /\ pc = "routing" /\ ~threw
    BY <1>6 DEF CustomDeclines, Previous
  <2>2. NoneAbove(at)'
    BY <2>1 DEF WalkInv, NoneAbove, TableInv
  <2>3. claim' = NoClaim
    BY <2>1 DEF TableInv
  <2> QED
    BY <1>0, <2>2, <2>3 DEF WalkInv
<1>7. CASE SkippedAfterThrow
  BY <1>7 DEF SkippedAfterThrow, WalkInv, NoneAbove
<1>8. CASE RouteFails
  <2>1. /\ at = 0 /\ pc = "routing" /\ pc' = "idle"
        /\ UNCHANGED <<routes, uri, get, threw>> /\ claim'.place = 0
    BY <1>0, <1>8 DEF RouteFails, Exhausted, TableInv, NoClaim
  <2> QED
    BY <2>1 DEF WalkInv, NoneAbove
<1>9. CASE UNCHANGED vars
  BY <1>9 DEF vars, WalkInv, NoneAbove
<1> QED
  BY <1>1, <1>2, <1>3, <1>4, <1>5, <1>6, <1>7, <1>8, <1>9 DEF Next

\* Both parts hold together in every reachable state.
LEMMA WalkInvariant == Spec => [](TableInv /\ WalkInv)
<1>1. Init => TableInv /\ WalkInv
  BY InitTable, InitWalk
<1>2. TableInv /\ WalkInv /\ [Next]_vars => TableInv' /\ WalkInv'
  BY NextTable, NextWalk
<1> QED
  BY <1>1, <1>2, PTL DEF Spec

\* For every table and every request: the route that claims it is the last one of
\* the table that matches, custom routes apart.
THEOREM LastMatchClaims == Spec => []FirstMatchWins
<1>1. WalkInv => FirstMatchWins
  BY DEF WalkInv, NoneAbove, FirstMatchWins
<1> QED
  BY <1>1, WalkInvariant, PTL

\* For every table: yaf_router_route fails only if a route threw or if no static
\* and no map route is left in the table.
THEOREM DefaultCatches == Spec => []DefaultCatchesAll
<1>1. \A r, u, g : r.kind \in {"static", "map"} => Builtin(r) /\ Matches(r, u, g)
  BY DEF Builtin, Matches
<1>2. WalkInv => DefaultCatchesAll
  BY <1>1 DEF WalkInv, NoneAbove, DefaultCatchesAll
<1> QED
  BY <1>2, WalkInvariant, PTL

\* The names of the route table stay unique: addRoute and addConfig replace the
\* route of a name that is there and move no other.
THEOREM TableHasNoDoubles == Spec => []TableInv
BY WalkInvariant, PTL

-----------------------------------------------------------------------------
(* The request that a route leaves *)

\* A request as the routes find it and leave it.
IsReq(r) ==
  /\ IsRequest(r)
  /\ r = [module |-> r.module, controller |-> r.controller, action |-> r.action,
          params |-> r.params]

\* A request made of names and parameters.
LEMMA ReqFrom ==
  ASSUME NEW m \in Name, NEW c \in Name, NEW a \in Name, NEW ps, IsArgs(ps)
  PROVE  IsReq([module |-> m, controller |-> c, action |-> a, params |-> ps])
BY DEF IsReq, IsRequest, IsArgs, Value

\* The parts of a request.
LEMMA ReqParts ==
  ASSUME NEW r, IsReq(r)
  PROVE  /\ r.module \in Name /\ r.controller \in Name /\ r.action \in Name
         /\ IsArgs(r.params)
         /\ r = [module |-> r.module, controller |-> r.controller, action |-> r.action,
                 params |-> r.params]
BY DEF IsReq, IsRequest, IsArgs, Value

\* Nobody has routed a new request.
LEMMA NewRequestTyped == IsReq(NewRequest)
<1>1. IsArgs(NoParams)
  BY DEF IsArgs, NoParams
<1>2. NoName \in Name
  BY DEF NoName, Name
<1> QED
  BY <1>1, <1>2, ReqFrom DEF NewRequest

\* Parameters merged with those of the rest of a path.
LEMMA MergedRest ==
  ASSUME NEW f, IsArgs(f), NEW p \in Seq(Segs), NEW n \in Nat
  PROVE  IsArgs(Merge(f, ParseParameters(SubSeq(p, n + 1, Len(p)))))
<1>1. SubSeq(p, n + 1, Len(p)) \in Seq(Segs)
  <2>1. Len(p) \in Int /\ n + 1 \in Int
    BY LenProperties
  <2>2. \A i \in n + 1 .. Len(p) : p[i] \in Segs
    OBVIOUS
  <2> QED
    BY <2>1, <2>2, SubSeqProperties
<1> QED
  BY <1>1, ParametersTyped, MergeArgs

\* The names in a path, and how many segments they take.
LEMMA PathMeaningTyped ==
  ASSUME NEW p \in Seq(Segs)
  PROVE  /\ PathInfo(p).module \in Name /\ PathInfo(p).controller \in Name
         /\ PathInfo(p).action \in Name /\ PathInfo(p).used \in Nat
<1>1. Len(p) \in Nat /\ \A i \in 1 .. Len(p) : <<p[i]>> \in Name
  BY DEF Name
<1>2. NoName \in Name
  BY DEF NoName, Name
<1>3. PathInfo(p) = PathMeaning(p)
  BY PathInfoMeaning
<1>4. ASSUME NEW m \in Name, NEW c \in Name, NEW a \in Name, NEW used \in Nat,
             PathMeaning(p) = PathState(m, c, a, used)
      PROVE  /\ PathMeaning(p).module \in Name /\ PathMeaning(p).controller \in Name
             /\ PathMeaning(p).action \in Name /\ PathMeaning(p).used \in Nat
  BY <1>4 DEF PathState
<1>5. CASE Len(p) = 0
  <2>1. PathMeaning(p) = PathState(NoName, NoName, NoName, 0)
    BY <1>5 DEF PathMeaning
  <2> QED
    BY <1>2, <1>3, <1>4, <2>1
<1>6. CASE Len(p) = 1
  <2>1. <<p[1]>> \in Name
    BY <1>1, <1>6
  <2>2. PathMeaning(p) \in {PathState(NoName, NoName, <<p[1]>>, 1),
                            PathState(NoName, <<p[1]>>, NoName, 1)}
    BY <1>6 DEF PathMeaning
  <2> QED
    BY <1>2, <1>3, <1>4, <2>1, <2>2
<1>7. CASE Len(p) > 1
  <2>1. <<p[1]>> \in Name /\ <<p[2]>> \in Name
    BY <1>1, <1>7
  <2>2. CASE Len(p) > 2 /\ p[1] \in Modules
    <3>1. <<p[3]>> \in Name
      BY <1>1, <2>2
    <3>2. PathMeaning(p) = PathState(<<p[1]>>, <<p[2]>>, <<p[3]>>, 3)
      BY <2>2 DEF PathMeaning
    <3> QED
      BY <1>3, <1>4, <2>1, <3>1, <3>2
  <2>3. CASE ~(Len(p) > 2 /\ p[1] \in Modules)
    <3>1. PathMeaning(p) = PathState(NoName, <<p[1]>>, <<p[2]>>, 2)
      BY <1>7, <2>3 DEF PathMeaning
    <3> QED
      BY <1>2, <1>3, <1>4, <2>1, <3>1
  <2> QED
    BY <2>2, <2>3
<1>8. Len(p) = 0 \/ Len(p) = 1 \/ Len(p) > 1
  <2>1. PICK n \in Nat : Len(p) = n
    BY LenProperties
  <2>2. n = 0 \/ n = 1 \/ n > 1
    OBVIOUS
  <2> QED
    BY <2>1, <2>2
<1> QED
  BY <1>5, <1>6, <1>7, <1>8, Zenon

\* The static and the supervar route leave a request.
LEMMA RoutePathTyped ==
  ASSUME NEW req, IsReq(req), NEW p \in Seq(Segs)
  PROVE  IsReq(RoutePath(req, p))
<1> DEFINE st == PathInfo(p)
           ps == IF st.used = Len(p) THEN req.params
                 ELSE Merge(req.params, ParseParameters(Rest(p, st.used)))
<1>1. st.module \in Name /\ st.controller \in Name /\ st.action \in Name /\ st.used \in Nat
  BY PathMeaningTyped
<1>2. req.module \in Name /\ req.controller \in Name /\ req.action \in Name /\ IsArgs(req.params)
  BY ReqParts
<1>3. RoutePath(req, p) = [module |-> SetName(req.module, st.module),
                           controller |-> SetName(req.controller, st.controller),
                           action |-> SetName(req.action, st.action), params |-> ps]
  BY DEF RoutePath
<1>4. IsArgs(ps)
  <2>1. IsArgs(Merge(req.params, ParseParameters(Rest(p, st.used))))
    BY <1>1, <1>2, MergedRest DEF Rest
  <2> QED
    BY <1>2, <2>1
<1> HIDE DEF st, ps
<1>5. /\ SetName(req.module, st.module) \in Name
      /\ SetName(req.controller, st.controller) \in Name
      /\ SetName(req.action, st.action) \in Name
  BY <1>1, <1>2 DEF SetName
<1> QED
  BY <1>3, <1>4, <1>5, ReqFrom

\* The map route leaves a request, wherever the delimiter is.
LEMMA RouteMapTyped ==
  ASSUME NEW req, IsReq(req), NEW r, r.ctlPrefer \in BOOLEAN, NEW p \in Seq(Segs)
  PROVE  IsReq(RouteMap(req, r, p))
<1> DEFINE delims == {i \in 1 .. Len(p) : p[i] = r.delim \/ <<r.delim, p[i]>> \in Begins}
           d == DelimAt(r, p)
           named == SubSeq(p, 1, d - 1)
           field == IF r.ctlPrefer THEN "controller" ELSE "action"
           named1 == [req EXCEPT ![field] = SetName(@, named)]
           rest == ParseParameters(SubSeq(p, d + 1, Len(p)))
<1>1. Len(p) \in Nat /\ \A i \in 1 .. Len(p) : p[i] \in Segs
  OBVIOUS
<1>2. d \in 1 .. Len(p) + 1
  <2> DEFINE first == CHOOSE i \in delims : \A j \in delims : i <= j
  <2>1. delims # {} => first \in delims
    <3>1. delims \in SUBSET Nat
      BY <1>1
    <3> HIDE DEF delims
    <3>2. delims # {} => \E i \in delims : \A j \in delims : i <= j
      BY <3>1, LeastOf
    <3> QED
      BY <3>2
  <2>2. delims \subseteq 1 .. Len(p)
    OBVIOUS
  <2>3. d = (IF r.delim # Null /\ delims # {} /\ p[first] = r.delim THEN first ELSE Len(p) + 1)
    BY Zenon DEF DelimAt
  <2> HIDE DEF delims, first, d
  <2>4. d = Len(p) + 1 \/ d \in 1 .. Len(p)
    BY <2>1, <2>2, <2>3
  <2> QED
    BY <1>1, <2>4
<1> HIDE DEF d
<1>3. named \in Name
  <2>1. \A i \in 1 .. d - 1 : p[i] \in Segs
    BY <1>1, <1>2
  <2> QED
    BY <1>2, <2>1, SubSeqProperties DEF Name
<1>4. req.module \in Name /\ req.controller \in Name /\ req.action \in Name /\ IsArgs(req.params)
  BY ReqParts
<1>5. req = [module |-> req.module, controller |-> req.controller, action |-> req.action,
             params |-> req.params]
  BY ReqParts
<1> HIDE DEF named
<1>6. named1 = [module |-> req.module,
                controller |-> IF r.ctlPrefer THEN SetName(req.controller, named) ELSE req.controller,
                action |-> IF r.ctlPrefer THEN req.action ELSE SetName(req.action, named),
                params |-> req.params]
  <2> DEFINE new(x) == SetName(x, named)
  <2> HIDE DEF new
  <2>1. CASE r.ctlPrefer
    <3>1. named1 = [req EXCEPT !.controller = new(req.controller)]
      BY <2>1 DEF new
    <3> HIDE DEF named1
    <3>2. named1 = [module |-> req.module, controller |-> new(req.controller),
                    action |-> req.action, params |-> req.params]
      BY <1>5, <3>1
    <3> QED
      BY <2>1, <3>2 DEF new
  <2>2. CASE ~r.ctlPrefer
    <3>1. named1 = [req EXCEPT !.action = new(req.action)]
      BY <2>2 DEF new
    <3> HIDE DEF named1
    <3>2. named1 = [module |-> req.module, controller |-> req.controller,
                    action |-> new(req.action), params |-> req.params]
      BY <1>5, <3>1
    <3> QED
      BY <2>2, <3>2 DEF new
  <2> QED
    BY <2>1, <2>2
<1>7. RouteMap(req, r, p) = IF d >= Len(p) THEN named1
                            ELSE [named1 EXCEPT !.params = Merge(@, rest)]
  BY Zenon DEF RouteMap, d, named
<1>8. SetName(req.controller, named) \in Name /\ SetName(req.action, named) \in Name
  BY <1>3, <1>4 DEF SetName
<1>9. IsArgs(Merge(req.params, rest))
  BY <1>2, <1>4, MergedRest
<1> DEFINE c == IF r.ctlPrefer THEN SetName(req.controller, named) ELSE req.controller
           a == IF r.ctlPrefer THEN req.action ELSE SetName(req.action, named)
<1>10. c \in Name /\ a \in Name
  BY <1>4, <1>8
<1> HIDE DEF rest
<1> DEFINE q(ps) == [module |-> req.module, controller |-> c, action |-> a, params |-> ps]
<1>11. RouteMap(req, r, p) \in {q(req.params), q(Merge(req.params, rest))}
  <2> HIDE DEF c, a, named1
  <2>1. named1 = q(req.params)
    BY <1>6 DEF c, a
  <2>2. [named1 EXCEPT !.params = Merge(@, rest)] = q(Merge(req.params, rest))
    BY <2>1
  <2> QED
    BY <1>7, <2>1, <2>2
<1> HIDE DEF c, a
<1>12. IsReq(q(req.params)) /\ IsReq(q(Merge(req.params, rest)))
  BY <1>4, <1>9, <1>10, ReqFrom
<1> QED
  BY <1>11, <1>12

\* The simple route leaves a request.
LEMMA RouteSimpleTyped ==
  ASSUME NEW req, IsReq(req), NEW r, NEW g, IsGet(g)
  PROVE  IsReq(RouteSimple(req, r, g))
<1> DEFINE m == IF r.m \in DOMAIN g /\ \E x \in Modules : g[r.m] = <<x>> THEN g[r.m] ELSE req.module
           c == Given(g, r.c, req.controller)
           a == Given(g, r.a, req.action)
<1>1. req.module \in Name /\ req.controller \in Name /\ req.action \in Name /\ IsArgs(req.params)
  BY ReqParts
<1>2. req = [module |-> req.module, controller |-> req.controller, action |-> req.action,
             params |-> req.params]
  BY ReqParts
<1>3. m \in Name /\ c \in Name /\ a \in Name
  BY <1>1 DEF Given, IsGet
<1>4. RouteSimple(req, r, g) = [module |-> m, controller |-> c, action |-> a, params |-> req.params]
  <2>1. RouteSimple(req, r, g) = [req EXCEPT !.module = m, !.controller = c, !.action = a]
    BY Zenon DEF RouteSimple
  <2> HIDE DEF m, c, a
  <2> QED
    BY <1>2, <2>1
<1> HIDE DEF m, c, a
<1> QED
  BY <1>1, <1>3, <1>4, ReqFrom

\* The rewrite and regex routes leave a request.
LEMMA RouteDefTyped ==
  ASSUME NEW req, IsReq(req), NEW def, IsDef(def.module), IsDef(def.controller),
         IsDef(def.action), NEW args, IsArgs(args)
  PROVE  IsReq(RouteDef(req, def, args))
<1>1. ASSUME NEW old \in Name, NEW d, IsDef(d) PROVE DefName(old, d, args) \in Name
  <2>1. ASSUME d.v \in DOMAIN args, args[d.v] # Null PROVE <<args[d.v]>> \in Name
    BY <2>1 DEF IsArgs, Value, Name
  <2>2. d.t = "none" \/ (d.t = "lit" /\ d.v \in Name) \/ d.t = "var"
    BY <1>1 DEF IsDef
  <2> QED
    BY <2>1, <2>2 DEF DefName
<1>2. req.module \in Name /\ req.controller \in Name /\ req.action \in Name /\ IsArgs(req.params)
  BY ReqParts
<1>3. IsArgs(Merge(req.params, args))
  BY <1>2, MergeArgs
<1>4. /\ DefName(req.module, def.module, args) \in Name
      /\ DefName(req.controller, def.controller, args) \in Name
      /\ DefName(req.action, def.action, args) \in Name
  BY <1>1, <1>2
<1> QED
  BY <1>3, <1>4, ReqFrom DEF RouteDef

\* A built-in route that matches leaves a request.
LEMMA ApplyTyped ==
  ASSUME NEW r, WellFormed(r), Builtin(r), NEW req, IsReq(req), NEW u \in Uri,
         NEW g, IsGet(g), Matches(r, u, g)
  PROVE  IsReq(Apply(r, req, u, g))
<1>0. u.path \in Seq(Segs)
  BY DEF Uri
<1>1. CASE r.kind = "static"
  <2>1. Apply(r, req, u, g) = RoutePath(req, u.path)
    BY <1>1 DEF Apply
  <2> QED
    BY <1>0, <2>1, RoutePathTyped
<1>2. CASE r.kind = "map"
  <2>1. Apply(r, req, u, g) = RouteMap(req, r, u.path)
    BY <1>2 DEF Apply
  <2>2. r.ctlPrefer \in BOOLEAN
    BY <1>2 DEF WellFormed
  <2> QED
    BY <1>0, <2>1, <2>2, RouteMapTyped
<1>3. CASE r.kind = "simple"
  <2>1. Apply(r, req, u, g) = RouteSimple(req, r, g)
    BY <1>3 DEF Apply
  <2> QED
    BY <2>1, RouteSimpleTyped
<1>4. CASE r.kind = "supervar"
  <2>1. Apply(r, req, u, g) = RoutePath(req, g[r.var])
    BY <1>4 DEF Apply
  <2>2. g[r.var] \in Seq(Segs)
    BY <1>4 DEF Matches, IsGet, Name
  <2> QED
    BY <2>1, <2>2, RoutePathTyped
<1>5. CASE r.kind = "rewrite"
  <2>1. Apply(r, req, u, g) = RouteDef(req, r.def, RewriteArgs(r.pat, u))
    BY <1>5 DEF Apply
  <2>2. IsPattern(r.pat) /\ IsDef(r.def.module) /\ IsDef(r.def.controller) /\ IsDef(r.def.action)
    BY <1>5 DEF WellFormed
  <2>3. PcreMatches(r.pat, u)
    BY <1>5 DEF Matches
  <2>4. IsArgs(RewriteArgs(r.pat, u))
    BY <2>2, <2>3, RewriteArgsTyped
  <2> QED
    BY <2>1, <2>2, <2>4, RouteDefTyped
<1>6. CASE r.kind = "regex"
  <2>1. Apply(r, req, u, g) = RouteDef(req, r.def, RegexArgs(r.pat, r.map, u))
    BY <1>6 DEF Apply
  <2>2. IsPattern(r.pat) /\ IsDef(r.def.module) /\ IsDef(r.def.controller) /\ IsDef(r.def.action)
    BY <1>6 DEF WellFormed
  <2>3. PcreMatches(r.pat, u)
    BY <1>6 DEF Matches
  <2>4. IsArgs(RegexArgs(r.pat, r.map, u))
    BY <2>2, <2>3, RegexArgsTyped
  <2> QED
    BY <2>1, <2>2, <2>4, RouteDefTyped
<1> QED
  BY <1>1, <1>2, <1>3, <1>4, <1>5, <1>6 DEF Builtin, WellFormed, Kinds

-----------------------------------------------------------------------------
(* The URI that assemble() returns *)

\* What assemble() of route r has filled in for info and query, when it returned
\* a URI.
CanAssemble(r, info, query) ==
  /\ WellFormed(r) /\ Builtin(r) /\ IsInfo(info) /\ IsInfo(query)
  /\ AssembleResult(r, info) = "uri"
  /\ r.kind \in {"rewrite", "regex"} => Needed(r) \subseteq DOMAIN info

\* assemble() returned a URI: what the route needs was given.
LEMMA NeededGiven ==
  ASSUME NEW r, NEW info, NEW query, CanAssemble(r, info, query)
  PROVE  /\ Needed(r) \subseteq DOMAIN info
         /\ r.kind = "regex" => r.reverse # Null
<1>1. CASE r.kind \in {"static", "simple", "supervar", "map"}
  BY <1>1 DEF CanAssemble, AssembleResult
<1>2. CASE r.kind \in {"rewrite", "regex"}
  BY <1>2 DEF CanAssemble, AssembleResult
<1> QED
  BY <1>1, <1>2 DEF CanAssemble, WellFormed, Builtin, Kinds

\* Three names as a path.
LEMMA ThreeNames ==
  ASSUME NEW m \in Segs, NEW c \in Segs, NEW a \in Segs
  PROVE  <<m>> \o <<c, a>> = <<m, c, a>> /\ <<m, c, a>> \in Seq(Segs)
<1> DEFINE s == <<m>> \o <<c, a>>
           t == <<m, c, a>>
<1>1. <<m>> \in Seq(Segs) /\ <<c, a>> \in Seq(Segs) /\ t \in Seq(Segs)
  OBVIOUS
<1>2. Len(<<m>>) = 1 /\ Len(<<c, a>>) = 2 /\ Len(t) = 3
  OBVIOUS
<1>3. s \in Seq(Segs) /\ Len(s) = 3
  BY <1>1, <1>2, ConcatProperties
<1>4. s[1] = m /\ s[2] = c /\ s[3] = a
  BY <1>1, <1>2
<1>5. t[1] = m /\ t[2] = c /\ t[3] = a
  OBVIOUS
<1> HIDE DEF s, t
<1>6. \A i \in 1 .. 3 : s[i] = t[i]
  <2>1. \A i \in 1 .. 3 : i = 1 \/ i = 2 \/ i = 3
    OBVIOUS
  <2> QED
    BY <1>4, <1>5, <2>1
<1>7. s = t
  BY <1>1, <1>2, <1>3, <1>6, SeqEqual
<1> QED
  BY <1>1, <1>7 DEF s, t

\* The path of the static and supervar routes, written out.
LEMMA NamePathIs ==
  ASSUME NEW info, IsInfo(info), {"c", "a"} \subseteq DOMAIN info
  PROVE  /\ NamePath(info) \in Seq(Segs)
         /\ NamePath(info) = IF "m" \in DOMAIN info THEN <<info["m"], info["c"], info["a"]>>
                             ELSE <<info["c"], info["a"]>>
<1>1. info["c"] \in Segs /\ info["a"] \in Segs /\ ("m" \in DOMAIN info => info["m"] \in Segs)
  BY DEF IsInfo
<1>2. CASE "m" \in DOMAIN info
  <2>1. NamePath(info) = <<info["m"]>> \o <<info["c"], info["a"]>>
    BY <1>2 DEF NamePath
  <2> DEFINE m == info["m"]
             c == info["c"]
             a == info["a"]
  <2>2. m \in Segs /\ c \in Segs /\ a \in Segs
    BY <1>1, <1>2
  <2> HIDE DEF m, c, a
  <2>3. <<m>> \o <<c, a>> = <<m, c, a>> /\ <<m, c, a>> \in Seq(Segs)
    BY <2>2, ThreeNames
  <2>4. NamePath(info) = <<m, c, a>>
    BY <2>1, <2>3 DEF m, c, a
  <2> QED
    BY <1>2, <2>3, <2>4 DEF m, c, a
<1>3. CASE "m" \notin DOMAIN info
  <2>1. NamePath(info) = <<>> \o <<info["c"], info["a"]>>
    BY <1>3 DEF NamePath
  <2> QED
    BY <1>1, <1>3, <2>1
<1> QED
  BY <1>2, <1>3

\* The variables of a rewrite pattern, or of the reverse of a regex, are given.
LEMMA PatternFilled ==
  ASSUME NEW r, NEW info, NEW query, CanAssemble(r, info, query)
  PROVE  /\ r.kind = "rewrite" => IsPattern(r.pat) /\ Fills(info, r.pat)
         /\ r.kind = "regex" => IsPattern(r.reverse) /\ Fills(info, r.reverse)
<1>1. \A k \in DOMAIN info : info[k] \in Segs
  BY DEF CanAssemble, IsInfo
<1>2. CASE r.kind = "rewrite"
  <2>1. IsPattern(r.pat)
    BY <1>2 DEF CanAssemble, WellFormed
  <2>2. \A i \in VarPlaces(r.pat) : r.pat[i].v \in DOMAIN info
    BY <1>2, NeededGiven DEF Needed
  <2> QED
    BY <1>1, <1>2, <2>1, <2>2 DEF Fills
<1>3. CASE r.kind = "regex"
  <2>1. r.reverse # Null
    BY <1>3, NeededGiven
  <2>2. IsPattern(r.reverse) /\ \A i \in VarPlaces(r.reverse) : r.reverse[i].v \in {"c", "a"}
    BY <1>3, <2>1 DEF CanAssemble, WellFormed
  <2>3. {"c", "a"} \subseteq DOMAIN info
    BY <1>3, NeededGiven DEF Needed
  <2> QED
    BY <1>1, <1>3, <2>2, <2>3 DEF Fills
<1> QED
  BY <1>2, <1>3

\* f holds what the variables of the pattern leave of info.
IsLeftover(f, info, pat) ==
  /\ IsInfo(f)
  /\ DOMAIN f = DOMAIN info \ {pat[i].v : i \in VarPlaces(pat)}
  /\ \A k \in DOMAIN f : f[k] = info[k]

\* Leftover is an array of strings again.
LEMMA LeftoverIs ==
  ASSUME NEW info, IsInfo(info), NEW pat
  PROVE  IsLeftover(Leftover(pat, info), info, pat)
<1> DEFINE keys == DOMAIN info \ {pat[i].v : i \in VarPlaces(pat)}
           f == Leftover(pat, info)
<1>1. f = [k \in keys |-> info[k]]
  BY DEF Leftover
<1>2. keys \in SUBSET DOMAIN info
  OBVIOUS
<1> HIDE DEF keys, f
<1>3. IsFiniteSet(keys)
  BY <1>2, FS_Subset DEF IsInfo
<1>4. DOMAIN f = keys /\ \A k \in keys : f[k] = info[k]
  BY <1>1
<1>5. IsInfo(f)
  BY <1>2, <1>3, <1>4 DEF IsInfo
<1> QED
  BY <1>4, <1>5 DEF f, keys, IsLeftover

\* PairsParsed for what assemble() is given.
LEMMA InfoPairs ==
  ASSUME NEW f, IsInfo(f)
  PROVE  /\ Pairs(f) \in Seq(Segs)
         /\ DOMAIN ParseParameters(Pairs(f)) = DOMAIN f
         /\ \A k \in DOMAIN f : ParseParameters(Pairs(f))[k] = f[k]
BY PairsParsed DEF IsInfo

\* assemble() returns a URI ...
LEMMA AssembledUriTyped ==
  ASSUME NEW r, NEW info, NEW query, CanAssemble(r, info, query)
  PROVE  AssembledUri(r, info, query) \in Uri
<1> DEFINE path == AssembledPath(r, info, query)
<1>0. IsInfo(info) /\ IsInfo(query) /\ \A k \in DOMAIN info : info[k] \in Segs
  BY DEF CanAssemble, IsInfo
<1> SUFFICES path \in Seq(Segs)
  BY DEF AssembledUri, Uri
<1>1. CASE r.kind = "static"
  <2>1. path = NamePath(info)
    BY <1>1 DEF AssembledPath
  <2>2. {"c", "a"} \subseteq DOMAIN info
    BY <1>1, NeededGiven DEF Needed
  <2> QED
    BY <1>0, <2>1, <2>2, NamePathIs
<1>2. CASE r.kind \in {"simple", "supervar"}
  BY <1>2 DEF AssembledPath
<1>3. CASE r.kind = "map"
  <2> DEFINE name == info[IF r.ctlPrefer THEN "a" ELSE "c"]
             tail == IF r.delim = Null \/ DOMAIN query = {} THEN <<>> ELSE <<r.delim>> \o Pairs(query)
  <2>1. path = <<name>> \o tail
    BY <1>3 DEF AssembledPath
  <2>2. name \in Segs
    <3>1. r.ctlPrefer \in BOOLEAN
      BY <1>3 DEF CanAssemble, WellFormed
    <3>2. (IF r.ctlPrefer THEN {"a"} ELSE {"c"}) \subseteq DOMAIN info
      BY <1>3, NeededGiven DEF Needed
    <3> QED
      BY <1>0, <3>1, <3>2
  <2>3. tail \in Seq(Segs)
    <3>1. r.delim \in Segs \cup {Null}
      BY <1>3 DEF CanAssemble, WellFormed
    <3>2. Pairs(query) \in Seq(Segs)
      BY <1>0, InfoPairs
    <3>3. r.delim # Null => <<r.delim>> \o Pairs(query) \in Seq(Segs)
      BY <3>1, <3>2
    <3> QED
      BY <3>3
  <2> HIDE DEF path, name, tail
  <2>4. <<name>> \in Seq(Segs)
    BY <2>2
  <2> QED
    BY <2>1, <2>3, <2>4
<1>4. CASE r.kind = "rewrite"
  <2> DEFINE tail == IF RestAt(r.pat) > Len(r.pat) THEN <<>> ELSE Pairs(Leftover(r.pat, info))
  <2>1. path = Filled(r.pat, info) \o tail
    BY <1>4 DEF AssembledPath
  <2>2. Filled(r.pat, info) \in Seq(Segs)
    BY <1>4, PatternFilled, FilledIs
  <2>3. tail \in Seq(Segs)
    <3>1. IsInfo(Leftover(r.pat, info))
      BY <1>0, LeftoverIs DEF IsLeftover
    <3>2. Pairs(Leftover(r.pat, info)) \in Seq(Segs)
      BY <3>1, InfoPairs
    <3> QED
      BY <3>2
  <2> HIDE DEF path, tail
  <2> QED
    BY <2>1, <2>2, <2>3
<1>5. CASE r.kind = "regex"
  <2>1. path = Filled(r.reverse, info)
    BY <1>5 DEF AssembledPath
  <2> QED
    BY <1>5, <2>1, PatternFilled, FilledIs
<1>6. r.kind \in {"static", "simple", "supervar", "map", "rewrite", "regex"}
  BY DEF CanAssemble, WellFormed, Builtin, Kinds
<1> HIDE DEF path
<1> QED
  BY <1>1, <1>2, <1>3, <1>4, <1>5, <1>6

\* Strings as query variables.
LEMMA ValuesTyped ==
  ASSUME NEW f, \A k \in DOMAIN f : f[k] \in Segs
  PROVE  IsGet(AsValues(f))
<1>1. \A k \in DOMAIN f : <<f[k]>> \in Name
  BY DEF Name
<1> QED
  BY <1>1 DEF IsGet, AsValues

\* Merging keeps the type of a query.
LEMMA MergeGet ==
  ASSUME NEW f, NEW g, IsGet(f), IsGet(g)
  PROVE  IsGet(Merge(f, g))
<1>1. /\ \A k \in DOMAIN Merge(f, g) : k \in DOMAIN g \/ k \in DOMAIN f \ DOMAIN g
      /\ \A k \in DOMAIN g : Merge(f, g)[k] = g[k]
      /\ \A k \in DOMAIN f \ DOMAIN g : Merge(f, g)[k] = f[k]
  BY DEF Merge
<1>2. ASSUME NEW k \in DOMAIN Merge(f, g) PROVE Merge(f, g)[k] \in Name
  <2>1. CASE k \in DOMAIN g
    <3>1. Merge(f, g)[k] = g[k]
      BY <1>1, <2>1
    <3> QED
      BY <2>1, <3>1 DEF IsGet
  <2>2. CASE k \in DOMAIN f \ DOMAIN g
    <3>1. Merge(f, g)[k] = f[k]
      BY <1>1, <2>2
    <3> QED
      BY <2>2, <3>1 DEF IsGet
  <2> QED
    BY <1>1, <2>1, <2>2
<1> QED
  BY <1>2 DEF IsGet

\* ... and query variables, each with the value of a name.
LEMMA AssembledGetTyped ==
  ASSUME NEW r, NEW info, NEW query, CanAssemble(r, info, query)
  PROVE  IsGet(AssembledGet(r, info, query))
<1>0. IsInfo(info) /\ \A k \in DOMAIN info : info[k] \in Segs
  BY DEF CanAssemble, IsInfo
<1>1. IsGet(AsValues(query))
  BY ValuesTyped DEF CanAssemble, IsInfo
<1>2. CASE r.kind = "simple"
  <2> DEFINE fm == [k \in {r.m : x \in {"m"} \cap DOMAIN info} |-> info["m"]]
             fca == [k \in {r.c, r.a} |-> IF k = r.c THEN info["c"] ELSE info["a"]]
  <2>1. AssembledGet(r, info, query) = Merge(AsValues(fm), Merge(AsValues(fca), AsValues(query)))
    BY <1>2, Zenon DEF AssembledGet
  <2>2. {"c", "a"} \subseteq DOMAIN info
    BY <1>2, NeededGiven DEF Needed
  <2>3. \A k \in DOMAIN fm : fm[k] \in Segs
    BY <1>0
  <2>4. \A k \in DOMAIN fca : fca[k] \in Segs
    BY <1>0, <2>2
  <2> HIDE DEF fm, fca
  <2>5. IsGet(AsValues(fm)) /\ IsGet(AsValues(fca))
    BY <2>3, <2>4, ValuesTyped
  <2> QED
    BY <1>1, <2>1, <2>5, MergeGet
<1>3. CASE r.kind = "supervar"
  <2> DEFINE f == [k \in {r.var} |-> NamePath(info)]
  <2>1. AssembledGet(r, info, query) = Merge(f, AsValues(query))
    BY <1>3, Zenon DEF AssembledGet
  <2>2. {"c", "a"} \subseteq DOMAIN info
    BY <1>3, NeededGiven DEF Needed
  <2>3. NamePath(info) \in Name
    BY <1>0, <2>2, NamePathIs DEF Name
  <2>4. IsGet(f)
    BY <2>3 DEF IsGet
  <2> QED
    BY <1>1, <2>1, <2>4, MergeGet
<1>4. CASE r.kind = "map"
  <2>1. IsGet(AsValues(NoParams))
    BY DEF IsGet, AsValues, NoParams
  <2>2. AssembledGet(r, info, query) \in {AsValues(NoParams), AsValues(query)}
    BY <1>4 DEF AssembledGet
  <2> QED
    BY <1>1, <2>1, <2>2
<1>5. CASE r.kind \notin {"simple", "supervar", "map"}
  <2>1. AssembledGet(r, info, query) = AsValues(query)
    BY <1>5 DEF AssembledGet
  <2> QED
    BY <1>1, <2>1
<1> QED
  BY <1>2, <1>3, <1>4, <1>5

-----------------------------------------------------------------------------
(* Types *)

\* TypeOK, with the shape of the request and the values of the query, which the
\* routes compute with.
TypeInv ==
  /\ IsReq(request)
  /\ uri \in Uri
  /\ IsGet(get)
  /\ pc \in {"idle", "config", "routing", "crashed"}
  /\ current \in RouteNames \cup {Null}
  /\ threw \in BOOLEAN
  /\ claim.result \in {"none", "claimed", "failed"}

\* What a request begins with is well typed.
LEMMA EmptyTyped ==
  /\ IsReq(NewRequest) /\ EmptyUri \in Uri /\ IsGet(NoParams) /\ NoClaim.result = "none"
<1>1. EmptyUri \in Uri
  BY DEF EmptyUri, Uri
<1>2. IsGet(NoParams)
  BY DEF IsGet, NoParams
<1> QED
  BY <1>1, <1>2, NewRequestTyped DEF NoClaim

\* Routes of the table are as their constructors leave them.
LEMMA RouteWellFormed ==
  ASSUME TableInv, NEW i \in 1 .. Len(routes)
  PROVE  routes[i].name \in RouteNames /\ routes[i].name # Null /\ WellFormed(routes[i].route)
<1>1. routes[i] \in Row
  BY DEF TableInv
<1>2. routes[i].name \in RouteNames /\ routes[i].route \in Routes
  BY <1>1 DEF Row
<1> QED
  BY <1>2, TableAssumption, InputAssumption

\* How Assemble leaves the state.
Assembled(i, info, query) ==
  /\ asked'.by = routes[i].name /\ asked'.info = info
  /\ asked'.result = AssembleResult(routes[i].route, info)
  /\ \/ /\ asked'.result = "uri"
        /\ CanAssemble(routes[i].route, info, query)
        /\ uri' = AssembledUri(routes[i].route, info, query)
        /\ get' = AssembledGet(routes[i].route, info, query)
        /\ request' = NewRequest /\ claim' = NoClaim /\ threw' = FALSE /\ pc' = "routing"
     \/ /\ asked'.result \in {"crash", "error"}
        /\ pc' \in {"idle", "crashed"}
        /\ UNCHANGED <<uri, get, request, at, threw, claim>>

\* A step Assemble leaves the state in one of two ways.
LEMMA AssembleStep ==
  ASSUME TableInv, Assemble
  PROVE  /\ Fresh /\ UNCHANGED <<routes, entries, current>>
         /\ \E i \in 1 .. Len(routes), info \in Infos, query \in Queries :
              Assembled(i, info, query)
<1>1. Fresh /\ UNCHANGED <<routes, entries, current>>
  BY DEF Assemble
<1>2. PICK i \in 1 .. Len(routes), info \in Infos, query \in Queries :
        LET r == routes[i].route
            res == AssembleResult(r, info)
        IN /\ Builtin(r)
           /\ r.kind \in {"rewrite", "regex"} => Needed(r) \subseteq DOMAIN info
           /\ asked' = [by |-> routes[i].name, info |-> info,
                       complete |-> Needed(r) \subseteq DOMAIN info, result |-> res]
           /\ IF res = "uri"
              THEN Ask(AssembledUri(r, info, query), AssembledGet(r, info, query))
              ELSE /\ pc' = IF res = "crash" THEN "crashed" ELSE "idle"
                   /\ UNCHANGED <<uri, get, request, at, threw, claim>>
  BY Zenon DEF Assemble
<1> DEFINE r == routes[i].route
           res == AssembleResult(r, info)
<1>3. res \in {"uri", "crash", "error"}
  BY DEF AssembleResult
<1>4. /\ Builtin(r)
      /\ r.kind \in {"rewrite", "regex"} => Needed(r) \subseteq DOMAIN info
      /\ asked'.by = routes[i].name /\ asked'.info = info /\ asked'.result = res
      /\ res = "uri" => Ask(AssembledUri(r, info, query), AssembledGet(r, info, query))
      /\ res # "uri" => /\ pc' = IF res = "crash" THEN "crashed" ELSE "idle"
                        /\ UNCHANGED <<uri, get, request, at, threw, claim>>
  BY <1>2
<1>5. WellFormed(r) /\ IsInfo(info) /\ IsInfo(query)
  BY RouteWellFormed, InputAssumption
<1>6. CASE res = "uri"
  <2>1. CanAssemble(r, info, query)
    BY <1>4, <1>5, <1>6 DEF CanAssemble
  <2>2. Ask(AssembledUri(r, info, query), AssembledGet(r, info, query))
    BY <1>4, <1>6
  <2> HIDE DEF res
  <2>3. Assembled(i, info, query)
    BY <1>4, <1>6, <2>1, <2>2 DEF Assembled, Ask, res
  <2> QED
    BY <1>1, <2>3
<1>7. CASE res # "uri"
  <2>1. res \in {"crash", "error"} /\ pc' \in {"idle", "crashed"}
    BY <1>3, <1>4, <1>7
  <2>2. UNCHANGED <<uri, get, request, at, threw, claim>>
    BY <1>4, <1>7
  <2> HIDE DEF res
  <2>3. Assembled(i, info, query)
    BY <1>4, <2>1, <2>2 DEF Assembled, res
  <2> QED
    BY <1>1, <2>3
<1> QED
  BY <1>6, <1>7

\* Custom routes rename the request as far as they may.
LEMMA RenamedIs ==
  ASSUME NEW q \in Renamed, IsReq(request)
  PROVE  IsReq(q) /\ q.module = request.module /\ q.action = request.action
         /\ q.params = request.params
<1>1. CASE q = request
  BY <1>1
<1>2. CASE \E n \in CustomNames : q = [request EXCEPT !.controller = n]
  <2>1. PICK n \in CustomNames : q = [request EXCEPT !.controller = n]
    BY <1>2
  <2>2. n \in Name
    BY InputAssumption
  <2>3. q = [module |-> request.module, controller |-> n, action |-> request.action,
             params |-> request.params]
    BY <2>1, ReqParts
  <2> QED
    BY <2>2, <2>3, ReqParts, ReqFrom
<1> QED
  BY <1>1, <1>2 DEF Renamed

\* The first state is well typed.
LEMMA InitTypes == Init => TypeInv
BY EmptyTyped DEF Init, TypeInv

\* Every step keeps the types.
LEMMA NextTypes == TableInv /\ TypeInv /\ [Next]_vars => TypeInv'
<1> SUFFICES ASSUME TableInv, TypeInv, [Next]_vars PROVE TypeInv'
  OBVIOUS
<1>1. CASE AddRoute \/ AddConfig \/ RequestEnds \/ NextHttpRequest
  <2>1. /\ request' = NewRequest /\ uri' = EmptyUri /\ get' = NoParams
        /\ threw' = FALSE /\ claim' = NoClaim
        /\ pc' \in {"idle", "config", "crashed"} /\ current' \in {current, Null}
    BY <1>1 DEF AddRoute, AddConfig, RequestEnds, NextHttpRequest, RequestOver
  <2> QED
    BY <2>1, EmptyTyped DEF TypeInv
<1>2. CASE AddEntry \/ AddConfigDone
  BY <1>2 DEF TypeInv, AddEntry, AddConfigDone
<1>3. CASE AskAnything
  <2>1. PICK q \in Asks : Ask(q[1], q[2])
    BY <1>3 DEF AskAnything
  <2>2. q[1] \in Uri /\ IsGet(q[2])
    BY InputAssumption
  <2>3. /\ request' = NewRequest /\ uri' = q[1] /\ get' = q[2] /\ pc' = "routing"
        /\ threw' = FALSE /\ claim' = NoClaim /\ current' = current
    BY <1>3, <2>1 DEF Ask, AskAnything
  <2> QED
    BY <2>2, <2>3, EmptyTyped DEF TypeInv
<1>4. CASE Assemble
  <2>1. PICK i \in 1 .. Len(routes), info \in Infos, query \in Queries :
          Assembled(i, info, query)
    BY <1>4, AssembleStep
  <2>2. current' = current
    BY <1>4, AssembleStep
  <2>3. CASE asked'.result = "uri"
    <3>1. /\ CanAssemble(routes[i].route, info, query)
          /\ uri' = AssembledUri(routes[i].route, info, query)
          /\ get' = AssembledGet(routes[i].route, info, query)
          /\ request' = NewRequest /\ claim' = NoClaim /\ threw' = FALSE /\ pc' = "routing"
      BY <2>1, <2>3 DEF Assembled
    <3>2. uri' \in Uri /\ IsGet(get')
      BY <3>1, AssembledUriTyped, AssembledGetTyped
    <3> QED
      BY <2>2, <3>1, <3>2, EmptyTyped DEF TypeInv
  <2>4. CASE asked'.result # "uri"
    <3>1. pc' \in {"idle", "crashed"} /\ UNCHANGED <<uri, get, request, threw, claim>>
      BY <2>1, <2>4 DEF Assembled
    <3> QED
      BY <2>2, <3>1 DEF TypeInv
  <2> QED
    BY <2>3, <2>4
<1>5. CASE RouteClaims
  <2> DEFINE r == routes[at].route
  <2>1. /\ at \in 1 .. Len(routes) /\ Builtin(r) /\ Matches(r, uri, get)
        /\ request' = Apply(r, request, uri, get) /\ current' = routes[at].name
        /\ claim'.result = "claimed" /\ pc' = "idle"
        /\ UNCHANGED <<uri, get, threw>>
    BY <1>5 DEF RouteClaims, Claimed, TableInv
  <2>2. WellFormed(r) /\ routes[at].name \in RouteNames
    BY <2>1, RouteWellFormed
  <2>3. IsReq(request')
    BY <2>1, <2>2, ApplyTyped DEF TypeInv
  <2> QED
    BY <2>1, <2>2, <2>3 DEF TypeInv
<1>6. CASE CustomClaims
  <2>1. PICK q \in Renamed : Claimed(q)
    BY <1>6 DEF CustomClaims
  <2>2. /\ at \in 1 .. Len(routes)
        /\ request' = q /\ current' = routes[at].name
        /\ claim'.result = "claimed" /\ pc' = "idle"
        /\ UNCHANGED <<uri, get, threw>>
    BY <1>6, <2>1 DEF CustomClaims, Claimed, TableInv
  <2>3. IsReq(q) /\ routes[at].name \in RouteNames
    BY <2>2, RenamedIs, RouteWellFormed DEF TypeInv
  <2> QED
    BY <2>2, <2>3 DEF TypeInv
<1>7. CASE CustomDeclines
  <2>1. IsReq(request')
    BY <1>7, RenamedIs DEF CustomDeclines, TypeInv
  <2>2. threw' \in BOOLEAN /\ UNCHANGED <<uri, get, pc, current, claim>>
    BY <1>7 DEF CustomDeclines
  <2> QED
    BY <2>1, <2>2 DEF TypeInv
<1>8. CASE RouteDeclines \/ SkippedAfterThrow
  BY <1>8 DEF TypeInv, RouteDeclines, SkippedAfterThrow
<1>9. CASE RouteFails
  <2>1. /\ pc' = "idle" /\ claim'.result = "failed"
        /\ UNCHANGED <<request, uri, get, current, threw>>
    BY <1>9 DEF RouteFails, TableInv, NoClaim
  <2> QED
    BY <2>1 DEF TypeInv
<1>10. CASE UNCHANGED vars
  BY <1>10 DEF vars, TypeInv
<1> QED
  BY <1>1, <1>2, <1>3, <1>4, <1>5, <1>6, <1>7, <1>8, <1>9, <1>10 DEF Next

-----------------------------------------------------------------------------
(* What a claimed request was, and what was asked for *)

Blank(q) == q.module = NoName /\ q.action = NoName /\ q.params = NoParams

\* The request that a built-in route has claimed is what that route makes of the
\* one it found, which custom routes have at most given a controller.
ClaimHeld ==
  LET r == routes[claim.place].route
  IN /\ IsReq(claim.base) /\ Blank(claim.base)
     /\ Builtin(r) => /\ Matches(r, uri, get)
                      /\ request = Apply(r, claim.base, uri, get)

\* The URI that a client asked for is still the one assemble() returned, and the
\* route that assembled it is still in the table.
AskedHeld ==
  \E i \in 1 .. Len(routes), query \in Queries :
    /\ asked.by = routes[i].name
    /\ CanAssemble(routes[i].route, asked.info, query)
    /\ uri = AssembledUri(routes[i].route, asked.info, query)
    /\ get = AssembledGet(routes[i].route, asked.info, query)

HistoryInv ==
  /\ asked.result \in {"none", "uri", "crash", "error"}
  /\ asked.result = "none" => asked.by = Null
  /\ asked.result \in {"crash", "error"} => pc # "routing" /\ claim.place = 0
  /\ pc = "config" => asked.result = "none"
  /\ pc = "routing" => Blank(request)
  /\ claim.result = "none" => claim.place = 0
  /\ claim.place > 0 => ClaimHeld
  /\ asked.result = "uri" => AskedHeld

\* The histories of a request that has only begun.
LEMMA NothingAsked ==
  /\ NotAsked.result = "none" /\ NotAsked.by = Null
  /\ NoClaim.place = 0 /\ NoClaim.result = "none" /\ Blank(NewRequest)
BY DEF NotAsked, NoClaim, Blank, NewRequest

\* Nothing has been asked or claimed.
LEMMA InitHistory == Init => HistoryInv
<1> SUFFICES ASSUME Init PROVE HistoryInv
  OBVIOUS
<1>1. asked = NotAsked /\ claim = NoClaim /\ pc = "idle"
  BY DEF Init
<1> QED
  BY <1>1, NothingAsked DEF HistoryInv

\* Every step keeps what is remembered true.
LEMMA NextHistory == TableInv /\ TypeInv /\ HistoryInv /\ [Next]_vars => HistoryInv'
<1> SUFFICES ASSUME TableInv, TypeInv, HistoryInv, [Next]_vars PROVE HistoryInv'
  OBVIOUS
<1>1. CASE AddRoute \/ AddConfig \/ RequestEnds \/ NextHttpRequest
  <2>1. asked' = NotAsked /\ claim' = NoClaim /\ pc' \in {"idle", "config", "crashed"}
    BY <1>1 DEF AddRoute, AddConfig, RequestEnds, NextHttpRequest, RequestOver
  <2> QED
    BY <2>1, NothingAsked DEF HistoryInv
<1>2. CASE AddEntry
  <2>1. pc = "config" /\ UNCHANGED <<pc, claim, asked>>
    BY <1>2 DEF AddEntry
  <2>2. claim' = NoClaim /\ asked'.result = "none"
    BY <2>1 DEF TableInv, HistoryInv
  <2>3. pc' = "config" /\ asked'.by = Null
    BY <2>1, <2>2 DEF HistoryInv
  <2> QED
    BY <2>2, <2>3, NothingAsked DEF HistoryInv
<1>3. CASE AddConfigDone
  <2>1. pc = "config" /\ pc' = "idle" /\ UNCHANGED <<claim, asked>>
    BY <1>3 DEF AddConfigDone
  <2>2. claim' = NoClaim /\ asked'.result = "none" /\ asked'.by = Null
    BY <2>1 DEF TableInv, HistoryInv
  <2> QED
    BY <2>1, <2>2, NothingAsked DEF HistoryInv
<1>4. CASE AskAnything
  <2>1. request' = NewRequest /\ claim' = NoClaim /\ asked' = NotAsked /\ pc' = "routing"
    BY <1>4 DEF AskAnything, Ask
  <2> QED
    BY <2>1, NothingAsked DEF HistoryInv
<1>5. CASE Assemble
  <2>1. PICK i \in 1 .. Len(routes), info \in Infos, query \in Queries :
          Assembled(i, info, query)
    BY <1>5, AssembleStep
  <2>2. Fresh /\ routes' = routes
    BY <1>5, AssembleStep
  <2>3. CASE asked'.result = "uri"
    <3>1. /\ asked'.by = routes[i].name /\ asked'.info = info
          /\ CanAssemble(routes[i].route, info, query)
          /\ uri' = AssembledUri(routes[i].route, info, query)
          /\ get' = AssembledGet(routes[i].route, info, query)
          /\ request' = NewRequest /\ claim' = NoClaim /\ pc' = "routing"
      BY <2>1, <2>3 DEF Assembled
    <3>2. AskedHeld'
      BY <2>2, <3>1 DEF AskedHeld
    <3> QED
      BY <2>3, <3>1, <3>2, NothingAsked DEF HistoryInv
  <2>4. CASE asked'.result # "uri"
    <3>1. /\ asked'.result \in {"crash", "error"}
          /\ pc' \in {"idle", "crashed"} /\ claim' = claim
      BY <2>1, <2>4 DEF Assembled
    <3>2. claim.place = 0
      BY <2>2 DEF Fresh, HistoryInv
    <3> QED
      BY <3>1, <3>2 DEF HistoryInv
  <2> QED
    BY <2>3, <2>4
<1>6. CASE RouteClaims
  <2>1. /\ at \in 1 .. Len(routes) /\ pc = "routing"
        /\ Builtin(routes[at].route) /\ Matches(routes[at].route, uri, get)
        /\ request' = Apply(routes[at].route, request, uri, get)
        /\ claim'.place = at /\ claim'.base = request /\ claim'.result = "claimed"
        /\ pc' = "idle" /\ UNCHANGED <<routes, uri, get, asked>>
    BY <1>6 DEF RouteClaims, Claimed, TableInv
  <2>2. ClaimHeld'
    BY <2>1 DEF ClaimHeld, HistoryInv, TypeInv
  <2>3. asked.result = "uri" => AskedHeld'
    BY <2>1 DEF AskedHeld, HistoryInv
  <2>4. asked.result \in {"none", "uri"}
    BY <2>1 DEF HistoryInv
  <2> QED
    BY <2>1, <2>2, <2>3, <2>4 DEF HistoryInv
<1>7. CASE CustomClaims
  <2>1. PICK q \in Renamed : Claimed(q)
    BY <1>7 DEF CustomClaims
  <2>2. /\ at \in 1 .. Len(routes) /\ pc = "routing"
        /\ ~Builtin(routes[at].route)
        /\ claim'.place = at /\ claim'.base = request /\ claim'.result = "claimed"
        /\ pc' = "idle" /\ UNCHANGED <<routes, uri, get, asked>>
    BY <1>7, <2>1 DEF CustomClaims, Claimed, TableInv
  <2>3. ClaimHeld'
    BY <2>2 DEF ClaimHeld, HistoryInv, TypeInv
  <2>4. asked.result = "uri" => AskedHeld'
    BY <2>2 DEF AskedHeld, HistoryInv
  <2>5. asked.result \in {"none", "uri"}
    BY <2>2 DEF HistoryInv
  <2> QED
    BY <2>2, <2>3, <2>4, <2>5 DEF HistoryInv
<1>8. CASE RouteDeclines \/ CustomDeclines \/ SkippedAfterThrow
  <2>1. pc = "routing" /\ UNCHANGED <<routes, uri, get, pc, claim, asked>>
    BY <1>8 DEF RouteDeclines, CustomDeclines, SkippedAfterThrow
  <2>2. Blank(request')
    <3>1. request' = request \/ request' \in Renamed
      BY <1>8 DEF RouteDeclines, CustomDeclines, SkippedAfterThrow
    <3>2. Blank(request)
      BY <2>1 DEF HistoryInv
    <3>3. CASE request' \in Renamed
      BY <3>2, <3>3, RenamedIs DEF Blank, TypeInv
    <3> QED
      BY <3>1, <3>2, <3>3
  <2>3. claim' = NoClaim
    BY <2>1 DEF TableInv
  <2>4. asked.result = "uri" => AskedHeld'
    BY <2>1 DEF AskedHeld, HistoryInv
  <2>5. asked.result \in {"none", "uri"} /\ (asked.result = "none" => asked.by = Null)
    BY <2>1 DEF HistoryInv
  <2> QED
    BY <2>1, <2>2, <2>3, <2>4, <2>5, NothingAsked DEF HistoryInv
<1>9. CASE RouteFails
  <2>1. /\ pc = "routing" /\ pc' = "idle" /\ claim'.result = "failed"
        /\ claim'.place = 0 /\ UNCHANGED <<routes, uri, get, asked>>
    BY <1>9, NothingAsked DEF RouteFails, TableInv, NoClaim
  <2>2. asked.result = "uri" => AskedHeld'
    BY <2>1 DEF AskedHeld, HistoryInv
  <2>3. asked.result \in {"none", "uri"} /\ (asked.result = "none" => asked.by = Null)
    BY <2>1 DEF HistoryInv
  <2> QED
    BY <2>1, <2>2, <2>3 DEF HistoryInv
<1>10. CASE UNCHANGED vars
  <2>1. UNCHANGED <<routes, request, uri, get, pc, claim, asked>>
    BY <1>10 DEF vars
  <2>2. (claim.place > 0 => ClaimHeld') /\ (asked.result = "uri" => AskedHeld')
    BY <2>1 DEF ClaimHeld, AskedHeld, HistoryInv
  <2> QED
    BY <2>1, <2>2 DEF HistoryInv
<1> QED
  BY <1>1, <1>2, <1>3, <1>4, <1>5, <1>6, <1>7, <1>8, <1>9, <1>10 DEF Next

RouterInv == TableInv /\ TypeInv /\ HistoryInv

\* The three parts hold together in every reachable state.
LEMMA RouterInvariant == Spec => []RouterInv
<1>1. Init => RouterInv
  BY InitTable, InitTypes, InitHistory DEF RouterInv
<1>2. RouterInv /\ [Next]_vars => RouterInv'
  BY NextTable, NextTypes, NextHistory DEF RouterInv
<1> QED
  BY <1>1, <1>2, PTL DEF Spec

\* For every table of well-formed routes and whatever clients ask: requests,
\* URIs and the table keep their types.
THEOREM RouterTypes == Spec => []TypeOK
<1>1. RouterInv => TypeOK
  BY DEF RouterInv, TableInv, TypeInv, TypeOK, IsReq
<1> QED
  BY <1>1, RouterInvariant, PTL

-----------------------------------------------------------------------------
(* Paths *)

\* The parameters that a path has behind its names.
LEMMA RestIs ==
  ASSUME NEW p \in Seq(Segs), NEW n \in Nat
  PROVE  /\ Rest(p, n) \in Seq(Segs)
         /\ ParseParameters(Rest(p, n)) = ParametersMeaning(Rest(p, n))
         /\ n = Len(p) => DOMAIN ParametersMeaning(Rest(p, n)) = {}
<1>1. Rest(p, n) \in Seq(Segs)
  <2>1. Len(p) \in Int /\ n + 1 \in Int
    BY LenProperties
  <2>2. \A i \in n + 1 .. Len(p) : p[i] \in Segs
    OBVIOUS
  <2> QED
    BY <2>1, <2>2, SubSeqProperties DEF Rest
<1>2. ASSUME n = Len(p) PROVE DOMAIN ParametersMeaning(Rest(p, n)) = {}
  <2>1. Rest(p, n) = <<>>
    BY <1>2, SubSeqEmpty DEF Rest
  <2>2. PairCount(<<>>) = 0
    BY DEF PairCount
  <2>3. DOMAIN ParametersMeaning(<<>>) = {(<<>>)[2 * i - 1] : i \in 1 .. PairCount(<<>>)}
    BY Zenon DEF ParametersMeaning
  <2>4. 1 .. PairCount(<<>>) = {}
    BY <2>2
  <2>5. {(<<>>)[2 * i - 1] : i \in 1 .. PairCount(<<>>)} = {}
    BY <2>4, Zenon
  <2> QED
    BY <2>1, <2>3, <2>5, Zenon
<1> QED
  BY <1>1, <1>2, LastValuesStay

\* Any path claimed as PathMeaning says.
LEMMA PathApplied ==
  ASSUME NEW p \in Seq(Segs), NEW base, base.params = NoParams, NEW q, q = RoutePath(base, p)
  PROVE  LET m == PathMeaning(p)
         IN /\ q.module = SetName(base.module, m.module)
            /\ q.controller = SetName(base.controller, m.controller)
            /\ q.action = SetName(base.action, m.action)
            /\ \A k \in DOMAIN ParametersMeaning(Rest(p, m.used)) :
                 q.params[k] = ParametersMeaning(Rest(p, m.used))[k]
<1> DEFINE m == PathMeaning(p)
           rest == Rest(p, m.used)
           ps == IF m.used = Len(p) THEN base.params
                 ELSE Merge(base.params, ParseParameters(rest))
<1>1. PathInfo(p) = m /\ m.used \in Nat
  BY PathInfoMeaning, PathMeaningTyped
<1>2. q = [module |-> SetName(base.module, m.module),
           controller |-> SetName(base.controller, m.controller),
           action |-> SetName(base.action, m.action), params |-> ps]
  BY <1>1, Zenon DEF RoutePath
<1>3. /\ ParseParameters(rest) = ParametersMeaning(rest)
      /\ m.used = Len(p) => DOMAIN ParametersMeaning(rest) = {}
  BY <1>1, RestIs
<1>4. ASSUME NEW k \in DOMAIN ParametersMeaning(rest)
      PROVE  ps[k] = ParametersMeaning(rest)[k]
  <2>1. ps = Merge(base.params, ParametersMeaning(rest))
    BY <1>3, <1>4
  <2> HIDE DEF ps, rest
  <2> QED
    BY <2>1 DEF Merge
<1> HIDE DEF ps, rest, m
<1>5. /\ q.module = SetName(base.module, m.module)
      /\ q.controller = SetName(base.controller, m.controller)
      /\ q.action = SetName(base.action, m.action)
      /\ q.params = ps
  BY <1>2
<1> QED
  BY <1>4, <1>5 DEF m, rest

\* For every path that the static or the supervar route claims: the names it
\* means on top of what custom routes left, and the last value of each parameter.
THEOREM PathsRouted == Spec => []PathRoutedAsMeant
<1> DEFINE r == routes[claim.place].route
           p == IF r.kind = "static" THEN uri.path ELSE get[r.var]
<1>1. ASSUME RouterInv, claim.place > 0, r.kind \in {"static", "supervar"}
      PROVE  p \in Seq(Segs) /\ claim.base.params = NoParams /\ request = RoutePath(claim.base, p)
  <2>1. ClaimHeld
    BY <1>1 DEF RouterInv, HistoryInv
  <2>2. Builtin(r)
    BY <1>1 DEF Builtin
  <2>3. Matches(r, uri, get) /\ request = Apply(r, claim.base, uri, get)
        /\ claim.base.params = NoParams
    BY <2>1, <2>2 DEF ClaimHeld, Blank
  <2>4. uri \in Uri /\ IsGet(get)
    BY <1>1 DEF RouterInv, TypeInv
  <2> HIDE DEF r
  <2>5. CASE r.kind = "static"
    <3>1. Apply(r, claim.base, uri, get) = RoutePath(claim.base, uri.path)
      BY <2>5 DEF Apply
    <3>2. uri.path \in Seq(Segs)
      BY <2>4 DEF Uri
    <3> QED
      BY <2>3, <2>5, <3>1, <3>2
  <2>6. CASE r.kind = "supervar"
    <3>1. Apply(r, claim.base, uri, get) = RoutePath(claim.base, get[r.var])
      BY <2>6 DEF Apply
    <3>2. get[r.var] \in Seq(Segs)
      BY <2>3, <2>4, <2>6 DEF Matches, IsGet, Name
    <3> QED
      BY <2>3, <2>6, <3>1, <3>2
  <2> QED
    BY <1>1, <2>5, <2>6
<1>2. RouterInv => PathRoutedAsMeant
  <2> HIDE DEF p, r
  <2>1. ASSUME RouterInv, claim.place > 0, r.kind \in {"static", "supervar"}
        PROVE  LET m == PathMeaning(p)
               IN /\ request.module = SetName(claim.base.module, m.module)
                  /\ request.controller = SetName(claim.base.controller, m.controller)
                  /\ request.action = SetName(claim.base.action, m.action)
                  /\ \A k \in DOMAIN ParametersMeaning(Rest(p, m.used)) :
                       request.params[k] = ParametersMeaning(Rest(p, m.used))[k]
    BY <1>1, <2>1, PathApplied
  <2> QED
    BY <2>1, Zenon DEF PathRoutedAsMeant, p, r
<1> QED
  BY <1>2, RouterInvariant, PTL

-----------------------------------------------------------------------------
(* Assembled URIs *)

\* The route that claimed the URI of assemble() is the one that assembled it.
LEMMA CameBack ==
  ASSUME RouterInv, NEW kinds, "custom" \notin kinds, CameBackTo(kinds)
  PROVE  LET r == routes[claim.place].route
         IN /\ r \in Routes /\ r.kind \in kinds
            /\ IsReq(claim.base) /\ Blank(claim.base) /\ Matches(r, uri, get)
            /\ request = Apply(r, claim.base, uri, get)
            /\ \E query \in Queries :
                 /\ CanAssemble(r, asked.info, query)
                 /\ uri = AssembledUri(r, asked.info, query)
                 /\ get = AssembledGet(r, asked.info, query)
<1> DEFINE r == routes[claim.place].route
<1>1. claim.place > 0 /\ asked.by = routes[claim.place].name /\ r.kind \in kinds
  BY DEF CameBackTo
<1>2. claim.place \in 1 .. Len(routes)
  BY <1>1 DEF RouterInv, TableInv
<1>3. Builtin(r)
  BY <1>1 DEF Builtin
<1>4. /\ IsReq(claim.base) /\ Blank(claim.base)
      /\ Matches(r, uri, get) /\ request = Apply(r, claim.base, uri, get)
  BY <1>1, <1>3 DEF RouterInv, HistoryInv, ClaimHeld
<1>5. asked.by # Null
  BY <1>1, <1>2, RouteWellFormed DEF RouterInv
<1>6. asked.result = "uri"
  BY <1>1, <1>5 DEF RouterInv, HistoryInv
<1>7. PICK i \in 1 .. Len(routes), query \in Queries :
        /\ asked.by = routes[i].name
        /\ CanAssemble(routes[i].route, asked.info, query)
        /\ uri = AssembledUri(routes[i].route, asked.info, query)
        /\ get = AssembledGet(routes[i].route, asked.info, query)
  BY <1>6 DEF RouterInv, HistoryInv, AskedHeld
<1>8. i = claim.place
  BY <1>1, <1>2, <1>7 DEF RouterInv, TableInv
<1>9. r \in Routes
  <2>1. routes[claim.place] \in Row
    BY <1>2 DEF RouterInv, TableInv
  <2> QED
    BY <2>1 DEF Row
<1> QED
  BY <1>1, <1>4, <1>7, <1>8, <1>9, Zenon

\* NamePath is read back as the names it was made from.
LEMMA NamePathBack ==
  ASSUME NEW info, IsInfo(info), {"c", "a"} \subseteq DOMAIN info,
         "m" \in DOMAIN info => info["m"] \in Modules
  PROVE  /\ PathMeaning(NamePath(info)).controller = <<info["c"]>>
         /\ PathMeaning(NamePath(info)).action = <<info["a"]>>
         /\ PathMeaning(NamePath(info)).module =
              IF "m" \in DOMAIN info THEN <<info["m"]>> ELSE NoName
<1> DEFINE p == NamePath(info)
<1>1. CASE "m" \in DOMAIN info
  <2>1. p = <<info["m"], info["c"], info["a"]>>
    BY <1>1, NamePathIs
  <2>2. Len(p) = 3 /\ p[1] = info["m"] /\ p[2] = info["c"] /\ p[3] = info["a"]
    BY <2>1
  <2> HIDE DEF p
  <2>3. PathMeaning(p) = PathState(<<p[1]>>, <<p[2]>>, <<p[3]>>, 3)
    BY <1>1, <2>2 DEF PathMeaning
  <2> QED
    BY <1>1, <2>2, <2>3 DEF PathState, p
<1>2. CASE "m" \notin DOMAIN info
  <2>1. p = <<info["c"], info["a"]>>
    BY <1>2, NamePathIs
  <2>2. Len(p) = 2 /\ p[1] = info["c"] /\ p[2] = info["a"]
    BY <2>1
  <2> HIDE DEF p
  <2>3. PathMeaning(p) = PathState(NoName, <<p[1]>>, <<p[2]>>, 2)
    BY <2>2 DEF PathMeaning
  <2> QED
    BY <1>2, <2>2, <2>3 DEF PathState, p
<1> QED
  BY <1>1, <1>2

\* What AssembledRoutesBack says of the names.
NamesBack(info, q) ==
  /\ q.module = IF "m" \in DOMAIN info THEN <<info["m"]>> ELSE NoName
  /\ q.controller = <<info["c"]>>
  /\ q.action = <<info["a"]>>

\* The names come back when the path is routed.
LEMMA PathBack ==
  ASSUME NEW info, IsInfo(info), {"c", "a"} \subseteq DOMAIN info,
         "m" \in DOMAIN info => info["m"] \in Modules,
         NEW base, Blank(base)
  PROVE  NamesBack(info, RoutePath(base, NamePath(info)))
<1> DEFINE p == NamePath(info)
           q == RoutePath(base, p)
           m == PathMeaning(p)
<1>1. p \in Seq(Segs)
  BY NamePathIs
<1>2. /\ m.controller = <<info["c"]>> /\ m.action = <<info["a"]>>
      /\ m.module = IF "m" \in DOMAIN info THEN <<info["m"]>> ELSE NoName
  BY NamePathBack
<1>3. base.module = NoName /\ base.params = NoParams
  BY DEF Blank
<1> HIDE DEF p, q
<1>4. /\ q.module = SetName(base.module, m.module)
      /\ q.controller = SetName(base.controller, m.controller)
      /\ q.action = SetName(base.action, m.action)
  BY <1>1, <1>3, PathApplied DEF q
<1>5. <<info["c"]>> # NoName /\ <<info["a"]>> # NoName
  BY DEF NoName
<1> HIDE DEF m
<1>6. NamesBack(info, q)
  BY <1>2, <1>3, <1>4, <1>5 DEF NamesBack, SetName
<1> QED
  BY <1>6 DEF q, p

\* The names come back from the query of a simple route.
LEMMA SimpleBack ==
  ASSUME NEW r, r.kind = "simple", NEW info, NEW query, CanAssemble(r, info, query),
         "m" \in DOMAIN info => info["m"] \in Modules,
         r.m # r.c, r.m # r.a, r.c # r.a, {r.m, r.c, r.a} \cap DOMAIN query = {},
         NEW base, IsReq(base), Blank(base), NEW u
  PROVE  NamesBack(info, Apply(r, base, u, AssembledGet(r, info, query)))
<1> DEFINE g == AssembledGet(r, info, query)
           fm == [k \in {r.m : x \in {"m"} \cap DOMAIN info} |-> info["m"]]
           fca == [k \in {r.c, r.a} |-> IF k = r.c THEN info["c"] ELSE info["a"]]
<1>1. g = Merge(AsValues(fm), Merge(AsValues(fca), AsValues(query)))
  BY Zenon DEF AssembledGet
<1>2. DOMAIN AsValues(query) = DOMAIN query
  BY DEF AsValues
<1>3. /\ DOMAIN AsValues(fca) = {r.c, r.a}
      /\ AsValues(fca)[r.c] = <<info["c"]>> /\ AsValues(fca)[r.a] = <<info["a"]>>
  BY DEF AsValues
<1>4. /\ DOMAIN AsValues(fm) = IF "m" \in DOMAIN info THEN {r.m} ELSE {}
      /\ "m" \in DOMAIN info => AsValues(fm)[r.m] = <<info["m"]>>
  BY DEF AsValues
<1> DEFINE vm == AsValues(fm)
           vca == AsValues(fca)
           vq == AsValues(query)
<1> HIDE DEF g, vm, vca, vq
<1>5. g = Merge(vm, Merge(vca, vq))
  BY <1>1 DEF vm, vca, vq
<1>6. /\ DOMAIN vq = DOMAIN query /\ DOMAIN vca = {r.c, r.a}
      /\ vca[r.c] = <<info["c"]>> /\ vca[r.a] = <<info["a"]>>
      /\ DOMAIN vm = IF "m" \in DOMAIN info THEN {r.m} ELSE {}
      /\ "m" \in DOMAIN info => vm[r.m] = <<info["m"]>>
  BY <1>2, <1>3, <1>4 DEF vm, vca, vq
<1> DEFINE inner == Merge(vca, vq)
<1>7. /\ DOMAIN inner = {r.c, r.a} \cup DOMAIN query
      /\ inner[r.c] = <<info["c"]>> /\ inner[r.a] = <<info["a"]>>
  BY <1>6 DEF Merge
<1> HIDE DEF inner
<1>8. g = Merge(vm, inner)
  BY <1>5 DEF inner
<1>9. /\ r.c \in DOMAIN g /\ g[r.c] = <<info["c"]>>
      /\ r.a \in DOMAIN g /\ g[r.a] = <<info["a"]>>
  BY <1>7, <1>8 DEF Merge
<1>10. IF "m" \in DOMAIN info THEN r.m \in DOMAIN g /\ g[r.m] = <<info["m"]>>
       ELSE r.m \notin DOMAIN g
  BY <1>6, <1>7, <1>8 DEF Merge
<1> DEFINE m == IF r.m \in DOMAIN g /\ \E x \in Modules : g[r.m] = <<x>> THEN g[r.m] ELSE base.module
<1>11. m = IF "m" \in DOMAIN info THEN <<info["m"]>> ELSE NoName
  BY <1>10 DEF Blank
<1>12. Given(g, r.c, base.controller) = <<info["c"]>> /\ Given(g, r.a, base.action) = <<info["a"]>>
  BY <1>9 DEF Given
<1>13. Apply(r, base, u, g) = RouteSimple(base, r, g)
  BY DEF Apply
<1>14. RouteSimple(base, r, g) = [base EXCEPT !.module = m, !.controller = Given(g, r.c, base.controller),
                                              !.action = Given(g, r.a, base.action)]
  BY Zenon DEF RouteSimple
<1> HIDE DEF m
<1>15. RouteSimple(base, r, g) =
         [module |-> m, controller |-> Given(g, r.c, base.controller),
          action |-> Given(g, r.a, base.action), params |-> base.params]
  <2>1. base = [module |-> base.module, controller |-> base.controller,
                action |-> base.action, params |-> base.params]
    BY ReqParts
  <2> DEFINE c == Given(g, r.c, base.controller)
             a == Given(g, r.a, base.action)
  <2> HIDE DEF c, a
  <2>2. RouteSimple(base, r, g) = [base EXCEPT !.module = m, !.controller = c, !.action = a]
    BY <1>14 DEF c, a
  <2>3. RouteSimple(base, r, g) = [module |-> m, controller |-> c, action |-> a, params |-> base.params]
    BY <2>1, <2>2
  <2> QED
    BY <2>3 DEF c, a
<1>16. NamesBack(info, RouteSimple(base, r, g))
  BY <1>11, <1>12, <1>15 DEF NamesBack
<1> QED
  BY <1>13, <1>16 DEF g

\* For every table without ambiguous query variables, and every second argument
\* of assemble(): a URI assembled by a static, simple or supervar route that
\* the same route claims gives the request the names it was assembled from.
THEOREM AssembledNamesBack ==
  ASSUME Unambiguous
  PROVE  Spec => []AssembledRoutesBack
<1> DEFINE r == routes[claim.place].route
           kinds == {"static", "simple", "supervar"}
<1>1. ASSUME RouterInv, CameBackTo(kinds),
             "m" \in DOMAIN asked.info => asked.info["m"] \in Modules
      PROVE  NamesBack(asked.info, request) /\ {"c", "a"} \subseteq DOMAIN asked.info
  <2>1. /\ r \in Routes /\ r.kind \in kinds
        /\ IsReq(claim.base) /\ Blank(claim.base)
        /\ request = Apply(r, claim.base, uri, get)
    BY <1>1, CameBack
  <2>2. PICK query \in Queries :
          /\ CanAssemble(r, asked.info, query)
          /\ uri = AssembledUri(r, asked.info, query)
          /\ get = AssembledGet(r, asked.info, query)
    BY <1>1, CameBack
  <2> HIDE DEF r
  <2> DEFINE info == asked.info
             base == claim.base
  <2>3. IsInfo(info) /\ {"c", "a"} \subseteq DOMAIN info
    BY <2>1, <2>2, NeededGiven DEF CanAssemble, Needed
  <2> HIDE DEF info, base
  <2>4. /\ CanAssemble(r, info, query) /\ Blank(base) /\ IsReq(base)
        /\ request = Apply(r, base, uri, get)
        /\ uri = AssembledUri(r, info, query) /\ get = AssembledGet(r, info, query)
        /\ "m" \in DOMAIN info => info["m"] \in Modules
    BY <1>1, <2>1, <2>2 DEF info, base
  <2>5. CASE r.kind = "static"
    <3>1. uri.path = NamePath(info)
      BY <2>4, <2>5 DEF AssembledUri, AssembledPath
    <3>2. request = RoutePath(base, NamePath(info))
      BY <2>4, <2>5, <3>1 DEF Apply
    <3> QED
      BY <2>3, <2>4, <3>2, PathBack DEF info
  <2>6. CASE r.kind = "supervar"
    <3>1. get = Merge([k \in {r.var} |-> NamePath(info)], AsValues(query))
      BY <2>4, <2>6, Zenon DEF AssembledGet
    <3>2. r.var \notin DOMAIN AsValues(query)
      BY <2>1, <2>6 DEF Unambiguous, AsValues
    <3>3. get[r.var] = NamePath(info)
      BY <3>1, <3>2 DEF Merge
    <3>4. request = RoutePath(base, NamePath(info))
      BY <2>4, <2>6, <3>3 DEF Apply
    <3> QED
      BY <2>3, <2>4, <3>4, PathBack DEF info
  <2>7. CASE r.kind = "simple"
    <3>1. /\ r.m # r.c /\ r.m # r.a /\ r.c # r.a
          /\ {r.m, r.c, r.a} \cap DOMAIN query = {}
      BY <2>1, <2>7 DEF Unambiguous
    <3>2. NamesBack(info, Apply(r, base, uri, AssembledGet(r, info, query)))
      BY <2>4, <2>7, <3>1, SimpleBack
    <3> QED
      BY <2>3, <2>4, <3>2 DEF info
  <2> QED
    BY <2>1, <2>5, <2>6, <2>7
<1>2. RouterInv => AssembledRoutesBack
  BY <1>1 DEF AssembledRoutesBack, AskedName, NamesBack
<1> QED
  BY <1>2, RouterInvariant, PTL

\* The second of two joined sequences.
LEMMA TailOfConcat ==
  ASSUME NEW S, NEW s \in Seq(S), NEW t \in Seq(S)
  PROVE  SubSeq(s \o t, Len(s) + 1, Len(s) + Len(t)) = t
<1> DEFINE m == Len(s)
           n == Len(t)
           w == s \o t
           x == SubSeq(w, m + 1, m + n)
<1>1. m \in Nat /\ n \in Nat
  BY LenProperties
<1>2. /\ w \in Seq(S) /\ Len(w) = m + n
      /\ \A i \in 1 .. m + n : w[i] = IF i <= m THEN s[i] ELSE t[i - m]
  BY ConcatProperties
<1> HIDE DEF m, n, w
<1>3. \A i \in m + 1 .. m + n : w[i] \in S
  BY <1>1, <1>2
<1>4. /\ x \in Seq(S) /\ Len(x) = IF m + 1 <= m + n THEN (m + n) - (m + 1) + 1 ELSE 0
      /\ \A i \in 1 .. (m + n) - (m + 1) + 1 : x[i] = w[(m + 1) + i - 1]
  <2>1. m + 1 \in Int /\ m + n \in Int
    BY <1>1
  <2> QED
    BY <1>3, <2>1, SubSeqProperties
<1> HIDE DEF x
<1>5. Len(x) = n /\ \A i \in 1 .. n : x[i] = w[m + i]
  BY <1>1, <1>4
<1>6. \A i \in 1 .. n : w[m + i] = t[i]
  BY <1>1, <1>2
<1>7. x = t
  BY <1>4, <1>5, <1>6, SeqEqual DEF n
<1> QED
  BY <1>7 DEF x, w, m, n

\* The arguments of a regex route whose reverse fits.
LEMMA RegexBack ==
  ASSUME ReverseFits, NEW r \in Routes, r.kind = "regex", NEW info, NEW query,
         CanAssemble(r, info, query), NEW v \in {"c", "a"}
  PROVE  LET args == RegexArgs(r.pat, r.map, AssembledUri(r, info, query))
         IN v \in DOMAIN args /\ args[v] = info[v]
<1> DEFINE u == AssembledUri(r, info, query)
           args == RegexArgs(r.pat, r.map, u)
<1>1. r.reverse # Null /\ IsPattern(r.pat) /\ IsPattern(r.reverse) /\ Fills(info, r.reverse)
  BY NeededGiven, PatternFilled DEF CanAssemble, WellFormed
<1>2. u.path = Filled(r.reverse, info)
  BY DEF AssembledUri, AssembledPath
<1>3. IsLastSegments(args, r.pat, r.map, u.path)
  BY <1>1, RegexArgsAre
<1> HIDE DEF args, u
<1>4. v \in DOMAIN args
  BY <1>1, <1>3 DEF ReverseFits, IsLastSegments
<1> DEFINE i == LastMapped(r.pat, r.map, v)
<1>5. i \in Mapped(r.pat, r.map) /\ MapName(r.pat, r.map, i) = v /\ args[v] = u.path[i]
  BY <1>3, <1>4 DEF IsLastSegments
<1> HIDE DEF i
<1>6. i \in VarPlaces(r.reverse) /\ r.reverse[i].v = v
  BY <1>1, <1>5 DEF ReverseFits
<1>7. u.path[i] = info[v]
  BY <1>1, <1>2, <1>6, FilledIs
<1> QED
  BY <1>4, <1>5, <1>7 DEF args, u

\* The arguments of a rewrite route: its variables, and with "*" everything.
LEMMA RewriteBack ==
  ASSUME NEW r, r.kind = "rewrite", Compiles(r.pat), NEW info, NEW query,
         CanAssemble(r, info, query),
         NEW v \in IF RestAt(r.pat) <= Len(r.pat) THEN DOMAIN info
                   ELSE {r.pat[i].v : i \in VarPlaces(r.pat)}
  PROVE  LET args == RewriteArgs(r.pat, AssembledUri(r, info, query))
         IN v \in DOMAIN args /\ args[v] = info[v]
<1> DEFINE pat == r.pat
           u == AssembledUri(r, info, query)
           args == RewriteArgs(pat, u)
           names == {pat[i].v : i \in VarPlaces(pat)}
           named == [x \in names |-> u.path[CHOOSE i \in VarPlaces(pat) : pat[i].v = x]]
           head == Filled(pat, info)
           rest == Pairs(Leftover(pat, info))
<1>1. IsPattern(pat) /\ Fills(info, pat) /\ IsInfo(info)
  BY PatternFilled DEF CanAssemble
<1>2. u.path = head \o IF RestAt(pat) > Len(pat) THEN <<>> ELSE rest
  BY Zenon DEF AssembledUri, AssembledPath
<1>3. /\ head \in Seq(Segs) /\ Len(head) = RestAt(pat) - 1
      /\ \A i \in VarPlaces(pat) : i \in 1 .. RestAt(pat) - 1 /\ head[i] = info[pat[i].v]
  BY <1>1, FilledIs
<1>4. rest \in Seq(Segs)
  <2>1. IsInfo(Leftover(pat, info))
    BY <1>1, LeftoverIs DEF IsLeftover
  <2> QED
    BY <2>1, InfoPairs
<1>5. Len(pat) \in Nat /\ RestAt(pat) \in 1 .. Len(pat) + 1
  BY <1>1, RestAtIs
<1> DEFINE tail == IF RestAt(pat) > Len(pat) THEN <<>> ELSE rest
<1>6. tail \in Seq(Segs)
  BY <1>4
<1> HIDE DEF head, rest, tail
<1>7. /\ u.path \in Seq(Segs) /\ Len(u.path) = RestAt(pat) - 1 + Len(tail)
      /\ \A i \in VarPlaces(pat) : u.path[i] = info[pat[i].v]
  <2>1. u.path = head \o tail
    BY <1>2 DEF tail
  <2> HIDE DEF u
  <2>2. /\ head \o tail \in Seq(Segs) /\ Len(head \o tail) = Len(head) + Len(tail)
        /\ \A i \in 1 .. Len(head) + Len(tail) :
             (head \o tail)[i] = IF i <= Len(head) THEN head[i] ELSE tail[i - Len(head)]
    BY <1>3, <1>6, ConcatProperties, Zenon
  <2>3. Len(tail) \in Nat
    BY <1>6, LenProperties
  <2>4. \A i \in VarPlaces(pat) : (head \o tail)[i] = head[i]
    BY <1>3, <1>5, <2>2, <2>3
  <2> QED
    BY <1>3, <2>1, <2>2, <2>4
<1> HIDE DEF u
<1>8. \A x \in names : named[x] = info[x]
  <2> SUFFICES ASSUME NEW x \in names PROVE named[x] = info[x]
    OBVIOUS
  <2> DEFINE j == CHOOSE i \in VarPlaces(pat) : pat[i].v = x
  <2>1. j \in VarPlaces(pat) /\ pat[j].v = x
    OBVIOUS
  <2>2. named[x] = u.path[j]
    OBVIOUS
  <2> HIDE DEF j, named
  <2> QED
    BY <1>7, <2>1, <2>2
<1>9. CASE RestAt(pat) > Len(pat)
  <2>1. args = named
    BY <1>9, Zenon DEF RewriteArgs
  <2>2. v \in names
    BY <1>5, <1>9
  <2>3. DOMAIN named = names
    OBVIOUS
  <2> HIDE DEF named, names
  <2> QED
    BY <1>8, <2>1, <2>2, <2>3 DEF u
<1>10. CASE ~(RestAt(pat) > Len(pat))
  <2> DEFINE sub == SubSeq(u.path, RestAt(pat), Len(u.path))
             left == ParseParameters(sub)
  <2>1. args = Merge(named, left)
    BY <1>10, Zenon DEF RewriteArgs
  <2>2. sub = rest
    <3>1. tail = rest /\ u.path = head \o rest
      BY <1>2, <1>10 DEF tail, u
    <3>2. SubSeq(head \o rest, Len(head) + 1, Len(head) + Len(rest)) = rest
      BY <1>3, <1>4, TailOfConcat
    <3>3. RestAt(pat) = Len(head) + 1 /\ Len(u.path) = Len(head) + Len(rest)
      <4>1. Len(rest) \in Nat
        BY <1>4, LenProperties
      <4> QED
        BY <1>3, <1>5, <1>7, <3>1, <4>1
    <3> QED
      BY <3>1, <3>2, <3>3
  <2>3. /\ DOMAIN left = DOMAIN info \ names
        /\ \A k \in DOMAIN left : left[k] = info[k]
    <3> DEFINE f == Leftover(pat, info)
    <3>1. /\ IsInfo(f) /\ DOMAIN f = DOMAIN info \ names
          /\ \A k \in DOMAIN f : f[k] = info[k]
      <4>1. IsLeftover(f, info, pat)
        BY <1>1, LeftoverIs
      <4> HIDE DEF f
      <4> QED
        BY <4>1 DEF IsLeftover
    <3>2. left = ParseParameters(Pairs(f))
      BY <2>2 DEF rest
    <3> HIDE DEF f, left, names
    <3>3. /\ DOMAIN ParseParameters(Pairs(f)) = DOMAIN f
          /\ \A k \in DOMAIN f : ParseParameters(Pairs(f))[k] = f[k]
      BY <3>1, InfoPairs
    <3> QED
      BY <3>1, <3>2, <3>3
  <2>4. v \in DOMAIN info
    BY <1>5, <1>10
  <2>5. DOMAIN named = names
    OBVIOUS
  <2> HIDE DEF named, names, left
  <2>6. v \in DOMAIN args /\ args[v] = info[v]
    <3> HIDE DEF args
    <3>1. v \in names \/ v \in DOMAIN left
      BY <2>3, <2>4
    <3> QED
      BY <1>8, <2>1, <2>3, <2>5, <3>1 DEF Merge
  <2> QED
    BY <2>6 DEF u
<1> QED
  BY <1>9, <1>10

\* For every table whose regex routes have fitting reverses: a rewrite or regex
\* route that claims the URI it has assembled gets the variables of the pattern
\* back as parameters, and with "*" everything that was given.
THEOREM FilledVariablesBack ==
  ASSUME ReverseFits
  PROVE  Spec => []VariablesComeBack
<1> DEFINE r == routes[claim.place].route
           kinds == {"rewrite", "regex"}
           sent == IF r.kind = "regex" THEN {"c", "a"}
                   ELSE IF RestAt(r.pat) <= Len(r.pat) THEN DOMAIN asked.info
                   ELSE {r.pat[i].v : i \in VarPlaces(r.pat)}
<1>1. ASSUME RouterInv, CameBackTo(kinds), NEW k \in sent
      PROVE  k \in DOMAIN request.params /\ request.params[k] = asked.info[k]
  <2>1. /\ r \in Routes /\ r.kind \in kinds /\ Matches(r, uri, get)
        /\ request = Apply(r, claim.base, uri, get)
    BY <1>1, CameBack
  <2>2. PICK query \in Queries :
          /\ CanAssemble(r, asked.info, query)
          /\ uri = AssembledUri(r, asked.info, query)
    BY <1>1, CameBack
  <2> HIDE DEF r
  <2> DEFINE args == IF r.kind = "regex" THEN RegexArgs(r.pat, r.map, uri)
                     ELSE RewriteArgs(r.pat, uri)
  <2>3. k \in DOMAIN args /\ args[k] = asked.info[k]
    <3>1. CASE r.kind = "regex"
      <4>1. k \in {"c", "a"}
        BY <1>1, <3>1
      <4> QED
        BY <2>1, <2>2, <3>1, <4>1, RegexBack
    <3>2. CASE r.kind = "rewrite"
      <4>1. k \in IF RestAt(r.pat) <= Len(r.pat) THEN DOMAIN asked.info
                  ELSE {r.pat[i].v : i \in VarPlaces(r.pat)}
        BY <1>1, <3>2
      <4>2. Compiles(r.pat)
        BY <2>1, <3>2 DEF Matches
      <4> QED
        BY <2>2, <3>2, <4>1, <4>2, RewriteBack
    <3> QED
      BY <2>1, <3>1, <3>2
  <2>4. request.params = Merge(claim.base.params, args)
    <3>1. request = RouteDef(claim.base, r.def, args)
      BY <2>1 DEF Apply
    <3> HIDE DEF args
    <3> QED
      BY <3>1 DEF RouteDef
  <2> HIDE DEF args
  <2> QED
    BY <2>3, <2>4 DEF Merge
<1>2. RouterInv => VariablesComeBack
  BY <1>1, Zenon DEF VariablesComeBack
<1> QED
  BY <1>2, RouterInvariant, PTL

=============================================================================
