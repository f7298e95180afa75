--------------------------- MODULE YafPageProofs ---------------------------
(***************************************************************************)
(* Proofs about YafPage: the output buffers, the pages that are made in    *)
(* them and the parts of the response, for any number of templates, nested *)
(* to any depth.                                                           *)
(***************************************************************************)
EXTENDS YafPage, SequenceTheorems, FiniteSetTheorems, WellFoundedInduction, TLAPS

-----------------------------------------------------------------------------
(* What response() writes *)

LEMMA LeastOf ==
  ASSUME NEW S \in SUBSET Nat, S # {}
  PROVE  \E x \in S : \A y \in S : x <= y
  <1> DEFINE R == OpToRel(<, Nat)
  <1>1. IsWellFoundedOn(R, Nat)
    BY NatLessThanWellFounded
  <1>2. \A x, y \in Nat : <<x, y>> \in R <=> x < y
    BY DEF OpToRel
  <1> HIDE DEF R
  <1>3. PICK x \in S : \A y \in S : ~(<<y, x>> \in R)
    BY <1>1, WFMin
  <1>4. \A y \in S : y \in Nat /\ x \in Nat /\ ~(y < x)
    BY <1>2, <1>3
  <1>5. \A y \in S : x <= y
    BY <1>4
  <1> QED BY <1>5

\* g joins the first n texts of s, one after the other.
Joins(g, s, n) == g[1] = s[1] /\ \A i \in 2 .. n : g[i] = g[i - 1] \o s[i]

LEMMA JoinsExists ==
  ASSUME NEW S, NEW s \in Seq(Seq(S)), NEW m \in 1 .. Len(s)
  PROVE  \E g \in [1 .. m -> Seq(S)] : Joins(g, s, m)
  <1> DEFINE Good(n) == \E g \in [1 .. n -> Seq(S)] : Joins(g, s, n)
             Bad == {n \in 1 .. Len(s) : ~Good(n)}
  <1>0. Len(s) \in Nat /\ \A i \in 1 .. Len(s) : s[i] \in Seq(S)
    BY LenProperties, ElementOfSeq
  <1> SUFFICES ASSUME Bad # {} PROVE FALSE
    OBVIOUS
  <1>1. PICK n \in Bad : \A k \in Bad : n <= k
    <2>1. Bad \in SUBSET Nat
      BY <1>0
    <2> HIDE DEF Bad
    <2> QED BY <2>1, LeastOf
  <1>2. n \in 1 .. Len(s) /\ n \in Nat /\ ~Good(n)
    BY <1>0
  <1>3. CASE n = 1
    <2> DEFINE g == [i \in 1 .. 1 |-> s[1]]
    <2>1. s[1] \in Seq(S)
      BY <1>0, <1>2, <1>3
    <2>2. g \in [1 .. 1 -> Seq(S)] /\ g[1] = s[1]
      BY <2>1
    <2> HIDE DEF g
    <2>3. Joins(g, s, 1)
      BY <2>2 DEF Joins
    <2> QED BY <1>2, <1>3, <2>2, <2>3
  <1>4. CASE n > 1
    <2>1. n - 1 \in 1 .. Len(s)
      BY <1>0, <1>2, <1>4
    <2>2. Good(n - 1)
      <3>1. n - 1 \notin Bad
        <4> HIDE DEF Bad
        <4> QED BY <1>1, <1>2
      <3> QED BY <2>1, <3>1
    <2> PICK h \in [1 .. n - 1 -> Seq(S)] : Joins(h, s, n - 1)
      BY <2>2
    <2> DEFINE g == [i \in 1 .. n |-> IF i = n THEN h[n - 1] \o s[n] ELSE h[i]]
    <2>3. h[n - 1] \in Seq(S) /\ s[n] \in Seq(S)
      BY <1>0, <1>2, <1>4, <2>2
    <2>4. h[n - 1] \o s[n] \in Seq(S)
      BY <2>3
    <2>5. g \in [1 .. n -> Seq(S)]
      BY <1>2, <2>2, <2>4
    <2>6. g[1] = s[1]
      BY <1>2, <1>4, <2>2, SMTT(30) DEF Joins
    <2>7. ASSUME NEW i \in 2 .. n PROVE g[i] = g[i - 1] \o s[i]
      <3>1. i \in 1 .. n /\ i - 1 \in 1 .. n /\ i - 1 # n
        BY <1>2
      <3>2. g[i - 1] = h[i - 1]
        BY <3>1
      <3>3. CASE i = n
        <4>1. g[i] = h[n - 1] \o s[n]
          BY <3>1, <3>3
        <4> QED BY <3>2, <3>3, <4>1
      <3>4. CASE i # n
        <4>1. g[i] = h[i] /\ i \in 2 .. n - 1
          BY <1>2, <3>1, <3>4
        <4>2. h[i] = h[i - 1] \o s[i]
          BY <2>2, <4>1 DEF Joins
        <4> QED BY <3>2, <4>1, <4>2
      <3> QED BY <3>3, <3>4
    <2> HIDE DEF g
    <2>8. Joins(g, s, n)
      BY <2>6, <2>7 DEF Joins
    <2> QED BY <1>2, <2>5, <2>8
  <1> QED BY <1>2, <1>3, <1>4

LEMMA FlattenJoins ==
  ASSUME NEW S, NEW s \in Seq(Seq(S)), Len(s) # 0
  PROVE  \E g \in [1 .. Len(s) -> Seq(S)] : Joins(g, s, Len(s)) /\ FlattenSeq(s) = g[Len(s)]
  <1> DEFINE m == Len(s)
             F(h) == [i \in 1 .. Len(s) |-> IF i = 1 THEN s[i] ELSE h[i - 1] \o s[i]]
             f == CHOOSE h : h = F(h)
  <1>0. Len(s) \in Nat /\ m >= 1
    BY LenProperties
  <1>1. PICK g \in [1 .. m -> Seq(S)] : Joins(g, s, m)
    BY <1>0, JoinsExists
  <1>2. g = F(g)
    <2>1. ASSUME NEW i \in 1 .. m PROVE g[i] = IF i = 1 THEN s[i] ELSE g[i - 1] \o s[i]
      <3>1. i = 1 \/ i \in 2 .. m
        BY <1>0
      <3> QED BY <1>1, <3>1 DEF Joins
    <2>2. g = [i \in 1 .. m |-> g[i]]
      BY <1>1
    <2> QED BY <2>1, <2>2
  <1>3. f = F(f)
    BY <1>2
  <1>4. FlattenSeq(s) = f[m]
    BY DEF FlattenSeq
  <1> HIDE DEF f
  <1>5. ASSUME NEW i \in 1 .. m PROVE f[i] = IF i = 1 THEN s[i] ELSE f[i - 1] \o s[i]
    BY <1>3
  <1> DEFINE Bad == {i \in 1 .. m : f[i] # g[i]}
  <1>6. Bad = {}
    <2> SUFFICES ASSUME Bad # {} PROVE FALSE
      OBVIOUS
    <2>1. PICK n \in Bad : \A k \in Bad : n <= k
      <3>1. Bad \in SUBSET Nat
        BY <1>0
      <3> HIDE DEF Bad
      <3> QED BY <3>1, LeastOf
    <2>2. CASE n = 1
      BY <1>1, <1>5, <2>2 DEF Joins
    <2>3. CASE n # 1
      <3>1. n - 1 \in 1 .. m /\ n - 1 \notin Bad /\ n \in 2 .. m
        BY <1>0, <2>1, <2>3
      <3>2. f[n] = f[n - 1] \o s[n] /\ g[n] = g[n - 1] \o s[n]
        BY <1>1, <1>5, <2>3, <3>1 DEF Joins
      <3> QED BY <3>1, <3>2
    <2> QED BY <2>2, <2>3
  <1>7. f[m] = g[m]
    BY <1>0, <1>6, SMTT(30)
  <1> QED BY <1>1, <1>4, <1>7

-----------------------------------------------------------------------------
(* Texts *)

\* No chunk twice in a text, and none in two texts of a sequence that has them.
Once(E, t) == \A i, j \in DOMAIN t : t[i] = t[j] => i = j \/ t[i] \in E

All(s) == UNION {Chunks(s[i].text) : i \in DOMAIN s}

Apart(E, s) ==
  /\ \A i \in DOMAIN s : Once(E, s[i].text)
  /\ \A i, j \in DOMAIN s : i # j => Chunks(s[i].text) \cap Chunks(s[j].text) \subseteq E

\* The names of the response's parts are unique.
Named(s) == \A i, j \in DOMAIN s : s[i].name = s[j].name => i = j

LEMMA TextFacts ==
  ASSUME NEW t \in Text
  PROVE  /\ Len(t) \in Nat /\ DOMAIN t = 1 .. Len(t) /\ Chunks(t) \subseteq Chunk
         /\ \A i \in 1 .. Len(t) : t[i] \in Chunk
  BY LenProperties, ElementOfSeq DEF Text, Chunks

LEMMA ConcatFacts ==
  ASSUME NEW t \in Text, NEW u \in Text
  PROVE  /\ t \o u \in Text /\ Len(t \o u) = Len(t) + Len(u) /\ DOMAIN (t \o u) = 1 .. Len(t) + Len(u)
         /\ \A i \in 1 .. Len(t) + Len(u) : (t \o u)[i] = IF i <= Len(t) THEN t[i] ELSE u[i - Len(t)]
  BY ConcatProperties, LenProperties DEF Text

LEMMA ConcatChunks ==
  ASSUME NEW t \in Text, NEW u \in Text
  PROVE  Chunks(t \o u) = Chunks(t) \cup Chunks(u)
  <1>0. /\ Len(t) \in Nat /\ DOMAIN t = 1 .. Len(t) /\ Len(u) \in Nat /\ DOMAIN u = 1 .. Len(u)
    BY TextFacts
  <1> DEFINE v == t \o u
  <1>1. /\ DOMAIN v = 1 .. Len(t) + Len(u)
        /\ \A i \in 1 .. Len(t) + Len(u) : v[i] = IF i <= Len(t) THEN t[i] ELSE u[i - Len(t)]
    BY ConcatFacts
  <1> HIDE DEF v
  <1>2. ASSUME NEW x \in Chunks(v) PROVE x \in Chunks(t) \cup Chunks(u)
    <2>1. PICK i \in 1 .. Len(t) + Len(u) : x = v[i]
      BY <1>1 DEF Chunks
    <2>2. CASE i <= Len(t)
      BY <1>0, <1>1, <2>1, <2>2 DEF Chunks
    <2>3. CASE i > Len(t)
      <3>1. i - Len(t) \in 1 .. Len(u) /\ x = u[i - Len(t)]
        BY <1>0, <1>1, <2>1, <2>3
      <3> QED BY <1>0, <3>1 DEF Chunks
    <2> QED BY <1>0, <2>2, <2>3
  <1>3. ASSUME NEW x \in Chunks(t) PROVE x \in Chunks(v)
    <2>1. PICK i \in 1 .. Len(t) : x = t[i]
      BY <1>0 DEF Chunks
    <2>2. i \in 1 .. Len(t) + Len(u) /\ v[i] = x
      BY <1>0, <1>1, <2>1
    <2> QED BY <1>1, <2>2 DEF Chunks
  <1>4. ASSUME NEW x \in Chunks(u) PROVE x \in Chunks(v)
    <2>1. PICK i \in 1 .. Len(u) : x = u[i]
      BY <1>0 DEF Chunks
    <2> DEFINE j == i + Len(t)
    <2>2. j \in 1 .. Len(t) + Len(u) /\ ~(j <= Len(t)) /\ j - Len(t) = i
      BY <1>0, <2>1
    <2> HIDE DEF j
    <2>3. v[j] = x
      BY <1>1, <2>1, <2>2
    <2> QED BY <1>1, <2>2, <2>3 DEF Chunks
  <1> QED BY <1>2, <1>3, <1>4 DEF v

LEMMA ConcatOnce ==
  ASSUME NEW E, NEW t \in Text, NEW u \in Text, Once(E, t), Once(E, u), Chunks(t) \cap Chunks(u) \subseteq E
  PROVE  Once(E, t \o u)
  <1>0. /\ Len(t) \in Nat /\ DOMAIN t = 1 .. Len(t) /\ Len(u) \in Nat /\ DOMAIN u = 1 .. Len(u)
    BY TextFacts
  <1> DEFINE v == t \o u
  <1>1. /\ DOMAIN v = 1 .. Len(t) + Len(u)
        /\ \A i \in 1 .. Len(t) + Len(u) : v[i] = IF i <= Len(t) THEN t[i] ELSE u[i - Len(t)]
    BY ConcatFacts
  <1> HIDE DEF v
  <1>2. ASSUME NEW i \in DOMAIN t, NEW j \in DOMAIN u, t[i] = u[j] PROVE t[i] \in E
    BY <1>2 DEF Chunks
  <1>3. ASSUME NEW i \in DOMAIN v, NEW j \in DOMAIN v, v[i] = v[j] PROVE i = j \/ v[i] \in E
    <2>1. i \in Nat /\ j \in Nat
      BY <1>0, <1>1
    <2>2. CASE i <= Len(t) /\ j <= Len(t)
      BY <1>0, <1>1, <1>3, <2>2 DEF Once
    <2>3. CASE i <= Len(t) /\ ~(j <= Len(t))
      BY <1>0, <1>1, <1>2, <1>3, <2>3
    <2>4. CASE ~(i <= Len(t)) /\ j <= Len(t)
      BY <1>0, <1>1, <1>2, <1>3, <2>4
    <2>5. CASE ~(i <= Len(t)) /\ ~(j <= Len(t))
      <3>1. i - Len(t) \in DOMAIN u /\ j - Len(t) \in DOMAIN u /\ u[i - Len(t)] = u[j - Len(t)]
        BY <1>0, <1>1, <1>3, <2>5
      <3>2. i - Len(t) = j - Len(t) \/ u[i - Len(t)] \in E
        BY <3>1 DEF Once
      <3>3. v[i] = u[i - Len(t)]
        BY <1>1, <2>1, <2>5
      <3> QED BY <1>0, <2>1, <3>2, <3>3
    <2> QED BY <2>2, <2>3, <2>4, <2>5
  <1>4. Once(E, v)
    BY <1>3 DEF Once
  <1> QED BY <1>4 DEF v

LEMMA AllMember ==
  ASSUME NEW s, NEW x
  PROVE  x \in All(s) <=> \E i \in DOMAIN s : x \in Chunks(s[i].text)
  BY DEF All

\* One of the texts changes.
LEMMA OneChanges ==
  ASSUME NEW E, NEW s, NEW t, NEW k \in DOMAIN s, DOMAIN t = DOMAIN s,
         \A i \in DOMAIN s : i # k => t[i].text = s[i].text,
         NEW N, N \cap All(s) \subseteq E, Apart(E, s),
         Once(E, t[k].text), Chunks(t[k].text) \subseteq Chunks(s[k].text) \cup N
  PROVE  Apart(E, t) /\ All(t) \subseteq All(s) \cup N
  <1>1. ASSUME NEW i \in DOMAIN t PROVE Once(E, t[i].text)
    <2>1. CASE i = k
      BY <2>1
    <2>2. CASE i # k
      <3>1. t[i].text = s[i].text /\ Once(E, s[i].text)
        BY <2>2 DEF Apart
      <3> QED BY <3>1
    <2> QED BY <2>1, <2>2
  <1>2. ASSUME NEW i \in DOMAIN t, NEW j \in DOMAIN t, i # j, NEW x,
               x \in Chunks(t[i].text), x \in Chunks(t[j].text)
        PROVE  x \in E
    <2>1. Chunks(s[i].text) \cap Chunks(s[j].text) \subseteq E
      BY <1>2 DEF Apart
    <2>2. x \in N /\ (x \in Chunks(s[i].text) \/ x \in Chunks(s[j].text)) => x \in E
      BY AllMember
    <2>3. CASE i = k
      <3>1. t[j].text = s[j].text
        BY <1>2, <2>3
      <3> QED BY <1>2, <2>1, <2>2, <2>3, <3>1
    <2>4. CASE j = k
      <3>1. t[i].text = s[i].text
        BY <1>2, <2>4
      <3> QED BY <1>2, <2>1, <2>2, <2>4, <3>1
    <2>5. CASE i # k /\ j # k
      <3>1. t[i].text = s[i].text /\ t[j].text = s[j].text
        BY <2>5
      <3> QED BY <1>2, <2>1, <3>1
    <2> QED BY <2>3, <2>4, <2>5
  <1>3. ASSUME NEW x \in All(t) PROVE x \in All(s) \cup N
    <2>1. PICK i \in DOMAIN t : x \in Chunks(t[i].text)
      BY AllMember
    <2>2. CASE i = k
      <3>1. x \in Chunks(s[k].text) \/ x \in N
        BY <2>1, <2>2
      <3> QED BY <3>1, AllMember
    <2>3. CASE i # k
      <3>1. x \in Chunks(s[i].text)
        BY <2>1, <2>3
      <3> QED BY <3>1, AllMember
    <2> QED BY <2>2, <2>3
  <1>4. Apart(E, t)
    <2>1. \A i, j \in DOMAIN t : i # j => Chunks(t[i].text) \cap Chunks(t[j].text) \subseteq E
      BY <1>2
    <2> QED BY <1>1, <2>1 DEF Apart
  <1> QED BY <1>3, <1>4

\* Some of the texts are left, in other places.
LEMMA SomeLeft ==
  ASSUME NEW E, NEW s, NEW t, NEW m, \A i \in DOMAIN t : m[i] \in DOMAIN s /\ t[i].text = s[m[i]].text,
         \A i, j \in DOMAIN t : m[i] = m[j] => i = j
  PROVE  (Apart(E, s) => Apart(E, t)) /\ All(t) \subseteq All(s)
  <1>1. ASSUME NEW x \in All(t) PROVE x \in All(s)
    <2>1. PICK i \in DOMAIN t : x \in Chunks(t[i].text)
      BY AllMember
    <2>2. m[i] \in DOMAIN s /\ x \in Chunks(s[m[i]].text)
      BY <2>1
    <2> QED BY <2>2, AllMember
  <1>2. ASSUME Apart(E, s) PROVE Apart(E, t)
    <2>1. ASSUME NEW i \in DOMAIN t PROVE Once(E, t[i].text)
      <3>1. Once(E, s[m[i]].text) /\ t[i].text = s[m[i]].text
        BY <1>2 DEF Apart
      <3> QED BY <3>1
    <2>2. ASSUME NEW i \in DOMAIN t, NEW j \in DOMAIN t, i # j
          PROVE  Chunks(t[i].text) \cap Chunks(t[j].text) \subseteq E
      <3>1. m[i] # m[j] /\ m[i] \in DOMAIN s /\ m[j] \in DOMAIN s
        BY <2>2
      <3>2. Chunks(s[m[i]].text) \cap Chunks(s[m[j]].text) \subseteq E
        BY <1>2, <3>1 DEF Apart
      <3>3. t[i].text = s[m[i]].text /\ t[j].text = s[m[j]].text
        OBVIOUS
      <3> QED BY <3>2, <3>3
    <2> QED BY <2>1, <2>2 DEF Apart
  <1> QED BY <1>1, <1>2

\* A text is added in place k, the others were in the places m[i].
Adds(E, s, t, k, m) ==
  /\ k \in DOMAIN t
  /\ \A i \in DOMAIN t \ {k} : m[i] \in DOMAIN s /\ t[i].text = s[m[i]].text
  /\ \A i, j \in DOMAIN t \ {k} : m[i] = m[j] => i = j
  /\ Once(E, t[k].text) /\ Chunks(t[k].text) \cap All(s) \subseteq E

LEMMA OneAdded ==
  ASSUME NEW E, NEW s, NEW t, NEW k, NEW m, Adds(E, s, t, k, m)
  PROVE  (Apart(E, s) => Apart(E, t)) /\ All(t) \subseteq All(s) \cup Chunks(t[k].text)
  <1> USE DEF Adds
  <1>1. ASSUME NEW x \in All(t) PROVE x \in All(s) \cup Chunks(t[k].text)
    <2>1. PICK i \in DOMAIN t : x \in Chunks(t[i].text)
      BY AllMember
    <2>2. i # k => m[i] \in DOMAIN s /\ x \in Chunks(s[m[i]].text)
      BY <2>1
    <2> QED BY <2>1, <2>2, AllMember
  <1>2. ASSUME Apart(E, s) PROVE Apart(E, t)
    <2>1. ASSUME NEW i \in DOMAIN t PROVE Once(E, t[i].text)
      <3>1. i # k => Once(E, s[m[i]].text) /\ t[i].text = s[m[i]].text
        BY <1>2 DEF Apart
      <3> QED BY <3>1
    <2>2. ASSUME NEW i \in DOMAIN t, i # k PROVE Chunks(t[i].text) \cap Chunks(t[k].text) \subseteq E
      <3>1. Chunks(t[i].text) \subseteq All(s)
        <4>1. m[i] \in DOMAIN s /\ t[i].text = s[m[i]].text
          BY <2>2
        <4> QED BY <4>1, AllMember
      <3> QED BY <3>1
    <2>3. ASSUME NEW i \in DOMAIN t, NEW j \in DOMAIN t, i # j, i # k, j # k
          PROVE  Chunks(t[i].text) \cap Chunks(t[j].text) \subseteq E
      <3>1. m[i] # m[j] /\ m[i] \in DOMAIN s /\ m[j] \in DOMAIN s
        BY <2>3
      <3>2. Chunks(s[m[i]].text) \cap Chunks(s[m[j]].text) \subseteq E
        BY <1>2, <3>1 DEF Apart
      <3>3. t[i].text = s[m[i]].text /\ t[j].text = s[m[j]].text
        BY <2>3
      <3> QED BY <3>2, <3>3
    <2>4. ASSUME NEW i \in DOMAIN t, NEW j \in DOMAIN t, i # j
          PROVE  Chunks(t[i].text) \cap Chunks(t[j].text) \subseteq E
      <3>1. CASE i = k
        BY <2>2, <2>4, <3>1
      <3>2. CASE j = k
        BY <2>2, <2>4, <3>2
      <3> QED BY <2>3, <2>4, <3>1, <3>2
    <2> QED BY <2>1, <2>4 DEF Apart
  <1> QED BY <1>1, <1>2

LEMMA TailFacts ==
  ASSUME NEW R, NEW s \in Seq(R), s # <<>>
  PROVE  /\ Tail(s) \in Seq(R) /\ Len(s) \in Nat /\ Len(s) >= 1 /\ Len(Tail(s)) = Len(s) - 1
         /\ DOMAIN s = 1 .. Len(s) /\ DOMAIN Tail(s) = 1 .. Len(s) - 1 /\ s[1] \in R
         /\ \A i \in 1 .. Len(s) - 1 : Tail(s)[i] = s[i + 1]
  <1>1. Tail(s) \in Seq(R) /\ Len(Tail(s)) = Len(s) - 1 /\ \A i \in 1 .. Len(Tail(s)) : Tail(s)[i] = s[i + 1]
    BY HeadTailProperties
  <1>2. Len(s) \in Nat /\ Len(s) >= 1 /\ DOMAIN s = 1 .. Len(s)
    BY LenProperties, EmptySeq
  <1>3. DOMAIN Tail(s) = 1 .. Len(s) - 1
    BY <1>1, LenProperties
  <1>4. s[1] \in R
    BY <1>2, ElementOfSeq
  <1> QED BY <1>1, <1>2, <1>3, <1>4

LEMMA TailTexts ==
  ASSUME NEW E, NEW R, NEW s \in Seq(R), s # <<>>
  PROVE  /\ (Apart(E, s) => Apart(E, Tail(s))) /\ All(Tail(s)) \subseteq All(s)
         /\ Apart(E, s) => Once(E, s[1].text) /\ Chunks(s[1].text) \cap All(Tail(s)) \subseteq E
         /\ Chunks(s[1].text) \subseteq All(s)
  <1> DEFINE t == Tail(s)
             m == [i \in 1 .. Len(s) - 1 |-> i + 1]
  <1>1. /\ Len(s) \in Nat /\ Len(s) >= 1 /\ DOMAIN s = 1 .. Len(s) /\ DOMAIN t = 1 .. Len(s) - 1
        /\ \A i \in 1 .. Len(s) - 1 : t[i] = s[i + 1]
    BY TailFacts
  <1> HIDE DEF t
  <1>2. \A i \in DOMAIN t : m[i] \in DOMAIN s /\ t[i].text = s[m[i]].text
    BY <1>1
  <1>3. \A i, j \in DOMAIN t : m[i] = m[j] => i = j
    BY <1>1
  <1> HIDE DEF m
  <1>4. (Apart(E, s) => Apart(E, t)) /\ All(t) \subseteq All(s)
    BY <1>2, <1>3, SomeLeft
  <1>5. ASSUME Apart(E, s), NEW x \in Chunks(s[1].text), x \in All(t) PROVE x \in E
    <2>1. PICK i \in DOMAIN t : x \in Chunks(t[i].text)
      BY <1>5, AllMember
    <2>2. i + 1 \in DOMAIN s /\ 1 \in DOMAIN s /\ i + 1 # 1 /\ t[i] = s[i + 1]
      BY <1>1
    <2>3. Chunks(s[1].text) \cap Chunks(s[i + 1].text) \subseteq E
      BY <1>5, <2>2 DEF Apart
    <2> QED BY <1>5, <2>1, <2>2, <2>3
  <1>6. Chunks(s[1].text) \subseteq All(s) /\ 1 \in DOMAIN s
    BY <1>1, AllMember
  <1>7. Apart(E, s) => Once(E, s[1].text)
    BY <1>6 DEF Apart
  <1>8. Apart(E, s) => Chunks(s[1].text) \cap All(t) \subseteq E
    BY <1>5
  <1> QED BY <1>4, <1>6, <1>7, <1>8 DEF t

LEMMA PushFacts ==
  ASSUME NEW R, NEW s \in Seq(R), NEW f \in R, NEW t, t = <<f>> \o s
  PROVE  /\ t \in Seq(R) /\ t # <<>> /\ Len(t) = Len(s) + 1 /\ Len(s) \in Nat /\ t[1] = f /\ Tail(t) = s
         /\ DOMAIN t = 1 .. Len(s) + 1 /\ DOMAIN s = 1 .. Len(s)
         /\ \A i \in 1 .. Len(s) : t[i + 1] = s[i]
  <1>1. t \in Seq(R) /\ t # <<>> /\ t[1] = f /\ Tail(t) = s /\ Len(t) = Len(s) + 1
    OBVIOUS
  <1>2. Len(s) \in Nat /\ DOMAIN s = 1 .. Len(s) /\ DOMAIN t = 1 .. Len(t)
    BY <1>1, LenProperties
  <1>3. \A i \in 1 .. Len(t) - 1 : Tail(t)[i] = t[i + 1]
    BY <1>1, TailFacts
  <1>4. Len(t) - 1 = Len(s)
    BY <1>1, <1>2
  <1> QED BY <1>1, <1>2, <1>3, <1>4

\* A buffer is opened.
LEMMA PushTexts ==
  ASSUME NEW E, NEW R, NEW s \in Seq(R), NEW f \in R, f.text = <<>>, NEW t, t = <<f>> \o s
  PROVE  (Apart(E, s) => Apart(E, t)) /\ All(t) \subseteq All(s)
  <1> DEFINE m == [i \in 1 .. Len(s) + 1 |-> i - 1]
  <1>1. /\ Len(s) \in Nat /\ t[1] = f /\ DOMAIN t = 1 .. Len(s) + 1 /\ DOMAIN s = 1 .. Len(s)
        /\ \A i \in 1 .. Len(s) : t[i + 1] = s[i]
    BY PushFacts
  <1>2. ASSUME NEW i \in DOMAIN t, i # 1 PROVE m[i] \in DOMAIN s /\ t[i].text = s[m[i]].text
    <2>1. i - 1 \in 1 .. Len(s) /\ (i - 1) + 1 = i /\ m[i] = i - 1
      BY <1>1, <1>2
    <2> QED BY <1>1, <2>1
  <1>3. \A i, j \in DOMAIN t : i # 1 /\ j # 1 /\ m[i] = m[j] => i = j
    BY <1>1
  <1>4. Once(E, t[1].text) /\ Chunks(t[1].text) = {} /\ Chunks(t[1].text) \cap All(s) \subseteq E /\ 1 \in DOMAIN t
    BY <1>1 DEF Once, Chunks
  <1> HIDE DEF m
  <1> DEFINE k == 1
  <1>5. /\ \A i \in DOMAIN t \ {k} : m[i] \in DOMAIN s /\ t[i].text = s[m[i]].text
        /\ \A i, j \in DOMAIN t \ {k} : m[i] = m[j] => i = j
        /\ Once(E, t[k].text) /\ Chunks(t[k].text) \cap All(s) \subseteq E /\ k \in DOMAIN t
        /\ Chunks(t[k].text) = {}
    BY <1>2, <1>3, <1>4
  <1> HIDE DEF k
  <1>6. (Apart(E, s) => Apart(E, t)) /\ All(t) \subseteq All(s) \cup Chunks(t[k].text)
    <2>1. Adds(E, s, t, k, m)
      BY <1>5 DEF Adds
    <2> QED BY <2>1, OneAdded
  <1> QED BY <1>5, <1>6

\* A new part of the response.
LEMMA AppendTexts ==
  ASSUME NEW E, NEW R, NEW s \in Seq(R), NEW f \in R, Once(E, f.text), Chunks(f.text) \cap All(s) \subseteq E,
         NEW t, t = Append(s, f)
  PROVE  t \in Seq(R) /\ (Apart(E, s) => Apart(E, t)) /\ All(t) \subseteq All(s) \cup Chunks(f.text)
  <1> DEFINE k == Len(s) + 1
             m == [i \in 1 .. Len(s) + 1 |-> i]
  <1>1. /\ t \in Seq(R) /\ Len(t) = Len(s) + 1 /\ Len(s) \in Nat
        /\ \A i \in 1 .. Len(s) : t[i] = s[i]
        /\ t[k] = f
    BY AppendProperties, LenProperties
  <1>2. DOMAIN t = 1 .. Len(s) + 1 /\ DOMAIN s = 1 .. Len(s)
    BY <1>1, LenProperties
  <1>3. \A i \in DOMAIN t \ {k} : m[i] \in DOMAIN s /\ t[i].text = s[m[i]].text
    BY <1>1, <1>2
  <1>4. \A i, j \in DOMAIN t \ {k} : m[i] = m[j] => i = j
    BY <1>2
  <1>5. k \in DOMAIN t /\ t[k].text = f.text /\ Once(E, t[k].text) /\ Chunks(t[k].text) \cap All(s) \subseteq E
    BY <1>1, <1>2
  <1> HIDE DEF k, m
  <1>6. (Apart(E, s) => Apart(E, t)) /\ All(t) \subseteq All(s) \cup Chunks(t[k].text)
    <2>1. Adds(E, s, t, k, m)
      BY <1>3, <1>4, <1>5 DEF Adds
    <2> QED BY <2>1, OneAdded
  <1> QED BY <1>1, <1>5, <1>6

\* A part of the response is removed.
LEMMA RemoveTexts ==
  ASSUME NEW E, NEW R, NEW s \in Seq(R), NEW k \in DOMAIN s, NEW t, t = RemoveAt(s, k)
  PROVE  /\ t \in Seq(R) /\ (Apart(E, s) => Apart(E, t)) /\ All(t) \subseteq All(s)
         /\ Named(s) => Named(t)
  <1> DEFINE a == SubSeq(s, 1, k - 1)
             b == SubSeq(s, k + 1, Len(s))
             m == [i \in 1 .. Len(s) - 1 |-> IF i < k THEN i ELSE i + 1]
  <1>0. Len(s) \in Nat /\ DOMAIN s = 1 .. Len(s) /\ k \in 1 .. Len(s)
    BY LenProperties
  <1>1. a \in Seq(R) /\ Len(a) = k - 1 /\ \A i \in 1 .. k - 1 : a[i] = s[i]
    <2>1. CASE k = 1
      BY <1>0, <2>1
    <2>2. CASE k # 1
      BY <1>0, <2>2
    <2> QED BY <2>1, <2>2
  <1>2. b \in Seq(R) /\ Len(b) = Len(s) - k /\ \A i \in 1 .. Len(s) - k : b[i] = s[i + k]
    <2>1. CASE k = Len(s)
      BY <1>0, <2>1
    <2>2. CASE k # Len(s)
      BY <1>0, <2>2
    <2> QED BY <2>1, <2>2
  <1>3. t = a \o b
    BY DEF RemoveAt
  <1> HIDE DEF a, b
  <1>4. /\ t \in Seq(R) /\ Len(t) = Len(s) - 1
        /\ \A i \in 1 .. Len(s) - 1 : t[i] = IF i <= k - 1 THEN a[i] ELSE b[i - (k - 1)]
    <2>1. Len(a) + Len(b) = Len(s) - 1
      BY <1>0, <1>1, <1>2
    <2>2. a \in Seq(R) /\ b \in Seq(R)
      BY <1>1, <1>2
    <2>3. /\ t \in Seq(R) /\ Len(t) = Len(a) + Len(b)
          /\ \A i \in 1 .. Len(a) + Len(b) : t[i] = IF i <= Len(a) THEN a[i] ELSE b[i - Len(a)]
      BY <1>3, <2>2, ConcatProperties
    <2> QED BY <1>1, <2>1, <2>3
  <1>5. DOMAIN t = 1 .. Len(s) - 1
    BY <1>4, LenProperties
  <1>6. ASSUME NEW i \in 1 .. Len(s) - 1 PROVE m[i] \in 1 .. Len(s) /\ t[i] = s[m[i]]
    <2>1. CASE i < k
      <3>1. i <= k - 1 /\ i \in 1 .. k - 1 /\ m[i] = i
        BY <1>0, <2>1
      <3> QED BY <1>0, <1>1, <1>4, <3>1
    <2>2. CASE ~(i < k)
      <3> DEFINE j == i - (k - 1)
      <3>1. ~(i <= k - 1) /\ j \in 1 .. Len(s) - k /\ m[i] = i + 1 /\ j + k = i + 1 /\ i + 1 \in 1 .. Len(s)
        BY <1>0, <2>2
      <3>2. t[i] = b[j]
        BY <1>4, <3>1
      <3> HIDE DEF j
      <3>3. b[j] = s[j + k]
        BY <1>2, <3>1
      <3> QED BY <3>1, <3>2, <3>3
    <2> QED BY <2>1, <2>2
  <1>7. \A i, j \in DOMAIN t : m[i] = m[j] => i = j
    BY <1>0, <1>5
  <1>8. \A i \in DOMAIN t : m[i] \in DOMAIN s /\ t[i].text = s[m[i]].text
    BY <1>0, <1>5, <1>6
  <1>9. \A i \in DOMAIN t : m[i] \in DOMAIN s /\ t[i] = s[m[i]]
    BY <1>0, <1>5, <1>6
  <1> HIDE DEF m
  <1>10. (Apart(E, s) => Apart(E, t)) /\ All(t) \subseteq All(s)
    BY <1>7, <1>8, SomeLeft
  <1>11. Named(s) => Named(t)
    BY <1>7, <1>9 DEF Named
  <1> QED BY <1>4, <1>10, <1>11

-----------------------------------------------------------------------------
(* The parts of the response in one text *)

LEMMA FlattenFacts ==
  ASSUME NEW E, NEW s \in Seq(Text), NEW f, f = FlattenSeq(s)
  PROVE  /\ f \in Text
         /\ \A x \in Chunks(f) : \E i \in DOMAIN s : x \in Chunks(s[i])
         /\ (/\ \A i \in DOMAIN s : Once(E, s[i])
             /\ \A i, j \in DOMAIN s : i # j => Chunks(s[i]) \cap Chunks(s[j]) \subseteq E) => Once(E, f)
  <1>0. Len(s) \in Nat /\ DOMAIN s = 1 .. Len(s) /\ \A i \in 1 .. Len(s) : s[i] \in Text
    BY LenProperties, ElementOfSeq
  <1>1. CASE Len(s) = 0
    <2>1. f = <<>>
      BY <1>0, <1>1, EmptySeq DEF FlattenSeq
    <2> QED BY <2>1 DEF Text, Chunks, Once
  <1>2. CASE Len(s) # 0
    <2> DEFINE m == Len(s)
    <2>1. PICK g \in [1 .. m -> Text] : Joins(g, s, m) /\ f = g[m]
      BY <1>2, FlattenJoins DEF Text
    <2> DEFINE Apt == /\ \A i \in DOMAIN s : Once(E, s[i])
                      /\ \A i, j \in DOMAIN s : i # j => Chunks(s[i]) \cap Chunks(s[j]) \subseteq E
               From(n) == \A x \in Chunks(g[n]) : \E i \in 1 .. n : x \in Chunks(s[i])
               Good(n) == From(n) /\ (Apt => Once(E, g[n]))
               Bad == {n \in 1 .. m : ~Good(n)}
    <2>2. Good(1)
      <3>1. g[1] = s[1] /\ 1 \in DOMAIN s
        BY <1>0, <1>2, <2>1 DEF Joins
      <3>2. From(1)
        BY <3>1
      <3> QED BY <3>1, <3>2
    <2>3. ASSUME NEW n \in 2 .. m, Good(n - 1) PROVE Good(n)
      <3>1. /\ n \in Nat /\ n - 1 \in 1 .. m /\ n \in 1 .. m /\ s[n] \in Text /\ g[n - 1] \in Text
            /\ g[n] = g[n - 1] \o s[n] /\ n \in DOMAIN s
        <4>1. n \in Nat /\ n - 1 \in 1 .. m /\ n \in 1 .. m
          BY <1>0
        <4>2. g[n] = g[n - 1] \o s[n]
          BY <2>1 DEF Joins
        <4>3. g[n - 1] \in Text /\ s[n] \in Text /\ n \in DOMAIN s
          BY <1>0, <2>1, <4>1
        <4> QED BY <4>1, <4>2, <4>3
      <3>2. Chunks(g[n]) = Chunks(g[n - 1]) \cup Chunks(s[n])
        BY <3>1, ConcatChunks
      <3>3. From(n - 1)
        BY <2>3
      <3>4. From(n)
        <4> SUFFICES ASSUME NEW x \in Chunks(g[n]) PROVE \E i \in 1 .. n : x \in Chunks(s[i])
          OBVIOUS
        <4>1. CASE x \in Chunks(s[n])
          BY <3>1, <4>1
        <4>2. CASE x \in Chunks(g[n - 1])
          <5>1. PICK i \in 1 .. n - 1 : x \in Chunks(s[i])
            BY <3>3, <4>2
          <5>2. i \in 1 .. n
            BY <3>1
          <5> QED BY <5>1, <5>2
        <4> QED BY <3>2, <4>1, <4>2
      <3>5. ASSUME Apt PROVE Once(E, g[n])
        <4>1. Once(E, g[n - 1]) /\ Once(E, s[n])
          BY <2>3, <3>1, <3>5
        <4>2. ASSUME NEW x \in Chunks(g[n - 1]), x \in Chunks(s[n]) PROVE x \in E
          <5>1. PICK i \in 1 .. n - 1 : x \in Chunks(s[i])
            BY <3>3, <4>2
          <5>2. i \in DOMAIN s /\ i # n
            BY <1>0, <3>1
          <5> QED BY <3>1, <3>5, <4>2, <5>1, <5>2
        <4>3. Chunks(g[n - 1]) \cap Chunks(s[n]) \subseteq E
          BY <4>2
        <4> HIDE DEF Apt
        <4> QED BY <3>1, <4>1, <4>3, ConcatOnce
      <3> QED BY <3>4, <3>5
    <2> HIDE DEF Good
    <2>4. Bad = {}
      <3> SUFFICES ASSUME Bad # {} PROVE FALSE
        OBVIOUS
      <3>1. PICK n \in Bad : \A k \in Bad : n <= k
        <4>1. Bad \in SUBSET Nat
          BY <1>0
        <4> HIDE DEF Bad
        <4> QED BY <4>1, LeastOf
      <3>2. n \in 1 .. m /\ ~Good(n) /\ n # 1
        BY <2>2
      <3>3. n - 1 \in 1 .. m /\ n \in 2 .. m /\ n \in Nat
        BY <1>0, <3>2
      <3>4. n - 1 \notin Bad
        <4> HIDE DEF Bad
        <4> QED BY <3>1, <3>3
      <3> QED BY <2>3, <3>2, <3>3, <3>4
    <2>5. Good(m)
      BY <1>0, <1>2, <2>4
    <2>6. From(m) /\ (Apt => Once(E, g[m])) /\ m \in 1 .. m
      BY <1>0, <1>2, <2>5 DEF Good
    <2>7. f \in Text /\ f = g[m]
      BY <2>1, <2>6
    <2>8. \A x \in Chunks(f) : \E i \in DOMAIN s : x \in Chunks(s[i])
      BY <1>0, <2>6, <2>7
    <2>9. Apt => Once(E, f)
      BY <2>6, <2>7
    <2> QED BY <2>7, <2>8, <2>9
  <1> QED BY <1>1, <1>2

Buffer == [yaf : BOOLEAN, text : Text]
BodyPart == [name : Parts, text : Text]

LEMMA JoinedFacts ==
  ASSUME NEW E, body \in Seq(BodyPart)
  PROVE  Joined \in Text /\ Chunks(Joined) \subseteq All(body) /\ (Apart(E, body) => Once(E, Joined))
  <1> DEFINE s == [i \in DOMAIN body |-> body[i].text]
             f == FlattenSeq(s)
  <1>1. Len(body) \in Nat /\ DOMAIN body = 1 .. Len(body) /\ \A i \in 1 .. Len(body) : body[i] \in BodyPart
    BY LenProperties, ElementOfSeq
  <1>2. s \in [1 .. Len(body) -> Text]
    BY <1>1 DEF BodyPart
  <1>3. s \in Seq(Text) /\ DOMAIN s = DOMAIN body
    BY <1>1, <1>2, IsASeq
  <1>4. \A i \in DOMAIN body : s[i] = body[i].text
    OBVIOUS
  <1>5. Joined = f
    BY DEF Joined
  <1> HIDE DEF s
  <1>6. /\ f \in Text
        /\ \A x \in Chunks(f) : \E i \in DOMAIN s : x \in Chunks(s[i])
        /\ (/\ \A i \in DOMAIN s : Once(E, s[i])
            /\ \A i, j \in DOMAIN s : i # j => Chunks(s[i]) \cap Chunks(s[j]) \subseteq E) => Once(E, f)
    BY <1>3, FlattenFacts
  <1> HIDE DEF f
  <1>7. Chunks(f) \subseteq All(body)
    BY <1>3, <1>4, <1>6, AllMember
  <1>8. Apart(E, body) => Once(E, f)
    BY <1>3, <1>4, <1>6 DEF Apart
  <1> QED BY <1>5, <1>6, <1>7, <1>8

LEMMA JoinedType ==
  ASSUME body \in Seq(BodyPart)
  PROVE  Joined \in Text /\ Chunks(Joined) \subseteq All(body)
  <1> DEFINE E == {}
  <1>1. Joined \in Text /\ Chunks(Joined) \subseteq All(body) /\ (Apart(E, body) => Once(E, Joined))
    BY JoinedFacts
  <1> QED BY <1>1

-----------------------------------------------------------------------------
(* What the output layer does to the buffers *)

\* t is s with u written to its first text.
Written(s, t, u) ==
  /\ t \in Seq(Buffer) /\ Len(t) = Len(s) /\ s # <<>>
  /\ t[1].text = s[1].text \o u /\ t[1].yaf = s[1].yaf
  /\ \A i \in 2 .. Len(s) : t[i] = s[i]

LEMMA ToppedUp ==
  ASSUME NEW s \in Seq(Buffer), s # <<>>, NEW u \in Text, NEW t, t = [s EXCEPT ![1].text = @ \o u]
  PROVE  Written(s, t, u)
  <1>1. Len(s) \in Nat /\ Len(s) >= 1 /\ DOMAIN s = 1 .. Len(s) /\ s[1] \in Buffer
    BY TailFacts
  <1> DEFINE b == [s[1] EXCEPT !.text = @ \o u]
  <1>2. b \in Buffer /\ b.text = s[1].text \o u /\ b.yaf = s[1].yaf
    <2>1. s[1].text \o u \in Text
      BY <1>1, ConcatFacts DEF Buffer
    <2> QED BY <1>1, <2>1 DEF Buffer
  <1>3. t = [s EXCEPT ![1] = b]
    OBVIOUS
  <1> HIDE DEF b
  <1> DEFINE k == 1
  <1>4. k \in 1 .. Len(s)
    BY <1>1
  <1>5. t = [s EXCEPT ![k] = b]
    BY <1>3
  <1> HIDE DEF k
  <1>6. t \in Seq(Buffer) /\ Len(t) = Len(s)
    <2>1. s \in [1 .. Len(s) -> Buffer]
      BY LenProperties
    <2>2. t \in [1 .. Len(s) -> Buffer]
      BY <1>2, <1>4, <1>5, <2>1
    <2> QED BY <1>1, <2>2, IsASeq
  <1>7. \A j \in 1 .. Len(s) : t[j] = IF j = k THEN b ELSE s[j]
    BY <1>1, <1>4, <1>5
  <1>8. t[1] = b
    BY <1>4, <1>7 DEF k
  <1>9. \A i \in 2 .. Len(s) : t[i] = s[i]
    BY <1>1, <1>7 DEF k
  <1> QED BY <1>2, <1>6, <1>8, <1>9 DEF Written

LEMMA WriteShape ==
  ASSUME out \in Text, buf \in Seq(Buffer), NEW u \in Text, Write(u)
  PROVE  /\ out' \in Text /\ buf' \in Seq(Buffer) /\ Len(buf') = Len(buf)
         /\ \/ buf = <<>> /\ buf' = buf /\ out' = out \o u
            \/ buf # <<>> /\ out' = out /\ Written(buf, buf', u)
  <1>1. CASE buf = <<>>
    BY <1>1, ConcatFacts DEF Write
  <1>2. CASE buf # <<>>
    <2>1. Written(buf, buf', u) /\ out' = out
      BY <1>2, ToppedUp DEF Write
    <2> QED BY <1>2, <2>1 DEF Written
  <1> QED BY <1>1, <1>2

LEMMA FlushShape ==
  ASSUME out \in Text, buf \in Seq(Buffer), buf # <<>>, Flush
  PROVE  /\ out' \in Text /\ buf' \in Seq(Buffer) /\ Len(buf') = Len(buf) - 1 /\ buf[1].text \in Text
         /\ \/ Tail(buf) = <<>> /\ buf' = Tail(buf) /\ out' = out \o buf[1].text
            \/ Tail(buf) # <<>> /\ out' = out /\ Written(Tail(buf), buf', buf[1].text)
  <1>1. Tail(buf) \in Seq(Buffer) /\ buf[1] \in Buffer /\ Len(Tail(buf)) = Len(buf) - 1
    BY TailFacts
  <1>2. buf[1].text \in Text
    BY <1>1 DEF Buffer
  <1> DEFINE s == Tail(buf)
             u == buf[1].text
  <1>3. CASE Tail(buf) = <<>>
    <2>1. out' = out \o u /\ buf' = Tail(buf)
      BY <1>3 DEF Flush
    <2>2. out' \in Text
      BY <1>2, <2>1, ConcatFacts
    <2> QED BY <1>1, <1>2, <1>3, <2>1, <2>2
  <1>4. CASE Tail(buf) # <<>>
    <2>1. buf' = [s EXCEPT ![1].text = @ \o u] /\ out' = out
      BY <1>4 DEF Flush
    <2> HIDE DEF s, u
    <2>2. Written(s, buf', u)
      BY <1>1, <1>2, <1>4, <2>1, ToppedUp DEF s, u
    <2> QED BY <1>1, <1>2, <1>4, <2>1, <2>2 DEF s, u, Written
  <1> QED BY <1>3, <1>4

\* The texts after a write, as sets of chunks.
LEMMA WrittenTexts ==
  ASSUME NEW E, NEW s \in Seq(Buffer), NEW t, NEW u \in Text, Written(s, t, u)
  PROVE  /\ All(t) \subseteq All(s) \cup Chunks(u)
         /\ (Apart(E, s) /\ Once(E, u) /\ Chunks(u) \cap All(s) \subseteq E) => Apart(E, t)
  <1>1. /\ Len(s) \in Nat /\ Len(s) >= 1 /\ DOMAIN s = 1 .. Len(s) /\ s[1].text \in Text
        /\ DOMAIN t = 1 .. Len(s)
    <2>1. s # <<>> /\ t \in Seq(Buffer) /\ Len(t) = Len(s)
      BY DEF Written
    <2>2. Len(s) \in Nat /\ Len(s) >= 1 /\ DOMAIN s = 1 .. Len(s) /\ s[1] \in Buffer
      BY <2>1, TailFacts
    <2>3. DOMAIN t = 1 .. Len(s)
      BY <2>1, LenProperties
    <2>4. s[1].text \in Text
      BY <2>2 DEF Buffer
    <2> QED BY <2>2, <2>3, <2>4
  <1>2. t[1].text = s[1].text \o u /\ \A i \in 2 .. Len(s) : t[i] = s[i]
    BY DEF Written
  <1>3. Chunks(t[1].text) = Chunks(s[1].text) \cup Chunks(u)
    BY <1>1, <1>2, ConcatChunks
  <1>4. ASSUME NEW x \in All(t) PROVE x \in All(s) \cup Chunks(u)
    <2>1. PICK i \in 1 .. Len(s) : x \in Chunks(t[i].text)
      BY <1>1, AllMember
    <2>2. CASE i = 1
      BY <1>1, <1>3, <2>1, <2>2, AllMember
    <2>3. CASE i # 1
      <3>1. i \in 2 .. Len(s)
        BY <1>1, <2>3
      <3>2. t[i] = s[i]
        BY <1>2, <3>1
      <3> QED BY <1>1, <2>1, <3>2, AllMember
    <2> QED BY <2>2, <2>3
  <1>5. ASSUME Apart(E, s), Once(E, u), Chunks(u) \cap All(s) \subseteq E PROVE Apart(E, t)
    <2> DEFINE k == 1
    <2>1. /\ k \in DOMAIN s /\ DOMAIN t = DOMAIN s
          /\ \A i \in DOMAIN s : i # k => t[i].text = s[i].text
      <3>1. ASSUME NEW i \in DOMAIN s, i # 1 PROVE t[i].text = s[i].text
        <4>1. i \in 2 .. Len(s)
          BY <1>1, <3>1
        <4> QED BY <1>2, <4>1
      <3> QED BY <1>1, <3>1
    <2>2. Once(E, s[1].text) /\ Chunks(s[1].text) \subseteq All(s)
      BY <1>1, <1>5, AllMember DEF Apart
    <2>3. Chunks(s[1].text) \cap Chunks(u) \subseteq E
      BY <1>5, <2>2
    <2>4. Once(E, t[k].text) /\ Chunks(t[k].text) \subseteq Chunks(s[k].text) \cup Chunks(u)
      BY <1>1, <1>2, <1>3, <1>5, <2>2, <2>3, ConcatOnce
    <2> HIDE DEF k
    <2> QED BY <1>5, <2>1, <2>4, OneChanges
  <1> QED BY <1>4, <1>5

-----------------------------------------------------------------------------
(* Types *)

LEMMA SingleChunk ==
  ASSUME NEW E, NEW x \in Chunk, NEW u, u = <<x>>
  PROVE  u \in Text /\ Chunks(u) = {x} /\ Once(E, u)
  BY DEF Text, Chunks, Once

LEMMA CallFacts ==
  ASSUME calls \in Seq(Call)
  PROVE  /\ Len(calls) \in Nat /\ DOMAIN calls = 1 .. Len(calls)
         /\ \A i \in 1 .. Len(calls) :
              /\ calls[i] \in Call /\ calls[i].id \in Ids /\ calls[i].buffered \in BOOLEAN
              /\ calls[i].own \in Nat /\ calls[i].base \in Nat
  <1>1. Len(calls) \in Nat /\ DOMAIN calls = 1 .. Len(calls)
    BY LenProperties
  <1>2. \A i \in 1 .. Len(calls) : calls[i] \in Call
    BY ElementOfSeq
  <1> QED BY <1>1, <1>2 DEF Call

LEMMA InnermostFacts ==
  ASSUME calls \in Seq(Call)
  PROVE  \/ Innermost = 0 /\ \A i \in DOMAIN calls : ~calls[i].buffered
         \/ \E i \in DOMAIN calls : /\ calls[i].buffered /\ Innermost = calls[i].id
                                    /\ \A j \in 1 .. i - 1 : ~calls[j].buffered
  <1> DEFINE I == {i \in DOMAIN calls : calls[i].buffered}
             k == CHOOSE i \in I : \A j \in I : i <= j
  <1>0. Len(calls) \in Nat /\ DOMAIN calls = 1 .. Len(calls)
    BY CallFacts
  <1>1. CASE I = {}
    BY <1>1 DEF Innermost
  <1>2. CASE I # {}
    <2>1. Innermost = calls[k].id
      BY <1>2 DEF Innermost
    <2>2. k \in I /\ \A j \in I : k <= j
      <3>1. I \in SUBSET Nat
        BY <1>0
      <3> HIDE DEF I
      <3>2. \E i \in I : \A j \in I : i <= j
        BY <1>2, <3>1, LeastOf
      <3> QED BY <3>2
    <2> HIDE DEF k
    <2>3. \A j \in 1 .. k - 1 : ~calls[j].buffered
      BY <1>0, <2>2
    <2> QED BY <2>1, <2>2, <2>3
  <1> QED BY <1>1, <1>2

LEMMA InnermostType ==
  ASSUME calls \in Seq(Call)
  PROVE  Innermost \in Ids \cup {0} /\ 0 \notin Ids
  <1>1. 0 \notin Ids
    BY PageAssumption DEF Ids
  <1>2. Innermost \in Ids \cup {0}
    BY InnermostFacts, CallFacts
  <1> QED BY <1>1, <1>2

\* The records that describe the calls.
LEMMA FirstChanges ==
  ASSUME calls \in Seq(Call), calls # <<>>, NEW n \in Nat, NEW t, t = [calls EXCEPT ![1].own = n]
  PROVE  /\ t \in Seq(Call) /\ Len(t) = Len(calls)
         /\ \A i \in 1 .. Len(calls) : /\ t[i].id = calls[i].id /\ t[i].buffered = calls[i].buffered
                                       /\ t[i].base = calls[i].base
                                       /\ t[i].own = IF i = 1 THEN n ELSE calls[i].own
  <1>1. Len(calls) \in Nat /\ Len(calls) >= 1 /\ DOMAIN calls = 1 .. Len(calls) /\ calls[1] \in Call
    BY TailFacts
  <1> DEFINE b == [calls[1] EXCEPT !.own = n]
  <1>2. /\ b \in Call /\ b.own = n /\ b.id = calls[1].id /\ b.buffered = calls[1].buffered
        /\ b.base = calls[1].base
    BY <1>1 DEF Call
  <1>3. t = [calls EXCEPT ![1] = b]
    OBVIOUS
  <1> HIDE DEF b
  <1>4. calls \in [1 .. Len(calls) -> Call]
    BY LenProperties
  <1>5. t \in [1 .. Len(calls) -> Call]
    BY <1>1, <1>2, <1>3, <1>4
  <1>6. t \in Seq(Call) /\ Len(t) = Len(calls)
    BY <1>1, <1>5, IsASeq
  <1>7. \A i \in 1 .. Len(calls) : t[i] = IF i = 1 THEN b ELSE calls[i]
    BY <1>1, <1>3
  <1>8. ASSUME NEW i \in 1 .. Len(calls)
        PROVE  /\ t[i].id = calls[i].id /\ t[i].buffered = calls[i].buffered
               /\ t[i].base = calls[i].base /\ t[i].own = IF i = 1 THEN n ELSE calls[i].own
    <2>1. CASE i = 1
      BY <1>2, <1>7, <2>1
    <2>2. CASE i # 1
      BY <1>7, <2>2
    <2> QED BY <2>1, <2>2
  <1> QED BY <1>6, <1>8

-----------------------------------------------------------------------------
(* What the response does to its parts *)

Hows == {"append", "prepend", "replace"}

\* What Alter makes of the text of a part.
Placed(t, u, how) == CASE how = "append" -> t \o u [] how = "prepend" -> u \o t [] how = "replace" -> u

LEMMA PlacedFacts ==
  ASSUME NEW E, NEW t \in Text, NEW u \in Text, NEW how \in Hows
  PROVE  /\ Placed(t, u, how) \in Text /\ Chunks(Placed(t, u, how)) \subseteq Chunks(t) \cup Chunks(u)
         /\ (Once(E, t) /\ Once(E, u) /\ Chunks(t) \cap Chunks(u) \subseteq E) => Once(E, Placed(t, u, how))
  <1>1. t \o u \in Text /\ u \o t \in Text
    BY ConcatFacts
  <1>2. Chunks(t \o u) = Chunks(t) \cup Chunks(u) /\ Chunks(u \o t) = Chunks(t) \cup Chunks(u)
    BY ConcatChunks
  <1>3. (Once(E, t) /\ Once(E, u) /\ Chunks(t) \cap Chunks(u) \subseteq E) => Once(E, t \o u) /\ Once(E, u \o t)
    BY ConcatOnce
  <1>4. Placed(t, u, how) \in {t \o u, u \o t, u}
    BY DEF Placed, Hows
  <1> QED BY <1>1, <1>2, <1>3, <1>4

LEMMA PartFacts ==
  ASSUME body \in Seq(BodyPart)
  PROVE  /\ Len(body) \in Nat /\ DOMAIN body = 1 .. Len(body)
         /\ \A i \in DOMAIN body : body[i] \in BodyPart /\ body[i].text \in Text /\ body[i].name \in Parts
  <1>1. Len(body) \in Nat /\ DOMAIN body = 1 .. Len(body)
    BY LenProperties
  <1>2. \A i \in 1 .. Len(body) : body[i] \in BodyPart
    BY ElementOfSeq
  <1> QED BY <1>1, <1>2 DEF BodyPart

LEMMA AlterShape ==
  ASSUME NEW E, body \in Seq(BodyPart), NEW name \in Parts, NEW u \in Text, NEW how \in Hows,
         Alter(name, u, how)
  PROVE  /\ body' \in Seq(BodyPart)
         /\ (Named(body) => Named(body')) /\ All(body') \subseteq All(body) \cup Chunks(u)
         /\ (Named(body) /\ Apart(E, body) /\ Once(E, u) /\ Chunks(u) \cap All(body) \subseteq E) => Apart(E, body')
  <1>0. /\ Len(body) \in Nat /\ DOMAIN body = 1 .. Len(body)
        /\ \A i \in DOMAIN body : body[i] \in BodyPart /\ body[i].text \in Text /\ body[i].name \in Parts
    BY PartFacts
  <1>1. CASE u = <<>>
    <2>1. body' = body
      BY <1>1 DEF Alter
    <2> QED BY <2>1
  <1>2. CASE u # <<>> /\ Part(name) = {}
    <2> DEFINE f == [name |-> name, text |-> u]
    <2>1. body' = Append(body, f) /\ f \in BodyPart /\ f.text = u /\ f.name = name
      BY <1>2 DEF Alter, BodyPart
    <2>2. \A i \in DOMAIN body : body[i].name # name
      BY <1>2 DEF Part
    <2> HIDE DEF f
    <2>3. body' \in Seq(BodyPart) /\ Len(body') = Len(body) + 1
      BY <2>1, AppendProperties
    <2>4. DOMAIN body' = 1 .. Len(body) + 1
      BY <2>3, LenProperties
    <2>5. \A i \in 1 .. Len(body) : body'[i] = body[i]
      BY <2>1, AppendProperties
    <2>6. body'[Len(body) + 1] = f
      BY <2>1, AppendProperties
    <2>7. ASSUME Named(body) PROVE Named(body')
      <3> SUFFICES ASSUME NEW i \in DOMAIN body', NEW j \in DOMAIN body', body'[i].name = body'[j].name
                   PROVE  i = j
        BY DEF Named
      <3>1. (i \in 1 .. Len(body) \/ i = Len(body) + 1) /\ (j \in 1 .. Len(body) \/ j = Len(body) + 1)
        BY <1>0, <2>4
      <3>2. CASE i \in 1 .. Len(body) /\ j \in 1 .. Len(body)
        BY <1>0, <2>5, <2>7, <3>2 DEF Named
      <3>3. CASE i \in 1 .. Len(body) /\ j = Len(body) + 1
        BY <1>0, <2>1, <2>2, <2>5, <2>6, <3>3
      <3>4. CASE j \in 1 .. Len(body) /\ i = Len(body) + 1
        BY <1>0, <2>1, <2>2, <2>5, <2>6, <3>4
      <3> QED BY <3>1, <3>2, <3>3, <3>4
    <2>8. All(body') \subseteq All(body) \cup Chunks(u)
      <3> SUFFICES ASSUME NEW x \in All(body') PROVE x \in All(body) \cup Chunks(u)
        OBVIOUS
      <3>1. PICK i \in DOMAIN body' : x \in Chunks(body'[i].text)
        BY AllMember
      <3>2. CASE i \in 1 .. Len(body)
        BY <1>0, <2>5, <3>1, <3>2, AllMember
      <3>3. CASE i = Len(body) + 1
        BY <2>1, <2>6, <3>1, <3>3
      <3> QED BY <1>0, <2>4, <3>2, <3>3
    <2>9. (Apart(E, body) /\ Once(E, u) /\ Chunks(u) \cap All(body) \subseteq E) => Apart(E, body')
      BY <2>1, AppendTexts
    <2> QED BY <2>3, <2>7, <2>8, <2>9
  <1>3. CASE u # <<>> /\ Part(name) # {}
    <2>1. PICK k \in DOMAIN body : body[k].name = name
      BY <1>3 DEF Part
    <2> DEFINE g(i) == IF body[i].name # name THEN body[i]
                       ELSE [body[i] EXCEPT !.text = Placed(body[i].text, u, how)]
    <2>2. body' = [i \in DOMAIN body |-> g(i)]
      <3>1. \A i \in DOMAIN body : i \in Part(name) <=> body[i].name = name
        BY DEF Part
      <3>2. body' = [i \in DOMAIN body |->
                       IF i \notin Part(name) THEN body[i]
                       ELSE [body[i] EXCEPT !.text = CASE how = "append" -> body[i].text \o u
                                                       [] how = "prepend" -> u \o body[i].text
                                                       [] how = "replace" -> u]]
        BY <1>3 DEF Alter
      <3>3. body' = [i \in DOMAIN body |->
                       IF i \notin Part(name) THEN body[i]
                       ELSE [body[i] EXCEPT !.text = Placed(body[i].text, u, how)]]
        BY <3>2, Zenon DEF Placed
      <3> QED BY <3>1, <3>3
    <2>3. ASSUME NEW i \in DOMAIN body
          PROVE  /\ g(i) \in BodyPart /\ g(i).name = body[i].name
                 /\ body[i].name # name => g(i).text = body[i].text
                 /\ body[i].name = name => g(i).text = Placed(body[i].text, u, how)
      <3> DEFINE v == Placed(body[i].text, u, how)
      <3>1. v \in Text
        BY <1>0, PlacedFacts
      <3> HIDE DEF v
      <3>2. body[i] \in BodyPart
        BY <1>0
      <3>3. [body[i] EXCEPT !.text = v] \in BodyPart /\ [body[i] EXCEPT !.text = v].name = body[i].name
            /\ [body[i] EXCEPT !.text = v].text = v
        BY <3>1, <3>2 DEF BodyPart
      <3> QED BY <3>2, <3>3 DEF v
    <2>4. ASSUME NEW i \in DOMAIN body
          PROVE  /\ body'[i] \in BodyPart /\ body'[i].name = body[i].name
                 /\ body[i].name # name => body'[i].text = body[i].text
                 /\ body[i].name = name => body'[i].text = Placed(body[i].text, u, how)
      <3>1. body'[i] = g(i)
        BY <2>2
      <3> HIDE DEF g
      <3> QED BY <2>3, <3>1
    <2>5. body' \in Seq(BodyPart) /\ DOMAIN body' = DOMAIN body
      <3>1. body' \in [1 .. Len(body) -> BodyPart]
        <4>1. \A i \in DOMAIN body : g(i) \in BodyPart
          BY <2>3
        <4> HIDE DEF g
        <4> QED BY <1>0, <2>2, <4>1
      <3> QED BY <1>0, <3>1, IsASeq
    <2>6. Named(body) => Named(body')
      BY <2>4, <2>5 DEF Named
    <2>7. ASSUME NEW i \in DOMAIN body PROVE Chunks(body'[i].text) \subseteq Chunks(body[i].text) \cup Chunks(u)
      <3>1. Chunks(Placed(body[i].text, u, how)) \subseteq Chunks(body[i].text) \cup Chunks(u)
        BY <1>0, PlacedFacts
      <3> QED BY <2>4, <3>1
    <2>8. All(body') \subseteq All(body) \cup Chunks(u)
      BY <2>5, <2>7, AllMember
    <2>9. ASSUME Named(body), Apart(E, body), Once(E, u), Chunks(u) \cap All(body) \subseteq E PROVE Apart(E, body')
      <3>1. \A i \in DOMAIN body : i # k => body'[i].text = body[i].text
        BY <2>1, <2>4, <2>9 DEF Named
      <3>2. Once(E, body[k].text) /\ Chunks(body[k].text) \cap Chunks(u) \subseteq E
        BY <2>9, AllMember DEF Apart
      <3>3. Once(E, body'[k].text)
        <4> DEFINE t == body[k].text
        <4>1. t \in Text /\ Once(E, t) /\ Chunks(t) \cap Chunks(u) \subseteq E /\ body'[k].text = Placed(t, u, how)
          BY <1>0, <2>1, <2>4, <3>2
        <4> HIDE DEF t
        <4>2. Once(E, Placed(t, u, how))
          BY <2>9, <4>1, PlacedFacts
        <4> QED BY <4>1, <4>2
      <3>4. Chunks(body'[k].text) \subseteq Chunks(body[k].text) \cup Chunks(u)
        BY <2>7
      <3> QED BY <2>5, <2>9, <3>1, <3>3, <3>4, OneChanges
    <2> QED BY <2>5, <2>6, <2>8, <2>9
  <1> QED BY <1>1, <1>2, <1>3

LEMMA WithoutShape ==
  ASSUME NEW E, body \in Seq(BodyPart), NEW name, NEW t, t = Without(name)
  PROVE  /\ t \in Seq(BodyPart) /\ (Apart(E, body) => Apart(E, t)) /\ All(t) \subseteq All(body)
         /\ Named(body) => Named(t)
  <1>1. CASE Part(name) = {}
    BY <1>1 DEF Without
  <1>2. CASE Part(name) # {}
    <2> DEFINE k == CHOOSE i \in Part(name) : TRUE
    <2>1. k \in DOMAIN body
      <3>1. k \in Part(name)
        BY <1>2
      <3> QED BY <3>1 DEF Part
    <2>2. t = RemoveAt(body, k)
      BY <1>2 DEF Without
    <2> HIDE DEF k
    <2> QED BY <2>1, <2>2, RemoveTexts
  <1> QED BY <1>1, <1>2

LEMMA EmptyShape ==
  ASSUME NEW E, NEW R
  PROVE  <<>> \in Seq(R) /\ Apart(E, <<>>) /\ All(<<>>) = {} /\ Named(<<>>) /\ Chunks(<<>>) = {} /\ Once(E, <<>>)
  BY DEF Apart, All, Named, Chunks, Once

-----------------------------------------------------------------------------
(* The type invariant *)

States == {"unborn", "running", "returned", "failed"}

LEMMA HistFacts ==
  ASSUME hist \in History
  PROVE  /\ hist.next \in Nat /\ hist.next # 0 /\ hist.writes \in Nat /\ hist.opens \in Nat
         /\ hist.closes \in Nat /\ hist.tidy \in BOOLEAN
         /\ hist.state \in [Ids -> States] /\ hist.whole \in [Ids -> Text]
         /\ hist.direct \in [Ids -> SUBSET (1 .. MaxWrites)] /\ hist.used \in [Ids -> SUBSET Ids]
         /\ hist.shows \in Nat /\ hist.shown \in SUBSET Chunk
  BY DEF History, States

\* The chunk that echo writes.
Chunklet == [of |-> Innermost, number |-> hist.writes + 1]

Given(S) == [Ids -> SUBSET S]

Gives(given, d, c, new) == \A e \in Ids : d[e] = IF e = c THEN given[e] \cup new ELSE given[e]

LEMMA NotedFacts ==
  ASSUME NEW S, NEW given \in Given(S), NEW c, c \in Ids \cup {0}, NEW new, new \subseteq S,
         NEW d, d = Noted(given, c, new)
  PROVE  d \in Given(S) /\ Gives(given, d, c, new)
  <1> USE DEF Given, Gives
  <1>0. 0 \notin Ids
    BY PageAssumption DEF Ids
  <1>1. CASE c = 0
    BY <1>0, <1>1 DEF Noted
  <1>2. CASE c # 0
    <2>1. c \in Ids /\ d = [given EXCEPT ![c] = given[c] \cup new]
      BY <1>2 DEF Noted
    <2>2. given[c] \cup new \in SUBSET S
      BY <2>1
    <2> QED BY <2>1, <2>2
  <1> QED BY <1>1, <1>2

LEMMA EchoFacts ==
  ASSUME TypeOK, Echo
  PROVE  /\ Chunklet \in Chunk /\ Chunklet.number = hist.writes + 1 /\ Chunklet.of = Innermost
         /\ Write(<<Chunklet>>) /\ hist' \in History /\ hist'.writes = hist.writes + 1
         /\ \E d \in [Ids -> SUBSET (1 .. MaxWrites)] :
              /\ hist' = [hist EXCEPT !.writes = hist.writes + 1, !.direct = d]
              /\ \A c \in Ids : d[c] = IF c = Innermost /\ Straight THEN hist.direct[c] \cup {hist.writes + 1}
                                                                  ELSE hist.direct[c]
  <1>1. hist \in History /\ calls \in Seq(Call)
    BY DEF TypeOK
  <1>2. hist.writes \in Nat /\ hist.direct \in [Ids -> SUBSET (1 .. MaxWrites)]
    BY <1>1, HistFacts
  <1>3. Innermost \in Ids \cup {0}
    BY <1>1, InnermostType
  <1> DEFINE n == hist.writes + 1
             g == Noted(hist.direct, Innermost, {n})
             d == IF Straight THEN g ELSE hist.direct
  <1>4. n \in 1 .. MaxWrites /\ n \in Nat
    BY <1>2, PageAssumption DEF Echo
  <1>5. Write(<<[of |-> Innermost, number |-> n]>>) /\ hist' = [hist EXCEPT !.writes = n, !.direct = d]
    BY DEF Echo
  <1>6. [of |-> Innermost, number |-> n] \in Chunk
    BY <1>3, <1>4 DEF Chunk
  <1>7. /\ g \in [Ids -> SUBSET (1 .. MaxWrites)]
        /\ \A e \in Ids : g[e] = IF e = Innermost THEN hist.direct[e] \cup {n} ELSE hist.direct[e]
    <2> HIDE DEF n
    <2> DEFINE S == 1 .. MaxWrites
               new == {n}
    <2>1. new \subseteq S /\ hist.direct \in Given(S) /\ g = Noted(hist.direct, Innermost, new)
      BY <1>2, <1>4 DEF Given
    <2> HIDE DEF g, S, new
    <2>2. g \in Given(S) /\ Gives(hist.direct, g, Innermost, new)
      BY <1>3, <2>1, NotedFacts
    <2> QED BY <2>2 DEF S, new, Given, Gives
  <1> HIDE DEF g
  <1>8. /\ d \in [Ids -> SUBSET (1 .. MaxWrites)]
        /\ \A e \in Ids : d[e] = IF e = Innermost /\ Straight THEN hist.direct[e] \cup {n} ELSE hist.direct[e]
    BY <1>2, <1>7
  <1>9. hist' \in History /\ hist'.writes = n
    <2> HIDE DEF n, d
    <2> QED BY <1>1, <1>4, <1>5, <1>8 DEF History
  <1> QED BY <1>5, <1>6, <1>8, <1>9 DEF Chunklet

LEMMA EchoPageFacts ==
  ASSUME TypeOK, EchoPage
  PROVE  \E p \in pages, d \in [Ids -> SUBSET Ids] :
           /\ p \in Ids /\ hist.whole[p] \in Text /\ Write(hist.whole[p]) /\ pages' = pages \ {p}
           /\ hist' = [hist EXCEPT !.used = d] /\ hist' \in History
           /\ \A c \in Ids : d[c] = IF c = Innermost THEN hist.used[c] \cup ({p} \cup hist.used[p])
                                                     ELSE hist.used[c]
  <1>1. hist \in History /\ calls \in Seq(Call) /\ pages \subseteq Ids
    BY DEF TypeOK
  <1>2. hist.used \in [Ids -> SUBSET Ids] /\ hist.whole \in [Ids -> Text]
    BY <1>1, HistFacts
  <1>3. Innermost \in Ids \cup {0}
    BY <1>1, InnermostType
  <1>4. PICK p \in pages : /\ Write(hist.whole[p]) /\ pages' = pages \ {p}
                           /\ hist' = [hist EXCEPT !.used = Noted(hist.used, Innermost, {p} \cup hist.used[p])]
    BY DEF EchoPage
  <1> DEFINE new == {p} \cup hist.used[p]
             d == Noted(hist.used, Innermost, new)
  <1>5. p \in Ids /\ hist.whole[p] \in Text /\ new \in SUBSET Ids
    BY <1>1, <1>2
  <1>6. /\ d \in [Ids -> SUBSET Ids]
        /\ \A x \in Ids : d[x] = IF x = Innermost THEN hist.used[x] \cup new ELSE hist.used[x]
    <2> DEFINE S == Ids
    <2>1. new \subseteq S /\ d = Noted(hist.used, Innermost, new) /\ hist.used \in Given(S)
      BY <1>2, <1>5 DEF Given
    <2> HIDE DEF new, d, S
    <2>2. d \in Given(S)
      BY <1>3, <2>1, NotedFacts
    <2>3. Gives(hist.used, d, Innermost, new)
      BY <1>3, <2>1, NotedFacts
    <2>4. d \in [Ids -> SUBSET Ids]
      BY <2>2 DEF Given, S
    <2> QED BY <2>3, <2>4 DEF Gives
  <1>7. hist' = [hist EXCEPT !.used = d]
    BY <1>4
  <1> HIDE DEF d
  <1>8. hist' \in History
    BY <1>1, <1>6, <1>7 DEF History
  <1> QED BY <1>4, <1>5, <1>6, <1>7, <1>8

LEMMA EmptyText ==
  <<>> \in Text
  BY DEF Text

LEMMA TopText ==
  ASSUME TypeOK, buf # <<>>
  PROVE  buf[1].text \in Text
  <1>1. buf \in Seq(Buffer)
    BY DEF TypeOK, Buffer
  <1>2. buf[1] \in Buffer
    BY <1>1, TailFacts
  <1> QED BY <1>2 DEF Buffer

\* A call begins, or cannot.
LEMMA NewCall ==
  ASSUME hist \in History, hist.next <= MaxCalls, NEW st \in States,
         hist' = [hist EXCEPT !.next = @ + 1, !.state[hist.next] = st]
  PROVE  hist.next \in Ids /\ hist' \in History
  <1>1. hist.next \in Ids /\ hist.next + 1 \in Nat \ {0} /\ hist.state \in [Ids -> States]
    BY HistFacts, PageAssumption DEF Ids
  <1> DEFINE g == [hist.state EXCEPT ![hist.next] = st]
             n == hist.next + 1
  <1>2. g \in [Ids -> States] /\ n \in Nat \ {0} /\ hist' = [hist EXCEPT !.next = n, !.state = g]
    BY <1>1
  <1> HIDE DEF g, n
  <1>3. hist' \in History
    BY <1>2 DEF History, States
  <1> QED BY <1>1, <1>3

LEMMA EndedFacts ==
  ASSUME TypeOK, calls # <<>>, NEW st \in States, NEW u \in Text, Ended(st, u)
  PROVE  /\ hist' \in History /\ calls[1].id \in Ids
         /\ hist'.whole = [hist.whole EXCEPT ![calls[1].id] = u]
         /\ hist'.state = [hist.state EXCEPT ![calls[1].id] = st]
         /\ hist'.tidy = (hist.tidy /\ calls[1].own = 0)
         /\ hist'.next = hist.next /\ hist'.writes = hist.writes /\ hist'.opens = hist.opens
         /\ hist'.closes = hist.closes /\ hist'.direct = hist.direct /\ hist'.used = hist.used
         /\ hist'.shown = hist.shown
  <1>1. hist \in History /\ calls \in Seq(Call)
    BY DEF TypeOK
  <1>2. calls[1].id \in Ids /\ calls[1].own \in Nat
    <2>1. calls[1] \in Call
      BY <1>1, TailFacts
    <2> QED BY <2>1 DEF Call
  <1>3. hist.state \in [Ids -> States] /\ hist.whole \in [Ids -> Text] /\ hist.tidy \in BOOLEAN
    BY <1>1, HistFacts
  <1> DEFINE g == [hist.state EXCEPT ![calls[1].id] = st]
             w == [hist.whole EXCEPT ![calls[1].id] = u]
             b == (hist.tidy /\ calls[1].own = 0)
  <1>4. hist' = [hist EXCEPT !.state = g, !.whole = w, !.tidy = b]
    BY DEF Ended
  <1>5. g \in [Ids -> States] /\ w \in [Ids -> Text] /\ b \in BOOLEAN
    BY <1>2, <1>3
  <1> HIDE DEF g, w, b
  <1>6. hist' \in History
    BY <1>1, <1>4, <1>5 DEF History, States
  <1>7. /\ hist'.whole = w /\ hist'.state = g /\ hist'.tidy = b
        /\ hist'.next = hist.next /\ hist'.writes = hist.writes /\ hist'.opens = hist.opens
        /\ hist'.closes = hist.closes /\ hist'.direct = hist.direct /\ hist'.used = hist.used
        /\ hist'.shown = hist.shown
    BY <1>1, <1>4 DEF History
  <1> QED BY <1>2, <1>6, <1>7 DEF g, w, b

\* The templates whose pages the body is made of.
Owners == {x.of : x \in Chunks(Joined)} \ {0}

LEMMA GivenBodyFacts ==
  ASSUME TypeOK
  PROVE  GivenBody \in [Ids -> SUBSET Ids] /\ Gives(hist.used, GivenBody, Innermost, Owners)
  <1>1. hist \in History /\ calls \in Seq(Call) /\ body \in Seq(BodyPart)
    BY DEF TypeOK, BodyPart
  <1>2. hist.used \in Given(Ids) /\ Innermost \in Ids \cup {0}
    BY <1>1, HistFacts, InnermostType DEF Given
  <1>3. Owners \subseteq Ids
    <2>1. \A x \in Chunk : x.of \in Ids \cup {0}
      BY DEF Chunk
    <2>2. Chunks(Joined) \subseteq Chunk
      BY <1>1, JoinedType, TextFacts
    <2> QED BY <2>1, <2>2 DEF Owners
  <1> DEFINE d == GivenBody
             S == Ids
  <1>4. d = Noted(hist.used, Innermost, Owners)
    BY DEF GivenBody, Owners
  <1> HIDE DEF d, S
  <1>5. d \in Given(S) /\ Gives(hist.used, d, Innermost, Owners)
    BY <1>2, <1>3, <1>4, NotedFacts DEF S
  <1> QED BY <1>5 DEF d, S, Given

\* The history of a step that sends the body.
OnlyGiven ==
  /\ hist'.next = hist.next /\ hist'.writes = hist.writes /\ hist'.opens = hist.opens
  /\ hist'.closes = hist.closes /\ hist'.tidy = hist.tidy /\ hist'.state = hist.state
  /\ hist'.whole = hist.whole /\ hist'.direct = hist.direct
  /\ hist'.used \in [Ids -> SUBSET Ids] /\ Gives(hist.used, hist'.used, Innermost, Owners)

LEMMA SendsHist ==
  ASSUME TypeOK, SendAndKeep
  PROVE  hist' \in History /\ OnlyGiven /\ hist'.shown = hist.shown \cup Chunks(Joined)
  <1>1. hist \in History /\ body \in Seq(BodyPart)
    BY DEF TypeOK, BodyPart
  <1> DEFINE d == GivenBody
             n == hist.shows + 1
             w == hist.shown \cup Chunks(Joined)
  <1>2. d \in [Ids -> SUBSET Ids] /\ Gives(hist.used, d, Innermost, Owners)
    BY GivenBodyFacts
  <1>3. n \in Nat /\ w \in SUBSET Chunk
    <2>1. Chunks(Joined) \subseteq Chunk
      BY <1>1, JoinedType, TextFacts
    <2> QED BY <1>1, <2>1, HistFacts
  <1>4. hist' = [hist EXCEPT !.shows = n, !.shown = w, !.used = d]
    BY DEF SendAndKeep
  <1> HIDE DEF d, n, w
  <1>5. hist' \in History
    BY <1>1, <1>2, <1>3, <1>4 DEF History
  <1>6. OnlyGiven /\ hist'.shown = w
    BY <1>1, <1>2, <1>4 DEF History, OnlyGiven
  <1> QED BY <1>5, <1>6 DEF w

LEMMA EndsHist ==
  ASSUME TypeOK, hist' = [hist EXCEPT !.used = GivenBody]
  PROVE  hist' \in History /\ OnlyGiven /\ hist'.shown = hist.shown
  <1>1. hist \in History
    BY DEF TypeOK
  <1> DEFINE d == GivenBody
  <1>2. d \in [Ids -> SUBSET Ids] /\ Gives(hist.used, d, Innermost, Owners)
    BY GivenBodyFacts
  <1>3. hist' = [hist EXCEPT !.used = d]
    OBVIOUS
  <1> HIDE DEF d
  <1>4. hist' \in History
    BY <1>1, <1>2, <1>3 DEF History
  <1>5. OnlyGiven /\ hist'.shown = hist.shown
    BY <1>1, <1>2, <1>3 DEF History, OnlyGiven
  <1> QED BY <1>4, <1>5

\* The three ways in which the body is sent.
Sends == Respond \/ HandlerSends \/ DispatchEnds

LEMMA SendsFacts ==
  ASSUME TypeOK, Sends
  PROVE  /\ UNCHANGED <<calls, exc, pages, headers, crashed>> /\ hist' \in History
         /\ body' = body \/ body' = <<>>
         /\ (UNCHANGED <<out, buf, hist>> \/ (Write(Joined) /\ OnlyGiven))
  <1>1. CASE Respond \/ HandlerSends
    <2>1. SendAndKeep
      BY <1>1 DEF Respond, HandlerSends
    <2>2. hist' \in History /\ OnlyGiven
      BY <2>1, SendsHist
    <2> QED BY <2>1, <2>2 DEF SendAndKeep
  <1>2. CASE DispatchEnds
    <2>1. CASE Refused
      BY <1>2, <2>1 DEF DispatchEnds, DropBody, TypeOK
    <2>2. CASE ~Refused
      <3>1. Write(Joined) /\ hist' = [hist EXCEPT !.used = GivenBody]
        BY <1>2, <2>2 DEF DispatchEnds
      <3>2. hist' \in History /\ OnlyGiven
        BY <3>1, EndsHist
      <3> QED BY <1>2, <3>1, <3>2 DEF DispatchEnds, DropBody
    <2> QED BY <2>1, <2>2
  <1> QED BY <1>1, <1>2 DEF Sends

LEMMA TypesStep ==
  ASSUME TypeOK, [Next]_vars
  PROVE  TypeOK'
  <1>0. /\ out \in Text /\ buf \in Seq(Buffer) /\ calls \in Seq(Call) /\ exc \in BOOLEAN
        /\ crashed \in BOOLEAN /\ pages \subseteq Ids /\ body \in Seq(BodyPart)
        /\ headers \subseteq Headers /\ hist \in History
    BY DEF TypeOK, Buffer, BodyPart
  <1> SUFFICES /\ out' \in Text /\ buf' \in Seq(Buffer) /\ calls' \in Seq(Call) /\ exc' \in BOOLEAN
               /\ crashed' \in BOOLEAN /\ pages' \subseteq Ids /\ body' \in Seq(BodyPart)
               /\ headers' \subseteq Headers /\ hist' \in History
    BY DEF TypeOK, Buffer, BodyPart
  <1>f. calls # <<>> => Tail(calls) \in Seq(Call) /\ calls[1] \in Call /\ calls[1].own \in Nat
    <2>1. calls # <<>> => Tail(calls) \in Seq(Call) /\ calls[1] \in Call
      BY <1>0, TailFacts
    <2> QED BY <2>1 DEF Call
  <1>g. buf # <<>> => Tail(buf) \in Seq(Buffer) /\ buf[1].text \in Text
    <2>1. buf # <<>> => Tail(buf) \in Seq(Buffer) /\ buf[1] \in Buffer
      BY <1>0, TailFacts
    <2> QED BY <2>1 DEF Buffer
  <1>h. <<>> \in Text /\ "running" \in States /\ "failed" \in States /\ "returned" \in States
    BY DEF Text, States
  <1>1. CASE Echo
    <2>1. Write(<<Chunklet>>) /\ hist' \in History /\ <<Chunklet>> \in Text
      BY <1>1, EchoFacts, SingleChunk
    <2>2. out' \in Text /\ buf' \in Seq(Buffer)
      BY <1>0, <2>1, WriteShape
    <2> QED BY <1>0, <1>1, <2>1, <2>2 DEF Echo
  <1>2. CASE EchoPage
    <2>1. PICK p \in pages : hist.whole[p] \in Text /\ Write(hist.whole[p]) /\ pages' = pages \ {p} /\ hist' \in History
      BY <1>2, EchoPageFacts
    <2>2. out' \in Text /\ buf' \in Seq(Buffer)
      BY <1>0, <2>1, WriteShape
    <2> QED BY <1>0, <1>2, <2>1, <2>2 DEF EchoPage
  <1>3. CASE ObStart
    <2> DEFINE f == [yaf |-> FALSE, text |-> <<>>]
               n == calls[1].own + 1
    <2>1. f \in Buffer
      BY <1>h DEF Buffer
    <2>2. buf' = <<f>> \o buf
      BY <1>3 DEF ObStart
    <2> HIDE DEF f
    <2>3. buf' \in Seq(Buffer)
      BY <1>0, <2>1, <2>2, PushFacts
    <2>4. calls' \in Seq(Call)
      <3>1. CASE calls = <<>>
        BY <1>0, <1>3, <3>1 DEF ObStart
      <3>2. CASE calls # <<>>
        <4>1. n \in Nat /\ calls' = [calls EXCEPT ![1].own = n]
          BY <1>3, <1>f, <3>2 DEF ObStart
        <4> HIDE DEF n
        <4> QED BY <1>0, <3>2, <4>1, FirstChanges
      <3> QED BY <3>1, <3>2
    <2>5. hist' \in History
      <3> DEFINE o == hist.opens + 1
      <3>1. o \in Nat /\ hist' = [hist EXCEPT !.opens = o]
        BY <1>0, <1>3, HistFacts DEF ObStart
      <3> HIDE DEF o
      <3> QED BY <1>0, <3>1 DEF History
    <2> QED BY <1>0, <1>3, <2>3, <2>4, <2>5 DEF ObStart
  <1>4. ASSUME NEW flush \in BOOLEAN, ObEnd(flush)
        PROVE  /\ out' \in Text /\ buf' \in Seq(Buffer) /\ calls' \in Seq(Call) /\ hist' \in History
               /\ UNCHANGED <<exc, pages, body, headers, crashed>>
    <2>1. out' \in Text /\ buf' \in Seq(Buffer)
      <3>1. CASE flush
        BY <1>0, <1>4, <3>1, FlushShape DEF ObEnd
      <3>2. CASE ~flush
        BY <1>0, <1>4, <1>g, <3>2 DEF ObEnd
      <3> QED BY <3>1, <3>2
    <2>2. calls' \in Seq(Call)
      <3>1. CASE calls = <<>> \/ calls[1].own = 0
        BY <1>0, <1>4, <3>1 DEF ObEnd
      <3>2. CASE ~(calls = <<>> \/ calls[1].own = 0)
        <4> DEFINE n == calls[1].own - 1
        <4>1. n \in Nat /\ calls' = [calls EXCEPT ![1].own = n] /\ calls # <<>>
          BY <1>4, <1>f, <3>2 DEF ObEnd
        <4> HIDE DEF n
        <4> QED BY <1>0, <4>1, FirstChanges
      <3> QED BY <3>1, <3>2
    <2>3. hist' \in History
      <3> DEFINE b == (hist.tidy /\ (calls # <<>> => calls[1].own > 0))
                 n == hist.closes + 1
      <3>1. b \in BOOLEAN /\ n \in Nat /\ hist' = [hist EXCEPT !.closes = n, !.tidy = b]
        BY <1>0, <1>4, HistFacts DEF ObEnd
      <3> HIDE DEF b, n
      <3> QED BY <1>0, <3>1 DEF History
    <2> QED BY <1>4, <2>1, <2>2, <2>3 DEF ObEnd
  <1>5. CASE ObEnd(TRUE) \/ ObEnd(FALSE)
    <2>1. /\ out' \in Text /\ buf' \in Seq(Buffer) /\ calls' \in Seq(Call) /\ hist' \in History
          /\ UNCHANGED <<exc, pages, body, headers, crashed>>
      BY <1>4, <1>5
    <2> QED BY <1>0, <2>1
  <1>6. CASE Throw \/ Catch
    BY <1>0, <1>6 DEF Throw, Catch
  <1>7. ASSUME NEW buffered \in BOOLEAN, Begin(buffered)
        PROVE  /\ buf' \in Seq(Buffer) /\ calls' \in Seq(Call) /\ hist' \in History
               /\ UNCHANGED <<out, exc, pages, body, headers, crashed>>
    <2>1. hist.next \in Ids /\ hist' \in History
      BY <1>0, <1>7, <1>h, NewCall DEF Begin
    <2> DEFINE f == [yaf |-> TRUE, text |-> <<>>]
               c == [id |-> hist.next, buffered |-> buffered, own |-> 0, base |-> Len(buf)]
    <2>2. f \in Buffer
      BY <1>h DEF Buffer
    <2>3. Len(buf) \in Nat
      BY <1>0, LenProperties
    <2>4. c \in Call
      BY <2>1, <2>3 DEF Call
    <2>5. calls' = <<c>> \o calls /\ buf' = IF buffered THEN <<f>> \o buf ELSE buf
      BY <1>7 DEF Begin
    <2> HIDE DEF f, c
    <2>6. calls' \in Seq(Call)
      BY <1>0, <2>4, <2>5, PushFacts
    <2>7. buf' \in Seq(Buffer)
      BY <1>0, <2>2, <2>5, PushFacts
    <2> QED BY <1>7, <2>1, <2>6, <2>7 DEF Begin
  <1>8. CASE Begin(TRUE) \/ Begin(FALSE)
    <2>1. /\ buf' \in Seq(Buffer) /\ calls' \in Seq(Call) /\ hist' \in History
          /\ UNCHANGED <<out, exc, pages, body, headers, crashed>>
      BY <1>7, <1>8
    <2> QED BY <1>0, <2>1
  <1>9. CASE NotRendered
    <2>1. hist' \in History
      BY <1>0, <1>9, <1>h, NewCall DEF NotRendered
    <2> QED BY <1>0, <1>9, <2>1 DEF NotRendered
  <1>10. CASE RenderEnds
    <2>1. CASE buf = <<>>
      <3>1. hist' \in History
        BY <1>10, <1>h, <2>1, EndedFacts DEF RenderEnds
      <3> QED BY <1>0, <1>10, <1>f, <2>1, <3>1 DEF RenderEnds
    <2>2. CASE buf # <<>>
      <3>1. Ended("returned", buf[1].text) /\ calls # <<>>
        BY <1>10, <2>2 DEF RenderEnds
      <3>2. hist' \in History /\ calls[1].id \in Ids
        BY <1>g, <1>h, <2>2, <3>1, EndedFacts
      <3> QED BY <1>0, <1>10, <1>f, <1>g, <2>2, <3>2 DEF RenderEnds, GetAndDiscard
    <2> QED BY <2>1, <2>2
  <1>11. CASE DisplayEnds
    <2>1. hist' \in History
      BY <1>11, <1>h, EndedFacts DEF DisplayEnds
    <2> QED BY <1>0, <1>11, <1>f, <2>1 DEF DisplayEnds
  <1>12. CASE TemplateThrew
    <2>1. hist' \in History
      BY <1>12, <1>h, EndedFacts DEF TemplateThrew
    <2> QED BY <1>0, <1>12, <1>f, <1>g, <2>1 DEF TemplateThrew, DiscardBuffer
  <1>13. ASSUME NEW name \in Parts, NEW how \in Hows, PutPage(name, how)
         PROVE  /\ body' \in Seq(BodyPart) /\ pages' \subseteq Ids
                /\ UNCHANGED <<out, buf, calls, exc, headers, crashed, hist>>
    <2>1. PICK p \in pages : Alter(name, hist.whole[p], how) /\ pages' = pages \ {p}
      BY <1>13 DEF PutPage
    <2>2. hist.whole[p] \in Text
      BY <1>0, HistFacts
    <2>3. body' \in Seq(BodyPart)
      BY <1>0, <2>1, <2>2, AlterShape
    <2> QED BY <1>0, <1>13, <2>1, <2>3 DEF PutPage
  <1>14. CASE \E name \in Parts, how \in Hows : PutPage(name, how)
    <2>1. /\ body' \in Seq(BodyPart) /\ pages' \subseteq Ids
          /\ UNCHANGED <<out, buf, calls, exc, headers, crashed, hist>>
      BY <1>13, <1>14
    <2> QED BY <1>0, <2>1
  <1>15. CASE \E name \in Parts : ClearPart(name)
    <2>1. PICK name \in Parts : ClearPart(name)
      BY <1>15
    <2>2. body' \in Seq(BodyPart)
      BY <1>0, <2>1, WithoutShape DEF ClearPart
    <2> QED BY <1>0, <2>1, <2>2 DEF ClearPart
  <1>16. CASE ClearBody
    <2>1. body' \in Seq(BodyPart) /\ crashed' \in BOOLEAN
      BY <1>0, <1>16, WithoutShape, EmptyShape DEF ClearBody
    <2> QED BY <1>0, <1>16, <2>1 DEF ClearBody
  <1>17. CASE (\E h \in Headers : SetHeader(h)) \/ ClearHeaders
    BY <1>0, <1>17 DEF SetHeader, ClearHeaders
  <1>18. CASE Sends
    <2>1. /\ UNCHANGED <<calls, exc, pages, headers, crashed>> /\ hist' \in History
          /\ body' = body \/ body' = <<>>
          /\ UNCHANGED <<out, buf>> \/ Write(Joined)
      BY <1>18, SendsFacts
    <2>2. Joined \in Text
      BY <1>0, JoinedType
    <2>3. out' \in Text /\ buf' \in Seq(Buffer)
      BY <1>0, <2>1, <2>2, WriteShape
    <2>4. body' \in Seq(BodyPart)
      BY <1>0, <2>1, EmptyShape
    <2> QED BY <1>0, <2>1, <2>3, <2>4
  <1>19. CASE UNCHANGED vars
    BY <1>0, <1>19 DEF vars
  <1> QED BY <1>1, <1>2, <1>3, <1>5, <1>6, <1>8, <1>9, <1>10, <1>11, <1>12, <1>14, <1>15, <1>16,
             <1>17, <1>18, <1>19 DEF Next, Hows, Sends

\* Every state of the page has the types that TypeOK gives it: render()'s
\* calls, buffers and pages, and the parts of the response, are what the code's
\* structures can hold, for any number of templates and writes.
THEOREM PageTypes == Spec => []TypeOK
  <1>1. Init => TypeOK
    <2> SUFFICES ASSUME Init PROVE TypeOK
      OBVIOUS
    <2>1. hist \in History
      BY DEF Init, History, Text, Chunk
    <2> QED BY <2>1, EmptyShape DEF Init, TypeOK, Text
  <1>2. TypeOK /\ [Next]_vars => TypeOK'
    BY TypesStep
  <1> QED BY <1>1, <1>2, PTL DEF Spec

-----------------------------------------------------------------------------
(* No chunk in two places *)

\* What has been written and not yet become a page.
Sent == Chunks(out) \cup All(buf)

\* What PHP code has in its hands.
Held == UNION {Chunks(hist.whole[p]) : p \in pages}

\* What has been written at all.
Past == {x \in Chunk : x.number <= hist.writes}

SentApart(E) == Once(E, out) /\ Apart(E, buf) /\ Chunks(out) \cap All(buf) \subseteq E

HeldApart(E) ==
  /\ \A p \in pages : Once(E, hist.whole[p])
  /\ \A p, q \in pages : p # q => Chunks(hist.whole[p]) \cap Chunks(hist.whole[q]) \subseteq E

PartsApart(E) == Named(body) /\ Apart(E, body)

PlacesApart(E) ==
  /\ Sent \cap Held \subseteq E /\ Sent \cap All(body) \subseteq E /\ Held \cap All(body) \subseteq E
  /\ Sent \cup Held \cup All(body) \subseteq Past

Places(E) == SentApart(E) /\ HeldApart(E) /\ PartsApart(E) /\ PlacesApart(E)

TwiceInv == TypeOK /\ Places(hist.shown)

LEMMA HeldMember ==
  ASSUME NEW x
  PROVE  x \in Held <=> \E p \in pages : x \in Chunks(hist.whole[p])
  BY DEF Held

\* A text of its own that is written.
LEMMA WriteMoves ==
  ASSUME NEW E, out \in Text, buf \in Seq(Buffer), SentApart(E), NEW u \in Text, Once(E, u),
         Chunks(u) \cap Sent \subseteq E, Write(u)
  PROVE  SentApart(E)' /\ Sent' \subseteq Sent \cup Chunks(u)
  <1>1. \/ buf = <<>> /\ buf' = buf /\ out' = out \o u
        \/ buf # <<>> /\ out' = out /\ Written(buf, buf', u)
    BY WriteShape
  <1>2. Chunks(u) \cap Chunks(out) \subseteq E /\ Chunks(u) \cap All(buf) \subseteq E
    BY DEF Sent
  <1>3. CASE buf' = buf /\ out' = out \o u
    <2>1. Once(E, out') /\ Chunks(out') = Chunks(out) \cup Chunks(u)
      BY <1>2, <1>3, ConcatChunks, ConcatOnce DEF SentApart
    <2> QED BY <1>2, <1>3, <2>1 DEF SentApart, Sent
  <1>4. CASE out' = out /\ Written(buf, buf', u)
    <2>1. All(buf') \subseteq All(buf) \cup Chunks(u)
      BY <1>4, WrittenTexts
    <2>2. Apart(E, buf')
      BY <1>2, <1>4, WrittenTexts DEF SentApart
    <2> QED BY <1>2, <1>4, <2>1, <2>2 DEF SentApart, Sent
  <1> QED BY <1>1, <1>3, <1>4

\* A buffer that is flushed.
LEMMA FlushMoves ==
  ASSUME NEW E, out \in Text, buf \in Seq(Buffer), buf # <<>>, SentApart(E), Flush
  PROVE  SentApart(E)' /\ Sent' \subseteq Sent
  <1> DEFINE u == buf[1].text
             s == Tail(buf)
  <1>1. /\ u \in Text
        /\ \/ s = <<>> /\ buf' = s /\ out' = out \o u
           \/ s # <<>> /\ out' = out /\ Written(s, buf', u)
    BY FlushShape
  <1>2. /\ Apart(E, s) /\ All(s) \subseteq All(buf) /\ Once(E, u) /\ Chunks(u) \cap All(s) \subseteq E
        /\ Chunks(u) \subseteq All(buf)
    BY TailTexts DEF SentApart
  <1>3. s \in Seq(Buffer)
    BY TailFacts
  <1>4. Once(E, out) /\ Chunks(out) \cap All(buf) \subseteq E
    BY DEF SentApart
  <1>5. Chunks(u) \cap Chunks(out) \subseteq E
    BY <1>2, <1>4
  <1> HIDE DEF u, s
  <1>6. CASE buf' = s /\ out' = out \o u
    <2>1. Chunks(out') = Chunks(out) \cup Chunks(u)
      BY <1>1, <1>6, ConcatChunks
    <2>2. Chunks(out) \cap Chunks(u) \subseteq E /\ Once(E, out) /\ Once(E, u) /\ u \in Text
      BY <1>1, <1>2, <1>4, <1>5
    <2>3. Once(E, out')
      BY <1>6, <2>2, ConcatOnce
    <2> QED BY <1>2, <1>4, <1>6, <2>1, <2>3 DEF SentApart, Sent
  <1>7. CASE out' = out /\ Written(s, buf', u)
    <2>1. All(buf') \subseteq All(s) \cup Chunks(u)
      BY <1>1, <1>3, <1>7, WrittenTexts
    <2>2. Apart(E, buf')
      BY <1>1, <1>2, <1>3, <1>7, WrittenTexts
    <2> QED BY <1>2, <1>4, <1>7, <2>1, <2>2 DEF SentApart, Sent
  <1> QED BY <1>1, <1>6, <1>7

\* A buffer that is dropped, and its text.
LEMMA DropMoves ==
  ASSUME NEW E, buf \in Seq(Buffer), buf # <<>>, SentApart(E), buf' = Tail(buf), out' = out
  PROVE  /\ SentApart(E)' /\ Sent' \subseteq Sent /\ Once(E, buf[1].text)
         /\ Chunks(buf[1].text) \subseteq Sent /\ Chunks(buf[1].text) \cap Sent' \subseteq E
  <1> DEFINE u == buf[1].text
             s == Tail(buf)
  <1>1. /\ Apart(E, s) /\ All(s) \subseteq All(buf) /\ Once(E, u) /\ Chunks(u) \cap All(s) \subseteq E
        /\ Chunks(u) \subseteq All(buf)
    BY TailTexts DEF SentApart
  <1> HIDE DEF u
  <1>2. Once(E, out) /\ Chunks(out) \cap All(buf) \subseteq E
    BY DEF SentApart
  <1>3. SentApart(E)' /\ Sent' \subseteq Sent /\ Chunks(u) \subseteq Sent /\ Chunks(u) \cap Sent' \subseteq E
    BY <1>1, <1>2 DEF SentApart, Sent
  <1> QED BY <1>1, <1>3 DEF u

\* A page that leaves PHP code's hands.
LEMMA PageLeaves ==
  ASSUME NEW E, HeldApart(E), NEW p \in pages, pages' = pages \ {p}, hist'.whole = hist.whole
  PROVE  /\ HeldApart(E)' /\ Held' \subseteq Held /\ Once(E, hist.whole[p])
         /\ Chunks(hist.whole[p]) \subseteq Held /\ Chunks(hist.whole[p]) \cap Held' \subseteq E
  <1>1. \A x : x \in Held' <=> \E q \in pages' : x \in Chunks(hist'.whole[q])
    BY DEF Held
  <1>2. HeldApart(E)' /\ Once(E, hist.whole[p])
    BY DEF HeldApart
  <1>3. Held' \subseteq Held /\ Chunks(hist.whole[p]) \subseteq Held
    BY <1>1, HeldMember
  <1>4. ASSUME NEW x \in Chunks(hist.whole[p]), x \in Held' PROVE x \in E
    <2>1. PICK q \in pages : q # p /\ x \in Chunks(hist.whole[q])
      BY <1>1, <1>4
    <2>2. Chunks(hist.whole[p]) \cap Chunks(hist.whole[q]) \subseteq E
      BY <2>1 DEF HeldApart
    <2> QED BY <1>4, <2>1, <2>2
  <1> QED BY <1>2, <1>3, <1>4

\* A page that is handed over, or one that is lost.
LEMMA PageComes ==
  ASSUME NEW E, HeldApart(E), pages \subseteq Ids, hist.whole \in [Ids -> Text],
         NEW c \in Ids, NEW u, hist'.whole = [hist.whole EXCEPT ![c] = u],
         pages' \subseteq pages \cup {c}, Once(E, u), Chunks(u) \cap Held \subseteq E
  PROVE  HeldApart(E)' /\ Held' \subseteq Held \cup Chunks(u)
  <1>1. hist'.whole[c] = u /\ \A p \in Ids : p # c => hist'.whole[p] = hist.whole[p]
    OBVIOUS
  <1>2. ASSUME NEW p \in pages' PROVE Once(E, hist'.whole[p])
    BY <1>1 DEF HeldApart
  <1>3. ASSUME NEW p \in pages', p # c PROVE p \in pages /\ hist'.whole[p] = hist.whole[p] /\ Chunks(hist'.whole[p]) \subseteq Held
    <2>1. p \in pages /\ hist'.whole[p] = hist.whole[p]
      BY <1>1, <1>3
    <2> QED BY <2>1, HeldMember
  <1>4. ASSUME NEW p \in pages', NEW q \in pages', p # q
        PROVE  Chunks(hist'.whole[p]) \cap Chunks(hist'.whole[q]) \subseteq E
    <2>1. CASE p = c
      <3>1. Chunks(hist'.whole[q]) \subseteq Held
        BY <1>3, <1>4, <2>1
      <3> QED BY <1>1, <2>1, <3>1
    <2>2. CASE q = c
      <3>1. Chunks(hist'.whole[p]) \subseteq Held
        BY <1>3, <1>4, <2>2
      <3> QED BY <1>1, <2>2, <3>1
    <2>3. CASE p # c /\ q # c
      <3>1. p \in pages /\ q \in pages /\ hist'.whole[p] = hist.whole[p] /\ hist'.whole[q] = hist.whole[q]
        BY <1>3, <2>3
      <3> QED BY <1>4, <3>1 DEF HeldApart
    <2> QED BY <2>1, <2>2, <2>3
  <1>5. HeldApart(E)'
    BY <1>2, <1>4 DEF HeldApart
  <1>6. Held' \subseteq Held \cup Chunks(u)
    <2>1. \A x : x \in Held' <=> \E q \in pages' : x \in Chunks(hist'.whole[q])
      BY DEF Held
    <2>2. \A q \in pages' : Chunks(hist'.whole[q]) \subseteq Held \cup Chunks(u)
      BY <1>1, <1>3
    <2> QED BY <2>1, <2>2
  <1> QED BY <1>5, <1>6

\* What the steps do to the history.
LEMMA EchoHist ==
  ASSUME TypeOK, Echo
  PROVE  /\ hist'.shown = hist.shown /\ hist'.whole = hist.whole /\ hist'.used = hist.used /\ hist'.state = hist.state
         /\ hist'.next = hist.next /\ hist'.tidy = hist.tidy /\ hist'.opens = hist.opens
         /\ hist'.closes = hist.closes /\ hist'.writes = hist.writes + 1
         /\ hist'.direct \in [Ids -> SUBSET (1 .. MaxWrites)]
         /\ \A c \in Ids : hist'.direct[c] = IF c = Innermost /\ Straight
                                             THEN hist.direct[c] \cup {hist.writes + 1} ELSE hist.direct[c]
  <1>1. PICK d \in [Ids -> SUBSET (1 .. MaxWrites)] :
              /\ hist' = [hist EXCEPT !.writes = hist.writes + 1, !.direct = d]
              /\ \A c \in Ids : d[c] = IF c = Innermost /\ Straight THEN hist.direct[c] \cup {hist.writes + 1}
                                                                  ELSE hist.direct[c]
    BY EchoFacts
  <1> DEFINE n == hist.writes + 1
  <1>2. hist' = [hist EXCEPT !.writes = n, !.direct = d]
    BY <1>1
  <1> HIDE DEF n
  <1>3. /\ hist'.shown = hist.shown /\ hist'.whole = hist.whole /\ hist'.used = hist.used /\ hist'.state = hist.state
        /\ hist'.next = hist.next /\ hist'.tidy = hist.tidy /\ hist'.opens = hist.opens
        /\ hist'.closes = hist.closes /\ hist'.writes = n /\ hist'.direct = d
    BY <1>2 DEF TypeOK, History
  <1> QED BY <1>1, <1>3 DEF n

LEMMA EchoPageHist ==
  ASSUME TypeOK, EchoPage
  PROVE  /\ hist'.shown = hist.shown /\ hist'.whole = hist.whole /\ hist'.direct = hist.direct /\ hist'.state = hist.state
         /\ hist'.next = hist.next /\ hist'.tidy = hist.tidy /\ hist'.opens = hist.opens
         /\ hist'.closes = hist.closes /\ hist'.writes = hist.writes
  <1>1. PICK d : hist' = [hist EXCEPT !.used = d]
    BY EchoPageFacts
  <1> QED BY <1>1 DEF TypeOK, History

LEMMA ObStartHist ==
  ASSUME TypeOK, ObStart
  PROVE  /\ hist'.shown = hist.shown /\ hist'.whole = hist.whole /\ hist'.direct = hist.direct /\ hist'.state = hist.state
         /\ hist'.next = hist.next /\ hist'.tidy = hist.tidy /\ hist'.opens = hist.opens + 1
         /\ hist'.closes = hist.closes /\ hist'.writes = hist.writes /\ hist'.used = hist.used
  <1>1. hist' = [hist EXCEPT !.opens = hist.opens + 1]
    BY DEF ObStart
  <1> QED BY <1>1 DEF TypeOK, History

LEMMA ObEndHist ==
  ASSUME TypeOK, NEW flush, ObEnd(flush)
  PROVE  /\ hist'.shown = hist.shown /\ hist'.whole = hist.whole /\ hist'.direct = hist.direct /\ hist'.state = hist.state
         /\ hist'.next = hist.next /\ hist'.opens = hist.opens /\ hist'.closes = hist.closes + 1
         /\ hist'.writes = hist.writes /\ hist'.used = hist.used
         /\ hist'.tidy = (hist.tidy /\ (calls # <<>> => calls[1].own > 0))
  <1> DEFINE b == (hist.tidy /\ (calls # <<>> => calls[1].own > 0))
             n == hist.closes + 1
  <1>1. hist' = [hist EXCEPT !.closes = n, !.tidy = b]
    BY DEF ObEnd
  <1> HIDE DEF b, n
  <1>2. /\ hist'.shown = hist.shown /\ hist'.whole = hist.whole /\ hist'.direct = hist.direct /\ hist'.state = hist.state
        /\ hist'.next = hist.next /\ hist'.opens = hist.opens /\ hist'.closes = n
        /\ hist'.writes = hist.writes /\ hist'.used = hist.used /\ hist'.tidy = b
    BY <1>1 DEF TypeOK, History
  <1> QED BY <1>2 DEF b, n

LEMMA NewCallHist ==
  ASSUME TypeOK, NEW st, hist' = [hist EXCEPT !.next = @ + 1, !.state[hist.next] = st]
  PROVE  /\ hist'.shown = hist.shown /\ hist'.whole = hist.whole /\ hist'.direct = hist.direct
         /\ hist'.next = hist.next + 1 /\ hist'.opens = hist.opens /\ hist'.closes = hist.closes
         /\ hist'.writes = hist.writes /\ hist'.used = hist.used /\ hist'.tidy = hist.tidy
         /\ hist'.state = [hist.state EXCEPT ![hist.next] = st]
  <1> DEFINE g == [hist.state EXCEPT ![hist.next] = st]
             n == hist.next + 1
  <1>1. hist' = [hist EXCEPT !.next = n, !.state = g]
    BY DEF TypeOK, History
  <1> HIDE DEF g, n
  <1>2. /\ hist'.shown = hist.shown /\ hist'.whole = hist.whole /\ hist'.direct = hist.direct
        /\ hist'.next = n /\ hist'.opens = hist.opens /\ hist'.closes = hist.closes
        /\ hist'.writes = hist.writes /\ hist'.used = hist.used /\ hist'.tidy = hist.tidy
        /\ hist'.state = g
    BY <1>1 DEF TypeOK, History
  <1> QED BY <1>2 DEF g, n

\* What stays where it is stays apart.
LEMMA PlacesStep ==
  ASSUME NEW E, TypeOK, Places(E), [Next]_vars, SendAndKeep => Chunks(Joined) \subseteq E
  PROVE  SentApart(E)' /\ HeldApart(E)' /\ PartsApart(E)' /\ PlacesApart(E)'
  <1>0. /\ TypeOK /\ out \in Text /\ buf \in Seq(Buffer) /\ calls \in Seq(Call) /\ body \in Seq(BodyPart)
        /\ pages \subseteq Ids /\ hist \in History /\ SentApart(E) /\ HeldApart(E) /\ PartsApart(E) /\ PlacesApart(E)
    BY DEF Places, TypeOK, Buffer, BodyPart
  <1>h. hist.writes \in Nat /\ hist.whole \in [Ids -> Text]
    BY <1>0, HistFacts
  <1>p. /\ Sent \cap Held \subseteq E /\ Sent \cap All(body) \subseteq E /\ Held \cap All(body) \subseteq E
        /\ Sent \subseteq Past /\ Held \subseteq Past /\ All(body) \subseteq Past
    BY <1>0 DEF PlacesApart
  <1>s. UNCHANGED <<out, buf>> => SentApart(E)' /\ Sent' = Sent
    BY <1>0 DEF SentApart, Sent
  <1>k. pages' = pages /\ hist'.whole = hist.whole => HeldApart(E)' /\ Held' = Held
    BY <1>0 DEF HeldApart, Held
  <1>b. body' = body => PartsApart(E)' /\ All(body') = All(body)
    BY <1>0 DEF PartsApart
  <1>w. hist'.writes = hist.writes => Past' = Past
    BY DEF Past
  \* the places that were filled from others, and from nothing new
  <1>q. ASSUME Past \subseteq Past', NEW A, A \subseteq Past', Sent' \subseteq Sent \cup A,
               Held' \subseteq Held \cup A, All(body') \subseteq All(body) \cup A,
               Sent' \cap Held' \subseteq E, Sent' \cap All(body') \subseteq E, Held' \cap All(body') \subseteq E
        PROVE  PlacesApart(E)'
    BY <1>p, <1>q DEF PlacesApart
  <1>1. CASE Echo
    <2> DEFINE x == Chunklet
               A == {x}
    <2>1. x \in Chunk /\ x.number = hist.writes + 1 /\ Write(<<x>>) /\ hist'.writes = hist.writes + 1
      BY <1>0, <1>1, EchoFacts
    <2>2. <<x>> \in Text /\ Chunks(<<x>>) = A /\ Once(E, <<x>>)
      BY <2>1, SingleChunk
    <2>3. x \notin Past /\ Past \subseteq Past' /\ x \in Past'
      <3> HIDE DEF x
      <3>1. \A y \in Chunk : y.number \in Nat
        BY PageAssumption DEF Chunk
      <3> QED BY <1>h, <2>1, <3>1 DEF Past
    <2> HIDE DEF x
    <2>4. A \cap Sent \subseteq E /\ A \cap Held \subseteq E /\ A \cap All(body) \subseteq E
      BY <1>p, <2>3
    <2> HIDE DEF A
    <2>5. SentApart(E)' /\ Sent' \subseteq Sent \cup A
      BY <1>0, <2>1, <2>2, <2>4, WriteMoves
    <2>6. HeldApart(E)' /\ Held' = Held /\ PartsApart(E)' /\ All(body') = All(body)
      BY <1>0, <1>1, <1>k, <1>b, EchoHist DEF Echo
    <2>7. A \subseteq Past'
      BY <2>3 DEF A
    <2> QED BY <1>p, <1>q, <2>3, <2>4, <2>5, <2>6, <2>7
  <1>2. CASE EchoPage
    <2>1. PICK p \in pages : p \in Ids /\ hist.whole[p] \in Text /\ Write(hist.whole[p]) /\ pages' = pages \ {p}
      BY <1>0, <1>2, EchoPageFacts
    <2>2. hist'.whole = hist.whole /\ hist'.writes = hist.writes
      BY <1>0, <1>2, EchoPageHist
    <2> DEFINE u == hist.whole[p]
    <2>3. HeldApart(E)' /\ Held' \subseteq Held /\ Once(E, u) /\ Chunks(u) \subseteq Held /\ Chunks(u) \cap Held' \subseteq E
      BY <1>0, <2>1, <2>2, PageLeaves
    <2>4. u \in Text /\ Write(u)
      BY <2>1
    <2> HIDE DEF u
    <2>5. Chunks(u) \cap Sent \subseteq E
      BY <1>p, <2>3
    <2>6. SentApart(E)' /\ Sent' \subseteq Sent \cup Chunks(u)
      BY <1>0, <2>3, <2>4, <2>5, WriteMoves
    <2>7. PartsApart(E)' /\ All(body') = All(body)
      BY <1>2, <1>b DEF EchoPage
    <2>8. Past' = Past
      BY <1>w, <2>2
    <2> QED BY <1>p, <2>3, <2>6, <2>7, <2>8 DEF PlacesApart
  <1>3. CASE ObStart
    <2> DEFINE f == [yaf |-> FALSE, text |-> <<>>]
    <2>1. f \in Buffer /\ f.text = <<>> /\ buf' = <<f>> \o buf /\ out' = out
      BY <1>3 DEF Buffer, Text, ObStart
    <2> HIDE DEF f
    <2>2. (Apart(E, buf) => Apart(E, buf')) /\ All(buf') \subseteq All(buf)
      BY <1>0, <2>1, PushTexts
    <2>3. SentApart(E)' /\ Sent' \subseteq Sent
      BY <1>0, <2>1, <2>2 DEF SentApart, Sent
    <2>4. HeldApart(E)' /\ Held' = Held /\ PartsApart(E)' /\ All(body') = All(body) /\ Past' = Past
      BY <1>0, <1>3, <1>k, <1>b, <1>w, ObStartHist DEF ObStart
    <2> QED BY <1>p, <2>3, <2>4 DEF PlacesApart
  <1>4. ASSUME NEW flush \in BOOLEAN, ObEnd(flush)
        PROVE  SentApart(E)' /\ HeldApart(E)' /\ PartsApart(E)' /\ PlacesApart(E)'
    <2>1. SentApart(E)' /\ Sent' \subseteq Sent
      <3>1. CASE flush
        BY <1>0, <1>4, <3>1, FlushMoves DEF ObEnd
      <3>2. CASE ~flush
        BY <1>0, <1>4, <3>2, DropMoves DEF ObEnd
      <3> QED BY <3>1, <3>2
    <2>2. HeldApart(E)' /\ Held' = Held /\ PartsApart(E)' /\ All(body') = All(body) /\ Past' = Past
      <3>1. hist'.whole = hist.whole /\ hist'.writes = hist.writes
        BY <1>0, <1>4, ObEndHist
      <3> QED BY <1>4, <1>k, <1>b, <1>w, <3>1 DEF ObEnd
    <2> QED BY <1>p, <2>1, <2>2 DEF PlacesApart
  <1>5. ASSUME UNCHANGED <<out, buf, pages, body>>, hist'.whole = hist.whole, hist'.writes = hist.writes
        PROVE  SentApart(E)' /\ HeldApart(E)' /\ PartsApart(E)' /\ PlacesApart(E)'
    <2>1. SentApart(E)' /\ Sent' = Sent /\ HeldApart(E)' /\ Held' = Held /\ PartsApart(E)' /\ All(body') = All(body) /\ Past' = Past
      BY <1>5, <1>s, <1>k, <1>b, <1>w
    <2> QED BY <1>p, <2>1 DEF PlacesApart
  <1>6. CASE Throw \/ Catch \/ (\E h \in Headers : SetHeader(h)) \/ ClearHeaders \/ UNCHANGED vars
    BY <1>5, <1>6 DEF Throw, Catch, SetHeader, ClearHeaders, vars
  <1>7. ASSUME NEW buffered \in BOOLEAN, Begin(buffered)
        PROVE  SentApart(E)' /\ HeldApart(E)' /\ PartsApart(E)' /\ PlacesApart(E)'
    <2> DEFINE f == [yaf |-> TRUE, text |-> <<>>]
    <2>1. f \in Buffer /\ f.text = <<>> /\ buf' = (IF buffered THEN <<f>> \o buf ELSE buf) /\ out' = out
      BY <1>7 DEF Buffer, Text, Begin
    <2> HIDE DEF f
    <2>2. (Apart(E, buf) => Apart(E, buf')) /\ All(buf') \subseteq All(buf)
      BY <1>0, <2>1, PushTexts
    <2>3. SentApart(E)' /\ Sent' \subseteq Sent
      BY <1>0, <2>1, <2>2 DEF SentApart, Sent
    <2>4. HeldApart(E)' /\ Held' = Held /\ PartsApart(E)' /\ All(body') = All(body) /\ Past' = Past
      <3>1. hist'.whole = hist.whole /\ hist'.writes = hist.writes
        BY <1>0, <1>7, NewCallHist DEF Begin
      <3> QED BY <1>7, <1>k, <1>b, <1>w, <3>1 DEF Begin
    <2> QED BY <1>p, <2>3, <2>4 DEF PlacesApart
  <1>8. CASE NotRendered
    <2>1. hist'.whole = hist.whole /\ hist'.writes = hist.writes
      BY <1>0, <1>8, NewCallHist DEF NotRendered
    <2> QED BY <1>5, <1>8, <2>1 DEF NotRendered
  \* a template that ends without a page
  <1>9. ASSUME calls # <<>>, NEW st \in States, Ended(st, <<>>), pages' = pages, body' = body,
               SentApart(E)', Sent' \subseteq Sent
        PROVE  SentApart(E)' /\ HeldApart(E)' /\ PartsApart(E)' /\ PlacesApart(E)'
    <2> DEFINE u == <<>>
    <2>1. u \in Text /\ Once(E, u) /\ Chunks(u) = {}
      BY EmptyShape DEF Text
    <2>2. /\ calls[1].id \in Ids /\ hist'.whole = [hist.whole EXCEPT ![calls[1].id] = u]
          /\ hist'.writes = hist.writes
      BY <1>0, <1>9, <2>1, EndedFacts
    <2> HIDE DEF u
    <2>3. HeldApart(E)' /\ Held' \subseteq Held
      BY <1>0, <1>9, <1>h, <2>1, <2>2, PageComes
    <2>4. PartsApart(E)' /\ All(body') = All(body) /\ Past' = Past
      BY <1>9, <1>b, <1>w, <2>2
    <2> QED BY <1>9, <1>p, <2>3, <2>4 DEF PlacesApart
  <1>10. CASE RenderEnds
    <2>1. CASE buf = <<>>
      <3>1. calls # <<>> /\ Ended("failed", <<>>) /\ pages' = pages /\ body' = body /\ UNCHANGED <<out, buf>>
        BY <1>10, <2>1 DEF RenderEnds
      <3> QED BY <1>9, <1>s, <3>1 DEF States
    <2>2. CASE buf # <<>>
      <3> DEFINE u == buf[1].text
                 c == calls[1].id
      <3>1. /\ Ended("returned", u) /\ calls # <<>> /\ buf' = Tail(buf) /\ out' = out
            /\ pages' = pages \cup {c} /\ body' = body
        BY <1>10, <2>2 DEF RenderEnds, GetAndDiscard
      <3>2. u \in Text
        <4>1. buf[1] \in Buffer
          BY <1>0, <2>2, TailFacts
        <4> QED BY <4>1 DEF Buffer
      <3>3. c \in Ids /\ hist'.whole = [hist.whole EXCEPT ![c] = u] /\ hist'.writes = hist.writes
        BY <1>0, <3>1, <3>2, EndedFacts DEF States
      <3>4. /\ SentApart(E)' /\ Sent' \subseteq Sent /\ Once(E, u) /\ Chunks(u) \subseteq Sent
            /\ Chunks(u) \cap Sent' \subseteq E
        BY <1>0, <2>2, <3>1, DropMoves
      <3> HIDE DEF u, c
      <3>5. Chunks(u) \cap Held \subseteq E
        BY <1>p, <3>4
      <3>6. HeldApart(E)' /\ Held' \subseteq Held \cup Chunks(u)
        BY <1>0, <1>h, <3>1, <3>3, <3>4, <3>5, PageComes
      <3>7. PartsApart(E)' /\ All(body') = All(body) /\ Past' = Past
        BY <1>b, <1>w, <3>1, <3>3
      <3> QED BY <1>p, <3>4, <3>6, <3>7 DEF PlacesApart
    <2> QED BY <2>1, <2>2
  <1>11. CASE DisplayEnds
    <2>1. calls # <<>> /\ Ended("returned", <<>>) /\ pages' = pages /\ body' = body /\ UNCHANGED <<out, buf>>
      BY <1>11 DEF DisplayEnds
    <2> QED BY <1>9, <1>s, <2>1 DEF States
  <1>12. CASE TemplateThrew
    <2>1. calls # <<>> /\ Ended("failed", <<>>) /\ pages' = pages /\ body' = body /\ out' = out
      BY <1>12 DEF TemplateThrew, DiscardBuffer
    <2>2. (buf' = buf) \/ (buf # <<>> /\ buf' = Tail(buf))
      BY <1>12 DEF TemplateThrew, DiscardBuffer
    <2>3. SentApart(E)' /\ Sent' \subseteq Sent
      BY <1>0, <1>s, <2>1, <2>2, DropMoves
    <2> QED BY <1>9, <2>1, <2>3 DEF States
  <1>13. ASSUME NEW name \in Parts, NEW how \in Hows, PutPage(name, how)
         PROVE  SentApart(E)' /\ HeldApart(E)' /\ PartsApart(E)' /\ PlacesApart(E)'
    <2>1. PICK p \in pages : Alter(name, hist.whole[p], how) /\ pages' = pages \ {p}
      BY <1>13 DEF PutPage
    <2>2. UNCHANGED <<out, buf, hist>>
      BY <1>13 DEF PutPage
    <2> DEFINE u == hist.whole[p]
    <2>3. u \in Text /\ Alter(name, u, how)
      BY <1>0, <1>h, <2>1
    <2>4. HeldApart(E)' /\ Held' \subseteq Held /\ Once(E, u) /\ Chunks(u) \subseteq Held /\ Chunks(u) \cap Held' \subseteq E
      BY <1>0, <2>1, <2>2, PageLeaves
    <2> HIDE DEF u
    <2>5. Chunks(u) \cap All(body) \subseteq E /\ Named(body) /\ Apart(E, body)
      BY <1>0, <1>p, <2>4 DEF PartsApart
    <2>6. Named(body') /\ Apart(E, body') /\ All(body') \subseteq All(body) \cup Chunks(u)
      BY <1>0, <2>3, <2>4, <2>5, AlterShape
    <2>7. SentApart(E)' /\ Sent' = Sent /\ Past' = Past
      BY <1>s, <1>w, <2>2
    <2> QED BY <1>p, <2>4, <2>6, <2>7 DEF PlacesApart, PartsApart
  \* the body loses parts
  <1>14. ASSUME UNCHANGED <<out, buf, pages, hist>>, Named(body'), Apart(E, body'), All(body') \subseteq All(body)
         PROVE  SentApart(E)' /\ HeldApart(E)' /\ PartsApart(E)' /\ PlacesApart(E)'
    <2>1. SentApart(E)' /\ Sent' = Sent /\ Past' = Past /\ HeldApart(E)' /\ Held' = Held
      BY <1>14, <1>s, <1>k, <1>w
    <2> QED BY <1>14, <1>p, <2>1 DEF PlacesApart, PartsApart
  <1>15. \A name \in Parts : ~(body' # Without(name)) => Named(body') /\ Apart(E, body') /\ All(body') \subseteq All(body)
    BY <1>0, WithoutShape DEF PartsApart
  <1>16. CASE \E name \in Parts : ClearPart(name)
    BY <1>14, <1>15, <1>16 DEF ClearPart
  <1>17. CASE ClearBody
    <2>1. CASE body' = body
      BY <1>5, <1>17, <2>1 DEF ClearBody
    <2>2. CASE body' = <<>>
      BY <1>14, <1>17, <2>2, EmptyShape DEF ClearBody
    <2>3. CASE \E name \in Parts : body' = Without(name)
      BY <1>14, <1>15, <1>17, <2>3 DEF ClearBody
    <2> QED BY <1>17, <2>1, <2>2, <2>3 DEF ClearBody
  \* the body is sent: it leaves the response, or all of it is in E
  <1>18. CASE Sends
    <2> DEFINE u == Joined
    <2>1. /\ UNCHANGED pages /\ (UNCHANGED <<out, buf, hist>> \/ (Write(u) /\ OnlyGiven))
          /\ body' = <<>> \/ (body' = body /\ Chunks(u) \subseteq E)
      <3>1. CASE Respond \/ HandlerSends
        BY <1>0, <1>18, <3>1, SendsFacts DEF Respond, HandlerSends, SendAndKeep
      <3>2. CASE DispatchEnds
        BY <1>0, <1>18, <3>2, SendsFacts DEF DispatchEnds, DropBody
      <3> QED BY <1>18, <3>1, <3>2 DEF Sends
    <2>2. u \in Text /\ Chunks(u) \subseteq All(body) /\ Once(E, u)
      BY <1>0, JoinedFacts DEF PartsApart
    <2> HIDE DEF u
    <2>3. PartsApart(E)' /\ All(body') \subseteq All(body) /\ Chunks(u) \cap All(body') \subseteq E
      <3>1. CASE body' = <<>>
        <4>1. Named(body') /\ Apart(E, body') /\ All(body') = {}
          BY <3>1, EmptyShape
        <4> QED BY <4>1 DEF PartsApart
      <3>2. CASE body' = body /\ Chunks(u) \subseteq E
        BY <1>b, <3>2
      <3> QED BY <2>1, <3>1, <3>2
    <2>4. HeldApart(E)' /\ Held' = Held /\ Past' = Past
      BY <1>k, <1>w, <2>1 DEF OnlyGiven
    <2>5. SentApart(E)' /\ Sent' \subseteq Sent \cup Chunks(u)
      <3>1. CASE UNCHANGED <<out, buf>>
        BY <1>s, <3>1
      <3>2. CASE Write(u)
        <4>1. Chunks(u) \cap Sent \subseteq E
          BY <1>p, <2>2
        <4> QED BY <1>0, <2>2, <3>2, <4>1, WriteMoves
      <3> QED BY <2>1, <3>1, <3>2
    <2>6. PlacesApart(E)'
      BY <1>p, <2>2, <2>3, <2>4, <2>5 DEF PlacesApart
    <2> QED BY <2>3, <2>4, <2>5, <2>6
  <1> QED BY <1>1, <1>2, <1>3, <1>4, <1>6, <1>7, <1>8, <1>10, <1>11, <1>12, <1>13, <1>16, <1>17, <1>18
          DEF Next, Hows, Sends

\* What PHP code has sent only grows.
LEMMA ShownGrows ==
  ASSUME TypeOK, [Next]_vars
  PROVE  hist.shown \subseteq hist'.shown /\ (SendAndKeep => Chunks(Joined) \subseteq hist'.shown)
  <1>1. SendAndKeep => hist.shown \subseteq hist'.shown /\ Chunks(Joined) \subseteq hist'.shown
    BY SendsHist
  <1>2. ASSUME ~SendAndKeep PROVE hist'.shown = hist.shown
    <2>1. CASE Echo
      BY <2>1, EchoHist
    <2>2. CASE EchoPage
      BY <2>2, EchoPageHist
    <2>3. CASE ObStart
      BY <2>3, ObStartHist
    <2>4. CASE ObEnd(TRUE) \/ ObEnd(FALSE)
      BY <2>4, ObEndHist
    <2>5. CASE Begin(TRUE) \/ Begin(FALSE)
      BY <2>5, NewCallHist DEF Begin
    <2>6. CASE NotRendered
      BY <2>6, NewCallHist DEF NotRendered
    <2>7. CASE RenderEnds
      <3>1. CASE buf = <<>>
        BY <2>7, <3>1, EmptyText, EndedFacts DEF RenderEnds, States
      <3>2. CASE buf # <<>>
        <4>1. buf[1].text \in Text
          BY <3>2, TopText
        <4> QED BY <2>7, <3>2, <4>1, EndedFacts DEF RenderEnds, States
      <3> QED BY <3>1, <3>2
    <2>8. CASE DisplayEnds
      BY <2>8, EmptyText, EndedFacts DEF DisplayEnds, States
    <2>9. CASE TemplateThrew
      BY <2>9, EmptyText, EndedFacts DEF TemplateThrew, States
    <2>10. CASE Respond \/ HandlerSends
      BY <1>2, <2>10 DEF Respond, HandlerSends
    <2>11. CASE DispatchEnds
      BY <2>11, EndsHist DEF DispatchEnds
    <2>12. ASSUME UNCHANGED hist PROVE hist'.shown = hist.shown
      BY <2>12
    <2> QED BY <2>1, <2>2, <2>3, <2>4, <2>5, <2>6, <2>7, <2>8, <2>9, <2>10, <2>11, <2>12
            DEF Next, vars, Throw, Catch, PutPage, ClearPart, ClearBody, SetHeader, ClearHeaders
  <1> QED BY <1>1, <1>2

LEMMA PlacesGrow ==
  ASSUME NEW F, NEW E, F \subseteq E, Places(F)
  PROVE  Places(E)
  <1>1. \A t : Once(F, t) => Once(E, t)
    BY DEF Once
  <1>2. \A t : Apart(F, t) => Apart(E, t)
    BY <1>1 DEF Apart
  <1>3. SentApart(E) /\ HeldApart(E)
    BY <1>1, <1>2 DEF Places, SentApart, HeldApart
  <1>4. PartsApart(E) /\ PlacesApart(E)
    BY <1>2 DEF Places, PartsApart, PlacesApart
  <1> QED BY <1>3, <1>4 DEF Places

LEMMA TwiceStep ==
  ASSUME TwiceInv, [Next]_vars
  PROVE  TwiceInv'
  <1>1. TypeOK /\ Places(hist.shown)
    BY DEF TwiceInv
  <1>2. PICK E : E = hist'.shown
    OBVIOUS
  <1>3. hist.shown \subseteq E /\ (SendAndKeep => Chunks(Joined) \subseteq E)
    BY <1>1, <1>2, ShownGrows
  <1>4. Places(E)
    BY <1>1, <1>3, PlacesGrow
  <1>5. SentApart(E)' /\ HeldApart(E)' /\ PartsApart(E)' /\ PlacesApart(E)'
    BY <1>1, <1>3, <1>4, PlacesStep
  <1>6. Places(hist.shown)'
    BY <1>2, <1>5 DEF Places, SentApart, HeldApart, PartsApart, PlacesApart
  <1>7. TypeOK'
    BY <1>1, TypesStep
  <1> QED BY <1>6, <1>7 DEF TwiceInv

LEMMA TwiceInit ==
  ASSUME Init
  PROVE  TwiceInv
  <1>1. TypeOK
    <2>1. hist \in History
      BY DEF Init, History, Text, Chunk
    <2> QED BY <2>1, EmptyShape DEF Init, TypeOK, Text
  <1>2. out = <<>> /\ buf = <<>> /\ body = <<>> /\ pages = {}
    BY DEF Init
  <1>3. Apart(hist.shown, <<>>) /\ All(<<>>) = {} /\ Named(<<>>) /\ Chunks(<<>>) = {} /\ Once(hist.shown, <<>>)
    BY EmptyShape
  <1>4. SentApart(hist.shown) /\ PartsApart(hist.shown) /\ Sent = {} /\ All(body) = {}
    BY <1>2, <1>3 DEF SentApart, PartsApart, Sent
  <1>5. HeldApart(hist.shown) /\ Held = {}
    BY <1>2 DEF HeldApart, Held
  <1> QED BY <1>1, <1>4, <1>5 DEF TwiceInv, Places, PlacesApart

\* No chunk of text is in two places, or twice in one: what a template writes is
\* moved from its buffer to the page, from there to the response or the output,
\* and never copied, however render(), the response's three ways to set a part,
\* clearBody(), exceptions and PHP's own buffers follow each other.  Excepted is
\* text that PHP code has sent by response(), or an error page that the exception
\* handler has sent: the response keeps these.
THEOREM PageNeverTwice == Spec => []NothingTwice
  <1>1. Init => TwiceInv
    BY TwiceInit
  <1>2. TwiceInv /\ [Next]_vars => TwiceInv'
    BY TwiceStep
  <1>3. TwiceInv => NothingTwice
    <2> SUFFICES ASSUME TwiceInv PROVE NothingTwice
      OBVIOUS
    <2> DEFINE held == {<<"page", p>> : p \in pages} \cup {<<"buf", i>> : i \in DOMAIN buf}
                       \cup {<<"body", i>> : i \in DOMAIN body} \cup {<<"out", 0>>}
               text(x) == CASE x[1] = "page" -> hist.whole[x[2]]
                            [] x[1] = "buf" -> buf[x[2]].text
                            [] x[1] = "body" -> body[x[2]].text
                            [] x[1] = "out" -> out
    <2>0. SentApart(hist.shown) /\ HeldApart(hist.shown) /\ PartsApart(hist.shown) /\ PlacesApart(hist.shown)
      BY DEF TwiceInv, Places
    <2>1. ASSUME NEW x \in held
          PROVE  \/ \E p \in pages : x = <<"page", p>> /\ text(x) = hist.whole[p]
                 \/ \E i \in DOMAIN buf : x = <<"buf", i>> /\ text(x) = buf[i].text
                 \/ \E i \in DOMAIN body : x = <<"body", i>> /\ text(x) = body[i].text
                 \/ x = <<"out", 0>> /\ text(x) = out
      <3>1. CASE \E p \in pages : x = <<"page", p>>
        BY <3>1
      <3>2. CASE \E i \in DOMAIN buf : x = <<"buf", i>>
        BY <3>2
      <3>3. CASE \E i \in DOMAIN body : x = <<"body", i>>
        BY <3>3
      <3>4. CASE x = <<"out", 0>>
        BY <3>4
      <3> QED BY <3>1, <3>2, <3>3, <3>4
    <2> HIDE DEF text
    <2>2. ASSUME NEW x \in held PROVE Once(hist.shown, text(x))
      <3>1. \A p \in pages : Once(hist.shown, hist.whole[p])
        BY <2>0 DEF HeldApart
      <3>2. (\A i \in DOMAIN buf : Once(hist.shown, buf[i].text)) /\ (\A i \in DOMAIN body : Once(hist.shown, body[i].text)) /\ Once(hist.shown, out)
        BY <2>0 DEF SentApart, PartsApart, Apart
      <3> HIDE DEF held
      <3> QED BY <2>1, <3>1, <3>2
    \* the four places, as sets
    <2>3. /\ \A p \in pages : Chunks(hist.whole[p]) \subseteq Held
          /\ \A i \in DOMAIN buf : Chunks(buf[i].text) \subseteq All(buf)
          /\ \A i \in DOMAIN body : Chunks(body[i].text) \subseteq All(body)
      BY HeldMember, AllMember
    <2>4. /\ Chunks(out) \cap All(buf) \subseteq hist.shown /\ Chunks(out) \cap Held \subseteq hist.shown /\ All(buf) \cap Held \subseteq hist.shown
          /\ Chunks(out) \cap All(body) \subseteq hist.shown /\ All(buf) \cap All(body) \subseteq hist.shown /\ Held \cap All(body) \subseteq hist.shown
      BY <2>0 DEF SentApart, PlacesApart, Sent
    <2>5. ASSUME NEW x \in held, NEW y \in held, x # y PROVE Chunks(text(x)) \cap Chunks(text(y)) \subseteq hist.shown
      <3>a. \/ \E p \in pages : x = <<"page", p>> /\ text(x) = hist.whole[p]
            \/ \E i \in DOMAIN buf : x = <<"buf", i>> /\ text(x) = buf[i].text
            \/ \E i \in DOMAIN body : x = <<"body", i>> /\ text(x) = body[i].text
            \/ x = <<"out", 0>> /\ text(x) = out
        BY <2>1
      <3>b. \/ \E p \in pages : y = <<"page", p>> /\ text(y) = hist.whole[p]
            \/ \E i \in DOMAIN buf : y = <<"buf", i>> /\ text(y) = buf[i].text
            \/ \E i \in DOMAIN body : y = <<"body", i>> /\ text(y) = body[i].text
            \/ y = <<"out", 0>> /\ text(y) = out
        BY <2>1
      <3> DEFINE X == Chunks(text(x))
                 Y == Chunks(text(y))
      <3>1. ASSUME NEW p \in pages, x = <<"page", p>>, text(x) = hist.whole[p] PROVE X \cap Y \subseteq hist.shown
        <4>1. ASSUME NEW q \in pages, y = <<"page", q>>, text(y) = hist.whole[q] PROVE X \cap Y \subseteq hist.shown
          <5>1. p # q
            BY <2>5, <3>1, <4>1
          <5> QED BY <2>0, <3>1, <4>1, <5>1 DEF HeldApart
        <4>2. ASSUME NEW i \in DOMAIN buf, text(y) = buf[i].text PROVE X \cap Y \subseteq hist.shown
          BY <2>3, <2>4, <3>1, <4>2
        <4>3. ASSUME NEW i \in DOMAIN body, text(y) = body[i].text PROVE X \cap Y \subseteq hist.shown
          BY <2>3, <2>4, <3>1, <4>3
        <4>4. ASSUME text(y) = out PROVE X \cap Y \subseteq hist.shown
          BY <2>3, <2>4, <3>1, <4>4
        <4> HIDE DEF X, Y
        <4> QED BY <3>b, <4>1, <4>2, <4>3, <4>4
      <3>2. ASSUME NEW i \in DOMAIN buf, x = <<"buf", i>>, text(x) = buf[i].text PROVE X \cap Y \subseteq hist.shown
        <4>1. ASSUME NEW j \in DOMAIN buf, y = <<"buf", j>>, text(y) = buf[j].text PROVE X \cap Y \subseteq hist.shown
          <5>1. i # j
            BY <2>5, <3>2, <4>1
          <5> QED BY <2>0, <3>2, <4>1, <5>1 DEF SentApart, Apart
        <4>2. ASSUME NEW q \in pages, text(y) = hist.whole[q] PROVE X \cap Y \subseteq hist.shown
          BY <2>3, <2>4, <3>2, <4>2
        <4>3. ASSUME NEW j \in DOMAIN body, text(y) = body[j].text PROVE X \cap Y \subseteq hist.shown
          BY <2>3, <2>4, <3>2, <4>3
        <4>4. ASSUME text(y) = out PROVE X \cap Y \subseteq hist.shown
          BY <2>3, <2>4, <3>2, <4>4
        <4> HIDE DEF X, Y
        <4> QED BY <3>b, <4>1, <4>2, <4>3, <4>4
      <3>3. ASSUME NEW i \in DOMAIN body, x = <<"body", i>>, text(x) = body[i].text PROVE X \cap Y \subseteq hist.shown
        <4>1. ASSUME NEW j \in DOMAIN body, y = <<"body", j>>, text(y) = body[j].text PROVE X \cap Y \subseteq hist.shown
          <5>1. i # j
            BY <2>5, <3>3, <4>1
          <5> QED BY <2>0, <3>3, <4>1, <5>1 DEF PartsApart, Apart
        <4>2. ASSUME NEW q \in pages, text(y) = hist.whole[q] PROVE X \cap Y \subseteq hist.shown
          BY <2>3, <2>4, <3>3, <4>2
        <4>3. ASSUME NEW j \in DOMAIN buf, text(y) = buf[j].text PROVE X \cap Y \subseteq hist.shown
          BY <2>3, <2>4, <3>3, <4>3
        <4>4. ASSUME text(y) = out PROVE X \cap Y \subseteq hist.shown
          BY <2>3, <2>4, <3>3, <4>4
        <4> HIDE DEF X, Y
        <4> QED BY <3>b, <4>1, <4>2, <4>3, <4>4
      <3>4. ASSUME x = <<"out", 0>>, text(x) = out PROVE X \cap Y \subseteq hist.shown
        <4>1. ASSUME NEW q \in pages, text(y) = hist.whole[q] PROVE X \cap Y \subseteq hist.shown
          BY <2>3, <2>4, <3>4, <4>1
        <4>2. ASSUME NEW j \in DOMAIN buf, text(y) = buf[j].text PROVE X \cap Y \subseteq hist.shown
          BY <2>3, <2>4, <3>4, <4>2
        <4>3. ASSUME NEW j \in DOMAIN body, text(y) = body[j].text PROVE X \cap Y \subseteq hist.shown
          BY <2>3, <2>4, <3>4, <4>3
        <4>4. ~(y = <<"out", 0>>)
          BY <2>5, <3>4
        <4> HIDE DEF X, Y
        <4> QED BY <3>b, <4>1, <4>2, <4>3, <4>4
      <3> HIDE DEF X, Y
      <3>5. X \cap Y \subseteq hist.shown
        BY <3>a, <3>1, <3>2, <3>3, <3>4
      <3> QED BY <3>5 DEF X, Y
    <2>6. \A x \in held : \A i, j \in DOMAIN text(x) : text(x)[i] = text(x)[j] => i = j \/ text(x)[i] \in hist.shown
      BY <2>2 DEF Once
    <2>7. \A x, y \in held : x # y => Chunks(text(x)) \cap Chunks(text(y)) \subseteq hist.shown
      BY <2>5
    <2> QED BY <2>6, <2>7, Zenon DEF NothingTwice, text
  <1> QED BY <1>1, <1>2, <1>3, PTL DEF Spec

-----------------------------------------------------------------------------
(* The stack of output buffers *)

\* How high the stack is when nothing but c's own buffers and its page's are on
\* what there was when c began.
Size(c) == c.base + c.own + (IF c.buffered THEN 1 ELSE 0)

\* The heights of the buffers that render() opened for the templates that run.
Heights == {calls[i].base + 1 : i \in {j \in DOMAIN calls : calls[j].buffered}}

Nested ==
  /\ calls # <<>> => Size(calls[1]) = Len(buf)
  /\ \A i \in 1 .. Len(calls) - 1 : Size(calls[i + 1]) = calls[i].base
  /\ \A i, j \in DOMAIN calls : i < j => Size(calls[j]) <= calls[i].base

Owned == \A i \in DOMAIN buf : buf[i].yaf <=> Len(buf) + 1 - i \in Heights

Counted == Len(buf) + hist.closes = hist.opens + Cardinality(Heights)

Layout == Nested /\ Owned /\ Counted

LayoutInv == TypeOK /\ (hist.tidy => Layout)

LEMMA SizeFacts ==
  ASSUME NEW c \in Call
  PROVE  /\ Size(c) \in Nat /\ c.base \in Nat /\ c.own \in Nat
         /\ c.buffered => Size(c) = c.base + c.own + 1
         /\ ~c.buffered => Size(c) = c.base + c.own
  <1>1. c.base \in Nat /\ c.own \in Nat
    BY DEF Call
  <1> QED BY <1>1 DEF Size

LEMMA HeightsMember ==
  ASSUME NEW h
  PROVE  h \in Heights <=> \E i \in DOMAIN calls : calls[i].buffered /\ h = calls[i].base + 1
  BY DEF Heights

LEMMA SizesBounded ==
  ASSUME calls \in Seq(Call), buf \in Seq(Buffer), Nested
  PROVE  /\ \A j \in DOMAIN calls : Size(calls[j]) <= Len(buf)
         /\ \A j \in DOMAIN calls : j # 1 => Size(calls[j]) <= calls[1].base
  <1>0. /\ Len(calls) \in Nat /\ DOMAIN calls = 1 .. Len(calls)
        /\ \A i \in 1 .. Len(calls) : calls[i] \in Call
    BY CallFacts
  <1>1. ASSUME NEW j \in DOMAIN calls, j # 1 PROVE Size(calls[j]) <= calls[1].base
    <2>1. 1 \in DOMAIN calls /\ 1 < j
      BY <1>0, <1>1
    <2> QED BY <2>1 DEF Nested
  <1>2. ASSUME NEW j \in DOMAIN calls PROVE Size(calls[j]) <= Len(buf)
    <2>1. 1 \in DOMAIN calls /\ calls # <<>>
      BY <1>0
    <2>2. Size(calls[1]) = Len(buf) /\ calls[1] \in Call /\ calls[j] \in Call
      BY <1>0, <2>1 DEF Nested
    <2>3. calls[1].base <= Size(calls[1]) /\ calls[1].base \in Nat /\ Size(calls[1]) \in Nat /\ Size(calls[j]) \in Nat
      BY <2>2, SizeFacts
    <2> QED BY <1>1, <2>2, <2>3
  <1> QED BY <1>1, <1>2

LEMMA HeightsFacts ==
  ASSUME calls \in Seq(Call), buf \in Seq(Buffer), Nested
  PROVE  Heights \subseteq 1 .. Len(buf) /\ IsFiniteSet(Heights) /\ Len(buf) \in Nat
  <1>0. /\ DOMAIN calls = 1 .. Len(calls) /\ \A i \in 1 .. Len(calls) : calls[i] \in Call
    BY CallFacts
  <1>1. Len(buf) \in Nat
    BY LenProperties
  <1>2. ASSUME NEW h \in Heights PROVE h \in 1 .. Len(buf)
    <2>1. PICK i \in DOMAIN calls : calls[i].buffered /\ h = calls[i].base + 1
      BY HeightsMember
    <2>2. calls[i] \in Call
      BY <1>0
    <2>3. Size(calls[i]) = calls[i].base + calls[i].own + 1 /\ calls[i].base \in Nat /\ calls[i].own \in Nat
      BY <2>1, <2>2, SizeFacts
    <2>4. Size(calls[i]) <= Len(buf)
      BY SizesBounded
    <2> QED BY <1>1, <2>1, <2>3, <2>4
  <1>3. IsFiniteSet(1 .. Len(buf))
    BY <1>1, FS_Interval
  <1>4. IsFiniteSet(Heights)
    BY <1>2, <1>3, FS_Subset
  <1> QED BY <1>1, <1>2, <1>4

\* A write changes neither the buffers nor whose they are.
LEMMA LayoutSame ==
  ASSUME Layout, calls' = calls, buf' \in Seq(Buffer), buf \in Seq(Buffer), Len(buf') = Len(buf),
         \A i \in DOMAIN buf : buf'[i].yaf = buf[i].yaf,
         hist'.opens = hist.opens, hist'.closes = hist.closes
  PROVE  Layout'
  <1>1. Heights' = Heights
    BY DEF Heights
  <1>2. DOMAIN buf' = DOMAIN buf
    BY LenProperties
  <1>3. Nested'
    BY DEF Layout, Nested, Size
  <1>4. Owned'
    BY <1>1, <1>2 DEF Layout, Owned
  <1>5. Counted'
    BY <1>1 DEF Layout, Counted
  <1> QED BY <1>3, <1>4, <1>5 DEF Layout

LEMMA WrittenSame ==
  ASSUME NEW s \in Seq(Buffer), NEW t, NEW u, Written(s, t, u)
  PROVE  t \in Seq(Buffer) /\ Len(t) = Len(s) /\ \A i \in DOMAIN s : t[i].yaf = s[i].yaf
  <1>1. t \in Seq(Buffer) /\ Len(t) = Len(s) /\ t[1].yaf = s[1].yaf /\ \A i \in 2 .. Len(s) : t[i] = s[i]
    BY DEF Written
  <1>2. Len(s) \in Nat /\ DOMAIN s = 1 .. Len(s)
    BY LenProperties
  <1>3. ASSUME NEW i \in DOMAIN s PROVE t[i].yaf = s[i].yaf
    <2>1. i = 1 \/ i \in 2 .. Len(s)
      BY <1>2
    <2> QED BY <1>1, <2>1
  <1> QED BY <1>1, <1>3

LEMMA LayoutWrite ==
  ASSUME TypeOK, Layout, NEW u \in Text, Write(u), calls' = calls,
         hist'.opens = hist.opens, hist'.closes = hist.closes
  PROVE  Layout'
  <1>0. out \in Text /\ buf \in Seq(Buffer)
    BY DEF TypeOK, Buffer
  <1>1. buf' \in Seq(Buffer) /\ Len(buf') = Len(buf) /\ (buf' = buf \/ Written(buf, buf', u))
    BY <1>0, WriteShape
  <1>2. \A i \in DOMAIN buf : buf'[i].yaf = buf[i].yaf
    BY <1>0, <1>1, WrittenSame
  <1> QED BY <1>0, <1>1, <1>2, LayoutSame

\* The innermost template opens or closes a buffer of its own.
LEMMA OwnChanges ==
  ASSUME calls \in Seq(Call), calls # <<>>, buf \in Seq(Buffer), Nested, NEW n \in Nat,
         calls' = [calls EXCEPT ![1].own = n], Len(buf') = Len(buf) + n - calls[1].own
  PROVE  Nested' /\ Heights' = Heights
  <1>0. /\ Len(calls) \in Nat /\ Len(calls) >= 1 /\ DOMAIN calls = 1 .. Len(calls) /\ Len(buf) \in Nat
        /\ 1 \in 1 .. Len(calls)
    BY CallFacts, TailFacts, LenProperties
  <1>1. \A i \in 1 .. Len(calls) : calls[i] \in Call
    BY CallFacts
  <1>2. calls' \in Seq(Call) /\ Len(calls') = Len(calls)
    BY FirstChanges
  <1>3. \A i \in 1 .. Len(calls) : /\ calls'[i].id = calls[i].id /\ calls'[i].buffered = calls[i].buffered
                                   /\ calls'[i].base = calls[i].base
                                   /\ calls'[i].own = IF i = 1 THEN n ELSE calls[i].own
    BY FirstChanges
  <1>4. DOMAIN calls' = 1 .. Len(calls)
    BY <1>2, LenProperties
  <1>5. Heights' = Heights
    <2>1. \A h : h \in Heights' <=> \E i \in DOMAIN calls' : calls'[i].buffered /\ h = calls'[i].base + 1
      BY DEF Heights
    <2>2. \A h : h \in Heights' <=> h \in Heights
      BY <1>0, <1>3, <1>4, <2>1, HeightsMember
    <2> QED BY <2>2
  <1>6. \A i \in 1 .. Len(calls) : i # 1 => Size(calls'[i]) = Size(calls[i])
    BY <1>3 DEF Size
  <1>7. Size(calls'[1]) = Len(buf')
    <2>1. Size(calls[1]) = Len(buf) /\ calls[1] \in Call
      BY <1>0, <1>1 DEF Nested
    <2>2. calls[1].base \in Nat /\ calls[1].own \in Nat
      BY <2>1, SizeFacts
    <2>3. calls'[1].base = calls[1].base /\ calls'[1].own = n /\ calls'[1].buffered = calls[1].buffered
      BY <1>0, <1>3
    <2>4. CASE calls[1].buffered
      BY <1>0, <2>1, <2>2, <2>3, <2>4 DEF Size
    <2>5. CASE ~calls[1].buffered
      BY <1>0, <2>1, <2>2, <2>3, <2>5, SMTT(30) DEF Size
    <2> QED BY <2>4, <2>5
  <1>8. ASSUME NEW i \in 1 .. Len(calls) - 1 PROVE Size(calls'[i + 1]) = calls'[i].base
    <2>1. i + 1 \in 1 .. Len(calls) /\ i + 1 # 1 /\ i \in 1 .. Len(calls)
      BY <1>0
    <2>2. Size(calls[i + 1]) = calls[i].base
      BY DEF Nested
    <2> QED BY <1>3, <1>6, <2>1, <2>2
  <1>9. ASSUME NEW i \in DOMAIN calls, NEW j \in DOMAIN calls, i < j PROVE Size(calls'[j]) <= calls'[i].base
    <2>1. j # 1
      BY <1>0, <1>9
    <2>2. Size(calls[j]) <= calls[i].base
      BY <1>9 DEF Nested
    <2> QED BY <1>0, <1>3, <1>6, <2>1, <2>2
  <1>10. Nested'
    BY <1>0, <1>2, <1>4, <1>7, <1>8, <1>9 DEF Nested
  <1> QED BY <1>5, <1>10

LEMMA LayoutOpen ==
  ASSUME TypeOK, TypeOK', Layout, ObStart
  PROVE  Layout'
  <1>0. /\ buf \in Seq(Buffer) /\ calls \in Seq(Call) /\ hist \in History /\ Nested /\ Owned /\ Counted
        /\ buf' \in Seq(Buffer)
    BY DEF TypeOK, Buffer, Layout
  <1> DEFINE f == [yaf |-> FALSE, text |-> <<>>]
  <1>1. f \in Buffer /\ ~f.yaf /\ buf' = <<f>> \o buf
    BY DEF Buffer, Text, ObStart
  <1> HIDE DEF f
  <1>2. /\ Len(buf) \in Nat /\ Len(buf') = Len(buf) + 1 /\ DOMAIN buf' = 1 .. Len(buf) + 1
        /\ DOMAIN buf = 1 .. Len(buf) /\ buf'[1] = f
    BY <1>0, <1>1, PushFacts
  <1>3. \A i \in 1 .. Len(buf) : buf'[i + 1] = buf[i]
    BY <1>0, <1>1, PushFacts
  <1>4. Nested' /\ Heights' = Heights
    <2>1. CASE calls = <<>>
      <3>1. calls' = calls
        BY <2>1 DEF ObStart
      <3>2. DOMAIN calls = {} /\ Len(calls) = 0
        BY <2>1
      <3> QED BY <2>1, <3>1, <3>2 DEF Nested, Heights
    <2>2. CASE calls # <<>>
      <3> DEFINE n == calls[1].own + 1
      <3>1. calls[1].own \in Nat
        <4>1. calls[1] \in Call
          BY <1>0, <2>2, TailFacts
        <4> QED BY <4>1, SizeFacts
      <3>2. calls' = [calls EXCEPT ![1].own = n]
        BY <2>2 DEF ObStart
      <3>3. n \in Nat /\ Len(buf') = Len(buf) + n - calls[1].own
        BY <1>2, <3>1
      <3> HIDE DEF n
      <3> QED BY <1>0, <2>2, <3>2, <3>3, OwnChanges
    <2> QED BY <2>1, <2>2
  <1>5. Heights \subseteq 1 .. Len(buf)
    BY <1>0, HeightsFacts
  <1>6. ASSUME NEW i \in DOMAIN buf' PROVE buf'[i].yaf <=> Len(buf') + 1 - i \in Heights'
    <2>1. CASE i = 1
      <3>1. Len(buf') + 1 - i = Len(buf) + 1 /\ ~(Len(buf) + 1 \in 1 .. Len(buf))
        BY <1>2, <2>1
      <3> QED BY <1>1, <1>2, <1>4, <1>5, <2>1, <3>1
    <2>2. CASE i # 1
      <3> DEFINE j == i - 1
      <3>1. j \in 1 .. Len(buf) /\ j + 1 = i /\ Len(buf') + 1 - i = Len(buf) + 1 - j
        BY <1>2, <2>2
      <3> HIDE DEF j
      <3>2. buf'[i] = buf[j]
        BY <1>3, <3>1
      <3>3. buf[j].yaf <=> Len(buf) + 1 - j \in Heights
        BY <1>0, <1>2, <3>1 DEF Owned
      <3> QED BY <1>4, <3>1, <3>2, <3>3
    <2> QED BY <2>1, <2>2
  <1>7. Counted'
    <2>1. hist'.opens = hist.opens + 1 /\ hist'.closes = hist.closes
      BY ObStartHist
    <2>2. hist.opens \in Nat /\ hist.closes \in Nat
      BY <1>0, HistFacts
    <2>3. Cardinality(Heights) \in Nat
      BY <1>0, HeightsFacts, FS_CardinalityType
    <2>4. Cardinality(Heights)' = Cardinality(Heights)
      BY <1>4
    <2> QED BY <1>0, <1>2, <2>1, <2>2, <2>3, <2>4, SMTT(30) DEF Counted
  <1> QED BY <1>4, <1>6, <1>7 DEF Layout, Owned

\* The active buffer goes.
LEMMA OwnedTail ==
  ASSUME buf \in Seq(Buffer), buf # <<>>, buf' \in Seq(Buffer), Len(buf') = Len(buf) - 1,
         \A i \in 1 .. Len(buf) - 1 : buf'[i].yaf = buf[i + 1].yaf,
         Heights' = Heights \ {Len(buf)}, Owned
  PROVE  Owned'
  <1>1. Len(buf) \in Nat /\ DOMAIN buf = 1 .. Len(buf) /\ DOMAIN buf' = 1 .. Len(buf) - 1
    BY LenProperties
  <1>2. ASSUME NEW i \in DOMAIN buf' PROVE buf'[i].yaf <=> Len(buf') + 1 - i \in Heights'
    <2> DEFINE h == Len(buf') + 1 - i
    <2>1. i \in 1 .. Len(buf) - 1 /\ i + 1 \in DOMAIN buf /\ h = Len(buf) + 1 - (i + 1) /\ h # Len(buf)
      BY <1>1
    <2>2. buf[i + 1].yaf <=> h \in Heights
      BY <2>1 DEF Owned
    <2> HIDE DEF h
    <2>3. h \in Heights' <=> h \in Heights
      BY <2>1
    <2>4. buf'[i].yaf = buf[i + 1].yaf
      BY <2>1
    <2> QED BY <2>2, <2>3, <2>4 DEF h
  <1> QED BY <1>2 DEF Owned

LEMMA LayoutClose ==
  ASSUME TypeOK, TypeOK', Layout, NEW flush \in BOOLEAN, ObEnd(flush), hist'.tidy
  PROVE  Layout'
  <1>0. /\ out \in Text /\ buf \in Seq(Buffer) /\ calls \in Seq(Call) /\ hist \in History
        /\ Nested /\ Owned /\ Counted /\ buf' \in Seq(Buffer) /\ buf # <<>>
    BY DEF TypeOK, Buffer, Layout, ObEnd
  <1>1. /\ Tail(buf) \in Seq(Buffer) /\ Len(buf) \in Nat /\ Len(buf) >= 1 /\ Len(Tail(buf)) = Len(buf) - 1
        /\ DOMAIN Tail(buf) = 1 .. Len(buf) - 1
    BY <1>0, TailFacts
  <1>2. \A i \in 1 .. Len(buf) - 1 : Tail(buf)[i] = buf[i + 1]
    BY <1>0, TailFacts
  <1>3. Len(buf') = Len(buf) - 1 /\ \A i \in 1 .. Len(buf) - 1 : buf'[i].yaf = buf[i + 1].yaf
    <2>1. CASE buf' = Tail(buf)
      BY <1>1, <1>2, <2>1
    <2>2. CASE Written(Tail(buf), buf', buf[1].text)
      <3>1. Len(buf') = Len(Tail(buf)) /\ \A i \in DOMAIN Tail(buf) : buf'[i].yaf = Tail(buf)[i].yaf
        BY <1>1, <2>2, WrittenSame
      <3> QED BY <1>1, <1>2, <3>1, SMTT(30)
    <2>3. CASE flush
      BY <1>0, <2>1, <2>2, <2>3, FlushShape DEF ObEnd
    <2>4. CASE ~flush
      BY <2>1, <2>4 DEF ObEnd
    <2> QED BY <2>3, <2>4
  <1>4. calls # <<>> => calls[1].own > 0
    BY ObEndHist
  <1>5. Nested' /\ Heights' = Heights /\ Len(buf) \notin Heights
    <2>1. CASE calls = <<>>
      <3>1. calls' = calls
        BY <2>1 DEF ObEnd
      <3>2. DOMAIN calls = {} /\ Len(calls) = 0
        BY <2>1
      <3> QED BY <2>1, <3>1, <3>2 DEF Nested, Heights
    <2>2. CASE calls # <<>>
      <3> DEFINE n == calls[1].own - 1
      <3>1. calls[1] \in Call
        BY <1>0, <2>2, TailFacts
      <3>2. calls[1].own \in Nat /\ calls[1].base \in Nat /\ calls[1].own > 0 /\ Size(calls[1]) = Len(buf)
        BY <1>0, <1>4, <2>2, <3>1, SizeFacts DEF Nested
      <3>3. calls' = [calls EXCEPT ![1].own = n]
        BY <2>2, <3>2 DEF ObEnd
      <3>4. n \in Nat /\ Len(buf') = Len(buf) + n - calls[1].own
        BY <1>1, <1>3, <3>2
      <3> HIDE DEF n
      <3>5. Nested' /\ Heights' = Heights
        BY <1>0, <2>2, <3>3, <3>4, OwnChanges
      <3>6. ASSUME Len(buf) \in Heights PROVE FALSE
        <4>1. PICK i \in DOMAIN calls : calls[i].buffered /\ Len(buf) = calls[i].base + 1
          BY <3>6, HeightsMember
        <4>2. calls[i] \in Call
          BY <1>0, CallFacts
        <4>3. Size(calls[i]) = calls[i].base + calls[i].own + 1 /\ calls[i].base \in Nat /\ calls[i].own \in Nat
          BY <4>1, <4>2, SizeFacts
        <4>4. CASE i = 1
          BY <1>1, <3>2, <4>1, <4>3, <4>4
        <4>5. CASE i # 1
          <5>1. Size(calls[i]) <= calls[1].base
            BY <1>0, <4>5, SizesBounded
          <5>2. calls[1].base + calls[1].own <= Size(calls[1])
            BY <3>1, SizeFacts
          <5> QED BY <1>1, <3>2, <4>1, <4>3, <5>1, <5>2, SMTT(30)
        <4> QED BY <4>4, <4>5
      <3> QED BY <3>5, <3>6
    <2> QED BY <2>1, <2>2
  <1>6. Owned'
    <2>1. Heights' = Heights \ {Len(buf)}
      BY <1>5
    <2> QED BY <1>0, <1>3, <2>1, OwnedTail
  <1>7. Counted'
    <2>1. hist'.closes = hist.closes + 1 /\ hist'.opens = hist.opens
      BY ObEndHist
    <2>2. hist.opens \in Nat /\ hist.closes \in Nat
      BY <1>0, HistFacts
    <2>3. Cardinality(Heights) \in Nat
      BY <1>0, HeightsFacts, FS_CardinalityType
    <2>4. Cardinality(Heights)' = Cardinality(Heights)
      BY <1>5
    <2> QED BY <1>0, <1>1, <1>3, <2>1, <2>2, <2>3, <2>4 DEF Counted
  <1> QED BY <1>5, <1>6, <1>7 DEF Layout

LEMMA LayoutBegin ==
  ASSUME TypeOK, TypeOK', Layout, NEW buffered \in BOOLEAN, Begin(buffered)
  PROVE  Layout'
  <1>0. /\ buf \in Seq(Buffer) /\ calls \in Seq(Call) /\ hist \in History /\ Nested /\ Owned /\ Counted
        /\ buf' \in Seq(Buffer) /\ calls' \in Seq(Call)
    BY DEF TypeOK, Buffer, Layout
  <1> DEFINE f == [yaf |-> TRUE, text |-> <<>>]
             c == [id |-> hist.next, buffered |-> buffered, own |-> 0, base |-> Len(buf)]
  <1>1. /\ f \in Buffer /\ f.yaf /\ buf' = (IF buffered THEN <<f>> \o buf ELSE buf)
        /\ calls' = <<c>> \o calls
    BY DEF Buffer, Text, Begin
  <1>2. Len(buf) \in Nat /\ hist.next \in Ids
    <2>1. hist.next \in Ids
      BY <1>0, HistFacts, PageAssumption DEF Begin, Ids
    <2> QED BY <1>0, <2>1, LenProperties
  <1>3. c \in Call /\ (c.buffered <=> buffered) /\ c.own = 0 /\ c.base = Len(buf)
    <2>1. c \in Call /\ c.buffered = buffered /\ c.own = 0 /\ c.base = Len(buf)
      BY <1>2 DEF Call
    <2> HIDE DEF c
    <2>2. c.buffered <=> buffered
      BY <2>1, Zenon
    <2> QED BY <2>1, <2>2
  <1> HIDE DEF f, c
  <1>4. /\ Len(calls) \in Nat /\ Len(calls') = Len(calls) + 1 /\ calls'[1] = c
        /\ DOMAIN calls = 1 .. Len(calls) /\ DOMAIN calls' = 1 .. Len(calls) + 1
    BY <1>0, <1>1, <1>3, PushFacts
  <1>5. \A i \in 1 .. Len(calls) : calls'[i + 1] = calls[i]
    BY <1>0, <1>1, <1>3, PushFacts
  <1>6. \A i \in DOMAIN calls' : i # 1 => i - 1 \in DOMAIN calls /\ calls'[i] = calls[i - 1]
    <2>1. ASSUME NEW i \in DOMAIN calls', i # 1 PROVE i - 1 \in DOMAIN calls /\ calls'[i] = calls[i - 1]
      <3>1. i - 1 \in 1 .. Len(calls) /\ (i - 1) + 1 = i
        BY <1>4, <2>1
      <3> QED BY <1>4, <1>5, <3>1
    <2> QED BY <2>1
  <1>7. (buffered => Len(buf') = Len(buf) + 1) /\ (~buffered => Len(buf') = Len(buf))
    BY <1>0, <1>1, <1>2, PushFacts
  <1>8. Size(calls'[1]) = Len(buf')
    <2>1. CASE buffered
      BY <1>2, <1>3, <1>4, <1>7, <2>1 DEF Size
    <2>2. CASE ~buffered
      BY <1>2, <1>3, <1>4, <1>7, <2>2 DEF Size
    <2> QED BY <2>1, <2>2
  <1>9. Nested'
    <2>1. ASSUME NEW i \in 1 .. Len(calls') - 1 PROVE Size(calls'[i + 1]) = calls'[i].base
      <3>1. i \in 1 .. Len(calls) /\ calls'[i + 1] = calls[i]
        BY <1>4, <1>5
      <3>2. CASE i = 1
        <4>1. calls # <<>>
          BY <3>1
        <4> QED BY <1>0, <1>3, <1>4, <3>1, <3>2, <4>1 DEF Nested
      <3>3. CASE i # 1
        <4> DEFINE j == i - 1
        <4>1. j \in 1 .. Len(calls) - 1 /\ j + 1 = i /\ calls'[i] = calls[j]
          BY <1>4, <1>6, <3>1, <3>3
        <4> HIDE DEF j
        <4>2. Size(calls[j + 1]) = calls[j].base
          BY <1>0, <4>1 DEF Nested
        <4> QED BY <3>1, <4>1, <4>2
      <3> QED BY <3>2, <3>3
    <2>2. ASSUME NEW i \in DOMAIN calls', NEW j \in DOMAIN calls', i < j PROVE Size(calls'[j]) <= calls'[i].base
      <3>1. j # 1 /\ j - 1 \in DOMAIN calls /\ calls'[j] = calls[j - 1]
        BY <1>4, <1>6, <2>2
      <3>2. CASE i = 1
        <4>1. Size(calls[j - 1]) <= Len(buf)
          BY <1>0, <3>1, SizesBounded
        <4> QED BY <1>3, <1>4, <3>1, <3>2, <4>1
      <3>3. CASE i # 1
        <4>1. i - 1 \in DOMAIN calls /\ calls'[i] = calls[i - 1] /\ i - 1 < j - 1
          BY <1>4, <1>6, <2>2, <3>3
        <4>2. Size(calls[j - 1]) <= calls[i - 1].base
          BY <1>0, <3>1, <4>1 DEF Nested
        <4> QED BY <3>1, <4>1, <4>2
      <3> QED BY <3>2, <3>3
    <2> QED BY <1>8, <2>1, <2>2 DEF Nested
  <1>10. Heights' = IF buffered THEN Heights \cup {Len(buf) + 1} ELSE Heights
    <2>1. \A h : h \in Heights' <=> \E i \in DOMAIN calls' : calls'[i].buffered /\ h = calls'[i].base + 1
      BY DEF Heights
    <2>2. ASSUME NEW h \in Heights' PROVE h \in Heights \/ (buffered /\ h = Len(buf) + 1)
      <3>1. PICK i \in DOMAIN calls' : calls'[i].buffered /\ h = calls'[i].base + 1
        BY <2>1
      <3>2. CASE i = 1
        BY <1>3, <1>4, <3>1, <3>2
      <3>3. CASE i # 1
        BY <1>6, <3>1, <3>3, HeightsMember
      <3> QED BY <3>2, <3>3
    <2>3. ASSUME NEW h \in Heights PROVE h \in Heights'
      <3>1. PICK i \in DOMAIN calls : calls[i].buffered /\ h = calls[i].base + 1
        BY HeightsMember
      <3>2. i + 1 \in DOMAIN calls' /\ calls'[i + 1] = calls[i]
        BY <1>4, <1>5
      <3> QED BY <2>1, <3>1, <3>2
    <2>4. ASSUME buffered PROVE Len(buf) + 1 \in Heights'
      <3>1. 1 \in DOMAIN calls' /\ calls'[1].buffered /\ calls'[1].base = Len(buf)
        BY <1>3, <1>4, <2>4
      <3> QED BY <2>1, <3>1
    <2> QED BY <2>2, <2>3, <2>4
  <1>11. Heights \subseteq 1 .. Len(buf) /\ IsFiniteSet(Heights) /\ Len(buf) + 1 \notin Heights
    BY <1>0, <1>2, HeightsFacts
  <1>12. Owned'
    <2>1. CASE ~buffered
      BY <1>0, <1>1, <1>10, <2>1 DEF Owned
    <2>2. CASE buffered
      <3>1. buf' = <<f>> \o buf
        BY <1>1, <2>2
      <3>2. DOMAIN buf' = 1 .. Len(buf) + 1 /\ DOMAIN buf = 1 .. Len(buf) /\ buf'[1] = f /\ Len(buf') = Len(buf) + 1
        BY <1>0, <1>1, <3>1, PushFacts
      <3>3. \A i \in 1 .. Len(buf) : buf'[i + 1] = buf[i]
        BY <1>0, <1>1, <3>1, PushFacts
      <3>4. Heights' = Heights \cup {Len(buf) + 1}
        BY <1>10, <2>2
      <3>5. ASSUME NEW i \in DOMAIN buf' PROVE buf'[i].yaf <=> Len(buf') + 1 - i \in Heights'
        <4>1. CASE i = 1
          <5>1. Len(buf') + 1 - i = Len(buf) + 1
            BY <1>2, <3>2, <4>1
          <5> QED BY <1>1, <3>2, <3>4, <4>1, <5>1
        <4>2. CASE i # 1
          <5> DEFINE j == i - 1
                     h == Len(buf) + 1 - j
          <5>1. j \in 1 .. Len(buf) /\ j + 1 = i /\ Len(buf') + 1 - i = h /\ h # Len(buf) + 1
            BY <1>2, <3>2, <4>2
          <5> HIDE DEF j
          <5>2. buf'[i] = buf[j]
            BY <3>3, <5>1
          <5>3. buf[j].yaf <=> h \in Heights
            BY <1>0, <3>2, <5>1 DEF Owned
          <5> HIDE DEF h
          <5> QED BY <3>4, <5>1, <5>2, <5>3
        <4> QED BY <4>1, <4>2, SMTT(30)
      <3> QED BY <3>5 DEF Owned
    <2> QED BY <2>1, <2>2
  <1>13. Counted'
    <2>1. hist'.closes = hist.closes /\ hist'.opens = hist.opens
      BY NewCallHist DEF Begin
    <2>2. hist.opens \in Nat /\ hist.closes \in Nat
      BY <1>0, HistFacts
    <2>3. Cardinality(Heights) \in Nat
      BY <1>11, FS_CardinalityType
    <2>4. CASE ~buffered
      <3>1. Cardinality(Heights)' = Cardinality(Heights)
        BY <1>10, <2>4
      <3> QED BY <1>0, <1>2, <1>7, <2>1, <2>2, <2>3, <2>4, <3>1 DEF Counted
    <2>5. CASE buffered
      <3>1. Cardinality(Heights \cup {Len(buf) + 1}) = Cardinality(Heights) + 1
        BY <1>11, FS_AddElement
      <3>2. Cardinality(Heights)' = Cardinality(Heights) + 1
        BY <1>10, <2>5, <3>1
      <3>3. Len(buf') = Len(buf) + 1 /\ Len(buf) + hist.closes = hist.opens + Cardinality(Heights)
        BY <1>0, <1>7, <2>5 DEF Counted
      <3>4. Len(buf') + hist'.closes = hist'.opens + Cardinality(Heights)'
        BY <1>2, <2>1, <2>2, <2>3, <3>2, <3>3, SMTT(30)
      <3> QED BY <3>4 DEF Counted
    <2> QED BY <2>4, <2>5
  <1> QED BY <1>9, <1>12, <1>13 DEF Layout

LEMMA OneLess ==
  ASSUME NEW a \in Nat, NEW b \in Nat, NEW c \in Nat, NEW d \in Nat, a + b = c + d
  PROVE  (a - 1) + b = c + (d - 1)
  OBVIOUS

\* A template ends: with a page or without, by an exception or not.
LEMMA LayoutEnds ==
  ASSUME TypeOK, TypeOK', Layout, calls # <<>>, calls[1].own = 0, calls' = Tail(calls),
         calls[1].buffered => buf' = (IF buf = <<>> THEN buf ELSE Tail(buf)),
         ~calls[1].buffered => buf' = buf,
         hist'.opens = hist.opens, hist'.closes = hist.closes
  PROVE  Layout'
  <1>0. /\ buf \in Seq(Buffer) /\ calls \in Seq(Call) /\ hist \in History /\ Nested /\ Owned /\ Counted
        /\ buf' \in Seq(Buffer) /\ calls' \in Seq(Call)
    BY DEF TypeOK, Buffer, Layout
  <1>1. /\ Len(calls) \in Nat /\ Len(calls) >= 1 /\ Len(calls') = Len(calls) - 1 /\ calls[1] \in Call
        /\ DOMAIN calls = 1 .. Len(calls) /\ DOMAIN calls' = 1 .. Len(calls) - 1
    BY <1>0, TailFacts
  <1>2. \A i \in 1 .. Len(calls) - 1 : calls'[i] = calls[i + 1]
    BY <1>0, TailFacts
  <1>3. Size(calls[1]) = Len(buf) /\ calls[1].base \in Nat /\ Len(buf) \in Nat
    BY <1>0, <1>1, SizeFacts, LenProperties DEF Nested
  <1>4. /\ calls[1].buffered => Len(buf) = calls[1].base + 1
        /\ ~calls[1].buffered => Len(buf) = calls[1].base
    BY <1>1, <1>3, SizeFacts
  <1>5. calls[1].buffered => buf # <<>> /\ buf' = Tail(buf)
    <2>1. calls[1].buffered => buf # <<>>
      BY <1>3, <1>4
    <2> QED BY <2>1
  <1>6. Len(buf') = calls[1].base
    <2>1. CASE calls[1].buffered
      <3>1. Len(buf') = Len(buf) - 1
        BY <1>0, <1>5, <2>1, TailFacts
      <3> QED BY <1>3, <1>4, <2>1, <3>1
    <2>2. CASE ~calls[1].buffered
      BY <1>4, <2>2
    <2> QED BY <2>1, <2>2
  <1>7. Nested'
    <2>1. ASSUME calls' # <<>> PROVE Size(calls'[1]) = Len(buf')
      <3>1. 1 \in 1 .. Len(calls) - 1
        <4>1. Len(calls') # 0
          BY <1>0, <2>1, EmptySeq
        <4> QED BY <1>1, <4>1
      <3>2. calls'[1] = calls[1 + 1] /\ Size(calls[1 + 1]) = calls[1].base
        BY <1>0, <1>2, <3>1 DEF Nested
      <3> QED BY <1>6, <3>2
    <2>2. ASSUME NEW i \in 1 .. Len(calls') - 1 PROVE Size(calls'[i + 1]) = calls'[i].base
      <3> DEFINE j == i + 1
      <3>1. i \in 1 .. Len(calls) - 1 /\ j \in 1 .. Len(calls) - 1
        BY <1>1
      <3>2. calls'[i] = calls[j] /\ calls'[j] = calls[j + 1]
        BY <1>2, <3>1
      <3>3. Size(calls[j + 1]) = calls[j].base
        BY <1>0, <3>1 DEF Nested
      <3> QED BY <3>2, <3>3
    <2>3. ASSUME NEW i \in DOMAIN calls', NEW j \in DOMAIN calls', i < j PROVE Size(calls'[j]) <= calls'[i].base
      <3>1. i + 1 \in DOMAIN calls /\ j + 1 \in DOMAIN calls /\ i + 1 < j + 1
        BY <1>1, <2>3
      <3>2. Size(calls[j + 1]) <= calls[i + 1].base
        BY <1>0, <3>1 DEF Nested
      <3>3. calls'[i] = calls[i + 1] /\ calls'[j] = calls[j + 1]
        BY <1>1, <1>2
      <3> QED BY <3>2, <3>3
    <2> QED BY <2>1, <2>2, <2>3 DEF Nested
  <1>8. Heights' = IF calls[1].buffered THEN Heights \ {Len(buf)} ELSE Heights
    <2>1. \A h : h \in Heights' <=> \E i \in DOMAIN calls' : calls'[i].buffered /\ h = calls'[i].base + 1
      BY DEF Heights
    <2>2. ASSUME NEW h \in Heights' PROVE h \in Heights /\ (calls[1].buffered => h # Len(buf))
      <3>1. PICK i \in DOMAIN calls' : calls'[i].buffered /\ h = calls'[i].base + 1
        BY <2>1
      <3> DEFINE j == i + 1
      <3>2. j \in DOMAIN calls /\ j # 1 /\ calls'[i] = calls[j]
        BY <1>1, <1>2
      <3> HIDE DEF j
      <3>3. h \in Heights
        BY <3>1, <3>2, HeightsMember
      <3>4. Size(calls[j]) <= calls[1].base
        BY <1>0, <3>2, SizesBounded
      <3>5. calls[j] \in Call
        BY <1>0, <1>1, <3>2, CallFacts
      <3>6. Size(calls[j]) = calls[j].base + calls[j].own + 1 /\ calls[j].base \in Nat /\ calls[j].own \in Nat
        BY <3>1, <3>2, <3>5, SizeFacts
      <3>7. h <= calls[1].base /\ h \in Nat
        BY <1>3, <3>1, <3>2, <3>4, <3>6, SMTT(30)
      <3> QED BY <1>3, <1>4, <3>3, <3>7
    <2>3. ASSUME NEW h \in Heights, calls[1].buffered => h # Len(buf) PROVE h \in Heights'
      <3>1. PICK i \in DOMAIN calls : calls[i].buffered /\ h = calls[i].base + 1
        BY HeightsMember
      <3>2. i # 1
        BY <1>4, <2>3, <3>1
      <3> DEFINE j == i - 1
      <3>3. j \in 1 .. Len(calls) - 1 /\ j + 1 = i
        BY <1>1, <3>2
      <3> HIDE DEF j
      <3>4. j \in DOMAIN calls' /\ calls'[j] = calls[i]
        BY <1>1, <1>2, <3>3
      <3> QED BY <2>1, <3>1, <3>4
    <2> QED BY <2>2, <2>3
  <1>9. Heights \subseteq 1 .. Len(buf) /\ IsFiniteSet(Heights) /\ (calls[1].buffered => Len(buf) \in Heights)
    <2>1. Heights \subseteq 1 .. Len(buf) /\ IsFiniteSet(Heights)
      BY <1>0, HeightsFacts
    <2>2. calls[1].buffered => Len(buf) \in Heights
      BY <1>1, <1>4, HeightsMember
    <2> QED BY <2>1, <2>2
  <1>10. Owned'
    <2>1. CASE ~calls[1].buffered
      BY <1>0, <1>8, <2>1 DEF Owned
    <2>2. CASE calls[1].buffered
      <3>1. buf # <<>> /\ buf' = Tail(buf) /\ Heights' = Heights \ {Len(buf)}
        BY <1>5, <1>8, <2>2
      <3>2. Len(buf') = Len(buf) - 1
        BY <1>0, <3>1, TailFacts
      <3>3. \A i \in 1 .. Len(buf) - 1 : buf'[i].yaf = buf[i + 1].yaf
        <4>1. \A i \in 1 .. Len(buf) - 1 : Tail(buf)[i] = buf[i + 1]
          BY <1>0, <3>1, TailFacts
        <4> QED BY <3>1, <4>1
      <3> QED BY <1>0, <3>1, <3>2, <3>3, OwnedTail
    <2> QED BY <2>1, <2>2
  <1>11. Counted'
    <2>2. hist.opens \in Nat /\ hist.closes \in Nat
      BY <1>0, HistFacts
    <2>3. Cardinality(Heights) \in Nat /\ Len(buf) + hist.closes = hist.opens + Cardinality(Heights)
      BY <1>0, <1>9, FS_CardinalityType DEF Counted
    <2>4. CASE ~calls[1].buffered
      <3>1. Cardinality(Heights)' = Cardinality(Heights) /\ buf' = buf
        BY <1>8, <2>4
      <3>2. Len(buf') + hist'.closes = hist'.opens + Cardinality(Heights)'
        BY <2>3, <3>1
      <3> QED BY <3>2 DEF Counted
    <2>5. CASE calls[1].buffered
      <3>1. Cardinality(Heights \ {Len(buf)}) = Cardinality(Heights) - 1
        BY <1>9, <2>5, FS_RemoveElement
      <3>2. Cardinality(Heights)' = Cardinality(Heights) - 1
        BY <1>8, <2>5, <3>1
      <3>3. Len(buf') = Len(buf) - 1
        BY <1>3, <1>4, <1>6, <2>5
      <3>4. Len(buf') + hist'.closes = hist'.opens + Cardinality(Heights)'
        <4> DEFINE k == Cardinality(Heights)
                   l == Len(buf)
                   o == hist.opens
                   c == hist.closes
        <4>1. k \in Nat /\ l \in Nat /\ o \in Nat /\ c \in Nat /\ l + c = o + k
          BY <1>3, <2>2, <2>3
        <4>2. Cardinality(Heights)' = k - 1 /\ Len(buf') = l - 1 /\ hist'.closes = c /\ hist'.opens = o
          BY <3>2, <3>3
        <4> HIDE DEF k, l, o, c
        <4>3. (l - 1) + c = o + (k - 1)
          BY <4>1, OneLess
        <4> QED BY <4>2, <4>3
      <3> QED BY <3>4 DEF Counted
    <2> QED BY <2>4, <2>5
  <1> QED BY <1>7, <1>10, <1>11 DEF Layout

LEMMA LayoutStep ==
  ASSUME LayoutInv, [Next]_vars
  PROVE  LayoutInv'
  <1>0. TypeOK /\ (hist.tidy => Layout) /\ hist \in History /\ body \in Seq(BodyPart) /\ buf \in Seq(Buffer)
    BY DEF LayoutInv, TypeOK, BodyPart, Buffer
  <1>t. TypeOK'
    BY <1>0, TypesStep
  <1> SUFFICES ASSUME hist'.tidy PROVE Layout'
    BY <1>t DEF LayoutInv
  <1>h. "running" \in States /\ "failed" \in States /\ "returned" \in States /\ <<>> \in Text
    BY DEF States, Text
  <1>1. CASE Echo
    <2>1. Write(<<Chunklet>>) /\ <<Chunklet>> \in Text
      BY <1>0, <1>1, EchoFacts, SingleChunk
    <2>2. hist.tidy /\ hist'.opens = hist.opens /\ hist'.closes = hist.closes
      BY <1>0, <1>1, EchoHist
    <2> QED BY <1>0, <1>1, <2>1, <2>2, LayoutWrite DEF Echo
  <1>2. CASE EchoPage
    <2>1. PICK p \in pages : hist.whole[p] \in Text /\ Write(hist.whole[p])
      BY <1>0, <1>2, EchoPageFacts
    <2>2. hist.tidy /\ hist'.opens = hist.opens /\ hist'.closes = hist.closes
      BY <1>0, <1>2, EchoPageHist
    <2> QED BY <1>0, <1>2, <2>1, <2>2, LayoutWrite DEF EchoPage
  <1>3. CASE ObStart
    <2>1. hist.tidy
      BY <1>0, <1>3, ObStartHist
    <2> QED BY <1>0, <1>3, <1>t, <2>1, LayoutOpen
  <1>4. ASSUME NEW flush \in BOOLEAN, ObEnd(flush) PROVE Layout'
    <2>1. hist.tidy
      BY <1>0, <1>4, ObEndHist
    <2> QED BY <1>0, <1>4, <1>t, <2>1, LayoutClose
  <1>5. ASSUME UNCHANGED <<buf, calls>>, hist'.tidy = hist.tidy, hist'.opens = hist.opens, hist'.closes = hist.closes
        PROVE  Layout'
    BY <1>0, <1>5, LayoutSame
  <1>6. ASSUME NEW buffered \in BOOLEAN, Begin(buffered) PROVE Layout'
    <2>1. hist.tidy
      BY <1>0, <1>6, NewCallHist DEF Begin
    <2> QED BY <1>0, <1>6, <1>t, <2>1, LayoutBegin
  <1>7. CASE NotRendered
    <2>1. hist'.tidy = hist.tidy /\ hist'.opens = hist.opens /\ hist'.closes = hist.closes
      BY <1>0, <1>7, NewCallHist DEF NotRendered
    <2> QED BY <1>5, <1>7, <2>1 DEF NotRendered
  \* what the history says of a template that ends
  <1>8. ASSUME calls # <<>>, NEW st \in States, NEW u \in Text, Ended(st, u)
        PROVE  /\ hist.tidy /\ calls[1].own = 0 /\ Layout
               /\ hist'.opens = hist.opens /\ hist'.closes = hist.closes
    <2>1. hist'.tidy = (hist.tidy /\ calls[1].own = 0) /\ hist'.opens = hist.opens /\ hist'.closes = hist.closes
      BY <1>0, <1>8, EndedFacts
    <2> QED BY <1>0, <2>1
  <1>9. CASE RenderEnds
    <2>1. calls # <<>> /\ calls[1].buffered /\ calls' = Tail(calls)
      BY <1>9 DEF RenderEnds
    <2>2. CASE buf = <<>>
      <3>1. Ended("failed", <<>>) /\ buf' = buf
        BY <1>9, <2>2 DEF RenderEnds
      <3>2. calls[1].own = 0 /\ Layout /\ hist'.opens = hist.opens /\ hist'.closes = hist.closes
        BY <1>8, <1>h, <2>1, <3>1
      <3> QED BY <1>0, <1>t, <2>1, <2>2, <3>1, <3>2, LayoutEnds
    <2>3. CASE buf # <<>>
      <3>1. Ended("returned", buf[1].text) /\ buf' = Tail(buf)
        BY <1>9, <2>3 DEF RenderEnds, GetAndDiscard
      <3>2. buf[1].text \in Text
        <4>1. buf[1] \in Buffer
          BY <1>0, <2>3, TailFacts
        <4> QED BY <4>1 DEF Buffer
      <3>3. calls[1].own = 0 /\ Layout /\ hist'.opens = hist.opens /\ hist'.closes = hist.closes
        BY <1>8, <1>h, <2>1, <3>1, <3>2
      <3> QED BY <1>0, <1>t, <2>1, <2>3, <3>1, <3>3, LayoutEnds
    <2> QED BY <2>2, <2>3
  <1>10. CASE DisplayEnds
    <2>1. calls # <<>> /\ ~calls[1].buffered /\ calls' = Tail(calls) /\ Ended("returned", <<>>) /\ buf' = buf
      BY <1>10 DEF DisplayEnds
    <2>2. calls[1].own = 0 /\ Layout /\ hist'.opens = hist.opens /\ hist'.closes = hist.closes
      BY <1>8, <1>h, <2>1
    <2> QED BY <1>0, <1>t, <2>1, <2>2, LayoutEnds
  <1>11. CASE TemplateThrew
    <2>1. calls # <<>> /\ calls' = Tail(calls) /\ Ended("failed", <<>>)
      BY <1>11 DEF TemplateThrew
    <2>2. /\ calls[1].buffered => buf' = (IF buf = <<>> THEN buf ELSE Tail(buf))
          /\ ~calls[1].buffered => buf' = buf
      BY <1>11 DEF TemplateThrew, DiscardBuffer
    <2>3. calls[1].own = 0 /\ Layout /\ hist'.opens = hist.opens /\ hist'.closes = hist.closes
      BY <1>8, <1>h, <2>1
    <2> QED BY <1>0, <1>t, <2>1, <2>2, <2>3, LayoutEnds
  <1>12. CASE Sends
    <2>1. calls' = calls /\ (UNCHANGED <<out, buf, hist>> \/ (Write(Joined) /\ OnlyGiven))
      BY <1>0, <1>12, SendsFacts
    <2>2. CASE UNCHANGED <<out, buf, hist>>
      BY <1>5, <2>1, <2>2
    <2>3. CASE Write(Joined) /\ OnlyGiven
      <3>1. Joined \in Text
        BY <1>0, JoinedType
      <3>2. hist.tidy /\ hist'.opens = hist.opens /\ hist'.closes = hist.closes
        BY <2>3 DEF OnlyGiven
      <3> QED BY <1>0, <2>1, <2>3, <3>1, <3>2, LayoutWrite
    <2> QED BY <2>1, <2>2, <2>3
  <1>13. CASE \/ Throw \/ Catch \/ (\E name \in Parts, how \in Hows : PutPage(name, how))
              \/ (\E name \in Parts : ClearPart(name)) \/ ClearBody
              \/ (\E h \in Headers : SetHeader(h)) \/ ClearHeaders \/ UNCHANGED vars
    <2>1. UNCHANGED <<buf, calls, hist>>
      BY <1>13 DEF Throw, Catch, PutPage, ClearPart, ClearBody, SetHeader, ClearHeaders, vars
    <2> QED BY <1>5, <2>1
  <1> QED BY <1>1, <1>2, <1>3, <1>4, <1>6, <1>7, <1>9, <1>10, <1>11, <1>12, <1>13 DEF Next, Hows, Sends

LEMMA LayoutInit ==
  ASSUME Init
  PROVE  LayoutInv
  <1>1. TypeOK
    <2>1. hist \in History
      BY DEF Init, History, Text, Chunk
    <2> QED BY <2>1, EmptyShape DEF Init, TypeOK, Text
  <1>2. calls = <<>> /\ buf = <<>> /\ hist.opens = 0 /\ hist.closes = 0
    BY DEF Init
  <1>3. DOMAIN calls = {} /\ DOMAIN buf = {} /\ Len(calls) = 0 /\ Len(buf) = 0
    BY <1>2
  <1>4. Heights = {}
    BY <1>3 DEF Heights
  <1>5. Nested /\ Owned
    BY <1>2, <1>3 DEF Nested, Owned
  <1>6. Counted
    BY <1>2, <1>3, <1>4, FS_EmptySet DEF Counted
  <1> QED BY <1>1, <1>5, <1>6 DEF LayoutInv, Layout

\* When no template runs, the output buffers are those that PHP code has opened
\* and not closed: render() leaves none of its buffers behind and takes none
\* that is not its own, whether its template returned, threw or ran others, and
\* display() touches none.  The templates close what they open, and nothing else
\* (hist.tidy).
THEOREM StackRestored == Spec => []BuffersRestored
  <1>1. Init => LayoutInv
    BY LayoutInit
  <1>2. LayoutInv /\ [Next]_vars => LayoutInv'
    BY LayoutStep
  <1>3. LayoutInv => BuffersRestored
    <2> SUFFICES ASSUME LayoutInv, hist.tidy, calls = <<>>
                 PROVE  (\A i \in DOMAIN buf : ~buf[i].yaf) /\ Len(buf) + hist.closes = hist.opens
      BY DEF BuffersRestored
    <2>1. Owned /\ Counted /\ hist \in History
      BY DEF LayoutInv, Layout, TypeOK
    <2>2. Heights = {}
      BY DEF Heights
    <2>3. hist.opens \in Nat
      BY <2>1, HistFacts
    <2>4. Len(buf) + hist.closes = hist.opens
      BY <2>1, <2>2, <2>3, FS_EmptySet DEF Counted
    <2> QED BY <2>1, <2>2, <2>4 DEF Owned
  <1> QED BY <1>1, <1>2, <1>3, PTL DEF Spec

-----------------------------------------------------------------------------
(* Whose page a chunk is in *)

\* The calls that run are the ones on the stack, the innermost the youngest.
CallsInv ==
  /\ \A i \in DOMAIN calls : calls[i].id < hist.next /\ hist.state[calls[i].id] = "running"
  /\ \A i, j \in DOMAIN calls : calls[i].id = calls[j].id => i = j
  /\ \A p \in pages : hist.state[p] = "returned"
  /\ \A c \in Ids : c >= hist.next => hist.state[c] = "unborn" /\ hist.direct[c] = {}

\* The calls and the history that CallsInv is about, when neither changes.
LEMMA CallsSame ==
  ASSUME TypeOK, CallsInv, DOMAIN calls' = DOMAIN calls, \A i \in DOMAIN calls : calls'[i].id = calls[i].id,
         hist'.state = hist.state, hist'.next = hist.next, pages' \subseteq pages,
         \A c \in Ids : hist.next <= c => hist'.direct[c] = hist.direct[c]
  PROVE  CallsInv'
  BY DEF CallsInv

LEMMA CallsEnd ==
  ASSUME TypeOK, CallsInv, calls # <<>>, calls' = Tail(calls), NEW st \in {"returned", "failed"}, NEW u \in Text,
         Ended(st, u), pages' = pages \/ (st = "returned" /\ pages' = pages \cup {calls[1].id})
  PROVE  CallsInv'
  <1> DEFINE e == calls[1].id
  <1>1. /\ e \in Ids /\ hist'.state = [hist.state EXCEPT ![e] = st] /\ hist'.next = hist.next
        /\ hist'.used = hist.used /\ hist'.direct = hist.direct
    BY EndedFacts DEF States
  <1>2. /\ Len(calls) \in Nat /\ Len(calls) >= 1 /\ DOMAIN calls = 1 .. Len(calls)
        /\ DOMAIN calls' = 1 .. Len(calls) - 1
    BY TailFacts DEF TypeOK
  <1>3. \A i \in 1 .. Len(calls) - 1 : calls'[i] = calls[i + 1]
    BY TailFacts DEF TypeOK
  <1>4. hist.state \in [Ids -> States] /\ hist.used \in [Ids -> SUBSET Ids] /\ hist.next \in Nat
    BY HistFacts DEF TypeOK
  <1>5. hist.state[e] = "running" /\ e < hist.next
    BY <1>2 DEF CallsInv
  <1> HIDE DEF e
  <1>6. \A c \in Ids : hist'.state[c] = IF c = e THEN st ELSE hist.state[c]
    BY <1>1, <1>4
  <1>7. \A i \in DOMAIN calls' : i + 1 \in DOMAIN calls /\ i + 1 # 1 /\ calls'[i] = calls[i + 1]
    BY <1>2, <1>3
  <1>8. \A i \in DOMAIN calls' : calls'[i].id \in Ids /\ calls'[i].id # e
    <2>1. ASSUME NEW i \in DOMAIN calls' PROVE calls'[i].id \in Ids /\ calls'[i].id # e
      <3> DEFINE j == i + 1
      <3>1. j \in DOMAIN calls /\ j # 1 /\ calls'[i] = calls[j] /\ 1 \in DOMAIN calls
        BY <1>2, <1>7
      <3> HIDE DEF j
      <3>2. calls[j].id \in Ids
        BY <1>2, <3>1, CallFacts DEF TypeOK
      <3>3. calls[j].id # calls[1].id
        BY <3>1 DEF CallsInv
      <3> QED BY <3>1, <3>2, <3>3 DEF e
    <2> QED BY <2>1
  <1>9. \A i \in DOMAIN calls' : calls'[i].id < hist'.next /\ hist'.state[calls'[i].id] = "running"
    <2>1. \A i \in DOMAIN calls : calls[i].id < hist.next /\ hist.state[calls[i].id] = "running"
      BY DEF CallsInv
    <2> QED BY <1>1, <1>6, <1>7, <1>8, <2>1
  <1>10. \A i, j \in DOMAIN calls' : calls'[i].id = calls'[j].id => i = j
    <2>1. ASSUME NEW i \in DOMAIN calls', NEW j \in DOMAIN calls', calls'[i].id = calls'[j].id PROVE i = j
      <3>1. calls[i + 1].id = calls[j + 1].id /\ i + 1 \in DOMAIN calls /\ j + 1 \in DOMAIN calls
        BY <1>7, <2>1
      <3>2. i + 1 = j + 1
        BY <3>1 DEF CallsInv
      <3> QED BY <1>2, <3>2
    <2> QED BY <2>1
  <1>11. \A p \in pages' : hist'.state[p] = "returned"
    <2>1. \A p \in pages : p \in Ids /\ hist.state[p] = "returned"
      BY DEF CallsInv, TypeOK
    <2>2. \A p \in pages : p # e
      BY <1>5, <2>1
    <2> QED BY <1>1, <1>6, <2>1, <2>2 DEF e
  <1>12. \A c \in Ids : c >= hist'.next => hist'.state[c] = "unborn" /\ hist'.direct[c] = {}
    <2>1. \A c \in Ids : c >= hist.next => c # e
      BY <1>4, <1>5 DEF Ids
    <2>2. \A c \in Ids : c >= hist.next => hist.state[c] = "unborn" /\ hist.direct[c] = {}
      BY DEF CallsInv
    <2> QED BY <1>1, <1>6, <2>1, <2>2
  <1> QED BY <1>9, <1>10, <1>11, <1>12 DEF CallsInv

\* A call that begins, or fails to.
LEMMA CallsNew ==
  ASSUME TypeOK, CallsInv, hist.next <= MaxCalls, NEW st \in {"running", "failed"}, pages' = pages,
         hist' = [hist EXCEPT !.next = @ + 1, !.state[hist.next] = st],
         \/ calls' = calls
         \/ /\ st = "running"
            /\ \E c \in Call : c.id = hist.next /\ calls' = <<c>> \o calls
  PROVE  CallsInv'
  <1> DEFINE n == hist.next
  <1>1. /\ n \in Ids /\ hist'.state = [hist.state EXCEPT ![n] = st] /\ hist'.next = n + 1
        /\ hist'.used = hist.used /\ hist'.direct = hist.direct
    BY NewCall, NewCallHist DEF States, TypeOK
  <1>2. hist.state \in [Ids -> States] /\ hist.used \in [Ids -> SUBSET Ids] /\ n \in Nat
    BY HistFacts DEF TypeOK
  <1>3. hist.state[n] = "unborn"
    BY <1>1, <1>2 DEF CallsInv
  <1> HIDE DEF n
  <1>4. \A c \in Ids : hist'.state[c] = IF c = n THEN st ELSE hist.state[c]
    BY <1>1, <1>2
  <1>5. \A i \in DOMAIN calls : calls[i].id \in Ids /\ calls[i].id < n /\ hist.state[calls[i].id] = "running"
    BY CallFacts DEF CallsInv, TypeOK, n
  <1>6. \A i \in DOMAIN calls : calls[i].id < n + 1 /\ calls[i].id # n /\ hist'.state[calls[i].id] = "running"
    BY <1>2, <1>4, <1>5 DEF Ids
  <1>7. /\ \A i \in DOMAIN calls' : calls'[i].id < hist'.next /\ hist'.state[calls'[i].id] = "running"
        /\ \A i, j \in DOMAIN calls' : calls'[i].id = calls'[j].id => i = j
    <2>1. CASE calls' = calls
      BY <1>1, <1>6, <2>1 DEF CallsInv
    <2>2. CASE st = "running" /\ \E c \in Call : c.id = n /\ calls' = <<c>> \o calls
      <3>1. PICK c \in Call : c.id = n /\ calls' = <<c>> \o calls
        BY <2>2
      <3>2. /\ Len(calls) \in Nat /\ calls'[1] = c /\ DOMAIN calls = 1 .. Len(calls)
            /\ DOMAIN calls' = 1 .. Len(calls) + 1
        BY <3>1, PushFacts DEF TypeOK
      <3>3. \A i \in 1 .. Len(calls) : calls'[i + 1] = calls[i]
        BY <3>1, PushFacts DEF TypeOK
      <3>4. ASSUME NEW i \in DOMAIN calls', i # 1 PROVE i - 1 \in DOMAIN calls /\ calls'[i] = calls[i - 1]
        <4>1. i - 1 \in 1 .. Len(calls) /\ (i - 1) + 1 = i
          BY <3>2, <3>4
        <4> QED BY <3>2, <3>3, <4>1
      <3>5. calls'[1].id = n /\ n < n + 1 /\ hist'.state[n] = "running"
        <4>1. calls'[1].id = n
          BY <3>1, <3>2
        <4>2. n < n + 1
          BY <1>2
        <4>3. hist'.state[n] = "running"
          BY <1>1, <1>4, <2>2, SMTT(30)
        <4> QED BY <4>1, <4>2, <4>3, SMTT(30)
      <3>6. ASSUME NEW i \in DOMAIN calls'
            PROVE  calls'[i].id < hist'.next /\ hist'.state[calls'[i].id] = "running"
        <4>1. CASE i = 1
          BY <1>1, <3>5, <4>1
        <4>2. CASE i # 1
          BY <1>1, <1>6, <3>4, <4>2
        <4> QED BY <4>1, <4>2
      <3>7. ASSUME NEW i \in DOMAIN calls', NEW j \in DOMAIN calls', calls'[i].id = calls'[j].id PROVE i = j
        <4>1. CASE i = 1 \/ j = 1
          BY <1>6, <3>4, <3>5, <3>7, <4>1
        <4>2. CASE i # 1 /\ j # 1
          <5>1. i - 1 \in DOMAIN calls /\ j - 1 \in DOMAIN calls /\ calls[i - 1].id = calls[j - 1].id
            BY <3>4, <3>7, <4>2
          <5>2. i - 1 = j - 1
            BY <5>1 DEF CallsInv
          <5> QED BY <3>2, <5>2
        <4> QED BY <4>1, <4>2
      <3> QED BY <3>6, <3>7
    <2> QED BY <2>1, <2>2 DEF n
  <1>8. \A p \in pages' : hist'.state[p] = "returned"
    <2>1. \A p \in pages : p \in Ids /\ hist.state[p] = "returned"
      BY DEF CallsInv, TypeOK
    <2> QED BY <1>3, <1>4, <2>1
  <1>9. \A c \in Ids : c >= hist'.next => hist'.state[c] = "unborn" /\ hist'.direct[c] = {}
    <2>1. \A c \in Ids : c >= n + 1 => c # n /\ c >= n
      BY <1>2 DEF Ids
    <2>2. \A c \in Ids : c >= n => hist.state[c] = "unborn" /\ hist.direct[c] = {}
      BY DEF CallsInv, n
    <2> QED BY <1>1, <1>4, <2>1, <2>2
  <1> QED BY <1>7, <1>8, <1>9 DEF CallsInv

\* The calls, but for how many buffers they have opened.
Alike(cs, ds) ==
  /\ DOMAIN ds = DOMAIN cs
  /\ \A i \in DOMAIN cs : /\ ds[i].id = cs[i].id /\ ds[i].base = cs[i].base
                          /\ ds[i].buffered = cs[i].buffered

\* ob_start() and ob_end_...() count a call's buffers and change nothing else of it.
LEMMA OwnAlike ==
  ASSUME TypeOK, ObStart \/ ObEnd(TRUE) \/ ObEnd(FALSE)
  PROVE  Alike(calls, calls')
  <1>0. calls \in Seq(Call)
    BY DEF TypeOK
  <1>a. DOMAIN calls = 1 .. Len(calls) /\ Len(calls) \in Nat
    BY <1>0, CallFacts
  <1>1. CASE calls' = calls
    BY <1>1 DEF Alike
  <1>2. ASSUME calls # <<>>, NEW n \in Nat, calls' = [calls EXCEPT ![1].own = n] PROVE Alike(calls, calls')
    <2>1. calls' \in Seq(Call) /\ Len(calls') = Len(calls)
      BY <1>0, <1>2, FirstChanges
    <2>2. \A i \in 1 .. Len(calls) : /\ calls'[i].id = calls[i].id /\ calls'[i].buffered = calls[i].buffered
                                     /\ calls'[i].base = calls[i].base
      BY <1>0, <1>2, FirstChanges
    <2>3. DOMAIN calls' = DOMAIN calls
      BY <1>a, <2>1, LenProperties
    <2> QED BY <1>a, <2>2, <2>3 DEF Alike
  <1>3. calls = <<>> => calls' = calls
    BY DEF ObStart, ObEnd
  <1>4. ASSUME calls # <<>>, calls' # calls PROVE \E n \in Nat : calls' = [calls EXCEPT ![1].own = n]
    <2>1. calls[1].own \in Nat
      <3>1. calls[1] \in Call
        BY <1>0, <1>4, TailFacts
      <3> QED BY <3>1 DEF Call
    <2>2. CASE ObStart
      <3>1. calls' = [calls EXCEPT ![1].own = calls[1].own + 1]
        BY <1>4, <2>2 DEF ObStart
      <3>2. calls[1].own + 1 \in Nat
        BY <2>1
      <3> QED BY <3>1, <3>2
    <2>3. ASSUME NEW flush, ObEnd(flush) PROVE \E n \in Nat : calls' = [calls EXCEPT ![1].own = n]
      <3>1. calls[1].own # 0 /\ calls' = [calls EXCEPT ![1].own = calls[1].own - 1]
        BY <1>4, <2>3 DEF ObEnd
      <3>2. calls[1].own - 1 \in Nat
        BY <2>1, <3>1
      <3> QED BY <3>1, <3>2
    <2> QED BY <2>2, <2>3
  <1> QED BY <1>1, <1>2, <1>3, <1>4

LEMMA CallsStep ==
  ASSUME TypeOK, CallsInv, [Next]_vars
  PROVE  CallsInv'
  <1>0. calls \in Seq(Call) /\ hist \in History /\ pages \subseteq Ids
    BY DEF TypeOK
  <1>h. /\ hist.next \in Nat /\ hist.used \in [Ids -> SUBSET Ids] /\ hist.state \in [Ids -> States]
        /\ DOMAIN calls = 1 .. Len(calls) /\ Len(calls) \in Nat
    BY <1>0, HistFacts, CallFacts
  <1>i. Innermost = 0 \/ (Innermost \in Ids /\ Innermost < hist.next)
    <2>1. \A i \in DOMAIN calls : calls[i].id \in Ids /\ calls[i].id < hist.next
      BY <1>0, CallFacts DEF CallsInv
    <2> QED BY <1>0, <2>1, InnermostFacts
  <1>1. CASE Echo
    <2>1. /\ hist'.state = hist.state /\ hist'.next = hist.next
          /\ calls' = calls /\ pages' = pages
      BY <1>1, EchoHist DEF Echo
    <2>2. \A c \in Ids : hist'.direct[c] = IF c = Innermost /\ Straight
                                           THEN hist.direct[c] \cup {hist.writes + 1} ELSE hist.direct[c]
      BY <1>1, EchoHist
    <2>3. \A c \in Ids : hist.next <= c => c # Innermost
      BY <1>h, <1>i DEF Ids
    <2>4. \A c \in Ids : hist.next <= c => hist'.direct[c] = hist.direct[c]
      BY <2>2, <2>3
    <2> QED BY <2>1, <2>4, CallsSame
  <1>2. CASE EchoPage
    <2>1. pages' \subseteq pages
      BY <1>2, EchoPageFacts
    <2>2. hist'.state = hist.state /\ hist'.next = hist.next /\ hist'.direct = hist.direct /\ calls' = calls
      BY <1>2, EchoPageHist DEF EchoPage
    <2> QED BY <2>1, <2>2, CallsSame
  <1>3. CASE ObStart
    <2>1. /\ hist'.state = hist.state /\ hist'.next = hist.next
          /\ hist'.direct = hist.direct /\ pages' = pages
      BY <1>3, ObStartHist DEF ObStart
    <2>2. DOMAIN calls' = DOMAIN calls /\ \A i \in DOMAIN calls : calls'[i].id = calls[i].id
      BY <1>3, OwnAlike DEF Alike
    <2> QED BY <2>1, <2>2, CallsSame
  <1>4. ASSUME NEW flush \in BOOLEAN, ObEnd(flush) PROVE CallsInv'
    <2>1. /\ hist'.state = hist.state /\ hist'.next = hist.next
          /\ hist'.direct = hist.direct /\ pages' = pages
      BY <1>4, ObEndHist DEF ObEnd
    <2>2. DOMAIN calls' = DOMAIN calls /\ \A i \in DOMAIN calls : calls'[i].id = calls[i].id
      <3>1. ObEnd(TRUE) \/ ObEnd(FALSE)
        BY <1>4
      <3> QED BY <3>1, OwnAlike DEF Alike
    <2> QED BY <2>1, <2>2, CallsSame
  <1>5. ASSUME NEW buffered \in BOOLEAN, Begin(buffered) PROVE CallsInv'
    <2> DEFINE c == [id |-> hist.next, buffered |-> buffered, own |-> 0, base |-> Len(buf)]
               st == "running"
    <2>1. calls' = <<c>> \o calls /\ hist.next <= MaxCalls /\ pages' = pages
      BY <1>5 DEF Begin
    <2>2. hist' = [hist EXCEPT !.next = @ + 1, !.state[hist.next] = st]
      BY <1>5 DEF Begin
    <2>3. c \in Call /\ c.id = hist.next
      <3>1. hist.next \in Ids
        BY <1>h, <1>0, <2>1, HistFacts, PageAssumption DEF Ids
      <3>2. Len(buf) \in Nat
        BY LenProperties DEF TypeOK
      <3> QED BY <3>1, <3>2 DEF Call
    <2>4. st \in {"running", "failed"} /\ st = "running"
      OBVIOUS
    <2> HIDE DEF c, st
    <2> QED BY <2>1, <2>2, <2>3, <2>4, CallsNew
  <1>6. CASE NotRendered
    <2> DEFINE st == "failed"
    <2>1. hist.next <= MaxCalls /\ pages' = pages /\ calls' = calls
      BY <1>6 DEF NotRendered
    <2>2. hist' = [hist EXCEPT !.next = @ + 1, !.state[hist.next] = st]
      BY <1>6 DEF NotRendered
    <2>3. st \in {"running", "failed"}
      OBVIOUS
    <2> HIDE DEF st
    <2> QED BY <2>1, <2>2, <2>3, CallsNew
  <1>7. CASE RenderEnds
    <2>1. CASE buf = <<>>
      <3> DEFINE st == "failed"
                 u == <<>>
      <3>1. calls # <<>> /\ calls' = Tail(calls) /\ Ended(st, u) /\ pages' = pages
        BY <1>7, <2>1 DEF RenderEnds
      <3>2. st \in {"returned", "failed"} /\ u \in Text
        BY EmptyShape DEF Text
      <3> HIDE DEF st, u
      <3> QED BY <3>1, <3>2, CallsEnd
    <2>2. CASE buf # <<>>
      <3> DEFINE st == "returned"
                 u == buf[1].text
      <3>1. calls # <<>> /\ calls' = Tail(calls) /\ Ended(st, u) /\ pages' = pages \cup {calls[1].id}
        BY <1>7, <2>2 DEF RenderEnds
      <3>2. u \in Text
        <4>1. buf[1] \in Buffer
          BY <2>2, TailFacts DEF TypeOK, Buffer
        <4> QED BY <4>1 DEF Buffer
      <3>3. st \in {"returned", "failed"} /\ st = "returned"
        OBVIOUS
      <3> HIDE DEF st, u
      <3> QED BY <3>1, <3>2, <3>3, CallsEnd
    <2> QED BY <2>1, <2>2
  <1>8. CASE DisplayEnds
    <2> DEFINE st == "returned"
               u == <<>>
    <2>1. calls # <<>> /\ calls' = Tail(calls) /\ Ended(st, u) /\ pages' = pages
      BY <1>8 DEF DisplayEnds
    <2>2. st \in {"returned", "failed"} /\ u \in Text
      BY EmptyShape DEF Text
    <2> HIDE DEF st, u
    <2> QED BY <2>1, <2>2, CallsEnd
  <1>9. CASE TemplateThrew
    <2> DEFINE st == "failed"
               u == <<>>
    <2>1. calls # <<>> /\ calls' = Tail(calls) /\ Ended(st, u) /\ pages' = pages
      BY <1>9 DEF TemplateThrew
    <2>2. st \in {"returned", "failed"} /\ u \in Text
      BY EmptyShape DEF Text
    <2> HIDE DEF st, u
    <2> QED BY <2>1, <2>2, CallsEnd
  <1>10. CASE \/ Throw \/ Catch \/ (\E name \in Parts, how \in Hows : PutPage(name, how))
              \/ (\E name \in Parts : ClearPart(name)) \/ ClearBody
              \/ (\E h \in Headers : SetHeader(h)) \/ ClearHeaders \/ UNCHANGED vars
    <2>1. UNCHANGED <<calls, hist>> /\ pages' \subseteq pages
      BY <1>10 DEF Throw, Catch, PutPage, ClearPart, ClearBody, SetHeader, ClearHeaders, vars
    <2> QED BY <2>1, CallsSame
  <1>11. CASE Sends
    <2>1. UNCHANGED <<calls, pages>> /\ hist'.state = hist.state /\ hist'.next = hist.next /\ hist'.direct = hist.direct
      BY <1>11, SendsFacts DEF OnlyGiven
    <2> QED BY <2>1, CallsSame
  <1> QED BY <1>1, <1>2, <1>3, <1>4, <1>5, <1>6, <1>7, <1>8, <1>9, <1>10, <1>11 DEF Next, Hows, Sends

-----------------------------------------------------------------------------
(* Which buffers are whose *)

\* A buffer at height h belongs to the page of the k-th call: it lies above the
\* place where the call began and below the one where a page inside it did.
Within(cs, k, h) ==
  /\ cs[k].buffered /\ cs[k].base < h
  /\ \A l \in 1 .. k - 1 : cs[l].buffered => h <= cs[l].base

Outside(cs, h) == \A k \in DOMAIN cs : cs[k].buffered => h <= cs[k].base

\* A chunk of the page of c, or of a page that went into it.
InPage(used, c, x) == x.of \in {c} \cup used[c]

Loose(state, x) == x.of = 0 \/ state[x.of] = "returned"

Inside(bs, cs, used) ==
  \A i \in DOMAIN bs, k \in DOMAIN cs :
    Within(cs, k, Len(bs) + 1 - i) => \A x \in Chunks(bs[i].text) : InPage(used, cs[k].id, x)

Beyond(bs, cs, state) ==
  \A i \in DOMAIN bs : Outside(cs, Len(bs) + 1 - i) => \A x \in Chunks(bs[i].text) : Loose(state, x)

Wholes(h) == \A c \in Ids : h.state[c] = "returned" => \A x \in Chunks(h.whole[c]) : InPage(h.used, c, x)

\* A running template's chunks are in the buffers of its own page and nowhere
\* else; what is in no page belongs to none that runs or failed.
Regions ==
  /\ Inside(buf, calls, hist.used)
  /\ Beyond(buf, calls, hist.state)
  /\ \A x \in Chunks(out) \cup All(body) : Loose(hist.state, x)
  /\ Wholes(hist)

\* What went into the response and into other pages was pages, and returned.
Finished ==
  /\ \A x \in All(body) : x.of # 0
  /\ \A c \in Ids : \A p \in hist.used[c] : hist.state[p] = "returned"

RegionInv == LayoutInv /\ CallsInv /\ (hist.tidy => Regions /\ Finished)

LEMMA Covered ==
  ASSUME NEW cs \in Seq(Call), NEW h \in Nat
  PROVE  Outside(cs, h) \/ \E k \in DOMAIN cs : Within(cs, k, h)
  <1> DEFINE S == {k \in DOMAIN cs : cs[k].buffered /\ cs[k].base < h}
  <1>0. Len(cs) \in Nat /\ DOMAIN cs = 1 .. Len(cs)
    BY LenProperties
  <1>1. \A k \in DOMAIN cs : cs[k].base \in Nat
    <2>1. \A k \in 1 .. Len(cs) : cs[k] \in Call
      BY ElementOfSeq
    <2> QED BY <1>0, <2>1 DEF Call
  <1>2. CASE S = {}
    <2>1. \A k \in DOMAIN cs : cs[k].buffered => h <= cs[k].base
      BY <1>1, <1>2
    <2> QED BY <2>1 DEF Outside
  <1>3. CASE S # {}
    <2>1. PICK k \in S : \A l \in S : k <= l
      <3>1. S \in SUBSET Nat
        BY <1>0
      <3> HIDE DEF S
      <3> QED BY <1>3, <3>1, LeastOf
    <2>2. ASSUME NEW l \in 1 .. k - 1, cs[l].buffered PROVE h <= cs[l].base
      <3>1. l \in DOMAIN cs /\ ~(k <= l)
        BY <1>0
      <3>2. ~(l \in S)
        <4> HIDE DEF S
        <4> QED BY <2>1, <3>1
      <3> QED BY <1>1, <2>2, <3>1, <3>2
    <2> QED BY <2>2 DEF Within
  <1> QED BY <1>2, <1>3

\* The buffer that is written to is the innermost page's.
LEMMA TopIsInnermost ==
  ASSUME calls \in Seq(Call), buf \in Seq(Buffer), Nested, NEW k0 \in DOMAIN calls, calls[k0].buffered,
         \A j \in 1 .. k0 - 1 : ~calls[j].buffered
  PROVE  /\ buf # <<>> /\ calls[k0].base < Len(buf)
         /\ \A k \in DOMAIN calls : Within(calls, k, Len(buf)) => k = k0
         /\ ~Outside(calls, Len(buf))
  <1>0. Len(calls) \in Nat /\ DOMAIN calls = 1 .. Len(calls) /\ Len(buf) \in Nat
    BY CallFacts, LenProperties
  <1>1. ASSUME NEW k \in DOMAIN calls, calls[k].buffered
        PROVE  calls[k].base < Len(buf) /\ ~(Len(buf) <= calls[k].base)
    <2>1. calls[k] \in Call
      BY <1>0, CallFacts
    <2>2. Size(calls[k]) = calls[k].base + calls[k].own + 1 /\ calls[k].base \in Nat /\ calls[k].own \in Nat
      BY <1>1, <2>1, SizeFacts
    <2>3. Size(calls[k]) <= Len(buf)
      BY SizesBounded
    <2> QED BY <1>0, <2>2, <2>3
  <1>2. buf # <<>>
    <2>1. calls[k0].base < Len(buf) /\ calls[k0].base \in Nat
      BY <1>0, <1>1, CallFacts
    <2>2. Len(buf) # 0
      BY <1>0, <2>1
    <2> QED BY <2>2
  <1>3. ASSUME NEW k \in DOMAIN calls, Within(calls, k, Len(buf)) PROVE k = k0
    <2>1. calls[k].buffered /\ \A l \in 1 .. k - 1 : calls[l].buffered => Len(buf) <= calls[l].base
      BY <1>3 DEF Within
    <2>2. ~(k < k0)
      <3> SUFFICES ASSUME k < k0 PROVE FALSE
        OBVIOUS
      <3>1. k \in 1 .. k0 - 1
        BY <1>0
      <3> QED BY <2>1, <3>1
    <2>3. ~(k0 < k)
      <3> SUFFICES ASSUME k0 < k PROVE FALSE
        OBVIOUS
      <3>1. k0 \in 1 .. k - 1
        BY <1>0
      <3> QED BY <1>1, <2>1, <3>1
    <2> QED BY <1>0, <2>2, <2>3
  <1>4. ~Outside(calls, Len(buf))
    BY <1>1 DEF Outside
  <1> QED BY <1>1, <1>2, <1>3, <1>4

LEMMA WrittenChunks ==
  ASSUME NEW s \in Seq(Buffer), NEW t, NEW u \in Text, Written(s, t, u)
  PROVE  /\ DOMAIN t = DOMAIN s /\ Len(t) = Len(s) /\ 1 \in DOMAIN s
         /\ Chunks(t[1].text) = Chunks(s[1].text) \cup Chunks(u)
         /\ \A i \in DOMAIN s : i # 1 => t[i] = s[i]
  <1>1. s # <<>> /\ t \in Seq(Buffer) /\ Len(t) = Len(s) /\ t[1].text = s[1].text \o u
        /\ \A i \in 2 .. Len(s) : t[i] = s[i]
    BY DEF Written
  <1>2. Len(s) \in Nat /\ Len(s) >= 1 /\ DOMAIN s = 1 .. Len(s) /\ s[1] \in Buffer
    BY <1>1, TailFacts
  <1>3. DOMAIN t = 1 .. Len(s)
    BY <1>1, LenProperties
  <1>4. s[1].text \in Text
    BY <1>2 DEF Buffer
  <1>5. Chunks(t[1].text) = Chunks(s[1].text) \cup Chunks(u)
    BY <1>1, <1>4, ConcatChunks
  <1>6. ASSUME NEW i \in DOMAIN s, i # 1 PROVE t[i] = s[i]
    <2>1. i \in 2 .. Len(s)
      BY <1>2, <1>6
    <2> QED BY <1>1, <2>1
  <1> QED BY <1>1, <1>2, <1>3, <1>5, <1>6

\* Something is written for the innermost page, or for the output.
LEMMA RegionsWrite ==
  ASSUME TypeOK, Layout, Regions, NEW u \in Text, Write(u), calls' = calls,
         hist'.state = hist.state, hist'.whole = hist.whole, \A c \in Ids : hist.used[c] \subseteq hist'.used[c],
         All(body') \subseteq All(body),
         Innermost = 0 => \A x \in Chunks(u) : Loose(hist.state, x),
         Innermost # 0 => \A x \in Chunks(u) : InPage(hist'.used, Innermost, x)
  PROVE  Regions'
  <1>0. out \in Text /\ buf \in Seq(Buffer) /\ calls \in Seq(Call) /\ Nested
    BY DEF TypeOK, Buffer, Layout
  <1>a. /\ Len(buf) \in Nat /\ DOMAIN buf = 1 .. Len(buf)
        /\ \A k \in DOMAIN calls : calls[k].id \in Ids
    BY <1>0, LenProperties, CallFacts
  <1>b. /\ Inside(buf, calls, hist.used) /\ Beyond(buf, calls, hist.state)
        /\ (\A x \in Chunks(out) \cup All(body) : Loose(hist.state, x)) /\ Wholes(hist)
    BY DEF Regions
  <1>w. \/ buf = <<>> /\ buf' = buf /\ out' = out \o u
        \/ buf # <<>> /\ out' = out /\ Written(buf, buf', u)
    BY <1>0, WriteShape
  <1>m. \A c \in Ids : \A x : InPage(hist.used, c, x) => InPage(hist'.used, c, x)
    BY DEF InPage
  <1>1. Wholes(hist')
    BY <1>b, <1>m DEF Wholes
  <1>2. CASE Innermost = 0 /\ \A i \in DOMAIN calls : ~calls[i].buffered
    <2>1. Inside(buf', calls', hist'.used)
      BY <1>2 DEF Inside, Within
    <2>2. \A h : Outside(calls, h)
      BY <1>2 DEF Outside
    <2>3. \A x \in Chunks(u) : Loose(hist.state, x)
      BY <1>2
    <2>4. \A i \in DOMAIN buf : \A x \in Chunks(buf[i].text) : Loose(hist.state, x)
      BY <1>b, <2>2 DEF Beyond
    <2>5. CASE buf = <<>> /\ buf' = buf /\ out' = out \o u
      <3>1. Chunks(out') = Chunks(out) \cup Chunks(u)
        BY <1>0, <2>5, ConcatChunks
      <3>2. \A x \in Chunks(out') \cup All(body') : Loose(hist'.state, x)
        BY <1>b, <2>3, <3>1
      <3>3. Beyond(buf', calls', hist'.state)
        BY <1>b, <2>5
      <3> QED BY <1>1, <2>1, <3>2, <3>3 DEF Regions
    <2>6. CASE buf # <<>> /\ out' = out /\ Written(buf, buf', u)
      <3>1. DOMAIN buf' = DOMAIN buf /\ Chunks(buf'[1].text) = Chunks(buf[1].text) \cup Chunks(u) /\ 1 \in DOMAIN buf
        BY <1>0, <2>6, WrittenChunks
      <3>2. \A i \in DOMAIN buf : i # 1 => buf'[i] = buf[i]
        BY <1>0, <2>6, WrittenChunks
      <3>3. ASSUME NEW i \in DOMAIN buf', NEW x \in Chunks(buf'[i].text) PROVE Loose(hist'.state, x)
        <4>1. CASE i = 1
          BY <2>3, <2>4, <3>1, <3>3, <4>1
        <4>2. CASE i # 1
          BY <2>4, <3>1, <3>2, <3>3, <4>2
        <4> QED BY <4>1, <4>2
      <3>4. Beyond(buf', calls', hist'.state)
        BY <3>3 DEF Beyond
      <3>5. \A x \in Chunks(out') \cup All(body') : Loose(hist'.state, x)
        BY <1>b, <2>6
      <3> QED BY <1>1, <2>1, <3>4, <3>5 DEF Regions
    <2> QED BY <1>w, <2>5, <2>6
  <1>3. CASE \E k0 \in DOMAIN calls : /\ calls[k0].buffered /\ Innermost = calls[k0].id
                                      /\ \A j \in 1 .. k0 - 1 : ~calls[j].buffered
    <2>1. PICK k0 \in DOMAIN calls : /\ calls[k0].buffered /\ Innermost = calls[k0].id
                                     /\ \A j \in 1 .. k0 - 1 : ~calls[j].buffered
      BY <1>3
    <2>2. buf # <<>> /\ ~Outside(calls, Len(buf))
      BY <1>0, <2>1, TopIsInnermost
    <2>3. \A k \in DOMAIN calls : Within(calls, k, Len(buf)) => k = k0
      BY <1>0, <2>1, TopIsInnermost
    <2>4. out' = out /\ Written(buf, buf', u)
      BY <1>w, <2>2
    <2>5. /\ DOMAIN buf' = DOMAIN buf /\ Len(buf') = Len(buf) /\ 1 \in DOMAIN buf
          /\ Chunks(buf'[1].text) = Chunks(buf[1].text) \cup Chunks(u)
      BY <1>0, <2>4, WrittenChunks
    <2>6. \A i \in DOMAIN buf : i # 1 => buf'[i] = buf[i]
      BY <1>0, <2>4, WrittenChunks
    <2>7. Len(buf) + 1 - 1 = Len(buf)
      BY <1>a
    <2>8. \A x \in Chunks(u) : InPage(hist'.used, calls[k0].id, x)
      <3>1. Innermost # 0
        BY <1>0, <1>a, <2>1, InnermostType
      <3> QED BY <2>1, <3>1
    <2>9. ASSUME NEW i \in DOMAIN buf', NEW k \in DOMAIN calls', Within(calls', k, Len(buf') + 1 - i),
                 NEW x \in Chunks(buf'[i].text)
          PROVE  InPage(hist'.used, calls'[k].id, x)
      <3>1. Within(calls, k, Len(buf) + 1 - i) /\ i \in DOMAIN buf /\ calls[k].id \in Ids /\ k \in DOMAIN calls
        BY <1>a, <2>5, <2>9
      <3>2. \A y \in Chunks(buf[i].text) : InPage(hist.used, calls[k].id, y)
        BY <1>b, <3>1 DEF Inside
      <3>3. \A y \in Chunks(buf[i].text) : InPage(hist'.used, calls[k].id, y)
        BY <1>m, <3>1, <3>2
      <3>4. CASE i = 1
        <4>1. k = k0
          BY <2>3, <2>7, <3>1, <3>4
        <4>2. x \in Chunks(buf[1].text) \/ x \in Chunks(u)
          BY <2>5, <2>9, <3>4
        <4> QED BY <2>8, <3>3, <3>4, <4>1, <4>2
      <3>5. CASE i # 1
        <4>1. buf'[i] = buf[i]
          BY <2>6, <3>1, <3>5
        <4> QED BY <2>9, <3>3, <4>1
      <3> QED BY <3>4, <3>5
    <2>10. ASSUME NEW i \in DOMAIN buf', Outside(calls', Len(buf') + 1 - i), NEW x \in Chunks(buf'[i].text)
           PROVE  Loose(hist'.state, x)
      <3>1. Outside(calls, Len(buf) + 1 - i) /\ i \in DOMAIN buf
        BY <2>5, <2>10
      <3>2. i # 1
        BY <2>2, <2>7, <3>1
      <3>3. buf'[i] = buf[i]
        BY <2>6, <3>1, <3>2
      <3> QED BY <1>b, <2>10, <3>1, <3>3 DEF Beyond
    <2>11. Inside(buf', calls', hist'.used) /\ Beyond(buf', calls', hist'.state)
      BY <2>9, <2>10 DEF Inside, Beyond
    <2>12. \A x \in Chunks(out') \cup All(body') : Loose(hist'.state, x)
      BY <1>b, <2>4
    <2> QED BY <1>1, <2>11, <2>12 DEF Regions
  <1> QED BY <1>0, <1>2, <1>3, InnermostFacts

\* The buffers change: one is opened, dropped or written to.
LEMMA RegionsRaised ==
  ASSUME NEW bs \in Seq(Buffer), NEW cs, NEW used, NEW state, NEW f \in Buffer, f.text = <<>>,
         NEW t, t = <<f>> \o bs, Inside(bs, cs, used), Beyond(bs, cs, state)
  PROVE  Inside(t, cs, used) /\ Beyond(t, cs, state)
  <1>1. /\ Len(bs) \in Nat /\ Len(t) = Len(bs) + 1 /\ t[1] = f /\ DOMAIN bs = 1 .. Len(bs)
        /\ DOMAIN t = 1 .. Len(bs) + 1
    BY PushFacts
  <1>2. \A i \in 1 .. Len(bs) : t[i + 1] = bs[i]
    BY PushFacts
  <1>3. Chunks(t[1].text) = {}
    BY <1>1, EmptyShape
  <1>4. ASSUME NEW i \in DOMAIN t, i # 1
        PROVE  \E j \in DOMAIN bs : t[i] = bs[j] /\ Len(t) + 1 - i = Len(bs) + 1 - j
    <2> DEFINE j == i - 1
    <2>1. j \in DOMAIN bs /\ j + 1 = i /\ Len(t) + 1 - i = Len(bs) + 1 - j
      BY <1>1, <1>4
    <2> HIDE DEF j
    <2>2. t[i] = bs[j]
      BY <1>1, <1>2, <2>1
    <2> QED BY <2>1, <2>2
  <1>5. Inside(t, cs, used)
    <2> SUFFICES ASSUME NEW i \in DOMAIN t, NEW k \in DOMAIN cs, Within(cs, k, Len(t) + 1 - i),
                        NEW x \in Chunks(t[i].text)
                 PROVE  InPage(used, cs[k].id, x)
      BY DEF Inside
    <2>1. i # 1
      BY <1>3
    <2>2. PICK j \in DOMAIN bs : t[i] = bs[j] /\ Len(t) + 1 - i = Len(bs) + 1 - j
      BY <1>4, <2>1
    <2>3. Within(cs, k, Len(bs) + 1 - j) /\ x \in Chunks(bs[j].text)
      BY <2>2
    <2> QED BY <2>3 DEF Inside
  <1>6. Beyond(t, cs, state)
    <2> SUFFICES ASSUME NEW i \in DOMAIN t, Outside(cs, Len(t) + 1 - i), NEW x \in Chunks(t[i].text)
                 PROVE  Loose(state, x)
      BY DEF Beyond
    <2>1. i # 1
      BY <1>3
    <2>2. PICK j \in DOMAIN bs : t[i] = bs[j] /\ Len(t) + 1 - i = Len(bs) + 1 - j
      BY <1>4, <2>1
    <2>3. Outside(cs, Len(bs) + 1 - j) /\ x \in Chunks(bs[j].text)
      BY <2>2
    <2> QED BY <2>3 DEF Beyond
  <1> QED BY <1>5, <1>6

LEMMA RegionsLowered ==
  ASSUME NEW bs \in Seq(Buffer), bs # <<>>, NEW cs, NEW used, NEW state,
         NEW t, t = Tail(bs), Inside(bs, cs, used), Beyond(bs, cs, state)
  PROVE  Inside(t, cs, used) /\ Beyond(t, cs, state)
  <1>1. /\ Len(bs) \in Nat /\ Len(t) = Len(bs) - 1 /\ DOMAIN bs = 1 .. Len(bs) /\ DOMAIN t = 1 .. Len(bs) - 1
    BY TailFacts
  <1>2. \A i \in 1 .. Len(bs) - 1 : t[i] = bs[i + 1]
    BY TailFacts
  <1>3. ASSUME NEW i \in DOMAIN t
        PROVE  \E j \in DOMAIN bs : t[i] = bs[j] /\ Len(t) + 1 - i = Len(bs) + 1 - j
    <2> DEFINE j == i + 1
    <2>1. j \in DOMAIN bs /\ Len(t) + 1 - i = Len(bs) + 1 - j
      BY <1>1
    <2>2. t[i] = bs[j]
      BY <1>1, <1>2
    <2> HIDE DEF j
    <2> QED BY <2>1, <2>2
  <1>4. Inside(t, cs, used)
    <2> SUFFICES ASSUME NEW i \in DOMAIN t, NEW k \in DOMAIN cs, Within(cs, k, Len(t) + 1 - i),
                        NEW x \in Chunks(t[i].text)
                 PROVE  InPage(used, cs[k].id, x)
      BY DEF Inside
    <2>1. PICK j \in DOMAIN bs : t[i] = bs[j] /\ Len(t) + 1 - i = Len(bs) + 1 - j
      BY <1>3
    <2>2. Within(cs, k, Len(bs) + 1 - j) /\ x \in Chunks(bs[j].text)
      BY <2>1
    <2> QED BY <2>2 DEF Inside
  <1>5. Beyond(t, cs, state)
    <2> SUFFICES ASSUME NEW i \in DOMAIN t, Outside(cs, Len(t) + 1 - i), NEW x \in Chunks(t[i].text)
                 PROVE  Loose(state, x)
      BY DEF Beyond
    <2>1. PICK j \in DOMAIN bs : t[i] = bs[j] /\ Len(t) + 1 - i = Len(bs) + 1 - j
      BY <1>3
    <2>2. Outside(cs, Len(bs) + 1 - j) /\ x \in Chunks(bs[j].text)
      BY <2>1
    <2> QED BY <2>2 DEF Beyond
  <1> QED BY <1>4, <1>5

LEMMA RegionsTopped ==
  ASSUME NEW bs \in Seq(Buffer), NEW cs, NEW used, NEW state, NEW u \in Text, NEW t, Written(bs, t, u),
         Inside(bs, cs, used), Beyond(bs, cs, state),
         \A k \in DOMAIN cs : Within(cs, k, Len(bs)) => \A x \in Chunks(u) : InPage(used, cs[k].id, x),
         Outside(cs, Len(bs)) => \A x \in Chunks(u) : Loose(state, x)
  PROVE  Inside(t, cs, used) /\ Beyond(t, cs, state)
  <1>1. /\ DOMAIN t = DOMAIN bs /\ Len(t) = Len(bs) /\ 1 \in DOMAIN bs
        /\ Chunks(t[1].text) = Chunks(bs[1].text) \cup Chunks(u)
    BY WrittenChunks
  <1>2. \A i \in DOMAIN bs : i # 1 => t[i] = bs[i]
    BY WrittenChunks
  <1>3. Len(bs) + 1 - 1 = Len(bs)
    BY LenProperties
  <1>4. Inside(t, cs, used)
    <2> SUFFICES ASSUME NEW i \in DOMAIN t, NEW k \in DOMAIN cs, Within(cs, k, Len(t) + 1 - i),
                        NEW x \in Chunks(t[i].text)
                 PROVE  InPage(used, cs[k].id, x)
      BY DEF Inside
    <2>1. Within(cs, k, Len(bs) + 1 - i) /\ i \in DOMAIN bs
      BY <1>1
    <2>2. \A y \in Chunks(bs[i].text) : InPage(used, cs[k].id, y)
      BY <2>1 DEF Inside
    <2>3. CASE i = 1
      <3>1. x \in Chunks(bs[1].text) \/ x \in Chunks(u)
        BY <1>1, <2>3
      <3>2. Within(cs, k, Len(bs))
        BY <1>3, <2>1, <2>3
      <3> QED BY <2>2, <2>3, <3>1, <3>2
    <2>4. CASE i # 1
      BY <1>2, <2>1, <2>2, <2>4
    <2> QED BY <2>3, <2>4
  <1>5. Beyond(t, cs, state)
    <2> SUFFICES ASSUME NEW i \in DOMAIN t, Outside(cs, Len(t) + 1 - i), NEW x \in Chunks(t[i].text)
                 PROVE  Loose(state, x)
      BY DEF Beyond
    <2>1. Outside(cs, Len(bs) + 1 - i) /\ i \in DOMAIN bs
      BY <1>1
    <2>2. \A y \in Chunks(bs[i].text) : Loose(state, y)
      BY <2>1 DEF Beyond
    <2>3. CASE i = 1
      <3>1. x \in Chunks(bs[1].text) \/ x \in Chunks(u)
        BY <1>1, <2>3
      <3>2. Outside(cs, Len(bs))
        BY <1>3, <2>1, <2>3
      <3> QED BY <2>2, <2>3, <3>1, <3>2
    <2>4. CASE i # 1
      BY <1>2, <2>1, <2>2, <2>4
    <2> QED BY <2>3, <2>4
  <1> QED BY <1>4, <1>5

\* The calls change: one of them opens or closes a buffer, begins or ends.
LEMMA RegionsAlike ==
  ASSUME NEW bs, NEW cs \in Seq(Call), NEW ds, NEW used, NEW state, Alike(cs, ds),
         Inside(bs, cs, used), Beyond(bs, cs, state)
  PROVE  Inside(bs, ds, used) /\ Beyond(bs, ds, state)
  <1>0. Len(cs) \in Nat /\ DOMAIN cs = 1 .. Len(cs)
    BY LenProperties
  <1>1. ASSUME NEW h, NEW k \in DOMAIN ds, Within(ds, k, h) PROVE Within(cs, k, h)
    <2>1. \A l \in 1 .. k - 1 : l \in DOMAIN cs
      BY <1>0 DEF Alike
    <2> QED BY <1>1, <2>1 DEF Within, Alike
  <1>2. ASSUME NEW h, Outside(ds, h) PROVE Outside(cs, h)
    BY <1>2 DEF Outside, Alike
  <1>3. Inside(bs, ds, used)
    BY <1>1 DEF Inside, Alike
  <1>4. Beyond(bs, ds, state)
    BY <1>2 DEF Beyond
  <1> QED BY <1>3, <1>4

LEMMA RegionsPushed ==
  ASSUME NEW bs \in Seq(Buffer), NEW cs \in Seq(Call), NEW c \in Call, c.base = Len(bs), NEW ds, ds = <<c>> \o cs,
         NEW used, NEW state, Inside(bs, cs, used), Beyond(bs, cs, state)
  PROVE  Inside(bs, ds, used) /\ Beyond(bs, ds, state)
  <1>0. Len(bs) \in Nat /\ DOMAIN bs = 1 .. Len(bs)
    BY LenProperties
  <1>1. /\ Len(cs) \in Nat /\ ds[1] = c /\ DOMAIN cs = 1 .. Len(cs) /\ DOMAIN ds = 1 .. Len(cs) + 1
    BY PushFacts
  <1>2. \A i \in 1 .. Len(cs) : ds[i + 1] = cs[i]
    BY PushFacts
  <1>3. ASSUME NEW i \in DOMAIN bs, NEW k \in DOMAIN ds, Within(ds, k, Len(bs) + 1 - i)
        PROVE  k - 1 \in DOMAIN cs /\ ds[k] = cs[k - 1] /\ Within(cs, k - 1, Len(bs) + 1 - i)
    <2> DEFINE h == Len(bs) + 1 - i
               j == k - 1
    <2>1. /\ ds[k].buffered /\ ds[k].base < h
          /\ \A l \in 1 .. k - 1 : ds[l].buffered => h <= ds[l].base
      BY <1>3 DEF Within
    <2>2. k # 1
      BY <1>0, <1>1, <2>1
    <2>3. j \in 1 .. Len(cs) /\ j + 1 = k
      BY <1>1, <2>2
    <2> HIDE DEF h
    <2>4. ds[k] = cs[j]
      BY <1>2, <2>3
    <2>5. ASSUME NEW l \in 1 .. j - 1, cs[l].buffered PROVE h <= cs[l].base
      <3>1. l \in 1 .. Len(cs) /\ l + 1 \in 1 .. k - 1
        BY <1>1, <2>3
      <3>2. ds[l + 1] = cs[l]
        BY <1>2, <3>1
      <3> QED BY <2>1, <2>5, <3>1, <3>2
    <2>6. Within(cs, j, h)
      BY <2>1, <2>4, <2>5 DEF Within
    <2> QED BY <1>1, <2>3, <2>4, <2>6 DEF h
  <1>4. ASSUME NEW h, Outside(ds, h) PROVE Outside(cs, h)
    <2>1. \A i \in DOMAIN cs : i + 1 \in DOMAIN ds /\ ds[i + 1] = cs[i]
      BY <1>1, <1>2
    <2> QED BY <1>4, <2>1 DEF Outside
  <1>5. Inside(bs, ds, used)
    <2> SUFFICES ASSUME NEW i \in DOMAIN bs, NEW k \in DOMAIN ds, Within(ds, k, Len(bs) + 1 - i),
                        NEW x \in Chunks(bs[i].text)
                 PROVE  InPage(used, ds[k].id, x)
      BY DEF Inside
    <2>1. k - 1 \in DOMAIN cs /\ ds[k] = cs[k - 1] /\ Within(cs, k - 1, Len(bs) + 1 - i)
      BY <1>3
    <2> QED BY <2>1 DEF Inside
  <1>6. Beyond(bs, ds, state)
    BY <1>4 DEF Beyond
  <1> QED BY <1>5, <1>6

LEMMA RegionsPopped ==
  ASSUME NEW bs \in Seq(Buffer), NEW cs \in Seq(Call), cs # <<>>, cs[1].base = Len(bs), NEW ds, ds = Tail(cs),
         NEW used, NEW state, Inside(bs, cs, used), Beyond(bs, cs, state)
  PROVE  Inside(bs, ds, used) /\ Beyond(bs, ds, state)
  <1>0. Len(bs) \in Nat /\ DOMAIN bs = 1 .. Len(bs)
    BY LenProperties
  <1>1. /\ Len(cs) \in Nat /\ Len(cs) >= 1 /\ DOMAIN cs = 1 .. Len(cs) /\ DOMAIN ds = 1 .. Len(cs) - 1
    BY TailFacts
  <1>2. \A i \in 1 .. Len(cs) - 1 : ds[i] = cs[i + 1]
    BY TailFacts
  <1>3. ASSUME NEW i \in DOMAIN bs, NEW k \in DOMAIN ds, Within(ds, k, Len(bs) + 1 - i)
        PROVE  k + 1 \in DOMAIN cs /\ ds[k] = cs[k + 1] /\ Within(cs, k + 1, Len(bs) + 1 - i)
    <2> DEFINE h == Len(bs) + 1 - i
               j == k + 1
    <2>1. /\ ds[k].buffered /\ ds[k].base < h
          /\ \A l \in 1 .. k - 1 : ds[l].buffered => h <= ds[l].base
      BY <1>3 DEF Within
    <2>2. j \in DOMAIN cs /\ ds[k] = cs[j] /\ h <= Len(bs)
      BY <1>0, <1>1, <1>2
    <2> HIDE DEF h
    <2>3. ASSUME NEW l \in 1 .. j - 1, cs[l].buffered PROVE h <= cs[l].base
      <3>1. CASE l = 1
        BY <2>2, <3>1
      <3>2. CASE l # 1
        <4> DEFINE m == l - 1
        <4>1. m \in 1 .. k - 1 /\ m \in 1 .. Len(cs) - 1 /\ m + 1 = l
          BY <1>1, <3>2
        <4> HIDE DEF m
        <4>2. ds[m] = cs[l]
          BY <1>2, <4>1
        <4> QED BY <2>1, <2>3, <4>1, <4>2
      <3> QED BY <3>1, <3>2
    <2> HIDE DEF j
    <2>4. Within(cs, j, h)
      BY <2>1, <2>2, <2>3 DEF Within
    <2> QED BY <2>2, <2>4 DEF h, j
  <1>4. ASSUME NEW i \in DOMAIN bs, Outside(ds, Len(bs) + 1 - i) PROVE Outside(cs, Len(bs) + 1 - i)
    <2> DEFINE h == Len(bs) + 1 - i
    <2>1. h <= Len(bs)
      BY <1>0
    <2> HIDE DEF h
    <2>2. ASSUME NEW k \in DOMAIN cs, cs[k].buffered PROVE h <= cs[k].base
      <3>1. CASE k = 1
        BY <2>1, <3>1
      <3>2. CASE k # 1
        <4> DEFINE m == k - 1
        <4>1. m \in DOMAIN ds /\ m + 1 = k
          BY <1>1, <3>2
        <4> HIDE DEF m
        <4>2. ds[m] = cs[k]
          BY <1>1, <1>2, <4>1
        <4> QED BY <1>4, <2>2, <4>1, <4>2 DEF Outside, h
      <3> QED BY <3>1, <3>2
    <2> QED BY <2>2 DEF Outside, h
  <1>5. Inside(bs, ds, used)
    <2> SUFFICES ASSUME NEW i \in DOMAIN bs, NEW k \in DOMAIN ds, Within(ds, k, Len(bs) + 1 - i),
                        NEW x \in Chunks(bs[i].text)
                 PROVE  InPage(used, ds[k].id, x)
      BY DEF Inside
    <2>1. k + 1 \in DOMAIN cs /\ ds[k] = cs[k + 1] /\ Within(cs, k + 1, Len(bs) + 1 - i)
      BY <1>3
    <2> QED BY <2>1 DEF Inside
  <1>6. Beyond(bs, ds, state)
    BY <1>4 DEF Beyond
  <1> QED BY <1>5, <1>6

LEMMA RegionsStates ==
  ASSUME NEW bs, NEW cs, NEW state, NEW after, Beyond(bs, cs, state),
         \A x \in Chunk : Loose(state, x) => Loose(after, x),
         bs \in Seq(Buffer)
  PROVE  Beyond(bs, cs, after)
  <1>1. \A i \in DOMAIN bs : Chunks(bs[i].text) \subseteq Chunk
    <2>1. DOMAIN bs = 1 .. Len(bs) /\ \A i \in 1 .. Len(bs) : bs[i] \in Buffer
      BY LenProperties, ElementOfSeq
    <2>2. \A i \in DOMAIN bs : bs[i].text \in Text
      BY <2>1 DEF Buffer
    <2> QED BY <2>2, TextFacts
  <1> QED BY <1>1 DEF Beyond

\* A buffer that its template has opened is no page.
LEMMA TopIsNoPage ==
  ASSUME calls \in Seq(Call), buf \in Seq(Buffer), Nested, calls # <<>> => calls[1].own > 0,
         NEW k \in DOMAIN calls, calls[k].buffered
  PROVE  calls[k].base + 1 < Len(buf)
  <1>0. /\ Len(calls) \in Nat /\ DOMAIN calls = 1 .. Len(calls) /\ Len(buf) \in Nat
        /\ \A i \in 1 .. Len(calls) : calls[i] \in Call
    BY CallFacts, LenProperties
  <1>1. 1 \in DOMAIN calls /\ calls # <<>> /\ calls[1] \in Call /\ calls[k] \in Call
    BY <1>0
  <1>2. /\ calls[1].own \in Nat /\ calls[1].base \in Nat /\ calls[1].own > 0 /\ Size(calls[1]) = Len(buf)
        /\ calls[1].base + calls[1].own <= Size(calls[1])
    <2>1. Size(calls[1]) = Len(buf) /\ calls[1].own > 0
      BY <1>1 DEF Nested
    <2>2. calls[1].own \in Nat /\ calls[1].base \in Nat /\ calls[1].base + calls[1].own <= Size(calls[1])
      BY <1>1, SizeFacts
    <2> QED BY <2>1, <2>2
  <1>3. Size(calls[k]) = calls[k].base + calls[k].own + 1 /\ calls[k].base \in Nat /\ calls[k].own \in Nat
    BY <1>1, SizeFacts
  <1>4. CASE k = 1
    BY <1>0, <1>2, <1>3, <1>4
  <1>5. CASE k # 1
    <2>1. Size(calls[k]) <= calls[1].base
      BY <1>5, SizesBounded
    <2> QED BY <1>0, <1>2, <1>3, <2>1
  <1> QED BY <1>4, <1>5

LEMMA RegionsClose ==
  ASSUME TypeOK, Layout, Regions, NEW flush \in BOOLEAN, ObEnd(flush), hist'.tidy
  PROVE  Regions'
  <1>0. out \in Text /\ buf \in Seq(Buffer) /\ calls \in Seq(Call) /\ Nested /\ buf # <<>>
    BY DEF TypeOK, Buffer, Layout, ObEnd
  <1>a. /\ Len(buf) \in Nat /\ Len(buf) >= 1 /\ Tail(buf) \in Seq(Buffer) /\ Len(Tail(buf)) = Len(buf) - 1
        /\ DOMAIN buf = 1 .. Len(buf)
    BY <1>0, TailFacts
  <1>b. /\ Inside(buf, calls, hist.used) /\ Beyond(buf, calls, hist.state)
        /\ (\A x \in Chunks(out) \cup All(body) : Loose(hist.state, x)) /\ Wholes(hist)
    BY DEF Regions
  <1>h. hist'.state = hist.state /\ hist'.used = hist.used /\ hist'.whole = hist.whole /\ body' = body
    BY ObEndHist DEF ObEnd
  <1>c. \A k \in DOMAIN calls : calls[k].buffered => calls[k].base + 1 < Len(buf) /\ calls[k].base \in Nat
    <2>1. calls # <<>> => calls[1].own > 0
      BY ObEndHist
    <2>2. \A k \in DOMAIN calls : calls[k].buffered => calls[k].base + 1 < Len(buf)
      BY <1>0, <2>1, TopIsNoPage
    <2> QED BY <1>0, <2>2, CallFacts
  <1>d. Inside(Tail(buf), calls, hist.used) /\ Beyond(Tail(buf), calls, hist.state)
    BY <1>0, <1>b, RegionsLowered
  \* the chunks of the buffer that is closed
  <1> DEFINE u == buf[1].text
             n == Len(buf) - 1
  <1>t. 1 \in DOMAIN buf /\ Len(buf) + 1 - 1 = Len(buf)
    BY <1>a
  <1>e. ASSUME NEW k \in DOMAIN calls, Within(calls, k, n) PROVE \A x \in Chunks(u) : InPage(hist.used, calls[k].id, x)
    <2>1. calls[k].buffered /\ calls[k].base < Len(buf)
      BY <1>a, <1>c, <1>e DEF Within
    <2>2. DOMAIN calls = 1 .. Len(calls) /\ Len(calls) \in Nat
      BY <1>0, CallFacts
    <2>3. ASSUME NEW l \in 1 .. k - 1, calls[l].buffered PROVE Len(buf) <= calls[l].base
      <3>1. l \in DOMAIN calls /\ n <= calls[l].base
        BY <1>e, <2>2, <2>3 DEF Within
      <3> QED BY <1>a, <1>c, <2>3, <3>1
    <2>4. Within(calls, k, Len(buf))
      BY <2>1, <2>3 DEF Within
    <2> HIDE DEF u
    <2> QED BY <1>b, <1>t, <2>4 DEF Inside, u
  <1>f. ASSUME Outside(calls, n) PROVE \A x \in Chunks(u) : Loose(hist.state, x)
    <2>1. \A k \in DOMAIN calls : ~calls[k].buffered
      BY <1>a, <1>c, <1>f DEF Outside
    <2>2. Outside(calls, Len(buf))
      BY <2>1 DEF Outside
    <2> QED BY <1>b, <1>t, <2>2 DEF Beyond
  <1>1. /\ Inside(buf', calls, hist.used) /\ Beyond(buf', calls, hist.state)
        /\ \A x \in Chunks(out') : Loose(hist.state, x)
    <2>1. CASE buf' = Tail(buf) /\ out' = out
      BY <1>b, <1>d, <2>1
    <2>2. CASE Tail(buf) = <<>> /\ buf' = Tail(buf) /\ out' = out \o u /\ u \in Text
      <3>1. Chunks(out') = Chunks(out) \cup Chunks(u)
        BY <1>0, <2>2, ConcatChunks
      <3>2. n = 0
        BY <1>a, <2>2
      <3> HIDE DEF u, n
      <3>3. Outside(calls, n)
        <4>1. \A k \in DOMAIN calls : calls[k].buffered => 0 <= calls[k].base
          BY <1>c
        <4> QED BY <3>2, <4>1 DEF Outside
      <3> QED BY <1>b, <1>d, <1>f, <2>2, <3>1, <3>3
    <2>3. CASE Tail(buf) # <<>> /\ out' = out /\ Written(Tail(buf), buf', u) /\ u \in Text
      <3> DEFINE bs == Tail(buf)
      <3>1. bs \in Seq(Buffer) /\ Len(bs) = n /\ Inside(bs, calls, hist.used) /\ Beyond(bs, calls, hist.state)
        BY <1>a, <1>d
      <3>2. Written(bs, buf', u)
        BY <2>3
      <3> HIDE DEF bs, u, n
      <3>3. /\ \A k \in DOMAIN calls : Within(calls, k, Len(bs)) => \A x \in Chunks(u) : InPage(hist.used, calls[k].id, x)
            /\ Outside(calls, Len(bs)) => \A x \in Chunks(u) : Loose(hist.state, x)
        BY <1>e, <1>f, <3>1
      <3>4. Inside(buf', calls, hist.used) /\ Beyond(buf', calls, hist.state)
        BY <2>3, <3>1, <3>2, <3>3, RegionsTopped
      <3> QED BY <1>b, <2>3, <3>4
    <2>4. CASE flush
      <3>1. Flush
        BY <2>4 DEF ObEnd
      <3> QED BY <1>0, <2>2, <2>3, <3>1, FlushShape
    <2>5. CASE ~flush
      BY <2>1, <2>5 DEF ObEnd
    <2> QED BY <2>4, <2>5
  <1>2. Inside(buf', calls', hist.used) /\ Beyond(buf', calls', hist.state)
    <2>1. Alike(calls, calls')
      BY OwnAlike
    <2> QED BY <1>0, <1>1, <2>1, RegionsAlike
  <1>3. Wholes(hist')
    BY <1>b, <1>h DEF Wholes
  <1> QED BY <1>b, <1>h, <1>1, <1>2, <1>3 DEF Regions

LEMMA RegionsOpen ==
  ASSUME TypeOK, Regions, ObStart
  PROVE  Regions'
  <1>0. buf \in Seq(Buffer) /\ calls \in Seq(Call)
    BY DEF TypeOK, Buffer
  <1>1. /\ Inside(buf, calls, hist.used) /\ Beyond(buf, calls, hist.state)
        /\ (\A x \in Chunks(out) \cup All(body) : Loose(hist.state, x)) /\ Wholes(hist)
    BY DEF Regions
  <1>2. /\ hist'.state = hist.state /\ hist'.used = hist.used /\ hist'.whole = hist.whole
        /\ body' = body /\ out' = out
    BY ObStartHist DEF ObStart
  <1>3. Inside(buf', calls, hist.used) /\ Beyond(buf', calls, hist.state)
    <2> DEFINE f == [yaf |-> FALSE, text |-> <<>>]
    <2>1. f \in Buffer /\ f.text = <<>> /\ buf' = <<f>> \o buf
      BY DEF ObStart, Buffer, Text
    <2> HIDE DEF f
    <2> QED BY <1>0, <1>1, <2>1, RegionsRaised
  <1>4. Inside(buf', calls', hist.used) /\ Beyond(buf', calls', hist.state)
    <2>1. Alike(calls, calls')
      BY OwnAlike
    <2> QED BY <1>0, <1>3, <2>1, RegionsAlike
  <1>5. Wholes(hist')
    BY <1>1, <1>2 DEF Wholes
  <1> QED BY <1>1, <1>2, <1>4, <1>5 DEF Regions

\* A call that begins, fails or returns leaves what the others returned.
LEMMA LooseKept ==
  ASSUME hist \in History, NEW e \in Ids, hist.state[e] # "returned", NEW st, NEW after,
         after = [hist.state EXCEPT ![e] = st]
  PROVE  \A x \in Chunk : Loose(hist.state, x) => Loose(after, x)
  <1>1. hist.state \in [Ids -> States]
    BY HistFacts
  <1>2. \A c \in Ids : hist.state[c] = "returned" => after[c] = "returned"
    BY <1>1
  <1>3. \A x \in Chunk : x.of \in Ids \cup {0}
    BY DEF Chunk
  <1> QED BY <1>2, <1>3 DEF Loose

\* All the chunks there are are chunks.
LEMMA ChunksAreChunks ==
  ASSUME TypeOK
  PROVE  /\ Chunks(out) \subseteq Chunk /\ All(body) \subseteq Chunk
         /\ \A c \in Ids : Chunks(hist.whole[c]) \subseteq Chunk
  <1>1. out \in Text /\ body \in Seq(BodyPart) /\ hist.whole \in [Ids -> Text]
    BY HistFacts DEF TypeOK, BodyPart
  <1>2. \A i \in DOMAIN body : body[i].text \in Text
    BY <1>1, PartFacts
  <1>3. All(body) \subseteq Chunk
    BY <1>2, AllMember, TextFacts
  <1>4. \A c \in Ids : hist.whole[c] \in Text
    BY <1>1
  <1> QED BY <1>1, <1>3, <1>4, TextFacts

LEMMA RegionsNew ==
  ASSUME TypeOK, CallsInv, Regions, hist.next <= MaxCalls, NEW st \in {"running", "failed"},
         hist' = [hist EXCEPT !.next = @ + 1, !.state[hist.next] = st], UNCHANGED <<out, body>>,
         Inside(buf', calls', hist.used), Beyond(buf', calls', hist.state), buf' \in Seq(Buffer)
  PROVE  Regions'
  <1>1. (\A x \in Chunks(out) \cup All(body) : Loose(hist.state, x)) /\ Wholes(hist) /\ hist \in History
    BY DEF Regions, TypeOK
  <1>2. /\ hist'.whole = hist.whole /\ hist'.used = hist.used
        /\ hist'.state = [hist.state EXCEPT ![hist.next] = st]
    BY NewCallHist
  <1>3. hist.next \in Ids /\ hist.state[hist.next] = "unborn" /\ hist.state \in [Ids -> States]
    <2>1. hist.next \in Ids /\ hist.next \in Nat
      BY <1>1, HistFacts, PageAssumption DEF Ids
    <2> QED BY <1>1, <2>1, HistFacts DEF CallsInv
  <1>4. \A x \in Chunk : Loose(hist.state, x) => Loose(hist'.state, x)
    <2> DEFINE e == hist.next
    <2>1. e \in Ids /\ hist.state[e] # "returned" /\ hist'.state = [hist.state EXCEPT ![e] = st]
      BY <1>2, <1>3
    <2> HIDE DEF e
    <2> QED BY <1>1, <2>1, LooseKept
  <1>5. \A x \in Chunks(out') \cup All(body') : Loose(hist'.state, x)
    BY <1>1, <1>4, ChunksAreChunks
  <1>6. Beyond(buf', calls', hist'.state)
    BY <1>4, RegionsStates
  <1>7. Wholes(hist')
    <2>1. \A c \in Ids : hist'.state[c] = "returned" => hist.state[c] = "returned"
      BY <1>2, <1>3
    <2> QED BY <1>1, <1>2, <2>1 DEF Wholes
  <1> QED BY <1>2, <1>5, <1>6, <1>7 DEF Regions

LEMMA RegionsBegin ==
  ASSUME TypeOK, CallsInv, Regions, NEW buffered \in BOOLEAN, Begin(buffered)
  PROVE  Regions'
  <1>0. buf \in Seq(Buffer) /\ calls \in Seq(Call) /\ hist \in History
    BY DEF TypeOK, Buffer
  <1> DEFINE f == [yaf |-> TRUE, text |-> <<>>]
             c == [id |-> hist.next, buffered |-> buffered, own |-> 0, base |-> Len(buf)]
             st == "running"
  <1>1. f \in Buffer /\ f.text = <<>> /\ buf' = (IF buffered THEN <<f>> \o buf ELSE buf) /\ calls' = <<c>> \o calls
    BY DEF Buffer, Text, Begin
  <1>2. c \in Call /\ c.base = Len(buf)
    <2>1. hist.next \in Ids
      BY <1>0, HistFacts, PageAssumption DEF Begin, Ids
    <2> QED BY <1>0, <2>1, LenProperties DEF Call
  <1>3. /\ hist.next <= MaxCalls /\ st \in {"running", "failed"} /\ UNCHANGED <<out, body>>
        /\ hist' = [hist EXCEPT !.next = @ + 1, !.state[hist.next] = st]
    BY DEF Begin
  <1> HIDE DEF f, c, st
  <1>4. Inside(buf, calls', hist.used) /\ Beyond(buf, calls', hist.state)
    <2>1. Inside(buf, calls, hist.used) /\ Beyond(buf, calls, hist.state)
      BY DEF Regions
    <2> QED BY <1>0, <1>1, <1>2, <2>1, RegionsPushed
  <1>5. Inside(buf', calls', hist.used) /\ Beyond(buf', calls', hist.state) /\ buf' \in Seq(Buffer)
    <2>1. CASE buffered
      <3>1. buf' = <<f>> \o buf
        BY <1>1, <2>1
      <3>2. buf' \in Seq(Buffer)
        BY <1>0, <1>1, <3>1, PushFacts
      <3>3. Inside(buf', calls', hist.used) /\ Beyond(buf', calls', hist.state)
        BY <1>0, <1>1, <1>4, <3>1, RegionsRaised
      <3> QED BY <3>2, <3>3
    <2>2. CASE ~buffered
      BY <1>0, <1>1, <1>4, <2>2
    <2> QED BY <2>1, <2>2
  <1> QED BY <1>3, <1>5, RegionsNew

\* A template ends, and what is above the place where it began is its page.
LEMMA RegionsEnd ==
  ASSUME TypeOK, Layout, CallsInv, Regions, calls # <<>>, calls' = Tail(calls), UNCHANGED <<out, body>>,
         calls[1].buffered => buf' = (IF buf = <<>> THEN buf ELSE Tail(buf)),
         ~calls[1].buffered => buf' = buf,
         NEW st \in {"returned", "failed"}, NEW u \in Text, Ended(st, u), hist'.tidy,
         st = "returned" => u = <<>> \/ (calls[1].buffered /\ u = buf[1].text)
  PROVE  Regions'
  <1>0. /\ buf \in Seq(Buffer) /\ calls \in Seq(Call) /\ hist \in History /\ Nested
        /\ Inside(buf, calls, hist.used) /\ Beyond(buf, calls, hist.state)
        /\ (\A x \in Chunks(out) \cup All(body) : Loose(hist.state, x)) /\ Wholes(hist)
    BY DEF TypeOK, Buffer, Layout, Regions
  <1> DEFINE e == calls[1].id
  <1>1. /\ e \in Ids /\ hist'.state = [hist.state EXCEPT ![e] = st] /\ hist'.used = hist.used
        /\ hist'.whole = [hist.whole EXCEPT ![e] = u] /\ hist'.tidy = (hist.tidy /\ calls[1].own = 0)
    BY EndedFacts DEF States
  <1>2. /\ Len(buf) \in Nat /\ DOMAIN buf = 1 .. Len(buf) /\ 1 \in DOMAIN calls /\ calls[1] \in Call
        /\ calls[1].base \in Nat /\ calls[1].own = 0 /\ Size(calls[1]) = Len(buf)
    <2>1. Len(buf) \in Nat /\ DOMAIN buf = 1 .. Len(buf)
      BY <1>0, LenProperties
    <2>2. 1 \in DOMAIN calls /\ calls[1] \in Call
      BY <1>0, TailFacts
    <2>3. calls[1].base \in Nat
      BY <2>2 DEF Call
    <2>4. Size(calls[1]) = Len(buf)
      BY <1>0 DEF Nested
    <2> QED BY <1>1, <2>1, <2>2, <2>3, <2>4
  <1>3. /\ calls[1].buffered => Len(buf) = calls[1].base + 1
        /\ ~calls[1].buffered => Len(buf) = calls[1].base
    BY <1>2, SizeFacts
  <1>4. calls[1].buffered => buf # <<>> /\ buf' = Tail(buf)
    <2>1. calls[1].buffered => buf # <<>>
      BY <1>2, <1>3
    <2> QED BY <2>1
  <1>5. /\ buf' \in Seq(Buffer) /\ Len(buf') = calls[1].base
        /\ Inside(buf', calls, hist.used) /\ Beyond(buf', calls, hist.state)
    <2>1. CASE calls[1].buffered
      <3>0. buf # <<>> /\ buf' = Tail(buf)
        BY <1>4, <2>1
      <3>1. Len(buf') = Len(buf) - 1 /\ buf' \in Seq(Buffer)
        <4>1. Len(Tail(buf)) = Len(buf) - 1 /\ Tail(buf) \in Seq(Buffer)
          BY <1>0, <3>0, TailFacts
        <4> QED BY <3>0, <4>1
      <3>2. Inside(buf', calls, hist.used) /\ Beyond(buf', calls, hist.state)
        BY <1>0, <1>4, <2>1, RegionsLowered
      <3> QED BY <1>2, <1>3, <2>1, <3>1, <3>2, SMTT(30)
    <2>2. CASE ~calls[1].buffered
      BY <1>0, <1>3, <2>2
    <2> QED BY <2>1, <2>2
  <1>6. Inside(buf', calls', hist.used) /\ Beyond(buf', calls', hist.state)
    BY <1>0, <1>5, RegionsPopped
  <1>7. hist.state[e] = "running" /\ hist.state \in [Ids -> States] /\ hist.whole \in [Ids -> Text]
    BY <1>0, <1>2, HistFacts DEF CallsInv
  <1>8. \A x \in Chunk : Loose(hist.state, x) => Loose(hist'.state, x)
    <2>1. hist.state[e] # "returned"
      BY <1>7
    <2> HIDE DEF e
    <2> QED BY <1>0, <1>1, <2>1, LooseKept
  <1>9. \A x \in Chunks(out') \cup All(body') : Loose(hist'.state, x)
    BY <1>0, <1>8, ChunksAreChunks
  <1>10. Beyond(buf', calls', hist'.state)
    BY <1>5, <1>6, <1>8, RegionsStates
  <1>11. ASSUME st = "returned" PROVE \A x \in Chunks(u) : InPage(hist.used, e, x)
    <2>1. CASE u = <<>>
      BY <2>1, EmptyShape
    <2>2. CASE calls[1].buffered /\ u = buf[1].text
      <3>1. 1 \in DOMAIN buf /\ Len(buf) + 1 - 1 = Len(buf) /\ calls[1].base < Len(buf)
        BY <1>2, <1>3, <2>2
      <3>2. Within(calls, 1, Len(buf))
        BY <2>2, <3>1 DEF Within
      <3> HIDE DEF e
      <3> QED BY <1>0, <1>2, <2>2, <3>1, <3>2 DEF Inside, e
    <2> QED BY <1>11, <2>1, <2>2
  <1>12. Wholes(hist')
    <2> HIDE DEF e
    <2>1. ASSUME NEW c \in Ids, hist'.state[c] = "returned", NEW x \in Chunks(hist'.whole[c])
          PROVE  InPage(hist'.used, c, x)
      <3>1. CASE c = e
        <4>1. hist'.state[c] = st /\ hist'.whole[c] = u
          BY <1>1, <1>7, <3>1
        <4> QED BY <1>1, <1>11, <2>1, <3>1, <4>1
      <3>2. CASE c # e
        <4>1. hist'.state[c] = hist.state[c] /\ hist'.whole[c] = hist.whole[c]
          BY <1>1, <1>7, <3>2
        <4> QED BY <1>0, <1>1, <2>1, <4>1 DEF Wholes
      <3> QED BY <3>1, <3>2
    <2> QED BY <2>1 DEF Wholes
  <1> QED BY <1>1, <1>6, <1>9, <1>10, <1>12 DEF Regions

LEMMA TidyBefore ==
  ASSUME TypeOK, [Next]_vars, hist'.tidy
  PROVE  hist.tidy
  <1>0. buf \in Seq(Buffer)
    BY DEF TypeOK, Buffer
  <1>1. CASE Echo
    BY <1>1, EchoHist
  <1>2. CASE EchoPage
    BY <1>2, EchoPageHist
  <1>3. CASE ObStart
    BY <1>3, ObStartHist
  <1>4. ASSUME NEW flush, ObEnd(flush) PROVE hist.tidy
    BY <1>4, ObEndHist
  <1>5. CASE Begin(TRUE) \/ Begin(FALSE) \/ NotRendered
    BY <1>5, NewCallHist DEF Begin, NotRendered
  <1>6. CASE RenderEnds \/ DisplayEnds \/ TemplateThrew
    <2>1. calls # <<>> /\ \E st \in States, u \in Text : Ended(st, u)
      <3>1. "failed" \in States /\ "returned" \in States /\ <<>> \in Text
        BY EmptyShape DEF States, Text
      <3>2. buf # <<>> => buf[1].text \in Text
        <4>1. buf # <<>> => buf[1] \in Buffer
          BY <1>0, TailFacts
        <4> QED BY <4>1 DEF Buffer
      <3> QED BY <1>6, <3>1, <3>2 DEF RenderEnds, DisplayEnds, TemplateThrew
    <2>2. hist'.tidy = (hist.tidy /\ calls[1].own = 0)
      BY <2>1, EndedFacts
    <2> QED BY <2>2
  <1>7. CASE \/ Throw \/ Catch \/ (\E name \in Parts, how \in Hows : PutPage(name, how))
             \/ (\E name \in Parts : ClearPart(name)) \/ ClearBody
             \/ (\E h \in Headers : SetHeader(h)) \/ ClearHeaders \/ UNCHANGED vars
    BY <1>7 DEF Throw, Catch, PutPage, ClearPart, ClearBody, SetHeader, ClearHeaders, vars
  <1>8. CASE Sends
    BY <1>8, SendsFacts DEF OnlyGiven
  <1> QED BY <1>1, <1>2, <1>3, <1>4, <1>5, <1>6, <1>7, <1>8 DEF Next, Hows, Sends

LEMMA FinishedStep ==
  ASSUME RegionInv, [Next]_vars, hist.tidy
  PROVE  Finished'
  <1>0. /\ TypeOK /\ CallsInv /\ Regions /\ Finished /\ hist \in History
        /\ body \in Seq(BodyPart) /\ buf \in Seq(Buffer) /\ calls \in Seq(Call)
    BY DEF RegionInv, LayoutInv, TypeOK, BodyPart, Buffer
  <1>h. /\ hist.state \in [Ids -> States] /\ hist.used \in [Ids -> SUBSET Ids] /\ hist.whole \in [Ids -> Text]
        /\ 0 \notin Ids
    BY <1>0, HistFacts, PageAssumption DEF Ids
  <1>f. /\ \A x \in All(body) : x.of # 0
        /\ \A c \in Ids : \A p \in hist.used[c] : p \in Ids /\ hist.state[p] = "returned"
    BY <1>0, <1>h DEF Finished
  <1>a. ASSUME hist'.used = hist.used, All(body') \subseteq All(body),
               \A p \in Ids : hist.state[p] = "returned" => hist'.state[p] = "returned"
        PROVE  Finished'
    BY <1>a, <1>f DEF Finished
  <1>1. CASE Echo
    BY <1>0, <1>1, <1>a, EchoHist DEF Echo
  <1>2. CASE EchoPage
    <2>1. PICK p \in pages, d \in [Ids -> SUBSET Ids] :
            /\ hist' = [hist EXCEPT !.used = d] /\ p \in Ids
            /\ \A c \in Ids : d[c] = IF c = Innermost THEN hist.used[c] \cup ({p} \cup hist.used[p])
                                                      ELSE hist.used[c]
      BY <1>0, <1>2, EchoPageFacts
    <2>2. hist'.state = hist.state /\ body' = body
      BY <1>0, <1>2, EchoPageHist DEF EchoPage
    <2>3. hist'.used = d
      BY <1>0, <2>1 DEF History
    <2>4. hist.state[p] = "returned"
      BY <1>0 DEF CallsInv
    <2>5. \A c \in Ids : \A q \in d[c] : q \in hist.used[c] \/ q = p \/ q \in hist.used[p]
      BY <2>1
    <2>6. \A c \in Ids : \A q \in d[c] : hist.state[q] = "returned"
      BY <1>f, <2>1, <2>4, <2>5
    <2> QED BY <1>f, <2>2, <2>3, <2>6 DEF Finished
  <1>3. CASE ObStart
    BY <1>0, <1>3, <1>a, ObStartHist DEF ObStart
  <1>4. CASE ObEnd(TRUE) \/ ObEnd(FALSE)
    <2>1. hist'.used = hist.used /\ hist'.state = hist.state /\ body' = body
      BY <1>0, <1>4, ObEndHist DEF ObEnd
    <2> QED BY <1>a, <2>1
  \* a call begins, or cannot
  <1>5. ASSUME NEW st, hist' = [hist EXCEPT !.next = @ + 1, !.state[hist.next] = st], hist.next <= MaxCalls,
               body' = body
        PROVE  Finished'
    <2>1. hist'.used = hist.used /\ hist'.state = [hist.state EXCEPT ![hist.next] = st]
      BY <1>0, <1>5, NewCallHist
    <2>2. hist.next \in Ids /\ hist.state[hist.next] = "unborn"
      <3>1. hist.next \in Ids /\ hist.next \in Nat
        BY <1>0, <1>5, HistFacts, PageAssumption DEF Ids
      <3> QED BY <1>0, <3>1 DEF CallsInv
    <2>3. \A p \in Ids : hist.state[p] = "returned" => hist'.state[p] = "returned"
      BY <1>h, <2>1, <2>2
    <2> QED BY <1>5, <1>a, <2>1, <2>3
  <1>6. CASE Begin(TRUE) \/ Begin(FALSE)
    <2> DEFINE st == "running"
    <2>1. /\ hist' = [hist EXCEPT !.next = @ + 1, !.state[hist.next] = st] /\ hist.next <= MaxCalls
          /\ body' = body
      BY <1>6 DEF Begin
    <2> HIDE DEF st
    <2> QED BY <1>5, <2>1
  <1>7. CASE NotRendered
    <2> DEFINE st == "failed"
    <2>1. /\ hist' = [hist EXCEPT !.next = @ + 1, !.state[hist.next] = st] /\ hist.next <= MaxCalls
          /\ body' = body
      BY <1>7 DEF NotRendered
    <2> HIDE DEF st
    <2> QED BY <1>5, <2>1
  \* a template ends
  <1>8. ASSUME calls # <<>>, NEW st \in States, NEW u \in Text, Ended(st, u), body' = body PROVE Finished'
    <2> DEFINE e == calls[1].id
    <2>1. hist'.used = hist.used /\ e \in Ids /\ hist'.state = [hist.state EXCEPT ![e] = st]
      BY <1>0, <1>8, EndedFacts
    <2>2. hist.state[e] = "running"
      <3>1. 1 \in DOMAIN calls
        BY <1>0, <1>8, TailFacts
      <3> QED BY <1>0, <3>1 DEF CallsInv
    <2> HIDE DEF e
    <2>3. \A p \in Ids : hist.state[p] = "returned" => hist'.state[p] = "returned"
      BY <1>h, <2>1, <2>2
    <2> QED BY <1>8, <1>a, <2>1, <2>3
  <1>9. CASE RenderEnds \/ DisplayEnds \/ TemplateThrew
    <2>1. body' = body /\ calls # <<>> /\ \E st \in States, u \in Text : Ended(st, u)
      <3>1. "failed" \in States /\ "returned" \in States
        BY DEF States
      <3> QED BY <1>0, <1>9, <3>1, EmptyText, TopText DEF RenderEnds, DisplayEnds, TemplateThrew
    <2> QED BY <1>8, <2>1
  <1>10. ASSUME NEW name \in Parts, NEW how \in Hows, PutPage(name, how) PROVE Finished'
    <2>1. PICK p \in pages : Alter(name, hist.whole[p], how)
      BY <1>10 DEF PutPage
    <2>2. hist' = hist
      BY <1>10 DEF PutPage
    <2> DEFINE u == hist.whole[p]
    <2>3. p \in Ids /\ hist.state[p] = "returned" /\ u \in Text /\ Alter(name, u, how)
      BY <1>0, <1>h, <2>1 DEF CallsInv, TypeOK
    <2>4. \A x \in Chunks(u) : x.of # 0
      <3>1. \A x \in Chunks(u) : x.of \in {p} \cup hist.used[p]
        BY <1>0, <2>3 DEF Regions, Wholes, InPage
      <3> QED BY <1>f, <1>h, <2>3, <3>1
    <2> HIDE DEF u
    <2>5. All(body') \subseteq All(body) \cup Chunks(u)
      BY <1>0, <2>3, AlterShape
    <2> QED BY <1>f, <2>2, <2>4, <2>5 DEF Finished
  <1>11. CASE (\E name \in Parts : ClearPart(name)) \/ ClearBody
    <2>1. hist' = hist /\ (body' = body \/ body' = <<>> \/ \E name \in Parts : body' = Without(name))
      BY <1>11 DEF ClearPart, ClearBody
    <2>2. All(body') \subseteq All(body)
      BY <1>0, <2>1, WithoutShape, EmptyShape
    <2> QED BY <1>a, <2>1, <2>2
  <1>12. CASE Throw \/ Catch \/ (\E h \in Headers : SetHeader(h)) \/ ClearHeaders \/ UNCHANGED vars
    BY <1>12, <1>a DEF Throw, Catch, SetHeader, ClearHeaders, vars
  <1>13. CASE Sends
    <2>1. /\ body' = body \/ body' = <<>>
          /\ hist' = hist \/ OnlyGiven
      BY <1>0, <1>13, SendsFacts
    <2>2. All(body') \subseteq All(body)
      BY <2>1, EmptyShape
    <2>3. CASE hist' = hist
      BY <1>a, <2>2, <2>3
    <2>4. CASE OnlyGiven
      <3>1. \A q \in Owners : hist.state[q] = "returned"
        <4>1. Chunks(Joined) \subseteq All(body)
          BY <1>0, JoinedType
        <4>2. \A x \in Chunks(Joined) : x.of # 0 /\ Loose(hist.state, x)
          BY <1>0, <1>f, <4>1 DEF Regions
        <4> QED BY <4>2 DEF Owners, Loose
      <3>2. hist'.state = hist.state /\ Gives(hist.used, hist'.used, Innermost, Owners)
        BY <2>4 DEF OnlyGiven
      <3>3. \A c \in Ids : \A q \in hist'.used[c] : q \in hist.used[c] \/ q \in Owners
        BY <3>2 DEF Gives
      <3> QED BY <1>f, <2>2, <3>1, <3>2, <3>3 DEF Finished
    <2> QED BY <2>1, <2>3, <2>4
  <1> QED BY <1>1, <1>2, <1>3, <1>4, <1>6, <1>7, <1>9, <1>10, <1>11, <1>12, <1>13 DEF Next, Hows, Sends

LEMMA RegionsStep ==
  ASSUME RegionInv, [Next]_vars
  PROVE  RegionInv'
  <1>0. /\ TypeOK /\ LayoutInv /\ CallsInv /\ (hist.tidy => Layout /\ Regions /\ Finished)
        /\ body \in Seq(BodyPart) /\ buf \in Seq(Buffer) /\ calls \in Seq(Call) /\ hist \in History
    BY DEF RegionInv, LayoutInv, TypeOK, BodyPart, Buffer
  <1>t. LayoutInv' /\ CallsInv'
    BY <1>0, LayoutStep, CallsStep
  <1>g. hist'.tidy => Finished'
    BY <1>0, TidyBefore, FinishedStep
  <1> SUFFICES ASSUME hist'.tidy PROVE Regions'
    BY <1>t, <1>g DEF RegionInv
  <1>f. /\ \A p \in pages : p \in Ids /\ hist.state[p] = "returned"
        /\ hist.tidy => \A c \in Ids : \A p \in hist.used[c] : hist.state[p] = "returned"
    BY <1>0 DEF CallsInv, TypeOK, Finished
  \* a page that PHP code has
  <1>p. ASSUME NEW p \in pages, hist.tidy
        PROVE  /\ \A x \in Chunks(hist.whole[p]) : InPage(hist.used, p, x)
               /\ \A x \in Chunks(hist.whole[p]) : Loose(hist.state, x)
    <2>1. \A x \in Chunks(hist.whole[p]) : InPage(hist.used, p, x)
      BY <1>0, <1>f, <1>p DEF Regions, Wholes
    <2> QED BY <1>f, <1>p, <2>1 DEF InPage, Loose
  \* the buffers and the calls stay, the response's parts may not
  <1>s. ASSUME UNCHANGED <<out, buf, calls, hist>>, \A x \in All(body') : hist.tidy => Loose(hist.state, x)
        PROVE  Regions'
    BY <1>0, <1>s DEF Regions
  <1>1. CASE Echo
    <2> DEFINE u == <<Chunklet>>
    <2>1. Write(u) /\ u \in Text /\ Chunks(u) = {Chunklet} /\ Chunklet.of = Innermost
      BY <1>0, <1>1, EchoFacts, SingleChunk
    <2>2. /\ hist.tidy /\ hist'.state = hist.state /\ hist'.whole = hist.whole /\ hist'.used = hist.used
          /\ calls' = calls /\ body' = body
      BY <1>0, <1>1, EchoHist DEF Echo
    <2> HIDE DEF u
    <2>3. Innermost = 0 => \A x \in Chunks(u) : Loose(hist.state, x)
      BY <2>1 DEF Loose
    <2>4. \A x \in Chunks(u) : InPage(hist'.used, Innermost, x)
      BY <2>1 DEF InPage
    <2> QED BY <1>0, <2>1, <2>2, <2>3, <2>4, RegionsWrite
  <1>2. CASE EchoPage
    <2>1. PICK p \in pages, d \in [Ids -> SUBSET Ids] :
            /\ p \in Ids /\ hist.whole[p] \in Text /\ Write(hist.whole[p]) /\ hist' = [hist EXCEPT !.used = d]
            /\ \A c \in Ids : d[c] = IF c = Innermost THEN hist.used[c] \cup ({p} \cup hist.used[p])
                                                      ELSE hist.used[c]
      BY <1>0, <1>2, EchoPageFacts
    <2>2. /\ hist.tidy /\ hist'.state = hist.state /\ hist'.whole = hist.whole /\ calls' = calls /\ body' = body
      BY <1>0, <1>2, EchoPageHist DEF EchoPage
    <2>3. hist'.used = d
      BY <1>0, <2>1 DEF History
    <2>4. \A c \in Ids : hist.used[c] \subseteq hist'.used[c]
      BY <2>1, <2>3
    <2> DEFINE u == hist.whole[p]
    <2>5. u \in Text /\ Write(u)
      BY <2>1
    <2>6. \A x \in Chunks(u) : Loose(hist.state, x)
      BY <1>p, <2>2
    <2>7. Innermost # 0 => \A x \in Chunks(u) : InPage(hist'.used, Innermost, x)
      <3>1. \A x \in Chunks(u) : InPage(hist.used, p, x)
        BY <1>p, <2>2
      <3>2. Innermost # 0 => Innermost \in Ids
        BY <1>0, InnermostType
      <3>3. Innermost # 0 => {p} \cup hist.used[p] \subseteq hist'.used[Innermost]
        BY <2>1, <2>3, <3>2
      <3> HIDE DEF u
      <3> QED BY <3>1, <3>3 DEF InPage
    <2> HIDE DEF u
    <2> QED BY <1>0, <2>2, <2>4, <2>5, <2>6, <2>7, RegionsWrite
  <1>3. CASE ObStart
    <2>1. hist.tidy
      BY <1>0, <1>3, ObStartHist
    <2> QED BY <1>0, <1>3, <2>1, RegionsOpen
  <1>4. ASSUME NEW flush \in BOOLEAN, ObEnd(flush) PROVE Regions'
    <2>1. hist.tidy
      BY <1>0, <1>4, ObEndHist
    <2> QED BY <1>0, <1>4, <2>1, RegionsClose
  <1>5. ASSUME NEW buffered \in BOOLEAN, Begin(buffered) PROVE Regions'
    <2>1. hist.tidy
      BY <1>0, <1>5, NewCallHist DEF Begin
    <2> QED BY <1>0, <1>5, <2>1, RegionsBegin
  <1>6. CASE NotRendered
    <2> DEFINE st == "failed"
    <2>1. /\ hist.next <= MaxCalls /\ st \in {"running", "failed"} /\ UNCHANGED <<out, body, buf, calls>>
          /\ hist' = [hist EXCEPT !.next = @ + 1, !.state[hist.next] = st]
      BY <1>6 DEF NotRendered
    <2> HIDE DEF st
    <2>2. hist.tidy
      BY <1>0, <2>1, NewCallHist
    <2>3. Inside(buf', calls', hist.used) /\ Beyond(buf', calls', hist.state) /\ buf' \in Seq(Buffer)
      BY <1>0, <2>1, <2>2 DEF Regions
    <2> QED BY <1>0, <2>1, <2>2, <2>3, RegionsNew
  \* a template ends
  <1>e. ASSUME calls # <<>>, NEW st \in {"returned", "failed"}, NEW u \in Text, Ended(st, u) PROVE hist.tidy
    <2>1. st \in States
      BY DEF States
    <2>2. hist'.tidy = (hist.tidy /\ calls[1].own = 0)
      BY <1>0, <1>e, <2>1, EndedFacts
    <2> QED BY <2>2
  <1>7. CASE RenderEnds
    <2>0. calls # <<>> /\ calls[1].buffered /\ calls' = Tail(calls) /\ UNCHANGED body
      BY <1>7 DEF RenderEnds
    <2>1. CASE buf = <<>>
      <3> DEFINE st == "failed"
                 u == <<>>
      <3>1. Ended(st, u) /\ UNCHANGED <<out, buf>>
        BY <1>7, <2>1 DEF RenderEnds
      <3>2. st \in {"returned", "failed"} /\ u \in Text /\ u = <<>>
        BY EmptyShape DEF Text
      <3> HIDE DEF st, u
      <3>3. hist.tidy
        BY <1>e, <2>0, <3>1, <3>2
      <3> QED BY <1>0, <2>0, <2>1, <3>1, <3>2, <3>3, RegionsEnd
    <2>2. CASE buf # <<>>
      <3> DEFINE st == "returned"
                 u == buf[1].text
      <3>1. Ended(st, u) /\ buf' = Tail(buf) /\ out' = out
        BY <1>7, <2>2 DEF RenderEnds, GetAndDiscard
      <3>2. u \in Text /\ u = buf[1].text
        <4>1. buf[1] \in Buffer
          BY <1>0, <2>2, TailFacts
        <4> QED BY <4>1 DEF Buffer
      <3>3. st \in {"returned", "failed"}
        OBVIOUS
      <3> HIDE DEF st, u
      <3>4. hist.tidy
        BY <1>e, <2>0, <3>1, <3>2, <3>3
      <3> QED BY <1>0, <2>0, <2>2, <3>1, <3>2, <3>3, <3>4, RegionsEnd
    <2> QED BY <2>1, <2>2
  <1>8. CASE DisplayEnds
    <2> DEFINE st == "returned"
               u == <<>>
    <2>1. /\ calls # <<>> /\ ~calls[1].buffered /\ calls' = Tail(calls) /\ Ended(st, u)
          /\ UNCHANGED <<out, body, buf>>
      BY <1>8 DEF DisplayEnds
    <2>2. st \in {"returned", "failed"} /\ u \in Text /\ u = <<>>
      BY EmptyShape DEF Text
    <2> HIDE DEF st, u
    <2>3. hist.tidy
      BY <1>e, <2>1, <2>2
    <2> QED BY <1>0, <2>1, <2>2, <2>3, RegionsEnd
  <1>9. CASE TemplateThrew
    <2> DEFINE st == "failed"
               u == <<>>
    <2>1. calls # <<>> /\ calls' = Tail(calls) /\ Ended(st, u) /\ UNCHANGED <<out, body>>
      BY <1>9 DEF TemplateThrew, DiscardBuffer
    <2>2. /\ calls[1].buffered => buf' = (IF buf = <<>> THEN buf ELSE Tail(buf))
          /\ ~calls[1].buffered => buf' = buf
      BY <1>9 DEF TemplateThrew, DiscardBuffer
    <2>3. st \in {"returned", "failed"} /\ u \in Text /\ u = <<>>
      BY EmptyShape DEF Text
    <2> HIDE DEF st, u
    <2>4. hist.tidy
      BY <1>e, <2>1, <2>3
    <2> QED BY <1>0, <2>1, <2>2, <2>3, <2>4, RegionsEnd
  <1>10. CASE Sends
    <2>1. /\ calls' = calls /\ (body' = body \/ body' = <<>>)
          /\ UNCHANGED <<out, buf, hist>> \/ (Write(Joined) /\ OnlyGiven)
      BY <1>0, <1>10, SendsFacts
    <2>2. All(body') \subseteq All(body)
      BY <2>1, EmptyShape
    <2>3. CASE UNCHANGED <<out, buf, hist>>
      BY <1>0, <1>s, <2>1, <2>2, <2>3 DEF Regions
    <2>4. CASE Write(Joined) /\ OnlyGiven
      <3> DEFINE u == Joined
      <3>1. u \in Text /\ Chunks(u) \subseteq All(body) /\ Write(u)
        BY <1>0, <2>4, JoinedType
      <3>2. hist.tidy /\ hist'.state = hist.state /\ hist'.whole = hist.whole
        BY <2>4 DEF OnlyGiven
      <3>3. \A c \in Ids : hist.used[c] \subseteq hist'.used[c]
        BY <2>4 DEF OnlyGiven, Gives
      <3>4. Innermost # 0 => \A x \in Chunks(u) : InPage(hist'.used, Innermost, x)
        <4>1. \A x \in Chunks(u) : x.of # 0
          BY <1>0, <3>1, <3>2 DEF Finished
        <4>2. \A x \in Chunks(u) : x.of \in Owners
          BY <4>1 DEF Owners
        <4>3. Innermost # 0 => Innermost \in Ids
          BY <1>0, InnermostType
        <4>4. Innermost # 0 => Owners \subseteq hist'.used[Innermost]
          BY <2>4, <4>3 DEF OnlyGiven, Gives
        <4> HIDE DEF u
        <4> QED BY <4>2, <4>4 DEF InPage
      <3> HIDE DEF u
      <3>5. \A x \in Chunks(u) : Loose(hist.state, x)
        BY <1>0, <3>1, <3>2 DEF Regions
      <3> QED BY <1>0, <2>1, <2>2, <3>1, <3>2, <3>3, <3>4, <3>5, RegionsWrite
    <2> QED BY <2>1, <2>3, <2>4
  <1>11. ASSUME NEW name \in Parts, NEW how \in Hows, PutPage(name, how) PROVE Regions'
    <2>1. PICK p \in pages : Alter(name, hist.whole[p], how)
      BY <1>11 DEF PutPage
    <2>2. UNCHANGED <<out, buf, calls, hist>>
      BY <1>11 DEF PutPage
    <2>3. hist.whole[p] \in Text
      BY <1>0, <1>f, HistFacts
    <2> DEFINE u == hist.whole[p]
    <2>4. u \in Text /\ Alter(name, u, how)
      BY <2>1, <2>3
    <2>5. hist.tidy /\ \A x \in Chunks(u) : Loose(hist.state, x)
      BY <1>p, <2>2
    <2> HIDE DEF u
    <2>6. All(body') \subseteq All(body) \cup Chunks(u)
      BY <1>0, <2>4, AlterShape
    <2>7. \A x \in All(body') : Loose(hist.state, x)
      BY <1>0, <2>5, <2>6 DEF Regions
    <2> QED BY <1>s, <2>2, <2>7
  <1>12. CASE (\E name \in Parts : ClearPart(name)) \/ ClearBody
    <2>1. UNCHANGED <<out, buf, calls, hist>> /\ (body' = body \/ body' = <<>> \/ \E name \in Parts : body' = Without(name))
      BY <1>12 DEF ClearPart, ClearBody
    <2>2. All(body') \subseteq All(body)
      BY <1>0, <2>1, WithoutShape, EmptyShape
    <2>3. \A x \in All(body') : hist.tidy => Loose(hist.state, x)
      BY <1>0, <2>2 DEF Regions
    <2> QED BY <1>s, <2>1, <2>3
  <1>13. CASE Throw \/ Catch \/ (\E h \in Headers : SetHeader(h)) \/ ClearHeaders \/ UNCHANGED vars
    <2>1. UNCHANGED <<out, buf, calls, hist, body>>
      BY <1>13 DEF Throw, Catch, SetHeader, ClearHeaders, vars
    <2>2. \A x \in All(body') : hist.tidy => Loose(hist.state, x)
      BY <1>0, <2>1 DEF Regions
    <2> QED BY <1>s, <2>1, <2>2
  <1> QED BY <1>1, <1>2, <1>3, <1>4, <1>5, <1>6, <1>7, <1>8, <1>9, <1>10, <1>11, <1>12, <1>13 DEF Next, Hows, Sends

LEMMA RegionsInit ==
  ASSUME Init
  PROVE  RegionInv
  <1>1. LayoutInv
    BY LayoutInit
  <1>2. /\ out = <<>> /\ buf = <<>> /\ calls = <<>> /\ pages = {} /\ body = <<>>
        /\ hist.next = 1 /\ hist.state = [c \in Ids |-> "unborn"] /\ hist.whole = [c \in Ids |-> <<>>]
        /\ hist.direct = [c \in Ids |-> {}] /\ hist.used = [c \in Ids |-> {}]
    BY DEF Init
  <1>3. DOMAIN calls = {} /\ DOMAIN buf = {}
    BY <1>2
  <1>4. CallsInv
    BY <1>2, <1>3 DEF CallsInv
  <1>f. Finished
    BY <1>2, EmptyShape DEF Finished
  <1>5. Inside(buf, calls, hist.used) /\ Beyond(buf, calls, hist.state)
    BY <1>3 DEF Inside, Beyond
  <1>6. Chunks(out) = {} /\ All(body) = {}
    BY <1>2, EmptyShape
  <1>7. Wholes(hist)
    BY <1>2 DEF Wholes
  <1> QED BY <1>1, <1>4, <1>f, <1>5, <1>6, <1>7 DEF RegionInv, Regions

\* Whatever is anywhere is of no page, of one that was returned, or of one whose
\* template runs.
LEMMA WhoseChunk ==
  ASSUME RegionInv, hist.tidy, NEW x \in Everywhere, x.of # 0
  PROVE  hist.state[x.of] \in {"running", "returned"}
  <1>0. /\ TypeOK /\ CallsInv /\ buf \in Seq(Buffer) /\ calls \in Seq(Call)
        /\ Inside(buf, calls, hist.used) /\ Beyond(buf, calls, hist.state)
        /\ (\A y \in Chunks(out) \cup All(body) : Loose(hist.state, y)) /\ Wholes(hist) /\ Finished
    BY DEF RegionInv, LayoutInv, TypeOK, Buffer, Regions
  <1>1. x \in Chunks(out) \cup All(body) \/ x \in All(buf) \/ \E p \in pages : x \in Chunks(hist.whole[p])
    <2>1. Everywhere = Chunks(out) \cup All(buf) \cup All(body) \cup Held
      BY DEF Everywhere, All, Held
    <2>2. x \in Chunks(out) \/ x \in All(buf) \/ x \in All(body) \/ x \in Held
      BY <2>1
    <2> QED BY <2>2, HeldMember
  <1>2. CASE x \in Chunks(out) \cup All(body)
    BY <1>0, <1>2 DEF Loose
  <1>3. CASE x \in All(buf)
    <2>1. PICK i \in DOMAIN buf : x \in Chunks(buf[i].text)
      BY <1>3, AllMember
    <2> DEFINE h == Len(buf) + 1 - i
    <2>2. h \in Nat
      BY <1>0, LenProperties
    <2>3. CASE Outside(calls, h)
      BY <1>0, <2>1, <2>3 DEF Beyond, Loose
    <2>4. ASSUME NEW k \in DOMAIN calls, Within(calls, k, h) PROVE hist.state[x.of] \in {"running", "returned"}
      <3>1. InPage(hist.used, calls[k].id, x)
        BY <1>0, <2>1, <2>4 DEF Inside
      <3>2. calls[k].id \in Ids
        BY <1>0, CallFacts
      <3>3. hist.state[calls[k].id] = "running" /\ \A p \in hist.used[calls[k].id] : hist.state[p] = "returned"
        BY <1>0, <3>2 DEF CallsInv, Finished
      <3> QED BY <3>1, <3>3 DEF InPage
    <2> HIDE DEF h
    <2> QED BY <1>0, <2>2, <2>3, <2>4, Covered
  <1>4. ASSUME NEW p \in pages, x \in Chunks(hist.whole[p]) PROVE hist.state[x.of] \in {"running", "returned"}
    <2>1. p \in Ids /\ hist.state[p] = "returned" /\ \A q \in hist.used[p] : hist.state[q] = "returned"
      BY <1>0 DEF CallsInv, TypeOK, Finished
    <2>2. InPage(hist.used, p, x)
      BY <1>0, <1>4, <2>1 DEF Wholes
    <2> QED BY <2>1, <2>2 DEF InPage
  <1> QED BY <1>1, <1>2, <1>3, <1>4

\* Nothing that a template wrote before it threw is left in a buffer, in a page
\* that was returned, in the response or with the client, although it was written
\* into a buffer of the one stack that all code shares.  The templates close the
\* buffers that they open, and no others (hist.tidy).
THEOREM FailedPagesGone == Spec => []FailedPageIsGone
  <1>1. Init => RegionInv
    BY RegionsInit
  <1>2. RegionInv /\ [Next]_vars => RegionInv'
    BY RegionsStep
  <1>3. RegionInv => FailedPageIsGone
    BY WhoseChunk DEF FailedPageIsGone
  <1> QED BY <1>1, <1>2, <1>3, PTL DEF Spec

-----------------------------------------------------------------------------
(* What a template wrote straight into its page is there *)

Numbers(text) == {x.number : x \in Chunks(text)}

\* Every buffer that stays has what it had.
Grows(bs, t) ==
  \A h \in 1 .. Len(bs) : h <= Len(t) =>
    Chunks(bs[Len(bs) + 1 - h].text) \subseteq Chunks(t[Len(t) + 1 - h].text)

\* The page of a running render() is the buffer above those there were when it began.
Directed(bs, cs, direct) ==
  \A k \in DOMAIN cs : cs[k].buffered =>
    direct[cs[k].id] \subseteq Numbers(bs[Len(bs) + 1 - (cs[k].base + 1)].text)

Directs ==
  /\ Directed(buf, calls, hist.direct)
  /\ \A k \in DOMAIN calls : ~calls[k].buffered => hist.direct[calls[k].id] = {}
  /\ \A c \in Ids : hist.state[c] = "returned" => hist.direct[c] \subseteq Numbers(hist.whole[c])

LEMMA NumbersFacts ==
  ASSUME NEW t, NEW u, Chunks(t) \subseteq Chunks(u)
  PROVE  Numbers(t) \subseteq Numbers(u)
  BY DEF Numbers

LEMMA GrowsWritten ==
  ASSUME NEW s \in Seq(Buffer), NEW t, NEW u \in Text, Written(s, t, u)
  PROVE  Grows(s, t)
  <1>1. /\ DOMAIN t = DOMAIN s /\ Len(t) = Len(s) /\ 1 \in DOMAIN s
        /\ Chunks(t[1].text) = Chunks(s[1].text) \cup Chunks(u)
    BY WrittenChunks
  <1>2. \A i \in DOMAIN s : i # 1 => t[i] = s[i]
    BY WrittenChunks
  <1>3. Len(s) \in Nat /\ DOMAIN s = 1 .. Len(s)
    BY LenProperties
  <1>4. ASSUME NEW i \in DOMAIN s PROVE Chunks(s[i].text) \subseteq Chunks(t[i].text)
    <2>1. CASE i = 1
      BY <1>1, <2>1
    <2>2. CASE i # 1
      BY <1>2, <2>2
    <2> QED BY <2>1, <2>2
  <1>5. \A h \in 1 .. Len(s) : Len(s) + 1 - h \in DOMAIN s
    BY <1>3
  <1> QED BY <1>1, <1>4, <1>5 DEF Grows

LEMMA GrowsRaised ==
  ASSUME NEW s \in Seq(Buffer), NEW f \in Buffer, NEW t, t = <<f>> \o s
  PROVE  Grows(s, t)
  <1>1. /\ Len(s) \in Nat /\ Len(t) = Len(s) + 1
    BY PushFacts
  <1>2. \A i \in 1 .. Len(s) : t[i + 1] = s[i]
    BY PushFacts
  <1>3. ASSUME NEW h \in 1 .. Len(s) PROVE t[Len(t) + 1 - h] = s[Len(s) + 1 - h]
    <2> DEFINE i == Len(s) + 1 - h
    <2>1. i \in 1 .. Len(s) /\ Len(t) + 1 - h = i + 1
      BY <1>1
    <2> HIDE DEF i
    <2>2. t[i + 1] = s[i]
      BY <1>2, <2>1
    <2> QED BY <2>1, <2>2 DEF i
  <1> QED BY <1>3 DEF Grows

LEMMA GrowsLowered ==
  ASSUME NEW s \in Seq(Buffer), s # <<>>, NEW t, t = Tail(s)
  PROVE  Grows(s, t)
  <1>1. Len(s) \in Nat /\ Len(t) = Len(s) - 1
    BY TailFacts
  <1>2. \A i \in 1 .. Len(s) - 1 : t[i] = s[i + 1]
    BY TailFacts
  <1>3. ASSUME NEW h \in 1 .. Len(s), h <= Len(t) PROVE t[Len(t) + 1 - h] = s[Len(s) + 1 - h]
    <2> DEFINE i == Len(t) + 1 - h
    <2>1. i \in 1 .. Len(s) - 1 /\ Len(s) + 1 - h = i + 1
      BY <1>1, <1>3
    <2> HIDE DEF i
    <2>2. t[i] = s[i + 1]
      BY <1>2, <2>1
    <2> QED BY <2>1, <2>2 DEF i
  <1> QED BY <1>3 DEF Grows

LEMMA GrowsTwice ==
  ASSUME NEW s \in Seq(Buffer), NEW t \in Seq(Buffer), NEW u, Grows(s, t), Grows(t, u), Len(u) = Len(t)
  PROVE  Grows(s, u)
  <1>1. Len(s) \in Nat /\ Len(t) \in Nat
    BY LenProperties
  <1>2. ASSUME NEW h \in 1 .. Len(s), h <= Len(t)
        PROVE  Chunks(s[Len(s) + 1 - h].text) \subseteq Chunks(u[Len(u) + 1 - h].text)
    <2>1. h \in 1 .. Len(t) /\ h <= Len(u)
      BY <1>1, <1>2
    <2>2. Chunks(s[Len(s) + 1 - h].text) \subseteq Chunks(t[Len(t) + 1 - h].text)
      BY <1>2 DEF Grows
    <2>3. Chunks(t[Len(t) + 1 - h].text) \subseteq Chunks(u[Len(u) + 1 - h].text)
      BY <2>1 DEF Grows
    <2> QED BY <2>2, <2>3
  <1> QED BY <1>2 DEF Grows

\* The calls of ds are among those of cs.
Among(ds, cs) ==
  \A i \in DOMAIN ds : \E k \in DOMAIN cs : /\ ds[i].id = cs[k].id /\ ds[i].base = cs[k].base
                                            /\ ds[i].buffered <=> cs[k].buffered

\* Where the page of a running render() is.
LEMMA PageHeight ==
  ASSUME calls \in Seq(Call), buf \in Seq(Buffer), Nested, NEW k \in DOMAIN calls, calls[k].buffered
  PROVE  calls[k].base + 1 \in 1 .. Len(buf)
  <1>1. calls[k].base + 1 \in Heights
    BY HeightsMember
  <1> QED BY <1>1, HeightsFacts

LEMMA DirectedKept ==
  ASSUME calls \in Seq(Call), buf \in Seq(Buffer), Nested, Grows(buf, buf'), NEW cs, Among(cs, calls),
         \A i \in DOMAIN cs : cs[i].buffered => cs[i].base + 1 <= Len(buf'),
         Directed(buf, calls, hist.direct)
  PROVE  Directed(buf', cs, hist.direct)
  <1> SUFFICES ASSUME NEW i \in DOMAIN cs, cs[i].buffered
               PROVE  hist.direct[cs[i].id] \subseteq Numbers(buf'[Len(buf') + 1 - (cs[i].base + 1)].text)
    BY DEF Directed
  <1>1. PICK k \in DOMAIN calls : cs[i].id = calls[k].id /\ cs[i].base = calls[k].base /\ calls[k].buffered
    BY DEF Among
  <1> DEFINE h == calls[k].base + 1
  <1>2. h \in 1 .. Len(buf) /\ h <= Len(buf')
    BY <1>1, PageHeight
  <1>3. hist.direct[calls[k].id] \subseteq Numbers(buf[Len(buf) + 1 - h].text)
    BY <1>1 DEF Directed
  <1>4. cs[i].base + 1 = h
    BY <1>1
  <1> HIDE DEF h
  <1>5. Chunks(buf[Len(buf) + 1 - h].text) \subseteq Chunks(buf'[Len(buf') + 1 - h].text)
    BY <1>2 DEF Grows
  <1>6. Numbers(buf[Len(buf) + 1 - h].text) \subseteq Numbers(buf'[Len(buf') + 1 - h].text)
    BY <1>5, NumbersFacts
  <1> QED BY <1>1, <1>3, <1>4, <1>6

\* When nobody has put a buffer between the template and its page, the page is
\* the active buffer.
LEMMA StraightTop ==
  ASSUME calls \in Seq(Call), buf \in Seq(Buffer), Nested, Straight, NEW k0 \in DOMAIN calls, calls[k0].buffered,
         \A j \in 1 .. k0 - 1 : ~calls[j].buffered
  PROVE  calls[k0].base + 1 = Len(buf)
  <1>0. /\ Len(calls) \in Nat /\ DOMAIN calls = 1 .. Len(calls) /\ Len(buf) \in Nat
        /\ \A i \in 1 .. Len(calls) : calls[i] \in Call
    BY CallFacts, LenProperties
  <1>1. ASSUME NEW i \in 1 .. k0 PROVE i \in DOMAIN calls /\ calls[i].own = 0
    <2>1. i \in DOMAIN calls /\ \A j \in 1 .. i - 1 : j \in 1 .. k0 - 1
      BY <1>0
    <2> QED BY <2>1 DEF Straight
  <1> DEFINE S == {i \in 1 .. k0 : Size(calls[i]) # Len(buf)}
  <1>2. S = {}
    <2> SUFFICES ASSUME S # {} PROVE FALSE
      OBVIOUS
    <2>1. PICK m \in S : \A l \in S : m <= l
      <3>1. S \in SUBSET Nat
        BY <1>0
      <3> HIDE DEF S
      <3> QED BY <3>1, LeastOf
    <2>2. m \in 1 .. k0 /\ Size(calls[m]) # Len(buf)
      OBVIOUS
    <2>3. m # 1
      <3>1. calls # <<>>
        BY <1>0
      <3> QED BY <2>2, <3>1 DEF Nested
    <2> DEFINE i == m - 1
    <2>4. i \in 1 .. k0 - 1 /\ i \in 1 .. k0 /\ i \in 1 .. Len(calls) - 1 /\ i + 1 = m /\ ~(m <= i)
      BY <1>0, <2>2, <2>3
    <2>5. i \notin S
      <3> HIDE DEF S, i
      <3> QED BY <2>1, <2>4
    <2>6. Size(calls[i]) = Len(buf)
      <3> HIDE DEF i
      <3> QED BY <2>4, <2>5
    <2> HIDE DEF i
    <2>7. ~calls[i].buffered /\ calls[i].own = 0 /\ calls[i] \in Call
      BY <1>0, <1>1, <2>4
    <2>8. Size(calls[i]) = calls[i].base
      <3>1. Size(calls[i]) = calls[i].base + calls[i].own /\ calls[i].base \in Nat
        BY <2>7, SizeFacts
      <3> QED BY <2>7, <3>1
    <2>9. Size(calls[m]) = calls[i].base
      BY <2>4 DEF Nested
    <2> QED BY <2>2, <2>6, <2>8, <2>9
  <1>3. Size(calls[k0]) = Len(buf)
    BY <1>0, <1>2
  <1>4. Size(calls[k0]) = calls[k0].base + calls[k0].own + 1 /\ calls[k0].base \in Nat
    BY <1>0, SizeFacts
  <1>5. calls[k0].own = 0
    BY <1>0, <1>1
  <1> QED BY <1>3, <1>4, <1>5

\* No step takes anything out of a buffer that stays.
LEMMA BufGrows ==
  ASSUME TypeOK, [Next]_vars
  PROVE  Grows(buf, buf')
  <1>0. out \in Text /\ buf \in Seq(Buffer) /\ body \in Seq(BodyPart)
    BY DEF TypeOK, Buffer, BodyPart
  <1>1. CASE buf' = buf
    BY <1>1 DEF Grows
  <1>2. ASSUME buf # <<>>, buf' = Tail(buf) PROVE Grows(buf, buf')
    BY <1>0, <1>2, GrowsLowered
  <1>3. ASSUME NEW u \in Text, Write(u) PROVE Grows(buf, buf')
    <2>1. buf' = buf \/ Written(buf, buf', u)
      BY <1>0, <1>3, WriteShape
    <2> QED BY <1>0, <1>1, <2>1, GrowsWritten
  <1>4. ASSUME NEW f \in Buffer, buf' = <<f>> \o buf PROVE Grows(buf, buf')
    BY <1>0, <1>4, GrowsRaised
  <1>5. CASE Echo
    <2>1. Write(<<Chunklet>>) /\ <<Chunklet>> \in Text
      BY <1>5, EchoFacts, SingleChunk
    <2> QED BY <1>3, <2>1
  <1>6. CASE EchoPage
    <2>1. PICK p \in pages : hist.whole[p] \in Text /\ Write(hist.whole[p])
      BY <1>6, EchoPageFacts
    <2> QED BY <1>3, <2>1
  <1>7. CASE Sends
    <2>1. Joined \in Text
      BY <1>0, JoinedType
    <2>2. buf' = buf \/ Write(Joined)
      BY <1>7, SendsFacts
    <2> QED BY <1>1, <1>3, <2>1, <2>2
  <1>8. CASE ObStart
    <2> DEFINE f == [yaf |-> FALSE, text |-> <<>>]
    <2>1. f \in Buffer /\ buf' = <<f>> \o buf
      BY <1>8 DEF ObStart, Buffer, Text
    <2> HIDE DEF f
    <2> QED BY <1>4, <2>1
  <1>9. ASSUME NEW buffered \in BOOLEAN, Begin(buffered) PROVE Grows(buf, buf')
    <2> DEFINE f == [yaf |-> TRUE, text |-> <<>>]
    <2>1. f \in Buffer /\ (buf' = <<f>> \o buf \/ buf' = buf)
      BY <1>9 DEF Begin, Buffer, Text
    <2> HIDE DEF f
    <2> QED BY <1>1, <1>4, <2>1
  <1>10. ASSUME NEW flush \in BOOLEAN, ObEnd(flush) PROVE Grows(buf, buf')
    <2>1. buf # <<>> /\ (Flush \/ buf' = Tail(buf))
      BY <1>10 DEF ObEnd
    <2>2. CASE Flush
      <3> DEFINE s == Tail(buf)
                 u == buf[1].text
      <3>1. u \in Text /\ (buf' = s \/ Written(s, buf', u))
        BY <1>0, <2>1, <2>2, FlushShape
      <3>2. s \in Seq(Buffer) /\ Grows(buf, s)
        BY <1>0, <2>1, TailFacts, GrowsLowered
      <3> HIDE DEF s, u
      <3>3. ASSUME Written(s, buf', u) PROVE Grows(buf, buf')
        <4>1. Grows(s, buf') /\ Len(buf') = Len(s)
          BY <3>1, <3>2, <3>3, GrowsWritten, WrittenChunks
        <4> QED BY <1>0, <3>2, <4>1, GrowsTwice
      <3> QED BY <3>1, <3>2, <3>3
    <2> QED BY <1>2, <2>1, <2>2
  <1>11. CASE RenderEnds \/ DisplayEnds \/ TemplateThrew
    <2>1. buf' = buf \/ (buf # <<>> /\ buf' = Tail(buf))
      BY <1>11 DEF RenderEnds, DisplayEnds, TemplateThrew, GetAndDiscard, DiscardBuffer
    <2> QED BY <1>1, <1>2, <2>1
  <1>12. CASE \/ Throw \/ Catch \/ NotRendered \/ (\E name \in Parts, how \in Hows : PutPage(name, how))
              \/ (\E name \in Parts : ClearPart(name)) \/ ClearBody
              \/ (\E h \in Headers : SetHeader(h)) \/ ClearHeaders \/ UNCHANGED vars
    BY <1>1, <1>12 DEF Throw, Catch, NotRendered, PutPage, ClearPart, ClearBody, SetHeader, ClearHeaders, vars
  <1> QED BY <1>5, <1>6, <1>7, <1>8, <1>9, <1>10, <1>11, <1>12 DEF Next, Hows, Sends

\* A step that begins no call.
LEMMA CallsAmong ==
  ASSUME TypeOK, [Next]_vars, ~Begin(TRUE), ~Begin(FALSE)
  PROVE  Among(calls', calls)
  <1>0. calls \in Seq(Call)
    BY DEF TypeOK
  <1>1. CASE calls' = calls
    BY <1>1 DEF Among
  <1>2. CASE calls # <<>> /\ calls' = Tail(calls)
    <2>1. /\ Len(calls) \in Nat /\ DOMAIN calls = 1 .. Len(calls) /\ DOMAIN calls' = 1 .. Len(calls) - 1
      BY <1>0, <1>2, TailFacts
    <2>2. \A i \in 1 .. Len(calls) - 1 : calls'[i] = calls[i + 1]
      BY <1>0, <1>2, TailFacts
    <2>3. \A i \in DOMAIN calls' : i + 1 \in DOMAIN calls /\ calls'[i] = calls[i + 1]
      BY <2>1, <2>2
    <2> QED BY <2>3 DEF Among
  <1>3. CASE ObStart \/ ObEnd(TRUE) \/ ObEnd(FALSE)
    <2>1. Alike(calls, calls')
      BY <1>3, OwnAlike
    <2> QED BY <2>1 DEF Alike, Among
  <1>4. CASE RenderEnds \/ DisplayEnds \/ TemplateThrew
    BY <1>2, <1>4 DEF RenderEnds, DisplayEnds, TemplateThrew
  <1>5. CASE \/ Echo \/ EchoPage \/ Throw \/ Catch \/ NotRendered
             \/ (\E name \in Parts, how \in Hows : PutPage(name, how))
             \/ (\E name \in Parts : ClearPart(name)) \/ ClearBody
             \/ (\E h \in Headers : SetHeader(h)) \/ ClearHeaders \/ UNCHANGED vars
    BY <1>1, <1>5 DEF Echo, EchoPage, Throw, Catch, NotRendered, PutPage, ClearPart, ClearBody,
                      SetHeader, ClearHeaders, vars
  <1>6. CASE Sends
    BY <1>1, <1>6, SendsFacts
  <1> QED BY <1>3, <1>4, <1>5, <1>6 DEF Next, Hows, Sends

LEMMA NestedHeight ==
  ASSUME NEW cs \in Seq(Call), NEW n \in Nat, cs # <<>> => Size(cs[1]) = n,
         \A i, j \in DOMAIN cs : i < j => Size(cs[j]) <= cs[i].base,
         NEW k \in DOMAIN cs, cs[k].buffered
  PROVE  cs[k].base + 1 <= n
  <1>0. Len(cs) \in Nat /\ DOMAIN cs = 1 .. Len(cs) /\ \A i \in 1 .. Len(cs) : cs[i] \in Call
    BY LenProperties, ElementOfSeq
  <1>1. 1 \in DOMAIN cs /\ cs # <<>> /\ cs[1] \in Call /\ cs[k] \in Call
    BY <1>0
  <1>2. Size(cs[1]) = n /\ cs[1].base <= Size(cs[1]) /\ cs[1].base \in Nat
    <2>1. Size(cs[1]) = n
      BY <1>1
    <2>2. cs[1].base <= Size(cs[1]) /\ cs[1].base \in Nat
      BY <1>1, SizeFacts, SMTT(30)
    <2> QED BY <2>1, <2>2
  <1>3. Size(cs[k]) = cs[k].base + cs[k].own + 1 /\ cs[k].base \in Nat /\ cs[k].own \in Nat
    BY <1>1, SizeFacts
  <1>4. Size(cs[k]) <= n
    <2>1. CASE k = 1
      BY <1>2, <2>1
    <2>2. CASE k # 1
      <3>1. 1 < k
        BY <1>0, <2>2
      <3>2. Size(cs[k]) <= cs[1].base
        BY <1>1, <3>1
      <3> QED BY <1>2, <1>3, <3>2
    <2> QED BY <2>1, <2>2
  <1> QED BY <1>3, <1>4

\* Only echo writes straight into a page.
LEMMA DirectSame ==
  ASSUME TypeOK, [Next]_vars, ~Echo
  PROVE  hist'.direct = hist.direct
  <1>0. buf \in Seq(Buffer)
    BY DEF TypeOK, Buffer
  <1>1. CASE EchoPage
    BY <1>1, EchoPageHist
  <1>2. CASE ObStart
    BY <1>2, ObStartHist
  <1>3. ASSUME NEW flush, ObEnd(flush) PROVE hist'.direct = hist.direct
    BY <1>3, ObEndHist
  <1>4. CASE Begin(TRUE) \/ Begin(FALSE) \/ NotRendered
    BY <1>4, NewCallHist DEF Begin, NotRendered
  <1>5. CASE RenderEnds \/ DisplayEnds \/ TemplateThrew
    <2>1. calls # <<>> /\ \E st \in States, u \in Text : Ended(st, u)
      <3>1. "failed" \in States /\ "returned" \in States /\ <<>> \in Text
        BY EmptyShape DEF States, Text
      <3>2. buf # <<>> => buf[1].text \in Text
        <4>1. buf # <<>> => buf[1] \in Buffer
          BY <1>0, TailFacts
        <4> QED BY <4>1 DEF Buffer
      <3> QED BY <1>5, <3>1, <3>2 DEF RenderEnds, DisplayEnds, TemplateThrew
    <2> QED BY <2>1, EndedFacts
  <1>6. CASE \/ Throw \/ Catch \/ (\E name \in Parts, how \in Hows : PutPage(name, how))
             \/ (\E name \in Parts : ClearPart(name)) \/ ClearBody
             \/ (\E h \in Headers : SetHeader(h)) \/ ClearHeaders \/ UNCHANGED vars
    BY <1>6 DEF Throw, Catch, PutPage, ClearPart, ClearBody, SetHeader, ClearHeaders, vars
  <1>7. CASE Sends
    BY <1>7, SendsFacts DEF OnlyGiven
  <1> QED BY <1>1, <1>2, <1>3, <1>4, <1>5, <1>6, <1>7 DEF Next, Hows, Sends

\* A step that ends no template.
LEMMA WholesSame ==
  ASSUME TypeOK, CallsInv, [Next]_vars, ~RenderEnds, ~DisplayEnds, ~TemplateThrew
  PROVE  hist'.whole = hist.whole /\ \A c \in Ids : hist'.state[c] = "returned" <=> hist.state[c] = "returned"
  <1>0. hist \in History
    BY DEF TypeOK
  <1>1. CASE Echo
    BY <1>1, EchoHist
  <1>2. CASE EchoPage
    BY <1>2, EchoPageHist
  <1>3. CASE ObStart
    BY <1>3, ObStartHist
  <1>4. ASSUME NEW flush, ObEnd(flush)
        PROVE hist'.whole = hist.whole /\ \A c \in Ids : hist'.state[c] = "returned" <=> hist.state[c] = "returned"
    BY <1>4, ObEndHist
  <1>5. ASSUME NEW st, st # "returned", hist' = [hist EXCEPT !.next = @ + 1, !.state[hist.next] = st],
               hist.next <= MaxCalls
        PROVE hist'.whole = hist.whole /\ \A c \in Ids : hist'.state[c] = "returned" <=> hist.state[c] = "returned"
    <2>1. hist'.whole = hist.whole /\ hist'.state = [hist.state EXCEPT ![hist.next] = st]
      BY <1>5, NewCallHist
    <2>2. hist.next \in Nat /\ hist.state \in [Ids -> States]
      BY <1>0, HistFacts
    <2>3. hist.next \in Ids /\ hist.state[hist.next] = "unborn"
      <3>1. hist.next \in Ids
        BY <1>0, <1>5, HistFacts, PageAssumption DEF Ids
      <3> QED BY <2>2, <3>1 DEF CallsInv
    <2> QED BY <1>5, <2>1, <2>2, <2>3
  <1>6. CASE Begin(TRUE) \/ Begin(FALSE)
    <2> DEFINE st == "running"
    <2>1. st # "returned" /\ hist' = [hist EXCEPT !.next = @ + 1, !.state[hist.next] = st] /\ hist.next <= MaxCalls
      BY <1>6 DEF Begin
    <2> HIDE DEF st
    <2> QED BY <1>5, <2>1
  <1>7. CASE NotRendered
    <2> DEFINE st == "failed"
    <2>1. st # "returned" /\ hist' = [hist EXCEPT !.next = @ + 1, !.state[hist.next] = st] /\ hist.next <= MaxCalls
      BY <1>7 DEF NotRendered
    <2> HIDE DEF st
    <2> QED BY <1>5, <2>1
  <1>8. CASE \/ Throw \/ Catch \/ (\E name \in Parts, how \in Hows : PutPage(name, how))
             \/ (\E name \in Parts : ClearPart(name)) \/ ClearBody
             \/ (\E h \in Headers : SetHeader(h)) \/ ClearHeaders \/ UNCHANGED vars
    BY <1>8 DEF Throw, Catch, PutPage, ClearPart, ClearBody, SetHeader, ClearHeaders, vars
  <1>9. CASE Sends
    BY <1>9, SendsFacts DEF OnlyGiven
  <1> QED BY <1>1, <1>2, <1>3, <1>4, <1>6, <1>7, <1>8, <1>9 DEF Next, Hows, Sends

\* What the template that ends leaves: the active buffer, which is its own, or
\* nothing.
LEMMA EndedWhole ==
  ASSUME TypeOK, Layout, hist'.tidy, RenderEnds \/ DisplayEnds \/ TemplateThrew
  PROVE  /\ calls[1].id \in Ids /\ calls # <<>> /\ 1 \in DOMAIN calls
         /\ \A c \in Ids : c # calls[1].id => hist'.whole[c] = hist.whole[c] /\ hist'.state[c] = hist.state[c]
         /\ hist'.state[calls[1].id] = "returned" =>
              \/ calls[1].buffered /\ hist'.whole[calls[1].id] = buf[1].text /\ Len(buf) = calls[1].base + 1
                 /\ 1 \in DOMAIN buf
              \/ ~calls[1].buffered /\ hist'.whole[calls[1].id] = <<>>
  <1>0. buf \in Seq(Buffer) /\ calls \in Seq(Call) /\ Nested /\ hist \in History
    BY DEF TypeOK, Buffer, Layout
  <1> DEFINE e == calls[1].id
  <1>1. calls # <<>> /\ 1 \in DOMAIN calls /\ calls[1] \in Call
    <2>1. calls # <<>>
      BY DEF RenderEnds, DisplayEnds, TemplateThrew
    <2> QED BY <1>0, <2>1, TailFacts
  <1>2. PICK st \in States, u \in Text :
          /\ Ended(st, u)
          /\ st = "returned" => \/ calls[1].buffered /\ u = buf[1].text /\ buf # <<>>
                                \/ ~calls[1].buffered /\ u = <<>>
    <2>1. "failed" \in States /\ "returned" \in States /\ <<>> \in Text
      BY EmptyShape DEF States, Text
    <2>2. buf # <<>> => buf[1].text \in Text
      <3>1. buf # <<>> => buf[1] \in Buffer
        BY <1>0, TailFacts
      <3> QED BY <3>1 DEF Buffer
    <2>3. CASE RenderEnds
      <3>1. CASE buf = <<>>
        BY <2>1, <2>3, <3>1 DEF RenderEnds
      <3>2. CASE buf # <<>>
        BY <2>1, <2>2, <2>3, <3>2 DEF RenderEnds
      <3> QED BY <3>1, <3>2
    <2>4. CASE DisplayEnds
      BY <2>1, <2>4 DEF DisplayEnds
    <2>5. CASE TemplateThrew
      BY <2>1, <2>5 DEF TemplateThrew
    <2> QED BY <2>3, <2>4, <2>5
  <1>3. /\ e \in Ids /\ hist'.whole = [hist.whole EXCEPT ![e] = u] /\ hist'.state = [hist.state EXCEPT ![e] = st]
        /\ hist'.tidy = (hist.tidy /\ calls[1].own = 0)
    BY <1>1, <1>2, EndedFacts
  <1>4. hist.state \in [Ids -> States] /\ hist.whole \in [Ids -> Text]
    BY <1>0, HistFacts
  <1> HIDE DEF e
  <1>5. \A c \in Ids : c # e => hist'.whole[c] = hist.whole[c] /\ hist'.state[c] = hist.state[c]
    BY <1>3, <1>4
  <1>6. hist'.state[e] = st /\ hist'.whole[e] = u
    BY <1>3, <1>4
  <1>7. calls[1].buffered => Len(buf) = calls[1].base + 1
    <2>1. Size(calls[1]) = Len(buf) /\ calls[1].own = 0
      BY <1>0, <1>1, <1>3 DEF Nested
    <2>2. calls[1].buffered => Size(calls[1]) = calls[1].base + calls[1].own + 1 /\ calls[1].base \in Nat
      BY <1>1, SizeFacts
    <2> QED BY <2>1, <2>2
  <1>8. buf # <<>> => 1 \in DOMAIN buf
    BY <1>0, TailFacts
  <1> QED BY <1>1, <1>2, <1>3, <1>5, <1>6, <1>7, <1>8 DEF e

LEMMA DirectsEcho ==
  ASSUME TypeOK, CallsInv, Layout, Directs, Echo, Directed(buf', calls, hist.direct)
  PROVE  Directs'
  <1>0. buf \in Seq(Buffer) /\ calls \in Seq(Call) /\ Nested /\ out \in Text /\ hist \in History
    BY DEF TypeOK, Buffer, Layout
  <1> DEFINE n == hist.writes + 1
  <1>1. hist'.whole = hist.whole /\ hist'.state = hist.state /\ calls' = calls
    BY EchoHist DEF Echo
  <1>2. \A c \in Ids : hist'.direct[c] = IF c = Innermost /\ Straight THEN hist.direct[c] \cup {n} ELSE hist.direct[c]
    BY EchoHist
  <1>3. Write(<<Chunklet>>) /\ <<Chunklet>> \in Text /\ Chunks(<<Chunklet>>) = {Chunklet} /\ Chunklet.number = n
    BY EchoFacts, SingleChunk
  <1> HIDE DEF n
  <1>4. \A k \in DOMAIN calls : calls[k].id \in Ids /\ hist.state[calls[k].id] = "running"
    BY <1>0, CallFacts DEF CallsInv
  <1>5. \A i, j \in DOMAIN calls : calls[i].id = calls[j].id => i = j
    BY DEF CallsInv
  <1>6. \/ Innermost = 0
        \/ \E i \in DOMAIN calls : /\ calls[i].buffered /\ Innermost = calls[i].id
                                   /\ \A j \in 1 .. i - 1 : ~calls[j].buffered
    BY <1>0, InnermostFacts
  <1>7. 0 \notin Ids
    BY <1>0, InnermostType
  <1>8. ASSUME NEW c \in Ids, c # Innermost PROVE hist'.direct[c] = hist.direct[c]
    BY <1>2, <1>8
  <1>9. Directed(buf', calls', hist'.direct)
    <2> SUFFICES ASSUME NEW k \in DOMAIN calls, calls[k].buffered
                 PROVE  hist'.direct[calls[k].id] \subseteq Numbers(buf'[Len(buf') + 1 - (calls[k].base + 1)].text)
      BY <1>1 DEF Directed
    <2>1. hist.direct[calls[k].id] \subseteq Numbers(buf'[Len(buf') + 1 - (calls[k].base + 1)].text)
      BY DEF Directed
    <2>2. CASE calls[k].id = Innermost /\ Straight
      <3>1. \A j \in 1 .. k - 1 : ~calls[j].buffered
        BY <1>4, <1>5, <1>6, <1>7, <2>2
      <3>2. calls[k].base + 1 = Len(buf)
        BY <1>0, <2>2, <3>1, StraightTop
      <3>3. Len(buf) \in Nat /\ buf # <<>>
        <4>1. calls[k].base + 1 \in 1 .. Len(buf)
          BY <1>0, PageHeight
        <4> QED BY <1>0, <4>1, LenProperties
      <3>4. Len(buf') = Len(buf) /\ Written(buf, buf', <<Chunklet>>)
        BY <1>0, <1>3, <3>3, WriteShape
      <3>5. Len(buf') + 1 - (calls[k].base + 1) = 1
        BY <3>2, <3>3, <3>4
      <3>6. Chunks(buf'[1].text) = Chunks(buf[1].text) \cup Chunks(<<Chunklet>>)
        BY <1>0, <1>3, <3>4, WrittenChunks
      <3>7. n \in Numbers(buf'[1].text)
        BY <1>3, <3>6 DEF Numbers
      <3>8. hist'.direct[calls[k].id] = hist.direct[calls[k].id] \cup {n}
        BY <1>2, <1>4, <2>2
      <3> QED BY <2>1, <3>5, <3>7, <3>8
    <2>3. CASE ~(calls[k].id = Innermost /\ Straight)
      <3>1. hist'.direct[calls[k].id] = hist.direct[calls[k].id]
        BY <1>2, <1>4, <2>3
      <3> QED BY <2>1, <3>1
    <2> QED BY <2>2, <2>3
  <1>10. ASSUME NEW k \in DOMAIN calls, ~calls[k].buffered PROVE hist'.direct[calls[k].id] = {}
    <2>1. calls[k].id # Innermost
      BY <1>4, <1>5, <1>6, <1>7, <1>10
    <2>2. hist.direct[calls[k].id] = {}
      BY <1>10 DEF Directs
    <2> QED BY <1>4, <1>8, <2>1, <2>2
  <1>11. ASSUME NEW c \in Ids, hist.state[c] = "returned" PROVE hist'.direct[c] \subseteq Numbers(hist.whole[c])
    <2>1. c # Innermost
      BY <1>4, <1>6, <1>7, <1>11
    <2>2. hist.direct[c] \subseteq Numbers(hist.whole[c])
      BY <1>11 DEF Directs
    <2> QED BY <1>8, <2>1, <2>2
  <1> QED BY <1>1, <1>9, <1>10, <1>11 DEF Directs

LEMMA DirectsStep ==
  ASSUME RegionInv, RegionInv', [Next]_vars, hist.tidy, hist'.tidy, Directs
  PROVE  Directs'
  <1>0. /\ TypeOK /\ CallsInv /\ Layout /\ Nested /\ buf \in Seq(Buffer) /\ calls \in Seq(Call) /\ hist \in History
    BY DEF RegionInv, LayoutInv, TypeOK, Buffer, Layout
  <1>n. Nested' /\ calls' \in Seq(Call) /\ Len(buf') \in Nat
    <2>1. buf' \in Seq(Buffer) /\ calls' \in Seq(Call) /\ Nested'
      BY DEF RegionInv, LayoutInv, TypeOK, Buffer, Layout
    <2> QED BY <2>1, LenProperties
  <1>a. \A k \in DOMAIN calls' : calls'[k].buffered => calls'[k].base + 1 <= Len(buf')
    <2> DEFINE cs == calls'
               n == Len(buf')
    <2>1. /\ cs \in Seq(Call) /\ n \in Nat /\ (cs # <<>> => Size(cs[1]) = n)
          /\ \A i, j \in DOMAIN cs : i < j => Size(cs[j]) <= cs[i].base
      BY <1>n DEF Nested
    <2> HIDE DEF cs, n
    <2>2. \A k \in DOMAIN cs : cs[k].buffered => cs[k].base + 1 <= n
      BY <2>1, NestedHeight
    <2> QED BY <2>2 DEF cs, n
  <1>b. Grows(buf, buf')
    BY <1>0, BufGrows
  <1>d. /\ Directed(buf, calls, hist.direct)
        /\ \A k \in DOMAIN calls : ~calls[k].buffered => hist.direct[calls[k].id] = {}
        /\ \A c \in Ids : hist.state[c] = "returned" => hist.direct[c] \subseteq Numbers(hist.whole[c])
    BY DEF Directs
  <1>1. CASE Echo
    <2>1. calls' = calls
      BY <1>1 DEF Echo
    <2>2. Among(calls, calls) /\ \A k \in DOMAIN calls : calls[k].buffered => calls[k].base + 1 <= Len(buf')
      BY <1>a, <2>1 DEF Among
    <2>3. Directed(buf', calls, hist.direct)
      BY <1>0, <1>b, <1>d, <2>2, DirectedKept
    <2> QED BY <1>0, <1>1, <2>3, DirectsEcho
  <1>2. CASE ~Echo
    <2>1. hist'.direct = hist.direct
      BY <1>0, <1>2, DirectSame
    <2>2. \A c \in Ids : hist'.state[c] = "returned" => hist.direct[c] \subseteq Numbers(hist'.whole[c])
      <3>1. CASE ~RenderEnds /\ ~DisplayEnds /\ ~TemplateThrew
        BY <1>0, <1>d, <3>1, WholesSame
      <3>2. CASE RenderEnds \/ DisplayEnds \/ TemplateThrew
        <4> DEFINE e == calls[1].id
        <4>1. /\ e \in Ids /\ 1 \in DOMAIN calls
              /\ hist'.state[e] = "returned" =>
                   \/ calls[1].buffered /\ hist'.whole[e] = buf[1].text /\ Len(buf) = calls[1].base + 1
                   \/ ~calls[1].buffered /\ hist'.whole[e] = <<>>
          BY <1>0, <3>2, EndedWhole
        <4>2. \A c \in Ids : c # e => hist'.whole[c] = hist.whole[c] /\ hist'.state[c] = hist.state[c]
          BY <1>0, <3>2, EndedWhole
        <4>3. ASSUME hist'.state[e] = "returned" PROVE hist.direct[e] \subseteq Numbers(hist'.whole[e])
          <5>1. CASE calls[1].buffered /\ hist'.whole[e] = buf[1].text /\ Len(buf) = calls[1].base + 1
            <6>1. Len(buf) + 1 - (calls[1].base + 1) = 1
              <7>1. calls[1].base \in Nat
                BY <1>0, <4>1, CallFacts
              <7> QED BY <5>1, <7>1
            <6>2. hist.direct[e] \subseteq Numbers(buf[1].text)
              BY <1>d, <4>1, <5>1, <6>1 DEF Directed
            <6> QED BY <5>1, <6>2
          <5>2. CASE ~calls[1].buffered
            BY <1>d, <4>1, <5>2
          <5> QED BY <4>1, <4>3, <5>1, <5>2
        <4> HIDE DEF e
        <4> QED BY <1>d, <4>2, <4>3
      <3> QED BY <3>1, <3>2
    <2>3. CASE ~Begin(TRUE) /\ ~Begin(FALSE)
      <3>1. Among(calls', calls)
        BY <1>0, <2>3, CallsAmong
      <3>2. Directed(buf', calls', hist.direct)
        <4> DEFINE cs == calls'
        <4>1. Among(cs, calls) /\ \A k \in DOMAIN cs : cs[k].buffered => cs[k].base + 1 <= Len(buf')
          BY <1>a, <3>1
        <4> HIDE DEF cs
        <4>2. Directed(buf', cs, hist.direct)
          BY <1>0, <1>b, <1>d, <4>1, DirectedKept
        <4> QED BY <4>2 DEF cs
      <3>3. \A k \in DOMAIN calls' : ~calls'[k].buffered => hist.direct[calls'[k].id] = {}
        BY <1>d, <3>1 DEF Among
      <3> QED BY <2>1, <2>2, <3>2, <3>3 DEF Directs
    <2>4. ASSUME NEW buffered \in BOOLEAN, Begin(buffered) PROVE Directs'
      <3> DEFINE c == [id |-> hist.next, buffered |-> buffered, own |-> 0, base |-> Len(buf)]
      <3>1. calls' = <<c>> \o calls /\ c.id = hist.next
        BY <2>4 DEF Begin
      <3>2. c \in Call /\ hist.direct[hist.next] = {}
        <4>1. hist.next \in Ids /\ hist.next \in Nat
          BY <1>0, <2>4, HistFacts, PageAssumption DEF Begin, Ids
        <4>2. Len(buf) \in Nat
          BY <1>0, LenProperties
        <4> QED BY <1>0, <4>1, <4>2 DEF CallsInv, Call
      <3> HIDE DEF c
      <3>3. /\ Len(calls) \in Nat /\ calls'[1] = c /\ DOMAIN calls = 1 .. Len(calls)
            /\ DOMAIN calls' = 1 .. Len(calls) + 1
        BY <1>0, <3>1, <3>2, PushFacts
      <3>4. \A i \in 1 .. Len(calls) : calls'[i + 1] = calls[i]
        BY <1>0, <3>1, <3>2, PushFacts
      <3>5. \A i \in DOMAIN calls : i + 1 \in DOMAIN calls' /\ calls'[i + 1] = calls[i]
        BY <3>3, <3>4
      <3>6. \A k \in DOMAIN calls : calls[k].buffered => calls[k].base + 1 <= Len(buf')
        BY <1>a, <3>5
      <3>7. Directed(buf', calls, hist.direct)
        <4>1. Among(calls, calls)
          BY DEF Among
        <4> QED BY <1>0, <1>b, <1>d, <3>6, <4>1, DirectedKept
      <3>8. ASSUME NEW i \in DOMAIN calls' PROVE i = 1 \/ \E k \in DOMAIN calls : calls'[i] = calls[k]
        <4>1. i # 1 => i - 1 \in DOMAIN calls /\ (i - 1) + 1 = i
          BY <3>3
        <4> QED BY <3>5, <4>1
      <3>9. Directed(buf', calls', hist.direct)
        <4> SUFFICES ASSUME NEW i \in DOMAIN calls', calls'[i].buffered
                     PROVE  hist.direct[calls'[i].id] \subseteq Numbers(buf'[Len(buf') + 1 - (calls'[i].base + 1)].text)
          BY DEF Directed
        <4>1. CASE i = 1
          BY <3>1, <3>2, <3>3, <4>1
        <4>2. ASSUME NEW k \in DOMAIN calls, calls'[i] = calls[k]
              PROVE  hist.direct[calls'[i].id] \subseteq Numbers(buf'[Len(buf') + 1 - (calls'[i].base + 1)].text)
          BY <3>7, <4>2 DEF Directed
        <4> QED BY <3>8, <4>1, <4>2
      <3>10. ASSUME NEW i \in DOMAIN calls', ~calls'[i].buffered PROVE hist.direct[calls'[i].id] = {}
        <4>1. CASE i = 1
          <5>1. calls'[i].id = hist.next
            BY <3>1, <3>3, <4>1
          <5> QED BY <3>2, <5>1
        <4>2. ASSUME NEW k \in DOMAIN calls, calls'[i] = calls[k] PROVE hist.direct[calls'[i].id] = {}
          BY <1>d, <3>10, <4>2
        <4> QED BY <3>8, <4>1, <4>2
      <3> QED BY <2>1, <2>2, <3>9, <3>10 DEF Directs
    <2> QED BY <2>3, <2>4
  <1> QED BY <1>1, <1>2

-----------------------------------------------------------------------------
(* A page has what its template wrote in the order it was written in *)

Ordered(text, c) ==
  \A i, j \in DOMAIN text : i < j /\ text[i].of = c /\ text[j].of = c => text[i].number < text[j].number

\* What has been written for c is in order in each buffer, and a buffer above
\* another has the later part of it.
InOrder(bs, c) ==
  /\ \A i \in DOMAIN bs : Ordered(bs[i].text, c)
  /\ \A i, j \in DOMAIN bs : i < j =>
       \A x \in Chunks(bs[i].text), y \in Chunks(bs[j].text) : x.of = c /\ y.of = c => y.number < x.number

Orders ==
  /\ \A k \in DOMAIN calls : InOrder(buf, calls[k].id)
  /\ \A c \in Ids : hist.state[c] = "returned" => Ordered(hist.whole[c], c)

\* What is in u comes after what is in t.
After(t, u, c) == \A x \in Chunks(t), y \in Chunks(u) : x.of = c /\ y.of = c => x.number < y.number

LEMMA OrderedConcat ==
  ASSUME NEW t \in Text, NEW u \in Text, NEW c, Ordered(t, c), Ordered(u, c), After(t, u, c)
  PROVE  Ordered(t \o u, c)
  <1>0. /\ Len(t) \in Nat /\ DOMAIN t = 1 .. Len(t) /\ Len(u) \in Nat /\ DOMAIN u = 1 .. Len(u)
    BY TextFacts
  <1> DEFINE v == t \o u
  <1>1. /\ DOMAIN v = 1 .. Len(t) + Len(u)
        /\ \A i \in 1 .. Len(t) + Len(u) : v[i] = IF i <= Len(t) THEN t[i] ELSE u[i - Len(t)]
    BY ConcatFacts
  <1> HIDE DEF v
  <1>2. ASSUME NEW i \in DOMAIN v, NEW j \in DOMAIN v, i < j, v[i].of = c, v[j].of = c
        PROVE  v[i].number < v[j].number
    <2>1. CASE j <= Len(t)
      <3>1. i \in DOMAIN t /\ j \in DOMAIN t /\ v[i] = t[i] /\ v[j] = t[j]
        BY <1>0, <1>1, <1>2, <2>1
      <3> QED BY <1>2, <3>1 DEF Ordered
    <2>2. CASE ~(j <= Len(t)) /\ i <= Len(t)
      <3>1. i \in DOMAIN t /\ j - Len(t) \in DOMAIN u /\ v[i] = t[i] /\ v[j] = u[j - Len(t)]
        BY <1>0, <1>1, <1>2, <2>2
      <3>2. v[i] \in Chunks(t) /\ v[j] \in Chunks(u)
        BY <3>1 DEF Chunks
      <3> QED BY <1>2, <3>2 DEF After
    <2>3. CASE ~(j <= Len(t)) /\ ~(i <= Len(t))
      <3>1. /\ i - Len(t) \in DOMAIN u /\ j - Len(t) \in DOMAIN u /\ i - Len(t) < j - Len(t)
            /\ v[i] = u[i - Len(t)] /\ v[j] = u[j - Len(t)]
        BY <1>0, <1>1, <1>2, <2>3
      <3> QED BY <1>2, <3>1 DEF Ordered
    <2> QED BY <2>1, <2>2, <2>3
  <1> QED BY <1>2 DEF Ordered, v

LEMMA InOrderWritten ==
  ASSUME NEW s \in Seq(Buffer), NEW t, NEW u \in Text, Written(s, t, u), NEW c, InOrder(s, c), Ordered(u, c),
         \A i \in DOMAIN s : After(s[i].text, u, c)
  PROVE  InOrder(t, c)
  <1>1. /\ DOMAIN t = DOMAIN s /\ 1 \in DOMAIN s /\ Chunks(t[1].text) = Chunks(s[1].text) \cup Chunks(u)
    BY WrittenChunks
  <1>2. \A i \in DOMAIN s : i # 1 => t[i] = s[i]
    BY WrittenChunks
  <1>3. Len(s) \in Nat /\ DOMAIN s = 1 .. Len(s) /\ s[1].text \in Text /\ t[1].text = s[1].text \o u
    <2>1. s[1] \in Buffer
      BY TailFacts DEF Written
    <2> QED BY <2>1, LenProperties DEF Buffer, Written
  <1>4. Ordered(t[1].text, c)
    <2>1. Ordered(s[1].text, c) /\ After(s[1].text, u, c)
      BY <1>1 DEF InOrder
    <2> QED BY <1>3, <2>1, OrderedConcat
  <1>5. ASSUME NEW i \in DOMAIN t PROVE Ordered(t[i].text, c)
    <2>1. CASE i = 1
      BY <1>4, <2>1
    <2>2. CASE i # 1
      <3>1. t[i] = s[i] /\ i \in DOMAIN s
        BY <1>1, <1>2, <2>2
      <3> QED BY <3>1 DEF InOrder
    <2> QED BY <2>1, <2>2
  <1>6. ASSUME NEW i \in DOMAIN t, NEW j \in DOMAIN t, i < j,
               NEW x \in Chunks(t[i].text), NEW y \in Chunks(t[j].text), x.of = c, y.of = c
        PROVE  y.number < x.number
    <2>1. i \in DOMAIN s /\ j \in DOMAIN s /\ j # 1
      BY <1>1, <1>3, <1>6
    <2>2. y \in Chunks(s[j].text)
      BY <1>2, <2>1
    <2>3. CASE x \in Chunks(s[i].text)
      BY <1>6, <2>1, <2>2, <2>3 DEF InOrder
    <2>4. CASE x \in Chunks(u)
      <3>1. After(s[j].text, u, c)
        BY <2>1
      <3> QED BY <1>6, <2>2, <2>4, <3>1 DEF After
    <2>5. x \in Chunks(s[i].text) \/ x \in Chunks(u)
      <3>1. CASE i = 1
        BY <1>1, <3>1
      <3>2. CASE i # 1
        BY <1>2, <2>1, <3>2
      <3> QED BY <3>1, <3>2
    <2> QED BY <2>3, <2>4, <2>5
  <1> QED BY <1>5, <1>6 DEF InOrder

LEMMA InOrderRaised ==
  ASSUME NEW s \in Seq(Buffer), NEW f \in Buffer, f.text = <<>>, NEW t, t = <<f>> \o s, NEW c, InOrder(s, c)
  PROVE  InOrder(t, c)
  <1>1. /\ Len(s) \in Nat /\ t[1] = f /\ DOMAIN s = 1 .. Len(s) /\ DOMAIN t = 1 .. Len(s) + 1
    BY PushFacts
  <1>2. \A i \in 1 .. Len(s) : t[i + 1] = s[i]
    BY PushFacts
  <1>3. Chunks(t[1].text) = {} /\ DOMAIN t[1].text = {}
    BY <1>1, EmptyShape
  <1>4. ASSUME NEW i \in DOMAIN t, i # 1 PROVE i - 1 \in DOMAIN s /\ t[i] = s[i - 1]
    <2> DEFINE j == i - 1
    <2>1. j \in 1 .. Len(s) /\ j + 1 = i
      BY <1>1, <1>4
    <2> HIDE DEF j
    <2>2. t[i] = s[j]
      BY <1>2, <2>1
    <2> QED BY <1>1, <2>1, <2>2 DEF j
  <1>5. ASSUME NEW i \in DOMAIN t PROVE Ordered(t[i].text, c)
    <2>1. CASE i = 1
      BY <1>3, <2>1 DEF Ordered
    <2>2. CASE i # 1
      BY <1>4, <2>2 DEF InOrder
    <2> QED BY <2>1, <2>2
  <1>6. ASSUME NEW i \in DOMAIN t, NEW j \in DOMAIN t, i < j,
               NEW x \in Chunks(t[i].text), NEW y \in Chunks(t[j].text), x.of = c, y.of = c
        PROVE  y.number < x.number
    <2>1. i # 1 /\ j # 1
      BY <1>3, <1>6
    <2>2. /\ i - 1 \in DOMAIN s /\ j - 1 \in DOMAIN s /\ i - 1 < j - 1
      BY <1>1, <1>4, <1>6, <2>1
    <2>3. x \in Chunks(s[i - 1].text) /\ y \in Chunks(s[j - 1].text)
      BY <1>4, <2>1
    <2> QED BY <1>6, <2>2, <2>3 DEF InOrder
  <1> QED BY <1>5, <1>6 DEF InOrder

LEMMA InOrderLowered ==
  ASSUME NEW s \in Seq(Buffer), s # <<>>, NEW t, t = Tail(s), NEW c, InOrder(s, c)
  PROVE  InOrder(t, c)
  <1>1. /\ Len(s) \in Nat /\ DOMAIN s = 1 .. Len(s) /\ DOMAIN t = 1 .. Len(s) - 1
    BY TailFacts
  <1>2. \A i \in 1 .. Len(s) - 1 : t[i] = s[i + 1]
    BY TailFacts
  <1>3. \A i \in DOMAIN t : i + 1 \in DOMAIN s /\ t[i] = s[i + 1]
    BY <1>1, <1>2
  <1>4. \A i, j \in DOMAIN t : i < j => i + 1 < j + 1
    BY <1>1
  <1>5. \A i \in DOMAIN t : Ordered(t[i].text, c)
    BY <1>3 DEF InOrder
  <1>6. ASSUME NEW i \in DOMAIN t, NEW j \in DOMAIN t, i < j,
               NEW x \in Chunks(t[i].text), NEW y \in Chunks(t[j].text), x.of = c, y.of = c
        PROVE  y.number < x.number
    <2>1. i + 1 \in DOMAIN s /\ j + 1 \in DOMAIN s /\ i + 1 < j + 1
      BY <1>3, <1>4, <1>6
    <2>2. x \in Chunks(s[i + 1].text) /\ y \in Chunks(s[j + 1].text)
      BY <1>3
    <2> QED BY <1>6, <2>1, <2>2 DEF InOrder
  <1> QED BY <1>5, <1>6 DEF InOrder

\* The active buffer goes to the one below, which has the earlier part.
LEMMA InOrderFlushed ==
  ASSUME out \in Text, buf \in Seq(Buffer), buf # <<>>, Flush, NEW c, InOrder(buf, c)
  PROVE  InOrder(buf', c)
  <1> DEFINE s == Tail(buf)
             u == buf[1].text
  <1>1. u \in Text /\ (buf' = s \/ Written(s, buf', u))
    BY FlushShape
  <1>2. s \in Seq(Buffer) /\ InOrder(s, c)
    BY TailFacts, InOrderLowered
  <1>3. /\ Len(buf) \in Nat /\ DOMAIN buf = 1 .. Len(buf) /\ DOMAIN s = 1 .. Len(buf) - 1 /\ Len(buf) >= 1
    BY TailFacts
  <1>4. \A i \in 1 .. Len(buf) - 1 : s[i] = buf[i + 1]
    BY TailFacts
  <1>5. 1 \in DOMAIN buf /\ Ordered(u, c)
    BY <1>3 DEF InOrder
  <1>6. ASSUME NEW i \in DOMAIN s PROVE After(s[i].text, u, c)
    <2>1. i + 1 \in DOMAIN buf /\ 1 < i + 1 /\ s[i] = buf[i + 1]
      BY <1>3, <1>4
    <2>2. \A x \in Chunks(buf[1].text), y \in Chunks(buf[i + 1].text) : x.of = c /\ y.of = c => y.number < x.number
      BY <1>5, <2>1 DEF InOrder
    <2> QED BY <2>1, <2>2 DEF After
  <1> HIDE DEF s, u
  <1>7. Written(s, buf', u) => InOrder(buf', c)
    BY <1>1, <1>2, <1>5, <1>6, InOrderWritten
  <1> QED BY <1>1, <1>2, <1>7

\* A step keeps what has been written for a page that is not finished in order.
LEMMA OrderKept ==
  ASSUME RegionInv, TwiceInv, [Next]_vars, hist.tidy, NEW c \in Ids, hist.state[c] # "returned",
         InOrder(buf, c)
  PROVE  InOrder(buf', c)
  <1>0. /\ TypeOK /\ CallsInv /\ Wholes(hist) /\ out \in Text /\ buf \in Seq(Buffer) /\ hist \in History
        /\ Finished /\ body \in Seq(BodyPart)
    BY DEF RegionInv, Regions, LayoutInv, TypeOK, Buffer, BodyPart
  <1>1. CASE buf' = buf
    BY <1>1
  <1>2. ASSUME buf # <<>>, buf' = Tail(buf) PROVE InOrder(buf', c)
    BY <1>0, <1>2, InOrderLowered
  <1>3. ASSUME NEW u \in Text, Write(u), Ordered(u, c), \A i \in DOMAIN buf : After(buf[i].text, u, c)
        PROVE  InOrder(buf', c)
    <2>1. buf' = buf \/ Written(buf, buf', u)
      BY <1>0, <1>3, WriteShape
    <2> QED BY <1>0, <1>1, <1>3, <2>1, InOrderWritten
  <1>4. ASSUME NEW f \in Buffer, f.text = <<>>, buf' = <<f>> \o buf PROVE InOrder(buf', c)
    BY <1>0, <1>4, InOrderRaised
  <1>5. CASE Echo
    <2> DEFINE u == <<Chunklet>>
    <2>1. /\ Write(u) /\ u \in Text /\ Chunks(u) = {Chunklet} /\ Chunklet.number = hist.writes + 1
          /\ hist.writes \in Nat
      BY <1>0, <1>5, EchoFacts, SingleChunk, HistFacts
    <2>2. Ordered(u, c)
      BY DEF Ordered
    <2> HIDE DEF u
    <2>3. ASSUME NEW i \in DOMAIN buf PROVE After(buf[i].text, u, c)
      <3>1. Chunks(buf[i].text) \subseteq Past
        <4>1. Chunks(buf[i].text) \subseteq All(buf)
          BY AllMember
        <4> QED BY <4>1 DEF TwiceInv, Places, PlacesApart, Sent
      <3>2. \A x \in Chunks(buf[i].text) : x.number \in Nat /\ x.number <= hist.writes
        BY <3>1, PageAssumption DEF Past, Chunk
      <3>3. \A x \in Chunks(buf[i].text) : x.number < hist.writes + 1
        BY <2>1, <3>2
      <3> QED BY <2>1, <3>3 DEF After
    <2> QED BY <1>3, <2>1, <2>2, <2>3
  <1>6. CASE EchoPage
    <2>1. PICK p \in pages : p \in Ids /\ hist.whole[p] \in Text /\ Write(hist.whole[p])
      BY <1>0, <1>6, EchoPageFacts
    <2> DEFINE u == hist.whole[p]
    <2>2. \A x \in Chunks(u) : x.of # c
      <3>1. hist.state[p] = "returned" /\ \A q \in hist.used[p] : hist.state[q] = "returned"
        BY <1>0, <2>1 DEF CallsInv, Finished
      <3>2. \A x \in Chunks(u) : x.of \in {p} \cup hist.used[p]
        BY <1>0, <2>1, <3>1 DEF Wholes, InPage
      <3> QED BY <3>1, <3>2
    <2>3. u \in Text /\ Write(u)
      BY <2>1
    <2> HIDE DEF u
    <2>4. Ordered(u, c)
      BY <2>2 DEF Ordered, Chunks
    <2>5. \A i \in DOMAIN buf : After(buf[i].text, u, c)
      BY <2>2 DEF After
    <2> QED BY <1>3, <2>3, <2>4, <2>5
  <1>7. CASE ObStart
    <2> DEFINE f == [yaf |-> FALSE, text |-> <<>>]
    <2>1. f \in Buffer /\ f.text = <<>> /\ buf' = <<f>> \o buf
      BY <1>7 DEF ObStart, Buffer, Text
    <2> HIDE DEF f
    <2> QED BY <1>4, <2>1
  <1>8. ASSUME NEW buffered \in BOOLEAN, Begin(buffered) PROVE InOrder(buf', c)
    <2> DEFINE f == [yaf |-> TRUE, text |-> <<>>]
    <2>1. f \in Buffer /\ f.text = <<>> /\ (buf' = <<f>> \o buf \/ buf' = buf)
      BY <1>8 DEF Begin, Buffer, Text
    <2> HIDE DEF f
    <2> QED BY <1>1, <1>4, <2>1
  <1>9. ASSUME NEW flush \in BOOLEAN, ObEnd(flush) PROVE InOrder(buf', c)
    <2>1. buf # <<>> /\ (Flush \/ buf' = Tail(buf))
      BY <1>9 DEF ObEnd
    <2> QED BY <1>0, <1>2, <2>1, InOrderFlushed
  <1>10. CASE RenderEnds \/ DisplayEnds \/ TemplateThrew
    <2>1. buf' = buf \/ (buf # <<>> /\ buf' = Tail(buf))
      BY <1>10 DEF RenderEnds, DisplayEnds, TemplateThrew, GetAndDiscard, DiscardBuffer
    <2> QED BY <1>1, <1>2, <2>1
  <1>11. CASE \/ Throw \/ Catch \/ NotRendered \/ (\E name \in Parts, how \in Hows : PutPage(name, how))
              \/ (\E name \in Parts : ClearPart(name)) \/ ClearBody
              \/ (\E h \in Headers : SetHeader(h)) \/ ClearHeaders \/ UNCHANGED vars
    BY <1>1, <1>11 DEF Throw, Catch, NotRendered, PutPage, ClearPart, ClearBody, SetHeader, ClearHeaders, vars
  <1>12. CASE Sends
    <2>1. buf' = buf \/ Write(Joined)
      BY <1>0, <1>12, SendsFacts
    <2> DEFINE u == Joined
    <2>2. u \in Text /\ Chunks(u) \subseteq All(body)
      BY <1>0, JoinedType
    <2>3. \A x \in Chunks(u) : x.of # c
      <3>1. \A x \in All(body) : x.of # 0 /\ Loose(hist.state, x)
        BY <1>0 DEF RegionInv, Regions, Finished
      <3> QED BY <2>2, <3>1 DEF Loose
    <2>4. buf' = buf \/ Write(u)
      BY <2>1
    <2> HIDE DEF u
    <2>5. Ordered(u, c)
      BY <2>3 DEF Ordered, Chunks
    <2>6. \A i \in DOMAIN buf : After(buf[i].text, u, c)
      BY <2>3 DEF After
    <2> QED BY <1>1, <1>3, <2>2, <2>4, <2>5, <2>6
  <1> QED BY <1>5, <1>6, <1>7, <1>8, <1>9, <1>10, <1>11, <1>12 DEF Next, Hows, Sends

\* Nothing has been written for a call that is still to come.
LEMMA InOrderFresh ==
  ASSUME RegionInv, hist.tidy, hist.next <= MaxCalls
  PROVE  hist.next \in Ids /\ hist.state[hist.next] # "returned" /\ InOrder(buf, hist.next)
  <1>1. TypeOK /\ CallsInv /\ hist \in History
    BY DEF RegionInv, LayoutInv, TypeOK
  <1>2. hist.next \in Ids /\ hist.state[hist.next] = "unborn"
    <2>1. hist.next \in Ids /\ hist.next \in Nat
      BY <1>1, HistFacts, PageAssumption DEF Ids
    <2> QED BY <1>1, <2>1 DEF CallsInv
  <1>3. hist.next # 0
    BY <1>1, HistFacts
  <1>4. ASSUME NEW i \in DOMAIN buf, NEW x \in Chunks(buf[i].text) PROVE x.of # hist.next
    <2>1. x \in Everywhere
      BY <1>4 DEF Everywhere
    <2>2. x.of # 0 => hist.state[x.of] \in {"running", "returned"}
      BY <2>1, WhoseChunk
    <2> QED BY <1>2, <1>3, <2>2
  <1>5. InOrder(buf, hist.next)
    BY <1>4 DEF InOrder, Ordered, Chunks
  <1> QED BY <1>2, <1>5

LEMMA OrdersStep ==
  ASSUME RegionInv, TwiceInv, [Next]_vars, hist.tidy, hist'.tidy, Orders
  PROVE  Orders'
  <1>0. /\ TypeOK /\ CallsInv /\ Layout /\ calls \in Seq(Call) /\ hist \in History
    BY DEF RegionInv, LayoutInv, TypeOK
  <1>1. /\ \A k \in DOMAIN calls : InOrder(buf, calls[k].id)
        /\ \A c \in Ids : hist.state[c] = "returned" => Ordered(hist.whole[c], c)
    BY DEF Orders
  <1>2. \A k \in DOMAIN calls : calls[k].id \in Ids /\ hist.state[calls[k].id] # "returned"
    BY <1>0, CallFacts DEF CallsInv
  <1>3. \A c \in Ids : hist'.state[c] = "returned" => Ordered(hist'.whole[c], c)
    <2>1. CASE ~RenderEnds /\ ~DisplayEnds /\ ~TemplateThrew
      BY <1>0, <1>1, <2>1, WholesSame
    <2>2. CASE RenderEnds \/ DisplayEnds \/ TemplateThrew
      <3> DEFINE e == calls[1].id
      <3>1. /\ e \in Ids /\ 1 \in DOMAIN calls
            /\ hist'.state[e] = "returned" =>
                 \/ hist'.whole[e] = buf[1].text /\ 1 \in DOMAIN buf
                 \/ hist'.whole[e] = <<>>
        BY <1>0, <2>2, EndedWhole
      <3>2. \A c \in Ids : c # e => hist'.whole[c] = hist.whole[c] /\ hist'.state[c] = hist.state[c]
        BY <1>0, <2>2, EndedWhole
      <3>3. InOrder(buf, e)
        BY <1>1, <3>1
      <3> HIDE DEF e
      <3>4. hist'.state[e] = "returned" => Ordered(hist'.whole[e], e)
        <4>1. Ordered(<<>>, e)
          BY DEF Ordered
        <4>2. 1 \in DOMAIN buf => Ordered(buf[1].text, e)
          BY <3>3 DEF InOrder
        <4> QED BY <3>1, <4>1, <4>2
      <3> QED BY <1>1, <3>2, <3>4
    <2> QED BY <2>1, <2>2
  <1>4. ASSUME NEW i \in DOMAIN calls' PROVE InOrder(buf', calls'[i].id)
    <2>1. CASE ~Begin(TRUE) /\ ~Begin(FALSE)
      <3>1. PICK k \in DOMAIN calls : calls'[i].id = calls[k].id
        BY <1>0, <2>1, CallsAmong DEF Among
      <3>2. InOrder(buf', calls[k].id)
        <4> DEFINE c == calls[k].id
        <4>1. c \in Ids /\ hist.state[c] # "returned" /\ InOrder(buf, c)
          BY <1>1, <1>2
        <4> HIDE DEF c
        <4>2. InOrder(buf', c)
          BY <2>1, <4>1, OrderKept
        <4> QED BY <4>2 DEF c
      <3> QED BY <3>1, <3>2
    <2>2. ASSUME NEW buffered \in BOOLEAN, Begin(buffered) PROVE InOrder(buf', calls'[i].id)
      <3> DEFINE b == [id |-> hist.next, buffered |-> buffered, own |-> 0, base |-> Len(buf)]
                 c == calls'[i].id
      <3>1. calls' = <<b>> \o calls /\ b.id = hist.next /\ hist.next <= MaxCalls
        BY <2>2 DEF Begin
      <3>2. hist.next \in Ids /\ hist.state[hist.next] # "returned" /\ InOrder(buf, hist.next)
        BY <3>1, InOrderFresh
      <3>3. b \in Call
        <4>1. Len(buf) \in Nat
          BY <1>0, LenProperties DEF TypeOK
        <4> QED BY <3>2, <4>1 DEF Call
      <3> HIDE DEF b
      <3>4. /\ Len(calls) \in Nat /\ calls'[1] = b /\ DOMAIN calls = 1 .. Len(calls)
            /\ DOMAIN calls' = 1 .. Len(calls) + 1
        BY <1>0, <3>1, <3>3, PushFacts
      <3>5. \A j \in 1 .. Len(calls) : calls'[j + 1] = calls[j]
        BY <1>0, <3>1, <3>3, PushFacts
      <3>6. c = hist.next \/ \E k \in DOMAIN calls : c = calls[k].id
        <4>1. CASE i = 1
          BY <3>1, <3>4, <4>1
        <4>2. CASE i # 1
          <5>1. i - 1 \in 1 .. Len(calls) /\ (i - 1) + 1 = i
            BY <3>4, <4>2
          <5> QED BY <3>4, <3>5, <5>1
        <4> QED BY <4>1, <4>2
      <3> HIDE DEF c
      <3>7. c \in Ids /\ hist.state[c] # "returned" /\ InOrder(buf, c)
        BY <1>1, <1>2, <3>2, <3>6
      <3>8. InOrder(buf', c)
        BY <3>7, OrderKept
      <3> QED BY <3>8 DEF c
    <2> QED BY <2>1, <2>2
  <1> QED BY <1>3, <1>4 DEF Orders

-----------------------------------------------------------------------------
(* A page is its template's *)

PageInv == RegionInv /\ TwiceInv /\ (hist.tidy => Directs /\ Orders)

\* A page that render() returned has nothing but what its template wrote and the
\* pages it was given, all of what the template wrote straight into it, and that
\* in order, whatever the templates around it and inside it did: returned, threw
\* or opened buffers of their own.  The templates close the buffers that they
\* open, and no others (hist.tidy).
THEOREM PagesAreTheirs == Spec => []PageIsItsTemplate
  <1>1. Init => PageInv
    <2> SUFFICES ASSUME Init PROVE PageInv
      OBVIOUS
    <2>1. RegionInv /\ TwiceInv
      BY RegionsInit, TwiceInit
    <2>2. calls = <<>> /\ hist.state = [c \in Ids |-> "unborn"]
      BY DEF Init
    <2>3. DOMAIN calls = {} /\ \A c \in Ids : hist.state[c] # "returned"
      BY <2>2
    <2>4. Directs /\ Orders
      BY <2>3 DEF Directs, Directed, Orders
    <2> QED BY <2>1, <2>4 DEF PageInv
  <1>2. PageInv /\ [Next]_vars => PageInv'
    <2> SUFFICES ASSUME PageInv, [Next]_vars PROVE PageInv'
      OBVIOUS
    <2>1. RegionInv /\ TwiceInv /\ TypeOK
      BY DEF PageInv, TwiceInv
    <2>2. RegionInv' /\ TwiceInv'
      BY <2>1, RegionsStep, TwiceStep
    <2>3. ASSUME hist'.tidy PROVE Directs' /\ Orders'
      <3>1. hist.tidy
        BY <2>1, <2>3, TidyBefore
      <3>2. Directs /\ Orders
        BY <3>1 DEF PageInv
      <3> QED BY <2>1, <2>2, <2>3, <3>1, <3>2, DirectsStep, OrdersStep
    <2> QED BY <2>2, <2>3 DEF PageInv
  <1>3. PageInv => PageIsItsTemplate
    <2> SUFFICES ASSUME PageInv, hist.tidy, NEW c \in Ids, hist.state[c] = "returned"
                 PROVE  /\ \A x \in Chunks(hist.whole[c]) : x.of \in {c} \cup hist.used[c]
                        /\ hist.direct[c] \subseteq {x.number : x \in Chunks(hist.whole[c])}
                        /\ \A i, j \in DOMAIN hist.whole[c] :
                             i < j /\ hist.whole[c][i].of = c /\ hist.whole[c][j].of = c
                             => hist.whole[c][i].number < hist.whole[c][j].number
      BY DEF PageIsItsTemplate
    <2>1. Wholes(hist) /\ Directs /\ Orders
      BY DEF PageInv, RegionInv, Regions
    <2>2. \A x \in Chunks(hist.whole[c]) : x.of \in {c} \cup hist.used[c]
      BY <2>1 DEF Wholes, InPage
    <2>3. hist.direct[c] \subseteq {x.number : x \in Chunks(hist.whole[c])}
      BY <2>1 DEF Directs, Numbers
    <2>4. Ordered(hist.whole[c], c)
      BY <2>1 DEF Orders
    <2> QED BY <2>2, <2>3, <2>4 DEF Ordered
  <1> QED BY <1>1, <1>2, <1>3, PTL DEF Spec
=============================================================================
