-------------------------- MODULE YafConfigProofs --------------------------
(***************************************************************************)
(* Theorems about the configuration: the types, what a line of the file    *)
(* means, and what the objects made from it share, for every set of        *)
(* headers, keys and bounds.                                               *)
(***************************************************************************)
EXTENDS YafConfig, SequenceTheorems, FiniteSetTheorems, WellFoundedInduction, TLAPS

----------------------------------------------------------------------------
(* Heaps: arrays, references and the writes to them *)

Value(n) == {Scalar(m) : m \in Nat} \cup {Arr(i) : i \in 1 .. n}

\* a can be array i of a heap of n arrays: it refers neither to itself nor to
\* the array of the whole file.
IsArray(a, n, i) ==
  /\ IsFiniteSet(DOMAIN a)
  /\ \A k \in DOMAIN a : a[k] \in Value(n) /\ a[k] # Arr(i) /\ a[k] # Arr(1)

IsSeq(s) == s \in Seq(ToSet(s))

IsHeapIn(h, n) == IsSeq(h) /\ Len(h) >= 1 /\ \A i \in DOMAIN h : IsArray(h[i], n, i)

IsHeap(h) == IsHeapIn(h, Len(h))

\* A value is a scalar or a reference.
LEMMA Values ==
  ASSUME NEW n
  PROVE  /\ \A m \in Nat : Scalar(m) \in Value(n) /\ ~IsArr(Scalar(m)) /\ \A i : Scalar(m) # Arr(i)
         /\ \A i \in 1 .. n : Arr(i) \in Value(n)
         /\ \A i : IsArr(Arr(i)) /\ Arr(i).id = i
         /\ \A i, j : Arr(i) = Arr(j) => i = j
         /\ \A v \in Value(n) : IsArr(v) => v = Arr(v.id) /\ v.id \in 1 .. n
         /\ \A v \in Value(n) : ~IsArr(v) => v.val \in Nat /\ v = Scalar(v.val)
<1>1. \A m \in Nat : Scalar(m) \in Value(n) /\ ~IsArr(Scalar(m)) /\ \A i : Scalar(m) # Arr(i)
  BY DEF Value, Scalar, Arr, IsArr
<1>2. \A i \in 1 .. n : Arr(i) \in Value(n)
  BY DEF Value
<1>3. \A i : IsArr(Arr(i)) /\ Arr(i).id = i
  BY DEF Arr, IsArr
<1>4. \A i, j : Arr(i) = Arr(j) => i = j
  BY <1>3
<1>5. \A m : Scalar(m).val = m
  BY DEF Scalar
<1>6. \A v \in Value(n) : (\E m \in Nat : v = Scalar(m)) \/ (\E i \in 1 .. n : v = Arr(i))
  BY DEF Value
<1>7. \A v \in Value(n) : IsArr(v) => v = Arr(v.id) /\ v.id \in 1 .. n
  BY <1>1, <1>3, <1>6
<1>8. \A v \in Value(n) : ~IsArr(v) => v.val \in Nat /\ v = Scalar(v.val)
  BY <1>3, <1>5, <1>6
<1> QED
  BY <1>1, <1>2, <1>3, <1>4, <1>7, <1>8

\* What Over returns.
LEMMA OverIs ==
  ASSUME NEW f, NEW g
  PROVE  /\ DOMAIN Over(f, g) = DOMAIN f \cup DOMAIN g
         /\ \A k \in DOMAIN f : Over(f, g)[k] = f[k]
         /\ \A k \in DOMAIN g \ DOMAIN f : Over(f, g)[k] = g[k]
BY DEF Over

\* What Single returns.
LEMMA SingleIs ==
  ASSUME NEW k, NEW v
  PROVE  DOMAIN Single(k, v) = {k} /\ Single(k, v)[k] = v
BY DEF Single

\* A heap that grows may refer to more arrays.
LEMMA ArrayGrows ==
  ASSUME NEW a, NEW n \in Nat, NEW m \in Nat, n <= m, NEW i, IsArray(a, n, i)
  PROVE  IsArray(a, m, i)
<1>1. Value(n) \subseteq Value(m)
  BY DEF Value
<1> QED
  BY <1>1 DEF IsArray

\* Two arrays that can be array i make one that can.
LEMMA OverArray ==
  ASSUME NEW a, NEW b, NEW n, NEW i, IsArray(a, n, i), IsArray(b, n, i)
  PROVE  IsArray(Over(a, b), n, i)
<1> DEFINE c == Over(a, b)
<1>1. DOMAIN c = DOMAIN a \cup DOMAIN b
      /\ (\A k \in DOMAIN a : c[k] = a[k]) /\ \A k \in DOMAIN b \ DOMAIN a : c[k] = b[k]
  BY OverIs, Zenon
<1>2. IsFiniteSet(DOMAIN a) /\ IsFiniteSet(DOMAIN b)
  BY DEF IsArray
<1>3. IsFiniteSet(DOMAIN c)
  BY <1>1, <1>2, FS_Union
<1> HIDE DEF c
<1>4. \A k \in DOMAIN c : c[k] \in Value(n) /\ c[k] # Arr(i) /\ c[k] # Arr(1)
  BY <1>1 DEF IsArray
<1>5. IsArray(c, n, i)
  BY <1>3, <1>4 DEF IsArray
<1> QED
  BY <1>5 DEF c

\* An array of one entry.
LEMMA SingleArray ==
  ASSUME NEW k, NEW v, NEW n, NEW i, v \in Value(n), v # Arr(i), v # Arr(1)
  PROVE  IsArray(Single(k, v), n, i)
<1> DEFINE c == Single(k, v)
<1>1. DOMAIN c = {k} /\ c[k] = v
  BY SingleIs, Zenon
<1>2. IsFiniteSet(DOMAIN c)
  BY <1>1, FS_Singleton
<1> HIDE DEF c
<1>3. IsArray(c, n, i)
  BY <1>1, <1>2 DEF IsArray
<1> QED
  BY <1>3 DEF c

\* The domain of a sequence.
LEMMA SeqIs ==
  ASSUME NEW s, IsSeq(s)
  PROVE  Len(s) \in Nat /\ DOMAIN s = 1 .. Len(s)
BY DEF IsSeq

\* Appending keeps what was there.
LEMMA SeqAppend ==
  ASSUME NEW s, IsSeq(s), NEW a
  PROVE  /\ IsSeq(Append(s, a)) /\ Len(Append(s, a)) = Len(s) + 1
         /\ \A i \in DOMAIN s : Append(s, a)[i] = s[i]
         /\ Append(s, a)[Len(s) + 1] = a
<1> DEFINE t == Append(s, a)
<1>1. s \in Seq(ToSet(s) \cup {a})
  BY SeqIs DEF IsSeq
<1>2. t \in Seq(ToSet(s) \cup {a}) /\ Len(t) = Len(s) + 1 /\ DOMAIN t = 1 .. Len(s) + 1
  BY <1>1
<1>3. \A i \in DOMAIN s : t[i] = s[i]
  BY <1>1, SeqIs
<1>4. t[Len(s) + 1] = a
  BY <1>1, SeqIs
<1>5. t \in Seq(ToSet(t))
  <2>1. \A i \in DOMAIN t : t[i] \in ToSet(t)
    BY DEF ToSet
  <2> HIDE DEF t
  <2> QED
    BY <1>2, <2>1, ElementOfSeq, SeqDef
<1> QED
  BY <1>2, <1>3, <1>4, <1>5 DEF IsSeq

\* Replacing one entry keeps the others.
LEMMA SeqExcept ==
  ASSUME NEW s, IsSeq(s), NEW i \in DOMAIN s, NEW a
  PROVE  /\ IsSeq([s EXCEPT ![i] = a]) /\ Len([s EXCEPT ![i] = a]) = Len(s)
         /\ [s EXCEPT ![i] = a][i] = a
         /\ \A j \in DOMAIN s : j # i => [s EXCEPT ![i] = a][j] = s[j]
<1> DEFINE t == [s EXCEPT ![i] = a]
<1>1. s \in Seq(ToSet(s) \cup {a})
  BY SeqIs DEF IsSeq
<1>2. t \in Seq(ToSet(s) \cup {a}) /\ Len(t) = Len(s) /\ DOMAIN t = DOMAIN s
  BY <1>1
<1>3. t[i] = a /\ \A j \in DOMAIN s : j # i => t[j] = s[j]
  OBVIOUS
<1>5. t \in Seq(ToSet(t))
  <2>1. \A j \in DOMAIN t : t[j] \in ToSet(t)
    BY DEF ToSet
  <2> HIDE DEF t
  <2> QED
    BY <1>2, <2>1, ElementOfSeq, SeqDef
<1> QED
  BY <1>2, <1>3, <1>5 DEF IsSeq

\* u is s followed by t.
Joined(s, t, u) ==
  /\ IsSeq(u) /\ Len(u) = Len(s) + Len(t)
  /\ \A i \in DOMAIN s : u[i] = s[i]
  /\ \A i \in DOMAIN t : u[Len(s) + i] = t[i]

\* Joining keeps both.
LEMMA SeqConcat ==
  ASSUME NEW s, IsSeq(s), NEW t, IsSeq(t)
  PROVE  Joined(s, t, s \o t)
<1> DEFINE u == s \o t
<1>1. s \in Seq(ToSet(s) \cup ToSet(t)) /\ t \in Seq(ToSet(s) \cup ToSet(t))
  BY SeqIs DEF IsSeq
<1>2. u \in Seq(ToSet(s) \cup ToSet(t)) /\ Len(u) = Len(s) + Len(t)
  BY <1>1, ConcatProperties
<1>3. \A i \in DOMAIN s : u[i] = s[i]
  BY <1>1, SeqIs
<1>4. \A i \in DOMAIN t : u[Len(s) + i] = t[i]
  BY <1>1, SeqIs
<1>5. u \in Seq(ToSet(u))
  <2>1. \A j \in DOMAIN u : u[j] \in ToSet(u)
    BY DEF ToSet
  <2> HIDE DEF u
  <2> QED
    BY <1>2, <2>1, ElementOfSeq, SeqDef
<1> HIDE DEF u
<1>6. Joined(s, t, u)
  BY <1>2, <1>3, <1>4, <1>5 DEF IsSeq, Joined
<1> QED
  BY <1>6 DEF u

\* zend_hash_update changes one slot of one array.
LEMMA WriteIs ==
  ASSUME NEW h, IsSeq(h), NEW i \in DOMAIN h, NEW k, NEW v
  PROVE  LET w == Write(h, i, k, v) IN
           /\ IsSeq(w) /\ Len(w) = Len(h) /\ DOMAIN w = DOMAIN h
           /\ w[i] = Over(Single(k, v), h[i])
           /\ DOMAIN w[i] = DOMAIN h[i] \cup {k} /\ w[i][k] = v
           /\ \A x \in DOMAIN h[i] : x # k => w[i][x] = h[i][x]
           /\ \A j \in DOMAIN h : j # i => w[j] = h[j]
<1> DEFINE w == Write(h, i, k, v)
           a == Over(Single(k, v), h[i])
<1>1. w = [h EXCEPT ![i] = a]
  BY DEF Write
<1>2. IsSeq(w) /\ Len(w) = Len(h) /\ w[i] = a /\ \A j \in DOMAIN h : j # i => w[j] = h[j]
  <2>1. \A b : LET t == [h EXCEPT ![i] = b] IN
          IsSeq(t) /\ Len(t) = Len(h) /\ t[i] = b /\ \A j \in DOMAIN h : j # i => t[j] = h[j]
    BY SeqExcept
  <2> HIDE DEF w, a
  <2> QED
    BY <1>1, <2>1
<1>3. DOMAIN w = DOMAIN h
  BY <1>2, SeqIs
<1>4. DOMAIN a = DOMAIN h[i] \cup {k} /\ a[k] = v /\ \A x \in DOMAIN h[i] : x # k => a[x] = h[i][x]
  <2>1. DOMAIN Single(k, v) = {k} /\ Single(k, v)[k] = v
    BY SingleIs, Zenon
  <2>2. DOMAIN a = DOMAIN Single(k, v) \cup DOMAIN h[i]
        /\ (\A x \in DOMAIN Single(k, v) : a[x] = Single(k, v)[x])
        /\ \A x \in DOMAIN h[i] \ DOMAIN Single(k, v) : a[x] = h[i][x]
    BY OverIs, Zenon
  <2> HIDE DEF a
  <2> QED
    BY <2>1, <2>2
<1> QED
  BY <1>2, <1>3, <1>4

\* A write keeps a heap a heap.
LEMMA WriteHeap ==
  ASSUME NEW h, NEW n, IsHeapIn(h, n), NEW i \in DOMAIN h, NEW k, NEW v,
         v \in Value(n), v # Arr(i), v # Arr(1)
  PROVE  IsHeapIn(Write(h, i, k, v), n)
<1> DEFINE w == Write(h, i, k, v)
<1>1. IsSeq(w) /\ Len(w) = Len(h) /\ DOMAIN w = DOMAIN h /\ w[i] = Over(Single(k, v), h[i])
      /\ \A j \in DOMAIN h : j # i => w[j] = h[j]
  BY WriteIs DEF IsHeapIn
<1>2. IsArray(w[i], n, i)
  BY <1>1, SingleArray, OverArray DEF IsHeapIn
<1> QED
  BY <1>1, <1>2 DEF IsHeapIn

\* A heap is one for any larger number of arrays.
LEMMA HeapGrows ==
  ASSUME NEW h, NEW n \in Nat, NEW m \in Nat, n <= m, IsHeapIn(h, n)
  PROVE  IsHeapIn(h, m)
BY ArrayGrows DEF IsHeapIn

\* So does a new array.
LEMMA AppendHeap ==
  ASSUME NEW h, NEW n, IsHeapIn(h, n), NEW a, IsArray(a, n, Len(h) + 1)
  PROVE  IsHeapIn(Append(h, a), n)
<1>1. IsSeq(Append(h, a)) /\ Len(Append(h, a)) = Len(h) + 1
      /\ \A i \in DOMAIN h : Append(h, a)[i] = h[i]
      /\ Append(h, a)[Len(h) + 1] = a
  BY SeqAppend DEF IsHeapIn
<1>2. DOMAIN h = 1 .. Len(h) /\ DOMAIN Append(h, a) = 1 .. Len(h) + 1 /\ Len(h) \in Nat
  BY <1>1, SeqIs DEF IsHeapIn
<1> QED
  BY <1>1, <1>2 DEF IsHeapIn

\* A copy of an array of the heap, under a new number.
LEMMA CopyArray ==
  ASSUME NEW h, IsHeap(h), NEW i \in DOMAIN h, NEW j, j \notin DOMAIN h, NEW m \in Nat, m >= Len(h)
  PROVE  IsArray(h[i], m, j)
<1>1. IsArray(h[i], Len(h), i) /\ Len(h) \in Nat /\ DOMAIN h = 1 .. Len(h)
  BY SeqIs DEF IsHeap, IsHeapIn
<1>2. IsArray(h[i], m, i)
  BY <1>1, ArrayGrows
<1>3. \A k \in DOMAIN h[i] : h[i][k] # Arr(j)
  BY <1>1, Values DEF IsArray
<1> QED
  BY <1>2, <1>3 DEF IsArray

\* array_init and its insertion.
LEMMA FreshIs ==
  ASSUME NEW h, IsHeap(h), NEW i \in DOMAIN h, NEW k, NEW a, IsArray(a, Len(h) + 1, Len(h) + 1)
  PROVE  LET w == Fresh(h, i, k, a) IN
           /\ IsHeap(w) /\ Len(w) = Len(h) + 1
           /\ DOMAIN w[i] = DOMAIN h[i] \cup {k} /\ w[i][k] = Arr(Len(h) + 1)
           /\ \A x \in DOMAIN h[i] : x # k => w[i][x] = h[i][x]
           /\ \A j \in DOMAIN h : j # i => w[j] = h[j]
           /\ w[Len(h) + 1] = a
<1> DEFINE n == Len(h) + 1
           u == Write(h, i, k, Arr(n))
           w == Fresh(h, i, k, a)
<1>1. Len(h) \in Nat /\ DOMAIN h = 1 .. Len(h) /\ Len(h) >= 1
  BY SeqIs DEF IsHeap, IsHeapIn
<1>2. IsHeapIn(h, n)
  BY <1>1, HeapGrows DEF IsHeap
<1>3. Arr(n) \in Value(n) /\ Arr(n) # Arr(i) /\ Arr(n) # Arr(1)
  BY <1>1, Values
<1>4. IsHeapIn(u, n)
  BY <1>2, <1>3, WriteHeap
<1>5. /\ IsSeq(u) /\ Len(u) = Len(h) /\ DOMAIN u = DOMAIN h
      /\ DOMAIN u[i] = DOMAIN h[i] \cup {k} /\ u[i][k] = Arr(n)
      /\ \A x \in DOMAIN h[i] : x # k => u[i][x] = h[i][x]
      /\ \A j \in DOMAIN h : j # i => u[j] = h[j]
  BY WriteIs DEF IsHeap, IsHeapIn
<1>6. w = Append(u, a)
  BY DEF Fresh
<1>7. IsHeapIn(w, n)
  BY <1>4, <1>5, <1>6, AppendHeap
<1>8. /\ Len(w) = n /\ w[n] = a
      /\ \A j \in DOMAIN h : w[j] = u[j]
  BY <1>5, <1>6, SeqAppend
<1> QED
  BY <1>5, <1>7, <1>8 DEF IsHeap

----------------------------------------------------------------------------
(* yaf_deep_copy_section *)

\* SetToSeq lists every member of a finite set once.
LEMMA Enumerated ==
  ASSUME NEW D, IsFiniteSet(D)
  PROVE  \E n \in Nat : /\ SetToSeq(D) \in [1 .. n -> D]
                        /\ \A i, j \in 1 .. n : SetToSeq(D)[i] = SetToSeq(D)[j] => i = j
                        /\ \A k \in D : \E i \in 1 .. n : SetToSeq(D)[i] = k
<1> DEFINE n == Cardinality(D)
           e == SetToSeq(D)
<1>1. n \in Nat /\ ExistsBijection(1 .. n, D)
  BY FS_CardinalityType
<1>2. \E h \in [1 .. n -> D] : IsInjective(h)
  BY <1>1 DEF ExistsBijection, Bijection, Injection, IsInjective
<1>3. e \in [1 .. n -> D] /\ IsInjective(e)
  BY <1>2 DEF SetToSeq
<1> HIDE DEF e
<1>4. e \in Injection(1 .. n, D)
  BY <1>3 DEF Injection, IsInjective
<1>5. Cardinality(1 .. n) = n
  BY <1>1, FS_Interval
<1>6. e \in Surjection(1 .. n, D)
  BY <1>4, <1>5, FS_Injection
<1>7. \A i, j \in 1 .. n : e[i] = e[j] => i = j
  BY <1>3 DEF IsInjective
<1>8. \A k \in D : \E i \in 1 .. n : e[i] = k
  BY <1>6 DEF Surjection
<1> QED
  BY <1>1, <1>3, <1>7, <1>8 DEF e

\* Both arrays have an array under k.
Both(a, b, k) == k \in DOMAIN a /\ k \in DOMAIN b /\ IsArr(a[k]) /\ IsArr(b[k])

\* w is h after the section src was copied to dst.
CopiedOver(h, w, dst, src) ==
  /\ IsHeap(w) /\ Len(w) >= Len(h)
  /\ \A j \in DOMAIN h : j # dst => w[j] = h[j]
  /\ DOMAIN w[dst] = DOMAIN h[dst] \cup DOMAIN h[src]
  /\ \A k \in DOMAIN h[dst] \ DOMAIN h[src] : w[dst][k] = h[dst][k]
  /\ \A k \in DOMAIN h[src] : ~Both(h[dst], h[src], k) => w[dst][k] = h[src][k]
  /\ \A k \in DOMAIN h[src] : Both(h[dst], h[src], k) =>
       \E m \in (Len(h) + 1) .. Len(w) :
         w[dst][k] = Arr(m) /\ w[m] = Over(h[h[src][k].id], h[h[dst][k].id])

\* yaf_deep_copy_section, without the order in which it makes the merged arrays.
LEMMA DeepCopyIs ==
  ASSUME NEW h, IsHeap(h), NEW dst \in DOMAIN h, NEW src \in DOMAIN h,
         \A k \in DOMAIN h[src] : h[src][k] # Arr(dst)
  PROVE  CopiedOver(h, DeepCopySection(h, dst, src), dst, src)
<1> DEFINE both == {k \in DOMAIN h[dst] \cap DOMAIN h[src] : IsArr(h[dst][k]) /\ IsArr(h[src][k])}
           order == SetToSeq(both)
           merged == [n \in DOMAIN order |-> Over(h[h[src][order[n]].id], h[h[dst][order[n]].id])]
           place(k) == CHOOSE n \in DOMAIN order : order[n] = k
           new == [k \in both |-> Arr(Len(h) + place(k))]
           a == Over(new, Over(h[src], h[dst]))
           g == [h EXCEPT ![dst] = a]
           w == g \o merged
<1>1. DeepCopySection(h, dst, src) = w
  BY DEF DeepCopySection
<1>2. /\ IsSeq(h) /\ Len(h) \in Nat /\ DOMAIN h = 1 .. Len(h) /\ Len(h) >= 1
      /\ \A i \in DOMAIN h : IsArray(h[i], Len(h), i)
  BY SeqIs DEF IsHeap, IsHeapIn
<1>3. IsFiniteSet(both)
  <2>1. IsFiniteSet(DOMAIN h[dst])
    BY <1>2 DEF IsArray
  <2> QED
    BY <2>1, FS_Subset
<1>4. PICK top \in Nat : /\ order \in [1 .. top -> both]
                         /\ \A i, j \in 1 .. top : order[i] = order[j] => i = j
                         /\ \A k \in both : \E i \in 1 .. top : order[i] = k
  BY <1>3, Enumerated, Zenon
<1> HIDE DEF order
<1>5. DOMAIN merged = 1 .. top
  BY <1>4
<1>6. IsSeq(merged) /\ Len(merged) = top
  <2>1. \A n \in DOMAIN merged : merged[n] \in ToSet(merged)
    BY DEF ToSet
  <2>2. merged = [n \in 1 .. top |-> merged[n]]
    BY <1>5
  <2> HIDE DEF merged
  <2>3. \A n \in 1 .. top : merged[n] \in ToSet(merged)
    BY <2>1, <1>5
  <2>4. merged \in Seq(ToSet(merged))
    BY <2>2, <2>3, <1>4, SeqDef
  <2> QED
    BY <1>5, <2>4 DEF IsSeq
<1>7. IsSeq(g) /\ Len(g) = Len(h) /\ g[dst] = a /\ \A j \in DOMAIN h : j # dst => g[j] = h[j]
  <2>1. \A b : LET t == [h EXCEPT ![dst] = b] IN
          IsSeq(t) /\ Len(t) = Len(h) /\ t[dst] = b /\ \A j \in DOMAIN h : j # dst => t[j] = h[j]
    <3>1. IsSeq(h)
      BY <1>2
    <3> QED
      BY <3>1, SeqExcept
  <2> HIDE DEF a
  <2> QED
    BY <2>1
<1> HIDE DEF g, merged
<1>8. /\ IsSeq(w) /\ Len(w) = Len(h) + top
      /\ \A j \in DOMAIN h : w[j] = g[j]
      /\ \A n \in 1 .. top : w[Len(h) + n] = merged[n]
  <2>1. DOMAIN g = DOMAIN h
    BY <1>2, <1>7, SeqIs
  <2>2. IsSeq(g) /\ IsSeq(merged)
    BY <1>6, <1>7
  <2>3. Joined(g, merged, w)
    BY <2>2, SeqConcat, Zenon
  <2> HIDE DEF w
  <2> QED
    BY <1>5, <1>6, <1>7, <2>1, <2>3 DEF Joined
<1> HIDE DEF w
<1>9. DOMAIN w = 1 .. Len(h) + top
  BY <1>8, SeqIs
<1>10. ASSUME NEW k \in both
       PROVE  place(k) \in 1 .. top /\ order[place(k)] = k
  <2>1. \E n \in DOMAIN order : order[n] = k
    BY <1>4
  <2>2. place(k) \in DOMAIN order /\ order[place(k)] = k
    BY <2>1
  <2> QED
    BY <1>4, <2>2
<1>11. /\ DOMAIN a = DOMAIN h[dst] \cup DOMAIN h[src]
       /\ \A k \in both : a[k] = Arr(Len(h) + place(k))
       /\ \A k \in DOMAIN h[src] \ both : a[k] = h[src][k]
       /\ \A k \in DOMAIN h[dst] \ DOMAIN h[src] : a[k] = h[dst][k]
  <2> DEFINE b == Over(h[src], h[dst])
  <2>1. /\ DOMAIN b = DOMAIN h[src] \cup DOMAIN h[dst]
        /\ \A k \in DOMAIN h[src] : b[k] = h[src][k]
        /\ \A k \in DOMAIN h[dst] \ DOMAIN h[src] : b[k] = h[dst][k]
    BY OverIs, Zenon
  <2>2. /\ DOMAIN a = DOMAIN new \cup DOMAIN b
        /\ \A k \in DOMAIN new : a[k] = new[k]
        /\ \A k \in DOMAIN b \ DOMAIN new : a[k] = b[k]
    <3> HIDE DEF new, b
    <3>1. a = Over(new, b)
      BY DEF b
    <3>2. /\ DOMAIN Over(new, b) = DOMAIN new \cup DOMAIN b
          /\ \A k \in DOMAIN new : Over(new, b)[k] = new[k]
          /\ \A k \in DOMAIN b \ DOMAIN new : Over(new, b)[k] = b[k]
      BY OverIs, Zenon
    <3> HIDE DEF a
    <3> QED
      BY <3>1, <3>2
  <2>3. DOMAIN new = both /\ \A k \in both : new[k] = Arr(Len(h) + place(k))
    OBVIOUS
  <2>4. both \subseteq DOMAIN h[src]
    OBVIOUS
  <2> HIDE DEF a, b, new, both, place
  <2> QED
    BY <2>1, <2>2, <2>3, <2>4
<1> DEFINE len == Len(h) + top
<1>12. ASSUME NEW k \in both
       PROVE  h[src][k] = Arr(h[src][k].id) /\ h[src][k].id \in DOMAIN h
              /\ h[dst][k] = Arr(h[dst][k].id) /\ h[dst][k].id \in DOMAIN h
  BY <1>2, Values DEF IsArray
<1> HIDE DEF a, new
<1>13. IsArray(a, len, dst)
  <2>1. IsFiniteSet(DOMAIN h[dst]) /\ IsFiniteSet(DOMAIN h[src])
    BY <1>2 DEF IsArray
  <2>2. IsFiniteSet(DOMAIN a)
    <3>1. DOMAIN a = DOMAIN h[dst] \cup DOMAIN h[src]
      BY <1>11
    <3> QED
      BY <2>1, <3>1, FS_Union
  <2>3. IsArray(h[dst], len, dst) /\ IsArray(h[src], len, src)
    BY <1>2, ArrayGrows
  <2>4. ASSUME NEW k \in DOMAIN a
        PROVE  a[k] \in Value(len) /\ a[k] # Arr(dst) /\ a[k] # Arr(1)
    <3>1. CASE k \in both
      <4>1. place(k) \in 1 .. top
        BY <3>1, <1>10
      <4>2. Len(h) + place(k) \in 1 .. len /\ Len(h) + place(k) # dst /\ Len(h) + place(k) # 1
        BY <4>1, <1>2
      <4> HIDE DEF place, len
      <4> QED
        BY <3>1, <4>2, <1>11, Values
    <3>2. CASE k \in DOMAIN h[src] \ both
      BY <3>2, <1>11, <2>3 DEF IsArray
    <3>3. CASE k \in DOMAIN h[dst] \ DOMAIN h[src]
      BY <3>3, <1>11, <2>3 DEF IsArray
    <3> QED
      BY <3>1, <3>2, <3>3, <1>11
  <2> QED
    BY <2>2, <2>4 DEF IsArray
<1>14. ASSUME NEW n \in 1 .. top
       PROVE  IsArray(merged[n], len, Len(h) + n)
  <2>1. order[n] \in both
    BY <1>4
  <2> DEFINE k == order[n]
             i == h[src][k].id
             j == h[dst][k].id
  <2>2. i \in DOMAIN h /\ j \in DOMAIN h
    BY <2>1, <1>12
  <2>3. Len(h) + n \notin DOMAIN h /\ len \in Nat /\ len >= Len(h)
    BY <1>2
  <2>4. IsArray(h[i], len, Len(h) + n) /\ IsArray(h[j], len, Len(h) + n)
    BY <2>2, <2>3, CopyArray
  <2>5. merged[n] = Over(h[i], h[j])
    BY <1>4 DEF merged
  <2> QED
    BY <2>4, <2>5, OverArray
<1>15. IsHeap(w)
  <2>1. ASSUME NEW i \in DOMAIN w PROVE IsArray(w[i], len, i)
    <3>1. CASE i = dst
      BY <3>1, <1>7, <1>8, <1>13
    <3>2. CASE i \in DOMAIN h /\ i # dst
      <4>1. w[i] = h[i] /\ IsArray(h[i], Len(h), i) /\ len \in Nat /\ Len(h) <= len
        BY <3>2, <1>2, <1>7, <1>8
      <4> QED
        BY <4>1, <1>2, ArrayGrows
    <3>3. CASE i \notin DOMAIN h
      <4>1. i - Len(h) \in 1 .. top /\ i = Len(h) + (i - Len(h))
        BY <3>3, <1>2, <1>9
      <4>2. w[Len(h) + (i - Len(h))] = merged[i - Len(h)]
        BY <4>1, <1>8
      <4> QED
        BY <4>1, <4>2, <1>14
    <3> QED
      BY <3>1, <3>2, <3>3
  <2>2. Len(w) = len /\ len >= 1
    BY <1>2, <1>8
  <2> QED
    BY <1>8, <2>1, <2>2 DEF IsHeap, IsHeapIn
<1>16. ASSUME NEW k \in both
       PROVE  \E m \in (Len(h) + 1) .. Len(w) :
                w[dst][k] = Arr(m) /\ w[m] = Over(h[h[src][k].id], h[h[dst][k].id])
  <2>1. place(k) \in 1 .. top /\ order[place(k)] = k
    BY <1>10
  <2> HIDE DEF place
  <2>2. Len(h) + place(k) \in (Len(h) + 1) .. Len(w)
    BY <2>1, <1>2, <1>8
  <2>3. w[dst][k] = Arr(Len(h) + place(k))
    BY <1>7, <1>8, <1>11
  <2>4. w[Len(h) + place(k)] = merged[place(k)]
    BY <2>1, <1>8
  <2>5. merged[place(k)] = Over(h[h[src][k].id], h[h[dst][k].id])
    BY <2>1, <1>4 DEF merged
  <2> QED
    BY <2>2, <2>3, <2>4, <2>5
<1>17. \A k : k \in both <=> Both(h[dst], h[src], k)
  BY DEF Both
<1>18. \A j \in DOMAIN h : j # dst => w[j] = h[j]
  BY <1>7, <1>8
<1>19. w[dst] = a /\ Len(w) >= Len(h)
  BY <1>2, <1>7, <1>8
<1> HIDE DEF both
<1>20. CopiedOver(h, w, dst, src)
  BY <1>11, <1>15, <1>16, <1>17, <1>18, <1>19 DEF CopiedOver
<1> QED
  BY <1>1, <1>20

----------------------------------------------------------------------------
(* The parents of a section *)

\* A nonempty set of natural numbers has a least element.
LEMMA LeastOf ==
  ASSUME NEW S \in SUBSET Nat, S # {}
  PROVE  \E x \in S : \A y \in S : x <= y
<1> DEFINE R == OpToRel(<, Nat)
<1>1. IsWellFoundedOn(R, Nat)
  BY NatLessThanWellFounded
<1>2. \A x, y \in Nat : <<x, y>> \in R <=> x < y
  BY DEF OpToRel
<1> HIDE DEF R
<1>3. PICK x \in S : \A y \in S : ~(<<y, x>> \in R)
  BY <1>1, WFMin
<1>4. \A y \in S : y \in Nat /\ x \in Nat /\ ~(y < x)
  BY <1>2, <1>3
<1>5. \A y \in S : x <= y
  BY <1>4
<1> QED
  BY <1>5

\* A nonempty set of numbers up to n has a greatest element.
LEMMA GreatestOf ==
  ASSUME NEW n \in Nat, NEW S \in SUBSET (0 .. n), S # {}
  PROVE  \E x \in S : \A y \in S : y <= x
<1> DEFINE T == {n - y : y \in S}
<1>1. T \in SUBSET Nat /\ T # {}
  <2>1. \A y \in S : y \in 0 .. n /\ n - y \in Nat
    OBVIOUS
  <2> QED
    BY <2>1
<1>2. \A y \in S : n - y \in T
  OBVIOUS
<1>3. \A z \in T : \E y \in S : z = n - y
  OBVIOUS
<1> HIDE DEF T
<1>4. PICK z \in T : \A y \in T : z <= y
  BY <1>1, LeastOf
<1>5. PICK x \in S : z = n - x
  BY <1>3
<1>6. \A y \in S : y <= x
  BY <1>2, <1>4, <1>5
<1> QED
  BY <1>6

\* f[n] is the heap after the parents from the n-th on were copied.
IsCopied(f, parents) ==
  /\ f[Len(parents) + 1] = Append(heap, Empty)
  /\ \A n \in 1 .. Len(parents) : f[n] = InheritFrom(f[n + 1], Len(heap) + 1, parents[n])

CopiedFrom(f, parents, m) ==
  /\ f[Len(parents) + 1] = Append(heap, Empty)
  /\ \A n \in m .. Len(parents) : f[n] = InheritFrom(f[n + 1], Len(heap) + 1, parents[n])

\* The heaps that InheritAll goes through exist.
LEMMA InheritAllIs ==
  ASSUME NEW parents, Len(parents) \in Nat
  PROVE  \E f : IsCopied(f, parents) /\ InheritAll(parents) = f[1]
<1> DEFINE top == Len(parents)
           new == Len(heap) + 1
           P(m) == \E g : DOMAIN g = 1 .. top + 1 /\ CopiedFrom(g, parents, m)
           S == {m \in 1 .. top + 1 : ~P(m)}
<1>1. S = {}
  <2>1. SUFFICES ASSUME S # {} PROVE FALSE
    OBVIOUS
  <2>2. S \in SUBSET (0 .. top + 1) /\ top + 1 \in Nat
    OBVIOUS
  <2>3. PICK m \in S : \A y \in S : y <= m
    BY <2>1, <2>2, GreatestOf
  <2>4. m \in 1 .. top + 1 /\ ~P(m)
    OBVIOUS
  <2>5. P(top + 1)
    <3> DEFINE g == [i \in 1 .. top + 1 |-> Append(heap, Empty)]
    <3>1. DOMAIN g = 1 .. top + 1 /\ g[top + 1] = Append(heap, Empty)
      OBVIOUS
    <3>2. (top + 1) .. top = {}
      OBVIOUS
    <3>3. CopiedFrom(g, parents, top + 1)
      BY <3>1, <3>2 DEF CopiedFrom
    <3> QED
      BY <3>1, <3>3
  <2>6. m \in 1 .. top /\ m + 1 \in 1 .. top + 1
    BY <2>4, <2>5
  <2>7. P(m + 1)
    <3>1. m + 1 \notin S
      BY <2>3, <2>6
    <3> HIDE DEF P
    <3> QED
      BY <2>6, <3>1
  <2>8. PICK g : DOMAIN g = 1 .. top + 1 /\ CopiedFrom(g, parents, m + 1)
    BY <2>7
  <2> DEFINE v == InheritFrom(g[m + 1], new, parents[m])
             f == [g EXCEPT ![m] = v]
  <2>9. DOMAIN f = 1 .. top + 1 /\ f[m] = v /\ \A i \in 1 .. top + 1 : i # m => f[i] = g[i]
    BY <2>6, <2>8
  <2> HIDE DEF f
  <2>10. ASSUME NEW n \in m .. top PROVE f[n] = InheritFrom(f[n + 1], new, parents[n])
    <3>1. CASE n = m
      <4>1. f[n + 1] = g[m + 1]
        BY <3>1, <2>6, <2>9
      <4> QED
        BY <3>1, <4>1, <2>9
    <3>2. CASE n # m
      <4>1. n \in (m + 1) .. top /\ n \in 1 .. top + 1 /\ n + 1 \in 1 .. top + 1 /\ n + 1 # m
        BY <3>2, <2>6
      <4>2. f[n] = g[n] /\ f[n + 1] = g[n + 1]
        BY <3>2, <4>1, <2>9
      <4> QED
        BY <4>1, <4>2, <2>8 DEF CopiedFrom
    <3> QED
      BY <3>1, <3>2
  <2>11. f[top + 1] = Append(heap, Empty)
    BY <2>6, <2>8, <2>9 DEF CopiedFrom
  <2>12. CopiedFrom(f, parents, m)
    BY <2>10, <2>11 DEF CopiedFrom
  <2> QED
    BY <2>4, <2>9, <2>12
<1>2. P(1)
  <2>1. 1 \in 1 .. top + 1
    OBVIOUS
  <2> HIDE DEF P
  <2> QED
    BY <1>1, <2>1
<1>3. PICK g : DOMAIN g = 1 .. top + 1 /\ CopiedFrom(g, parents, 1)
  BY <1>2
<1> DEFINE F(c) == [n \in 1 .. top + 1 |-> IF n = top + 1 THEN Append(heap, Empty)
                                           ELSE InheritFrom(c[n + 1], new, parents[n])]
           f0 == [n \in 1 .. top + 1 |-> g[n]]
           f1 == CHOOSE c : c = F(c)
<1>4. f0 = F(f0)
  <2>1. ASSUME NEW n \in 1 .. top + 1
        PROVE  f0[n] = IF n = top + 1 THEN Append(heap, Empty)
                       ELSE InheritFrom(f0[n + 1], new, parents[n])
    <3>1. CASE n = top + 1
      BY <3>1, <1>3 DEF CopiedFrom
    <3>2. CASE n # top + 1
      <4>1. n \in 1 .. top /\ n + 1 \in 1 .. top + 1
        BY <3>2
      <4>2. f0[n] = g[n] /\ f0[n + 1] = g[n + 1]
        BY <4>1
      <4>3. g[n] = InheritFrom(g[n + 1], new, parents[n])
        BY <4>1, <1>3 DEF CopiedFrom
      <4> QED
        BY <3>2, <4>2, <4>3
    <3> QED
      BY <3>1, <3>2
  <2>2. F(f0) = [n \in 1 .. top + 1 |-> f0[n]]
    <3> HIDE DEF f0
    <3> QED
      BY <2>1, Zenon
  <2>3. [n \in 1 .. top + 1 |-> f0[n]] = f0
    OBVIOUS
  <2> HIDE DEF F, f0
  <2> QED
    BY <2>2, <2>3
<1>5. f1 = F(f1)
  <2> HIDE DEF F, f0
  <2> QED
    BY <1>4
<1>6. InheritAll(parents) = f1[1]
  BY DEF InheritAll
<1> HIDE DEF f1
<1>7. \A n \in 1 .. top + 1 : f1[n] = IF n = top + 1 THEN Append(heap, Empty)
                                     ELSE InheritFrom(f1[n + 1], new, parents[n])
  <2>1. \A c : \A n \in 1 .. top + 1 : F(c)[n] = IF n = top + 1 THEN Append(heap, Empty)
                                               ELSE InheritFrom(c[n + 1], new, parents[n])
    OBVIOUS
  <2> HIDE DEF F
  <2> QED
    BY <1>5, <2>1
<1>8. f1[top + 1] = Append(heap, Empty)
  <2>1. top + 1 \in 1 .. top + 1
    OBVIOUS
  <2>2. f1[top + 1] = IF top + 1 = top + 1 THEN Append(heap, Empty)
                      ELSE InheritFrom(f1[top + 1 + 1], new, parents[top + 1])
    BY <1>7, <2>1, Zenon
  <2> QED
    BY <2>2, Zenon
<1>9. \A n \in 1 .. top : f1[n] = InheritFrom(f1[n + 1], new, parents[n])
  BY <1>7
<1>10. IsCopied(f1, parents)
  BY <1>8, <1>9 DEF IsCopied
<1> QED
  BY <1>6, <1>10

\* The array of the whole file: what is not a key there is a section.
Rooted == \A s \in DOMAIN heap[1] \ Keys : IsArr(heap[1][s])

\* h is heap with more arrays.
Extends(h) == IsHeap(h) /\ Len(h) >= Len(heap) + 1 /\ \A j \in DOMAIN heap : h[j] = heap[j]

\* What is not under a key of the file is an array.
LEMMA RootSections ==
  ASSUME IsHeap(heap), Rooted, NEW s \in DOMAIN heap[1], s \notin Keys
  PROVE  /\ heap[1][s] = Arr(heap[1][s].id) /\ heap[1][s].id \in DOMAIN heap
         /\ heap[1][s].id # 1
<1>1. 1 \in DOMAIN heap /\ IsArray(heap[1], Len(heap), 1) /\ DOMAIN heap = 1 .. Len(heap)
  BY SeqIs DEF IsHeap, IsHeapIn
<1>2. heap[1][s] \in Value(Len(heap)) /\ IsArr(heap[1][s]) /\ heap[1][s] # Arr(1)
  BY <1>1 DEF IsArray, Rooted
<1> QED
  BY <1>1, <1>2, Values

\* Copying one parent.
LEMMA InheritStep ==
  ASSUME IsHeap(heap), Rooted, NEW h, Extends(h), NEW p, p \notin Keys, p \in DOMAIN heap[1]
  PROVE  /\ heap[1][p].id \in DOMAIN heap
         /\ CopiedOver(h, InheritFrom(h, Len(heap) + 1, p), Len(heap) + 1, heap[1][p].id)
         /\ Extends(InheritFrom(h, Len(heap) + 1, p))
<1> DEFINE new == Len(heap) + 1
           src == heap[1][p].id
           w == InheritFrom(h, new, p)
<1>1. src \in DOMAIN heap /\ src # 1
  BY RootSections
<1>2. /\ Len(heap) \in Nat /\ Len(heap) >= 1 /\ DOMAIN heap = 1 .. Len(heap)
      /\ \A i \in DOMAIN heap : IsArray(heap[i], Len(heap), i)
      /\ Len(h) \in Nat /\ DOMAIN h = 1 .. Len(h)
  BY SeqIs DEF IsHeap, IsHeapIn, Extends
<1>3. h[1] = heap[1] /\ h[src] = heap[src] /\ new \in DOMAIN h /\ src \in DOMAIN h
      /\ \A j \in DOMAIN heap : j \in DOMAIN h /\ j # new
  BY <1>1, <1>2 DEF Extends
<1>4. \A k \in DOMAIN h[src] : h[src][k] # Arr(new)
  BY <1>1, <1>2, <1>3, Values DEF IsArray
<1>5. w = DeepCopySection(h, new, src)
  BY <1>3 DEF InheritFrom
<1> HIDE DEF w, src
<1>6. CopiedOver(h, w, new, src)
  <2>1. IsHeap(h)
    BY DEF Extends
  <2> HIDE DEF new
  <2> QED
    BY <1>3, <1>4, <1>5, <2>1, DeepCopyIs
<1>7. Extends(w)
  <2>1. IsHeap(w) /\ Len(w) >= Len(h) /\ \A j \in DOMAIN h : j # new => w[j] = h[j]
    BY <1>6 DEF CopiedOver
  <2>2. Len(w) \in Nat
    BY <2>1, SeqIs DEF IsHeap, IsHeapIn
  <2>3. Len(w) >= Len(heap) + 1
    BY <1>2, <2>1, <2>2 DEF Extends
  <2>4. \A j \in DOMAIN heap : w[j] = heap[j]
    BY <1>3, <2>1 DEF Extends
  <2> QED
    BY <2>1, <2>3, <2>4 DEF Extends
<1> QED
  BY <1>1, <1>6, <1>7 DEF w, src

\* Copying the parents leaves the arrays of the file as they are.
LEMMA InheritExtends ==
  ASSUME IsHeap(heap), Rooted, NEW parents, Len(parents) \in Nat,
         \A n \in 1 .. Len(parents) : parents[n] \notin Keys,
         NEW f, IsCopied(f, parents)
  PROVE  \A n \in 1 .. Len(parents) + 1 : Extends(f[n])
<1> DEFINE top == Len(parents)
           S == {n \in 1 .. top + 1 : ~Extends(f[n])}
<1>1. SUFFICES ASSUME S # {} PROVE FALSE
  OBVIOUS
<1>2. S \in SUBSET (0 .. top + 1) /\ top + 1 \in Nat
  OBVIOUS
<1>3. PICK m \in S : \A y \in S : y <= m
  BY <1>1, <1>2, GreatestOf
<1>4. m \in 1 .. top + 1 /\ ~Extends(f[m])
  OBVIOUS
<1>5. Extends(f[top + 1])
  <2> DEFINE g == Append(heap, Empty)
  <2>1. f[top + 1] = g
    BY DEF IsCopied
  <2>2. IsSeq(heap) /\ Len(heap) \in Nat
    BY SeqIs DEF IsHeap, IsHeapIn
  <2>3. IsSeq(g) /\ Len(g) = Len(heap) + 1 /\ \A j \in DOMAIN heap : g[j] = heap[j]
    BY <2>2, SeqAppend
  <2>4. IsArray(Empty, Len(heap) + 1, Len(heap) + 1)
    <3>1. DOMAIN Empty = {}
      BY DEF Empty
    <3> QED
      BY <3>1, FS_EmptySet DEF IsArray
  <2>5. IsHeapIn(heap, Len(heap) + 1)
    BY <2>2, HeapGrows DEF IsHeap
  <2>6. IsHeapIn(g, Len(heap) + 1)
    BY <2>4, <2>5, AppendHeap
  <2>7. IsHeap(g) /\ Len(g) >= Len(heap) + 1
    BY <2>2, <2>3, <2>6 DEF IsHeap
  <2> HIDE DEF g
  <2> QED
    BY <2>1, <2>3, <2>7 DEF Extends
<1>6. m \in 1 .. top /\ m + 1 \in 1 .. top + 1
  BY <1>4, <1>5
<1>7. Extends(f[m + 1])
  <2>1. m + 1 \notin S
    BY <1>3, <1>6
  <2> QED
    BY <1>6, <2>1
<1>8. f[m] = InheritFrom(f[m + 1], Len(heap) + 1, parents[m])
  BY <1>6 DEF IsCopied
<1>9. CASE parents[m] \in DOMAIN heap[1]
  <2>1. parents[m] \notin Keys
    BY <1>6
  <2> QED
    BY <1>4, <1>7, <1>8, <1>9, <2>1, InheritStep
<1>10. CASE parents[m] \notin DOMAIN heap[1]
  <2>1. f[m + 1][1] = heap[1]
    <3>1. 1 \in DOMAIN heap
      BY SeqIs DEF IsHeap, IsHeapIn
    <3> QED
      BY <1>7, <3>1 DEF Extends
  <2>2. f[m] = f[m + 1]
    BY <1>8, <1>10, <2>1 DEF InheritFrom
  <2> QED
    BY <1>4, <1>7, <2>2
<1> QED
  BY <1>9, <1>10

\* The heap from which a header makes its section.
LEMMA InheritAllExtends ==
  ASSUME IsHeap(heap), Rooted, NEW parents, Len(parents) \in Nat,
         \A n \in 1 .. Len(parents) : parents[n] \notin Keys
  PROVE  Extends(InheritAll(parents))
<1>1. PICK f : IsCopied(f, parents) /\ InheritAll(parents) = f[1]
  BY InheritAllIs
<1>2. \A n \in 1 .. Len(parents) + 1 : Extends(f[n])
  BY <1>1, InheritExtends
<1>3. 1 \in 1 .. Len(parents) + 1
  OBVIOUS
<1> QED
  BY <1>1, <1>2, <1>3

----------------------------------------------------------------------------
(* The lines, for the sections of the file *)

\* h has the sections of heap in the array of the whole file.
RootKept(h) ==
  /\ \A s : s \notin Keys => (s \in DOMAIN h[1] <=> s \in DOMAIN heap[1])
  /\ \A s \in DOMAIN heap[1] : s \notin Keys => h[1][s] = heap[1][s]

\* h is heap after SEPARATE_ZVAL on the slot k of array i.
Separated(h, i, k) ==
  \/ h = heap
  \/ LET v == heap[i][k] IN
     /\ IsArr(v) /\ RefCount(v.id) > 1
     /\ IsHeap(h) /\ Len(h) = Len(heap) + 1
     /\ \A j \in DOMAIN heap : j # i => h[j] = heap[j]
     /\ DOMAIN h[i] = DOMAIN heap[i]
     /\ \A x \in DOMAIN heap[i] : x # k => h[i][x] = heap[i][x]
     /\ h[i][k] = Arr(Len(heap) + 1)
     /\ h[Len(heap) + 1] = heap[v.id]

\* SEPARATE_ZVAL duplicates the array of one slot, or finds it unshared.
LEMMA SeparateIs ==
  ASSUME IsHeap(heap), NEW i \in DOMAIN heap, NEW k \in DOMAIN heap[i]
  PROVE  /\ Separated(Separate(i, k), i, k) /\ IsHeap(Separate(i, k))
         /\ Separate(i, k) = heap => ~IsArr(heap[i][k]) \/ ~(RefCount(heap[i][k].id) > 1)
<1> DEFINE v == heap[i][k]
           n == Len(heap) + 1
           a == [heap[i] EXCEPT ![k] = Arr(n)]
           g == [heap EXCEPT ![i] = a]
           w == Append(g, heap[v.id])
<1>1. /\ IsSeq(heap) /\ Len(heap) \in Nat /\ DOMAIN heap = 1 .. Len(heap) /\ Len(heap) >= 1
      /\ \A j \in DOMAIN heap : IsArray(heap[j], Len(heap), j)
  BY SeqIs DEF IsHeap, IsHeapIn
<1>2. CASE ~(IsArr(v) /\ RefCount(v.id) > 1)
  <2>1. Separate(i, k) = heap
    BY <1>2 DEF Separate
  <2>2. ~IsArr(v) \/ ~(RefCount(v.id) > 1)
    BY <1>2
  <2> QED
    BY <2>1, <2>2 DEF Separated
<1>3. CASE IsArr(v) /\ RefCount(v.id) > 1
  <2>1. Separate(i, k) = w
    BY <1>3 DEF Separate
  <2>2. v.id \in DOMAIN heap
    BY <1>1, <1>3, Values DEF IsArray
  <2>3. IsSeq(g) /\ Len(g) = Len(heap) /\ g[i] = a /\ \A j \in DOMAIN heap : j # i => g[j] = heap[j]
    <3>1. \A b : LET t == [heap EXCEPT ![i] = b] IN
            IsSeq(t) /\ Len(t) = Len(heap) /\ t[i] = b /\ \A j \in DOMAIN heap : j # i => t[j] = heap[j]
      <4>1. IsSeq(heap)
        BY <1>1
      <4> QED
        BY <4>1, SeqExcept
    <3> HIDE DEF a
    <3> QED
      BY <3>1
  <2>4. DOMAIN a = DOMAIN heap[i] /\ a[k] = Arr(n) /\ \A x \in DOMAIN heap[i] : x # k => a[x] = heap[i][x]
    OBVIOUS
  <2> HIDE DEF a, g
  <2>5. /\ IsSeq(w) /\ Len(w) = Len(g) + 1
        /\ \A j \in DOMAIN g : w[j] = g[j]
        /\ w[Len(g) + 1] = heap[v.id]
    BY <2>3, SeqAppend
  <2> HIDE DEF w
  <2>6. DOMAIN g = DOMAIN heap /\ DOMAIN w = 1 .. n
    BY <1>1, <2>3, <2>5, SeqIs
  <2>7. IsArray(a, n, i)
    <3>1. IsArray(heap[i], n, i)
      BY <1>1, ArrayGrows
    <3>2. Arr(n) \in Value(n) /\ Arr(n) # Arr(i) /\ Arr(n) # Arr(1)
      BY <1>1, Values
    <3> QED
      BY <2>4, <3>1, <3>2 DEF IsArray
  <2>8. IsHeap(w)
    <3>1. ASSUME NEW j \in DOMAIN w PROVE IsArray(w[j], n, j)
      <4>1. CASE j = i
        BY <4>1, <2>3, <2>5, <2>6, <2>7
      <4>2. CASE j \in DOMAIN heap /\ j # i
        <5>1. w[j] = heap[j] /\ IsArray(heap[j], Len(heap), j) /\ n \in Nat /\ Len(heap) <= n
          BY <4>2, <1>1, <2>3, <2>5, <2>6
        <5> QED
          BY <5>1, <1>1, ArrayGrows
      <4>3. CASE j = n
        <5>1. n \notin DOMAIN heap /\ n \in Nat /\ n >= Len(heap)
          BY <1>1
        <5>2. IsArray(heap[v.id], n, n)
          BY <2>2, <5>1, CopyArray
        <5> QED
          BY <4>3, <5>2, <2>3, <2>5
      <4> QED
        BY <4>1, <4>2, <4>3, <1>1, <2>6
    <3>2. Len(w) = n /\ n >= 1
      BY <1>1, <2>3, <2>5
    <3> QED
      BY <3>1, <3>2, <2>5 DEF IsHeap, IsHeapIn
  <2>9. \A j \in DOMAIN heap : j # i => w[j] = heap[j]
    BY <2>3, <2>5, <2>6
  <2>10. w[i] = a /\ w[n] = heap[v.id] /\ Len(w) = n
    BY <2>3, <2>5, <2>6
  <2>11. Separated(w, i, k)
    BY <1>3, <2>4, <2>8, <2>9, <2>10 DEF Separated
  <2>12. w # heap
    BY <2>10, <1>1
  <2> QED
    BY <2>1, <2>8, <2>11, <2>12
<1> QED
  BY <1>2, <1>3

\* A key has one segment or two.
LEMMA PathsAre ==
  ASSUME NEW path \in Paths
  PROVE  /\ path[1] \in Keys
         /\ \/ Len(path) = 1 /\ path = <<path[1]>>
            \/ Len(path) = 2 /\ path = <<path[1], path[2]>>
BY DEF Paths

\* Writing somewhere else than to the array of the file, or a key of it.
LEMMA WriteRoot ==
  ASSUME IsHeap(heap), NEW h, IsHeap(h), RootKept(h),
         NEW i \in DOMAIN h, NEW k, NEW v, i # 1 \/ k \in Keys
  PROVE  RootKept(Write(h, i, k, v))
<1> DEFINE w == Write(h, i, k, v)
<1>1. /\ DOMAIN w[i] = DOMAIN h[i] \cup {k}
      /\ \A x \in DOMAIN h[i] : x # k => w[i][x] = h[i][x]
      /\ \A j \in DOMAIN h : j # i => w[j] = h[j]
  BY WriteIs DEF IsHeap, IsHeapIn
<1>2. 1 \in DOMAIN h
  BY SeqIs DEF IsHeap, IsHeapIn
<1> HIDE DEF w
<1>3. ASSUME i # 1 PROVE RootKept(w)
  BY <1>1, <1>2, <1>3 DEF RootKept
<1>4. ASSUME i = 1 PROVE RootKept(w)
  BY <1>1, <1>4 DEF RootKept
<1>5. RootKept(w)
  BY <1>3, <1>4
<1> QED
  BY <1>5 DEF w

\* The same of a new array.
LEMMA FreshRoot ==
  ASSUME IsHeap(heap), NEW h, IsHeap(h), RootKept(h),
         NEW i \in DOMAIN h, NEW k, NEW a, IsArray(a, Len(h) + 1, Len(h) + 1), i # 1 \/ k \in Keys
  PROVE  RootKept(Fresh(h, i, k, a))
<1> DEFINE w == Fresh(h, i, k, a)
<1>1. /\ DOMAIN w[i] = DOMAIN h[i] \cup {k}
      /\ \A x \in DOMAIN h[i] : x # k => w[i][x] = h[i][x]
      /\ \A j \in DOMAIN h : j # i => w[j] = h[j]
  BY FreshIs
<1>2. 1 \in DOMAIN h
  BY SeqIs DEF IsHeap, IsHeapIn
<1> HIDE DEF w
<1>3. ASSUME i # 1 PROVE RootKept(w)
  BY <1>1, <1>2, <1>3 DEF RootKept
<1>4. ASSUME i = 1 PROVE RootKept(w)
  BY <1>1, <1>4 DEF RootKept
<1>5. RootKept(w)
  BY <1>3, <1>4
<1> QED
  BY <1>5 DEF w

\* The same of a separation.
LEMMA SeparateRoot ==
  ASSUME IsHeap(heap), NEW i \in DOMAIN heap, NEW k \in DOMAIN heap[i], i # 1 \/ k \in Keys,
         NEW h, Separated(h, i, k)
  PROVE  RootKept(h) /\ i \in DOMAIN h /\ k \in DOMAIN h[i]
         /\ \A x : IsArr(heap[i][x]) /\ x \in DOMAIN heap[i] => IsArr(h[i][x])
<1>1. 1 \in DOMAIN heap /\ DOMAIN heap = 1 .. Len(heap) /\ Len(heap) \in Nat
  BY SeqIs DEF IsHeap, IsHeapIn
<1>2. CASE h = heap
  BY <1>2 DEF RootKept
<1>3. CASE h # heap
  <2>1. /\ IsHeap(h) /\ Len(h) = Len(heap) + 1
        /\ \A j \in DOMAIN heap : j # i => h[j] = heap[j]
        /\ DOMAIN h[i] = DOMAIN heap[i]
        /\ \A x \in DOMAIN heap[i] : x # k => h[i][x] = heap[i][x]
        /\ h[i][k] = Arr(Len(heap) + 1)
    BY <1>3 DEF Separated
  <2>2. DOMAIN h = 1 .. Len(h)
    BY <2>1, SeqIs DEF IsHeap, IsHeapIn
  <2>3. i \in DOMAIN h /\ k \in DOMAIN h[i]
    BY <1>1, <2>1, <2>2
  <2>4. RootKept(h)
    <3>1. CASE i = 1
      BY <2>1, <3>1 DEF RootKept
    <3>2. CASE i # 1
      BY <1>1, <2>1, <3>2 DEF RootKept
    <3> QED
      BY <3>1, <3>2
  <2>5. \A x : IsArr(heap[i][x]) /\ x \in DOMAIN heap[i] => IsArr(h[i][x])
    BY <2>1, Values
  <2> QED
    BY <2>3, <2>4, <2>5
<1> QED
  BY <1>2, <1>3

\* A reference found in a heap leads to an array that is not the file's.
LEMMA FoundArray ==
  ASSUME NEW h, IsHeap(h), NEW i \in DOMAIN h, NEW k \in DOMAIN h[i], IsArr(h[i][k])
  PROVE  h[i][k] = Arr(h[i][k].id) /\ h[i][k].id \in DOMAIN h /\ h[i][k].id # 1 /\ h[i][k].id # i
<1>1. IsArray(h[i], Len(h), i) /\ DOMAIN h = 1 .. Len(h)
  BY SeqIs DEF IsHeap, IsHeapIn
<1>2. h[i][k] \in Value(Len(h)) /\ h[i][k] # Arr(1) /\ h[i][k] # Arr(i)
  BY <1>1 DEF IsArray
<1> QED
  BY <1>1, <1>2, Values

\* A number is a value and not an array.
LEMMA ScalarValue ==
  ASSUME NEW m \in Nat, NEW n
  PROVE  Scalar(m) \in Value(n) /\ ~IsArr(Scalar(m)) /\ \A i : Scalar(m) # Arr(i)
BY Values

\* Scalars can be written anywhere.
LEMMA WriteScalar ==
  ASSUME NEW h, IsHeap(h), NEW i \in DOMAIN h, NEW k, NEW m \in Nat
  PROVE  IsHeap(Write(h, i, k, Scalar(m)))
<1> DEFINE v == Scalar(m)
<1>1. v \in Value(Len(h)) /\ v # Arr(i) /\ v # Arr(1)
  BY ScalarValue
<1>2. IsHeapIn(h, Len(h))
  BY DEF IsHeap
<1> HIDE DEF v
<1>3. IsHeapIn(Write(h, i, k, v), Len(h))
  BY <1>1, <1>2, WriteHeap
<1>4. Len(Write(h, i, k, v)) = Len(h)
  BY WriteIs DEF IsHeap, IsHeapIn
<1> QED
  BY <1>3, <1>4 DEF IsHeap, v

\* A new list of one scalar.
LEMMA FreshScalar ==
  ASSUME NEW h, IsHeap(h), NEW i \in DOMAIN h, NEW k, NEW j, NEW m \in Nat
  PROVE  IsArray(Single(j, Scalar(m)), Len(h) + 1, Len(h) + 1)
         /\ IsHeap(Fresh(h, i, k, Single(j, Scalar(m))))
<1> DEFINE n == Len(h) + 1
           v == Scalar(m)
<1>1. v \in Value(n) /\ v # Arr(n) /\ v # Arr(1)
  BY ScalarValue
<1> HIDE DEF v
<1>2. IsArray(Single(j, v), n, n)
  BY <1>1, SingleArray
<1>3. IsHeap(Fresh(h, i, k, Single(j, v)))
  BY <1>2, FreshIs
<1> QED
  BY <1>2, <1>3 DEF v

\* The file itself keeps its sections.
LEMMA RootSelf ==
  RootKept(heap)
BY DEF RootKept

\* Setting key j of the array under k, of a new one if there is none.
PutUnder(h, i, k, j, v) ==
  IF k \in DOMAIN h[i] /\ IsArr(h[i][k]) THEN Write(h, h[i][k].id, j, v)
  ELSE Fresh(h, i, k, Single(j, v))

\* Setting a key two levels deep keeps the sections.
LEMMA PutUnderKeeps ==
  ASSUME IsHeap(heap), NEW h, IsHeap(h), RootKept(h), NEW i \in DOMAIN h, NEW k, NEW j, NEW m \in Nat,
         i # 1 \/ k \in Keys
  PROVE  IsHeap(PutUnder(h, i, k, j, Scalar(m))) /\ RootKept(PutUnder(h, i, k, j, Scalar(m)))
<1> DEFINE v == Scalar(m)
<1>1. CASE k \in DOMAIN h[i] /\ IsArr(h[i][k])
  <2> DEFINE d == h[i][k].id
  <2>1. d \in DOMAIN h /\ d # 1
    BY <1>1, FoundArray
  <2>2. PutUnder(h, i, k, j, v) = Write(h, d, j, v)
    BY <1>1 DEF PutUnder
  <2> HIDE DEF d
  <2>3. IsHeap(Write(h, d, j, v))
    BY <2>1, WriteScalar
  <2>4. RootKept(Write(h, d, j, v))
    BY <2>1, WriteRoot
  <2> QED
    BY <2>2, <2>3, <2>4
<1>2. CASE ~(k \in DOMAIN h[i] /\ IsArr(h[i][k]))
  <2>1. PutUnder(h, i, k, j, v) = Fresh(h, i, k, Single(j, v))
    BY <1>2, Zenon DEF PutUnder
  <2>2. IsArray(Single(j, v), Len(h) + 1, Len(h) + 1) /\ IsHeap(Fresh(h, i, k, Single(j, v)))
    BY FreshScalar
  <2>3. RootKept(Fresh(h, i, k, Single(j, v)))
    BY <2>2, FreshRoot
  <2> QED
    BY <2>1, <2>2, <2>3
<1> QED
  BY <1>1, <1>2

\* What an entry line separates first.
Opened(k) == IF k \in DOMAIN heap[Current] THEN Separate(Current, k) ELSE heap

\* The slot of an entry line after SEPARATE_ZVAL.
LEMMA OpenedIs ==
  ASSUME IsHeap(heap), Current \in DOMAIN heap, NEW k \in Keys
  PROVE  /\ IsHeap(Opened(k)) /\ RootKept(Opened(k)) /\ Current \in DOMAIN Opened(k)
         /\ k \in DOMAIN heap[Current] =>
              /\ Separated(Opened(k), Current, k) /\ k \in DOMAIN Opened(k)[Current]
              /\ IsArr(heap[Current][k]) => IsArr(Opened(k)[Current][k])
         /\ k \notin DOMAIN heap[Current] => Opened(k) = heap
<1>1. CASE k \in DOMAIN heap[Current]
  <2>1. Separated(Separate(Current, k), Current, k) /\ IsHeap(Separate(Current, k))
    BY <1>1, SeparateIs
  <2>2. Opened(k) = Separate(Current, k)
    BY <1>1 DEF Opened
  <2>3. RootKept(Opened(k)) /\ Current \in DOMAIN Opened(k) /\ k \in DOMAIN Opened(k)[Current]
        /\ (\A x : IsArr(heap[Current][x]) /\ x \in DOMAIN heap[Current] => IsArr(Opened(k)[Current][x]))
    BY <1>1, <2>1, <2>2, SeparateRoot
  <2> QED
    BY <1>1, <2>1, <2>2, <2>3
<1>2. CASE k \notin DOMAIN heap[Current]
  BY <1>2, RootSelf DEF Opened
<1> QED
  BY <1>1, <1>2

\* The three outcomes of an entry line.
LEMMA EntryIs ==
  ASSUME IsHeap(heap), Current \in DOMAIN heap, NEW path \in Paths, NEW v
  PROVE  LET k == path[1] IN
         \/ /\ path = <<k>> /\ k \in DOMAIN heap[Current] /\ IsArr(heap[Current][k])
            /\ EntryHeap(path, v) = Opened(k)
         \/ /\ path = <<k>> /\ ~(k \in DOMAIN heap[Current] /\ IsArr(heap[Current][k]))
            /\ EntryHeap(path, v) = Write(Opened(k), Current, k, v)
         \/ /\ path = <<k, path[2]>>
            /\ k \in DOMAIN heap[Current] /\ IsArr(heap[Current][k])
            /\ EntryHeap(path, v) = Write(Opened(k), Opened(k)[Current][k].id, path[2], v)
         \/ /\ path = <<k, path[2]>> /\ ~(k \in DOMAIN heap[Current] /\ IsArr(heap[Current][k]))
            /\ EntryHeap(path, v) = Fresh(Opened(k), Current, k, Single(path[2], v))
<1>1. CASE Len(path) = 1 /\ path = <<path[1]>>
  <2>1. CASE path[1] \in DOMAIN heap[Current] /\ IsArr(heap[Current][path[1]])
    <3>1. EntryHeap(path, v) = Opened(path[1])
      BY <1>1, <2>1 DEF EntryHeap, Opened
    <3> QED
      BY <1>1, <2>1, <3>1, Zenon
  <2>2. CASE ~(path[1] \in DOMAIN heap[Current] /\ IsArr(heap[Current][path[1]]))
    <3>1. EntryHeap(path, v) = Write(Opened(path[1]), Current, path[1], v)
      BY <1>1, <2>2 DEF EntryHeap, Opened
    <3> QED
      BY <1>1, <2>2, <3>1, Zenon
  <2> QED
    BY <2>1, <2>2
<1>2. CASE Len(path) = 2 /\ path = <<path[1], path[2]>>
  BY <1>2 DEF EntryHeap, Opened
<1> QED
  BY <1>1, <1>2, PathsAre

\* An entry line keeps the sections.
LEMMA EntryKeeps ==
  ASSUME IsHeap(heap), Current \in DOMAIN heap, NEW path \in Paths, NEW m \in Nat
  PROVE  IsHeap(EntryHeap(path, Scalar(m))) /\ RootKept(EntryHeap(path, Scalar(m)))
<1> DEFINE k == path[1]
           h == Opened(k)
           v == Scalar(m)
           e == EntryHeap(path, v)
<1>1. k \in Keys
  BY PathsAre
<1>2. /\ IsHeap(h) /\ RootKept(h) /\ Current \in DOMAIN h
      /\ k \in DOMAIN heap[Current] =>
           /\ k \in DOMAIN h[Current]
           /\ IsArr(heap[Current][k]) => IsArr(h[Current][k])
  BY <1>1, OpenedIs
<1>3. \/ e = h
      \/ e = Write(h, Current, k, v)
      \/ /\ k \in DOMAIN heap[Current] /\ IsArr(heap[Current][k])
         /\ e = Write(h, h[Current][k].id, path[2], v)
      \/ e = Fresh(h, Current, k, Single(path[2], v))
  BY EntryIs
<1> HIDE DEF e, h, k
<1>4. ASSUME e = h PROVE IsHeap(e) /\ RootKept(e)
  BY <1>2, <1>4
<1>5. ASSUME e = Write(h, Current, k, v) PROVE IsHeap(e) /\ RootKept(e)
  BY <1>1, <1>2, <1>5, WriteScalar, WriteRoot
<1>6. ASSUME k \in DOMAIN heap[Current], IsArr(heap[Current][k]), e = Write(h, h[Current][k].id, path[2], v)
      PROVE  IsHeap(e) /\ RootKept(e)
  <2>1. h[Current][k].id \in DOMAIN h /\ h[Current][k].id # 1
    BY <1>2, <1>6, FoundArray
  <2> QED
    BY <1>2, <1>6, <2>1, WriteScalar, WriteRoot
<1>7. ASSUME e = Fresh(h, Current, k, Single(path[2], v)) PROVE IsHeap(e) /\ RootKept(e)
  <2>1. IsArray(Single(path[2], v), Len(h) + 1, Len(h) + 1) /\ IsHeap(e)
    BY <1>2, <1>7, FreshScalar
  <2> QED
    BY <1>1, <1>2, <1>7, <2>1, FreshRoot
<1> QED
  BY <1>3, <1>4, <1>5, <1>6, <1>7 DEF e

----------------------------------------------------------------------------
(* The invariant *)

ParsedSection ==
  active # Null => \E s \in Sections : s \in DOMAIN heap[1] /\ heap[1][s] = Arr(active)

ObjectSet == [arr : DOMAIN heap, cls : {"ini", "simple"}, ro : BOOLEAN, parent : Nat \cup {Null}]

ObjectsOK ==
  /\ objs \in Seq(ObjectSet)
  /\ \A n \in DOMAIN objs :
       /\ objs[n].cls = "ini" => objs[n].ro
       /\ objs[n].parent # Null => objs[n].parent \in 1 .. (n - 1)
                                   /\ objs[objs[n].parent].ro = objs[n].ro

RestOK ==
  /\ flag \in {"start", "process", "end"}
  /\ phase \in {"parse", "live"}
  /\ wanted \in Wanted \cup {Null}
  /\ steps \in 0 .. MaxSteps

ParseOK == phase = "parse" => objs = <<>> /\ vars = <<>> /\ Rooted /\ ParsedSection

LiveOK == phase = "live" => active = Null

ConfigInv ==
  /\ IsHeap(heap)
  /\ RestOK
  /\ ObjectsOK
  /\ vars \in Seq(DOMAIN heap)
  /\ ParseOK
  /\ LiveOK

\* The invariant holds before the first line.
LEMMA InvInit ==
  ASSUME Init
  PROVE  ConfigInv
<1>1. IsHeap(heap)
  <2>1. heap = <<Empty>> /\ Len(heap) = 1 /\ DOMAIN heap = {1} /\ heap[1] = Empty
    BY DEF Init
  <2>2. DOMAIN Empty = {}
    BY DEF Empty
  <2>3. IsArray(Empty, 1, 1)
    BY <2>2, FS_EmptySet DEF IsArray
  <2>4. Empty \in ToSet(heap)
    BY <2>1 DEF ToSet
  <2>5. heap \in Seq(ToSet(heap))
    BY <2>1, <2>4
  <2> QED
    BY <2>1, <2>3, <2>5 DEF IsHeap, IsHeapIn, IsSeq
<1>2. RestOK
  BY ConfigAssumption DEF Init, RestOK
<1>3. ObjectsOK /\ vars \in Seq(DOMAIN heap)
  BY DEF Init, ObjectsOK
<1>4. Rooted
  <2>1. DOMAIN heap[1] = {}
    BY DEF Init, Empty
  <2> QED
    BY <2>1 DEF Rooted
<1>5. ParseOK /\ LiveOK
  BY <1>4 DEF Init, ParseOK, LiveOK, ParsedSection
<1> QED
  BY <1>1, <1>2, <1>3, <1>5 DEF ConfigInv

\* The array being filled exists.
LEMMA CurrentIs ==
  ASSUME ConfigInv, phase = "parse"
  PROVE  Current \in DOMAIN heap /\ (active # Null => Current = active /\ active # 1)
<1>1. 1 \in DOMAIN heap
  BY SeqIs DEF ConfigInv, IsHeap, IsHeapIn
<1>2. CASE active = Null
  BY <1>1, <1>2 DEF Current
<1>3. CASE active # Null
  <2>1. PICK s \in Sections : s \in DOMAIN heap[1] /\ heap[1][s] = Arr(active)
    BY <1>3 DEF ConfigInv, ParseOK, ParsedSection
  <2>2. IsHeap(heap)
    BY DEF ConfigInv
  <2>3. IsArr(heap[1][s]) /\ heap[1][s].id = active
    BY <2>1, Values
  <2>4. active \in DOMAIN heap /\ active # 1
    BY <1>1, <2>1, <2>2, <2>3, FoundArray
  <2> QED
    BY <1>3, <2>4 DEF Current
<1> QED
  BY <1>2, <1>3

\* A line that keeps the sections keeps the invariant.
LEMMA LineKeeps ==
  ASSUME ConfigInv, NEW line, NextLine(line), IsHeap(heap'), RootKept(heap'), active' = active,
         flag' \in {"start", "process", "end"}
  PROVE  ConfigInv'
<1>1. phase = "parse" /\ objs = <<>> /\ vars = <<>> /\ Rooted /\ ParsedSection
  BY DEF NextLine, ConfigInv, ParseOK
<1>2. phase' = "parse" /\ objs' = <<>> /\ vars' = <<>> /\ wanted' = wanted /\ steps' = steps + 1
      /\ steps < MaxLines
  BY <1>1 DEF NextLine
<1>3. RestOK'
  BY <1>2, ConfigAssumption DEF ConfigInv, RestOK
<1>4. ObjectsOK' /\ vars' \in Seq(DOMAIN heap')
  BY <1>2 DEF ObjectsOK
<1>5. Rooted'
  BY <1>1 DEF Rooted, RootKept
<1>6. ParsedSection'
  <2>1. Keys \cap Sections = {}
    BY ConfigAssumption
  <2> QED
    BY <1>1, <2>1 DEF ParsedSection, RootKept
<1> QED
  BY <1>2, <1>3, <1>4, <1>5, <1>6 DEF ConfigInv, ParseOK, LiveOK

----------------------------------------------------------------------------
(* The lines keep the invariant *)

\* A heap is a nonempty sequence.
LEMMA HeapDomain ==
  ASSUME IsHeap(heap)
  PROVE  Len(heap) \in Nat /\ Len(heap) >= 1 /\ DOMAIN heap = 1 .. Len(heap) /\ IsSeq(heap)
BY SeqIs DEF IsHeap, IsHeapIn

\* A header keeps the invariant: its section is a section of the file.
LEMMA HeaderStep ==
  ASSUME ConfigInv, NEW h \in Headers, Header(h)
  PROVE  ConfigInv'
<1> DEFINE new == Len(heap) + 1
           parents == h.parents
           g == InheritAll(parents)
<1>1. /\ phase = "parse" /\ objs = <<>> /\ vars = <<>> /\ Rooted /\ ParsedSection
      /\ IsHeap(heap)
  BY DEF Header, NextLine, ConfigInv, ParseOK
<1>2. phase' = "parse" /\ objs' = <<>> /\ vars' = <<>> /\ wanted' = wanted /\ steps' = steps + 1
      /\ steps < MaxLines /\ flag' \in {"start", "process", "end"}
  BY <1>1 DEF Header, NextLine, ConfigInv, RestOK
<1>3. parents \in Seq(ToSet(parents)) /\ Keys \cap ToSet(parents) = {}
  BY ConfigAssumption
<1>4. Len(parents) \in Nat /\ \A n \in 1 .. Len(parents) : parents[n] \notin Keys
  <2>1. Len(parents) \in Nat /\ \A n \in 1 .. Len(parents) : parents[n] \in ToSet(parents)
    BY <1>3
  <2> QED
    BY <1>3, <2>1
<1>5. Extends(g)
  BY <1>1, <1>4, InheritAllExtends
<1>6. heap' = Write(g, 1, h.name, Arr(new)) /\ active' = new
  BY DEF Header
<1> HIDE DEF g
<1>7. /\ Len(heap) \in Nat /\ Len(heap) >= 1 /\ DOMAIN heap = 1 .. Len(heap)
      /\ IsSeq(g) /\ Len(g) \in Nat /\ DOMAIN g = 1 .. Len(g) /\ IsHeapIn(g, Len(g)) /\ Len(g) >= new
  BY <1>1, <1>5, HeapDomain, SeqIs DEF Extends, IsHeap, IsHeapIn
<1>8. /\ Len(heap') = Len(g) /\ DOMAIN heap'[1] = DOMAIN g[1] \cup {h.name}
      /\ heap'[1][h.name] = Arr(new)
      /\ \A x \in DOMAIN g[1] : x # h.name => heap'[1][x] = g[1][x]
  BY <1>6, <1>7, WriteIs
<1>9. IsHeap(heap')
  <2>1. Arr(new) \in Value(Len(g)) /\ Arr(new) # Arr(1)
    BY <1>7, Values
  <2>2. IsHeapIn(heap', Len(g))
    BY <1>6, <1>7, <2>1, WriteHeap
  <2> QED
    BY <1>8, <2>2 DEF IsHeap
<1>10. g[1] = heap[1]
  BY <1>5, <1>7 DEF Extends
<1>11. Rooted'
  BY <1>1, <1>8, <1>10, Values DEF Rooted
<1>12. ParsedSection'
  <2>1. h.name \in Sections
    BY DEF Sections
  <2> QED
    BY <1>6, <1>8, <2>1 DEF ParsedSection
<1>13. RestOK'
  BY <1>2, ConfigAssumption DEF ConfigInv, RestOK
<1>14. ObjectsOK' /\ vars' \in Seq(DOMAIN heap')
  BY <1>2 DEF ObjectsOK
<1> QED
  BY <1>2, <1>9, <1>11, <1>12, <1>13, <1>14 DEF ConfigInv, ParseOK, LiveOK

\* So does a line after the wanted section,
LEMMA IgnoredStep ==
  ASSUME ConfigInv, LastHeader \/ IgnoredLine
  PROVE  ConfigInv'
<1>1. \E line : NextLine(line)
  BY DEF LastHeader, IgnoredLine
<1>2. heap' = heap /\ active' = active /\ flag' \in {"start", "process", "end"}
  BY DEF LastHeader, IgnoredLine, ConfigInv, RestOK
<1>3. IsHeap(heap') /\ RootKept(heap')
  BY <1>2, RootSelf DEF ConfigInv
<1> QED
  BY <1>1, <1>2, <1>3, LineKeeps

\* an entry line,
LEMMA EntryStep ==
  ASSUME ConfigInv, NEW p \in Paths, Entry(p)
  PROVE  ConfigInv'
<1>1. PICK line : NextLine(line)
  BY DEF Entry
<1>2. phase = "parse" /\ IsHeap(heap) /\ steps \in Nat
  BY <1>1 DEF NextLine, ConfigInv, RestOK
<1>3. Current \in DOMAIN heap
  BY <1>2, CurrentIs
<1>4. heap' = EntryHeap(p, Scalar(steps)) /\ active' = active /\ flag' = flag
  BY DEF Entry
<1>5. IsHeap(heap') /\ RootKept(heap')
  BY <1>2, <1>3, <1>4, EntryKeeps
<1> QED
  BY <1>1, <1>4, <1>5, LineKeeps DEF ConfigInv, RestOK

\* a list line,
LEMMA ListStep ==
  ASSUME ConfigInv, NEW k \in Keys, NEW j, ListEntry(k, j)
  PROVE  ConfigInv'
<1>1. PICK line : NextLine(line)
  BY DEF ListEntry
<1>2. phase = "parse" /\ IsHeap(heap) /\ steps \in Nat
  BY <1>1 DEF NextLine, ConfigInv, RestOK
<1>3. Current \in DOMAIN heap
  BY <1>2, CurrentIs
<1>4. heap' = PutUnder(heap, Current, k, j, Scalar(steps)) /\ active' = active /\ flag' = flag
  BY DEF ListEntry, PutUnder
<1>5. IsHeap(heap') /\ RootKept(heap')
  BY <1>2, <1>3, <1>4, RootSelf, PutUnderKeeps
<1> QED
  BY <1>1, <1>4, <1>5, LineKeeps DEF ConfigInv, RestOK

\* A sequence of one entry.
LEMMA SingletonSeq ==
  ASSUME NEW S, NEW o \in S
  PROVE  <<o>> \in Seq(S) /\ DOMAIN <<o>> = {1} /\ <<o>>[1] = o
OBVIOUS

\* and the end of yaf_config_ini_instance: the object holds an array that exists.
LEMMA ParseEndStep ==
  ASSUME ConfigInv, ParseEnd
  PROVE  ConfigInv'
<1>1. /\ phase = "parse" /\ objs = <<>> /\ vars = <<>> /\ Rooted /\ IsHeap(heap)
      /\ phase' = "live" /\ active' = Null /\ vars' = <<>> /\ steps' = steps /\ wanted' = wanted
      /\ flag' = flag
  BY DEF ParseEnd, ConfigInv, ParseOK
<1>2. /\ Len(heap) \in Nat /\ Len(heap) >= 1 /\ DOMAIN heap = 1 .. Len(heap) /\ IsSeq(heap)
  BY <1>1, HeapDomain
<1>3. ASSUME NEW a, heap' = heap \/ Len(heap') = Len(heap) + 1, IsHeap(heap'), a \in DOMAIN heap',
             objs' = <<Object(a, "ini", TRUE, Null)>>
      PROVE  ObjectsOK'
  <2>1. Object(a, "ini", TRUE, Null) \in ObjectSet'
    BY <1>3 DEF Object, ObjectSet
  <2>2. Object(a, "ini", TRUE, Null).parent = Null /\ Object(a, "ini", TRUE, Null).ro
    BY DEF Object
  <2>3. objs' \in Seq(ObjectSet') /\ DOMAIN objs' = {1} /\ objs'[1] = Object(a, "ini", TRUE, Null)
    BY <1>3, <2>1, SingletonSeq
  <2> QED
    BY <2>2, <2>3 DEF ObjectsOK
<1>4. CASE wanted = Null
  <2>1. heap' = heap /\ objs' = <<Object(1, "ini", TRUE, Null)>>
    BY <1>4 DEF ParseEnd
  <2>2. ObjectsOK'
    <3>1. IsHeap(heap') /\ 1 \in DOMAIN heap'
      BY <1>1, <1>2, <2>1
    <3> QED
      BY <1>3, <2>1, <3>1
  <2> QED
    BY <1>1, <2>1, <2>2 DEF ConfigInv, RestOK, ParseOK, LiveOK
<1>5. CASE wanted # Null /\ wanted \in DOMAIN heap[1]
  <2> DEFINE a == heap[heap[1][wanted].id]
  <2>1. heap' = Append(heap, a) /\ objs' = <<Object(Len(heap) + 1, "ini", TRUE, Null)>>
    BY <1>5 DEF ParseEnd
  <2>2. wanted \notin Keys
    BY <1>5, ConfigAssumption DEF ConfigInv, RestOK
  <2>3. heap[1][wanted].id \in DOMAIN heap
    BY <1>1, <1>5, <2>2, RootSections
  <2> HIDE DEF a
  <2>4. IsArray(a, Len(heap) + 1, Len(heap) + 1)
    <3>1. Len(heap) + 1 \notin DOMAIN heap /\ Len(heap) + 1 \in Nat /\ Len(heap) + 1 >= Len(heap)
      BY <1>2
    <3> QED
      BY <1>1, <2>3, <3>1, CopyArray DEF a
  <2>5. IsSeq(heap') /\ Len(heap') = Len(heap) + 1
    BY <1>2, <2>1, SeqAppend
  <2>6. IsHeapIn(heap, Len(heap) + 1)
    BY <1>1, <1>2, HeapGrows DEF IsHeap
  <2>7. IsHeap(heap')
    BY <2>1, <2>4, <2>5, <2>6, AppendHeap DEF IsHeap
  <2>8. Len(heap) + 1 \in DOMAIN heap'
    BY <1>2, <2>5, SeqIs
  <2>9. ObjectsOK'
    BY <1>3, <2>1, <2>5, <2>7, <2>8
  <2> QED
    BY <1>1, <2>7, <2>9 DEF ConfigInv, RestOK, ParseOK, LiveOK
<1>6. CASE wanted # Null /\ wanted \notin DOMAIN heap[1]
  <2>1. heap' = heap /\ objs' = objs
    BY <1>6 DEF ParseEnd
  <2>2. ObjectsOK'
    BY <1>1, <2>1 DEF ObjectsOK
  <2> QED
    BY <1>1, <2>1, <2>2 DEF ConfigInv, RestOK, ParseOK, LiveOK
<1> QED
  BY <1>4, <1>5, <1>6

----------------------------------------------------------------------------
(* The operations keep the invariant *)

\* A sequence over a set is one over a larger set.
LEMMA SeqOfMore ==
  ASSUME NEW S, NEW T, S \subseteq T, NEW s \in Seq(S)
  PROVE  s \in Seq(T)
OBVIOUS

\* What the invariant says of one object.
LEMMA ObjectIs ==
  ASSUME ConfigInv, NEW n \in DOMAIN objs
  PROVE  /\ objs[n].arr \in DOMAIN heap /\ n \in Nat
         /\ objs[n].cls \in {"ini", "simple"} /\ objs[n].ro \in BOOLEAN
         /\ objs[n].cls = "ini" => objs[n].ro
<1>1. objs \in Seq(ObjectSet) /\ (objs[n].cls = "ini" => objs[n].ro)
  BY DEF ConfigInv, ObjectsOK
<1>2. objs[n] \in ObjectSet /\ n \in Nat
  BY <1>1
<1> QED
  BY <1>1, <1>2 DEF ObjectSet

\* A write makes no array.
LEMMA WriteLen ==
  ASSUME NEW h, IsHeap(h), NEW i \in DOMAIN h, NEW k, NEW v
  PROVE  Len(Write(h, i, k, v)) = Len(h) /\ Len(h) \in Nat
<1>1. IsSeq(h) /\ Len(h) \in Nat
  BY SeqIs DEF IsHeap, IsHeapIn
<1> QED
  BY <1>1, WriteIs

\* Objects that stay keep their arrays when the heap grows.
LEMMA ObjectsStay ==
  ASSUME ObjectsOK, objs' = objs, DOMAIN heap \subseteq DOMAIN heap'
  PROVE  ObjectsOK'
<1>1. ObjectSet \subseteq ObjectSet'
  BY DEF ObjectSet
<1>2. objs' \in Seq(ObjectSet')
  BY <1>1, SeqOfMore DEF ObjectsOK
<1> QED
  BY <1>2 DEF ObjectsOK

\* A new object that is as read-only as the one it was got from.
LEMMA ObjectAdded ==
  ASSUME ObjectsOK, DOMAIN heap \subseteq DOMAIN heap', NEW o \in ObjectSet', objs' = Append(objs, o),
         o.cls = "ini" => o.ro,
         o.parent # Null => o.parent \in DOMAIN objs /\ objs[o.parent].ro = o.ro
  PROVE  ObjectsOK'
<1>1. ObjectSet \subseteq ObjectSet'
  BY DEF ObjectSet
<1>2. objs \in Seq(ObjectSet')
  BY <1>1, SeqOfMore DEF ObjectsOK
<1>3. /\ objs' \in Seq(ObjectSet') /\ Len(objs) \in Nat
      /\ DOMAIN objs = 1 .. Len(objs) /\ DOMAIN objs' = 1 .. Len(objs) + 1
      /\ \A n \in 1 .. Len(objs) : objs'[n] = objs[n]
      /\ objs'[Len(objs) + 1] = o
  BY <1>2
<1>4. ASSUME NEW n \in DOMAIN objs'
      PROVE  /\ objs'[n].cls = "ini" => objs'[n].ro
             /\ objs'[n].parent # Null => objs'[n].parent \in 1 .. (n - 1)
                                          /\ objs'[objs'[n].parent].ro = objs'[n].ro
  <2>1. CASE n = Len(objs) + 1
    BY <1>3, <2>1
  <2>2. CASE n # Len(objs) + 1
    <3>1. n \in DOMAIN objs /\ objs'[n] = objs[n]
      BY <1>3, <2>2
    <3>2. objs[n].parent # Null => objs[n].parent \in 1 .. (n - 1) /\ objs[n].parent \in DOMAIN objs
      BY <1>3, <3>1 DEF ObjectsOK
    <3> QED
      BY <1>3, <3>1, <3>2 DEF ObjectsOK
  <2> QED
    BY <2>1, <2>2
<1> QED
  BY <1>3, <1>4 DEF ObjectsOK

\* What an operation has to show.
LEMMA UseKeeps ==
  ASSUME ConfigInv, NEW op, Operation(op), IsHeap(heap'), ObjectsOK', vars' \in Seq(DOMAIN heap')
  PROVE  ConfigInv'
<1>1. RestOK'
  BY ConfigAssumption DEF Operation, ConfigInv, RestOK
<1>2. phase' = "live" /\ active' = Null
  BY DEF Operation, ConfigInv, LiveOK
<1> QED
  BY <1>1, <1>2 DEF ConfigInv, ParseOK, LiveOK

\* Operations that make or write arrays and leave the objects alone.
LEMMA HeapStep ==
  ASSUME ConfigInv, NEW op, Operation(op), IsHeap(heap'), Len(heap') >= Len(heap), objs' = objs,
         vars' = vars \/ vars' \in Seq(DOMAIN heap')
  PROVE  ConfigInv'
<1>1. DOMAIN heap = 1 .. Len(heap) /\ DOMAIN heap' = 1 .. Len(heap') /\ Len(heap) \in Nat /\ Len(heap') \in Nat
  BY SeqIs DEF ConfigInv, IsHeap, IsHeapIn
<1>2. DOMAIN heap \subseteq DOMAIN heap'
  BY <1>1
<1>3. ObjectsOK'
  BY <1>2, ObjectsStay DEF ConfigInv
<1>4. vars' \in Seq(DOMAIN heap')
  BY <1>2, SeqOfMore DEF ConfigInv
<1> QED
  BY <1>3, <1>4, UseKeeps

\* PHP code making an array keeps the invariant;
LEMMA PhpArrayStep ==
  ASSUME ConfigInv, NEW k, NEW j, PhpArray(k, j)
  PROVE  ConfigInv'
<1> DEFINE n == Len(heap) + 1
           a == Single(k, Arr(Len(heap) + 2))
           b == Single(j, Scalar(steps))
<1>1. /\ Len(heap) \in Nat /\ DOMAIN heap = 1 .. Len(heap) /\ IsSeq(heap) /\ Len(heap) >= 1
      /\ steps \in Nat /\ IsHeap(heap) /\ vars \in Seq(DOMAIN heap)
  BY HeapDomain DEF ConfigInv, RestOK
<1>2. heap' = heap \o <<a, b>> /\ vars' = Append(vars, n) /\ objs' = objs
  BY DEF PhpArray
<1>3. IsArray(a, n + 1, n)
  <2>1. Arr(n + 1) \in Value(n + 1) /\ Arr(n + 1) # Arr(n) /\ Arr(n + 1) # Arr(1) /\ n + 1 = Len(heap) + 2
    BY <1>1, Values
  <2> QED
    BY <2>1, SingleArray
<1>4. IsArray(b, n + 1, n + 1)
  BY <1>1, ScalarValue, SingleArray
<1> HIDE DEF a, b
<1>5. Joined(heap, <<a, b>>, heap')
  <2>1. IsSeq(<<a, b>>)
    <3>1. a \in ToSet(<<a, b>>) /\ b \in ToSet(<<a, b>>)
      BY DEF ToSet
    <3> QED
      BY <3>1 DEF IsSeq
  <2> QED
    BY <1>1, <1>2, <2>1, SeqConcat
<1>6. /\ IsSeq(heap') /\ Len(heap') = n + 1 /\ \A i \in DOMAIN heap : heap'[i] = heap[i]
      /\ heap'[n] = a /\ heap'[n + 1] = b
  <2>1. Len(<<a, b>>) = 2 /\ 1 \in DOMAIN <<a, b>> /\ 2 \in DOMAIN <<a, b>>
        /\ <<a, b>>[1] = a /\ <<a, b>>[2] = b
    OBVIOUS
  <2>2. n = Len(heap) + 1 /\ n + 1 = Len(heap) + 2
    BY <1>1
  <2> HIDE DEF n
  <2> QED
    BY <1>5, <2>1, <2>2 DEF Joined
<1>7. IsHeap(heap')
  <2>1. DOMAIN heap' = 1 .. n + 1
    BY <1>6, SeqIs
  <2>2. ASSUME NEW i \in DOMAIN heap' PROVE IsArray(heap'[i], n + 1, i)
    <3>1. CASE i \in DOMAIN heap
      <4>1. IsArray(heap[i], Len(heap), i) /\ n + 1 \in Nat /\ Len(heap) <= n + 1
        BY <1>1, <3>1 DEF IsHeap, IsHeapIn
      <4>2. IsArray(heap[i], n + 1, i)
        BY <1>1, <4>1, ArrayGrows
      <4> QED
        BY <1>6, <3>1, <4>2
    <3>2. CASE i = n
      BY <1>3, <1>6, <3>2
    <3>3. CASE i = n + 1
      BY <1>4, <1>6, <3>3
    <3> QED
      BY <1>1, <2>1, <3>1, <3>2, <3>3
  <2> QED
    BY <1>1, <1>6, <2>2 DEF IsHeap, IsHeapIn
<1>8. DOMAIN heap' = 1 .. n + 1
  BY <1>6, SeqIs
<1>9. vars' \in Seq(DOMAIN heap')
  <2>1. DOMAIN heap \subseteq DOMAIN heap' /\ n \in DOMAIN heap'
    BY <1>1, <1>8
  <2>2. vars \in Seq(DOMAIN heap')
    BY <1>1, <2>1, SeqOfMore
  <2> QED
    BY <1>2, <2>1, <2>2
<1>10. PICK op : Operation(op)
  BY DEF PhpArray
<1>11. Len(heap') >= Len(heap)
  BY <1>1, <1>6
<1> QED
  BY <1>2, <1>7, <1>9, <1>10, <1>11, HeapStep

\* constructing an object;
LEMMA ConstructStep ==
  ASSUME ConfigInv, NEW v \in DOMAIN vars, NEW ro \in BOOLEAN, NEW cls \in {"ini", "simple"},
         Construct(v, cls, ro)
  PROVE  ConfigInv'
<1> DEFINE o == Object(vars[v], cls, ro, Null)
<1>1. heap' = heap /\ vars' = vars /\ objs' = Append(objs, o) /\ (cls = "ini" => ro)
  BY DEF Construct
<1>2. vars[v] \in DOMAIN heap
  BY DEF ConfigInv
<1>3. o \in ObjectSet' /\ (o.cls = "ini" => o.ro) /\ o.parent = Null
  BY <1>1, <1>2 DEF Object, ObjectSet
<1>4. DOMAIN heap \subseteq DOMAIN heap'
  BY <1>1
<1> HIDE DEF o
<1>5. ObjectsOK'
  BY <1>1, <1>3, <1>4, ObjectAdded DEF ConfigInv
<1>6. PICK op : Operation(op)
  BY DEF Construct
<1>7. IsHeap(heap') /\ vars' \in Seq(DOMAIN heap')
  BY <1>1 DEF ConfigInv
<1> QED
  BY <1>5, <1>6, <1>7, UseKeeps

\* get(), because a nested object inherits readonly;
LEMMA GetStep ==
  ASSUME ConfigInv, NEW n \in DOMAIN objs, NEW k, Get(n, k)
  PROVE  ConfigInv'
<1> DEFINE i == heap[objs[n].arr][k].id
           o == Format(n, i)
<1>1. heap' = heap /\ vars' = vars /\ objs' = Append(objs, o)
      /\ k \in DOMAIN heap[objs[n].arr] /\ IsArr(heap[objs[n].arr][k])
  BY DEF Get
<1>2. /\ objs[n].arr \in DOMAIN heap /\ n \in Nat
      /\ objs[n].cls \in {"ini", "simple"} /\ objs[n].ro \in BOOLEAN
      /\ (objs[n].cls = "ini" => objs[n].ro)
  BY ObjectIs
<1>3. i \in DOMAIN heap
  BY <1>1, <1>2, FoundArray DEF ConfigInv
<1> HIDE DEF i
<1>4. o \in ObjectSet' /\ (o.cls = "ini" => o.ro) /\ o.parent = n /\ o.ro = objs[n].ro
  BY <1>1, <1>2, <1>3 DEF Format, Object, ObjectSet
<1>5. DOMAIN heap \subseteq DOMAIN heap'
  BY <1>1
<1> HIDE DEF o
<1>6. ObjectsOK'
  BY <1>1, <1>4, <1>5, ObjectAdded DEF ConfigInv
<1>7. PICK op : Operation(op)
  BY DEF Get
<1>8. IsHeap(heap') /\ vars' \in Seq(DOMAIN heap')
  BY <1>1 DEF ConfigInv
<1> QED
  BY <1>6, <1>7, <1>8, UseKeeps

\* toArray();
LEMMA ToArrayStep ==
  ASSUME ConfigInv, NEW n \in DOMAIN objs, ToArray(n)
  PROVE  ConfigInv'
<1>1. heap' = heap /\ objs' = objs /\ vars' = Append(vars, objs[n].arr)
  BY DEF ToArray
<1>2. objs[n].arr \in DOMAIN heap /\ vars \in Seq(DOMAIN heap)
  BY ObjectIs DEF ConfigInv
<1>3. vars' \in Seq(DOMAIN heap')
  BY <1>1, <1>2
<1>4. IsHeap(heap') /\ Len(heap') >= Len(heap)
  BY <1>1, HeapDomain DEF ConfigInv
<1>5. PICK op : Operation(op)
  BY DEF ToArray
<1> QED
  BY <1>1, <1>3, <1>4, <1>5, HeapStep

\* set();
LEMMA SetStep ==
  ASSUME ConfigInv, NEW n \in DOMAIN objs, NEW k, Set(n, k)
  PROVE  ConfigInv'
<1>1. heap' = Write(heap, objs[n].arr, k, Scalar(steps)) /\ objs' = objs /\ vars' = vars
  BY DEF Set, UpdateProps
<1>2. objs[n].arr \in DOMAIN heap /\ steps \in Nat /\ IsHeap(heap)
  BY ObjectIs DEF ConfigInv, RestOK
<1>3. IsHeap(heap')
  BY <1>1, <1>2, WriteScalar
<1>4. Len(heap') = Len(heap) /\ Len(heap) \in Nat
  BY <1>1, <1>2, WriteLen
<1>5. PICK op : Operation(op)
  BY DEF Set
<1> QED
  BY <1>1, <1>3, <1>4, <1>5, HeapStep

\* offsetUnset();
LEMMA UnsetStep ==
  ASSUME ConfigInv, NEW n \in DOMAIN objs, NEW k, OffsetUnset(n, k)
  PROVE  ConfigInv'
<1> DEFINE i == objs[n].arr
           a == [x \in DOMAIN heap[i] \ {k} |-> heap[i][x]]
<1>1. heap' = [heap EXCEPT ![i] = a] /\ objs' = objs /\ vars' = vars
  BY DEF OffsetUnset
<1>2. i \in DOMAIN heap /\ IsHeap(heap) /\ IsSeq(heap) /\ Len(heap) \in Nat
  BY ObjectIs, HeapDomain DEF ConfigInv
<1>3. IsArray(a, Len(heap), i)
  <2>1. IsArray(heap[i], Len(heap), i)
    BY <1>2 DEF IsHeap, IsHeapIn
  <2>2. DOMAIN a \subseteq DOMAIN heap[i] /\ \A x \in DOMAIN a : a[x] = heap[i][x]
    OBVIOUS
  <2> HIDE DEF a
  <2>3. IsFiniteSet(DOMAIN a)
    BY <2>1, <2>2, FS_Subset DEF IsArray
  <2> QED
    BY <2>1, <2>2, <2>3 DEF IsArray
<1> HIDE DEF a, i
<1>4. IsSeq(heap') /\ Len(heap') = Len(heap) /\ heap'[i] = a /\ \A j \in DOMAIN heap : j # i => heap'[j] = heap[j]
  <2>1. \A b : LET t == [heap EXCEPT ![i] = b] IN
          IsSeq(t) /\ Len(t) = Len(heap) /\ t[i] = b /\ \A j \in DOMAIN heap : j # i => t[j] = heap[j]
    <3>1. IsSeq(heap) /\ i \in DOMAIN heap
      BY <1>2
    <3> QED
      BY <3>1, SeqExcept
  <2> QED
    BY <1>1, <2>1
<1>5. IsHeap(heap')
  <2>1. DOMAIN heap' = DOMAIN heap
    BY <1>2, <1>4, SeqIs
  <2> QED
    BY <1>2, <1>3, <1>4, <2>1 DEF IsHeap, IsHeapIn
<1>6. PICK op : Operation(op)
  BY DEF OffsetUnset
<1>7. Len(heap') >= Len(heap)
  BY <1>2, <1>4
<1> QED
  BY <1>1, <1>5, <1>6, <1>7, HeapStep

\* and PHP code writing to an array.
LEMMA PhpWriteStep ==
  ASSUME ConfigInv, NEW v \in DOMAIN vars, NEW k, PhpWrite(v, k)
  PROVE  ConfigInv'
<1> DEFINE i == vars[v]
           a == Over(Single(k, Scalar(steps)), heap[i])
           n == Len(heap) + 1
<1>1. PICK op : Operation(op)
  BY DEF PhpWrite
<1>2. /\ i \in DOMAIN heap /\ IsHeap(heap) /\ IsSeq(heap) /\ Len(heap) \in Nat
      /\ DOMAIN heap = 1 .. Len(heap) /\ steps \in Nat /\ vars \in Seq(DOMAIN heap)
  BY HeapDomain DEF ConfigInv, RestOK
<1>3. objs' = objs
  BY DEF PhpWrite
<1>4. CASE RefCount(i) > 1
  <2>1. heap' = Append(heap, a) /\ vars' = [vars EXCEPT ![v] = n]
    BY <1>4 DEF PhpWrite
  <2>2. IsArray(a, n, n)
    <3>1. Scalar(steps) \in Value(n) /\ Scalar(steps) # Arr(n) /\ Scalar(steps) # Arr(1)
      BY <1>2, ScalarValue
    <3>2. IsArray(Single(k, Scalar(steps)), n, n)
      BY <3>1, SingleArray
    <3>3. n \notin DOMAIN heap /\ n \in Nat /\ n >= Len(heap)
      BY <1>2
    <3>4. IsArray(heap[i], n, n)
      BY <1>2, <3>3, CopyArray
    <3> QED
      BY <3>2, <3>4, OverArray
  <2> HIDE DEF a, i
  <2>3. IsSeq(heap') /\ Len(heap') = n
    BY <1>2, <2>1, SeqAppend
  <2>4. IsHeapIn(heap, n)
    BY <1>2, HeapGrows DEF IsHeap
  <2>5. IsHeap(heap')
    BY <2>1, <2>2, <2>3, <2>4, AppendHeap DEF IsHeap
  <2>6. vars' \in Seq(DOMAIN heap')
    <3>1. DOMAIN heap' = 1 .. n
      BY <2>3, SeqIs
    <3>2. DOMAIN heap \subseteq DOMAIN heap' /\ n \in DOMAIN heap'
      BY <1>2, <3>1
    <3>3. vars \in Seq(DOMAIN heap')
      BY <1>2, <3>2, SeqOfMore
    <3> QED
      BY <2>1, <3>2, <3>3
  <2>7. Len(heap') >= Len(heap)
    BY <1>2, <2>3
  <2> QED
    BY <1>1, <1>3, <2>5, <2>6, <2>7, HeapStep
<1>5. CASE ~(RefCount(i) > 1)
  <2>1. heap' = Write(heap, i, k, Scalar(steps)) /\ vars' = vars
    BY <1>5 DEF PhpWrite
  <2> HIDE DEF i
  <2>2. IsHeap(heap')
    BY <1>2, <2>1, WriteScalar
  <2>3. Len(heap') >= Len(heap)
    <3>1. Len(heap') = Len(heap)
      BY <1>2, <2>1, WriteLen
    <3> QED
      BY <1>2, <3>1
  <2> QED
    BY <1>1, <1>3, <2>1, <2>2, <2>3, HeapStep
<1> QED
  BY <1>4, <1>5

\* Every step keeps the invariant.
LEMMA InvNext ==
  ASSUME ConfigInv, [Next]_state
  PROVE  ConfigInv'
<1>1. CASE ParseLine
  <2>1. CASE \E h \in Headers : Header(h)
    BY <2>1, HeaderStep
  <2>2. CASE LastHeader \/ IgnoredLine
    BY <2>2, IgnoredStep
  <2>3. CASE \E p \in Paths : Entry(p)
    BY <2>3, EntryStep
  <2>4. CASE \E k \in Keys : ListAppend(k)
    <3>1. PICK k \in Keys : ListAppend(k)
      BY <2>4
    <3>2. \E j : ListEntry(k, j)
      BY <3>1 DEF ListAppend
    <3> QED
      BY <3>2, ListStep
  <2>5. CASE \E k \in Keys, j \in Names : ListEntry(k, j)
    BY <2>5, ListStep
  <2> QED
    BY <1>1, <2>1, <2>2, <2>3, <2>4, <2>5 DEF ParseLine
<1>2. CASE ParseEnd
  BY <1>2, ParseEndStep
<1>3. CASE Use
  <2>1. CASE \E k \in Keys, j \in Names : PhpArray(k, j)
    BY <2>1, PhpArrayStep
  <2>2. CASE \E v \in DOMAIN vars, ro \in BOOLEAN, cls \in {"ini", "simple"} : Construct(v, cls, ro)
    BY <2>2, ConstructStep
  <2>3. ASSUME NEW n \in DOMAIN objs, ToArray(n) PROVE ConfigInv'
    BY <2>3, ToArrayStep
  <2>4. ASSUME NEW n \in DOMAIN objs, NEW k, Get(n, k) PROVE ConfigInv'
    BY <2>4, GetStep
  <2>5. ASSUME NEW n \in DOMAIN objs, NEW k, Set(n, k) PROVE ConfigInv'
    BY <2>5, SetStep
  <2>6. ASSUME NEW n \in DOMAIN objs, NEW k, OffsetUnset(n, k) PROVE ConfigInv'
    BY <2>6, UnsetStep
  <2>7. CASE \E v \in DOMAIN vars, k \in Keys : PhpWrite(v, k)
    BY <2>7, PhpWriteStep
  <2> QED
    BY <1>3, <2>1, <2>2, <2>3, <2>4, <2>5, <2>6, <2>7, Zenon DEF Use
<1>4. CASE UNCHANGED state
  <2> USE <1>4 DEF state
  <2>1. ObjectsOK' /\ RestOK' /\ ParseOK' /\ LiveOK'
    BY DEF ConfigInv, ObjectsOK, ObjectSet, RestOK, ParseOK, LiveOK, Rooted, ParsedSection
  <2> QED
    BY <2>1 DEF ConfigInv
<1> QED
  BY <1>1, <1>2, <1>3, <1>4 DEF Next

\* The invariant.
LEMMA ConfigInvariant ==
  Spec => []ConfigInv
<1>1. ConfigInv /\ [Next]_state => ConfigInv'
  BY InvNext
<1> QED
  BY <1>1, InvInit, PTL DEF Spec

\* yaf_config_ini_parser_cb and the methods of the configuration classes
\* leave every variable in its type: references lead to arrays that exist,
\* and YAF_G(active_ini_file_section) is a section of the file, so that what is
\* written to it is not lost.
THEOREM ConfigTypes ==
  Spec => []TypeOK
<1>1. ASSUME ConfigInv PROVE TypeOK
  <2>1. ASSUME NEW i \in DOMAIN heap, NEW k \in DOMAIN heap[i]
        PROVE  LET v == heap[i][k] IN IF IsArr(v) THEN v.id \in DOMAIN heap ELSE v.val \in Nat
    <3>1. heap[i][k] \in Value(Len(heap)) /\ DOMAIN heap = 1 .. Len(heap)
      BY <1>1, HeapDomain DEF ConfigInv, IsHeap, IsHeapIn, IsArray
    <3> QED
      BY <3>1, Values
  <2>2. \A n \in DOMAIN objs : objs[n].arr \in DOMAIN heap /\ (objs[n].cls = "ini" => objs[n].ro)
    BY <1>1, ObjectIs
  <2>3. \A v \in DOMAIN vars : vars[v] \in DOMAIN heap
    BY <1>1 DEF ConfigInv
  <2>4. active /= Null => \E s \in Sections : s \in DOMAIN heap[1] /\ heap[1][s] = Arr(active)
    BY <1>1 DEF ConfigInv, RestOK, ParseOK, LiveOK, ParsedSection
  <2> QED
    BY <1>1, <2>1, <2>2, <2>3, <2>4 DEF TypeOK, ConfigInv, RestOK
<1> QED
  BY <1>1, ConfigInvariant, PTL

----------------------------------------------------------------------------
(* Reference counts *)

SlotRefs(i) == {s \in UNION {{j} \X DOMAIN heap[j] : j \in Reach(heap, Held)} : heap[s[1]][s[2]] = Arr(i)}

ObjectRefs(i) == {n \in DOMAIN objs : objs[n].arr = i}

VarRefs(i) == {n \in DOMAIN vars : vars[n] = i}

\* References lead to arrays that exist.
LEMMA ChildrenExist ==
  ASSUME NEW h, IsHeap(h), NEW S, S \subseteq DOMAIN h
  PROVE  Children(h, S) \subseteq DOMAIN h
<1>1. ASSUME NEW i \in S, NEW k \in DOMAIN h[i], IsArr(h[i][k]) PROVE h[i][k].id \in DOMAIN h
  BY <1>1, FoundArray
<1> QED
  BY <1>1 DEF Children

\* So does reachability.
LEMMA ReachExists ==
  ASSUME NEW h, IsHeap(h), NEW S, S \subseteq DOMAIN h
  PROVE  Reach(h, S) \subseteq DOMAIN h
<1> DEFINE one == S \cup Children(h, S)
<1>1. one \subseteq DOMAIN h
  BY ChildrenExist
<1> HIDE DEF one
<1>2. Children(h, one) \subseteq DOMAIN h
  BY <1>1, ChildrenExist
<1> QED
  BY <1>1, <1>2 DEF Reach, one

\* What objects and variables hold exists.
LEMMA HeldExists ==
  ASSUME ConfigInv
  PROVE  Held \subseteq DOMAIN heap
<1>1. 1 \in DOMAIN heap
  BY HeapDomain DEF ConfigInv
<1>2. \A o \in ToSet(objs) : o.arr \in DOMAIN heap
  BY ObjectIs DEF ToSet
<1>3. ToSet(vars) \subseteq DOMAIN heap
  BY DEF ConfigInv, ToSet
<1> QED
  BY <1>1, <1>2, <1>3 DEF Held

\* The references to an array can be counted.
LEMMA RefsFinite ==
  ASSUME ConfigInv, NEW i
  PROVE  IsFiniteSet(SlotRefs(i)) /\ IsFiniteSet(ObjectRefs(i)) /\ IsFiniteSet(VarRefs(i))
<1> DEFINE R == Reach(heap, Held)
           T == {{j} \X DOMAIN heap[j] : j \in R}
           f == [j \in R |-> {j} \X DOMAIN heap[j]]
<1>1. R \subseteq DOMAIN heap /\ DOMAIN heap = 1 .. Len(heap) /\ Len(heap) \in Nat
  BY HeldExists, ReachExists, HeapDomain DEF ConfigInv
<1>2. IsFiniteSet(1 .. Len(heap))
  BY <1>1, FS_Interval
<1>3. IsFiniteSet(R)
  BY <1>1, <1>2, FS_Subset
<1> HIDE DEF R
<1>4. f \in Surjection(R, T)
  BY DEF Surjection
<1>5. IsFiniteSet(T)
  BY <1>3, <1>4, FS_Surjection
<1>6. ASSUME NEW t \in T PROVE IsFiniteSet(t)
  <2>1. PICK j \in R : t = {j} \X DOMAIN heap[j]
    OBVIOUS
  <2>2. IsFiniteSet({j})
    BY FS_Singleton
  <2>3. IsFiniteSet(DOMAIN heap[j])
    BY <1>1 DEF ConfigInv, IsHeap, IsHeapIn, IsArray
  <2> QED
    BY <2>1, <2>2, <2>3, FS_Product
<1>7. IsFiniteSet(UNION T)
  BY <1>5, <1>6, FS_UNION
<1>8. IsFiniteSet(SlotRefs(i))
  <2>1. SlotRefs(i) \in SUBSET (UNION T)
    BY DEF SlotRefs, R
  <2> QED
    BY <1>7, <2>1, FS_Subset
<1>9. IsFiniteSet(ObjectRefs(i))
  <2>1. DOMAIN objs = 1 .. Len(objs) /\ Len(objs) \in Nat
    BY DEF ConfigInv, ObjectsOK
  <2>2. IsFiniteSet(DOMAIN objs)
    BY <2>1, FS_Interval
  <2>3. ObjectRefs(i) \in SUBSET DOMAIN objs
    BY DEF ObjectRefs
  <2> QED
    BY <2>2, <2>3, FS_Subset
<1>10. IsFiniteSet(VarRefs(i))
  <2>1. DOMAIN vars = 1 .. Len(vars) /\ Len(vars) \in Nat
    BY DEF ConfigInv
  <2>2. IsFiniteSet(DOMAIN vars)
    BY <2>1, FS_Interval
  <2>3. VarRefs(i) \in SUBSET DOMAIN vars
    BY DEF VarRefs
  <2> QED
    BY <2>2, <2>3, FS_Subset
<1> QED
  BY <1>8, <1>9, <1>10

\* The reference count is the number of its three kinds of references.
LEMMA RefCountIs ==
  ASSUME NEW i
  PROVE  RefCount(i) = Cardinality(SlotRefs(i)) + Cardinality(ObjectRefs(i)) + Cardinality(VarRefs(i))
BY Zenon DEF RefCount, SlotRefs, ObjectRefs, VarRefs

\* An array that is not shared has one reference.
LEMMA SoleReference ==
  ASSUME ConfigInv, NEW i, ~(RefCount(i) > 1)
  PROVE  /\ VarRefs(i) # {} => SlotRefs(i) = {} /\ ObjectRefs(i) = {}
         /\ \A s, t \in SlotRefs(i) : s = t
<1> DEFINE a == Cardinality(SlotRefs(i))
           b == Cardinality(ObjectRefs(i))
           c == Cardinality(VarRefs(i))
<1>1. a \in Nat /\ b \in Nat /\ c \in Nat
  BY RefsFinite, FS_CardinalityType
<1>2. (a = 0 <=> SlotRefs(i) = {}) /\ (b = 0 <=> ObjectRefs(i) = {}) /\ (c = 0 <=> VarRefs(i) = {})
  BY RefsFinite, FS_EmptySet
<1>3. a = 1 <=> \E x : SlotRefs(i) = {x}
  BY RefsFinite, FS_Singleton
<1>4. ~(a + b + c > 1)
  BY RefCountIs
<1> HIDE DEF a, b, c
<1>5. (c # 0 => a = 0 /\ b = 0) /\ (a = 0 \/ a = 1)
  BY <1>1, <1>4
<1> QED
  BY <1>2, <1>3, <1>5

----------------------------------------------------------------------------
(* Leaves *)

\* Going one level deeper reads the arrays that are referred to only.
LEMMA DeepenSame ==
  ASSUME NEW h, NEW g, NEW S, \A s \in S : IsArr(s.v) => Slots(g, s.v.id) = Slots(h, s.v.id)
  PROVE  Deepen(g, S) = Deepen(h, S)
<1> DEFINE D(x, s) == IF IsArr(s.v) THEN {[path |-> s.path \o t.path, v |-> t.v] : t \in Slots(x, s.v.id)}
                                    ELSE {s}
<1>1. Deepen(g, S) = UNION {D(g, s) : s \in S} /\ Deepen(h, S) = UNION {D(h, s) : s \in S}
  BY DEF Deepen
<1>2. \A s \in S : D(g, s) = D(h, s)
  OBVIOUS
<1> HIDE DEF D
<1> QED
  BY <1>1, <1>2

\* The slots of an array are its own.
LEMMA SlotsSame ==
  ASSUME NEW h, NEW g, NEW i, g[i] = h[i]
  PROVE  Slots(g, i) = Slots(h, i)
BY DEF Slots

\* What a slot of the first two levels refers to is within reach.
LEMMA DeepenReach ==
  ASSUME NEW h, NEW i
  PROVE  /\ \A s \in Slots(h, i) : IsArr(s.v) => s.v.id \in Children(h, {i})
         /\ \A s \in Deepen(h, Slots(h, i)) : IsArr(s.v) => s.v.id \in Children(h, {i} \cup Children(h, {i}))
<1>1. ASSUME NEW j, NEW S, j \in S, NEW s \in Slots(h, j), IsArr(s.v) PROVE s.v.id \in Children(h, S)
  <2>1. PICK k \in DOMAIN h[j] : s = [path |-> <<k>>, v |-> h[j][k]]
    BY DEF Slots
  <2>2. s.v = h[j][k]
    BY <2>1
  <2> QED
    BY <1>1, <2>2 DEF Children
<1>2. ASSUME NEW s \in Deepen(h, Slots(h, i)), IsArr(s.v)
      PROVE  s.v.id \in Children(h, {i} \cup Children(h, {i}))
  <2>1. PICK r \in Slots(h, i) :
          s \in IF IsArr(r.v) THEN {[path |-> r.path \o t.path, v |-> t.v] : t \in Slots(h, r.v.id)} ELSE {r}
    BY DEF Deepen
  <2>2. CASE IsArr(r.v)
    <3>1. PICK t \in Slots(h, r.v.id) : s = [path |-> r.path \o t.path, v |-> t.v]
      BY <2>1, <2>2
    <3>2. s.v = t.v /\ r.v.id \in Children(h, {i})
      BY <1>1, <2>2, <3>1
    <3> QED
      BY <1>1, <1>2, <3>2
  <2>3. CASE ~IsArr(r.v)
    BY <1>2, <2>1, <2>3
  <2> QED
    BY <2>2, <2>3
<1> QED
  BY <1>1, <1>2

\* The leaves below an array depend on what is within its reach only.
LEMMA LeavesSame ==
  ASSUME NEW h, NEW g, NEW i, \A j \in Reach(h, {i}) : g[j] = h[j]
  PROVE  Leaves(g, i) = Leaves(h, i)
<1> DEFINE one == {i} \cup Children(h, {i})
<1>1. Reach(h, {i}) = one \cup Children(h, one)
  BY DEF Reach
<1>2. Slots(g, i) = Slots(h, i)
  BY <1>1, SlotsSame
<1>3. Deepen(g, Slots(h, i)) = Deepen(h, Slots(h, i))
  <2>1. \A s \in Slots(h, i) : IsArr(s.v) => Slots(g, s.v.id) = Slots(h, s.v.id)
    BY <1>1, DeepenReach, SlotsSame
  <2> QED
    BY <2>1, DeepenSame
<1> DEFINE S == Deepen(h, Slots(h, i))
<1>4. \A s \in S : IsArr(s.v) => Slots(g, s.v.id) = Slots(h, s.v.id)
  BY <1>1, DeepenReach, SlotsSame
<1> HIDE DEF S
<1>5. Deepen(g, S) = Deepen(h, S)
  BY <1>4, DeepenSame
<1> QED
  BY <1>2, <1>3, <1>5 DEF Leaves, S

\* An unshared array that a variable holds is not within reach of an object.
LEMMA SoleVariable ==
  ASSUME ConfigInv, NEW v \in DOMAIN vars, ~(RefCount(vars[v]) > 1), NEW n \in DOMAIN objs
  PROVE  vars[v] \notin Reach(heap, {objs[n].arr})
<1> DEFINE i == vars[v]
           a == objs[n].arr
<1>1. SlotRefs(i) = {} /\ ObjectRefs(i) = {}
  <2>1. v \in VarRefs(i)
    BY DEF VarRefs
  <2> QED
    BY <2>1, SoleReference
<1>2. i # a
  BY <1>1 DEF ObjectRefs
<1>3. a \in Held
  BY DEF Held, ToSet
<1>4. {a} \cup Children(heap, {a}) \subseteq Reach(heap, Held)
  BY <1>3 DEF Reach, Children
<1>5. ASSUME NEW j \in Reach(heap, Held), NEW k \in DOMAIN heap[j] PROVE heap[j][k] # Arr(i)
  <2>1. <<j, k>> \in UNION {{x} \X DOMAIN heap[x] : x \in Reach(heap, Held)}
    OBVIOUS
  <2> QED
    BY <1>1, <2>1 DEF SlotRefs
<1>6. ASSUME NEW S \in SUBSET Reach(heap, Held) PROVE i \notin Children(heap, S)
  <2>1. Reach(heap, Held) \subseteq DOMAIN heap /\ IsHeap(heap)
    BY HeldExists, ReachExists DEF ConfigInv
  <2>2. ASSUME NEW j \in S, NEW k \in DOMAIN heap[j], IsArr(heap[j][k]) PROVE heap[j][k].id # i
    <3>1. heap[j][k] = Arr(heap[j][k].id)
      BY <2>1, <2>2, FoundArray
    <3> QED
      BY <1>5, <3>1
  <2> QED
    BY <2>2 DEF Children
<1> HIDE DEF i, a
<1>7. {a} \in SUBSET Reach(heap, Held)
  BY <1>4
<1> QED
  BY <1>2, <1>4, <1>6, <1>7 DEF Reach, i, a

----------------------------------------------------------------------------
(* Read-only objects and nested objects *)

\* An object is as read-only as the object it was got from at first.
LEMMA OriginReadonly ==
  ASSUME ConfigInv, NEW n \in DOMAIN objs
  PROVE  objs[Origin(n)].ro = objs[n].ro
<1>1. \A m \in DOMAIN objs : objs[m].parent # Null =>
        objs[m].parent \in DOMAIN objs /\ objs[objs[m].parent].ro = objs[m].ro
  <2>1. DOMAIN objs = 1 .. Len(objs) /\ Len(objs) \in Nat
    BY DEF ConfigInv, ObjectsOK
  <2> QED
    BY <2>1 DEF ConfigInv, ObjectsOK
<1>2. CASE objs[n].parent = Null
  BY <1>2 DEF Origin
<1>3. CASE objs[n].parent # Null
  <2> DEFINE p == objs[n].parent
  <2>1. p \in DOMAIN objs /\ objs[p].ro = objs[n].ro
    BY <1>1, <1>3
  <2>2. CASE objs[p].parent = Null
    BY <1>3, <2>1, <2>2 DEF Origin
  <2>3. CASE objs[p].parent # Null
    BY <1>1, <1>3, <2>1, <2>3 DEF Origin
  <2> QED
    BY <2>2, <2>3
<1> QED
  BY <1>2, <1>3

\* What an object shows changes only with an array within its reach.
LEMMA UnchangedThen ==
  ASSUME ConfigInv, NEW n \in DOMAIN objs, \A j \in Reach(heap, {objs[n].arr}) : heap'[j] = heap[j]
  PROVE  ~Changed(n)
<1> DEFINE a == objs[n].arr
<1>1. Leaves(heap', a) = Leaves(heap, a)
  BY LeavesSame
<1> QED
  BY <1>1 DEF Changed

\* A new array changes no object;
LEMMA HeapAppended ==
  ASSUME ConfigInv, NEW a, heap' = Append(heap, a), NEW n \in DOMAIN objs
  PROVE  ~Changed(n)
<1>1. \A j \in DOMAIN heap : heap'[j] = heap[j]
  BY HeapDomain, SeqAppend DEF ConfigInv
<1>2. {objs[n].arr} \subseteq DOMAIN heap
  BY ObjectIs
<1>3. Reach(heap, {objs[n].arr}) \subseteq DOMAIN heap
  BY <1>2, ReachExists DEF ConfigInv
<1> QED
  BY <1>1, <1>3, UnchangedThen

\* nor does a step that writes nothing,
LEMMA HeapStays ==
  ASSUME ConfigInv, heap' = heap, NEW n \in DOMAIN objs
  PROVE  ~Changed(n)
BY DEF Changed

\* nor PHP code making an array.
LEMMA ArrayMade ==
  ASSUME ConfigInv, NEW k, NEW j, PhpArray(k, j), NEW n \in DOMAIN objs
  PROVE  ~Changed(n)
<1> DEFINE t == <<Single(k, Arr(Len(heap) + 2)), Single(j, Scalar(steps))>>
<1>1. heap' = heap \o t
  BY DEF PhpArray
<1>2. IsSeq(heap) /\ IsSeq(t)
  <2>2. ASSUME NEW a, NEW b PROVE IsSeq(<<a, b>>)
    <3>1. a \in ToSet(<<a, b>>) /\ b \in ToSet(<<a, b>>)
      BY DEF ToSet
    <3> QED
      BY <3>1 DEF IsSeq
  <2> QED
    BY <2>2, HeapDomain DEF ConfigInv
<1> HIDE DEF t
<1>3. Joined(heap, t, heap')
  BY <1>1, <1>2, SeqConcat
<1>4. {objs[n].arr} \subseteq DOMAIN heap
  BY ObjectIs
<1>5. Reach(heap, {objs[n].arr}) \subseteq DOMAIN heap
  BY <1>4, ReachExists DEF ConfigInv
<1> QED
  BY <1>3, <1>5, UnchangedThen DEF Joined

\* PHP code writes to an array of its own only.
LEMMA PhpWriteHarmless ==
  ASSUME ConfigInv, NEW v \in DOMAIN vars, NEW k, PhpWrite(v, k), NEW n \in DOMAIN objs
  PROVE  ~Changed(n)
<1>1. CASE RefCount(vars[v]) > 1
  <2>1. \E a : heap' = Append(heap, a)
    BY <1>1 DEF PhpWrite
  <2> QED
    BY <2>1, HeapAppended
<1>2. CASE ~(RefCount(vars[v]) > 1)
  <2> DEFINE i == vars[v]
             x == Scalar(steps)
  <2>1. heap' = Write(heap, i, k, x)
    BY <1>2 DEF PhpWrite
  <2>2. i \in DOMAIN heap /\ IsSeq(heap)
    BY HeapDomain DEF ConfigInv
  <2>3. i \notin Reach(heap, {objs[n].arr})
    BY <1>2, SoleVariable
  <2>4. {objs[n].arr} \subseteq DOMAIN heap
    BY ObjectIs
  <2>5. Reach(heap, {objs[n].arr}) \subseteq DOMAIN heap
    BY <2>4, ReachExists DEF ConfigInv
  <2> HIDE DEF i, x
  <2>6. \A j \in DOMAIN heap : j # i => heap'[j] = heap[j]
    BY <2>1, <2>2, WriteIs
  <2> QED
    BY <2>3, <2>5, <2>6, UnchangedThen
<1> QED
  BY <1>1, <1>2

ReadonlyAct ==
  \A n \in DOMAIN objs : objs[n].ro /\ Changed(n) =>
    last'.op \in {"set", "unset"} /\ ~objs[Origin(last'.obj)].ro

\* If set() or offsetUnset() is allowed, the object it was got from was constructed writable.
LEMMA WriteAllowed ==
  ASSUME ConfigInv, NEW m \in DOMAIN objs, NEW k, Set(m, k) \/ OffsetUnset(m, k)
  PROVE  ReadonlyAct
<1>1. ~objs[m].ro
  BY DEF Set, OffsetUnset
<1>2. last'.op \in {"set", "unset"} /\ last'.obj = m
  BY DEF Set, OffsetUnset, Operation
<1>3. ~objs[Origin(m)].ro
  BY <1>1, OriginReadonly
<1> QED
  BY <1>2, <1>3 DEF ReadonlyAct

\* A step changes a read-only object only through one that is writable.
LEMMA ReadonlyStep ==
  ASSUME ConfigInv, Next
  PROVE  ReadonlyAct
<1>1. CASE phase = "parse"
  <2>1. DOMAIN objs = {}
    BY <1>1 DEF ConfigInv, ParseOK
  <2> QED
    BY <2>1 DEF ReadonlyAct
<1>2. CASE phase # "parse"
  <2>1. Use
    BY <1>2 DEF Next, ParseLine, ParseEnd, NextLine, Header, LastHeader, IgnoredLine, Entry,
                ListAppend, ListEntry
  <2>2. CASE \E n \in DOMAIN objs : \E k : Set(n, k) \/ OffsetUnset(n, k)
    BY <2>2, WriteAllowed
  <2>3. ASSUME NEW n \in DOMAIN objs, ~(\E m \in DOMAIN objs : \E k : Set(m, k) \/ OffsetUnset(m, k))
        PROVE  ~Changed(n)
    <3>1. CASE \E k, j : PhpArray(k, j)
      BY <3>1, ArrayMade
    <3>2. CASE \E v \in DOMAIN vars : \E k : PhpWrite(v, k)
      BY <3>2, PhpWriteHarmless
    <3>3. CASE heap' = heap
      BY <3>3, HeapStays
    <3>4. \A v, cls, ro : Construct(v, cls, ro) => heap' = heap
      BY DEF Construct
    <3>5. \A m : ToArray(m) => heap' = heap
      BY DEF ToArray
    <3>6. \A m, k : Get(m, k) => heap' = heap
      BY DEF Get
    <3> QED
      BY <2>1, <2>3, <3>1, <3>2, <3>3, <3>4, <3>5, <3>6, Zenon DEF Use
  <2> QED
    BY <2>2, <2>3 DEF ReadonlyAct
<1> QED
  BY <1>1, <1>2

\* Yaf_Config_Ini::get and Yaf_Config_Simple::get hand readonly on, however
\* deep the nesting: a read-only object changes only when set() or offsetUnset()
\* is called on an object that was got from one constructed writable, never
\* through PHP code writing to an array it has handed in or got from toArray().
THEOREM ReadonlyStaysReadonly ==
  Spec => ReadonlyThroughGet
<1>1. ConfigInv /\ [Next]_state => [ReadonlyAct]_state
  BY ReadonlyStep
<1>2. Spec => [][ReadonlyAct]_state
  BY <1>1, ConfigInvariant, PTL DEF Spec
<1> QED
  BY <1>2 DEF ReadonlyThroughGet, ReadonlyAct

NestedAct ==
  last'.op = "set" /\ steps' /= steps => LET n == last'.obj p == objs[n].parent IN
    p /= Null => \A k \in DOMAIN heap[objs[p].arr] :
      heap[objs[p].arr][k] = Arr(objs[n].arr) =>
        [path |-> <<k, last'.key>>, v |-> last'.value] \in Leaves(heap', objs'[p].arr)

\* A scalar two levels deep is a leaf.
LEMMA LeafTwo ==
  ASSUME NEW h, NEW i, NEW k \in DOMAIN h[i], NEW j, h[i][k] = Arr(j), NEW x \in DOMAIN h[j],
         ~IsArr(h[j][x])
  PROVE  [path |-> <<k, x>>, v |-> h[j][x]] \in Leaves(h, i)
<1> DEFINE s == [path |-> <<k>>, v |-> h[i][k]]
           t == [path |-> <<x>>, v |-> h[j][x]]
           l == [path |-> <<k, x>>, v |-> h[j][x]]
           S == Deepen(h, Slots(h, i))
<1>1. s \in Slots(h, i) /\ t \in Slots(h, j) /\ IsArr(s.v) /\ s.v.id = j
  BY DEF Slots, IsArr, Arr
<1>2. l = [path |-> s.path \o t.path, v |-> t.v]
  OBVIOUS
<1>3. l.v = h[j][x]
  OBVIOUS
<1> HIDE DEF s, t, l
<1>4. l \in S
  <2> DEFINE D(r) == IF IsArr(r.v) THEN {[path |-> r.path \o u.path, v |-> u.v] : u \in Slots(h, r.v.id)}
                     ELSE {r}
  <2>1. D(s) = {[path |-> s.path \o u.path, v |-> u.v] : u \in Slots(h, j)}
    BY <1>1
  <2>2. l \in D(s)
    <3> HIDE DEF D
    <3> QED
      BY <1>1, <1>2, <2>1
  <2>3. S = UNION {D(r) : r \in Slots(h, i)}
    BY DEF Deepen
  <2> HIDE DEF D, S
  <2> QED
    BY <1>1, <2>2, <2>3
<1> HIDE DEF S
<1>5. l \in Deepen(h, S)
  BY <1>3, <1>4 DEF Deepen
<1> QED
  BY <1>5 DEF Leaves, S, l

\* A scalar that is set in a nested array is a leaf of the array around it.
LEMMA SetReaches ==
  ASSUME ConfigInv, NEW n \in DOMAIN objs, NEW key, Set(n, key)
  PROVE  NestedAct
<1> DEFINE p == objs[n].parent
           i == objs[n].arr
           v == Scalar(steps)
<1>1. last'.op = "set" /\ last'.obj = n /\ last'.key = key /\ last'.value = v /\ objs' = objs
      /\ heap' = Write(heap, i, key, v)
  BY DEF Set, Operation, UpdateProps
<1>2. SUFFICES ASSUME p # Null, NEW k \in DOMAIN heap[objs[p].arr], heap[objs[p].arr][k] = Arr(i)
               PROVE  [path |-> <<k, key>>, v |-> v] \in Leaves(heap', objs[p].arr)
  BY <1>1 DEF NestedAct
<1>3. p \in DOMAIN objs
  <2>1. DOMAIN objs = 1 .. Len(objs) /\ Len(objs) \in Nat
    BY DEF ConfigInv, ObjectsOK
  <2> QED
    BY <1>2, <2>1 DEF ConfigInv, ObjectsOK
<1> DEFINE a == objs[p].arr
<1>4. a \in DOMAIN heap /\ i \in DOMAIN heap /\ steps \in Nat /\ IsHeap(heap) /\ IsSeq(heap)
  BY <1>3, ObjectIs, HeapDomain DEF ConfigInv, RestOK
<1>5. a # i
  <2>1. IsArr(heap[a][k]) /\ heap[a][k].id = i
    BY <1>2, Values
  <2> QED
    BY <1>2, <1>4, <2>1, FoundArray
<1>6. ~IsArr(v)
  BY <1>4, ScalarValue
<1> HIDE DEF a, i, v, p
<1>7. heap'[a] = heap[a] /\ key \in DOMAIN heap'[i] /\ heap'[i][key] = v
  BY <1>1, <1>4, <1>5, WriteIs
<1>8. k \in DOMAIN heap'[a] /\ heap'[a][k] = Arr(i)
  BY <1>2, <1>7 DEF a
<1>9. [path |-> <<k, key>>, v |-> heap'[i][key]] \in Leaves(heap', a)
  BY <1>6, <1>7, <1>8, LeafTwo
<1> QED
  BY <1>7, <1>9 DEF a

\* Every step.
LEMMA NestedStep ==
  ASSUME ConfigInv, Next
  PROVE  NestedAct
<1>1. CASE \E n \in DOMAIN objs : \E k : Set(n, k)
  BY <1>1, SetReaches
<1>2. CASE ~(\E n \in DOMAIN objs : \E k : Set(n, k))
  <2>1. last'.op # "set" \/ steps' = steps
    <3>1. \A h, p, k, j : Header(h) \/ LastHeader \/ IgnoredLine \/ Entry(p) \/ ListEntry(k, j)
            => last'.op # "set"
      BY DEF Header, LastHeader, IgnoredLine, Entry, ListEntry, NextLine
    <3>2. \A k : ListAppend(k) => \E j : ListEntry(k, j)
      BY DEF ListAppend
    <3>3. ParseEnd => steps' = steps
      BY DEF ParseEnd
    <3>4. \A k, j, v, cls, ro, n : PhpArray(k, j) \/ Construct(v, cls, ro) \/ Get(n, k) \/ ToArray(n)
              \/ OffsetUnset(n, k) \/ PhpWrite(v, k) => last'.op # "set"
      BY DEF PhpArray, Construct, Get, ToArray, OffsetUnset, PhpWrite, Operation
    <3> QED
      BY <1>2, <3>1, <3>2, <3>3, <3>4, Zenon DEF Next, ParseLine, Use
  <2> QED
    BY <2>1 DEF NestedAct
<1> QED
  BY <1>1, <1>2

\* Yaf_Config_Simple::set on an object got with get() writes to the array that
\* it shares with the object it was got from, which therefore shows the value.
THEOREM NestedSetShows ==
  Spec => NestedSetReachesParent
<1>1. ConfigInv /\ [Next]_state => [NestedAct]_state
  BY NestedStep
<1>2. Spec => [][NestedAct]_state
  BY <1>1, ConfigInvariant, PTL DEF Spec
<1> QED
  BY <1>2 DEF NestedSetReachesParent, NestedAct

----------------------------------------------------------------------------
(* Prefixes *)

\* IsPrefix, entry by entry.
LEMMA PrefixIs ==
  ASSUME NEW p, NEW q, IsSeq(p), IsSeq(q)
  PROVE  IsPrefix(p, q) <=> Len(p) <= Len(q) /\ \A i \in 1 .. Len(p) : p[i] = q[i]
<1> DEFINE T == ToSet(p) \cup ToSet(q)
           n == Len(p)
<1>1. p \in Seq(T) /\ q \in Seq(T)
  BY SeqIs DEF IsSeq
<1>2. n \in Nat /\ Len(q) \in Nat
  BY <1>1
<1>3. CASE n <= Len(q)
  <2>1. SubSeq(p, 1, n) = [i \in 1 .. n |-> p[i]] /\ SubSeq(q, 1, n) = [i \in 1 .. n |-> q[i]]
    <3>1. \A s \in Seq(T) : n <= Len(s) => SubSeq(s, 1, n) = [i \in 1 .. n |-> s[i]]
      <4>1. ASSUME NEW s \in Seq(T), n <= Len(s) PROVE SubSeq(s, 1, n) = [i \in 1 .. n |-> s[i]]
        <5> DEFINE u == SubSeq(s, 1, n)
        <5>1. u \in Seq(T) /\ Len(u) = n /\ \A i \in 1 .. n : u[i] = s[i]
          BY <1>2, <4>1, SubSeqProperties
        <5>2. u = [i \in 1 .. Len(u) |-> u[i]]
          BY <5>1
        <5> HIDE DEF u
        <5>3. u = [i \in 1 .. n |-> s[i]]
          BY <5>1, <5>2
        <5> QED
          BY <5>3 DEF u
      <4> QED
        BY <4>1
    <3> QED
      BY <1>1, <1>2, <1>3, <3>1
  <2>2. [i \in 1 .. n |-> p[i]] = [i \in 1 .. n |-> q[i]] <=> \A i \in 1 .. n : p[i] = q[i]
    OBVIOUS
  <2> QED
    BY <1>3, <2>1, <2>2 DEF IsPrefix
<1>4. CASE ~(n <= Len(q))
  BY <1>4 DEF IsPrefix
<1> QED
  BY <1>3, <1>4

\* Paths of one and of two segments.
LEMMA ShortSeqs ==
  ASSUME NEW k, NEW j
  PROVE  /\ IsSeq(<<k>>) /\ Len(<<k>>) = 1 /\ <<k>>[1] = k
         /\ IsSeq(<<k, j>>) /\ Len(<<k, j>>) = 2 /\ <<k, j>>[1] = k /\ <<k, j>>[2] = j
         /\ <<k>> \o <<j>> = <<k, j>>
<1>1. k \in ToSet(<<k>>) /\ k \in ToSet(<<k, j>>) /\ j \in ToSet(<<k, j>>)
  BY DEF ToSet
<1>2. IsSeq(<<k>>) /\ Len(<<k>>) = 1 /\ <<k>>[1] = k
  BY <1>1 DEF IsSeq
<1>3. IsSeq(<<k, j>>) /\ Len(<<k, j>>) = 2 /\ <<k, j>>[1] = k /\ <<k, j>>[2] = j
  BY <1>1 DEF IsSeq
<1> DEFINE T == {k, j}
           a == <<k>> \o <<j>>
<1>0. <<k>> \in Seq(T) /\ <<j>> \in Seq(T) /\ <<k, j>> \in Seq(T)
  OBVIOUS
<1>4. a = <<k, j>>
  <2>1. a \in Seq(T) /\ Len(a) = 2 /\ a[1] = k /\ a[2] = j
    BY <1>0
  <2> HIDE DEF a
  <2>2. a = [i \in 1 .. 2 |-> a[i]]
    BY <2>1
  <2>3. [i \in 1 .. 2 |-> a[i]] = <<k, j>>
    BY <2>1
  <2> QED
    BY <2>2, <2>3
<1> QED
  BY <1>2, <1>3, <1>4

\* A path of three segments, put together either way.
LEMMA TailJoined ==
  ASSUME NEW k, NEW j, NEW x
  PROVE  <<k, j>> \o <<x>> = <<k, j, x>>
<1> DEFINE T == {k, j, x}
           c == <<k, j>> \o <<x>>
<1>1. <<k, j>> \in Seq(T) /\ <<x>> \in Seq(T) /\ <<k, j, x>> \in Seq(T)
  OBVIOUS
<1>2. c \in Seq(T) /\ Len(c) = 3 /\ c[1] = k /\ c[2] = j /\ c[3] = x
  BY <1>1
<1> HIDE DEF c
<1>3. c = [i \in 1 .. 3 |-> c[i]]
  BY <1>2
<1>4. [i \in 1 .. 3 |-> c[i]] = <<k, j, x>>
  BY <1>2
<1> QED
  BY <1>3, <1>4 DEF c

\* The first segment of a joined path.
LEMMA HeadJoined ==
  ASSUME NEW k, NEW j, NEW x
  PROVE  <<k>> \o <<j, x>> = <<k, j, x>>
<1> DEFINE T == {k, j, x}
           c == <<k>> \o <<j, x>>
<1>1. <<k>> \in Seq(T) /\ <<j, x>> \in Seq(T) /\ <<k, j, x>> \in Seq(T)
  OBVIOUS
<1>2. c \in Seq(T) /\ Len(c) = 3 /\ c[1] = k /\ c[2] = j /\ c[3] = x
  BY <1>1
<1> HIDE DEF c
<1>3. c = [i \in 1 .. 3 |-> c[i]]
  BY <1>2
<1>4. [i \in 1 .. 3 |-> c[i]] = <<k, j, x>>
  BY <1>2
<1> QED
  BY <1>3, <1>4 DEF c

\* Prefixes among paths of one and of two segments.
LEMMA ShortPrefixes ==
  ASSUME NEW k, NEW j, NEW x, NEW y
  PROVE  /\ IsPrefix(<<k>>, <<x>>) <=> k = x
         /\ IsPrefix(<<k>>, <<x, y>>) <=> k = x
         /\ ~IsPrefix(<<k, j>>, <<x>>)
         /\ IsPrefix(<<k, j>>, <<x, y>>) <=> k = x /\ j = y
         /\ <<k>> # <<x, y>>
<1> DEFINE a == <<k>>
           b == <<x>>
           c == <<k, j>>
           d == <<x, y>>
<1>1. /\ IsSeq(a) /\ Len(a) = 1 /\ a[1] = k
      /\ IsSeq(b) /\ Len(b) = 1 /\ b[1] = x
      /\ IsSeq(c) /\ Len(c) = 2 /\ c[1] = k /\ c[2] = j
      /\ IsSeq(d) /\ Len(d) = 2 /\ d[1] = x /\ d[2] = y
  <2>1. /\ IsSeq(<<k>>) /\ Len(<<k>>) = 1 /\ <<k>>[1] = k
        /\ IsSeq(<<k, j>>) /\ Len(<<k, j>>) = 2 /\ <<k, j>>[1] = k /\ <<k, j>>[2] = j
    BY ShortSeqs, Zenon
  <2>2. /\ IsSeq(<<x>>) /\ Len(<<x>>) = 1 /\ <<x>>[1] = x
        /\ IsSeq(<<x, y>>) /\ Len(<<x, y>>) = 2 /\ <<x, y>>[1] = x /\ <<x, y>>[2] = y
    BY ShortSeqs, Zenon
  <2> QED
    BY <2>1, <2>2
<1> HIDE DEF a, b, c, d
<1>2. IsPrefix(a, b) <=> k = x
  <2>1. IsPrefix(a, b) <=> Len(a) <= Len(b) /\ \A i \in 1 .. Len(a) : a[i] = b[i]
    BY <1>1, PrefixIs, Zenon
  <2> QED
    BY <1>1, <2>1
<1>3. IsPrefix(a, d) <=> k = x
  <2>1. IsPrefix(a, d) <=> Len(a) <= Len(d) /\ \A i \in 1 .. Len(a) : a[i] = d[i]
    BY <1>1, PrefixIs, Zenon
  <2> QED
    BY <1>1, <2>1
<1>4. ~IsPrefix(c, b)
  <2>1. IsPrefix(c, b) <=> Len(c) <= Len(b) /\ \A i \in 1 .. Len(c) : c[i] = b[i]
    BY <1>1, PrefixIs, Zenon
  <2> QED
    BY <1>1, <2>1
<1>5. IsPrefix(c, d) <=> k = x /\ j = y
  <2>1. IsPrefix(c, d) <=> Len(c) <= Len(d) /\ \A i \in 1 .. Len(c) : c[i] = d[i]
    BY <1>1, PrefixIs, Zenon
  <2> QED
    BY <1>1, <2>1
<1>6. a # d
  BY <1>1
<1> QED
  BY <1>2, <1>3, <1>4, <1>5, <1>6 DEF a, b, c, d

\* Paths with different first segments.
LEMMA HeadsDiffer ==
  ASSUME NEW p, NEW q, IsSeq(p), IsSeq(q), Len(p) >= 1, p[1] # q[1]
  PROVE  ~IsPrefix(p, q)
BY PrefixIs, SeqIs

\* <<s>> before a path.
LEMMA PutBefore ==
  ASSUME NEW s, NEW p, IsSeq(p)
  PROVE  /\ IsSeq(<<s>> \o p) /\ Len(<<s>> \o p) = Len(p) + 1 /\ (<<s>> \o p)[1] = s
         /\ \A i \in 1 .. Len(p) : (<<s>> \o p)[i + 1] = p[i]
         /\ Head(<<s>> \o p) = s /\ Tail(<<s>> \o p) = p
<1> DEFINE one == <<s>>
           u == one \o p
<1>1. IsSeq(one) /\ Len(one) = 1 /\ one[1] = s /\ DOMAIN one = {1}
  <2>1. IsSeq(one) /\ Len(one) = 1 /\ one[1] = s
    BY ShortSeqs, Zenon
  <2>2. DOMAIN one = {1}
    OBVIOUS
  <2> QED
    BY <2>1, <2>2
<1>2. Joined(one, p, u)
  BY <1>1, SeqConcat, Zenon
<1>3. Len(p) \in Nat /\ DOMAIN p = 1 .. Len(p)
  BY SeqIs
<1>4. p \in Seq(ToSet(p) \cup {s})
  BY SeqIs DEF IsSeq
<1>5. Head(u) = s /\ Tail(u) = p
  BY <1>4, HeadTailAppend
<1> HIDE DEF u, one
<1>6. IsSeq(u) /\ Len(u) = Len(p) + 1 /\ u[1] = s /\ \A i \in 1 .. Len(p) : u[i + 1] = p[i]
  BY <1>1, <1>2, <1>3 DEF Joined
<1> QED
  BY <1>5, <1>6 DEF u, one

\* A common first segment does not matter.
LEMMA PrefixBefore ==
  ASSUME NEW s, NEW p, NEW t, NEW q, IsSeq(p), IsSeq(q)
  PROVE  IsPrefix(<<s>> \o p, <<t>> \o q) <=> s = t /\ IsPrefix(p, q)
<1> DEFINE a == <<s>> \o p
           b == <<t>> \o q
<1>1. /\ IsSeq(a) /\ Len(a) = Len(p) + 1 /\ a[1] = s /\ \A i \in 1 .. Len(p) : a[i + 1] = p[i]
  BY PutBefore
<1>2. /\ IsSeq(b) /\ Len(b) = Len(q) + 1 /\ b[1] = t /\ \A i \in 1 .. Len(q) : b[i + 1] = q[i]
  BY PutBefore
<1>3. Len(p) \in Nat /\ Len(q) \in Nat
  BY SeqIs
<1> HIDE DEF a, b
<1>5. IsPrefix(a, b) <=> Len(a) <= Len(b) /\ \A i \in 1 .. Len(a) : a[i] = b[i]
  <2>1. IsSeq(a) /\ IsSeq(b)
    BY <1>1, <1>2
  <2> QED
    BY <2>1, PrefixIs, Zenon
<1>6. IsPrefix(p, q) <=> Len(p) <= Len(q) /\ \A i \in 1 .. Len(p) : p[i] = q[i]
  BY PrefixIs
<1>7. ASSUME IsPrefix(a, b) PROVE s = t /\ IsPrefix(p, q)
  <2>1. s = t /\ Len(p) <= Len(q)
    <3>1. 1 \in 1 .. Len(a)
      BY <1>1, <1>3
    <3> QED
      BY <1>1, <1>2, <1>3, <1>5, <1>7, <3>1
  <2>2. ASSUME NEW i \in 1 .. Len(p) PROVE p[i] = q[i]
    <3>1. i + 1 \in 1 .. Len(a) /\ i \in 1 .. Len(q)
      BY <1>1, <1>3, <2>1
    <3> QED
      BY <1>1, <1>2, <1>5, <1>7, <3>1
  <2> QED
    BY <1>6, <2>1, <2>2
<1>8. ASSUME s = t, IsPrefix(p, q) PROVE IsPrefix(a, b)
  <2>1. Len(a) <= Len(b)
    BY <1>1, <1>2, <1>3, <1>6, <1>8
  <2>2. ASSUME NEW i \in 1 .. Len(a) PROVE a[i] = b[i]
    <3>1. CASE i = 1
      BY <1>1, <1>2, <1>8, <3>1
    <3>2. CASE i # 1
      <4>1. i - 1 \in 1 .. Len(p) /\ i - 1 \in 1 .. Len(q) /\ (i - 1) + 1 = i
        BY <1>1, <1>3, <1>6, <1>8, <3>2
      <4>2. a[(i - 1) + 1] = p[i - 1] /\ b[(i - 1) + 1] = q[i - 1]
        BY <1>1, <1>2, <4>1
      <4> QED
        BY <1>6, <1>8, <4>1, <4>2
    <3> QED
      BY <3>1, <3>2
  <2> QED
    BY <1>5, <2>1, <2>2
<1> QED
  BY <1>7, <1>8 DEF a, b

----------------------------------------------------------------------------
(* The leaves of a file, by section and key *)

\* Array i holds scalars, at least one.
IsList(h, i) == DOMAIN h[i] # {} /\ \A j \in DOMAIN h[i] : ~IsArr(h[i][j])

\* Null stands for what is outside all sections.
Places(h) == {Null} \cup (Sections \cap DOMAIN h[1])
Table(h, t) == IF t = Null THEN 1 ELSE h[1][t].id
Tables(h) == {Table(h, t) : t \in Places(h)}

ListsOnly(h, a, T) ==
  \A k \in DOMAIN h[a] \cap Keys : IsArr(h[a][k]) => IsList(h, h[a][k].id) /\ h[a][k].id \notin T

\* Sections have arrays of their own with keys only, and what is under a key
\* is a scalar or a list.
Tabled(h) ==
  /\ DOMAIN h[1] \subseteq Sections \cup Keys
  /\ \A s \in Sections \cap DOMAIN h[1] : IsArr(h[1][s]) /\ DOMAIN h[h[1][s].id] \subseteq Keys
  /\ \A s, t \in Places(h) : Table(h, s) = Table(h, t) => s = t
  /\ \A a \in Tables(h) : ListsOnly(h, a, Tables(h))

SlotView(h, a, k) ==
  IF k \notin DOMAIN h[a] THEN {}
  ELSE IF IsArr(h[a][k]) THEN {[path |-> <<k, j>>, v |-> h[h[a][k].id][j]] : j \in DOMAIN h[h[a][k].id]}
  ELSE {[path |-> <<k>>, v |-> h[a][k]]}

View(h, a) == UNION {SlotView(h, a, k) : k \in Keys}

Lead(t, p) == IF t = Null THEN p ELSE <<t>> \o p
Lift(t, L) == {[path |-> Lead(t, l.path), v |-> l.v] : l \in L}

\* p is a path of key k.
Below(k, p) == IsSeq(p) /\ Len(p) >= 1 /\ p[1] = k

\* Paths of one and of two segments are below their key.
LEMMA ShortBelow ==
  \A k, j : Below(k, <<k>>) /\ Below(k, <<k, j>>)
<1>1. ASSUME NEW k, NEW j PROVE Below(k, <<k>>) /\ Below(k, <<k, j>>)
  <2>1. /\ IsSeq(<<k>>) /\ Len(<<k>>) = 1 /\ <<k>>[1] = k
        /\ IsSeq(<<k, j>>) /\ Len(<<k, j>>) = 2 /\ <<k, j>>[1] = k
    BY ShortSeqs, Zenon
  <2> QED
    BY <2>1 DEF Below
<1> QED
  BY <1>1

\* The leaves of a slot are below its key.
LEMMA SlotBelow ==
  ASSUME NEW h, NEW a, NEW k, NEW l \in SlotView(h, a, k)
  PROVE  Below(k, l.path) /\ l = [path |-> l.path, v |-> l.v]
<1>2. \A j : Below(k, <<k>>) /\ Below(k, <<k, j>>)
  BY ShortBelow, Zenon
<1>3. (\E x : l = [path |-> <<k>>, v |-> x]) \/ (\E j, x : l = [path |-> <<k, j>>, v |-> x])
  BY DEF SlotView
<1>4. ASSUME NEW p, NEW x, l = [path |-> p, v |-> x], Below(k, p)
      PROVE  Below(k, l.path) /\ l = [path |-> l.path, v |-> l.v]
  BY <1>4
<1> QED
  BY <1>2, <1>3, <1>4

\* Paths of different keys or sections are not prefixes of each other.
Apart(p, q) == ~IsPrefix(p, q) /\ ~IsPrefix(q, p)

\* What is below different keys is apart.
LEMMA BelowApart ==
  ASSUME NEW j, NEW k, NEW p, NEW q, Below(j, p), Below(k, q), j # k
  PROVE  Apart(p, q)
BY HeadsDiffer DEF Below, Apart

\* A path with its section before it.
LEMMA LeadIs ==
  ASSUME NEW t, NEW k, NEW p, Below(k, p)
  PROVE  /\ Below(IF t = Null THEN k ELSE t, Lead(t, p))
         /\ Head(Lead(t, p)) = IF t = Null THEN k ELSE t
         /\ t # Null => Tail(Lead(t, p)) = p
<1>1. IsSeq(p) /\ Len(p) >= 1 /\ p[1] = k
  BY DEF Below
<1>2. CASE t = Null
  <2>1. Head(p) = k
    BY <1>1 DEF IsSeq
  <2> QED
    BY <1>1, <1>2, <2>1 DEF Lead, Below
<1>3. CASE t # Null
  <2>1. /\ IsSeq(<<t>> \o p) /\ Len(<<t>> \o p) = Len(p) + 1 /\ (<<t>> \o p)[1] = t
        /\ Head(<<t>> \o p) = t /\ Tail(<<t>> \o p) = p
    BY <1>1, PutBefore
  <2>2. Lead(t, p) = <<t>> \o p
    BY <1>3 DEF Lead
  <2>3. Len(p) \in Nat
    BY <1>1, SeqIs
  <2> QED
    BY <1>1, <1>3, <2>1, <2>2, <2>3 DEF Below
<1> QED
  BY <1>2, <1>3

\* A section before both paths does not matter.
LEMMA LeadPrefix ==
  ASSUME NEW t, NEW p, NEW q, IsSeq(p), IsSeq(q)
  PROVE  /\ IsPrefix(Lead(t, p), Lead(t, q)) <=> IsPrefix(p, q)
         /\ Lead(t, p) = Lead(t, q) <=> p = q
         /\ IsStrictPrefix(Lead(t, p), Lead(t, q)) <=> IsStrictPrefix(p, q)
<1>1. /\ IsPrefix(Lead(t, p), Lead(t, q)) <=> IsPrefix(p, q)
      /\ Lead(t, p) = Lead(t, q) <=> p = q
  <2>1. CASE t = Null
    BY <2>1 DEF Lead
  <2>2. CASE t # Null
    <3>1. Lead(t, p) = <<t>> \o p /\ Lead(t, q) = <<t>> \o q
      BY <2>2 DEF Lead
    <3>2. \A x, y : IsPrefix(<<x>> \o p, <<y>> \o q) <=> x = y /\ IsPrefix(p, q)
      BY PrefixBefore
    <3>3. Tail(<<t>> \o p) = p /\ Tail(<<t>> \o q) = q
      BY PutBefore, Zenon
    <3> QED
      BY <3>1, <3>2, <3>3, Zenon
  <2> QED
    BY <2>1, <2>2
<1> QED
  BY <1>1 DEF IsStrictPrefix

\* What is in different sections, or below different keys, is apart.
LEMMA PlacesApart ==
  ASSUME NEW s \in {Null} \cup Sections, NEW t \in {Null} \cup Sections, NEW j \in Keys, NEW k \in Keys,
         s # t \/ j # k, NEW p, NEW q, Below(j, p), Below(k, q)
  PROVE  Apart(Lead(s, p), Lead(t, q))
<1> DEFINE x == IF s = Null THEN j ELSE s
           y == IF t = Null THEN k ELSE t
<1>1. Below(x, Lead(s, p)) /\ Below(y, Lead(t, q))
  BY LeadIs, Zenon
<1>2. CASE s # t
  <2>1. x # y
    BY <1>2, ConfigAssumption
  <2> QED
    BY <1>1, <2>1, BelowApart
<1>3. CASE s = t
  <2>1. Apart(p, q)
    BY <1>3, BelowApart
  <2> QED
    BY <1>3, <2>1, LeadPrefix DEF Apart, Below
<1> QED
  BY <1>2, <1>3

\* l is a leaf with a proper path.
IsLeaf(l) == IsSeq(l.path) /\ l = [path |-> l.path, v |-> l.v]

\* The leaves of a slot, with the section before their paths.
LEMMA LiftedIs ==
  ASSUME NEW t, NEW L
  PROVE  /\ \A l \in L : [path |-> Lead(t, l.path), v |-> l.v] \in Lift(t, L)
         /\ \A m \in Lift(t, L) : \E l \in L : m = [path |-> Lead(t, l.path), v |-> l.v]
                                               /\ m.path = Lead(t, l.path) /\ m.v = l.v
BY DEF Lift

\* The leaves after an assignment.
LEMMA AssignIs ==
  ASSUME NEW L, NEW path, NEW v
  PROVE  /\ (\E l \in L : IsStrictPrefix(path, l.path)) => Assign(L, path, v) = L
         /\ ~(\E l \in L : IsStrictPrefix(path, l.path)) =>
              Assign(L, path, v) = {l \in L : ~IsPrefix(l.path, path)} \cup {[path |-> path, v |-> v]}
BY DEF Assign

\* Setting a leaf in a section sets it in the file.
LEMMA AssignLift ==
  ASSUME NEW t, NEW P, \A l \in P : IsLeaf(l), NEW path, IsSeq(path), NEW v
  PROVE  Lift(t, Assign(P, path, v)) = Assign(Lift(t, P), Lead(t, path), v)
<1> DEFINE new == [path |-> path, v |-> v]
           top == [path |-> Lead(t, path), v |-> v]
           keep == {l \in P : ~IsPrefix(l.path, path)}
           kept == {l \in Lift(t, P) : ~IsPrefix(l.path, Lead(t, path))}
<1>1. \A l \in P : /\ IsPrefix(Lead(t, l.path), Lead(t, path)) <=> IsPrefix(l.path, path)
                   /\ IsStrictPrefix(Lead(t, path), Lead(t, l.path)) <=> IsStrictPrefix(path, l.path)
  BY LeadPrefix DEF IsLeaf
<1>2. (\E l \in Lift(t, P) : IsStrictPrefix(Lead(t, path), l.path)) <=> \E l \in P : IsStrictPrefix(path, l.path)
  <2>1. ASSUME NEW l \in P, IsStrictPrefix(path, l.path)
        PROVE  \E m \in Lift(t, P) : IsStrictPrefix(Lead(t, path), m.path)
    <3> DEFINE m == [path |-> Lead(t, l.path), v |-> l.v]
    <3>1. m \in Lift(t, P) /\ m.path = Lead(t, l.path)
      BY LiftedIs
    <3> HIDE DEF m
    <3> QED
      BY <1>1, <2>1, <3>1
  <2>2. ASSUME NEW m \in Lift(t, P), IsStrictPrefix(Lead(t, path), m.path)
        PROVE  \E l \in P : IsStrictPrefix(path, l.path)
    BY <1>1, <2>2, LiftedIs
  <2> QED
    BY <2>1, <2>2
<1>3. CASE \E l \in P : IsStrictPrefix(path, l.path)
  BY <1>2, <1>3, AssignIs
<1>4. CASE ~(\E l \in P : IsStrictPrefix(path, l.path))
  <2>1. Assign(P, path, v) = keep \cup {new} /\ Assign(Lift(t, P), Lead(t, path), v) = kept \cup {top}
    BY <1>2, <1>4, AssignIs
  <2>2. Lift(t, keep \cup {new}) = Lift(t, keep) \cup {top}
    <3>1. new.path = path /\ new.v = v
      OBVIOUS
    <3> QED
      BY <3>1 DEF Lift
  <2>3. Lift(t, keep) = kept
    <3>1. \A m \in Lift(t, keep) : m \in kept
      <4>1. ASSUME NEW m \in Lift(t, keep) PROVE m \in kept
        <5>1. PICK l \in keep : m = [path |-> Lead(t, l.path), v |-> l.v] /\ m.path = Lead(t, l.path)
          BY LiftedIs
        <5>2. l \in P /\ ~IsPrefix(l.path, path)
          OBVIOUS
        <5> QED
          BY <1>1, <5>1, <5>2, LiftedIs
      <4> QED
        BY <4>1
    <3>2. \A m \in kept : m \in Lift(t, keep)
      <4>1. ASSUME NEW m \in kept PROVE m \in Lift(t, keep)
        <5>1. m \in Lift(t, P) /\ ~IsPrefix(m.path, Lead(t, path))
          OBVIOUS
        <5>2. PICK l \in P : m = [path |-> Lead(t, l.path), v |-> l.v] /\ m.path = Lead(t, l.path)
          BY <5>1, LiftedIs
        <5>3. l \in keep
          BY <1>1, <5>1, <5>2
        <5> QED
          BY <5>2, <5>3, LiftedIs
      <4> QED
        BY <4>1
    <3> QED
      BY <3>1, <3>2
  <2> QED
    BY <2>1, <2>2, <2>3
<1> QED
  BY <1>3, <1>4

\* Setting a leaf leaves alone what lies apart from it.
LEMMA AssignApart ==
  ASSUME NEW A, NEW P, NEW path, NEW v, \A l \in A : Apart(l.path, path)
  PROVE  Assign(A \cup P, path, v) = A \cup Assign(P, path, v)
<1>1. \A l \in A : ~IsPrefix(l.path, path) /\ ~IsStrictPrefix(path, l.path)
  BY DEF Apart, IsStrictPrefix
<1>2. CASE \E l \in P : IsStrictPrefix(path, l.path)
  <2>1. \E l \in A \cup P : IsStrictPrefix(path, l.path)
    BY <1>2
  <2> QED
    BY <1>2, <2>1, AssignIs
<1>3. CASE ~(\E l \in P : IsStrictPrefix(path, l.path))
  <2>1. ~(\E l \in A \cup P : IsStrictPrefix(path, l.path))
    BY <1>1, <1>3
  <2>2. {l \in A \cup P : ~IsPrefix(l.path, path)} = A \cup {l \in P : ~IsPrefix(l.path, path)}
    BY <1>1
  <2> QED
    BY <1>3, <2>1, <2>2, AssignIs
<1> QED
  BY <1>2, <1>3

Slot(h, a, k) == [path |-> <<k>>, v |-> h[a][k]]

Deepened(h, s) ==
  IF IsArr(s.v) THEN {[path |-> s.path \o <<k>>, v |-> h[s.v.id][k]] : k \in DOMAIN h[s.v.id]} ELSE {s}

FileView(h) == UNION {Lift(t, SlotView(h, Table(h, t), k)) : t \in Places(h), k \in Keys}

\* Deepen, leaf by leaf.
LEMMA DeepenIs ==
  ASSUME NEW h, NEW S
  PROVE  Deepen(h, S) = UNION {Deepened(h, s) : s \in S}
<1> DEFINE D(s) == IF IsArr(s.v) THEN {[path |-> s.path \o t.path, v |-> t.v] : t \in Slots(h, s.v.id)} ELSE {s}
<1>1. ASSUME NEW s \in S PROVE D(s) = Deepened(h, s)
  <2>1. \A i : {[path |-> s.path \o t.path, v |-> t.v] : t \in Slots(h, i)}
               = {[path |-> s.path \o <<k>>, v |-> h[i][k]] : k \in DOMAIN h[i]}
    <3>1. ASSUME NEW i
          PROVE  {[path |-> s.path \o t.path, v |-> t.v] : t \in Slots(h, i)}
                 = {[path |-> s.path \o <<k>>, v |-> h[i][k]] : k \in DOMAIN h[i]}
      <4>1. \A t : t \in Slots(h, i) <=> \E k \in DOMAIN h[i] : t = Slot(h, i, k)
        BY DEF Slots, Slot
      <4>2. \A k : Slot(h, i, k).path = <<k>> /\ Slot(h, i, k).v = h[i][k]
        BY DEF Slot
      <4> DEFINE c(p) == s.path \o p
      <4> HIDE DEF c
      <4>3. {[path |-> c(t.path), v |-> t.v] : t \in Slots(h, i)} = {[path |-> c(<<k>>), v |-> h[i][k]] : k \in DOMAIN h[i]}
        <5>1. \A y \in {[path |-> c(t.path), v |-> t.v] : t \in Slots(h, i)} : \E k \in DOMAIN h[i] : y = [path |-> c(<<k>>), v |-> h[i][k]]
          BY <4>1, <4>2
        <5>2. \A k \in DOMAIN h[i] : [path |-> c(<<k>>), v |-> h[i][k]] \in {[path |-> c(t.path), v |-> t.v] : t \in Slots(h, i)}
          BY <4>1, <4>2
        <5> QED
          BY <5>1, <5>2
      <4> QED
        BY <4>3 DEF c
    <3> QED
      BY <3>1
  <2> QED
    BY <2>1 DEF Deepened
<1>2. Deepen(h, S) = UNION {D(s) : s \in S}
  BY DEF Deepen
<1> HIDE DEF D
<1> QED
  BY <1>1, <1>2

\* What becomes of a slot of the array of the file.
Twice(h, s) == UNION {Deepened(h, m) : m \in Deepened(h, s)}

\* The leaves below an array are the leaves below each of its slots.
LEMMA LeavesOfSlots ==
  ASSUME NEW h
  PROVE  Leaves(h, 1) = UNION {Twice(h, Slot(h, 1, k)) : k \in DOMAIN h[1]}
<1>1. Slots(h, 1) = {Slot(h, 1, k) : k \in DOMAIN h[1]}
  BY DEF Slots, Slot
<1>2. Deepen(h, Slots(h, 1)) = UNION {Deepened(h, Slot(h, 1, k)) : k \in DOMAIN h[1]}
  BY <1>1, DeepenIs
<1>3. Leaves(h, 1) = UNION {Deepened(h, m) : m \in UNION {Deepened(h, Slot(h, 1, k)) : k \in DOMAIN h[1]}}
  BY <1>2, DeepenIs DEF Leaves
<1> QED
  BY <1>3 DEF Twice

\* The leaves of a key outside all sections,
LEMMA KeyTwice ==
  ASSUME NEW h, NEW k \in DOMAIN h[1],
         IsArr(h[1][k]) => IsList(h, h[1][k].id)
  PROVE  Twice(h, Slot(h, 1, k)) = SlotView(h, 1, k)
<1> DEFINE s == Slot(h, 1, k)
<1>0. s.v = h[1][k] /\ s.path = <<k>> /\ s = [path |-> <<k>>, v |-> h[1][k]]
  BY DEF Slot
<1>1. CASE ~IsArr(h[1][k])
  <2>1. Deepened(h, s) = {s}
    BY <1>0, <1>1 DEF Deepened
  <2> QED
    BY <1>0, <1>1, <2>1 DEF Twice, SlotView
<1>2. CASE IsArr(h[1][k])
  <2> DEFINE i == h[1][k].id
             m(j) == [path |-> <<k, j>>, v |-> h[i][j]]
  <2>1. \A j : <<k>> \o <<j>> = <<k, j>>
    BY ShortSeqs, Zenon
  <2>2. Deepened(h, s) = {[path |-> s.path \o <<j>>, v |-> h[i][j]] : j \in DOMAIN h[i]}
    BY <1>0, <1>2 DEF Deepened
  <2>3. Deepened(h, s) = {m(j) : j \in DOMAIN h[i]}
    BY <1>0, <2>1, <2>2
  <2>4. \A j \in DOMAIN h[i] : Deepened(h, m(j)) = {m(j)}
    <3>1. \A j : m(j).v = h[i][j]
      OBVIOUS
    <3> QED
      BY <1>2, <3>1 DEF Deepened, IsList
  <2>5. SlotView(h, 1, k) = {m(j) : j \in DOMAIN h[i]}
    BY <1>2 DEF SlotView
  <2> HIDE DEF m, i
  <2> QED
    BY <2>3, <2>4, <2>5 DEF Twice
<1> QED
  BY <1>1, <1>2

\* and of a section.
LEMMA SectionTwice ==
  ASSUME NEW h, NEW s \in DOMAIN h[1], s # Null, IsArr(h[1][s])
  PROVE  Twice(h, Slot(h, 1, s)) = UNION {Lift(s, SlotView(h, h[1][s].id, k)) : k \in DOMAIN h[h[1][s].id]}
<1> DEFINE a == h[1][s].id
           m(k) == [path |-> <<s, k>>, v |-> h[a][k]]
<1>1. Deepened(h, Slot(h, 1, s)) = {m(k) : k \in DOMAIN h[a]}
  <2>1. \A k : <<s>> \o <<k>> = <<s, k>>
    BY ShortSeqs, Zenon
  <2>2. Slot(h, 1, s).v = h[1][s] /\ Slot(h, 1, s).path = <<s>>
    BY DEF Slot
  <2>3. Deepened(h, Slot(h, 1, s)) = {[path |-> <<s>> \o <<k>>, v |-> h[a][k]] : k \in DOMAIN h[a]}
    BY <2>2 DEF Deepened
  <2> DEFINE c(k) == <<s>> \o <<k>>
  <2>4. \A k : c(k) = <<s, k>>
    BY <2>1
  <2>5. Deepened(h, Slot(h, 1, s)) = {[path |-> c(k), v |-> h[a][k]] : k \in DOMAIN h[a]}
    BY <2>3
  <2> HIDE DEF c, a
  <2> QED
    BY <2>4, <2>5
<1>2. ASSUME NEW k \in DOMAIN h[a] PROVE Deepened(h, m(k)) = Lift(s, SlotView(h, a, k))
  <2>1. \A j : <<s, k>> \o <<j>> = <<s, k, j>> /\ <<s>> \o <<k, j>> = <<s, k, j>> /\ <<s>> \o <<k>> = <<s, k>>
    <3>1. \A j : <<s, k>> \o <<j>> = <<s, k, j>>
      BY TailJoined
    <3>2. \A j : <<s>> \o <<k, j>> = <<s, k, j>>
      BY HeadJoined
    <3>3. <<s>> \o <<k>> = <<s, k>>
      BY ShortSeqs, Zenon
    <3> QED
      BY <3>1, <3>2, <3>3
  <2>2. m(k).v = h[a][k] /\ m(k).path = <<s, k>> /\ m(k) = [path |-> <<s, k>>, v |-> h[a][k]]
    OBVIOUS
  <2> HIDE DEF m
  <2>3. \A p : Lead(s, p) = <<s>> \o p
    BY DEF Lead
  <2>4. CASE ~IsArr(h[a][k])
    <3>1. SlotView(h, a, k) = {[path |-> <<k>>, v |-> h[a][k]]}
      BY <2>4 DEF SlotView
    <3>2. Lift(s, SlotView(h, a, k)) = {[path |-> Lead(s, <<k>>), v |-> h[a][k]]}
      BY <3>1 DEF Lift
    <3>3. Deepened(h, m(k)) = {m(k)}
      BY <2>2, <2>4 DEF Deepened
    <3>4. Lead(s, <<k>>) = <<s, k>>
      <4>1. Lead(s, <<k>>) = <<s>> \o <<k>>
        BY <2>3, Zenon
      <4> QED
        BY <2>1, <4>1, Zenon
    <3> QED
      BY <2>2, <3>2, <3>3, <3>4
  <2>5. CASE IsArr(h[a][k])
    <3> DEFINE i == h[a][k].id
               l(j) == [path |-> <<k, j>>, v |-> h[i][j]]
    <3>1. SlotView(h, a, k) = {l(j) : j \in DOMAIN h[i]}
      BY <2>5 DEF SlotView
    <3>2. \A j : l(j).path = <<k, j>> /\ l(j).v = h[i][j]
      BY SMTT(30)
    <3>3. Lift(s, SlotView(h, a, k)) = {[path |-> <<s>> \o <<k, j>>, v |-> h[i][j]] : j \in DOMAIN h[i]}
      <4> HIDE DEF l
      <4>1. Lift(s, SlotView(h, a, k)) = {[path |-> Lead(s, l(j).path), v |-> l(j).v] : j \in DOMAIN h[i]}
        BY <3>1 DEF Lift
      <4>2. \A j : Lead(s, l(j).path) = <<s>> \o <<k, j>>
        BY <2>3, <3>2
      <4> DEFINE c(j) == <<s>> \o <<k, j>>
      <4> HIDE DEF c
      <4>3. \A j : Lead(s, l(j).path) = c(j)
        BY <4>2 DEF c
      <4>4. Lift(s, SlotView(h, a, k)) = {[path |-> c(j), v |-> h[i][j]] : j \in DOMAIN h[i]}
        <5>1. \A j : l(j).v = h[i][j]
          BY <3>2, Zenon
        <5> QED
          BY <4>1, <4>3, <5>1
      <4> QED
        BY <4>4 DEF c
    <3>4. Deepened(h, m(k)) = {[path |-> <<s, k>> \o <<j>>, v |-> h[i][j]] : j \in DOMAIN h[i]}
      BY <2>2, <2>5 DEF Deepened
    <3> DEFINE d(j) == <<s, k, j>>
    <3>5. \A j : <<s, k>> \o <<j>> = d(j) /\ <<s>> \o <<k, j>> = d(j)
      BY <2>1
    <3> HIDE DEF d, i
    <3>6. Lift(s, SlotView(h, a, k)) = {[path |-> d(j), v |-> h[i][j]] : j \in DOMAIN h[i]}
      BY <3>3, <3>5
    <3>7. Deepened(h, m(k)) = {[path |-> d(j), v |-> h[i][j]] : j \in DOMAIN h[i]}
      BY <3>4, <3>5
    <3> QED
      BY <3>6, <3>7, ZenonT(40)
  <2> QED
    BY <2>4, <2>5
<1> HIDE DEF m, a
<1>3. Twice(h, Slot(h, 1, s)) = UNION {Lift(s, SlotView(h, a, k)) : k \in DOMAIN h[a]}
  BY <1>1, <1>2 DEF Twice
<1> QED
  BY <1>3 DEF a

\* Outside all sections nothing is before a path.
LEMMA LiftNull ==
  ASSUME NEW h, NEW a, NEW k
  PROVE  Lift(Null, SlotView(h, a, k)) = SlotView(h, a, k)
<1>1. \A l \in SlotView(h, a, k) : l = [path |-> l.path, v |-> l.v]
  BY SlotBelow
<1>2. Lift(Null, SlotView(h, a, k)) = {[path |-> l.path, v |-> l.v] : l \in SlotView(h, a, k)}
  BY DEF Lift, Lead
<1> QED
  BY <1>1, <1>2

\* A key that is absent has no leaves.
LEMMA SlotAbsent ==
  ASSUME NEW h, NEW a, NEW k, k \notin DOMAIN h[a], NEW t
  PROVE  SlotView(h, a, k) = {} /\ Lift(t, SlotView(h, a, k)) = {}
BY DEF SlotView, Lift

\* The leaves of the file are the leaves of its tables.
LEMMA LeavesAre ==
  ASSUME NEW h, Tabled(h)
  PROVE  Leaves(h, 1) = FileView(h)
<1>1. Null \notin Sections /\ Keys \cap Sections = {}
  BY ConfigAssumption
<1>2. Table(h, Null) = 1 /\ Null \in Places(h) /\ 1 \in Tables(h)
  BY DEF Table, Places, Tables
<1>3. \A s \in Sections \cap DOMAIN h[1] : s \in Places(h) /\ s # Null /\ Table(h, s) = h[1][s].id
  BY <1>1 DEF Table, Places
<1>4. ASSUME NEW k \in DOMAIN h[1], k \in Keys
      PROVE  Twice(h, Slot(h, 1, k)) = Lift(Null, SlotView(h, Table(h, Null), k))
  <2>1. IsArr(h[1][k]) => IsList(h, h[1][k].id)
    BY <1>2, <1>4 DEF Tabled, ListsOnly
  <2> QED
    BY <1>2, <2>1, KeyTwice, LiftNull
<1>5. ASSUME NEW s \in Sections \cap DOMAIN h[1]
      PROVE  Twice(h, Slot(h, 1, s)) = UNION {Lift(s, SlotView(h, Table(h, s), k)) : k \in Keys}
  <2> DEFINE a == Table(h, s)
  <2>1. IsArr(h[1][s]) /\ DOMAIN h[a] \subseteq Keys
    BY <1>3 DEF Tabled
  <2>2. Twice(h, Slot(h, 1, s)) = UNION {Lift(s, SlotView(h, a, k)) : k \in DOMAIN h[a]}
    BY <1>3, <2>1, SectionTwice
  <2>3. \A k \in Keys : k \notin DOMAIN h[a] => Lift(s, SlotView(h, a, k)) = {}
    BY SlotAbsent
  <2> HIDE DEF a
  <2>4. UNION {Lift(s, SlotView(h, a, k)) : k \in DOMAIN h[a]} = UNION {Lift(s, SlotView(h, a, k)) : k \in Keys}
    BY <2>1, <2>3
  <2> QED
    BY <2>2, <2>4 DEF a
<1>6. \A k \in Keys : k \notin DOMAIN h[1] => Lift(Null, SlotView(h, Table(h, Null), k)) = {}
  BY <1>2, SlotAbsent
<1>7. DOMAIN h[1] \subseteq Sections \cup Keys
  BY DEF Tabled
<1>8. \A l \in Leaves(h, 1) : l \in FileView(h)
  <2>1. ASSUME NEW l \in Leaves(h, 1) PROVE l \in FileView(h)
    <3>1. PICK k \in DOMAIN h[1] : l \in Twice(h, Slot(h, 1, k))
      BY LeavesOfSlots
    <3>2. CASE k \in Keys
      BY <1>2, <1>4, <3>1, <3>2 DEF FileView
    <3>3. CASE k \in Sections
      BY <1>3, <1>5, <3>1, <3>3 DEF FileView
    <3> QED
      BY <1>7, <3>2, <3>3
  <2> QED
    BY <2>1
<1>9. \A l \in FileView(h) : l \in Leaves(h, 1)
  <2>1. ASSUME NEW t \in Places(h), NEW k \in Keys, NEW l \in Lift(t, SlotView(h, Table(h, t), k))
        PROVE  l \in Leaves(h, 1)
    <3>1. CASE t = Null
      <4>1. k \in DOMAIN h[1]
        BY <1>6, <2>1, <3>1
      <4> QED
        BY <1>4, <2>1, <3>1, <4>1, LeavesOfSlots
    <3>2. CASE t \in Sections \cap DOMAIN h[1]
      BY <1>5, <2>1, <3>2, LeavesOfSlots
    <3> QED
      BY <3>1, <3>2 DEF Places
  <2> QED
    BY <2>1 DEF FileView
<1> QED
  BY <1>8, <1>9

----------------------------------------------------------------------------
(* A line that sets one slot *)

\* In w only the slot k of table c may differ, and it holds a scalar or a list.
SlotSet(w, c, k) ==
  /\ \A a \in Tables(heap) \ {c} : w[a] = heap[a]
  /\ DOMAIN w[c] = DOMAIN heap[c] \cup {k}
  /\ \A x \in DOMAIN heap[c] \ {k} : w[c][x] = heap[c][x]
  /\ IsArr(w[c][k]) => IsList(w, w[c][k].id) /\ w[c][k].id \notin Tables(heap)

\* The lists of the other slots are as they were.
ListsKept(w, c, k) ==
  \A a \in Tables(heap) : \A x \in DOMAIN heap[a] \cap Keys :
    IsArr(heap[a][x]) /\ (a # c \/ x # k) => w[heap[a][x].id] = heap[heap[a][x].id]

SameTables(w) == Places(w) = Places(heap) /\ \A t \in Places(heap) : Table(w, t) = Table(heap, t)

\* What leaves the sections of the file alone leaves the tables alone.
LEMMA SameTablesIs ==
  ASSUME NEW w, \A s \in Sections : s \in DOMAIN w[1] <=> s \in DOMAIN heap[1],
         \A s \in Sections \cap DOMAIN heap[1] : w[1][s] = heap[1][s]
  PROVE  SameTables(w) /\ Tables(w) = Tables(heap)
<1>1. Places(w) = Places(heap)
  BY DEF Places
<1>2. \A t \in Places(heap) : Table(w, t) = Table(heap, t)
  BY DEF Places, Table
<1> QED
  BY <1>1, <1>2 DEF SameTables, Tables

\* The tables, by their places.
LEMMA PlacesAre ==
  ASSUME NEW h
  PROVE  /\ Null \in Places(h) /\ Table(h, Null) = 1 /\ 1 \in Tables(h)
         /\ \A s \in Sections \cap DOMAIN h[1] : s \in Places(h) /\ Table(h, s) = h[1][s].id
                                                 /\ h[1][s].id \in Tables(h)
         /\ \A t \in Places(h) : Table(h, t) \in Tables(h)
         /\ \A t \in Places(h) : t \in {Null} \cup Sections
<1>1. Null \notin Sections
  BY ConfigAssumption
<1> QED
  BY <1>1 DEF Places, Table, Tables

\* A line that sets one slot leaves the tables alone,
LEMMA SlotSetRoot ==
  ASSUME NEW c, NEW k \in Keys, NEW w, SlotSet(w, c, k)
  PROVE  SameTables(w) /\ Tables(w) = Tables(heap)
<1>1. k \notin Sections /\ 1 \in Tables(heap)
  BY ConfigAssumption, PlacesAre
<1>2. /\ \A s \in Sections : s \in DOMAIN w[1] <=> s \in DOMAIN heap[1]
      /\ \A s \in Sections \cap DOMAIN heap[1] : w[1][s] = heap[1][s]
  <2>1. CASE c = 1
    BY <1>1, <2>1 DEF SlotSet
  <2>2. CASE c # 1
    BY <1>1, <2>2 DEF SlotSet
  <2> QED
    BY <2>1, <2>2
<1> QED
  BY <1>2, SameTablesIs

\* makes a file of tables again,
LEMMA TabledSet ==
  ASSUME Tabled(heap), NEW c \in Tables(heap), NEW k \in Keys, NEW w,
         SlotSet(w, c, k), ListsKept(w, c, k)
  PROVE  Tabled(w)
<1>1. SameTables(w) /\ Tables(w) = Tables(heap)
  BY SlotSetRoot
<1>2. \A a \in Tables(heap) : DOMAIN heap[a] \subseteq DOMAIN w[a] /\ DOMAIN w[a] \subseteq DOMAIN heap[a] \cup {k}
  BY DEF SlotSet
<1>3. DOMAIN w[1] \subseteq Sections \cup Keys
  BY <1>2, PlacesAre DEF Tabled
<1>4. ASSUME NEW s \in Sections \cap DOMAIN w[1] PROVE IsArr(w[1][s]) /\ DOMAIN w[w[1][s].id] \subseteq Keys
  <2>1. k \notin Sections /\ 1 \in Tables(heap)
    BY ConfigAssumption, PlacesAre
  <2>2. s \in Sections \cap DOMAIN heap[1] /\ w[1][s] = heap[1][s]
    <3>1. CASE c = 1
      BY <2>1, <3>1 DEF SlotSet
    <3>2. CASE c # 1
      BY <2>1, <3>2 DEF SlotSet
    <3> QED
      BY <3>1, <3>2
  <2>3. heap[1][s].id \in Tables(heap)
    BY <2>2, PlacesAre
  <2>4. IsArr(heap[1][s]) /\ DOMAIN heap[heap[1][s].id] \subseteq Keys
    BY <2>2 DEF Tabled
  <2> QED
    BY <1>2, <2>2, <2>3, <2>4
<1>5. \A s, t \in Places(w) : Table(w, s) = Table(w, t) => s = t
  BY <1>1 DEF SameTables, Tabled
<1>6. ASSUME NEW a \in Tables(heap), NEW x \in DOMAIN w[a] \cap Keys, IsArr(w[a][x])
      PROVE  IsList(w, w[a][x].id) /\ w[a][x].id \notin Tables(heap)
  <2>1. CASE a = c /\ x = k
    BY <1>6, <2>1 DEF SlotSet
  <2>2. CASE a # c \/ x # k
    <3>1. x \in DOMAIN heap[a] /\ w[a][x] = heap[a][x]
      BY <2>2 DEF SlotSet
    <3>2. IsList(heap, heap[a][x].id) /\ heap[a][x].id \notin Tables(heap)
      BY <1>6, <3>1 DEF Tabled, ListsOnly
    <3>3. w[heap[a][x].id] = heap[heap[a][x].id]
      BY <1>6, <2>2, <3>1 DEF ListsKept
    <3> QED
      BY <3>1, <3>2, <3>3 DEF IsList
  <2> QED
    BY <2>1, <2>2
<1>7. \A a \in Tables(w) : ListsOnly(w, a, Tables(w))
  BY <1>1, <1>6 DEF ListsOnly
<1> QED
  BY <1>3, <1>4, <1>5, <1>7 DEF Tabled

\* and leaves what the other slots show.
LEMMA ViewsKept ==
  ASSUME NEW c \in Tables(heap), NEW k \in Keys, NEW w, SlotSet(w, c, k), ListsKept(w, c, k),
         NEW a \in Tables(heap), NEW x \in Keys, a # c \/ x # k
  PROVE  SlotView(w, a, x) = SlotView(heap, a, x)
<1>1. x \in DOMAIN w[a] <=> x \in DOMAIN heap[a]
  BY DEF SlotSet
<1>2. CASE x \notin DOMAIN heap[a]
  BY <1>1, <1>2 DEF SlotView
<1>3. CASE x \in DOMAIN heap[a]
  <2>1. w[a][x] = heap[a][x]
    BY <1>3 DEF SlotSet
  <2>2. IsArr(heap[a][x]) => w[heap[a][x].id] = heap[heap[a][x].id]
    BY <1>3 DEF ListsKept
  <2>3. CASE IsArr(heap[a][x])
    BY <1>1, <1>3, <2>1, <2>2, <2>3 DEF SlotView
  <2>4. CASE ~IsArr(heap[a][x])
    BY <1>1, <1>3, <2>1, <2>4 DEF SlotView
  <2> QED
    BY <2>3, <2>4
<1> QED
  BY <1>2, <1>3

\* A line that assigns to one slot assigns to the file.
LEMMA LineSets ==
  ASSUME Tabled(heap), NEW t \in Places(heap), NEW k \in Keys, NEW w,
         SlotSet(w, Table(heap, t), k), ListsKept(w, Table(heap, t), k),
         NEW path, Below(k, path), NEW v,
         SlotView(w, Table(heap, t), k) = Assign(SlotView(heap, Table(heap, t), k), path, v)
  PROVE  Leaves(w, 1) = Assign(Leaves(heap, 1), Lead(t, path), v)
<1> DEFINE c == Table(heap, t)
           P == SlotView(heap, c, k)
           A == UNION {IF s = t /\ x = k THEN {} ELSE Lift(s, SlotView(heap, Table(heap, s), x)) :
                         s \in Places(heap), x \in Keys}
<1>1. c \in Tables(heap)
  BY PlacesAre
<1>2. SameTables(w) /\ Tabled(w)
  BY <1>1, SlotSetRoot, TabledSet
<1>3. ASSUME NEW s \in Places(heap), NEW x \in Keys, ~(s = t /\ x = k)
      PROVE  SlotView(w, Table(w, s), x) = SlotView(heap, Table(heap, s), x)
  <2>1. Table(w, s) = Table(heap, s) /\ Table(heap, s) \in Tables(heap)
    BY <1>2, PlacesAre DEF SameTables
  <2>2. Table(heap, s) # c \/ x # k
    BY <1>3 DEF Tabled
  <2> QED
    BY <1>1, <2>1, <2>2, ViewsKept
<1>4. Leaves(heap, 1) = A \cup Lift(t, P)
  <2>1. Leaves(heap, 1) = UNION {Lift(s, SlotView(heap, Table(heap, s), x)) : s \in Places(heap), x \in Keys}
    BY LeavesAre DEF FileView
  <2> QED
    BY <2>1
<1>5. Leaves(w, 1) = A \cup Lift(t, Assign(P, path, v))
  <2>1. Leaves(w, 1) = UNION {Lift(s, SlotView(w, Table(w, s), x)) : s \in Places(heap), x \in Keys}
    BY <1>2, LeavesAre DEF FileView, SameTables
  <2>2. SlotView(w, Table(w, t), k) = Assign(P, path, v)
    BY <1>2 DEF SameTables
  <2> DEFINE L(s, x) == Lift(s, SlotView(w, Table(w, s), x))
             M(s, x) == Lift(s, SlotView(heap, Table(heap, s), x))
  <2>3. \A s \in Places(heap), x \in Keys : ~(s = t /\ x = k) => L(s, x) = M(s, x)
    BY <1>3
  <2>4. L(t, k) = Lift(t, Assign(P, path, v))
    BY <2>2
  <2>5. Leaves(w, 1) = UNION {L(s, x) : s \in Places(heap), x \in Keys}
    BY <2>1
  <2>6. A = UNION {IF s = t /\ x = k THEN {} ELSE M(s, x) : s \in Places(heap), x \in Keys}
    OBVIOUS
  <2> HIDE DEF L, M, A, P
  <2> QED
    BY <2>3, <2>4, <2>5, <2>6
<1>6. \A l \in A : Apart(l.path, Lead(t, path))
  <2>1. ASSUME NEW s \in Places(heap), NEW x \in Keys, ~(s = t /\ x = k),
               NEW l \in Lift(s, SlotView(heap, Table(heap, s), x))
        PROVE  Apart(l.path, Lead(t, path))
    <3>1. PICK m \in SlotView(heap, Table(heap, s), x) : l.path = Lead(s, m.path)
      BY LiftedIs
    <3>2. Below(x, m.path)
      BY SlotBelow
    <3>3. s \in {Null} \cup Sections /\ t \in {Null} \cup Sections
      BY PlacesAre
    <3> QED
      BY <2>1, <3>1, <3>2, <3>3, PlacesApart
  <2> QED
    BY <2>1
<1>7. Lift(t, Assign(P, path, v)) = Assign(Lift(t, P), Lead(t, path), v)
  <2>1. \A l \in P : IsLeaf(l)
    BY SlotBelow DEF IsLeaf, Below
  <2>2. IsSeq(path)
    BY DEF Below
  <2> HIDE DEF P
  <2> QED
    BY <2>1, <2>2, AssignLift
<1> HIDE DEF A, P
<1>8. Assign(A \cup Lift(t, P), Lead(t, path), v) = A \cup Assign(Lift(t, P), Lead(t, path), v)
  BY <1>6, AssignApart
<1> QED
  BY <1>4, <1>5, <1>7, <1>8

----------------------------------------------------------------------------
(* What a line does to the slot it names *)

\* The leaf of a scalar.
LEMMA NoList ==
  ASSUME NEW h, NEW a, NEW k, ~(k \in DOMAIN h[a] /\ IsArr(h[a][k]))
  PROVE  \A l \in SlotView(h, a, k) : l.path = <<k>>
BY DEF SlotView

\* The leaves of a list.
LEMMA AList ==
  ASSUME NEW h, NEW a, NEW k \in DOMAIN h[a], NEW i, h[a][k] = Arr(i)
  PROVE  SlotView(h, a, k) = {[path |-> <<k, j>>, v |-> h[i][j]] : j \in DOMAIN h[i]}
<1>1. IsArr(h[a][k]) /\ h[a][k].id = i
  BY Values
<1> QED
  BY <1>1 DEF SlotView

\* What lies on the way to path gives way.
LEMMA AssignOver ==
  ASSUME NEW P, NEW path, NEW v, \A l \in P : IsPrefix(l.path, path) /\ ~IsStrictPrefix(path, l.path)
  PROVE  Assign(P, path, v) = {[path |-> path, v |-> v]}
<1>1. ~(\E l \in P : IsStrictPrefix(path, l.path)) /\ {l \in P : ~IsPrefix(l.path, path)} = {}
  OBVIOUS
<1> QED
  BY <1>1, AssignIs

\* Under a key without a list, that is all there is.
LEMMA AssignKey ==
  ASSUME NEW h, NEW a, NEW k, ~(k \in DOMAIN h[a] /\ IsArr(h[a][k])), NEW v
  PROVE  Assign(SlotView(h, a, k), <<k>>, v) = {[path |-> <<k>>, v |-> v]}
<1>1. \A l \in SlotView(h, a, k) : l.path = <<k>>
  BY NoList
<1>2. IsPrefix(<<k>>, <<k>>) /\ ~IsStrictPrefix(<<k>>, <<k>>)
  BY ShortPrefixes DEF IsStrictPrefix
<1>3. \A l \in SlotView(h, a, k) : IsPrefix(l.path, <<k>>) /\ ~IsStrictPrefix(<<k>>, l.path)
  BY <1>1, <1>2, Zenon
<1> QED
  BY <1>3, AssignOver, Zenon

\* Assigning below a key replaces what is at the key.
LEMMA AssignBelowKey ==
  ASSUME NEW h, NEW a, NEW k, ~(k \in DOMAIN h[a] /\ IsArr(h[a][k])), NEW j, NEW v
  PROVE  Assign(SlotView(h, a, k), <<k, j>>, v) = {[path |-> <<k, j>>, v |-> v]}
<1>1. \A l \in SlotView(h, a, k) : l.path = <<k>>
  BY NoList
<1>2. IsPrefix(<<k>>, <<k, j>>) /\ ~IsStrictPrefix(<<k, j>>, <<k>>)
  BY ShortPrefixes DEF IsStrictPrefix
<1>3. \A l \in SlotView(h, a, k) : IsPrefix(l.path, <<k, j>>) /\ ~IsStrictPrefix(<<k, j>>, l.path)
  BY <1>1, <1>2, Zenon
<1> QED
  BY <1>3, AssignOver, Zenon

\* A scalar is set.
LEMMA SetScalar ==
  ASSUME NEW h, NEW w, NEW a, NEW k, NEW v, ~(k \in DOMAIN h[a] /\ IsArr(h[a][k])),
         k \in DOMAIN w[a], w[a][k] = v, ~IsArr(v)
  PROVE  SlotView(w, a, k) = Assign(SlotView(h, a, k), <<k>>, v)
<1>1. SlotView(w, a, k) = {[path |-> <<k>>, v |-> v]}
  BY DEF SlotView
<1>2. Assign(SlotView(h, a, k), <<k>>, v) = {[path |-> <<k>>, v |-> v]}
  BY AssignKey
<1> QED
  BY <1>1, <1>2, Zenon

\* A list of one is set.
LEMMA SetFresh ==
  ASSUME NEW h, NEW w, NEW a, NEW k, NEW j, NEW v, ~(k \in DOMAIN h[a] /\ IsArr(h[a][k])),
         NEW m, k \in DOMAIN w[a], w[a][k] = Arr(m), DOMAIN w[m] = {j}, w[m][j] = v
  PROVE  SlotView(w, a, k) = Assign(SlotView(h, a, k), <<k, j>>, v)
<1>1. SlotView(w, a, k) = {[path |-> <<k, j>>, v |-> v]}
  <2>1. SlotView(w, a, k) = {[path |-> <<k, x>>, v |-> w[m][x]] : x \in {j}}
    BY AList
  <2> QED
    BY <2>1
<1>2. Assign(SlotView(h, a, k), <<k, j>>, v) = {[path |-> <<k, j>>, v |-> v]}
  BY AssignBelowKey
<1> QED
  BY <1>1, <1>2, Zenon

\* A scalar does not replace a list.
LEMMA SetIgnored ==
  ASSUME NEW h, NEW w, NEW a, NEW k, NEW i, NEW m, k \in DOMAIN h[a], h[a][k] = Arr(i), IsList(h, i),
         k \in DOMAIN w[a], w[a][k] = Arr(m), w[m] = h[i], NEW v
  PROVE  SlotView(w, a, k) = Assign(SlotView(h, a, k), <<k>>, v)
<1>1. SlotView(h, a, k) = {[path |-> <<k, j>>, v |-> h[i][j]] : j \in DOMAIN h[i]}
  BY AList
<1>2. SlotView(w, a, k) = {[path |-> <<k, j>>, v |-> w[m][j]] : j \in DOMAIN w[m]}
  BY AList
<1>3. PICK j \in DOMAIN h[i] : TRUE
  BY DEF IsList
<1>4. IsStrictPrefix(<<k>>, <<k, j>>)
  BY ShortPrefixes DEF IsStrictPrefix
<1>5. \E l \in SlotView(h, a, k) : IsStrictPrefix(<<k>>, l.path)
  <2> DEFINE l == [path |-> <<k, j>>, v |-> h[i][j]]
  <2>1. l \in SlotView(h, a, k)
    BY <1>1
  <2>2. l.path = <<k, j>>
    OBVIOUS
  <2> QED
    BY <1>4, <2>1, <2>2
<1> QED
  BY <1>1, <1>2, <1>5, AssignIs

\* A member of a list is set.
LEMMA SetMember ==
  ASSUME NEW h, NEW w, NEW a, NEW k, NEW i, NEW m, k \in DOMAIN h[a], h[a][k] = Arr(i),
         k \in DOMAIN w[a], w[a][k] = Arr(m), NEW j, NEW v,
         DOMAIN w[m] = DOMAIN h[i] \cup {j}, w[m][j] = v, \A x \in DOMAIN h[i] : x # j => w[m][x] = h[i][x]
  PROVE  SlotView(w, a, k) = Assign(SlotView(h, a, k), <<k, j>>, v)
<1> DEFINE P == SlotView(h, a, k)
           old(x) == [path |-> <<k, x>>, v |-> h[i][x]]
           new == [path |-> <<k, j>>, v |-> v]
<1>1. P = {old(x) : x \in DOMAIN h[i]}
  BY AList
<1>2. SlotView(w, a, k) = {[path |-> <<k, x>>, v |-> w[m][x]] : x \in DOMAIN w[m]}
  BY AList
<1>3. \A x : old(x).path = <<k, x>>
  OBVIOUS
<1>4. \A x : /\ ~IsStrictPrefix(<<k, j>>, <<k, x>>)
             /\ IsPrefix(<<k, x>>, <<k, j>>) <=> x = j
  <2>1. \A x, y : IsPrefix(<<k, x>>, <<k, y>>) <=> x = y
    <3>1. ASSUME NEW x, NEW y PROVE IsPrefix(<<k, x>>, <<k, y>>) <=> x = y
      <4>1. IsPrefix(<<k, x>>, <<k, y>>) <=> k = k /\ x = y
        BY ShortPrefixes
      <4> QED
        BY <4>1
    <3> QED
      BY <3>1
  <2> QED
    BY <2>1 DEF IsStrictPrefix
<1>5. ~(\E l \in P : IsStrictPrefix(<<k, j>>, l.path))
  BY <1>1, <1>3, <1>4
<1>6. {l \in P : ~IsPrefix(l.path, <<k, j>>)} = {old(x) : x \in DOMAIN h[i] \ {j}}
  <2> HIDE DEF old, P
  <2>1. \A l \in P : ~IsPrefix(l.path, <<k, j>>) => l \in {old(x) : x \in DOMAIN h[i] \ {j}}
    BY <1>1, <1>3, <1>4
  <2>2. \A x \in DOMAIN h[i] \ {j} : old(x) \in P /\ ~IsPrefix(old(x).path, <<k, j>>)
    BY <1>1, <1>3, <1>4
  <2> QED
    BY <2>1, <2>2
<1>7. SlotView(w, a, k) = {old(x) : x \in DOMAIN h[i] \ {j}} \cup {new}
  <2>1. \A l \in SlotView(w, a, k) : l \in {old(x) : x \in DOMAIN h[i] \ {j}} \cup {new}
    BY <1>2
  <2>2. new \in SlotView(w, a, k)
    BY <1>2
  <2>3. \A x \in DOMAIN h[i] \ {j} : old(x) \in SlotView(w, a, k)
    BY <1>2
  <2> QED
    BY <2>1, <2>2, <2>3
<1> QED
  BY <1>5, <1>6, <1>7, AssignIs

----------------------------------------------------------------------------
(* What a line assigns *)

LinesInv == ConfigInv /\ phase = "parse" /\ Tabled(heap)

\* The line assigns v to path, in table c.
Assigns(w, c, k, path, v) ==
  /\ SlotSet(w, c, k) /\ ListsKept(w, c, k)
  /\ SlotView(w, c, k) = Assign(SlotView(heap, c, k), path, v)

\* The tables exist,
LEMMA TablesExist ==
  ASSUME IsHeap(heap), Tabled(heap)
  PROVE  Tables(heap) \subseteq DOMAIN heap
<1>1. 1 \in DOMAIN heap
  BY HeapDomain
<1>2. \A s \in Sections \cap DOMAIN heap[1] : heap[1][s].id \in DOMAIN heap
  BY <1>1, FoundArray DEF Tabled
<1> QED
  BY <1>1, <1>2 DEF Tables, Table, Places

\* and are live.
LEMMA TablesHeld ==
  ASSUME LinesInv
  PROVE  Tables(heap) \subseteq Reach(heap, Held)
<1>1. 1 \in Held
  BY DEF LinesInv, Held
<1>2. \A s \in Sections \cap DOMAIN heap[1] : heap[1][s].id \in Children(heap, Held)
  BY <1>1 DEF LinesInv, Tabled, Children
<1> QED
  BY <1>1, <1>2 DEF Tables, Table, Places, Reach

\* A list that is not shared is in one slot only.
LEMMA OneSlot ==
  ASSUME LinesInv, NEW c \in Tables(heap), NEW k \in DOMAIN heap[c], NEW i, heap[c][k] = Arr(i),
         ~(RefCount(i) > 1), NEW a \in Tables(heap), NEW x \in DOMAIN heap[a], heap[a][x] = Arr(i)
  PROVE  a = c /\ x = k
<1>1. \A s, t \in SlotRefs(i) : s = t
  BY SoleReference DEF LinesInv
<1>2. a \in Reach(heap, Held) /\ c \in Reach(heap, Held)
  BY TablesHeld
<1>3. \A b \in Reach(heap, Held) : \A y : y \in DOMAIN heap[b] /\ heap[b][y] = Arr(i) => <<b, y>> \in SlotRefs(i)
  <2>1. ASSUME NEW b \in Reach(heap, Held), NEW y \in DOMAIN heap[b], heap[b][y] = Arr(i) PROVE <<b, y>> \in SlotRefs(i)
    <3>1. <<b, y>> \in {b} \X DOMAIN heap[b]
      OBVIOUS
    <3>2. <<b, y>>[1] = b /\ <<b, y>>[2] = y
      OBVIOUS
    <3> QED
      BY <2>1, <3>1, <3>2 DEF SlotRefs
  <2> QED
    BY <2>1
<1>4. <<a, x>> = <<c, k>>
  <2>1. <<a, x>> \in SlotRefs(i) /\ <<c, k>> \in SlotRefs(i)
    BY <1>2, <1>3
  <2> QED
    BY <1>1, <2>1
<1> QED
  BY <1>4

\* Writing a scalar into the list of the slot.
LEMMA ListWritten ==
  ASSUME LinesInv, NEW c \in Tables(heap), NEW k \in Keys, NEW h, IsHeap(h), SlotSet(h, c, k), ListsKept(h, c, k),
         NEW m \in DOMAIN h, m \notin Tables(heap), k \in DOMAIN h[c], h[c][k] = Arr(m),
         \A a \in Tables(heap) : \A x \in DOMAIN heap[a] \cap Keys :
           IsArr(heap[a][x]) /\ (a # c \/ x # k) => heap[a][x].id # m /\ heap[a][x].id \in DOMAIN h,
         NEW j, NEW v, ~IsArr(v), Tables(heap) \subseteq DOMAIN h
  PROVE  SlotSet(Write(h, m, j, v), c, k) /\ ListsKept(Write(h, m, j, v), c, k)
<1> DEFINE w == Write(h, m, j, v)
<1>1. IsSeq(h)
  BY DEF IsHeap, IsHeapIn
<1>2. /\ DOMAIN w[m] = DOMAIN h[m] \cup {j} /\ w[m][j] = v
      /\ \A x \in DOMAIN h[m] : x # j => w[m][x] = h[m][x]
      /\ \A a \in DOMAIN h : a # m => w[a] = h[a]
  BY <1>1, WriteIs
<1> HIDE DEF w
<1>3. \A a \in Tables(heap) : w[a] = h[a]
  BY <1>2
<1>4. IsArr(h[c][k]) /\ h[c][k].id = m
  BY Values
<1>5. IsList(h, m)
  BY <1>4 DEF SlotSet
<1>6. IsList(w, m)
  BY <1>2, <1>5 DEF IsList
<1>7. SlotSet(w, c, k)
  BY <1>3, <1>4, <1>6 DEF SlotSet
<1>8. ListsKept(w, c, k)
  BY <1>2 DEF ListsKept
<1> QED
  BY <1>7, <1>8 DEF w

\* A line that writes nothing.
LEMMA SlotUnchanged ==
  ASSUME LinesInv, NEW c \in Tables(heap), NEW k \in Keys, k \in DOMAIN heap[c]
  PROVE  SlotSet(heap, c, k) /\ ListsKept(heap, c, k)
<1>1. IsArr(heap[c][k]) => IsList(heap, heap[c][k].id) /\ heap[c][k].id \notin Tables(heap)
  BY DEF LinesInv, Tabled, ListsOnly
<1> QED
  BY <1>1 DEF SlotSet, ListsKept

\* A line that separates the list of its slot and writes nothing.
LEMMA SlotSeparated ==
  ASSUME LinesInv, NEW c \in Tables(heap), NEW k \in Keys, k \in DOMAIN heap[c], NEW h, Separated(h, c, k), h # heap
  PROVE  /\ SlotSet(h, c, k) /\ ListsKept(h, c, k)
         /\ IsHeap(h) /\ k \in DOMAIN h[c] /\ h[c][k] = Arr(Len(heap) + 1) /\ Len(heap) + 1 \in DOMAIN h
         /\ h[Len(heap) + 1] = heap[heap[c][k].id]
         /\ DOMAIN heap \subseteq DOMAIN h /\ Len(heap) + 1 \notin DOMAIN heap
<1> DEFINE n == Len(heap) + 1
           i == heap[c][k].id
<1>1. IsHeap(heap) /\ Tabled(heap)
  BY DEF LinesInv, ConfigInv
<1>2. /\ IsArr(heap[c][k]) /\ IsHeap(h) /\ Len(h) = n
      /\ \A j \in DOMAIN heap : j # c => h[j] = heap[j]
      /\ DOMAIN h[c] = DOMAIN heap[c]
      /\ \A x \in DOMAIN heap[c] : x # k => h[c][x] = heap[c][x]
      /\ h[c][k] = Arr(n)
      /\ h[n] = heap[i]
  BY DEF Separated
<1>3. Len(heap) \in Nat /\ DOMAIN heap = 1 .. Len(heap) /\ DOMAIN h = 1 .. n
  BY <1>1, <1>2, HeapDomain, SeqIs DEF IsHeap, IsHeapIn
<1>4. IsArr(h[c][k]) /\ h[c][k].id = n
  BY <1>2, Values
<1>5. Tables(heap) \subseteq DOMAIN heap
  BY <1>1, TablesExist
<1>6. IsList(heap, i) /\ i \notin Tables(heap)
  BY <1>1, <1>2 DEF Tabled, ListsOnly
<1> HIDE DEF n, i
<1>7. n \notin DOMAIN heap /\ n \in DOMAIN h /\ DOMAIN heap \subseteq DOMAIN h
  BY <1>3 DEF n
<1>8. SlotSet(h, c, k)
  <2>1. IsList(h, n) /\ n \notin Tables(heap)
    BY <1>2, <1>5, <1>6, <1>7 DEF IsList
  <2> QED
    BY <1>2, <1>4, <1>5, <2>1 DEF SlotSet
<1>9. ListsKept(h, c, k)
  <2>1. ASSUME NEW a \in Tables(heap), NEW x \in DOMAIN heap[a] \cap Keys, IsArr(heap[a][x])
        PROVE  h[heap[a][x].id] = heap[heap[a][x].id]
    <3>1. heap[a][x].id \in DOMAIN heap
      BY <1>1, <1>5, <2>1, FoundArray
    <3>2. heap[a][x].id # c
      BY <1>1, <2>1 DEF Tabled, ListsOnly
    <3> QED
      BY <1>2, <3>1, <3>2
  <2> QED
    BY <2>1 DEF ListsKept
<1> QED
  BY <1>2, <1>7, <1>8, <1>9 DEF n, i

\* The lists of a table exist and are not tables.
LEMMA ListsExist ==
  ASSUME LinesInv, NEW a \in Tables(heap), NEW x \in DOMAIN heap[a] \cap Keys, IsArr(heap[a][x])
  PROVE  /\ heap[a][x] = Arr(heap[a][x].id) /\ heap[a][x].id \in DOMAIN heap
         /\ heap[a][x].id \notin Tables(heap) /\ IsList(heap, heap[a][x].id)
<1>1. IsHeap(heap) /\ Tabled(heap) /\ a \in DOMAIN heap
  BY TablesExist DEF LinesInv, ConfigInv
<1> QED
  BY <1>1, FoundArray DEF Tabled, ListsOnly

\* The array under the key is not shared, or was separated.
Own(h, c, k) ==
  \/ h = heap /\ ~(RefCount(heap[c][k].id) > 1)
  \/ Separated(h, c, k) /\ h # heap

\* A member of the list is written.
LEMMA ListAssigned ==
  ASSUME LinesInv, NEW c \in Tables(heap), NEW k \in Keys, k \in DOMAIN heap[c], IsArr(heap[c][k]),
         NEW h, Own(h, c, k), NEW j, NEW v, ~IsArr(v)
  PROVE  Assigns(Write(h, h[c][k].id, j, v), c, k, <<k, j>>, v)
<1> DEFINE i == heap[c][k].id
           m == h[c][k].id
           w == Write(h, m, j, v)
<1>1. IsHeap(heap) /\ Tabled(heap) /\ Tables(heap) \subseteq DOMAIN heap
  BY TablesExist DEF LinesInv, ConfigInv
<1>2. heap[c][k] = Arr(i) /\ i \in DOMAIN heap /\ i \notin Tables(heap)
  BY ListsExist
<1>3. /\ IsHeap(h) /\ SlotSet(h, c, k) /\ ListsKept(h, c, k)
      /\ m \in DOMAIN h /\ m \notin Tables(heap) /\ k \in DOMAIN h[c] /\ h[c][k] = Arr(m)
      /\ h[m] = heap[i] /\ DOMAIN heap \subseteq DOMAIN h
      /\ \A a \in Tables(heap) : \A x \in DOMAIN heap[a] \cap Keys :
           IsArr(heap[a][x]) /\ (a # c \/ x # k) => heap[a][x].id # m /\ heap[a][x].id \in DOMAIN h
  <2>1. CASE h = heap /\ ~(RefCount(i) > 1)
    <3>1. SlotSet(h, c, k) /\ ListsKept(h, c, k)
      BY <2>1, SlotUnchanged
    <3>2. ASSUME NEW a \in Tables(heap), NEW x \in DOMAIN heap[a] \cap Keys, IsArr(heap[a][x]), a # c \/ x # k
          PROVE  heap[a][x].id # i /\ heap[a][x].id \in DOMAIN heap
      <4>1. heap[a][x] = Arr(heap[a][x].id) /\ heap[a][x].id \in DOMAIN heap
        BY <3>2, ListsExist
      <4>2. heap[a][x] # Arr(i)
        BY <1>2, <2>1, <3>2, OneSlot
      <4> QED
        BY <4>1, <4>2
    <3> QED
      BY <1>1, <1>2, <2>1, <3>1, <3>2
  <2>2. CASE Separated(h, c, k) /\ h # heap
    <3> DEFINE n == Len(heap) + 1
    <3>1. /\ SlotSet(h, c, k) /\ ListsKept(h, c, k)
          /\ IsHeap(h) /\ k \in DOMAIN h[c] /\ h[c][k] = Arr(n) /\ n \in DOMAIN h
          /\ h[n] = heap[i]
          /\ DOMAIN heap \subseteq DOMAIN h /\ n \notin DOMAIN heap
      BY <2>2, SlotSeparated
    <3> HIDE DEF n
    <3>2. m = n
      BY <3>1, Values
    <3>3. \A a \in Tables(heap) : \A x \in DOMAIN heap[a] \cap Keys :
            IsArr(heap[a][x]) => heap[a][x].id \in DOMAIN heap
      BY ListsExist
    <3> QED
      BY <1>1, <3>1, <3>2, <3>3
  <2> QED
    BY <2>1, <2>2 DEF Own
<1> HIDE DEF i, m, w
<1>4. SlotSet(w, c, k) /\ ListsKept(w, c, k)
  <2>1. Tables(heap) \subseteq DOMAIN h
    BY <1>1, <1>3
  <2> QED
    BY <1>3, <2>1, ListWritten DEF w
<1>5. /\ DOMAIN w[m] = DOMAIN h[m] \cup {j} /\ w[m][j] = v
      /\ \A x \in DOMAIN h[m] : x # j => w[m][x] = h[m][x]
      /\ \A a \in DOMAIN h : a # m => w[a] = h[a]
  BY <1>3, WriteIs DEF w, IsHeap, IsHeapIn
<1>6. c \in DOMAIN h /\ c # m
  BY <1>1, <1>3
<1>7. k \in DOMAIN w[c] /\ w[c][k] = Arr(m)
  BY <1>3, <1>5, <1>6
<1>8. SlotView(w, c, k) = Assign(SlotView(heap, c, k), <<k, j>>, v)
  <2>1. DOMAIN w[m] = DOMAIN heap[i] \cup {j} /\ \A x \in DOMAIN heap[i] : x # j => w[m][x] = heap[i][x]
    BY <1>3, <1>5
  <2> QED
    BY <1>2, <1>5, <1>7, <2>1, SetMember
<1>9. Assigns(w, c, k, <<k, j>>, v)
  BY <1>4, <1>8 DEF Assigns
<1> QED
  BY <1>9 DEF w, m

\* A new list takes the place of a scalar, or of nothing.
LEMMA FreshAssigned ==
  ASSUME LinesInv, NEW c \in Tables(heap), NEW k \in Keys, ~(k \in DOMAIN heap[c] /\ IsArr(heap[c][k])),
         NEW j, NEW y \in Nat
  PROVE  Assigns(Fresh(heap, c, k, Single(j, Scalar(y))), c, k, <<k, j>>, Scalar(y))
<1> DEFINE v == Scalar(y)
           a == Single(j, v)
           n == Len(heap) + 1
           w == Fresh(heap, c, k, a)
<1>1. IsHeap(heap) /\ Tabled(heap) /\ Tables(heap) \subseteq DOMAIN heap /\ n \notin DOMAIN heap
  BY TablesExist, HeapDomain DEF LinesInv, ConfigInv
<1>2. IsArray(a, n, n)
  BY <1>1, FreshScalar
<1>3. DOMAIN a = {j} /\ a[j] = v /\ ~IsArr(v)
  BY SingleIs, ScalarValue
<1> HIDE DEF v, a
<1>4. /\ DOMAIN w[c] = DOMAIN heap[c] \cup {k} /\ w[c][k] = Arr(n)
      /\ \A x \in DOMAIN heap[c] : x # k => w[c][x] = heap[c][x]
      /\ \A b \in DOMAIN heap : b # c => w[b] = heap[b]
      /\ w[n] = a
  BY <1>1, <1>2, FreshIs
<1> HIDE DEF w, n
<1>5. IsArr(w[c][k]) /\ w[c][k].id = n
  BY <1>4, Values
<1>6. IsList(w, n) /\ n \notin Tables(heap)
  BY <1>1, <1>3, <1>4 DEF IsList
<1>7. SlotSet(w, c, k)
  BY <1>1, <1>4, <1>5, <1>6 DEF SlotSet
<1>8. ListsKept(w, c, k)
  <2>1. \A b \in Tables(heap) : \A x \in DOMAIN heap[b] \cap Keys :
          IsArr(heap[b][x]) => heap[b][x].id \in DOMAIN heap /\ heap[b][x].id # c
    BY ListsExist
  <2> QED
    BY <1>4, <2>1 DEF ListsKept
<1>9. SlotView(w, c, k) = Assign(SlotView(heap, c, k), <<k, j>>, v)
  <2>1. k \in DOMAIN w[c] /\ w[c][k] = Arr(n) /\ DOMAIN w[n] = {j} /\ w[n][j] = v
    BY <1>3, <1>4
  <2> QED
    BY <2>1, SetFresh
<1>10. Assigns(w, c, k, <<k, j>>, v)
  BY <1>7, <1>8, <1>9 DEF Assigns
<1> QED
  BY <1>10 DEF w, a, v

\* A scalar is written.
LEMMA ScalarAssigned ==
  ASSUME LinesInv, NEW c \in Tables(heap), NEW k \in Keys, ~(k \in DOMAIN heap[c] /\ IsArr(heap[c][k])),
         NEW v, ~IsArr(v)
  PROVE  Assigns(Write(heap, c, k, v), c, k, <<k>>, v)
<1> DEFINE w == Write(heap, c, k, v)
<1>1. IsSeq(heap) /\ Tables(heap) \subseteq DOMAIN heap
  BY TablesExist DEF LinesInv, ConfigInv, IsHeap, IsHeapIn
<1>2. /\ DOMAIN w[c] = DOMAIN heap[c] \cup {k} /\ w[c][k] = v
      /\ \A x \in DOMAIN heap[c] : x # k => w[c][x] = heap[c][x]
      /\ \A b \in DOMAIN heap : b # c => w[b] = heap[b]
  BY <1>1, WriteIs
<1> HIDE DEF w
<1>3. SlotSet(w, c, k)
  BY <1>1, <1>2 DEF SlotSet
<1>4. ListsKept(w, c, k)
  <2>1. \A b \in Tables(heap) : \A x \in DOMAIN heap[b] \cap Keys :
          IsArr(heap[b][x]) => heap[b][x].id \in DOMAIN heap /\ heap[b][x].id # c
    BY ListsExist
  <2> QED
    BY <1>2, <2>1 DEF ListsKept
<1>5. SlotView(w, c, k) = Assign(SlotView(heap, c, k), <<k>>, v)
  BY <1>2, SetScalar
<1>6. Assigns(w, c, k, <<k>>, v)
  BY <1>3, <1>4, <1>5 DEF Assigns
<1> QED
  BY <1>6 DEF w

\* A scalar for an existing list is dropped.
LEMMA ListIgnores ==
  ASSUME LinesInv, NEW c \in Tables(heap), NEW k \in Keys, k \in DOMAIN heap[c], IsArr(heap[c][k]),
         NEW h, h = heap \/ (Separated(h, c, k) /\ h # heap), NEW v
  PROVE  Assigns(h, c, k, <<k>>, v)
<1> DEFINE i == heap[c][k].id
<1>1. heap[c][k] = Arr(i) /\ IsList(heap, i)
  BY ListsExist
<1>2. CASE h = heap
  <2>1. SlotSet(h, c, k) /\ ListsKept(h, c, k)
    BY <1>2, SlotUnchanged
  <2> HIDE DEF i
  <2>2. SlotView(h, c, k) = Assign(SlotView(heap, c, k), <<k>>, v)
    BY <1>1, <1>2, SetIgnored
  <2> QED
    BY <2>1, <2>2 DEF Assigns
<1>3. CASE Separated(h, c, k) /\ h # heap
  <2> DEFINE n == Len(heap) + 1
  <2>1. /\ SlotSet(h, c, k) /\ ListsKept(h, c, k)
        /\ k \in DOMAIN h[c] /\ h[c][k] = Arr(n) /\ h[n] = heap[i]
    BY <1>3, SlotSeparated
  <2> HIDE DEF n, i
  <2>2. SlotView(h, c, k) = Assign(SlotView(heap, c, k), <<k>>, v)
    BY <1>1, <2>1, SetIgnored
  <2> QED
    BY <2>1, <2>2 DEF Assigns
<1> QED
  BY <1>2, <1>3

----------------------------------------------------------------------------
(* The value lines *)

LinesAct ==
  phase = "parse" /\ phase' = "parse" /\ ~SharedList => Leaves(heap', 1) = Meant(Leaves(heap, 1), last')

\* The section being filled is a place of the file.
LEMMA PlaceHere ==
  ASSUME LinesInv
  PROVE  \E t \in Places(heap) : Table(heap, t) = Current /\ \A p : IsSeq(p) => Here \o p = Lead(t, p)
<1>1. CASE active = Null
  <2>1. Here = <<>> /\ Current = 1
    BY <1>1 DEF Here, Current
  <2>2. ASSUME NEW p, IsSeq(p) PROVE Here \o p = Lead(Null, p)
    <3>1. <<>> \o p = p
      BY <2>2, ConcatEmptySeq DEF IsSeq
    <3> QED
      BY <2>1, <3>1 DEF Lead
  <2> QED
    BY <2>1, <2>2, PlacesAre
<1>2. CASE active # Null
  <2> DEFINE s == CHOOSE x \in Sections \cap DOMAIN heap[1] : heap[1][x] = Arr(active)
  <2>1. \E x \in Sections \cap DOMAIN heap[1] : heap[1][x] = Arr(active)
    BY <1>2 DEF LinesInv, ConfigInv, ParseOK, ParsedSection
  <2>2. s \in Sections \cap DOMAIN heap[1] /\ heap[1][s] = Arr(active)
    BY <2>1
  <2>3. Here = <<s>> /\ Current = active
    BY <1>2 DEF Here, Current
  <2> HIDE DEF s
  <2>4. s # Null
    BY <2>2, ConfigAssumption
  <2>5. \A p : Here \o p = Lead(s, p)
    BY <2>3, <2>4 DEF Lead
  <2>6. heap[1][s].id = active
    BY <2>2, Values
  <2> QED
    BY <2>2, <2>3, <2>5, <2>6, PlacesAre
<1> QED
  BY <1>1, <1>2

\* The array being filled is a table.
LEMMA CurrentTable ==
  ASSUME LinesInv
  PROVE  Current \in Tables(heap) /\ Current \in DOMAIN heap /\ IsHeap(heap)
<1>1. Current \in Tables(heap)
  BY PlaceHere, PlacesAre
<1> QED
  BY <1>1, CurrentIs DEF LinesInv, ConfigInv

\* ZEND_INI_PARSER_ENTRY assigns, whatever it finds under the key.
LEMMA EntryAssigns ==
  ASSUME LinesInv, NEW path \in Paths, NEW m \in Nat
  PROVE  Assigns(EntryHeap(path, Scalar(m)), Current, path[1], path, Scalar(m))
<1> DEFINE k == path[1]
           c == Current
           h == Opened(k)
           v == Scalar(m)
           e == EntryHeap(path, v)
           list == k \in DOMAIN heap[c] /\ IsArr(heap[c][k])
<1>1. k \in Keys /\ c \in Tables(heap) /\ c \in DOMAIN heap /\ IsHeap(heap) /\ ~IsArr(v)
  BY PathsAre, CurrentTable, ScalarValue
<1>2. list => Own(h, c, k)
  <2>1. ASSUME list PROVE Own(h, c, k)
    <3>1. h = Separate(c, k)
      BY <2>1 DEF Opened
    <3>2. /\ Separated(Separate(c, k), c, k)
          /\ Separate(c, k) = heap => ~IsArr(heap[c][k]) \/ ~(RefCount(heap[c][k].id) > 1)
      BY <1>1, <2>1, SeparateIs
    <3> QED
      BY <2>1, <3>1, <3>2 DEF Own
  <2> QED
    BY <2>1
<1>3. ~list => h = heap
  <2>1. CASE k \in DOMAIN heap[c] /\ ~IsArr(heap[c][k])
    <3>1. Separate(c, k) = heap
      BY <2>1 DEF Separate
    <3> QED
      BY <2>1, <3>1 DEF Opened
  <2>2. CASE k \notin DOMAIN heap[c]
    BY <2>2 DEF Opened
  <2> QED
    BY <2>1, <2>2
<1>4. \/ path = <<k>> /\ list /\ e = h
      \/ path = <<k>> /\ ~list /\ e = Write(h, c, k, v)
      \/ path = <<k, path[2]>> /\ list /\ e = Write(h, h[c][k].id, path[2], v)
      \/ path = <<k, path[2]>> /\ ~list /\ e = Fresh(h, c, k, Single(path[2], v))
  BY <1>1, EntryIs
<1>5. CASE path = <<k>> /\ list /\ e = h
  <2>1. Assigns(h, c, k, <<k>>, v)
    <3>1. h = heap \/ (Separated(h, c, k) /\ h # heap)
      BY <1>2, <1>5 DEF Own
    <3> HIDE DEF h, k, c, v
    <3> QED
      BY <1>1, <1>5, <3>1, ListIgnores
  <2> QED
    BY <1>5, <2>1, Zenon
<1>6. CASE path = <<k>> /\ ~list /\ e = Write(h, c, k, v)
  <2>1. Assigns(Write(heap, c, k, v), c, k, <<k>>, v)
    BY <1>1, <1>6, ScalarAssigned
  <2> QED
    BY <1>3, <1>6, <2>1, Zenon
<1>7. CASE path = <<k, path[2]>> /\ list /\ e = Write(h, h[c][k].id, path[2], v)
  <2>1. Assigns(Write(h, h[c][k].id, path[2], v), c, k, <<k, path[2]>>, v)
    BY <1>1, <1>2, <1>7, ListAssigned
  <2> QED
    BY <1>7, <2>1, Zenon
<1>8. CASE path = <<k, path[2]>> /\ ~list /\ e = Fresh(h, c, k, Single(path[2], v))
  <2>1. Assigns(Fresh(heap, c, k, Single(path[2], v)), c, k, <<k, path[2]>>, v)
    BY <1>1, <1>8, FreshAssigned
  <2> QED
    BY <1>3, <1>8, <2>1, Zenon
<1> QED
  BY <1>4, <1>5, <1>6, <1>7, <1>8

\* A line that assigns means it.
LEMMA AssignsMeans ==
  ASSUME LinesInv, NEW w, NEW k \in Keys, NEW path, Below(k, path), NEW v, Assigns(w, Current, k, path, v)
  PROVE  Tabled(w) /\ Leaves(w, 1) = Assign(Leaves(heap, 1), Here \o path, v)
<1>1. PICK t \in Places(heap) : Table(heap, t) = Current /\ \A p : IsSeq(p) => Here \o p = Lead(t, p)
  BY PlaceHere
<1>2. Tabled(heap) /\ Current \in Tables(heap) /\ Here \o path = Lead(t, path)
  BY <1>1, CurrentTable DEF LinesInv, Below
<1>3. Tabled(w)
  BY <1>2, TabledSet DEF Assigns
<1>4. Leaves(w, 1) = Assign(Leaves(heap, 1), Lead(t, path), v)
  BY <1>1, <1>2, LineSets DEF Assigns
<1> QED
  BY <1>2, <1>3, <1>4

\* The path of a line is below its key.
LEMMA PathBelow ==
  ASSUME NEW path \in Paths
  PROVE  path[1] \in Keys /\ Below(path[1], path)
<1>1. \A k, j : Below(k, <<k>>) /\ Below(k, <<k, j>>)
  BY ShortBelow, Zenon
<1> QED
  BY <1>1, PathsAre

\* An entry line means what it says.
LEMMA EntryMeans ==
  ASSUME LinesInv, NEW path \in Paths, Entry(path)
  PROVE  Tabled(heap') /\ LinesAct
<1>1. steps \in Nat
  BY DEF LinesInv, ConfigInv, RestOK
<1>2. heap' = EntryHeap(path, Scalar(steps)) /\ last' = [op |-> "entry", path |-> path, value |-> Scalar(steps)]
  BY DEF Entry, NextLine
<1>3. Tabled(heap') /\ Leaves(heap', 1) = Assign(Leaves(heap, 1), Here \o path, Scalar(steps))
  BY <1>1, <1>2, PathBelow, EntryAssigns, AssignsMeans
<1>4. Meant(Leaves(heap, 1), last') = Assign(Leaves(heap, 1), Here \o path, Scalar(steps))
  BY <1>2 DEF Meant
<1> QED
  BY <1>3, <1>4 DEF LinesAct

\* Writing to a list leaves sections and lists what they are, shared or not.
LEMMA ListStays ==
  ASSUME LinesInv, NEW c \in Tables(heap), NEW k \in DOMAIN heap[c] \cap Keys, IsArr(heap[c][k]),
         NEW j, NEW v, ~IsArr(v)
  PROVE  Tabled(Write(heap, heap[c][k].id, j, v))
<1> DEFINE i == heap[c][k].id
           w == Write(heap, i, j, v)
<1>1. IsSeq(heap) /\ Tabled(heap) /\ Tables(heap) \subseteq DOMAIN heap
  BY TablesExist DEF LinesInv, ConfigInv, IsHeap, IsHeapIn
<1>2. i \in DOMAIN heap /\ i \notin Tables(heap) /\ IsList(heap, i)
  BY ListsExist
<1> HIDE DEF i
<1>3. /\ DOMAIN w[i] = DOMAIN heap[i] \cup {j} /\ w[i][j] = v
      /\ \A x \in DOMAIN heap[i] : x # j => w[i][x] = heap[i][x]
      /\ \A a \in DOMAIN heap : a # i => w[a] = heap[a]
  BY <1>1, <1>2, WriteIs
<1> HIDE DEF w
<1>4. \A a \in Tables(heap) : w[a] = heap[a]
  BY <1>1, <1>2, <1>3
<1>5. \A x \in DOMAIN heap : IsList(heap, x) => IsList(w, x)
  BY <1>3 DEF IsList
<1>6. w[1] = heap[1]
  BY <1>4, PlacesAre
<1>7. SameTables(w) /\ Tables(w) = Tables(heap)
  BY <1>6, SameTablesIs
<1>8. \A s \in Sections \cap DOMAIN heap[1] : heap[1][s].id \in Tables(heap)
  BY PlacesAre
<1>9. \A a \in Tables(heap) : ListsOnly(w, a, Tables(heap))
  <2>1. ASSUME NEW a \in Tables(heap), NEW x \in DOMAIN heap[a] \cap Keys, IsArr(heap[a][x])
        PROVE  IsList(w, heap[a][x].id) /\ heap[a][x].id \notin Tables(heap)
    BY <1>5, <2>1, ListsExist
  <2> QED
    BY <1>4, <2>1 DEF ListsOnly
<1>10. \A s, t \in Places(w) : Table(w, s) = Table(w, t) => s = t
  BY <1>1, <1>7 DEF SameTables, Tabled
<1>11. Tabled(w)
  BY <1>1, <1>4, <1>6, <1>7, <1>8, <1>9, <1>10 DEF Tabled
<1> QED
  BY <1>11 DEF w, i

\* So does a list line, if its list is not shared; if it is, tables stay tables.
LEMMA ListMeans ==
  ASSUME LinesInv, NEW k \in Keys, NEW j, ListEntry(k, j)
  PROVE  Tabled(heap') /\ LinesAct
<1> DEFINE c == Current
           v == Scalar(steps)
           list == k \in DOMAIN heap[c] /\ IsArr(heap[c][k])
<1>1. steps \in Nat /\ c \in Tables(heap) /\ ~IsArr(v)
  <2>1. steps \in Nat
    BY DEF LinesInv, ConfigInv, RestOK
  <2> QED
    BY <2>1, CurrentTable, ScalarValue
<1>2. /\ heap' = IF list THEN Write(heap, heap[c][k].id, j, v) ELSE Fresh(heap, c, k, Single(j, v))
      /\ last' = [op |-> "list", path |-> <<k, j>>, value |-> v]
  BY DEF ListEntry, NextLine
<1>3. Below(k, <<k, j>>)
  BY ShortBelow, Zenon
<1>4. Meant(Leaves(heap, 1), last') = Assign(Leaves(heap, 1), Here \o <<k, j>>, v)
  BY <1>2 DEF Meant
<1>5. SharedList <=> list /\ RefCount(heap[c][k].id) > 1
  <2>1. last'.op = "list" /\ last'.path[1] = k
    BY <1>2
  <2> QED
    BY <2>1, Zenon DEF SharedList
<1>6. CASE ~list
  <2>1. heap' = Fresh(heap, c, k, Single(j, v))
    BY <1>2, <1>6
  <2>2. Assigns(Fresh(heap, c, k, Single(j, v)), c, k, <<k, j>>, v)
    BY <1>1, <1>6, FreshAssigned
  <2>3. Assigns(heap', c, k, <<k, j>>, v)
    BY <2>1, <2>2, Zenon
  <2> QED
    BY <1>3, <1>4, <2>3, AssignsMeans DEF LinesAct
<1>7. CASE list /\ ~(RefCount(heap[c][k].id) > 1)
  <2>1. heap' = Write(heap, heap[c][k].id, j, v)
    BY <1>2, <1>7
  <2>2. Assigns(Write(heap, heap[c][k].id, j, v), c, k, <<k, j>>, v)
    BY <1>1, <1>7, ListAssigned DEF Own
  <2>3. Assigns(heap', c, k, <<k, j>>, v)
    BY <2>1, <2>2, Zenon
  <2> QED
    BY <1>3, <1>4, <2>3, AssignsMeans DEF LinesAct
<1>8. CASE list /\ RefCount(heap[c][k].id) > 1
  <2>1. Tabled(heap')
    BY <1>1, <1>2, <1>8, ListStays
  <2> QED
    BY <1>5, <1>8, <2>1 DEF LinesAct
<1> QED
  BY <1>6, <1>7, <1>8

----------------------------------------------------------------------------
(* What a section inherits *)

\* What Before returns.
LEMMA BeforeIs ==
  ASSUME NEW O, NEW H
  PROVE  /\ \A l \in O : l \in Before(O, H)
         /\ \A l \in H : (\A m \in O : Apart(m.path, l.path)) => l \in Before(O, H)
         /\ \A l \in Before(O, H) : l \in O \/ (l \in H /\ \A m \in O : Apart(m.path, l.path))
BY DEF Before, Apart

\* Entries of different keys do not hide each other.
LEMMA BeforeByKey ==
  ASSUME NEW h, NEW a, NEW g, NEW b
  PROVE  Before(View(h, a), View(g, b)) = UNION {Before(SlotView(h, a, k), SlotView(g, b, k)) : k \in Keys}
<1> DEFINE O(k) == SlotView(h, a, k)
           H(k) == SlotView(g, b, k)
           L == Before(View(h, a), View(g, b))
           R == UNION {Before(O(k), H(k)) : k \in Keys}
<1>1. View(h, a) = UNION {O(k) : k \in Keys} /\ View(g, b) = UNION {H(k) : k \in Keys}
  BY DEF View
<1>2. ASSUME NEW j \in Keys, NEW k \in Keys, j # k, NEW l \in O(j), NEW m \in H(k) PROVE Apart(l.path, m.path)
  <2>1. Below(j, l.path) /\ Below(k, m.path)
    BY SlotBelow
  <2> QED
    BY <1>2, <2>1, BelowApart
<1> HIDE DEF O, H
<1>3. ASSUME NEW l \in L PROVE l \in R
  <2>1. CASE l \in View(h, a)
    BY <1>1, <2>1, BeforeIs
  <2>2. CASE l \in View(g, b) /\ \A m \in View(h, a) : Apart(m.path, l.path)
    <3>1. PICK k \in Keys : l \in H(k)
      BY <1>1, <2>2
    <3>2. \A m \in O(k) : Apart(m.path, l.path)
      BY <1>1, <2>2
    <3>3. l \in Before(O(k), H(k))
      BY <3>1, <3>2, BeforeIs
    <3> QED
      BY <3>3
  <2> QED
    BY <1>3, <2>1, <2>2, BeforeIs
<1>4. ASSUME NEW k \in Keys, NEW l \in Before(O(k), H(k)) PROVE l \in L
  <2>1. CASE l \in O(k)
    <3>1. l \in View(h, a)
      BY <1>1, <2>1
    <3> QED
      BY <3>1, BeforeIs
  <2>2. CASE l \in H(k) /\ \A m \in O(k) : Apart(m.path, l.path)
    <3>1. l \in View(g, b)
      BY <1>1, <2>2
    <3>2. ASSUME NEW m \in View(h, a) PROVE Apart(m.path, l.path)
      <4>1. PICK j \in Keys : m \in O(j)
        BY <1>1
      <4>2. CASE j = k
        BY <2>2, <4>1, <4>2
      <4>3. CASE j # k
        BY <1>2, <2>2, <4>1, <4>3
      <4> QED
        BY <4>2, <4>3
    <3> QED
      BY <3>1, <3>2, BeforeIs
  <2> QED
    BY <1>4, <2>1, <2>2, BeforeIs
<1>5. \A l : l \in L <=> l \in R
  BY <1>3, <1>4
<1> QED
  BY <1>5 DEF O, H

\* What hides all below its key.
LEMMA BeforeAll ==
  ASSUME NEW O, NEW H, \A l \in H : \E m \in O : ~Apart(m.path, l.path)
  PROVE  Before(O, H) = O
<1>1. \A l \in Before(O, H) : l \in O
  BY BeforeIs
<1>2. \A l \in O : l \in Before(O, H)
  BY BeforeIs
<1> QED
  BY <1>1, <1>2

\* Nothing hides nothing.
LEMMA BeforeNone ==
  ASSUME NEW H
  PROVE  Before({}, H) = H
BY DEF Before

\* The longer of two paths of a key is not apart from the key itself.
LEMMA KeyApart ==
  ASSUME NEW k, NEW j, NEW x
  PROVE  /\ ~Apart(<<k>>, <<k>>) /\ ~Apart(<<k>>, <<k, j>>) /\ ~Apart(<<k, j>>, <<k>>)
         /\ Apart(<<k, j>>, <<k, x>>) <=> j # x
<1>1. IsPrefix(<<k>>, <<k>>) /\ IsPrefix(<<k>>, <<k, j>>)
  BY ShortPrefixes
<1>2. (IsPrefix(<<k, j>>, <<k, x>>) <=> k = k /\ j = x) /\ (IsPrefix(<<k, x>>, <<k, j>>) <=> k = k /\ x = j)
  BY ShortPrefixes
<1> QED
  BY <1>1, <1>2 DEF Apart

\* A key that only one of the two has as a list is the section's own.
LEMMA SlotHides ==
  ASSUME NEW h, NEW a, NEW k \in DOMAIN h[a], IsArr(h[a][k]) => IsList(h, h[a][k].id),
         NEW g, NEW b, ~(k \in DOMAIN g[b] /\ IsArr(h[a][k]) /\ IsArr(g[b][k]))
  PROVE  Before(SlotView(h, a, k), SlotView(g, b, k)) = SlotView(h, a, k)
<1> DEFINE O == SlotView(h, a, k)
           H == SlotView(g, b, k)
<1>1. ASSUME NEW l \in H PROVE \E m \in O : ~Apart(m.path, l.path)
  <2>1. CASE ~IsArr(h[a][k])
    <3> DEFINE m == [path |-> <<k>>, v |-> h[a][k]]
    <3>1. m \in O /\ m.path = <<k>>
      BY <2>1 DEF SlotView
    <3>2. l.path = <<k>> \/ \E j : l.path = <<k, j>>
      BY DEF SlotView
    <3>3. ~Apart(<<k>>, l.path)
      BY <3>2, KeyApart
    <3> HIDE DEF m
    <3> QED
      BY <3>1, <3>3
  <2>2. CASE IsArr(h[a][k])
    <3> DEFINE i == h[a][k].id
    <3>1. PICK j \in DOMAIN h[i] : TRUE
      BY <2>2 DEF IsList
    <3> DEFINE m == [path |-> <<k, j>>, v |-> h[i][j]]
    <3>2. m \in O /\ m.path = <<k, j>>
      BY <2>2 DEF SlotView
    <3>3. l.path = <<k>>
      BY <2>2, NoList
    <3>4. ~Apart(<<k, j>>, l.path)
      BY <3>3, KeyApart
    <3> HIDE DEF m
    <3> QED
      BY <3>2, <3>4
  <2> QED
    BY <2>1, <2>2
<1> HIDE DEF O, H
<1>2. Before(O, H) = O
  BY <1>1, BeforeAll
<1> QED
  BY <1>2 DEF O, H

\* Two lists are merged, the section's own entries first.
LEMMA ListsMerge ==
  ASSUME NEW h, NEW a, NEW k \in DOMAIN h[a], NEW i, h[a][k] = Arr(i),
         NEW g, NEW b, k \in DOMAIN g[b], NEW j, g[b][k] = Arr(j),
         NEW w, NEW c, k \in DOMAIN w[c], NEW m, w[c][k] = Arr(m), w[m] = Over(h[i], g[j])
  PROVE  SlotView(w, c, k) = Before(SlotView(h, a, k), SlotView(g, b, k))
<1> DEFINE O == SlotView(h, a, k)
           H == SlotView(g, b, k)
           W == SlotView(w, c, k)
           leaf(f, x) == [path |-> <<k, x>>, v |-> f[x]]
<1>1. /\ O = {leaf(h[i], x) : x \in DOMAIN h[i]}
      /\ H = {leaf(g[j], x) : x \in DOMAIN g[j]}
      /\ W = {leaf(w[m], x) : x \in DOMAIN w[m]}
  BY AList
<1>2. /\ DOMAIN w[m] = DOMAIN h[i] \cup DOMAIN g[j]
      /\ \A x \in DOMAIN h[i] : w[m][x] = h[i][x]
      /\ \A x \in DOMAIN g[j] \ DOMAIN h[i] : w[m][x] = g[j][x]
  <2> DEFINE f == h[i]
             e == g[j]
  <2>1. w[m] = Over(f, e)
    OBVIOUS
  <2> HIDE DEF f, e
  <2>2. /\ DOMAIN Over(f, e) = DOMAIN f \cup DOMAIN e
        /\ \A x \in DOMAIN f : Over(f, e)[x] = f[x]
        /\ \A x \in DOMAIN e \ DOMAIN f : Over(f, e)[x] = e[x]
    BY OverIs
  <2>3. /\ DOMAIN w[m] = DOMAIN f \cup DOMAIN e
        /\ \A x \in DOMAIN f : w[m][x] = f[x]
        /\ \A x \in DOMAIN e \ DOMAIN f : w[m][x] = e[x]
    BY <2>1, <2>2, Zenon
  <2> QED
    BY <2>3 DEF f, e
<1>3. \A f, x : leaf(f, x).path = <<k, x>>
  OBVIOUS
<1>4. \A x, y : Apart(<<k, x>>, <<k, y>>) <=> x # y
  <2>1. ASSUME NEW x, NEW y PROVE Apart(<<k, x>>, <<k, y>>) <=> x # y
    BY KeyApart
  <2> QED
    BY <2>1
<1>5. \A f, e, x : f[x] = e[x] => leaf(f, x) = leaf(e, x)
  OBVIOUS
<1> HIDE DEF leaf, O, H, W
<1>6. ASSUME NEW l \in W PROVE l \in Before(O, H)
  <2>1. PICK x \in DOMAIN w[m] : l = leaf(w[m], x)
    BY <1>1
  <2>2. CASE x \in DOMAIN h[i]
    <3>1. l = leaf(h[i], x)
      BY <1>2, <1>5, <2>1, <2>2
    <3>2. l \in O
      BY <1>1, <2>2, <3>1
    <3> QED
      BY <3>2, BeforeIs
  <2>3. CASE x \in DOMAIN g[j] \ DOMAIN h[i]
    <3>1. l = leaf(g[j], x)
      BY <1>2, <1>5, <2>1, <2>3
    <3>2. l \in H
      BY <1>1, <2>3, <3>1
    <3>3. ASSUME NEW o \in O PROVE Apart(o.path, l.path)
      <4>1. PICK y \in DOMAIN h[i] : o = leaf(h[i], y)
        BY <1>1
      <4>2. y # x
        BY <2>3
      <4> QED
        BY <1>3, <1>4, <3>1, <4>1, <4>2
    <3> QED
      BY <3>2, <3>3, BeforeIs
  <2> QED
    BY <1>2, <2>2, <2>3
<1>7. ASSUME NEW l \in Before(O, H) PROVE l \in W
  <2>1. CASE l \in O
    <3>1. PICK x \in DOMAIN h[i] : l = leaf(h[i], x)
      BY <1>1, <2>1
    <3>2. l = leaf(w[m], x) /\ x \in DOMAIN w[m]
      BY <1>2, <1>5, <3>1
    <3> QED
      BY <1>1, <3>2
  <2>2. CASE l \in H /\ \A o \in O : Apart(o.path, l.path)
    <3>1. PICK x \in DOMAIN g[j] : l = leaf(g[j], x)
      BY <1>1, <2>2
    <3>2. x \notin DOMAIN h[i]
      <4>1. ASSUME x \in DOMAIN h[i] PROVE FALSE
        <5>1. leaf(h[i], x) \in O
          BY <1>1, <4>1
        <5>2. Apart(leaf(h[i], x).path, l.path)
          BY <2>2, <5>1
        <5>3. Apart(<<k, x>>, <<k, x>>)
          BY <1>3, <3>1, <5>2
        <5> QED
          BY <1>4, <5>3
      <4> QED
        BY <4>1
    <3>3. l = leaf(w[m], x) /\ x \in DOMAIN w[m]
      BY <1>2, <1>5, <3>1, <3>2
    <3> QED
      BY <1>1, <3>3
  <2> QED
    BY <1>7, <2>1, <2>2, BeforeIs
<1>8. \A l : l \in W <=> l \in Before(O, H)
  BY <1>6, <1>7
<1> QED
  BY <1>8 DEF O, H, W

New == Len(heap) + 1

\* h is heap with a section being made from its parents.
Heir(h) ==
  /\ Extends(h)
  /\ DOMAIN h[New] \subseteq Keys
  /\ \A k \in DOMAIN h[New] : IsArr(h[New][k]) => IsList(h, h[New][k].id) /\ h[New][k].id \notin Tables(heap)

\* What the array of a table shows stays the same when the heap only grows.
LEMMA ViewExtends ==
  ASSUME LinesInv, NEW h, Extends(h), NEW a \in Tables(heap), NEW k \in Keys
  PROVE  SlotView(h, a, k) = SlotView(heap, a, k)
<1>1. a \in DOMAIN heap /\ h[a] = heap[a]
  BY TablesExist DEF LinesInv, ConfigInv, Extends
<1>2. CASE k \in DOMAIN heap[a] /\ IsArr(heap[a][k])
  <2>1. heap[a][k].id \in DOMAIN heap
    BY <1>2, ListsExist
  <2>2. h[heap[a][k].id] = heap[heap[a][k].id]
    BY <2>1 DEF Extends
  <2> QED
    BY <1>1, <1>2, <2>2 DEF SlotView
<1>3. CASE ~(k \in DOMAIN heap[a] /\ IsArr(heap[a][k]))
  BY <1>1, <1>3 DEF SlotView
<1> QED
  BY <1>2, <1>3

\* The section that a parent's name stands for.
LEMMA ParentTable ==
  ASSUME LinesInv, NEW p \in DOMAIN heap[1], p \notin Keys
  PROVE  /\ heap[1][p].id \in Tables(heap) /\ heap[1][p].id \in DOMAIN heap
         /\ DOMAIN heap[heap[1][p].id] \subseteq Keys /\ p \in Sections
<1>1. p \in Sections \cap DOMAIN heap[1]
  BY DEF LinesInv, Tabled
<1>2. heap[1][p].id \in Tables(heap)
  BY <1>1, PlacesAre
<1> QED
  BY <1>1, <1>2, TablesExist DEF LinesInv, ConfigInv, Tabled

\* One slot of a section after one parent was copied.
LEMMA HeirSlot ==
  ASSUME LinesInv, NEW h, Heir(h), NEW src \in Tables(heap), NEW w, CopiedOver(h, w, New, src), Extends(w),
         DOMAIN heap[src] \subseteq Keys, NEW k \in Keys
  PROVE  /\ SlotView(w, New, k) = Before(SlotView(heap, src, k), SlotView(h, New, k))
         /\ k \in DOMAIN w[New] /\ IsArr(w[New][k]) =>
              IsList(w, w[New][k].id) /\ w[New][k].id \notin Tables(heap)
<1>1. /\ src \in DOMAIN heap /\ New \notin DOMAIN heap /\ Len(heap) \in Nat /\ DOMAIN heap = 1 .. Len(heap)
      /\ h[src] = heap[src] /\ DOMAIN heap \subseteq DOMAIN h /\ New \in DOMAIN h
      /\ IsHeap(h) /\ DOMAIN h = 1 .. Len(h) /\ Len(h) \in Nat /\ Tables(heap) \subseteq DOMAIN heap
  <2>1. IsHeap(heap) /\ src \in DOMAIN heap /\ IsHeap(h) /\ Len(h) >= Len(heap) + 1 /\ Tables(heap) \subseteq DOMAIN heap
    BY TablesExist DEF LinesInv, ConfigInv, Heir, Extends
  <2>2. Len(heap) \in Nat /\ DOMAIN heap = 1 .. Len(heap) /\ DOMAIN h = 1 .. Len(h) /\ Len(h) \in Nat
    BY <2>1, HeapDomain, SeqIs DEF IsHeap, IsHeapIn
  <2>3. h[src] = heap[src]
    BY <2>1 DEF Heir, Extends
  <2> QED
    BY <2>1, <2>2, <2>3 DEF New
<1>2. \A j \in DOMAIN h : j # New => w[j] = h[j]
  BY DEF CopiedOver
<1>3. \A x \in DOMAIN heap[src] : IsArr(heap[src][x]) =>
        /\ heap[src][x] = Arr(heap[src][x].id) /\ heap[src][x].id \in DOMAIN heap
        /\ heap[src][x].id \notin Tables(heap) /\ IsList(heap, heap[src][x].id)
  BY ListsExist
<1>4. \A j \in DOMAIN heap : h[j] = heap[j] /\ w[j] = heap[j]
  BY DEF Heir, Extends
<1>5. SlotView(h, src, k) = SlotView(heap, src, k)
  BY ViewExtends DEF Heir
<1>6. CASE k \notin DOMAIN heap[src]
  <2>1. SlotView(heap, src, k) = {}
    BY <1>6 DEF SlotView
  <2>2. CASE k \notin DOMAIN h[New]
    <3>1. k \notin DOMAIN w[New]
      BY <1>1, <1>6, <2>2 DEF CopiedOver
    <3>2. SlotView(w, New, k) = {} /\ SlotView(h, New, k) = {}
      BY <2>2, <3>1 DEF SlotView
    <3> QED
      BY <2>1, <3>1, <3>2, BeforeNone
  <2>3. CASE k \in DOMAIN h[New]
    <3>1. k \in DOMAIN w[New] /\ w[New][k] = h[New][k]
      BY <1>1, <1>6, <2>3 DEF CopiedOver
    <3>2. ASSUME IsArr(h[New][k])
          PROVE  /\ w[h[New][k].id] = h[h[New][k].id]
                 /\ IsList(w, h[New][k].id) /\ h[New][k].id \notin Tables(heap)
      <4> DEFINE i == h[New][k].id
      <4>1. i \in DOMAIN h /\ i # New
        BY <1>1, <2>3, <3>2, FoundArray
      <4>2. w[i] = h[i]
        BY <1>2, <4>1
      <4>3. IsList(h, i) /\ i \notin Tables(heap)
        BY <2>3, <3>2 DEF Heir
      <4> QED
        BY <4>2, <4>3 DEF IsList
    <3>3. SlotView(w, New, k) = SlotView(h, New, k)
      <4>1. CASE IsArr(h[New][k])
        BY <2>3, <3>1, <3>2, <4>1 DEF SlotView
      <4>2. CASE ~IsArr(h[New][k])
        BY <2>3, <3>1, <4>2 DEF SlotView
      <4> QED
        BY <4>1, <4>2
    <3> QED
      BY <2>1, <3>1, <3>2, <3>3, BeforeNone
  <2> QED
    BY <2>2, <2>3
<1>7. CASE k \in DOMAIN heap[src] /\ ~Both(h[New], h[src], k)
  <2>1. k \in DOMAIN w[New] /\ w[New][k] = heap[src][k]
    BY <1>1, <1>7 DEF CopiedOver
  <2>2. IsArr(heap[src][k]) => w[heap[src][k].id] = heap[heap[src][k].id]
    BY <1>3, <1>4, <1>7
  <2>3. SlotView(w, New, k) = SlotView(heap, src, k)
    <3>1. CASE IsArr(heap[src][k])
      BY <1>7, <2>1, <2>2, <3>1 DEF SlotView
    <3>2. CASE ~IsArr(heap[src][k])
      BY <1>7, <2>1, <3>2 DEF SlotView
    <3> QED
      BY <3>1, <3>2
  <2>4. Before(SlotView(heap, src, k), SlotView(h, New, k)) = SlotView(heap, src, k)
    <3>1. ~(k \in DOMAIN h[New] /\ IsArr(heap[src][k]) /\ IsArr(h[New][k]))
      BY <1>1, <1>7 DEF Both
    <3>2. IsArr(heap[src][k]) => IsList(heap, heap[src][k].id)
      BY <1>3, <1>7
    <3> QED
      BY <1>7, <3>1, <3>2, SlotHides
  <2>5. IsArr(heap[src][k]) => IsList(w, heap[src][k].id) /\ heap[src][k].id \notin Tables(heap)
    BY <1>3, <1>7, <2>2 DEF IsList
  <2> QED
    BY <2>1, <2>3, <2>4, <2>5
<1>8. CASE k \in DOMAIN heap[src] /\ Both(h[New], h[src], k)
  <2> DEFINE i == heap[src][k].id
             j == h[New][k].id
  <2>1. k \in DOMAIN h[New] /\ IsArr(h[New][k]) /\ IsArr(heap[src][k])
    BY <1>1, <1>8 DEF Both
  <2>2. PICK m \in (Len(h) + 1) .. Len(w) : w[New][k] = Arr(m) /\ w[m] = Over(h[i], h[j])
    BY <1>1, <1>8 DEF CopiedOver
  <2>3. k \in DOMAIN w[New]
    BY <1>1, <1>8 DEF CopiedOver
  <2>4. heap[src][k] = Arr(i) /\ i \in DOMAIN heap /\ IsList(heap, i)
    BY <1>3, <1>8, <2>1
  <2>5. h[New][k] = Arr(j)
    BY <1>1, <2>1, FoundArray
  <2>6. h[i] = heap[i]
    BY <1>4, <2>4
  <2>7. m \notin DOMAIN heap /\ m \notin Tables(heap)
    BY <1>1, <2>2
  <2>8. IsArr(w[New][k]) /\ w[New][k].id = m
    BY <2>2, Values
  <2>9. IsList(h, j)
    BY <2>1 DEF Heir
  <2> HIDE DEF i, j
  <2>10. SlotView(w, New, k) = Before(SlotView(heap, src, k), SlotView(h, New, k))
    <3>1. w[m] = Over(heap[i], h[j])
      BY <2>2, <2>6
    <3> QED
      BY <1>8, <2>1, <2>2, <2>3, <2>4, <2>5, <3>1, ListsMerge
  <2>11. IsList(w, m)
    <3> DEFINE f == heap[i]
               e == h[j]
    <3>1. w[m] = Over(f, e)
      BY <2>2, <2>6
    <3>2. DOMAIN f # {} /\ (\A x \in DOMAIN f : ~IsArr(f[x])) /\ (\A x \in DOMAIN e : ~IsArr(e[x]))
      BY <2>4, <2>9 DEF IsList
    <3> HIDE DEF f, e
    <3>3. /\ DOMAIN Over(f, e) = DOMAIN f \cup DOMAIN e
          /\ \A x \in DOMAIN f : Over(f, e)[x] = f[x]
          /\ \A x \in DOMAIN e \ DOMAIN f : Over(f, e)[x] = e[x]
      BY OverIs
    <3>4. DOMAIN Over(f, e) # {} /\ \A x \in DOMAIN Over(f, e) : ~IsArr(Over(f, e)[x])
      BY <3>2, <3>3
    <3> QED
      BY <3>1, <3>4 DEF IsList
  <2> QED
    BY <2>7, <2>8, <2>10, <2>11
<1> QED
  BY <1>6, <1>7, <1>8

\* yaf_deep_copy_section: the entries of the parent come before those there are.
LEMMA HeirInherits ==
  ASSUME LinesInv, NEW h, Heir(h), NEW p \in DOMAIN heap[1], p \notin Keys
  PROVE  /\ Heir(InheritFrom(h, New, p))
         /\ View(InheritFrom(h, New, p), New) = Before(View(heap, heap[1][p].id), View(h, New))
<1> DEFINE src == heap[1][p].id
           w == InheritFrom(h, New, p)
<1>1. IsHeap(heap) /\ Rooted
  BY DEF LinesInv, ConfigInv, ParseOK
<1>2. CopiedOver(h, w, New, src) /\ Extends(w)
  BY <1>1, InheritStep DEF Heir, New
<1>3. src \in Tables(heap) /\ src \in DOMAIN heap /\ DOMAIN heap[src] \subseteq Keys
  BY ParentTable
<1> HIDE DEF src, w
<1>4. \A k \in Keys : SlotView(w, New, k) = Before(SlotView(heap, src, k), SlotView(h, New, k))
  BY <1>2, <1>3, HeirSlot
<1>5. \A k \in Keys : k \in DOMAIN w[New] /\ IsArr(w[New][k]) =>
        IsList(w, w[New][k].id) /\ w[New][k].id \notin Tables(heap)
  BY <1>2, <1>3, HeirSlot
<1>6. DOMAIN w[New] \subseteq Keys
  <2>1. h[src] = heap[src]
    BY <1>3 DEF Heir, Extends
  <2> QED
    BY <1>2, <1>3, <2>1 DEF Heir, CopiedOver
<1>7. Heir(w)
  BY <1>2, <1>5, <1>6 DEF Heir
<1>8. View(w, New) = Before(View(heap, src), View(h, New))
  <2>1. View(w, New) = UNION {SlotView(w, New, k) : k \in Keys}
    BY DEF View
  <2>2. UNION {SlotView(w, New, k) : k \in Keys}
        = UNION {Before(SlotView(heap, src, k), SlotView(h, New, k)) : k \in Keys}
    BY <1>4
  <2> QED
    BY <2>1, <2>2, BeforeByKey
<1> QED
  BY <1>7, <1>8 DEF w, src

\* A leaf of the file lies in one place, under one key.
LEMMA LeafPlace ==
  ASSUME NEW h, Tabled(h)
  PROVE  /\ \A l \in Leaves(h, 1) : \E t \in Places(h), k \in Keys : \E m \in SlotView(h, Table(h, t), k) :
              l = [path |-> Lead(t, m.path), v |-> m.v] /\ l.path = Lead(t, m.path) /\ l.v = m.v
         /\ \A t \in Places(h), k \in Keys : \A m \in SlotView(h, Table(h, t), k) :
              [path |-> Lead(t, m.path), v |-> m.v] \in Leaves(h, 1)
<1>1. Leaves(h, 1) = UNION {Lift(t, SlotView(h, Table(h, t), k)) : t \in Places(h), k \in Keys}
  BY LeavesAre DEF FileView
<1>2. ASSUME NEW l \in Leaves(h, 1)
      PROVE  \E t \in Places(h), k \in Keys : \E m \in SlotView(h, Table(h, t), k) :
               l = [path |-> Lead(t, m.path), v |-> m.v] /\ l.path = Lead(t, m.path) /\ l.v = m.v
  <2>1. PICK t \in Places(h), k \in Keys : l \in Lift(t, SlotView(h, Table(h, t), k))
    BY <1>1
  <2> QED
    BY <2>1, LiftedIs
<1>3. ASSUME NEW t \in Places(h), NEW k \in Keys, NEW m \in SlotView(h, Table(h, t), k)
      PROVE  [path |-> Lead(t, m.path), v |-> m.v] \in Leaves(h, 1)
  <2>1. [path |-> Lead(t, m.path), v |-> m.v] \in Lift(t, SlotView(h, Table(h, t), k))
    BY LiftedIs
  <2> QED
    BY <1>1, <2>1
<1> QED
  BY <1>2, <1>3

\* What is below a section of the file is what its table shows.
LEMMA UnderIs ==
  ASSUME LinesInv, NEW p, p \notin Keys
  PROVE  /\ p \in DOMAIN heap[1] => Under(Leaves(heap, 1), p) = View(heap, heap[1][p].id)
         /\ p \notin DOMAIN heap[1] => Under(Leaves(heap, 1), p) = {}
<1> DEFINE L == Leaves(heap, 1)
<1>1. Tabled(heap) /\ Null \notin Sections
  BY ConfigAssumption DEF LinesInv
<1>2. Under(L, p) = {[path |-> Tail(l.path), v |-> l.v] : l \in {m \in L : Head(m.path) = p}}
  BY DEF Under
<1>3. ASSUME NEW l \in L, Head(l.path) = p
      PROVE  /\ p \in DOMAIN heap[1]
             /\ [path |-> Tail(l.path), v |-> l.v] \in View(heap, heap[1][p].id)
  <2>1. PICK t \in Places(heap), k \in Keys : \E m \in SlotView(heap, Table(heap, t), k) :
          l = [path |-> Lead(t, m.path), v |-> m.v] /\ l.path = Lead(t, m.path) /\ l.v = m.v
    BY <1>1, LeafPlace
  <2>2. PICK m \in SlotView(heap, Table(heap, t), k) : l.path = Lead(t, m.path) /\ l.v = m.v
    BY <2>1
  <2>3. t # Null /\ t = p
    <3>1. Below(k, m.path)
      BY SlotBelow
    <3>2. Head(Lead(t, m.path)) = IF t = Null THEN k ELSE t
      BY <3>1, LeadIs, Zenon
    <3> QED
      BY <1>3, <2>2, <3>2
  <2>4. p \in Sections \cap DOMAIN heap[1]
    BY <2>3 DEF Places
  <2>5. Table(heap, t) = heap[1][p].id
    BY <2>3, <2>4, PlacesAre
  <2>6. [path |-> Tail(l.path), v |-> l.v] = m
    <3>1. Below(k, m.path) /\ m = [path |-> m.path, v |-> m.v]
      BY SlotBelow
    <3>2. t # Null => Tail(Lead(t, m.path)) = m.path
      BY <3>1, LeadIs, Zenon
    <3> QED
      BY <2>2, <2>3, <3>1, <3>2
  <2> QED
    BY <2>2, <2>4, <2>5, <2>6 DEF View
<1>4. ASSUME p \in DOMAIN heap[1], NEW m \in View(heap, heap[1][p].id)
      PROVE  \E l \in L : Head(l.path) = p /\ m = [path |-> Tail(l.path), v |-> l.v]
  <2>1. p \in Sections \cap DOMAIN heap[1] /\ p # Null
    BY <1>1, <1>4 DEF Tabled
  <2>2. p \in Places(heap) /\ Table(heap, p) = heap[1][p].id
    BY <2>1, PlacesAre
  <2>3. PICK k \in Keys : m \in SlotView(heap, Table(heap, p), k)
    BY <1>4, <2>2 DEF View
  <2> DEFINE l == [path |-> Lead(p, m.path), v |-> m.v]
  <2>4. l \in L
    BY <1>1, <2>2, <2>3, LeafPlace
  <2>5. l.path = Lead(p, m.path) /\ l.v = m.v
    OBVIOUS
  <2>6. Head(Lead(p, m.path)) = p /\ Tail(Lead(p, m.path)) = m.path /\ m = [path |-> m.path, v |-> m.v]
    <3>1. Below(k, m.path) /\ m = [path |-> m.path, v |-> m.v]
      BY <2>3, SlotBelow
    <3>2. (p # Null => Tail(Lead(p, m.path)) = m.path) /\ Head(Lead(p, m.path)) = IF p = Null THEN k ELSE p
      BY <3>1, LeadIs, Zenon
    <3> QED
      BY <2>1, <3>1, <3>2
  <2> HIDE DEF l, L
  <2> QED
    BY <2>4, <2>5, <2>6
<1> HIDE DEF L
<1>5. p \in DOMAIN heap[1] => \A m : m \in Under(L, p) <=> m \in View(heap, heap[1][p].id)
  BY <1>2, <1>3, <1>4
<1>6. p \notin DOMAIN heap[1] => Under(L, p) = {}
  BY <1>2, <1>3
<1> QED
  BY <1>5, <1>6 DEF L

\* from[n] is what parents[n] and those after it give.
IsInherited(g, L, parents) ==
  /\ g[Len(parents) + 1] = {}
  /\ \A n \in 1 .. Len(parents) : g[n] = Before(Under(L, parents[n]), g[n + 1])

InheritedFrom(g, L, parents, m) ==
  /\ g[Len(parents) + 1] = {}
  /\ \A n \in m .. Len(parents) : g[n] = Before(Under(L, parents[n]), g[n + 1])

\* The sets that Inherited goes through exist.
LEMMA InheritedIs ==
  ASSUME NEW L, NEW parents, Len(parents) \in Nat
  PROVE  \E f : IsInherited(f, L, parents) /\ Inherited(L, parents) = f[1]
<1> DEFINE top == Len(parents)
           P(m) == \E g : DOMAIN g = 1 .. top + 1 /\ InheritedFrom(g, L, parents, m)
           S == {m \in 1 .. top + 1 : ~P(m)}
<1>1. S = {}
  <2>1. SUFFICES ASSUME S # {} PROVE FALSE
    OBVIOUS
  <2>2. S \in SUBSET (0 .. top + 1) /\ top + 1 \in Nat
    OBVIOUS
  <2>3. PICK m \in S : \A y \in S : y <= m
    BY <2>1, <2>2, GreatestOf
  <2>4. m \in 1 .. top + 1 /\ ~P(m)
    OBVIOUS
  <2>5. P(top + 1)
    <3> DEFINE g == [i \in 1 .. top + 1 |-> {}]
    <3>1. DOMAIN g = 1 .. top + 1 /\ g[top + 1] = {}
      OBVIOUS
    <3>2. (top + 1) .. top = {}
      OBVIOUS
    <3>3. InheritedFrom(g, L, parents, top + 1)
      BY <3>1, <3>2 DEF InheritedFrom
    <3> QED
      BY <3>1, <3>3
  <2>6. m \in 1 .. top /\ m + 1 \in 1 .. top + 1
    BY <2>4, <2>5
  <2>7. P(m + 1)
    <3>1. m + 1 \notin S
      BY <2>3, <2>6
    <3> HIDE DEF P
    <3> QED
      BY <2>6, <3>1
  <2>8. PICK g : DOMAIN g = 1 .. top + 1 /\ InheritedFrom(g, L, parents, m + 1)
    BY <2>7
  <2> DEFINE v == Before(Under(L, parents[m]), g[m + 1])
             f == [g EXCEPT ![m] = v]
  <2>9. DOMAIN f = 1 .. top + 1 /\ f[m] = v /\ \A i \in 1 .. top + 1 : i # m => f[i] = g[i]
    BY <2>6, <2>8
  <2> HIDE DEF f
  <2>10. ASSUME NEW n \in m .. top PROVE f[n] = Before(Under(L, parents[n]), f[n + 1])
    <3>1. CASE n = m
      <4>1. f[n + 1] = g[m + 1]
        BY <3>1, <2>6, <2>9
      <4> QED
        BY <3>1, <4>1, <2>9
    <3>2. CASE n # m
      <4>1. n \in (m + 1) .. top /\ n \in 1 .. top + 1 /\ n + 1 \in 1 .. top + 1 /\ n + 1 # m
        BY <3>2, <2>6
      <4>2. f[n] = g[n] /\ f[n + 1] = g[n + 1]
        BY <3>2, <4>1, <2>9
      <4> QED
        BY <4>1, <4>2, <2>8 DEF InheritedFrom
    <3> QED
      BY <3>1, <3>2
  <2>11. f[top + 1] = {}
    BY <2>6, <2>8, <2>9 DEF InheritedFrom
  <2>12. InheritedFrom(f, L, parents, m)
    BY <2>10, <2>11 DEF InheritedFrom
  <2> QED
    BY <2>4, <2>9, <2>12
<1>2. P(1)
  <2>1. 1 \in 1 .. top + 1
    OBVIOUS
  <2> HIDE DEF P
  <2> QED
    BY <1>1, <2>1
<1>3. PICK g : DOMAIN g = 1 .. top + 1 /\ InheritedFrom(g, L, parents, 1)
  BY <1>2
<1> DEFINE F(c) == [n \in 1 .. top + 1 |-> IF n = top + 1 THEN {}
                                           ELSE Before(Under(L, parents[n]), c[n + 1])]
           f0 == [n \in 1 .. top + 1 |-> g[n]]
           f1 == CHOOSE c : c = F(c)
<1>4. f0 = F(f0)
  <2>1. ASSUME NEW n \in 1 .. top + 1
        PROVE  f0[n] = IF n = top + 1 THEN {}
                       ELSE Before(Under(L, parents[n]), f0[n + 1])
    <3>1. CASE n = top + 1
      BY <3>1, <1>3 DEF InheritedFrom
    <3>2. CASE n # top + 1
      <4>1. n \in 1 .. top /\ n + 1 \in 1 .. top + 1
        BY <3>2
      <4>2. f0[n] = g[n] /\ f0[n + 1] = g[n + 1]
        BY <4>1
      <4>3. g[n] = Before(Under(L, parents[n]), g[n + 1])
        BY <4>1, <1>3 DEF InheritedFrom
      <4> QED
        BY <3>2, <4>2, <4>3
    <3> QED
      BY <3>1, <3>2
  <2>2. F(f0) = [n \in 1 .. top + 1 |-> f0[n]]
    <3> HIDE DEF f0
    <3> QED
      BY <2>1, Zenon
  <2>3. [n \in 1 .. top + 1 |-> f0[n]] = f0
    OBVIOUS
  <2> HIDE DEF F, f0
  <2> QED
    BY <2>2, <2>3
<1>5. f1 = F(f1)
  <2> HIDE DEF F, f0
  <2> QED
    BY <1>4
<1>6. Inherited(L, parents) = f1[1]
  BY DEF Inherited
<1> HIDE DEF f1
<1>7. \A n \in 1 .. top + 1 : f1[n] = IF n = top + 1 THEN {}
                                     ELSE Before(Under(L, parents[n]), f1[n + 1])
  <2>1. \A c : \A n \in 1 .. top + 1 : F(c)[n] = IF n = top + 1 THEN {}
                                               ELSE Before(Under(L, parents[n]), c[n + 1])
    OBVIOUS
  <2> HIDE DEF F
  <2> QED
    BY <1>5, <2>1
<1>8. f1[top + 1] = {}
  <2>1. top + 1 \in 1 .. top + 1
    OBVIOUS
  <2>2. f1[top + 1] = IF top + 1 = top + 1 THEN {}
                      ELSE Before(Under(L, parents[top + 1]), f1[top + 1 + 1])
    BY <1>7, <2>1, Zenon
  <2> QED
    BY <2>2, Zenon
<1>9. \A n \in 1 .. top : f1[n] = Before(Under(L, parents[n]), f1[n + 1])
  BY <1>7
<1>10. IsInherited(f1, L, parents)
  BY <1>8, <1>9 DEF IsInherited
<1> QED
  BY <1>6, <1>10

----------------------------------------------------------------------------
(* Headers *)

\* The section made from its parents shows what is meant.
LEMMA InheritView ==
  ASSUME LinesInv, NEW parents, Len(parents) \in Nat, \A n \in 1 .. Len(parents) : parents[n] \notin Keys,
         NEW f, IsCopied(f, parents), NEW g, IsInherited(g, Leaves(heap, 1), parents)
  PROVE  \A n \in 1 .. Len(parents) + 1 : Heir(f[n]) /\ View(f[n], New) = g[n]
<1> DEFINE top == Len(parents)
           L == Leaves(heap, 1)
           H(n) == Heir(f[n]) /\ View(f[n], New) = g[n]
           S == {n \in 1 .. top + 1 : ~H(n)}
<1>1. SUFFICES ASSUME S # {} PROVE FALSE
  OBVIOUS
<1>2. S \in SUBSET (0 .. top + 1) /\ top + 1 \in Nat
  OBVIOUS
<1>3. PICK m \in S : \A y \in S : y <= m
  BY <1>1, <1>2, GreatestOf
<1>4. m \in 1 .. top + 1 /\ ~H(m)
  BY <1>3
<1>5. IsHeap(heap) /\ Rooted /\ Len(heap) \in Nat /\ DOMAIN heap = 1 .. Len(heap) /\ 1 \in DOMAIN heap /\ IsSeq(heap)
  BY HeapDomain DEF LinesInv, ConfigInv, ParseOK
<1>6. Extends(f[top + 1])
  BY <1>5, InheritExtends
<1>7. H(top + 1)
  <2>1. f[top + 1] = Append(heap, Empty) /\ g[top + 1] = {}
    BY DEF IsCopied, IsInherited
  <2>2. f[top + 1][New] = Empty
    BY <1>5, <2>1, SeqAppend DEF New
  <2>3. DOMAIN Empty = {}
    BY DEF Empty
  <2>4. View(f[top + 1], New) = {}
    BY <2>2, <2>3 DEF View, SlotView
  <2> QED
    BY <1>6, <2>1, <2>2, <2>3, <2>4 DEF Heir
<1>8. m \in 1 .. top /\ m + 1 \in 1 .. top + 1
  BY <1>4, <1>7
<1> DEFINE p == parents[m]
<1>9. f[m] = InheritFrom(f[m + 1], New, p) /\ g[m] = Before(Under(L, p), g[m + 1]) /\ p \notin Keys
  BY <1>8 DEF IsCopied, IsInherited, New
<1>10. Heir(f[m + 1]) /\ View(f[m + 1], New) = g[m + 1]
  <2>1. m + 1 \notin S
    BY <1>3, <1>8
  <2> QED
    BY <1>8, <2>1
<1> HIDE DEF p, L
<1>11. CASE p \in DOMAIN heap[1]
  <2>1. Under(L, p) = View(heap, heap[1][p].id)
    BY <1>9, <1>11, UnderIs DEF L
  <2>2. Heir(f[m]) /\ View(f[m], New) = Before(View(heap, heap[1][p].id), View(f[m + 1], New))
    BY <1>9, <1>10, <1>11, HeirInherits
  <2> QED
    BY <1>4, <1>9, <1>10, <2>1, <2>2
<1>12. CASE p \notin DOMAIN heap[1]
  <2>1. Under(L, p) = {}
    BY <1>9, <1>12, UnderIs DEF L
  <2>2. f[m + 1][1] = heap[1]
    BY <1>5, <1>10 DEF Heir, Extends
  <2>3. f[m] = f[m + 1]
    BY <1>9, <1>12, <2>2 DEF InheritFrom
  <2>4. g[m] = g[m + 1]
    BY <1>9, <2>1, BeforeNone
  <2> QED
    BY <1>4, <1>10, <2>3, <2>4
<1> QED
  BY <1>11, <1>12

\* The section of a header has the entries of its parents, the first listed before the next.
LEMMA InheritAllView ==
  ASSUME LinesInv, NEW parents, Len(parents) \in Nat, \A n \in 1 .. Len(parents) : parents[n] \notin Keys
  PROVE  /\ Heir(InheritAll(parents))
         /\ View(InheritAll(parents), New) = Inherited(Leaves(heap, 1), parents)
<1>1. PICK f : IsCopied(f, parents) /\ InheritAll(parents) = f[1]
  BY InheritAllIs
<1>2. PICK g : IsInherited(g, Leaves(heap, 1), parents) /\ Inherited(Leaves(heap, 1), parents) = g[1]
  BY InheritedIs
<1>3. 1 \in 1 .. Len(parents) + 1
  OBVIOUS
<1> QED
  BY <1>1, <1>2, <1>3, InheritView

\* w is the file after the section name was given the array New of g.
Placed(w, g, name) ==
  /\ IsHeap(w) /\ New # 1 /\ New \notin DOMAIN heap
  /\ DOMAIN w[1] = DOMAIN heap[1] \cup {name} /\ w[1][name] = Arr(New)
  /\ \A x \in DOMAIN heap[1] : x # name => w[1][x] = heap[1][x]
  /\ \A j \in DOMAIN g : j # 1 => w[j] = g[j]
  /\ \A j \in DOMAIN heap : j # 1 => w[j] = heap[j]

\* The section of a header is put under its name.
LEMMA HeaderPlaces ==
  ASSUME LinesInv, NEW g, Heir(g), NEW name \in Sections, NEW w, w = Write(g, 1, name, Arr(New))
  PROVE  Placed(w, g, name)
<1>1. /\ Len(heap) \in Nat /\ Len(heap) >= 1 /\ DOMAIN heap = 1 .. Len(heap)
      /\ IsSeq(g) /\ Len(g) \in Nat /\ DOMAIN g = 1 .. Len(g) /\ IsHeapIn(g, Len(g)) /\ Len(g) >= New
      /\ \A j \in DOMAIN heap : g[j] = heap[j]
  BY HeapDomain, SeqIs DEF LinesInv, ConfigInv, Heir, Extends, IsHeap, IsHeapIn, New
<1>2. New \in 1 .. Len(g) /\ New # 1 /\ New \notin DOMAIN heap
  BY <1>1 DEF New
<1>3. /\ IsSeq(w) /\ Len(w) = Len(g) /\ DOMAIN w[1] = DOMAIN g[1] \cup {name} /\ w[1][name] = Arr(New)
      /\ \A x \in DOMAIN g[1] : x # name => w[1][x] = g[1][x]
      /\ \A j \in DOMAIN g : j # 1 => w[j] = g[j]
  <2>1. 1 \in DOMAIN g
    BY <1>1, <1>2
  <2> QED
    BY <1>1, <2>1, WriteIs
<1>4. Arr(New) \in Value(Len(g)) /\ Arr(New) # Arr(1)
  BY <1>2, Values
<1>5. IsHeapIn(w, Len(g))
  <2>1. 1 \in DOMAIN g /\ Arr(New) # Arr(1)
    BY <1>1, <1>2, <1>4
  <2> QED
    BY <1>1, <1>4, <2>1, WriteHeap
<1> QED
  BY <1>1, <1>2, <1>3, <1>5 DEF Placed, IsHeap

\* The other tables show what they showed.
LEMMA OthersStay ==
  ASSUME LinesInv, NEW g, Heir(g), NEW name \in Sections, NEW w, Placed(w, g, name),
         NEW a \in Tables(heap), NEW k \in Keys
  PROVE  /\ k \in DOMAIN w[a] <=> k \in DOMAIN heap[a]
         /\ k \in DOMAIN heap[a] => w[a][k] = heap[a][k]
         /\ k \in DOMAIN heap[a] /\ IsArr(heap[a][k]) =>
              /\ w[heap[a][k].id] = heap[heap[a][k].id]
              /\ IsList(w, heap[a][k].id) /\ heap[a][k].id \notin Tables(heap) \cup {New}
<1>1. a \in DOMAIN heap /\ k # name /\ 1 \in Tables(heap)
  BY TablesExist, PlacesAre, ConfigAssumption DEF LinesInv, ConfigInv
<1>2. (k \in DOMAIN w[a] <=> k \in DOMAIN heap[a]) /\ (k \in DOMAIN heap[a] => w[a][k] = heap[a][k])
  BY <1>1 DEF Placed
<1>3. ASSUME k \in DOMAIN heap[a], IsArr(heap[a][k])
      PROVE  /\ w[heap[a][k].id] = heap[heap[a][k].id]
             /\ IsList(w, heap[a][k].id) /\ heap[a][k].id \notin Tables(heap) \cup {New}
  <2>1. /\ heap[a][k].id \in DOMAIN heap /\ heap[a][k].id \notin Tables(heap) /\ IsList(heap, heap[a][k].id)
    BY <1>3, ListsExist
  <2>2. heap[a][k].id # 1 /\ heap[a][k].id # New
    BY <1>1, <2>1 DEF Placed
  <2>3. w[heap[a][k].id] = heap[heap[a][k].id]
    BY <2>1, <2>2 DEF Placed
  <2> QED
    BY <2>1, <2>2, <2>3 DEF IsList
<1> QED
  BY <1>2, <1>3

\* And so they show the same leaves.
LEMMA OthersShow ==
  ASSUME LinesInv, NEW g, Heir(g), NEW name \in Sections, NEW w, Placed(w, g, name),
         NEW a \in Tables(heap), NEW k \in Keys
  PROVE  SlotView(w, a, k) = SlotView(heap, a, k)
<1>1. (k \in DOMAIN w[a] <=> k \in DOMAIN heap[a]) /\ (k \in DOMAIN heap[a] => w[a][k] = heap[a][k])
  BY OthersStay
<1>2. CASE k \in DOMAIN heap[a] /\ IsArr(heap[a][k])
  <2>1. w[heap[a][k].id] = heap[heap[a][k].id]
    BY <1>2, OthersStay
  <2> QED
    BY <1>1, <1>2, <2>1 DEF SlotView
<1>3. CASE ~(k \in DOMAIN heap[a] /\ IsArr(heap[a][k]))
  BY <1>1, <1>3 DEF SlotView
<1> QED
  BY <1>2, <1>3

\* The new table shows what was inherited.
LEMMA NewShows ==
  ASSUME LinesInv, NEW g, Heir(g), NEW name \in Sections, NEW w, Placed(w, g, name), NEW k \in Keys
  PROVE  /\ SlotView(w, New, k) = SlotView(g, New, k)
         /\ k \in DOMAIN w[New] /\ IsArr(w[New][k]) =>
              IsList(w, w[New][k].id) /\ w[New][k].id \notin Tables(heap) \cup {New}
<1>1. IsHeap(g) /\ New \in DOMAIN g
  <2>1. IsHeap(g) /\ Len(g) >= New /\ DOMAIN g = 1 .. Len(g) /\ Len(g) \in Nat /\ Len(heap) \in Nat
    BY HeapDomain, SeqIs DEF LinesInv, ConfigInv, Heir, Extends, IsHeap, IsHeapIn, New
  <2> QED
    BY <2>1 DEF New
<1>2. w[New] = g[New]
  BY <1>1 DEF Placed
<1>3. ASSUME k \in DOMAIN g[New], IsArr(g[New][k])
      PROVE  /\ w[g[New][k].id] = g[g[New][k].id]
             /\ IsList(w, g[New][k].id) /\ g[New][k].id \notin Tables(heap) \cup {New}
  <2>1. g[New][k].id \in DOMAIN g /\ g[New][k].id # 1 /\ g[New][k].id # New
    BY <1>1, <1>3, FoundArray
  <2>2. IsList(g, g[New][k].id) /\ g[New][k].id \notin Tables(heap)
    BY <1>3 DEF Heir
  <2>3. w[g[New][k].id] = g[g[New][k].id]
    BY <2>1 DEF Placed
  <2> QED
    BY <2>1, <2>2, <2>3 DEF IsList
<1>4. SlotView(w, New, k) = SlotView(g, New, k)
  <2>1. CASE k \in DOMAIN g[New] /\ IsArr(g[New][k])
    BY <1>2, <1>3, <2>1 DEF SlotView
  <2>2. CASE ~(k \in DOMAIN g[New] /\ IsArr(g[New][k]))
    BY <1>2, <2>2 DEF SlotView
  <2> QED
    BY <2>1, <2>2
<1> QED
  BY <1>2, <1>3, <1>4

\* The tables after a header.
LEMMA HeaderTables ==
  ASSUME LinesInv, NEW g, Heir(g), NEW name \in Sections, NEW w, Placed(w, g, name)
  PROVE  /\ Places(w) = Places(heap) \cup {name}
         /\ Table(w, name) = New
         /\ \A t \in Places(heap) : t # name => Table(w, t) = Table(heap, t)
         /\ Tables(w) \subseteq Tables(heap) \cup {New}
         /\ New \notin Tables(heap)
<1>1. Null \notin Sections
  BY ConfigAssumption
<1>2. Places(w) = Places(heap) \cup {name}
  BY DEF Placed, Places
<1>3. Table(w, name) = New
  BY <1>1, Values DEF Placed, Table
<1>4. \A t \in Places(heap) : t # name => Table(w, t) = Table(heap, t)
  BY DEF Placed, Table, Places
<1>5. Tables(w) \subseteq Tables(heap) \cup {New}
  BY <1>2, <1>3, <1>4 DEF Tables
<1>6. New \notin Tables(heap)
  BY TablesExist DEF LinesInv, ConfigInv, Placed
<1> QED
  BY <1>2, <1>3, <1>4, <1>5, <1>6

\* A header makes a file of tables again.
LEMMA HeaderTabled ==
  ASSUME LinesInv, NEW g, Heir(g), NEW name \in Sections, NEW w, Placed(w, g, name)
  PROVE  Tabled(w)
<1>1. /\ Places(w) = Places(heap) \cup {name} /\ Table(w, name) = New
      /\ \A t \in Places(heap) : t # name => Table(w, t) = Table(heap, t) /\ Table(heap, t) \in Tables(heap)
      /\ Tables(w) \subseteq Tables(heap) \cup {New} /\ New \notin Tables(heap)
  BY HeaderTables, PlacesAre
<1>2. DOMAIN w[1] \subseteq Sections \cup Keys
  BY DEF Placed, LinesInv, Tabled
<1>3. ASSUME NEW s \in Sections \cap DOMAIN w[1] PROVE IsArr(w[1][s]) /\ DOMAIN w[w[1][s].id] \subseteq Keys
  <2>1. CASE s = name
    <3>1. New \in DOMAIN g
      <4>1. Len(g) >= New /\ DOMAIN g = 1 .. Len(g) /\ Len(g) \in Nat /\ Len(heap) \in Nat
        BY HeapDomain, SeqIs DEF LinesInv, ConfigInv, Heir, Extends, IsHeap, IsHeapIn, New
      <4> QED
        BY <4>1 DEF New
    <3>2. w[1][s] = Arr(New) /\ w[New] = g[New]
      BY <2>1, <3>1 DEF Placed
    <3> QED
      BY <3>2, Values DEF Heir
  <2>2. CASE s # name
    <3>1. s \in Sections \cap DOMAIN heap[1] /\ w[1][s] = heap[1][s]
      BY <2>2 DEF Placed
    <3>2. heap[1][s].id \in Tables(heap) /\ Table(heap, s) = heap[1][s].id /\ s \in Places(heap)
      BY <3>1, PlacesAre
    <3>3. heap[1][s].id # 1 /\ heap[1][s].id \in DOMAIN heap
      <4>1. Null \in Places(heap) /\ Table(heap, Null) = 1 /\ Null # s
        BY PlacesAre, ConfigAssumption
      <4> QED
        BY <3>2, <4>1, TablesExist DEF LinesInv, ConfigInv, Tabled
    <3>4. w[heap[1][s].id] = heap[heap[1][s].id]
      BY <3>3 DEF Placed
    <3> QED
      BY <3>1, <3>4 DEF LinesInv, Tabled
  <2> QED
    BY <2>1, <2>2
<1>4. \A s, t \in Places(w) : Table(w, s) = Table(w, t) => s = t
  BY <1>1 DEF LinesInv, Tabled
<1>5. ASSUME NEW a \in Tables(w), NEW k \in DOMAIN w[a] \cap Keys, IsArr(w[a][k])
      PROVE  IsList(w, w[a][k].id) /\ w[a][k].id \notin Tables(heap) \cup {New}
  <2>1. CASE a = New
    BY <1>5, <2>1, NewShows
  <2>2. CASE a \in Tables(heap)
    <3>1. k \in DOMAIN heap[a] /\ w[a][k] = heap[a][k]
      BY <2>2, OthersStay
    <3> QED
      BY <1>5, <2>2, <3>1, OthersStay
  <2> QED
    BY <1>1, <2>1, <2>2
<1>6. \A a \in Tables(w) : ListsOnly(w, a, Tables(w))
  BY <1>1, <1>5 DEF ListsOnly
<1> QED
  BY <1>2, <1>3, <1>4, <1>6 DEF Tabled

\* The leaves after a header.
LEMMA HeaderLeaves ==
  ASSUME LinesInv, NEW g, Heir(g), NEW name \in Sections, NEW w, Placed(w, g, name)
  PROVE  Leaves(w, 1) = {l \in Leaves(heap, 1) : Head(l.path) /= name} \cup In(name, View(g, New))
<1> DEFINE L == Leaves(heap, 1)
           W == Leaves(w, 1)
           I == In(name, View(g, New))
<1>1. /\ Places(w) = Places(heap) \cup {name} /\ Table(w, name) = New
      /\ \A t \in Places(heap) : t # name => Table(w, t) = Table(heap, t) /\ Table(heap, t) \in Tables(heap)
  BY HeaderTables, PlacesAre
<1>2. name # Null /\ name \notin Keys /\ Tabled(heap) /\ Tabled(w)
  BY HeaderTabled, ConfigAssumption DEF LinesInv
<1>3. ASSUME NEW t \in Places(heap), t # name, NEW k \in Keys
      PROVE  SlotView(w, Table(w, t), k) = SlotView(heap, Table(heap, t), k)
  BY <1>1, <1>3, OthersShow
<1>4. \A k \in Keys : SlotView(w, Table(w, name), k) = SlotView(g, New, k)
  BY <1>1, NewShows
<1>5. I = {[path |-> <<name>> \o m.path, v |-> m.v] : m \in View(g, New)}
  BY DEF In
<1>6. \A k \in Keys : \A m \in SlotView(g, New, k) : m \in View(g, New)
  BY DEF View
<1>7. \A m \in View(g, New) : \E k \in Keys : m \in SlotView(g, New, k)
  BY DEF View
<1>8. \A p : Lead(name, p) = <<name>> \o p
  BY <1>2 DEF Lead
<1>9. ASSUME NEW t \in Places(heap), NEW k \in Keys, NEW m \in SlotView(heap, Table(heap, t), k)
      PROVE  Head(Lead(t, m.path)) = name <=> t = name
  <2>1. Below(k, m.path)
    BY SlotBelow
  <2>2. Head(Lead(t, m.path)) = IF t = Null THEN k ELSE t
    BY <2>1, LeadIs, Zenon
  <2> QED
    BY <1>2, <2>2
<1>10. ASSUME NEW l \in W PROVE l \in {x \in L : Head(x.path) /= name} \cup I
  <2>1. PICK t \in Places(w), k \in Keys : \E m \in SlotView(w, Table(w, t), k) :
          l = [path |-> Lead(t, m.path), v |-> m.v] /\ l.path = Lead(t, m.path) /\ l.v = m.v
    BY <1>2, LeafPlace
  <2>2. PICK m \in SlotView(w, Table(w, t), k) :
          l = [path |-> Lead(t, m.path), v |-> m.v] /\ l.path = Lead(t, m.path)
    BY <2>1
  <2>3. CASE t = name
    <3>1. m \in View(g, New)
      BY <1>4, <1>6, <2>2, <2>3
    <3>2. l = [path |-> <<name>> \o m.path, v |-> m.v]
      BY <1>8, <2>2, <2>3
    <3> QED
      BY <1>5, <3>1, <3>2
  <2>4. CASE t # name
    <3>1. t \in Places(heap) /\ m \in SlotView(heap, Table(heap, t), k)
      BY <1>1, <1>3, <2>2, <2>4
    <3>2. [path |-> Lead(t, m.path), v |-> m.v] \in L
      BY <1>2, <3>1, LeafPlace
    <3>3. Head(l.path) # name
      BY <1>9, <2>2, <2>4, <3>1
    <3> QED
      BY <2>2, <3>2, <3>3
  <2> QED
    BY <2>3, <2>4
<1>11. ASSUME NEW l \in L, Head(l.path) # name PROVE l \in W
  <2>1. PICK t \in Places(heap), k \in Keys : \E m \in SlotView(heap, Table(heap, t), k) :
          l = [path |-> Lead(t, m.path), v |-> m.v] /\ l.path = Lead(t, m.path) /\ l.v = m.v
    BY <1>2, LeafPlace
  <2>2. PICK m \in SlotView(heap, Table(heap, t), k) :
          l = [path |-> Lead(t, m.path), v |-> m.v] /\ l.path = Lead(t, m.path)
    BY <2>1
  <2>3. t # name
    BY <1>9, <1>11, <2>2
  <2>4. t \in Places(w) /\ m \in SlotView(w, Table(w, t), k)
    BY <1>1, <1>3, <2>2, <2>3
  <2>5. [path |-> Lead(t, m.path), v |-> m.v] \in W
    BY <1>2, <2>4, LeafPlace
  <2> QED
    BY <2>2, <2>5
<1>12. ASSUME NEW l \in I PROVE l \in W
  <2>1. PICK m \in View(g, New) : l = [path |-> <<name>> \o m.path, v |-> m.v]
    BY <1>5
  <2>2. PICK k \in Keys : m \in SlotView(w, Table(w, name), k)
    BY <1>4, <1>7
  <2>3. [path |-> Lead(name, m.path), v |-> m.v] \in W
    BY <1>1, <1>2, <2>2, LeafPlace
  <2> QED
    BY <1>8, <2>1, <2>3
<1> HIDE DEF L, W, I
<1>13. \A l : l \in W <=> l \in {x \in L : Head(x.path) /= name} \cup I
  BY <1>10, <1>11, <1>12
<1> QED
  BY <1>13 DEF L, W, I

\* A header starts a section with the entries of its parents.
LEMMA HeaderMeans ==
  ASSUME LinesInv, NEW h \in Headers, Header(h)
  PROVE  Tabled(heap') /\ LinesAct
<1> DEFINE g == InheritAll(h.parents)
           L == Leaves(heap, 1)
<1>1. h.name \in Sections
  BY DEF Sections
<1>2. Len(h.parents) \in Nat /\ \A n \in 1 .. Len(h.parents) : h.parents[n] \notin Keys
  <2>1. h.parents \in Seq(ToSet(h.parents)) /\ Keys \cap ToSet(h.parents) = {}
    BY ConfigAssumption
  <2>2. Len(h.parents) \in Nat /\ \A n \in 1 .. Len(h.parents) : h.parents[n] \in ToSet(h.parents)
    BY <2>1
  <2> QED
    BY <2>1, <2>2
<1>3. Heir(g) /\ View(g, New) = Inherited(L, h.parents)
  BY <1>2, InheritAllView
<1>4. heap' = Write(g, 1, h.name, Arr(New)) /\ last' = [op |-> "header", name |-> h.name, parents |-> h.parents]
  BY DEF Header, NextLine, New
<1> HIDE DEF g
<1>5. Placed(heap', g, h.name)
  BY <1>1, <1>3, <1>4, HeaderPlaces
<1>6. Tabled(heap') /\ Leaves(heap', 1) = {l \in L : Head(l.path) /= h.name} \cup In(h.name, View(g, New))
  BY <1>1, <1>3, <1>5, HeaderTabled, HeaderLeaves
<1> HIDE DEF L
<1>7. Meant(L, last') = {l \in L : Head(l.path) /= h.name} \cup In(h.name, Inherited(L, h.parents))
  BY <1>4 DEF Meant
<1> QED
  BY <1>3, <1>6, <1>7 DEF LinesAct, L

\* A line after the wanted section means nothing.
LEMMA IgnoredMeans ==
  ASSUME LinesInv, LastHeader \/ IgnoredLine
  PROVE  Tabled(heap') /\ LinesAct
<1>1. heap' = heap /\ last' = [op |-> "ignored"]
  BY DEF LastHeader, IgnoredLine, NextLine
<1>2. Meant(Leaves(heap, 1), last') = Leaves(heap, 1)
  BY <1>1 DEF Meant
<1> QED
  BY <1>1, <1>2 DEF LinesAct, LinesInv

\* Every line keeps the tables and means what it says.
LEMMA LineMeans ==
  ASSUME LinesInv, ParseLine
  PROVE  Tabled(heap') /\ LinesAct
<1>1. ASSUME NEW h \in Headers, Header(h) PROVE Tabled(heap') /\ LinesAct
  BY <1>1, HeaderMeans
<1>2. ASSUME LastHeader \/ IgnoredLine PROVE Tabled(heap') /\ LinesAct
  BY <1>2, IgnoredMeans
<1>3. ASSUME NEW p \in Paths, Entry(p) PROVE Tabled(heap') /\ LinesAct
  BY <1>3, EntryMeans
<1>4. ASSUME NEW k \in Keys, ListAppend(k) PROVE Tabled(heap') /\ LinesAct
  <2>1. PICK j : ListEntry(k, j)
    BY <1>4 DEF ListAppend
  <2> QED
    BY <2>1, ListMeans
<1>5. ASSUME NEW k \in Keys, NEW j \in Names, ListEntry(k, j) PROVE Tabled(heap') /\ LinesAct
  BY <1>5, ListMeans
<1> QED
  BY <1>1, <1>2, <1>3, <1>4, <1>5, Zenon DEF ParseLine

\* While the file is read its arrays are tables.
FileInv == phase = "parse" => Tabled(heap)

\* The empty file has tables.
LEMMA FileInit ==
  ASSUME Init
  PROVE  FileInv
<1>1. heap[1] = Empty /\ DOMAIN Empty = {}
  BY DEF Init, Empty
<1>2. Places(heap) = {Null} /\ Tables(heap) = {1}
  BY <1>1 DEF Places, Tables, Table
<1>3. \A a \in Tables(heap) : ListsOnly(heap, a, Tables(heap))
  BY <1>1, <1>2 DEF ListsOnly
<1>4. Tabled(heap)
  BY <1>1, <1>2, <1>3 DEF Tabled
<1> QED
  BY <1>4 DEF FileInv

\* Every step keeps the tables and means what it says.
LEMMA FileNext ==
  ASSUME ConfigInv, FileInv, [Next]_state
  PROVE  FileInv' /\ [LinesAct]_state
<1>1. CASE ParseLine
  <2>1. phase = "parse"
    BY <1>1 DEF ParseLine, Header, LastHeader, IgnoredLine, Entry, ListAppend, ListEntry, NextLine
  <2>2. LinesInv
    BY <2>1 DEF LinesInv, FileInv
  <2>3. Tabled(heap') /\ LinesAct
    BY <1>1, <2>2, LineMeans
  <2>4. FileInv'
    BY <2>3 DEF FileInv, Tabled, Places, Tables, Table, ListsOnly, IsList
  <2> QED
    BY <2>3, <2>4
<1>2. CASE ParseEnd
  <2>1. phase' = "live"
    BY <1>2 DEF ParseEnd
  <2> QED
    BY <2>1 DEF FileInv, LinesAct
<1>3. CASE Use
  <2>1. phase = "live" /\ phase' = phase
    BY <1>3 DEF Use, PhpArray, Construct, ToArray, Get, Set, OffsetUnset, PhpWrite, Operation
  <2> QED
    BY <2>1 DEF FileInv, LinesAct
<1>4. CASE UNCHANGED state
  <2>1. heap' = heap /\ phase' = phase
    BY <1>4 DEF state
  <2>2. FileInv'
    <3>1. phase = "parse" => Tabled(heap')
      BY <2>1 DEF FileInv
    <3>2. phase' = "parse" => Tabled(heap)'
      BY <2>1, <3>1 DEF Tabled, Places, Tables, Table, ListsOnly, IsList
    <3> QED
      BY <3>2 DEF FileInv
  <2> QED
    BY <1>4, <2>2
<1> QED
  BY <1>1, <1>2, <1>3, <1>4 DEF Next

\* yaf_config_ini_parser_cb: a header makes a section that has the entries of
\* its parents (yaf_deep_copy_section, from the last listed to the first) and
\* touches nothing else; a value line sets one leaf of its own section and
\* leaves every other section as it was, though sections share arrays; the one
\* exception is a list line on a list that is still shared.
THEOREM LinesReadAsMeant ==
  Spec => LinesMeanWhatTheySay
<1>1. ConfigInv /\ FileInv /\ [Next]_state => FileInv' /\ [LinesAct]_state
  BY FileNext
<1>2. Spec => [][LinesAct]_state
  BY <1>1, ConfigInvariant, FileInit, PTL DEF Spec
<1> QED
  BY <1>2 DEF LinesMeanWhatTheySay, LinesAct

=============================================================================
