--------------------------- MODULE StorageProofs ---------------------------
(***************************************************************************)
(* Proofs about what Module 2 keeps and tells: the events of PubSub and    *)
(* the rows of ExecutionHistory.                                           *)
(*                                                                         *)
(* PubSubInv says, for every call of publish, which channels the copy of   *)
(* the slice can still lead it to, and how often.  Subscribe writes behind *)
(* the length of the copy or into a new array, so that a walk sees what it *)
(* saw; Unsubscribe moves elements under it, but only subscribed ones.     *)
(***************************************************************************)
EXTENDS PubSub, ExecutionHistory, FiniteLemmas, FunctionTheorems, TLAPS

PubSubSpec == PubSubInit /\ [][PubSubNext]_pubsubVars

Chans == Seq(Subscriber)
Slice == [array : Nat, len : Nat]
Tally == [Subscriber -> Nat]
PubCall == [pc : {"idle", "set", "check", "send", "copy", "walk", "walked"}, event : Nat,
            slice : Slice, i : Nat, targets : SUBSET Subscriber, owed : Tally, disturbed : BOOLEAN,
            offers : Tally]

\* A slice points into an array that is long enough, or is nil.
Backed(sl) ==
    \/ sl.array = 0 /\ sl.len = 0
    \/ sl.array \in DOMAIN arrays /\ sl.len <= Len(arrays[sl.array])

At(sl, j) == arrays[sl.array][j]

PubSubTypes ==
    /\ arrays \in Seq(Chans)
    /\ slice \in Slice /\ Backed(slice)
    /\ subscriptions \in Tally
    /\ pub \in [Publisher -> PubCall]

Copied(sl) == [j \in 1..sl.len |-> At(sl, j)]

\* How often s is among the first n elements of f.
Times(f, n, s) == Cardinality({j \in 1..n : f[j] = s})

\* The slice holds every channel as often as it is subscribed.
SliceInv == \A s \in Subscriber : subscriptions[s] = Times(Copied(slice), slice.len, s)

StoreInv == PubSubTypes /\ SliceInv

\* The places up to n are finitely many.
LEMMA FinitelyManyPlaces ==
    ASSUME NEW n \in Int, NEW S \in SUBSET (1..n)
    PROVE  IsFiniteSet(S) /\ Cardinality(S) \in Nat
<1>1. IsFiniteSet(1..n)
  BY FS_Interval
<1>2. IsFiniteSet(S)
  BY Zenon, <1>1, FS_Subset
<1> QED BY Zenon, <1>2, FS_CardinalityType

\* A channel is counted where it is.
LEMMA TimesPositive ==
    ASSUME NEW f, NEW n \in Nat, NEW s
    PROVE  Times(f, n, s) \in Nat /\ (Times(f, n, s) > 0 <=> \E j \in 1..n : f[j] = s)
<1> DEFINE T == {j \in 1..n : f[j] = s}
<1>1. IsFiniteSet(T) /\ Cardinality(T) \in Nat
  <2>1. T \in SUBSET (1..n) /\ n \in Int
    OBVIOUS
  <2> QED BY Zenon, <2>1, FinitelyManyPlaces
<1>2. Cardinality(T) \in Nat /\ (Cardinality(T) = 0 <=> T = {})
  BY Zenon, <1>1, FS_EmptySet
<1>3. T = {} <=> ~\E j \in 1..n : f[j] = s
  OBVIOUS
<1> HIDE DEF T
<1>4. Cardinality(T) > 0 <=> Cardinality(T) # 0
  BY <1>2
<1>5. Times(f, n, s) = Cardinality(T)
  BY DEF Times, T
<1> QED BY Zenon, <1>2, <1>3, <1>4, <1>5

\* The count looks only at the elements.
LEMMA TimesSame ==
    ASSUME NEW f, NEW g, NEW n \in Nat, \A j \in 1..n : f[j] = g[j], NEW s
    PROVE  Times(f, n, s) = Times(g, n, s)
<1>1. {j \in 1..n : f[j] = s} = {j \in 1..n : g[j] = s}
  BY Zenon
<1> QED BY Zenon, <1>1 DEF Times

\* The next element counts if it is the channel.
LEMMA TimesNext ==
    ASSUME NEW f, NEW n \in Nat, NEW s
    PROVE  Times(f, n + 1, s) = Times(f, n, s) + (IF f[n + 1] = s THEN 1 ELSE 0)
<1> DEFINE T == {j \in 1..n : f[j] = s}
           U == {j \in 1..n + 1 : f[j] = s}
<1>1. IsFiniteSet(T) /\ n + 1 \notin T
  <2>1. T \in SUBSET (1..n) /\ n \in Int /\ n + 1 \notin T
    OBVIOUS
  <2> QED BY Zenon, <2>1, FinitelyManyPlaces
<1>2. \A j : j \in 1..n + 1 <=> j \in 1..n \/ j = n + 1
  OBVIOUS
<1>3. CASE f[n + 1] = s
  <2>1. U = T \cup {n + 1}
    BY Zenon, <1>2, <1>3
  <2>2. Cardinality(T \cup {n + 1}) = Cardinality(T) + 1
    BY Zenon, <1>1, FS_AddElement
  <2> QED BY Zenon, <1>3, <2>1, <2>2 DEF Times
<1>4. CASE f[n + 1] # s
  <2>1. U = T
    BY Zenon, <1>2, <1>4
  <2>2. Cardinality(T) \in Nat
    BY <1>1, FS_CardinalityType
  <2> HIDE DEF T, U
  <2>3. Times(f, n + 1, s) = Cardinality(T) /\ Times(f, n, s) = Cardinality(T)
    BY <2>1 DEF Times, T, U
  <2> QED BY <1>4, <2>2, <2>3
<1> QED BY <1>3, <1>4

\* An element less.
LEMMA TimesWithout ==
    ASSUME NEW f, NEW g, NEW n \in Nat, NEW i \in 1..n, NEW s,
           \A j \in 1..n - 1 : g[j] = IF j < i THEN f[j] ELSE f[j + 1]
    PROVE  Times(g, n - 1, s) = Times(f, n, s) - (IF f[i] = s THEN 1 ELSE 0)
<1> DEFINE T == {j \in 1..n - 1 : g[j] = s}
           U == {j \in 1..n : f[j] = s}
           V == U \ {i}
           h == [j \in T |-> IF j < i THEN j ELSE j + 1]
<1>1. IsFiniteSet(U) /\ IsFiniteSet(V) /\ Cardinality(U) \in Nat
  <2>1. U \in SUBSET (1..n) /\ V \in SUBSET (1..n) /\ n \in Int
    OBVIOUS
  <2> QED BY Zenon, <2>1, FinitelyManyPlaces
<1>2. h \in [T -> V]
  <2>1. ASSUME NEW j \in T PROVE (IF j < i THEN j ELSE j + 1) \in V
    <3>1. j \in 1..n - 1 /\ g[j] = s
      OBVIOUS
    <3>2. CASE j < i
      <4>1. j \in 1..n /\ j # i
        BY <3>1, <3>2
      <4>2. f[j] = s
        BY Zenon, <3>1, <3>2
      <4> QED BY <3>2, <4>1, <4>2
    <3>3. CASE ~(j < i)
      <4>1. j + 1 \in 1..n /\ j + 1 # i
        BY <3>1, <3>3
      <4>2. f[j + 1] = s
        BY Zenon, <3>1, <3>3
      <4> QED BY <3>3, <4>1, <4>2
    <3> QED BY <3>2, <3>3
  <2> HIDE DEF T, V
  <2> QED BY <2>1
<1>3. \A j, k \in T : h[j] = h[k] => j = k
  <2>1. \A j \in T : j \in Nat /\ h[j] = IF j < i THEN j ELSE j + 1
    OBVIOUS
  <2> HIDE DEF T, h
  <2> QED BY SMTT(30), <2>1
<1>4. ASSUME NEW k \in V PROVE \E j \in T : h[j] = k
  <2>1. k \in 1..n /\ k # i /\ f[k] = s
    OBVIOUS
  <2>2. CASE k < i
    <3>1. k \in 1..n - 1
      BY <2>1, <2>2
    <3>2. g[k] = s
      BY Zenon, <2>1, <2>2, <3>1
    <3> QED BY <2>2, <3>1, <3>2
  <2>3. CASE ~(k < i)
    <3>1. k - 1 \in 1..n - 1 /\ ~(k - 1 < i) /\ (k - 1) + 1 = k
      BY <2>1, <2>3
    <3>2. g[k - 1] = s
      BY Zenon, <2>1, <3>1
    <3>3. k - 1 \in T /\ h[k - 1] = k
      BY <3>1, <3>2
    <3> QED BY <3>3
  <2> QED BY <2>2, <2>3
<1> HIDE DEF h
<1>5. h \in Bijection(T, V)
  BY <1>2, <1>3, <1>4, Fun_IsBij
<1>6. Cardinality(T) = Cardinality(V)
  <2> HIDE DEF T, V
  <2>1. ExistsBijection(V, T)
    BY <1>5, Fun_ExistsBijSymmetric DEF ExistsBijection
  <2> QED BY <1>1, <2>1, FS_Bijection DEF ExistsBijection
<1>7. CASE f[i] = s
  <2>1. Cardinality(V) = Cardinality(U) - 1
    BY <1>1, <1>7, FS_RemoveElement
  <2> QED BY Zenon, <1>6, <1>7, <2>1 DEF Times
<1>8. CASE f[i] # s
  <2>1. V = U
    BY <1>8
  <2>2. Cardinality(U) - 0 = Cardinality(U)
    BY <1>1
  <2> QED BY Zenon, <1>6, <1>8, <2>1, <2>2 DEF Times
<1> QED BY <1>7, <1>8

\* The elements of the slices there are.
LEMMA ElementsAt ==
    ASSUME arrays \in Seq(Chans), NEW sl \in Slice, Backed(sl)
    PROVE  /\ Elements(sl) \in Seq(Subscriber) /\ Len(Elements(sl)) = sl.len
           /\ \A j \in 1..sl.len : /\ Elements(sl)[j] = At(sl, j) /\ At(sl, j) \in Subscriber
                                   /\ sl.array \in DOMAIN arrays /\ j \in 1..Len(arrays[sl.array])
<1>0. sl.len \in Nat
  BY DEF Slice
<1>1. CASE sl.len = 0
  <2>1. Elements(sl) = <<>> /\ 1..sl.len = {}
    BY <1>1 DEF Elements
  <2> QED BY <1>1, <2>1
<1>2. CASE sl.len # 0
  <2>1. sl.array \in DOMAIN arrays /\ sl.len <= Len(arrays[sl.array])
    BY <1>2 DEF Backed
  <2>2. PICK a : a = arrays[sl.array]
    OBVIOUS
  <2>3. a \in Seq(Subscriber) /\ Len(a) \in Nat /\ sl.len <= Len(a)
    BY <2>1, <2>2 DEF Chans
  <2>4. \A j \in 1..sl.len : a[j] \in Subscriber /\ j \in 1..Len(a)
    BY <1>0, <2>3
  <2>5. Elements(sl) = SubSeq(a, 1, sl.len)
    BY Zenon, <1>2, <2>2 DEF Elements
  <2>6. /\ SubSeq(a, 1, sl.len) \in Seq(Subscriber)
        /\ Len(SubSeq(a, 1, sl.len)) = sl.len
        /\ \A j \in 1..sl.len : SubSeq(a, 1, sl.len)[j] = a[j]
    <3>1. /\ SubSeq(a, 1, sl.len) \in Seq(Subscriber)
          /\ Len(SubSeq(a, 1, sl.len)) = (IF 1 <= sl.len THEN sl.len - 1 + 1 ELSE 0)
          /\ \A j \in 1..sl.len - 1 + 1 : SubSeq(a, 1, sl.len)[j] = a[1 + j - 1]
      BY <1>0, <2>3, <2>4, SubSeqProperties
    <3> QED BY <1>0, <1>2, <3>1
  <2> QED BY Zenon, <2>1, <2>2, <2>4, <2>5, <2>6 DEF At
<1> QED BY <1>1, <1>2

\* The elements of the slice are the channels that are subscribed.
LEMMA SliceSubscribed ==
    ASSUME StoreInv
    PROVE  /\ Subscribed \subseteq Subscriber
           /\ \A j \in 1..slice.len : At(slice, j) \in Subscribed
           /\ \A s \in Subscribed : \E j \in 1..slice.len : At(slice, j) = s
<1>1. arrays \in Seq(Chans) /\ slice \in Slice /\ Backed(slice) /\ SliceInv
  BY DEF StoreInv, PubSubTypes
<1>2. PICK n \in Nat : n = slice.len
  BY <1>1 DEF Slice
<1>3. \A j \in 1..n : At(slice, j) \in Subscriber
  BY Zenon, <1>1, <1>2, ElementsAt
<1>4. \A j \in 1..n : Copied(slice)[j] = At(slice, j)
  BY Zenon, <1>2 DEF Copied
<1>5. \A s \in Subscriber : s \in Subscribed <=> \E j \in 1..n : Copied(slice)[j] = s
  <2>1. PICK f : f = Copied(slice)
    BY Zenon
  <2>2. \A s : Times(f, n, s) > 0 <=> \E j \in 1..n : f[j] = s
    BY Zenon, TimesPositive
  <2>3. \A s \in Subscriber : subscriptions[s] = Times(f, n, s)
    BY Zenon, <1>1, <1>2, <2>1 DEF SliceInv
  <2> QED BY Zenon, <2>1, <2>2, <2>3 DEF Subscribed
<1> QED BY Zenon, <1>2, <1>3, <1>4, <1>5 DEF Subscribed

\* append: the elements stay, the new one follows them, and of the arrays there
\* were only the place behind the slice may have changed.
LEMMA SubscribeEffect ==
    ASSUME StoreInv, NEW s \in Subscriber, Subscribe(s)
    PROVE  /\ arrays' \in Seq(Chans) /\ slice' \in Slice /\ slice'.len = slice.len + 1 /\ Backed(slice)'
           /\ \A j \in 1..slice.len : At(slice, j)' = At(slice, j)
           /\ At(slice, slice.len)' = s
           /\ \A a \in DOMAIN arrays : a \in DOMAIN arrays' /\ Len(arrays'[a]) = Len(arrays[a])
           /\ \A a \in DOMAIN arrays : \A j \in 1..Len(arrays[a]) :
                 arrays'[a][j] = arrays[a][j] \/ (a = slice.array /\ j = slice.len + 1 /\ arrays'[a][j] = s)
           /\ slice'.array = slice.array \/ slice'.array \notin DOMAIN arrays
<1>0. /\ arrays \in Seq(Chans) /\ Len(arrays) \in Nat /\ DOMAIN arrays = 1..Len(arrays)
      /\ slice \in Slice /\ slice.len \in Nat /\ slice.array \in Nat /\ Backed(slice)
      /\ \A a \in DOMAIN arrays : arrays[a] \in Chans
  BY DEF StoreInv, PubSubTypes, Slice
<1>1. \A a \in DOMAIN arrays : arrays[a] \in Seq(Subscriber) /\ Len(arrays[a]) \in Nat /\ DOMAIN arrays[a] = 1..Len(arrays[a])
  BY <1>0 DEF Chans
<1>2. CASE slice.len < Capacity(slice)
  <2>1. /\ arrays' = [arrays EXCEPT ![slice.array][slice.len + 1] = s]
        /\ slice' = [slice EXCEPT !.len = @ + 1]
    BY <1>2, Zenon DEF Subscribe
  <2>2. PICK a : a = slice.array
    OBVIOUS
  <2>3. a \in DOMAIN arrays /\ slice.len < Len(arrays[a])
    BY <1>0, <1>2, <2>2 DEF Capacity, Backed
  <2>4. slice' \in Slice /\ slice'.array = a /\ slice'.len = slice.len + 1
    BY <1>0, <2>1, <2>2 DEF Slice
  <2>5. PICK n \in Nat : n = slice.len + 1
    BY <1>0
  <2>6. arrays' = [arrays EXCEPT ![a][n] = s] /\ n \in 1..Len(arrays[a]) /\ slice.len = n - 1
    <3>1. arrays' = [arrays EXCEPT ![a][n] = s]
      BY Zenon, <2>1, <2>2, <2>5
    <3>2. Len(arrays[a]) \in Nat
      BY <1>1, <2>3
    <3>3. n \in 1..Len(arrays[a]) /\ slice.len = n - 1
      BY <1>0, <2>3, <2>5, <3>2
    <3> QED BY <3>1, <3>3
  <2>7. /\ DOMAIN arrays' = DOMAIN arrays
        /\ \A b \in DOMAIN arrays : b # a => arrays'[b] = arrays[b]
        /\ arrays'[a] = [arrays[a] EXCEPT ![n] = s]
    BY <1>0, <2>3, <2>6
  <2>8. /\ arrays'[a] \in Seq(Subscriber) /\ Len(arrays'[a]) = Len(arrays[a])
        /\ \A j \in 1..Len(arrays[a]) : arrays'[a][j] = IF j = n THEN s ELSE arrays[a][j]
    <3>1. PICK b : b = arrays[a]
      OBVIOUS
    <3>2. b \in Seq(Subscriber) /\ n \in 1..Len(b)
      BY <1>1, <2>3, <2>6, <3>1
    <3>3. /\ [b EXCEPT ![n] = s] \in Seq(Subscriber) /\ Len([b EXCEPT ![n] = s]) = Len(b)
          /\ \A j \in 1..Len(b) : [b EXCEPT ![n] = s][j] = IF j = n THEN s ELSE b[j]
      BY <3>2
    <3> QED BY Zenon, <2>7, <3>1, <3>3
  <2>9. arrays' \in Seq(Chans)
    <3>1. \A b \in 1..Len(arrays) : arrays'[b] \in Chans
      BY Zenon, <1>0, <2>7, <2>8 DEF Chans
    <3>2. arrays' = [b \in 1..Len(arrays) |-> arrays'[b]]
      BY Zenon, <1>0, <2>6, <2>7
    <3> QED BY <1>0, <3>1, <3>2
  <2>10. \A b \in DOMAIN arrays : b \in DOMAIN arrays' /\ Len(arrays'[b]) = Len(arrays[b])
    BY <2>7, <2>8
  <2>11. Backed(slice)'
    BY <1>0, <1>1, <2>3, <2>4, <2>10 DEF Backed
  <2>12. (\A j \in 1..slice.len : arrays'[a][j] = arrays[a][j]) /\ arrays'[a][slice.len + 1] = s
    <3>1. PICK l \in Nat : l = Len(arrays[a])
      BY <1>1, <2>3
    <3>2. \A j \in 1..l : arrays'[a][j] = IF j = n THEN s ELSE arrays[a][j]
      BY Zenon, <2>8, <3>1
    <3>3. \A j \in 1..slice.len : j \in 1..l /\ j # n
      BY <1>0, <2>3, <2>5, <3>1
    <3>4. n \in 1..l
      BY <2>6, <3>1
    <3> QED BY Zenon, <2>5, <3>2, <3>3, <3>4
  <2>13. (\A j \in 1..slice.len : At(slice, j)' = At(slice, j)) /\ At(slice, slice.len)' = s
    BY Zenon, <2>2, <2>4, <2>12 DEF At
  <2>14. \A b \in DOMAIN arrays : \A j \in 1..Len(arrays[b]) :
                 arrays'[b][j] = arrays[b][j] \/ (b = slice.array /\ j = slice.len + 1 /\ arrays'[b][j] = s)
    BY Zenon, <2>2, <2>5, <2>7, <2>8
  <2>15. slice'.array = slice.array
    BY <2>2, <2>4
  <2> QED BY Zenon, <2>4, <2>9, <2>10, <2>11, <2>13, <2>14, <2>15
<1>3. CASE ~(slice.len < Capacity(slice))
  <2> DEFINE spare == IF slice.len = 0 THEN 0 ELSE slice.len - 1
             fill == [i \in 1..spare |-> s]
             e == Elements(slice)
  <2>1. /\ arrays' = Append(arrays, e \o <<s>> \o fill)
        /\ slice' = [array |-> Len(arrays) + 1, len |-> slice.len + 1]
    BY <1>3, Zenon DEF Subscribe
  <2>2. spare \in Nat
    BY <1>0
  <2> HIDE DEF spare
  <2>3. fill \in Seq(Subscriber) /\ Len(fill) = spare
    BY <2>2
  <2>4. e \in Seq(Subscriber) /\ Len(e) = slice.len /\ \A j \in 1..slice.len : e[j] = At(slice, j)
    BY <1>0, ElementsAt
  <2> HIDE DEF fill, e
  <2>5. PICK new : new = e \o <<s>> \o fill
    BY Zenon
  <2>6. /\ new \in Seq(Subscriber) /\ Len(new) = slice.len + 1 + spare
        /\ \A j \in 1..slice.len : new[j] = e[j]
        /\ new[slice.len + 1] = s
    <3>1. PICK m : m = e \o <<s>>
      BY Zenon
    <3>2. m \in Seq(Subscriber) /\ Len(m) = slice.len + 1 /\ (\A j \in 1..slice.len : m[j] = e[j]) /\ m[slice.len + 1] = s
      <4>1. <<s>> \in Seq(Subscriber) /\ Len(<<s>>) = 1 /\ <<s>>[1] = s
        OBVIOUS
      <4>2. /\ e \o <<s>> \in Seq(Subscriber) /\ Len(e \o <<s>>) = Len(e) + Len(<<s>>)
            /\ \A j \in 1..Len(e) + Len(<<s>>) : (e \o <<s>>)[j] = IF j <= Len(e) THEN e[j] ELSE <<s>>[j - Len(e)]
        BY <2>4, <4>1, ConcatProperties
      <4>3. m \in Seq(Subscriber) /\ Len(m) = Len(e) + 1 /\ \A j \in 1..Len(e) + 1 : m[j] = IF j <= Len(e) THEN e[j] ELSE <<s>>[j - Len(e)]
        BY Zenon, <3>1, <4>1, <4>2
      <4>4. PICK l \in Nat : l = Len(e)
        BY <2>4
      <4>5. \A j \in 1..l + 1 : m[j] = IF j <= l THEN e[j] ELSE <<s>>[j - l]
        BY Zenon, <4>3, <4>4
      <4>6. (\A j \in 1..l : m[j] = e[j]) /\ m[l + 1] = s
        <5>1. (\A j \in 1..l : j \in 1..l + 1 /\ j <= l) /\ l + 1 \in 1..l + 1 /\ ~(l + 1 <= l) /\ (l + 1) - l = 1
          OBVIOUS
        <5> QED BY Zenon, <4>1, <4>5, <5>1
      <4> QED BY Zenon, <2>4, <4>3, <4>4, <4>6
    <3>3. /\ m \o fill \in Seq(Subscriber) /\ Len(m \o fill) = Len(m) + Len(fill)
          /\ \A j \in 1..Len(m) + Len(fill) : (m \o fill)[j] = IF j <= Len(m) THEN m[j] ELSE fill[j - Len(m)]
      BY Zenon, <2>3, <3>2, ConcatProperties
    <3>4. /\ new \in Seq(Subscriber) /\ Len(new) = Len(m) + Len(fill)
          /\ \A j \in 1..Len(m) + Len(fill) : new[j] = IF j <= Len(m) THEN m[j] ELSE fill[j - Len(m)]
      BY Zenon, <2>5, <3>1, <3>3
    <3>5. Len(new) = slice.len + 1 + spare
      BY Zenon, <2>3, <3>2, <3>4
    <3>6. PICK l \in Nat : l = slice.len
      BY <1>0
    <3>7. \A j \in 1..l + 1 + spare : new[j] = IF j <= l + 1 THEN m[j] ELSE fill[j - Len(m)]
      BY Zenon, <2>3, <3>2, <3>4, <3>6
    <3>8. \A j \in 1..l + 1 : j \in 1..l + 1 + spare /\ j <= l + 1
      BY <2>2
    <3>9. \A j \in 1..l + 1 : new[j] = m[j]
      BY Zenon, <3>7, <3>8
    <3>10. (\A j \in 1..l : j \in 1..l + 1) /\ l + 1 \in 1..l + 1
      OBVIOUS
    <3> QED BY Zenon, <3>2, <3>4, <3>5, <3>6, <3>9, <3>10
  <2>7. arrays' = Append(arrays, new) /\ new \in Chans
    BY Zenon, <2>1, <2>5, <2>6 DEF Chans
  <2>8. /\ arrays' \in Seq(Chans) /\ DOMAIN arrays' = 1..Len(arrays) + 1
        /\ \A a \in DOMAIN arrays : arrays'[a] = arrays[a]
        /\ arrays'[Len(arrays) + 1] = new
    BY <1>0, <2>7
  <2>9. slice' \in Slice /\ slice'.array = Len(arrays) + 1 /\ slice'.len = slice.len + 1
    BY <1>0, <2>1 DEF Slice
  <2>10. Backed(slice)'
    BY <1>0, <2>2, <2>6, <2>8, <2>9 DEF Backed
  <2>11. (\A j \in 1..slice.len : At(slice, j)' = At(slice, j)) /\ At(slice, slice.len)' = s
    BY Zenon, <2>4, <2>6, <2>8, <2>9 DEF At
  <2>12. slice'.array \notin DOMAIN arrays /\ \A a \in DOMAIN arrays : a \in DOMAIN arrays'
    BY <1>0, <2>8, <2>9
  <2>13. /\ \A a \in DOMAIN arrays : a \in DOMAIN arrays' /\ Len(arrays'[a]) = Len(arrays[a])
         /\ \A a \in DOMAIN arrays : \A j \in 1..Len(arrays[a]) :
                 arrays'[a][j] = arrays[a][j] \/ (a = slice.array /\ j = slice.len + 1 /\ arrays'[a][j] = s)
    BY Zenon, <2>8, <2>12
  <2> QED BY Zenon, <2>8, <2>9, <2>10, <2>11, <2>12, <2>13
<1> QED BY <1>2, <1>3

\* append(subs[:i], subs[i+1:]...): the elements behind the one that goes move up,
\* and no place of an array gets anything but a channel that is subscribed.
LEMMA UnsubscribeEffect ==
    ASSUME StoreInv, NEW s \in Subscriber, Unsubscribe(s)
    PROVE  /\ arrays' \in Seq(Chans) /\ slice' \in Slice /\ slice.len >= 1
           /\ slice'.len = slice.len - 1 /\ Backed(slice)'
           /\ \E i \in 1..slice.len :
                 /\ At(slice, i) = s
                 /\ \A j \in 1..slice.len - 1 : At(slice, j)' = IF j < i THEN At(slice, j) ELSE At(slice, j + 1)
           /\ \A a \in DOMAIN arrays : a \in DOMAIN arrays' /\ Len(arrays'[a]) = Len(arrays[a])
           /\ \A a \in DOMAIN arrays : \A j \in 1..Len(arrays[a]) :
                 arrays'[a][j] = arrays[a][j] \/ arrays'[a][j] \in Subscribed
<1>0. /\ arrays \in Seq(Chans) /\ Len(arrays) \in Nat /\ DOMAIN arrays = 1..Len(arrays)
      /\ slice \in Slice /\ slice.len \in Nat /\ slice.array \in Nat /\ Backed(slice)
      /\ \A b \in DOMAIN arrays : arrays[b] \in Chans
  BY DEF StoreInv, PubSubTypes, Slice
<1>1. \A b \in DOMAIN arrays : arrays[b] \in Seq(Subscriber) /\ Len(arrays[b]) \in Nat /\ DOMAIN arrays[b] = 1..Len(arrays[b])
  BY <1>0 DEF Chans
<1>2. \A j \in 1..slice.len : Elements(slice)[j] = At(slice, j)
  BY <1>0, ElementsAt
<1>3. PICK i \in 1..slice.len : At(slice, i) = s /\ i = FirstPlace(s)
  <2> DEFINE T == {j \in 1..slice.len : At(slice, j) = s}
  <2>1. T # {} /\ T \subseteq Nat
    BY SliceSubscribed DEF Unsubscribe
  <2>2. PICK x \in T : \A y \in T : x <= y
    BY Zenon, <2>1, Least
  <2>3. x \in 1..slice.len /\ At(slice, x) = s
    BY <2>2
  <2>4. \A k \in 1..x - 1 : k \in 1..slice.len /\ k \notin T
    BY <1>0, <2>2, <2>3
  <2>5. Elements(slice)[x] = s /\ \A k \in 1..x - 1 : Elements(slice)[k] # s
    BY Zenon, <1>2, <2>3, <2>4
  <2> HIDE DEF T
  <2>6. FirstPlace(s) \in 1..slice.len /\ Elements(slice)[FirstPlace(s)] = s
    BY Zenon, <2>3, <2>5 DEF FirstPlace
  <2> QED BY Zenon, <1>2, <2>6
<1>5. PICK a : a = slice.array
  OBVIOUS
<1>6. /\ arrays' = [arrays EXCEPT ![a] = [j \in DOMAIN @ |-> IF j >= i /\ j < slice.len THEN @[j + 1] ELSE @[j]]]
      /\ slice' = [slice EXCEPT !.len = @ - 1]
  BY Zenon, <1>3, <1>5 DEF Unsubscribe
<1>7. a \in DOMAIN arrays /\ slice.len <= Len(arrays[a]) /\ slice.len >= 1
  BY <1>0, <1>3, <1>5 DEF Backed
<1>8. slice' \in Slice /\ slice'.array = a /\ slice'.len = slice.len - 1
  BY SMTT(30), <1>0, <1>5, <1>6, <1>7 DEF Slice
<1>9. /\ DOMAIN arrays' = DOMAIN arrays
      /\ \A b \in DOMAIN arrays : b # a => arrays'[b] = arrays[b]
      /\ arrays'[a] = [j \in DOMAIN arrays[a] |-> IF j >= i /\ j < slice.len THEN arrays[a][j + 1] ELSE arrays[a][j]]
  BY Zenon, <1>0, <1>6, <1>7
<1>10. /\ arrays'[a] \in Seq(Subscriber) /\ Len(arrays'[a]) = Len(arrays[a])
       /\ \A j \in 1..Len(arrays[a]) : arrays'[a][j] = IF j >= i /\ j < slice.len THEN arrays[a][j + 1] ELSE arrays[a][j]
  <2>1. PICK b : b = arrays[a]
    OBVIOUS
  <2>2. PICK c : c = arrays'[a]
    OBVIOUS
  <2>3. c = [j \in DOMAIN b |-> IF j >= i /\ j < slice.len THEN b[j + 1] ELSE b[j]]
    BY Zenon, <1>9, <2>1, <2>2
  <2>4. b \in Seq(Subscriber) /\ Len(b) \in Nat /\ slice.len <= Len(b) /\ DOMAIN b = 1..Len(b)
    BY <1>1, <1>7, <2>1
  <2>5. \A j \in 1..Len(b) : b[j] \in Subscriber
    BY <2>4
  <2>6. \A j \in 1..Len(b) : c[j] \in Subscriber /\ c[j] = IF j >= i /\ j < slice.len THEN b[j + 1] ELSE b[j]
    BY <1>0, <2>3, <2>4, <2>5
  <2>7. c \in Seq(Subscriber) /\ Len(c) = Len(b)
    <3>1. c = [j \in 1..Len(b) |-> c[j]]
      BY Zenon, <2>3, <2>4
    <3> QED BY <2>4, <2>6, <3>1
  <2> QED BY Zenon, <2>1, <2>2, <2>6, <2>7
<1>11. arrays' \in Seq(Chans)
  <2>1. \A b \in 1..Len(arrays) : arrays'[b] \in Chans
    BY Zenon, <1>0, <1>9, <1>10 DEF Chans
  <2>2. arrays' = [b \in 1..Len(arrays) |-> arrays'[b]]
    BY Zenon, <1>0, <1>6, <1>9
  <2> QED BY <1>0, <2>1, <2>2
<1>12. \A b \in DOMAIN arrays : b \in DOMAIN arrays' /\ Len(arrays'[b]) = Len(arrays[b])
  BY <1>9, <1>10
<1>13. Backed(slice)'
  BY <1>0, <1>1, <1>7, <1>8, <1>12 DEF Backed
<1>14. ASSUME NEW j \in 1..slice.len - 1 PROVE At(slice, j)' = IF j < i THEN At(slice, j) ELSE At(slice, j + 1)
  <2>1. arrays'[a][j] = IF j < i THEN arrays[a][j] ELSE arrays[a][j + 1]
    <3>1. PICK l \in Nat : l = Len(arrays[a])
      BY <1>1, <1>7
    <3>2. j \in 1..l /\ (j < i \/ (j >= i /\ j < slice.len)) /\ ~(j < i /\ j >= i)
      BY <1>0, <1>7, <3>1
    <3> QED BY Zenon, <1>10, <3>1, <3>2
  <2> QED BY Zenon, <1>5, <1>8, <2>1 DEF At
<1>15. ASSUME NEW b \in DOMAIN arrays, NEW j \in 1..Len(arrays[b])
       PROVE  arrays'[b][j] = arrays[b][j] \/ arrays'[b][j] \in Subscribed
  <2>1. CASE b # a \/ ~(j >= i /\ j < slice.len)
    BY Zenon, <1>9, <1>10, <2>1
  <2>2. CASE b = a /\ j >= i /\ j < slice.len
    <3>1. arrays'[b][j] = arrays[a][j + 1]
      BY Zenon, <1>10, <2>2
    <3>2. j + 1 \in 1..slice.len
      BY <1>0, <1>1, <2>2
    <3>3. At(slice, j + 1) \in Subscribed
      BY Zenon, <3>2, SliceSubscribed
    <3> QED BY Zenon, <1>5, <3>1, <3>3 DEF At
  <2> QED BY <2>1, <2>2
<1> QED BY Zenon, <1>3, <1>7, <1>8, <1>11, <1>12, <1>13, <1>14, <1>15

\* What a call of publish relies on.
Early(p) == pub[p].pc \in {"set", "check", "send", "copy"} => pub[p].offers = Zero

OffersOk(p) == \A s \in Subscriber : pub[p].offers[s] > 0 => s \in pub[p].targets

\* The copied slice leads only to channels that may be offered the event.
CopyOk(p) == pub[p].pc = "walk" =>
    /\ Backed(pub[p].slice)
    /\ Subscribed \subseteq pub[p].targets
    /\ \A j \in 1..pub[p].slice.len : At(pub[p].slice, j) \in pub[p].targets

\* Of the n channels in f the first i - 1 were offered the event, and all are owed it.
Counted(f, n, i, offers, owed) ==
    /\ i \in 1..n + 1
    /\ \A s \in Subscriber : offers[s] = Times(f, i - 1, s) /\ owed[s] = Times(f, n, s)

\* While nobody unsubscribes, the copy keeps its elements.
WalkOk(p) == pub[p].pc = "walk" /\ ~pub[p].disturbed =>
    /\ pub[p].slice.array = slice.array => pub[p].slice.len <= slice.len
    /\ Counted(Copied(pub[p].slice), pub[p].slice.len, pub[p].i, pub[p].offers, pub[p].owed)

ExactOk(p) == pub[p].pc = "walked" /\ ~pub[p].disturbed => pub[p].offers = pub[p].owed

IndexOk(p) == pub[p].pc = "walk" => pub[p].i # 0

CallOk(p) == Early(p) /\ OffersOk(p) /\ CopyOk(p) /\ IndexOk(p) /\ WalkOk(p) /\ ExactOk(p)

PubSubInv == StoreInv /\ \A p \in Publisher : CallOk(p)

\* Init.
LEMMA PubSubStart == PubSubInit => PubSubInv
<1> SUFFICES ASSUME PubSubInit PROVE PubSubInv
  OBVIOUS
<1>1. Zero \in Tally /\ \A s \in Subscriber : Zero[s] = 0
  BY DEF Zero, Tally
<1> HIDE DEF Zero
<1>2. slice = [array |-> 0, len |-> 0] /\ slice.array = 0 /\ slice.len = 0 /\ slice \in Slice
  BY DEF PubSubInit, Slice
<1>3. arrays \in Seq(Chans) /\ subscriptions = Zero
  BY DEF PubSubInit
<1>4. SliceInv
  <2>1. 1..0 = {}
    OBVIOUS
  <2>2. \A s : Times(Copied(slice), slice.len, s) = 0
    BY Zenon, <1>2, <2>1, FS_EmptySet DEF Times
  <2> QED BY Zenon, <1>1, <1>3, <2>2 DEF SliceInv
<1>5. pub \in [Publisher -> PubCall]
  BY <1>1, <1>2 DEF PubSubInit, PubCall
<1>6. StoreInv
  BY <1>1, <1>2, <1>3, <1>4, <1>5 DEF StoreInv, PubSubTypes, Backed
<1>7. ASSUME NEW p \in Publisher PROVE CallOk(p)
  <2>1. pub[p].pc = "idle" /\ pub[p].offers = Zero
    BY DEF PubSubInit
  <2> QED BY <1>1, <2>1 DEF CallOk, Early, OffersOk, CopyOk, IndexOk, WalkOk, ExactOk
<1> QED BY <1>6, <1>7 DEF PubSubInv

\* The fields of a call.
LEMMA CallFields ==
    ASSUME PubSubTypes, NEW p \in Publisher
    PROVE  /\ pub[p] \in PubCall /\ pub[p].event \in Nat
           /\ pub[p].slice \in Slice /\ pub[p].slice.len \in Nat /\ pub[p].slice.array \in Nat
           /\ pub[p].i \in Nat /\ pub[p].targets \subseteq Subscriber
           /\ pub[p].disturbed \in BOOLEAN /\ pub[p].offers \in Tally /\ pub[p].owed \in Tally
  BY DEF PubSubTypes, PubCall, Slice

\* A call that does not walk does not look at the slice.
LEMMA OtherCallOk ==
    ASSUME NEW p, CallOk(p), pub[p].pc # "walk", pub'[p] = pub[p]
    PROVE  CallOk(p)'
<1>1. Early(p)' /\ OffersOk(p)'
  BY Zenon DEF CallOk, Early, OffersOk
<1>2. CopyOk(p)' /\ IndexOk(p)' /\ WalkOk(p)'
  BY Zenon DEF CopyOk, IndexOk, WalkOk
<1>3. ExactOk(p)'
  BY Zenon DEF CallOk, ExactOk
<1> QED BY Zenon, <1>1, <1>2, <1>3 DEF CallOk

\* A subscriber joins: the walks see what they saw.
LEMMA SubscribeKeeps ==
    ASSUME PubSubInv, NEW s \in Subscriber, Subscribe(s)
    PROVE  PubSubInv'
<1>0. StoreInv /\ PubSubTypes /\ SliceInv /\ slice \in Slice /\ Backed(slice) /\ slice.len \in Nat /\ subscriptions \in Tally
  BY DEF PubSubInv, StoreInv, PubSubTypes, Slice
<1>1. /\ arrays' \in Seq(Chans) /\ slice' \in Slice /\ slice'.len = slice.len + 1 /\ Backed(slice)'
      /\ \A j \in 1..slice.len : At(slice, j)' = At(slice, j)
      /\ At(slice, slice.len)' = s
      /\ \A a \in DOMAIN arrays : a \in DOMAIN arrays' /\ Len(arrays'[a]) = Len(arrays[a])
      /\ \A a \in DOMAIN arrays : \A j \in 1..Len(arrays[a]) :
            arrays'[a][j] = arrays[a][j] \/ (a = slice.array /\ j = slice.len + 1 /\ arrays'[a][j] = s)
      /\ slice'.array = slice.array \/ slice'.array \notin DOMAIN arrays
  BY Zenon, <1>0, SubscribeEffect
<1>2. /\ subscriptions' = [subscriptions EXCEPT ![s] = @ + 1]
      /\ pub' = [p \in Publisher |-> IF pub[p].pc = "walk" THEN [pub[p] EXCEPT !.targets = @ \cup {s}] ELSE pub[p]]
  BY Zenon DEF Subscribe, Walking
<1>3. SliceInv'
  <2>1. PICK n \in Nat : n = slice.len
    BY <1>0
  <2> DEFINE f == Copied(slice)
             g == Copied(slice)'
  <2>2. slice'.len = n + 1
    BY <1>1, <2>1
  <2>3. /\ \A j \in 1..n : f[j] = At(slice, j)
        /\ \A j \in 1..n + 1 : g[j] = At(slice, j)'
    BY Zenon, <2>1, <2>2 DEF Copied
  <2> HIDE DEF f, g
  <2>4. (\A j \in 1..n : j \in 1..n + 1) /\ n + 1 \in 1..n + 1
    OBVIOUS
  <2>5. \A j \in 1..n : g[j] = f[j]
    BY Zenon, <1>1, <2>1, <2>3, <2>4
  <2>6. g[n + 1] = s
    <3>1. At(slice, n + 1)' = At(slice, slice.len)'
      BY Zenon, <2>2 DEF At
    <3> QED BY Zenon, <1>1, <2>3, <2>4, <3>1
  <2>7. ASSUME NEW t \in Subscriber PROVE subscriptions'[t] = Times(g, n + 1, t)
    <3>1. subscriptions[t] = Times(f, n, t)
      BY Zenon, <1>0, <2>1 DEF SliceInv, f
    <3>2. Times(g, n, t) = Times(f, n, t)
      BY Zenon, <2>5, TimesSame
    <3>3. Times(g, n + 1, t) = Times(g, n, t) + (IF g[n + 1] = t THEN 1 ELSE 0)
      BY Zenon, TimesNext
    <3>4. subscriptions[t] \in Nat /\ subscriptions'[t] = IF t = s THEN subscriptions[t] + 1 ELSE subscriptions[t]
      BY <1>0, <1>2 DEF Tally
    <3> QED BY <2>6, <3>1, <3>2, <3>3, <3>4
  <2> QED BY Zenon, <2>2, <2>7 DEF SliceInv, g
<1>4. PubSubTypes'
  <2>1. pub' \in [Publisher -> PubCall]
    <3>1. ASSUME NEW p \in Publisher PROVE [pub[p] EXCEPT !.targets = @ \cup {s}] \in PubCall
      <4>1. pub[p] \in PubCall
        BY <1>0 DEF PubSubTypes
      <4> QED BY <4>1 DEF PubCall
    <3> QED BY <1>0, <1>2, <3>1 DEF PubSubTypes
  <2>2. subscriptions' \in Tally
    BY <1>0, <1>2 DEF Tally
  <2> QED BY Zenon, <1>1, <2>1, <2>2 DEF PubSubTypes
<1>5. ASSUME NEW p \in Publisher PROVE CallOk(p)'
  <2>0. CallOk(p)
    BY DEF PubSubInv
  <2>1. CASE pub[p].pc # "walk"
    <3>1. pub'[p] = pub[p]
      BY Zenon, <1>2, <2>1
    <3> QED BY Zenon, <2>0, <2>1, <3>1, OtherCallOk
  <2>2. CASE pub[p].pc = "walk"
    <3>1. pub'[p] = [pub[p] EXCEPT !.targets = @ \cup {s}]
      BY Zenon, <1>2, <2>2
    <3>2. /\ pub'[p].pc = "walk" /\ pub'[p].event = pub[p].event /\ pub'[p].owed = pub[p].owed
          /\ pub'[p].slice = pub[p].slice /\ pub'[p].i = pub[p].i /\ pub'[p].targets = pub[p].targets \cup {s}
          /\ pub'[p].disturbed = pub[p].disturbed /\ pub'[p].offers = pub[p].offers
      <4>1. pub[p] \in PubCall
        BY <1>0, CallFields
      <4> QED BY <2>2, <3>1, <4>1 DEF PubCall
    <3>3. Early(p)' /\ ExactOk(p)'
      BY <3>2 DEF Early, ExactOk
    <3>4. OffersOk(p)' /\ IndexOk(p)'
      BY Zenon, <1>2, <2>0, <2>2, <3>2 DEF CallOk, OffersOk, IndexOk
    <3>5. PICK c : c = pub[p].slice
      OBVIOUS
    <3>6. c \in Slice /\ c.len \in Nat /\ Backed(c) /\ arrays \in Seq(Chans)
      BY <1>0, <2>0, <2>2, <3>5, CallFields DEF CallOk, CopyOk, PubSubTypes
    <3>7. Backed(c)'
      <4>1. c.array = 0 /\ c.len = 0 => Backed(c)'
        BY Zenon DEF Backed
      <4>2. ASSUME c.array \in DOMAIN arrays, c.len <= Len(arrays[c.array]) PROVE Backed(c)'
        <5>1. c.array \in DOMAIN arrays' /\ Len(arrays'[c.array]) = Len(arrays[c.array])
          BY Zenon, <1>1, <4>2
        <5>2. c.len <= Len(arrays'[c.array])
          BY Zenon, <4>2, <5>1
        <5> QED BY Zenon, <5>1, <5>2 DEF Backed
      <4> QED BY Zenon, <3>6, <4>1, <4>2 DEF Backed
    <3>8. \A j \in 1..c.len : /\ c.array \in DOMAIN arrays /\ j \in 1..Len(arrays[c.array])
                              /\ arrays'[c.array][j] = At(c, j) \/ (c.array = slice.array /\ j = slice.len + 1 /\ arrays'[c.array][j] = s)
                              /\ At(c, j) \in Subscriber
      <4>1. \A j \in 1..c.len : c.array \in DOMAIN arrays /\ j \in 1..Len(arrays[c.array]) /\ At(c, j) \in Subscriber
        BY Zenon, <3>6, ElementsAt
      <4> QED BY Zenon, <1>1, <4>1 DEF At
    <3>9. CopyOk(p)'
      <4>1. Subscribed \subseteq pub[p].targets /\ \A j \in 1..c.len : At(c, j) \in pub[p].targets
        BY Zenon, <2>0, <2>2, <3>5 DEF CallOk, CopyOk
      <4>2. Subscribed' \subseteq pub'[p].targets
        <5>1. \A t \in Subscriber : t # s => subscriptions'[t] = subscriptions[t]
          BY <1>0, <1>2 DEF Tally
        <5> QED BY Zenon, <3>2, <4>1, <5>1 DEF Subscribed
      <4>3. \A j \in 1..c.len : At(c, j)' \in pub'[p].targets
        BY Zenon, <3>2, <3>8, <4>1 DEF At
      <4> QED BY Zenon, <3>2, <3>5, <3>7, <4>2, <4>3 DEF CopyOk
    <3>10. WalkOk(p)'
      <4> SUFFICES ASSUME ~pub[p].disturbed PROVE WalkOk(p)'
        BY Zenon, <3>2 DEF WalkOk
      <4>1. /\ c.array = slice.array => c.len <= slice.len
            /\ Counted(Copied(c), c.len, pub[p].i, pub[p].offers, pub[p].owed)
        BY Zenon, <2>0, <2>2, <3>5 DEF CallOk, WalkOk
      <4>2. \A j \in 1..c.len : ~(c.array = slice.array /\ j = slice.len + 1)
        BY <1>0, <3>6, <4>1
      <4>3. \A j \in 1..c.len : At(c, j)' = At(c, j)
        BY Zenon, <3>8, <4>2 DEF At
      <4>4. c.array = slice'.array => c.len <= slice'.len
        <5>1. CASE slice'.array = slice.array
          BY SMTT(30), <1>0, <1>1, <3>6, <4>1, <5>1
        <5>2. CASE slice'.array \notin DOMAIN arrays
          BY <1>0, <1>1, <3>6, <5>2 DEF Backed
        <5> QED BY <1>1, <5>1, <5>2
      <4>5. Copied(c)' = Copied(c)
        BY Zenon, <4>3 DEF Copied
      <4>6. Counted(Copied(c), c.len, pub[p].i, pub[p].offers, pub[p].owed)'
        BY ZenonT(30), <3>2, <4>1, <4>5 DEF Counted
      <4> QED BY Zenon, <3>2, <3>5, <4>4, <4>6 DEF WalkOk
    <3> QED BY <3>3, <3>4, <3>9, <3>10 DEF CallOk
  <2> QED BY <2>1, <2>2
<1> QED BY <1>3, <1>4, <1>5 DEF PubSubInv, StoreInv

\* A subscriber leaves: the walks may see a channel twice or not at all, but none
\* that they may not see.
LEMMA UnsubscribeKeeps ==
    ASSUME PubSubInv, NEW s \in Subscriber, Unsubscribe(s)
    PROVE  PubSubInv'
<1>0. StoreInv /\ PubSubTypes /\ SliceInv /\ slice \in Slice /\ Backed(slice) /\ slice.len \in Nat /\ subscriptions \in Tally /\ s \in Subscribed
  BY DEF PubSubInv, StoreInv, PubSubTypes, Slice, Unsubscribe
<1>1. /\ arrays' \in Seq(Chans) /\ slice' \in Slice /\ slice.len >= 1
      /\ slice'.len = slice.len - 1 /\ Backed(slice)'
      /\ \E i \in 1..slice.len :
            /\ At(slice, i) = s
            /\ \A j \in 1..slice.len - 1 : At(slice, j)' = IF j < i THEN At(slice, j) ELSE At(slice, j + 1)
      /\ \A a \in DOMAIN arrays : a \in DOMAIN arrays' /\ Len(arrays'[a]) = Len(arrays[a])
      /\ \A a \in DOMAIN arrays : \A j \in 1..Len(arrays[a]) :
            arrays'[a][j] = arrays[a][j] \/ arrays'[a][j] \in Subscribed
  BY Zenon, <1>0, UnsubscribeEffect
<1>2. /\ subscriptions' = [subscriptions EXCEPT ![s] = @ - 1]
      /\ pub' = [p \in Publisher |-> IF pub[p].pc = "walk" THEN [pub[p] EXCEPT !.disturbed = TRUE] ELSE pub[p]]
  BY Zenon DEF Unsubscribe, Walking
<1>3. SliceInv'
  <2>1. PICK i \in 1..slice.len :
            /\ At(slice, i) = s
            /\ \A j \in 1..slice.len - 1 : At(slice, j)' = IF j < i THEN At(slice, j) ELSE At(slice, j + 1)
    BY Zenon, <1>1
  <2>2. PICK n \in Nat : n = slice.len
    BY <1>0
  <2> DEFINE f == Copied(slice)
             g == Copied(slice)'
  <2>3. slice'.len = n - 1
    BY <1>1, <2>2
  <2>4. /\ \A j \in 1..n : f[j] = At(slice, j)
        /\ \A j \in 1..n - 1 : g[j] = At(slice, j)'
    BY Zenon, <2>2, <2>3 DEF Copied
  <2> HIDE DEF f, g
  <2>5. \A j \in 1..n - 1 : g[j] = IF j < i THEN f[j] ELSE f[j + 1]
    <3>1. \A j \in 1..n - 1 : j \in 1..n /\ j + 1 \in 1..n
      OBVIOUS
    <3> QED BY Zenon, <2>1, <2>2, <2>4, <3>1
  <2>6. f[i] = s /\ i \in 1..n
    BY Zenon, <2>1, <2>2, <2>4
  <2>7. ASSUME NEW t \in Subscriber PROVE subscriptions'[t] = Times(g, n - 1, t)
    <3>1. subscriptions[t] = Times(f, n, t)
      BY Zenon, <1>0, <2>2 DEF SliceInv, f
    <3>2. Times(g, n - 1, t) = Times(f, n, t) - (IF f[i] = t THEN 1 ELSE 0)
      BY <2>5, <2>6, TimesWithout
    <3>3. subscriptions[t] \in Nat /\ subscriptions'[t] = IF t = s THEN subscriptions[t] - 1 ELSE subscriptions[t]
      BY <1>0, <1>2 DEF Tally
    <3> QED BY <2>6, <3>1, <3>2, <3>3
  <2> QED BY Zenon, <2>3, <2>7 DEF SliceInv, g
<1>4. PubSubTypes'
  <2>1. pub' \in [Publisher -> PubCall]
    <3>1. ASSUME NEW p \in Publisher PROVE [pub[p] EXCEPT !.disturbed = TRUE] \in PubCall
      <4>1. pub[p] \in PubCall
        BY <1>0 DEF PubSubTypes
      <4> QED BY Zenon, <4>1 DEF PubCall
    <3> QED BY <1>0, <1>2, <3>1 DEF PubSubTypes
  <2>2. subscriptions' \in Tally
    BY <1>0, <1>2 DEF Tally, Subscribed
  <2> QED BY Zenon, <1>1, <2>1, <2>2 DEF PubSubTypes
<1>5. ASSUME NEW p \in Publisher PROVE CallOk(p)'
  <2>0. CallOk(p)
    BY DEF PubSubInv
  <2>1. CASE pub[p].pc # "walk"
    <3>1. pub'[p] = pub[p]
      BY Zenon, <1>2, <2>1
    <3> QED BY Zenon, <2>0, <2>1, <3>1, OtherCallOk
  <2>2. CASE pub[p].pc = "walk"
    <3>1. pub'[p] = [pub[p] EXCEPT !.disturbed = TRUE]
      BY Zenon, <1>2, <2>2
    <3>2. /\ pub'[p].pc = "walk" /\ pub'[p].event = pub[p].event /\ pub'[p].owed = pub[p].owed
          /\ pub'[p].slice = pub[p].slice /\ pub'[p].i = pub[p].i /\ pub'[p].targets = pub[p].targets
          /\ pub'[p].disturbed /\ pub'[p].offers = pub[p].offers
      <4>1. pub[p] \in PubCall
        BY <1>0, CallFields
      <4> QED BY <2>2, <3>1, <4>1 DEF PubCall
    <3>3. Early(p)' /\ ExactOk(p)' /\ WalkOk(p)'
      BY <3>2 DEF Early, ExactOk, WalkOk
    <3>4. OffersOk(p)' /\ IndexOk(p)'
      BY Zenon, <1>2, <2>0, <2>2, <3>2 DEF CallOk, OffersOk, IndexOk
    <3>5. PICK c : c = pub[p].slice
      OBVIOUS
    <3>6. c \in Slice /\ c.len \in Nat /\ Backed(c) /\ arrays \in Seq(Chans)
      BY SMTT(30), <1>0, <2>0, <2>2, <3>5, CallFields DEF CallOk, CopyOk, PubSubTypes
    <3>7. Backed(c)'
      <4>1. c.array = 0 /\ c.len = 0 => Backed(c)'
        BY Zenon DEF Backed
      <4>2. ASSUME c.array \in DOMAIN arrays, c.len <= Len(arrays[c.array]) PROVE Backed(c)'
        <5>1. c.array \in DOMAIN arrays' /\ Len(arrays'[c.array]) = Len(arrays[c.array])
          BY Zenon, <1>1, <4>2
        <5>2. c.len <= Len(arrays'[c.array])
          BY Zenon, <4>2, <5>1
        <5> QED BY Zenon, <5>1, <5>2 DEF Backed
      <4> QED BY Zenon, <3>6, <4>1, <4>2 DEF Backed
    <3>8. \A j \in 1..c.len : At(c, j)' = At(c, j) \/ At(c, j)' \in Subscribed
      <4>1. \A j \in 1..c.len : c.array \in DOMAIN arrays /\ j \in 1..Len(arrays[c.array]) /\ At(c, j) \in Subscriber
        BY Zenon, <3>6, ElementsAt
      <4> QED BY Zenon, <1>1, <4>1 DEF At
    <3>9. CopyOk(p)'
      <4>1. Subscribed \subseteq pub[p].targets /\ \A j \in 1..c.len : At(c, j) \in pub[p].targets
        BY Zenon, <2>0, <2>2, <3>5 DEF CallOk, CopyOk
      <4>2. Subscribed' \subseteq pub'[p].targets
        <5>1. \A t \in Subscriber : subscriptions'[t] > 0 => subscriptions[t] > 0
          BY <1>0, <1>2 DEF Tally
        <5> QED BY Zenon, <3>2, <4>1, <5>1 DEF Subscribed
      <4>3. \A j \in 1..c.len : At(c, j)' \in pub'[p].targets
        BY Zenon, <3>2, <3>8, <4>1
      <4> QED BY ZenonT(30), <3>2, <3>5, <3>7, <4>2, <4>3 DEF CopyOk
    <3> QED BY <3>3, <3>4, <3>9 DEF CallOk
  <2> QED BY <2>1, <2>2
<1> QED BY <1>3, <1>4, <1>5 DEF PubSubInv, StoreInv

\* The next offer.
LEMMA CountedNext ==
    ASSUME NEW n \in Nat, NEW f, NEW i, NEW offers \in Tally, NEW owed,
           Counted(f, n, i, offers, owed), i <= n, f[i] \in Subscriber
    PROVE  Counted(f, n, i + 1, [offers EXCEPT ![f[i]] = @ + 1], owed)
<1>1. i \in 1..n /\ i - 1 \in Nat /\ (i - 1) + 1 = i /\ (i + 1) - 1 = i /\ i + 1 \in 1..n + 1
  BY DEF Counted
<1>2. PICK new : new = [offers EXCEPT ![f[i]] = @ + 1]
  BY Zenon
<1>3. \A s \in Subscriber : offers[s] \in Nat /\ new[s] = offers[s] + (IF f[i] = s THEN 1 ELSE 0)
  BY <1>2 DEF Tally
<1>4. ASSUME NEW s \in Subscriber PROVE new[s] = Times(f, (i + 1) - 1, s)
  <2>1. Times(f, i, s) = Times(f, i - 1, s) + (IF f[i] = s THEN 1 ELSE 0)
    <3>1. Times(f, (i - 1) + 1, s) = Times(f, i - 1, s) + (IF f[(i - 1) + 1] = s THEN 1 ELSE 0)
      BY Zenon, <1>1, TimesNext
    <3> QED BY Zenon, <1>1, <3>1
  <2>2. offers[s] = Times(f, i - 1, s)
    BY Zenon DEF Counted
  <2> QED BY Zenon, <1>1, <1>3, <2>1, <2>2
<1>5. Counted(f, n, i + 1, new, owed)
  BY Zenon, <1>1, <1>4 DEF Counted
<1> QED BY Zenon, <1>2, <1>5

\* After the last offer everyone was offered the event as often as is owed.
LEMMA CountedAll ==
    ASSUME NEW n \in Nat, NEW f, NEW i, NEW offers \in Tally, NEW owed \in Tally,
           Counted(f, n, i, offers, owed), ~(i <= n)
    PROVE  offers = owed
<1>1. i - 1 = n
  BY DEF Counted
<1>2. \A s \in Subscriber : offers[s] = owed[s]
  BY Zenon, <1>1 DEF Counted
<1> QED BY <1>2 DEF Tally

\* A walk goes on undisturbed while the arrays stay.
LEMMA SameWalk ==
    ASSUME NEW p, WalkOk(p), pub'[p] = pub[p], arrays' = arrays, slice' = slice
    PROVE  WalkOk(p)'
<1>1. PICK c : c = pub[p]
  OBVIOUS
<1>2. PICK sl : sl = c.slice
  OBVIOUS
<1>3. Copied(sl)' = Copied(sl)
  BY Zenon DEF Copied, At
<1>4. PICK f : f = Copied(sl)
  OBVIOUS
<1>5. c.pc = "walk" /\ ~c.disturbed => (sl.array = slice.array => sl.len <= slice.len) /\ Counted(f, sl.len, c.i, c.offers, c.owed)
  BY Zenon, <1>1, <1>2, <1>4 DEF WalkOk
<1>6. pub'[p] = c /\ pub'[p].slice = sl /\ Copied(sl)' = f
  BY Zenon, <1>1, <1>2, <1>3, <1>4
<1>7. Counted(f, sl.len, c.i, c.offers, c.owed) => Counted(Copied(pub[p].slice), pub[p].slice.len, pub[p].i, pub[p].offers, pub[p].owed)'
  <2>1. Copied(pub[p].slice)' = f
    BY Zenon, <1>6 DEF Copied
  <2> QED BY Zenon, <1>2, <1>6, <2>1 DEF Counted
<1> QED BY Zenon, <1>2, <1>5, <1>6, <1>7 DEF WalkOk

\* A step of a publisher concerns its own call.
LEMMA PublisherStep ==
    ASSUME PubSubInv, NEW p \in Publisher, Rest, NEW c \in PubCall, pub' = [pub EXCEPT ![p] = c],
           CallOk(p)'
    PROVE  PubSubInv'
<1>0. PubSubTypes /\ SliceInv
  BY DEF PubSubInv, StoreInv
<1>1. arrays' = arrays /\ slice' = slice /\ subscriptions' = subscriptions /\ Subscribed' = Subscribed
  BY DEF Rest, Subscribed
<1>2. pub' \in [Publisher -> PubCall]
  BY <1>0 DEF PubSubTypes
<1>3. StoreInv'
  <2>1. Backed(slice)' /\ SliceInv'
    BY Zenon, <1>0, <1>1 DEF PubSubTypes, Backed, SliceInv, Copied, At
  <2> QED BY Zenon, <1>0, <1>1, <1>2, <2>1 DEF PubSubTypes, StoreInv
<1>4. ASSUME NEW q \in Publisher, q # p PROVE CallOk(q)'
  <2>1. pub'[q] = pub[q]
    BY <1>0, <1>4 DEF PubSubTypes
  <2>2. CallOk(q)
    BY DEF PubSubInv
  <2>3. Early(q)' /\ OffersOk(q)' /\ IndexOk(q)'
    BY Zenon, <2>1, <2>2 DEF CallOk, Early, OffersOk, IndexOk
  <2>4. CopyOk(q)'
    BY Zenon, <1>1, <2>1, <2>2 DEF CallOk, CopyOk, Backed, At
  <2>5. WalkOk(q)'
    BY Zenon, <1>1, <2>1, <2>2, SameWalk DEF CallOk
  <2>6. ExactOk(q)'
    BY Zenon, <2>1, <2>2 DEF CallOk, ExactOk
  <2> QED BY <2>3, <2>4, <2>5, <2>6 DEF CallOk
<1> QED BY Zenon, <1>3, <1>4 DEF PubSubInv

\* A call goes on, or ends, without an offer.
LEMMA GoOn ==
    ASSUME PubSubInv, NEW p \in Publisher, Rest, NEW w \in {"idle", "check", "send", "copy"}, Step(p, w),
           pub[p].pc # "idle", w # "idle" => pub[p].pc \in {"set", "check", "send"}
    PROVE  PubSubInv'
<1>0. PubSubTypes /\ CallOk(p) /\ pub[p] \in PubCall
  BY CallFields DEF PubSubInv, StoreInv
<1>1. PICK c : c = [pub[p] EXCEPT !.pc = w]
  BY Zenon
<1>2. /\ c \in PubCall /\ pub' = [pub EXCEPT ![p] = c]
      /\ c.pc = w /\ c.event = pub[p].event /\ c.owed = pub[p].owed /\ c.targets = pub[p].targets
      /\ c.offers = pub[p].offers
  <2>1. pub' = [pub EXCEPT ![p] = c]
    BY <1>0, <1>1 DEF PubSubTypes, Step
  <2> QED BY <1>0, <1>1, <2>1 DEF PubCall
<1>3. pub'[p] = c
  BY <1>0, <1>2 DEF PubSubTypes
<1>4. Early(p)'
  BY <1>0, <1>2, <1>3 DEF CallOk, Early
<1>5. OffersOk(p)'
  BY Zenon, <1>0, <1>2, <1>3 DEF CallOk, OffersOk
<1>7. CopyOk(p)' /\ IndexOk(p)' /\ WalkOk(p)' /\ ExactOk(p)'
  BY <1>2, <1>3 DEF CopyOk, IndexOk, WalkOk, ExactOk
<1> QED BY Zenon, <1>2, <1>4, <1>5, <1>7, PublisherStep DEF CallOk

\* Publish is called.
LEMMA PublishKeeps ==
    ASSUME PubSubInv, NEW p \in Publisher, NEW depth \in BOOLEAN, Publish(p, depth)
    PROVE  PubSubInv'
<1>0. PubSubTypes /\ pub[p] \in PubCall /\ pub[p].event \in Nat
  BY CallFields DEF PubSubInv, StoreInv
<1>1. Zero \in Tally /\ \A s \in Subscriber : Zero[s] = 0
  BY DEF Zero, Tally
<1> HIDE DEF Zero
<1>2. PICK c : c = [pub[p] EXCEPT !.pc = IF depth THEN "set" ELSE "check", !.event = pub[p].event + 1,
                                  !.targets = {}, !.owed = Zero, !.disturbed = FALSE,
                                  !.offers = Zero, !.i = 0]
  OBVIOUS
<1>3. pub' = [pub EXCEPT ![p] = c] /\ Rest
  BY Zenon, <1>2 DEF Publish
<1>4. c \in PubCall /\ c.pc = (IF depth THEN "set" ELSE "check") /\ c.offers = Zero
  <2>1. PICK next \in Nat : next = pub[p].event + 1
    BY <1>0
  <2>2. PICK w \in {"set", "check"} : (w = IF depth THEN "set" ELSE "check")
    OBVIOUS
  <2>3. c = [pub[p] EXCEPT !.pc = w, !.event = next, !.targets = {}, !.owed = Zero, !.disturbed = FALSE,
                           !.offers = Zero, !.i = 0]
    BY Zenon, <1>2, <2>1, <2>2
  <2>4. c \in PubCall /\ c.pc = w /\ c.offers = Zero
    BY Zenon, <1>0, <1>1, <2>3 DEF PubCall
  <2> QED BY Zenon, <2>2, <2>4
<1>5. pub'[p] = c
  BY <1>0, <1>3 DEF PubSubTypes
<1>6. CallOk(p)'
  <2>1. Early(p)' /\ CopyOk(p)' /\ IndexOk(p)' /\ WalkOk(p)' /\ ExactOk(p)'
    BY <1>4, <1>5 DEF Early, CopyOk, IndexOk, WalkOk, ExactOk
  <2>2. OffersOk(p)'
    BY <1>1, <1>4, <1>5 DEF OffersOk
  <2> QED BY <2>1, <2>2 DEF CallOk
<1> QED BY Zenon, <1>3, <1>4, <1>6, PublisherStep

\* The copy is the slice as it is now.
LEMMA CopyKeeps ==
    ASSUME PubSubInv, NEW p \in Publisher, CopySlice(p)
    PROVE  PubSubInv'
<1>0. /\ PubSubTypes /\ CallOk(p) /\ pub[p] \in PubCall /\ pub[p].pc = "copy" /\ subscriptions \in Tally
      /\ SliceInv /\ slice \in Slice /\ slice.len \in Nat /\ Backed(slice) /\ Subscribed \subseteq Subscriber
  BY CallFields DEF PubSubInv, StoreInv, PubSubTypes, Slice, Subscribed, CopySlice
<1>1. Zero \in Tally /\ \A s \in Subscriber : Zero[s] = 0
  BY DEF Zero, Tally
<1> HIDE DEF Zero
<1>2. PICK c : c = [pub[p] EXCEPT !.pc = "walk", !.slice = slice, !.i = 1, !.targets = Subscribed, !.owed = subscriptions]
  OBVIOUS
<1>3. pub' = [pub EXCEPT ![p] = c] /\ Rest /\ arrays' = arrays /\ slice' = slice /\ Subscribed' = Subscribed
  BY Zenon, <1>2 DEF CopySlice, Rest, Subscribed
<1>4. /\ c \in PubCall /\ c.pc = "walk" /\ c.slice = slice /\ c.i = 1 /\ c.targets = Subscribed
      /\ c.owed = subscriptions /\ c.event = pub[p].event /\ c.offers = pub[p].offers
  BY Zenon, <1>0, <1>2 DEF PubCall
<1>5. pub'[p] = c /\ c.offers = Zero
  BY <1>0, <1>3, <1>4 DEF PubSubTypes, CallOk, Early
<1>6. Early(p)' /\ IndexOk(p)' /\ ExactOk(p)'
  BY <1>4, <1>5 DEF Early, IndexOk, ExactOk
<1>8. OffersOk(p)'
  BY <1>1, <1>5 DEF OffersOk
<1>9. CopyOk(p)'
  <2>1. Backed(slice)' /\ \A j \in 1..slice.len : At(slice, j)' \in Subscribed
    <3>1. \A j \in 1..slice.len : At(slice, j) \in Subscribed
      BY Zenon, SliceSubscribed DEF PubSubInv
    <3> QED BY Zenon, <1>0, <1>3, <3>1 DEF Backed, At
  <2>2. pub'[p].slice = slice' /\ pub'[p].targets = Subscribed' /\ Subscribed' = Subscribed /\ slice'.len = slice.len
    BY Zenon, <1>3, <1>4, <1>5
  <2> QED BY Zenon, <2>1, <2>2 DEF CopyOk, Backed, At
<1>10. WalkOk(p)'
  <2>1. PICK n \in Nat : n = slice.len
    BY <1>0
  <2>2. PICK f : f = Copied(slice)
    OBVIOUS
  <2>3. \A s \in Subscriber : subscriptions[s] = Times(f, n, s)
    BY Zenon, <1>0, <2>1, <2>2 DEF SliceInv
  <2>4. \A s : Times(f, 1 - 1, s) = 0
    <3>1. 1..1 - 1 = {}
      OBVIOUS
    <3> QED BY Zenon, <3>1, FS_EmptySet DEF Times
  <2>6. 1 \in 1..n + 1
    OBVIOUS
  <2>7. Counted(f, n, 1, Zero, subscriptions)
    BY Zenon, <1>1, <2>3, <2>4, <2>6 DEF Counted
  <2>8. Copied(pub[p].slice)' = f
    <3>1. Copied(slice)' = f
      <4>1. \A j : At(slice, j)' = At(slice, j)
        BY Zenon, <1>3 DEF At
      <4> QED BY Zenon, <1>3, <2>2, <4>1 DEF Copied
    <3>2. pub'[p].slice = slice'
      BY Zenon, <1>3, <1>4, <1>5
    <3> QED BY Zenon, <3>1, <3>2 DEF Copied, At
  <2>9. pub'[p].slice = slice' /\ pub'[p].slice.len = n /\ pub'[p].i = 1 /\ pub'[p].offers = Zero /\ pub'[p].owed = subscriptions
    BY Zenon, <1>3, <1>4, <1>5, <2>1
  <2>10. Counted(Copied(pub[p].slice), pub[p].slice.len, pub[p].i, pub[p].offers, pub[p].owed)'
    BY Zenon, <2>7, <2>8, <2>9 DEF Counted
  <2>11. slice'.len <= slice'.len
    BY <1>0, <1>3
  <2> QED BY Zenon, <2>9, <2>10, <2>11 DEF WalkOk
<1>12. CallOk(p)'
  BY <1>6, <1>8, <1>9, <1>10 DEF CallOk
<1> QED BY Zenon, <1>3, <1>4, <1>12, PublisherStep

\* The next subscriber of the copy, or the end of the walk.
LEMMA OfferKeeps ==
    ASSUME PubSubInv, NEW p \in Publisher, Offer(p)
    PROVE  PubSubInv'
<1>0. /\ PubSubTypes /\ CallOk(p) /\ pub[p] \in PubCall /\ pub[p].pc = "walk" /\ arrays \in Seq(Chans)
      /\ pub[p].slice \in Slice /\ Backed(pub[p].slice)
  BY CallFields DEF PubSubInv, StoreInv, PubSubTypes, CallOk, CopyOk, Offer
<1>1. PICK sl : sl = pub[p].slice
  OBVIOUS
<1>2. PICK n \in Nat : n = sl.len
  BY <1>0, <1>1 DEF Slice
<1>3. PICK i \in Nat : i = pub[p].i
  BY <1>0 DEF PubCall
<1>4. PICK offers \in Tally : offers = pub[p].offers
  BY <1>0 DEF PubCall
<1>11. PICK owed \in Tally : owed = pub[p].owed
  BY <1>0 DEF PubCall
<1>5. PICK f : f = Copied(sl)
  OBVIOUS
<1>6. /\ \A j \in 1..n : f[j] = At(sl, j) /\ f[j] \in Subscriber
      /\ \A j \in 1..n : Elements(sl)[j] = f[j]
  <2>1. \A j \in 1..n : Elements(sl)[j] = At(sl, j) /\ At(sl, j) \in Subscriber
    BY Zenon, <1>0, <1>1, <1>2, ElementsAt
  <2>2. \A j \in 1..n : f[j] = At(sl, j)
    BY <1>2, <1>5 DEF Copied
  <2> QED BY Zenon, <2>1, <2>2
<1>7. Rest /\ arrays' = arrays /\ slice' = slice /\ Subscribed' = Subscribed
  BY Zenon DEF Offer, Rest, Subscribed
<1>8. /\ Subscribed \subseteq pub[p].targets
      /\ \A j \in 1..n : f[j] \in pub[p].targets
      /\ ~pub[p].disturbed => (sl.array = slice.array => n <= slice.len) /\ Counted(f, n, i, offers, owed)
  <2>1. Subscribed \subseteq pub[p].targets /\ \A j \in 1..n : At(sl, j) \in pub[p].targets
    BY Zenon, <1>0, <1>1, <1>2 DEF CallOk, CopyOk
  <2>2. \A j \in 1..n : f[j] \in pub[p].targets
    BY Zenon, <1>6, <2>1
  <2>3. ~pub[p].disturbed => (sl.array = slice.array => n <= slice.len) /\ Counted(f, n, i, offers, owed)
    BY Zenon, <1>0, <1>1, <1>2, <1>3, <1>4, <1>5, <1>11 DEF CallOk, WalkOk
  <2> QED BY <2>1, <2>2, <2>3
<1>9. CASE i <= n
  <2>1. PICK e : e = f[i]
    OBVIOUS
  <2>2. PICK new : new = [offers EXCEPT ![e] = @ + 1]
    BY Zenon
  <2>3. PICK c : c = [pub[p] EXCEPT !.i = i + 1, !.offers = new]
    OBVIOUS
  <2>4. i \in 1..n \/ i = 0
    BY <1>9
  <2>5. i \in 1..n
    <3>1. pub[p].i # 0
      BY <1>0 DEF CallOk, IndexOk
    <3> QED BY <1>3, <2>4, <3>1
  <2>6. Elements(pub[p].slice)[pub[p].i] = e /\ e \in Subscriber /\ e \in pub[p].targets
    BY Zenon, <1>1, <1>3, <1>6, <1>8, <2>1, <2>5
  <2>7. pub' = [pub EXCEPT ![p] = c]
    <3>1. pub' = [pub EXCEPT ![p].i = @ + 1, ![p].offers[e] = @ + 1]
      BY Zenon, <1>1, <1>2, <1>3, <1>9, <2>6 DEF Offer
    <3> QED BY Zenon, <1>0, <1>3, <1>4, <2>2, <2>3, <3>1 DEF PubSubTypes, PubCall
  <2>8. new \in Tally /\ \A s \in Subscriber : s # e => new[s] = offers[s]
    BY <2>2, <2>6 DEF Tally
  <2>9. /\ c \in PubCall /\ c.pc = "walk" /\ c.slice = sl /\ c.i = i + 1 /\ c.targets = pub[p].targets
        /\ c.owed = pub[p].owed /\ c.event = pub[p].event /\ c.offers = new /\ c.disturbed = pub[p].disturbed
    <3>1. PICK next \in Nat : next = i + 1
      BY <1>3
    <3>2. c = [pub[p] EXCEPT !.i = next, !.offers = new]
      BY Zenon, <2>3, <3>1
    <3>3. /\ c \in PubCall /\ c.pc = "walk" /\ c.slice = pub[p].slice /\ c.i = next /\ c.targets = pub[p].targets
          /\ c.owed = pub[p].owed /\ c.event = pub[p].event /\ c.offers = new /\ c.disturbed = pub[p].disturbed
      BY Zenon, <1>0, <2>8, <3>2 DEF PubCall
    <3> QED BY Zenon, <1>1, <3>1, <3>3
  <2>10. pub'[p] = c
    BY <1>0, <2>7 DEF PubSubTypes
  <2>11. Early(p)' /\ ExactOk(p)'
    BY <2>9, <2>10 DEF Early, ExactOk
  <2>13. OffersOk(p)'
    <3>1. \A s \in Subscriber : offers[s] > 0 => s \in pub[p].targets
      BY Zenon, <1>0, <1>4 DEF CallOk, OffersOk
    <3>2. \A s \in Subscriber : new[s] > 0 => s \in pub[p].targets
      BY Zenon, <2>6, <2>8, <3>1
    <3> QED BY Zenon, <2>9, <2>10, <3>2 DEF OffersOk
  <2>14. CopyOk(p)'
    <3>1. Backed(sl)' /\ \A j \in 1..sl.len : At(sl, j)' \in pub[p].targets
      BY Zenon, <1>0, <1>1, <1>2, <1>6, <1>7, <1>8 DEF Backed, At
    <3> QED BY Zenon, <1>7, <1>8, <2>9, <2>10, <3>1 DEF CopyOk
  <2>15. WalkOk(p)'
    <3> SUFFICES ASSUME ~pub[p].disturbed PROVE WalkOk(p)'
      BY Zenon, <2>9, <2>10 DEF WalkOk
    <3>1. Counted(f, n, i + 1, [offers EXCEPT ![f[i]] = @ + 1], owed)
      BY Zenon, <1>8, <1>9, <2>1, <2>6, CountedNext
    <3>2. Counted(f, n, i + 1, new, owed)
      BY Zenon, <2>1, <2>2, <3>1
    <3>3. Copied(sl)' = f
      BY Zenon, <1>5, <1>7 DEF Copied, At
    <3>4. Counted(Copied(sl), sl.len, i + 1, new, owed)'
      BY Zenon, <1>2, <3>2, <3>3 DEF Counted
    <3>5. sl.array = slice'.array => sl.len <= slice'.len
      BY Zenon, <1>2, <1>7, <1>8
    <3> QED BY Zenon, <1>11, <2>9, <2>10, <3>4, <3>5 DEF WalkOk
  <2>16. IndexOk(p)'
    BY <2>9, <2>10 DEF IndexOk
  <2>17. CallOk(p)'
    BY Zenon, <2>11, <2>13, <2>14, <2>15, <2>16 DEF CallOk
  <2> QED BY Zenon, <1>0, <1>7, <2>7, <2>9, <2>17, PublisherStep
<1>10. CASE ~(i <= n)
  <2>1. PICK c : c = [pub[p] EXCEPT !.pc = "walked"]
    BY Zenon
  <2>2. pub' = [pub EXCEPT ![p] = c]
    <3>1. pub' = [pub EXCEPT ![p].pc = "walked"]
      BY Zenon, <1>1, <1>2, <1>3, <1>10 DEF Offer, Step
    <3> QED BY <1>0, <2>1, <3>1 DEF PubSubTypes
  <2>3. /\ c \in PubCall /\ c.pc = "walked" /\ c.slice = sl /\ c.targets = pub[p].targets
        /\ c.owed = pub[p].owed /\ c.event = pub[p].event /\ c.offers = offers /\ c.disturbed = pub[p].disturbed
    BY <1>0, <1>1, <1>4, <2>1 DEF PubCall
  <2>4. pub'[p] = c
    BY <1>0, <2>2 DEF PubSubTypes
  <2>5. Early(p)' /\ CopyOk(p)' /\ WalkOk(p)' /\ IndexOk(p)'
    BY SMTT(30), <2>3, <2>4 DEF Early, CopyOk, WalkOk, IndexOk
  <2>7. OffersOk(p)'
    BY Zenon, <1>0, <1>4, <2>3, <2>4 DEF CallOk, OffersOk
  <2>8. ExactOk(p)'
    <3> SUFFICES ASSUME ~pub[p].disturbed PROVE ExactOk(p)'
      BY Zenon, <2>3, <2>4 DEF ExactOk
    <3>1. offers = owed
      BY Zenon, <1>8, <1>10, CountedAll
    <3> QED BY Zenon, <1>11, <2>3, <2>4, <3>1 DEF ExactOk
  <2>9. CallOk(p)'
    BY Zenon, <2>5, <2>7, <2>8 DEF CallOk
  <2> QED BY Zenon, <1>0, <1>7, <2>2, <2>3, <2>9, PublisherStep
<1> QED BY <1>9, <1>10

\* The invariant is inductive.
LEMMA PubSubSteps == PubSubInv /\ [PubSubNext]_pubsubVars => PubSubInv'
<1> SUFFICES ASSUME PubSubInv, [PubSubNext]_pubsubVars PROVE PubSubInv'
  OBVIOUS
<1>1. CASE UNCHANGED <<arrays, slice, pub, subscriptions>>
  <2>1. StoreInv'
    BY <1>1 DEF PubSubInv, StoreInv, PubSubTypes, SliceInv, Copied, Backed, At
  <2>2. ASSUME NEW p \in Publisher PROVE CallOk(p)'
    <3>1. CallOk(p) /\ pub'[p] = pub[p] /\ arrays' = arrays /\ slice' = slice /\ Subscribed' = Subscribed
      BY <1>1 DEF PubSubInv, Subscribed
    <3>3. WalkOk(p)'
      BY Zenon, <3>1, SameWalk DEF CallOk
    <3>4. Early(p)' /\ OffersOk(p)' /\ IndexOk(p)'
      BY Zenon, <3>1 DEF CallOk, Early, OffersOk, IndexOk
    <3>5. CopyOk(p)' /\ ExactOk(p)'
      BY Zenon, <3>1 DEF CallOk, CopyOk, ExactOk, Backed, At
    <3> QED BY <3>3, <3>4, <3>5 DEF CallOk
  <2> QED BY <2>1, <2>2 DEF PubSubInv
<1>2. ASSUME NEW s \in Subscriber, Subscribe(s) \/ Unsubscribe(s) PROVE PubSubInv'
  BY <1>2, SubscribeKeeps, UnsubscribeKeeps
<1>3. CASE SetAddress \/ Close \/ UNCHANGED pubsubVars
  BY <1>1, <1>3 DEF SetAddress, Close, pubsubVars
<1>4. ASSUME NEW p \in Publisher,
             \/ \E depth \in BOOLEAN : Publish(p, depth)
             \/ PublishQueueDepth(p) \/ CheckClosed(p) \/ SendToRedis(p)
             \/ CopySlice(p) \/ Offer(p) \/ Return(p)
      PROVE  PubSubInv'
  <2>1. ASSUME NEW depth \in BOOLEAN, Publish(p, depth) PROVE PubSubInv'
    BY <2>1, PublishKeeps
  <2>3. CASE PublishQueueDepth(p) \/ CheckClosed(p) \/ SendToRedis(p) \/ Return(p)
    <3>1. Rest
      BY <2>3 DEF PublishQueueDepth, CheckClosed, SendToRedis, Return
    <3>2. /\ pub[p].pc \in {"set", "check", "send", "walk", "walked"}
          /\ \/ Step(p, "idle")
             \/ pub[p].pc \in {"set", "check", "send"} /\ (Step(p, "check") \/ Step(p, "send") \/ Step(p, "copy"))
      BY <2>3 DEF PublishQueueDepth, CheckClosed, SendToRedis, Return
    <3> QED BY <3>1, <3>2, GoOn
  <2>4. CASE CopySlice(p) \/ Offer(p)
    BY <2>4, CopyKeeps, OfferKeeps
  <2> QED BY <1>4, <2>1, <2>3, <2>4
<1> QED BY Zenon, <1>2, <1>3, <1>4 DEF PubSubNext

\* The invariant holds always.
LEMMA PubSubInvariance == PubSubSpec => []PubSubInv
<1>1. PubSubInit => PubSubInv
  BY PubSubStart
<1>2. PubSubInv /\ [PubSubNext]_pubsubVars => PubSubInv'
  BY PubSubSteps
<1> QED BY <1>1, <1>2, PTL DEF PubSubSpec

\* publish offers an event only to channels that were subscribed when it copied the
\* slice or since, for any number of publishers, subscribers and changes.
THEOREM OnlySubscribersAreOffered == PubSubSpec => []OfferedToSubscribers
<1>1. PubSubInv => OfferedToSubscribers
  BY Zenon DEF PubSubInv, CallOk, OffersOk, OfferedToSubscribers
<1> QED BY <1>1, PubSubInvariance, PTL

\* Without an Unsubscribe during its walk, publish offers an event to every channel
\* exactly as often as it was subscribed when the slice was copied.
THEOREM UndisturbedOffersAreExact == PubSubSpec => []UndisturbedIsExact
<1>1. PubSubInv => UndisturbedIsExact
  BY Zenon DEF PubSubInv, CallOk, ExactOk, UndisturbedIsExact
<1> QED BY <1>1, PubSubInvariance, PTL
-----------------------------------------------------------------------------
HistorySpec == HistoryInit /\ [][HistoryNext]_historyVars

RowStatus == Outcome \cup {"Running"}
Row == [task : {TaskOf[e] : e \in Execution}, pod : {PodOf[e] : e \in Execution}, status : RowStatus,
        created : Instant, execution : Execution]
Run == [outcome : Outcome \cup {"none"}, acked : BOOLEAN]

HistoryTypes == rows \in Seq(Row) /\ execution \in [Execution -> Run]

\* A report is acknowledged after the pod has ended; a row has the names of its
\* execution, and tells what RowsTellTheOutcome says.
RunOk(e) == execution[e].acked => execution[e].outcome # "none"
HadOutcome(row) ==
    \E e \in Execution : row.task = TaskOf[e] /\ row.pod = PodOf[e] /\ row.status = execution[e].outcome
RowOk(i) ==
    /\ rows[i].execution \in Execution
    /\ rows[i].task = TaskOf[rows[i].execution] /\ rows[i].pod = PodOf[rows[i].execution]
    /\ rows[i].status = "Running" \/ HadOutcome(rows[i])
    /\ execution[rows[i].execution].acked => rows[i].status # "Running"

RowsInv ==
    /\ HistoryTypes
    /\ \A e \in Execution : RunOk(e)
    /\ \A i \in DOMAIN rows : RowOk(i)

\* Init.
LEMMA RowsInit == ASSUME HistoryInit PROVE RowsInv
<1>1. HistoryTypes
  BY DEF HistoryInit, HistoryTypes, Run
<1>2. \A e \in Execution : RunOk(e)
  BY DEF HistoryInit, RunOk
<1>3. DOMAIN rows = {}
  BY DEF HistoryInit
<1> QED BY <1>1, <1>2, <1>3 DEF RowsInv

\* A row that is added is Running, and its pod has not ended.
LEMMA StartKeepsRows ==
    ASSUME RowsInv, NEW e \in Execution, NEW created \in Instant, RecordTaskStart(e, created)
    PROVE  /\ RowsInv' /\ DOMAIN rows \subseteq DOMAIN rows'
           /\ \A i \in DOMAIN rows : rows'[i] = rows[i]
<1> DEFINE R == Row
<1>0. rows \in Seq(R) /\ execution \in [Execution -> Run] /\ RunOk(e) /\ \A i \in DOMAIN rows : RowOk(i)
  BY DEF RowsInv, HistoryTypes
<1>1. PICK new : new = [task |-> TaskOf[e], pod |-> PodOf[e], status |-> "Running",
                        created |-> created, execution |-> e]
  BY Zenon
<1>2. /\ new \in R /\ new.pod = PodOf[e] /\ new.status = "Running" /\ new.task = TaskOf[e]
      /\ new.execution = e
  BY <1>1 DEF Row, RowStatus
<1> HIDE DEF R
<1>3. rows' = Append(rows, new) /\ execution[e].outcome = "none" /\ execution' = execution
  BY Zenon, <1>1 DEF RecordTaskStart
<1>4. \A i \in DOMAIN rows' : (i \in DOMAIN rows /\ rows'[i] = rows[i]) \/ rows'[i] = new
  BY <1>0, <1>2, <1>3
<1>5. rows' \in Seq(R)
  BY <1>0, <1>2, <1>3
<1>6. DOMAIN rows \subseteq DOMAIN rows' /\ \A i \in DOMAIN rows : rows'[i] = rows[i]
  BY <1>0, <1>2, <1>3
<1>7. \A f \in Execution : RunOk(f)'
  BY Zenon, <1>3 DEF RowsInv, RunOk
<1>8. ASSUME NEW i \in DOMAIN rows' PROVE RowOk(i)'
  <2>1. CASE i \in DOMAIN rows /\ rows'[i] = rows[i]
    BY Zenon, <1>0, <1>3, <2>1 DEF RowOk, HadOutcome
  <2>2. CASE rows'[i] = new
    <3>1. ~execution[e].acked
      BY Zenon, <1>0, <1>3 DEF RunOk
    <3> QED BY Zenon, <1>2, <1>3, <2>2, <3>1 DEF RowOk
  <2> QED BY Zenon, <1>4, <2>1, <2>2
<1> QED BY Zenon, <1>0, <1>3, <1>5, <1>6, <1>7, <1>8 DEF RowsInv, HistoryTypes, R

\* A pod that ends: no row tells its outcome yet.
LEMMA EndKeepsRows ==
    ASSUME RowsInv, NEW e \in Execution, NEW outcome \in Outcome, PodEnds(e, outcome) PROVE RowsInv'
<1>0. rows \in Seq(Row) /\ execution \in [Execution -> Run] /\ execution[e] \in Run
  BY DEF RowsInv, HistoryTypes
<1>1. /\ rows' = rows /\ execution' = [execution EXCEPT ![e].outcome = outcome]
      /\ execution[e].outcome = "none"
  BY DEF PodEnds
<1>2. /\ execution' \in [Execution -> Run]
      /\ \A f \in Execution : f # e => execution'[f] = execution[f]
      /\ execution'[e].outcome = outcome
      /\ \A f \in Execution : execution'[f].acked = execution[f].acked
  BY <1>0, <1>1 DEF Run
<1>3. ~execution[e].acked
  BY <1>1 DEF RowsInv, RunOk
<1>4. ASSUME NEW f \in Execution PROVE RunOk(f)'
  BY Zenon, <1>2, <1>3 DEF RowsInv, RunOk
<1>5. ASSUME NEW i \in DOMAIN rows PROVE RowOk(i)'
  <2>1. RowOk(i) /\ rows[i] \in Row
    BY <1>0 DEF RowsInv
  <2>2. rows[i].status # "none"
    BY <2>1 DEF Row, RowStatus, Outcome
  <2>3. HadOutcome(rows[i]) => HadOutcome(rows[i])'
    <3> SUFFICES ASSUME NEW f \in Execution, rows[i].task = TaskOf[f], rows[i].pod = PodOf[f],
                        rows[i].status = execution[f].outcome
                 PROVE  HadOutcome(rows[i])'
      BY Zenon DEF HadOutcome
    <3>1. f # e
      BY Zenon, <1>1, <2>2
    <3> QED BY Zenon, <1>1, <1>2, <3>1 DEF HadOutcome
  <2> QED BY Zenon, <1>1, <1>2, <2>1, <2>3 DEF RowOk
<1> QED BY Zenon, <1>0, <1>1, <1>2, <1>4, <1>5 DEF RowsInv, HistoryTypes

\* A report changes all the rows of its task and pod name, and no row to Running.
LEMMA ReportKeepsRows ==
    ASSUME RowsInv, NEW e \in Execution, NEW outcome \in Outcome, RecordOutcome(e, outcome)
    PROVE  /\ RowsInv' /\ DOMAIN rows' = DOMAIN rows
           /\ \A i \in DOMAIN rows : rows'[i].created = rows[i].created
<1>0. rows \in Seq(Row) /\ execution \in [Execution -> Run] /\ execution[e] \in Run
  BY DEF RowsInv, HistoryTypes
<1> DEFINE matched == {i \in DOMAIN rows : Matches(rows[i], e, outcome)}
<1>1. /\ rows' = [i \in DOMAIN rows |-> IF i \in matched THEN [rows[i] EXCEPT !.status = outcome] ELSE rows[i]]
      /\ execution[e].outcome = outcome
      /\ execution' \in {execution, [execution EXCEPT ![e].acked = @ \/ matched # {}]}
  BY Zenon DEF RecordOutcome
<1>2. \A i \in DOMAIN rows : rows[i] \in Row /\ RowOk(i)
  BY <1>0 DEF RowsInv
<1>3. \A i \in DOMAIN rows : i \in matched <=> rows[i].pod = PodOf[e] /\ rows[i].task = TaskOf[e] /\ rows[i].status # outcome
  BY Zenon DEF Matches
<1>4. PICK any \in BOOLEAN : any = (matched # {})
  BY Zenon
<1>5. execution' \in {execution, [execution EXCEPT ![e].acked = @ \/ any]}
  BY Zenon, <1>1, <1>4
<1> HIDE DEF matched
<1>6. DOMAIN rows' = DOMAIN rows /\ \A i \in DOMAIN rows :
        rows'[i] = IF i \in matched THEN [rows[i] EXCEPT !.status = outcome] ELSE rows[i]
  BY Zenon, <1>1
<1>7. \A i \in DOMAIN rows : /\ rows'[i] \in Row /\ rows'[i].pod = rows[i].pod /\ rows'[i].task = rows[i].task
                             /\ rows'[i].created = rows[i].created /\ rows'[i].execution = rows[i].execution
                             /\ rows'[i].status = IF i \in matched THEN outcome ELSE rows[i].status
  BY <1>2, <1>6 DEF Row, RowStatus
<1>8. rows' \in Seq(Row)
  <2>1. DOMAIN rows = 1..Len(rows) /\ Len(rows) \in Nat
    BY <1>0
  <2>2. rows' = [i \in 1..Len(rows) |-> rows'[i]]
    BY Zenon, <1>1, <2>1
  <2> HIDE DEF Row
  <2> QED BY <1>7, <2>1, <2>2
<1>9. /\ execution' \in [Execution -> Run]
      /\ \A f \in Execution : /\ execution'[f].outcome = execution[f].outcome
                              /\ f # e => execution'[f].acked = execution[f].acked
  BY <1>0, <1>5 DEF Run
<1>10. outcome # "none" /\ outcome # "Running"
  BY DEF Outcome
<1>11. ASSUME NEW f \in Execution PROVE RunOk(f)'
  BY Zenon, <1>1, <1>9, <1>10 DEF RowsInv, RunOk
<1>12. ASSUME NEW i \in DOMAIN rows PROVE RowOk(i)'
  <2>1. RowOk(i)
    BY <1>2
  <2>2. CASE i \in matched
    <3>1. HadOutcome(rows[i])'
      BY Zenon, <1>1, <1>3, <1>7, <1>9, <2>2 DEF HadOutcome
    <3> QED BY Zenon, <1>7, <1>10, <2>1, <2>2, <3>1 DEF RowOk
  <2>3. CASE i \notin matched
    <3>1. HadOutcome(rows[i]) => HadOutcome(rows[i])'
      BY Zenon, <1>7, <1>9, <2>3 DEF HadOutcome
    <3>2. rows[i].execution = e => rows[i].status = outcome
      BY Zenon, <1>3, <2>1, <2>3 DEF RowOk
    <3> QED BY Zenon, <1>7, <1>9, <1>10, <2>1, <2>3, <3>1, <3>2 DEF RowOk
  <2> QED BY <2>2, <2>3
<1> QED BY Zenon, <1>6, <1>7, <1>8, <1>9, <1>11, <1>12 DEF RowsInv, HistoryTypes

\* The invariant of the rows is inductive.
LEMMA RowsStep == ASSUME RowsInv, [HistoryNext]_historyVars PROVE RowsInv'
<1>1. ASSUME NEW e \in Execution, NEW created \in Instant, RecordTaskStart(e, created) PROVE RowsInv'
  BY Zenon, <1>1, StartKeepsRows
<1>2. ASSUME NEW e \in Execution, NEW outcome \in Outcome, PodEnds(e, outcome) PROVE RowsInv'
  BY Zenon, <1>2, EndKeepsRows
<1>3. ASSUME NEW e \in Execution, RecordTaskCompletion(e) \/ RecordTaskFailure(e) PROVE RowsInv'
  <2>1. PICK outcome \in Outcome : RecordOutcome(e, outcome)
    BY <1>3, Zenon DEF RecordTaskCompletion, RecordTaskFailure, Outcome
  <2> QED BY Zenon, <2>1, ReportKeepsRows
<1>4. CASE (\E f \in Filter : GetTaskHistory(f)) \/ CloseStore \/ UNCHANGED historyVars
  <2>1. rows' = rows /\ execution' = execution
    BY Zenon, <1>4 DEF GetTaskHistory, CloseStore, historyVars
  <2> QED BY Zenon, <2>1 DEF RowsInv, HistoryTypes, RunOk, RowOk, HadOutcome
<1> QED BY Zenon, <1>1, <1>2, <1>3, <1>4 DEF HistoryNext, ExecutionNext

\* The invariant of the rows holds always.
LEMMA RowsInvariance == HistorySpec => []RowsInv
BY RowsInit, RowsStep, PTL DEF HistorySpec

\* A row tells Running or an outcome of an execution of its task and pod name, and an
\* outcome once the report of its own execution was acknowledged, for any number of
\* executions that overlap or share names and however often their calls are repeated.
THEOREM RowsTellOutcomes == HistorySpec => []RowsTellTheOutcome
<1>2. RowsInv => RowsTellTheOutcome
  BY Zenon DEF RowsInv, RowOk, HadOutcome, RowsTellTheOutcome
<1> QED BY <1>2, RowsInvariance, PTL

-----------------------------------------------------------------------------
\* How many of the rows S of the table r were created at v or later.
Since(S, r, v) == Cardinality({j \in S : r[j].created >= v})

\* Rows S of the table r with an instant of their own each.
OneAtATime(S, r) ==
    /\ IsFiniteSet(S)
    /\ \A j \in S : r[j].created \in Nat
    /\ \A j, k \in S : r[j].created = r[k].created => j = k

\* One more if a row was created at v.
LEMMA SinceNext ==
    ASSUME NEW S, NEW r, OneAtATime(S, r), NEW v \in Nat
    PROVE  /\ Since(S, r, v) \in Nat
           /\ \A j \in S : r[j].created = v => Since(S, r, v) = Since(S, r, v + 1) + 1
           /\ (\A j \in S : r[j].created # v) => Since(S, r, v) = Since(S, r, v + 1)
<1> DEFINE T == {j \in S : r[j].created >= v}
           U == {j \in S : r[j].created >= v + 1}
<1>1. IsFiniteSet(T) /\ IsFiniteSet(U) /\ Cardinality(T) \in Nat /\ Cardinality(U) \in Nat
  <2>1. T \in SUBSET S /\ U \in SUBSET S
    OBVIOUS
  <2> HIDE DEF T, U
  <2> QED BY Zenon, <2>1, FS_Subset, FS_CardinalityType DEF OneAtATime
<1>2. \A j \in S : r[j].created >= v <=> r[j].created >= v + 1 \/ r[j].created = v
  BY DEF OneAtATime
<1>3. CASE \E j \in S : r[j].created = v
  <2>1. PICK j \in S : r[j].created = v
    BY Zenon, <1>3
  <2>2. j \notin U
    BY <2>1
  <2>3. T = U \cup {j}
    BY Zenon, <1>2, <2>1 DEF OneAtATime
  <2>4. Cardinality(T) = Cardinality(U) + 1
    <3> HIDE DEF T, U
    <3> QED BY Zenon, <1>1, <2>2, <2>3, FS_AddElement
  <2> QED BY Zenon, <1>1, <1>3, <2>4 DEF Since
<1>4. CASE ~\E j \in S : r[j].created = v
  <2>1. T = U
    BY Zenon, <1>2, <1>4
  <2> QED BY Zenon, <1>1, <1>4, <2>1 DEF Since
<1> QED BY <1>3, <1>4

\* There is a time after which no row was created.
LEMMA SinceEnds ==
    ASSUME NEW S, NEW r, OneAtATime(S, r)
    PROVE  \E v \in Nat : Since(S, r, v) = 0
<1> DEFINE f == [j \in S |-> r[j].created]
           I == {f[j] : j \in S}
<1>1. IsFiniteSet(I)
  <2> DEFINE g == f
  <2>1. f \in [S -> Nat]
    BY DEF OneAtATime
  <2>2. f \in Surjection(S, I)
    <3>1. f \in [S -> I]
      OBVIOUS
    <3> QED BY <3>1 DEF Surjection
  <2> HIDE DEF f, I
  <2> QED BY Zenon, <2>2, FS_Surjection DEF OneAtATime
<1>2. I \in SUBSET Nat /\ \A j \in S : r[j].created \in I /\ r[j].created \in Nat
  BY DEF OneAtATime
<1> HIDE DEF I
<1>3. CASE I = {}
  <2>1. {j \in S : r[j].created >= 0} = {}
    BY Zenon, <1>2, <1>3
  <2>2. Since(S, r, 0) = 0
    BY Zenon, <2>1, FS_EmptySet DEF Since
  <2> QED BY <2>2
<1>4. CASE I # {}
  <2>1. PICK x \in I : \A y \in I : y <= x
    BY Zenon, <1>1, <1>2, <1>4, FiniteGreatest
  <2>2. x + 1 \in Nat /\ \A j \in S : ~(r[j].created >= x + 1)
    BY <1>2, <2>1
  <2>3. {j \in S : r[j].created >= x + 1} = {}
    BY Zenon, <2>2
  <2>4. Since(S, r, x + 1) = 0
    BY Zenon, <2>3, FS_EmptySet DEF Since
  <2> QED BY Zenon, <2>2, <2>4
<1> QED BY <1>3, <1>4

\* Every place up to that of a row is taken.
LEMMA PlaceTaken ==
    ASSUME NEW S, NEW r, OneAtATime(S, r), NEW i \in S, NEW k \in 1..Since(S, r, r[i].created)
    PROVE  \E j \in S : Since(S, r, r[j].created) = k
<1>1. \A v \in Nat : Since(S, r, v) \in Nat
  BY Zenon, SinceNext
<1>2. k \in Nat /\ r[i].created \in Nat /\ k <= Since(S, r, r[i].created)
  <2>1. r[i].created \in Nat
    BY Zenon DEF OneAtATime
  <2>2. Since(S, r, r[i].created) \in Nat
    BY Zenon, <1>1, <2>1
  <2> QED BY <2>1, <2>2
<1>3. Since(S, r, 0) >= Since(S, r, r[i].created)
  <2> DEFINE T == {j \in S : r[j].created >= r[i].created}
  <2>1. {j \in S : r[j].created >= 0} = S
    BY DEF OneAtATime
  <2>2. Cardinality(T) <= Cardinality(S)
    <3>1. T \in SUBSET S
      OBVIOUS
    <3> HIDE DEF T
    <3> QED BY Zenon, <3>1, FS_Subset DEF OneAtATime
  <2>3. Since(S, r, 0) = Cardinality(S) /\ Since(S, r, r[i].created) = Cardinality(T)
    BY Zenon, <2>1 DEF Since
  <2>4. Since(S, r, 0) \in Nat /\ Since(S, r, r[i].created) \in Nat
    BY <1>1, <1>2
  <2> HIDE DEF T
  <2> QED BY <2>2, <2>3, <2>4
<1> DEFINE T == {v \in Nat : Since(S, r, v) < k}
<1>4. T # {}
  <2>1. PICK v \in Nat : Since(S, r, v) = 0
    BY Zenon, SinceEnds
  <2>2. v \in T
    BY <1>2, <2>1
  <2> QED BY Zenon, <2>2
<1>5. PICK x \in T : \A y \in T : x <= y
  BY Zenon, <1>4, Least
<1>6. x \in Nat /\ Since(S, r, x) < k /\ x # 0
  <2>1. x \in Nat /\ Since(S, r, x) < k
    BY Zenon, <1>5
  <2>2. Since(S, r, 0) \in Nat /\ Since(S, r, r[i].created) \in Nat
    BY <1>1, <1>2
  <2> QED BY <1>2, <1>3, <2>1, <2>2
<1>7. PICK w \in Nat : x = w + 1
  <2>1. x - 1 \in Nat /\ x = (x - 1) + 1
    BY <1>6
  <2> QED BY Zenon, <2>1
<1>8. ~(Since(S, r, w) < k)
  <2>1. ~(x <= w)
    BY <1>7
  <2> QED BY Zenon, <1>5, <2>1
<1> HIDE DEF T
<1>9. \/ (\E j \in S : r[j].created = w) /\ Since(S, r, w) = Since(S, r, w + 1) + 1
      \/ Since(S, r, w) = Since(S, r, w + 1)
  BY Zenon, SinceNext
<1>10. Since(S, r, w) \in Nat /\ Since(S, r, w + 1) \in Nat
  BY <1>1, <1>7
<1>11. (\E j \in S : r[j].created = w) /\ Since(S, r, w) = k
  BY <1>2, <1>6, <1>7, <1>8, <1>9, <1>10
<1> QED BY Zenon, <1>11

\* A page before the place of a row is full.
LEMMA PageIsFull ==
    ASSUME NEW S, NEW r, OneAtATime(S, r), NEW offset \in Nat, NEW size \in Nat \ {0},
           NEW i \in S, Since(S, r, r[i].created) > offset + size
    PROVE  Cardinality({j \in S : Since(S, r, r[j].created) \in offset + 1..offset + size}) >= size
<1> DEFINE P == {j \in S : Since(S, r, r[j].created) \in offset + 1..offset + size}
           K == offset + 1..offset + size
           f == [k \in K |-> CHOOSE j \in S : Since(S, r, r[j].created) = k]
<1>1. Since(S, r, r[i].created) \in Nat
  BY Zenon, SinceNext DEF OneAtATime
<1>2. \A k \in K : k \in 1..Since(S, r, r[i].created)
  BY <1>1
<1>3. \A k \in K : \E j \in S : Since(S, r, r[j].created) = k
  BY <1>2, PlaceTaken
<1>4. \A k \in K : f[k] \in S /\ Since(S, r, r[f[k]].created) = k
  BY <1>3
<1>5. f \in [K -> P]
  BY <1>4
<1>6. \A k, l \in K : f[k] = f[l] => k = l
  BY <1>4
<1> HIDE DEF f
<1>7. f \in Injection(K, P)
  BY <1>5, <1>6 DEF Injection, IsInjective
<1>8. IsFiniteSet(P) /\ Cardinality(P) \in Nat
  <2>1. P \in SUBSET S
    OBVIOUS
  <2> HIDE DEF P
  <2> QED BY Zenon, <2>1, FS_Subset, FS_CardinalityType DEF OneAtATime
<1>9. Cardinality(K) <= Cardinality(P)
  BY <1>7, <1>8, FS_Injection
<1>10. Cardinality(K) = size
  BY FS_Interval
<1> QED BY <1>9, <1>10

-----------------------------------------------------------------------------
\* No two rows were created at the same instant.
Distinct == \A i, j \in DOMAIN rows : rows[i].created = rows[j].created => i = j

\* The place of row i in the result of the filter f, the newest first.
Rank(f, i) == Since(Selected(f), rows, rows[i].created)

Reader == [pc : {"idle", "reading", "done"}, filter : Filter \cup {"none"}, offset : Nat,
           began : SUBSET Nat, seen : SUBSET Nat, left : BOOLEAN]

\* A row that was in the result when the reader began was seen, or is in the result
\* still and behind the offset.
Waiting ==
    \A i \in reader.began : /\ i \in Selected(reader.filter)
                            /\ i \in reader.seen \/ Rank(reader.filter, i) > reader.offset

ReaderInv ==
    /\ rows \in Seq(Row)
    /\ reader \in Reader
    /\ reader.pc = "idle" => reader.offset = 0
    /\ reader.pc = "reading" /\ ~reader.left /\ Distinct => Waiting
    /\ reader.pc = "done" /\ ~reader.left /\ Distinct => reader.began \subseteq reader.seen

\* The result of a filter is finite and has the instants of its rows.
LEMMA SelectedRows ==
    ASSUME rows \in Seq(Row), NEW f
    PROVE  /\ Selected(f) \in SUBSET DOMAIN rows /\ Selected(f) \in SUBSET Nat /\ IsFiniteSet(Selected(f))
           /\ \A i \in DOMAIN rows : rows[i].created \in Instant /\ rows[i].created \in Nat
           /\ Distinct => OneAtATime(Selected(f), rows)
<1>1. Len(rows) \in Nat /\ DOMAIN rows = 1..Len(rows) /\ \A i \in DOMAIN rows : rows[i] \in Row
  <2> HIDE DEF Row
  <2> QED OBVIOUS
<1>2. \A i \in DOMAIN rows : rows[i].created \in Instant /\ rows[i].created \in Nat
  <2>1. \A i \in DOMAIN rows : rows[i].created \in Instant
    BY Zenon, <1>1 DEF Row
  <2> QED BY Zenon, <2>1, HistoryAssumption
<1>3. Selected(f) \in SUBSET DOMAIN rows
  BY Zenon DEF Selected
<1>4. Selected(f) \in SUBSET (1..Len(rows)) /\ Selected(f) \in SUBSET Nat /\ Len(rows) \in Int
  BY <1>1, <1>3
<1>5. IsFiniteSet(Selected(f))
  BY Zenon, <1>4, FinitelyManyPlaces
<1> QED BY Zenon, <1>2, <1>3, <1>4, <1>5 DEF Distinct, OneAtATime

\* With an instant for every row a page has the rows at its places.
LEMMA PageHasPlaces ==
    ASSUME rows \in Seq(Row), Distinct, NEW f, NEW offset \in Nat, NEW page \in Pages(f, offset)
    PROVE  page = {i \in Selected(f) : Rank(f, i) \in offset + 1..offset + PageSize}
<1> DEFINE S == Selected(f)
           K == offset + 1..offset + PageSize
<1>1. /\ page \in SUBSET S
      /\ \A created \in Instant : Cardinality({i \in page : rows[i].created = created})
                                      = Cardinality(Places(f, created) \cap K)
  BY Zenon DEF Pages
<1>2. S \in SUBSET DOMAIN rows /\ IsFiniteSet(S) /\ OneAtATime(S, rows)
  BY Zenon, SelectedRows
<1>3. ASSUME NEW i \in S PROVE i \in page <=> Rank(f, i) \in K
  <2>1. PICK v \in Nat : v = rows[i].created /\ v \in Instant
    BY Zenon, <1>2, SelectedRows
  <2>2. \A j \in S : rows[j].created = v <=> j = i
    BY Zenon, <1>2, <2>1 DEF Distinct
  <2> DEFINE newer == Cardinality({j \in S : rows[j].created > v})
  <2>3. Since(S, rows, v) \in Nat /\ Since(S, rows, v + 1) \in Nat
        /\ Since(S, rows, v) = Since(S, rows, v + 1) + 1
    <3>1. v + 1 \in Nat
      OBVIOUS
    <3> QED BY Zenon, <1>2, <2>1, <3>1, SinceNext
  <2>4. newer = Since(S, rows, v + 1)
    <3>1. \A j \in S : rows[j].created \in Nat
      BY Zenon, <1>2 DEF OneAtATime
    <3>2. \A j \in S : rows[j].created > v <=> rows[j].created >= v + 1
      BY <3>1
    <3>3. {j \in S : rows[j].created > v} = {j \in S : rows[j].created >= v + 1}
      BY Zenon, <3>2
    <3> QED BY Zenon, <3>3 DEF Since
  <2>5. Cardinality({j \in S : rows[j].created = v}) = 1
    <3>1. {j \in S : rows[j].created = v} = {i}
      BY Zenon, <2>2
    <3> QED BY Zenon, <3>1, FS_Singleton
  <2>6. Places(f, v) = newer + 1..newer + 1
    BY Zenon, <2>5 DEF Places
  <2> HIDE DEF newer
  <2>7. Places(f, v) = {Rank(f, i)}
    <3>1. newer \in Nat /\ Rank(f, i) = newer + 1
      BY Zenon, <2>1, <2>3, <2>4 DEF Rank
    <3>2. \A k : k \in newer + 1..newer + 1 <=> k = newer + 1
      BY <3>1
    <3> QED BY Zenon, <2>6, <3>1, <3>2
  <2>8. Cardinality({j \in page : rows[j].created = v}) = Cardinality(Places(f, v) \cap K)
    BY Zenon, <1>1, <2>1
  <2>9. Cardinality({}) = 0 /\ (\A x : Cardinality({x}) = 1) /\ 0 # 1
    <3>1. 0 # 1
      OBVIOUS
    <3> QED BY Zenon, <3>1, FS_EmptySet, FS_Singleton
  <2>10. {j \in page : rows[j].created = v} = IF i \in page THEN {i} ELSE {}
    BY Zenon, <1>1, <2>2
  <2> HIDE DEF K, S
  <2>11. Places(f, v) \cap K = IF Rank(f, i) \in K THEN {Rank(f, i)} ELSE {}
    BY Zenon, <2>7
  <2> QED BY Zenon, <2>8, <2>9, <2>10, <2>11
<1> HIDE DEF K, S
<1>4. page = {i \in S : Rank(f, i) \in K}
  BY Zenon, <1>1, <1>3
<1> QED BY Zenon, <1>4 DEF S, K

\* A page that is short leaves nothing behind it.
LEMMA ShortPageIsLast ==
    ASSUME rows \in Seq(Row), Distinct, NEW f, NEW offset \in Nat, NEW page \in Pages(f, offset),
           Cardinality(page) < PageSize, NEW i \in Selected(f)
    PROVE  ~(Rank(f, i) > offset + PageSize)
<1>1. SUFFICES ASSUME Rank(f, i) > offset + PageSize PROVE FALSE
  BY Zenon
<1>2. page = {j \in Selected(f) : Since(Selected(f), rows, rows[j].created) \in offset + 1..offset + PageSize}
  BY Zenon, PageHasPlaces DEF Rank
<1>3. PageSize \in Nat \ {0}
  BY HistoryAssumption
<1>4. Since(Selected(f), rows, rows[i].created) > offset + PageSize
  BY Zenon, <1>1 DEF Rank
<1>5. OneAtATime(Selected(f), rows)
  BY Zenon, SelectedRows
<1>6. Cardinality(page) >= PageSize
  BY <1>2, <1>3, <1>4, <1>5, PageIsFull
<1>7. Cardinality(page) \in Nat
  <2>1. page \in SUBSET Selected(f)
    BY Zenon DEF Pages
  <2> QED BY Zenon, <1>5, <2>1, FS_Subset, FS_CardinalityType DEF OneAtATime
<1> QED BY <1>3, <1>6, <1>7

\* Places only grow while no row leaves the result.
LEMMA RankGrows ==
    ASSUME rows \in Seq(Row), rows' \in Seq(Row), NEW f, NEW i \in DOMAIN rows,
           \A j \in DOMAIN rows : rows'[j].created = rows[j].created,
           Selected(f) \subseteq Selected(f)'
    PROVE  Rank(f, i) \in Nat /\ Rank(f, i)' \in Nat /\ Rank(f, i) <= Rank(f, i)'
<1> DEFINE T == {j \in Selected(f) : rows[j].created >= rows[i].created}
           U == {j \in Selected(f)' : rows'[j].created >= rows'[i].created}
<1>1. Selected(f) \in SUBSET DOMAIN rows /\ IsFiniteSet(Selected(f))
  BY Zenon, SelectedRows
<1>2. IsFiniteSet(Selected(f)')
  <2>1. Len(rows') \in Nat /\ DOMAIN rows' = 1..Len(rows')
    <3> HIDE DEF Row
    <3> QED OBVIOUS
  <2>2. Selected(f)' \in SUBSET (1..Len(rows')) /\ Len(rows') \in Int
    BY <2>1 DEF Selected
  <2> QED BY Zenon, <2>2, FinitelyManyPlaces
<1>3. T \in SUBSET Selected(f) /\ U \in SUBSET Selected(f)' /\ T \in SUBSET U
  BY Zenon, <1>1
<1> HIDE DEF T, U
<1>4. /\ IsFiniteSet(T) /\ IsFiniteSet(U) /\ Cardinality(T) \in Nat /\ Cardinality(U) \in Nat
      /\ Cardinality(T) <= Cardinality(U)
  BY Zenon, <1>1, <1>2, <1>3, FS_Subset, FS_CardinalityType
<1>5. Rank(f, i) = Cardinality(T) /\ Rank(f, i)' = Cardinality(U)
  BY Zenon DEF Rank, Since, T, U
<1> QED BY Zenon, <1>4, <1>5

\* A change of the table: rows are added, or change in what is not their instant.
LEMMA ChangeKeepsReader ==
    ASSUME ReaderInv, rows' \in Seq(Row), reader' \in Reader,
           DOMAIN rows \subseteq DOMAIN rows',
           \A j \in DOMAIN rows : rows'[j].created = rows[j].created,
           reader'.pc = reader.pc, reader'.filter = reader.filter, reader'.offset = reader.offset,
           reader'.began = reader.began, reader'.seen = reader.seen,
           reader.left => reader'.left,
           reader.pc = "reading" /\ ~reader'.left => Selected(reader.filter) \subseteq Selected(reader.filter)'
    PROVE  ReaderInv'
<1>1. Distinct' => Distinct
  BY Zenon DEF Distinct
<1>2. ASSUME reader.pc = "reading", ~reader'.left, Distinct' PROVE Waiting'
  <2>1. Waiting /\ rows \in Seq(Row) /\ reader \in Reader
    BY Zenon, <1>1, <1>2 DEF ReaderInv
  <2>2. PICK f : f = reader.filter
    BY Zenon
  <2>3. PICK o \in Nat : o = reader.offset
    BY Zenon, <2>1 DEF Reader
  <2>4. Selected(f) \subseteq Selected(f)' /\ Selected(f) \in SUBSET DOMAIN rows
    BY Zenon, <1>2, <2>1, <2>2, SelectedRows
  <2>5. ASSUME NEW i \in reader.began
        PROVE  i \in Selected(f)' /\ (i \in reader.seen \/ Rank(f, i)' > o)
    <3>1. i \in Selected(f) /\ (i \in reader.seen \/ Rank(f, i) > o)
      BY Zenon, <2>1, <2>2, <2>3 DEF Waiting
    <3>2. Rank(f, i) \in Nat /\ Rank(f, i)' \in Nat /\ Rank(f, i) <= Rank(f, i)'
      BY Zenon, <2>1, <2>4, <3>1, RankGrows
    <3>3. Rank(f, i) > o => Rank(f, i)' > o
      BY <3>2
    <3> QED BY Zenon, <2>4, <3>1, <3>3
  <2>6. f = reader'.filter /\ o = reader'.offset /\ reader'.began = reader.began /\ reader'.seen = reader.seen
    BY Zenon, <2>2, <2>3
  <2> QED BY Zenon, <2>5, <2>6 DEF Waiting, Selected, Rank, Since
<1> QED BY Zenon, <1>1, <1>2 DEF ReaderInv

\* A page.
LEMMA PageKeepsReader ==
    ASSUME ReaderInv, NEW f \in Filter, GetTaskHistory(f)
    PROVE  ReaderInv'
<1>0. rows \in Seq(Row) /\ reader \in Reader /\ PageSize \in Nat \ {0} /\ rows' = rows
  BY HistoryAssumption DEF ReaderInv, GetTaskHistory
<1>1. PICK page \in Pages(f, reader.offset) :
          reader' = [reader EXCEPT !.pc = IF Cardinality(page) < PageSize THEN "done" ELSE "reading",
                                   !.filter = f,
                                   !.offset = @ + PageSize,
                                   !.began = IF reader.pc = "idle" THEN Selected(f) ELSE @,
                                   !.seen = @ \cup page]
  BY Zenon DEF GetTaskHistory
<1>2. PICK o \in Nat : o = reader.offset
  BY Zenon, <1>0 DEF Reader
<1>3. PICK pc \in {"done", "reading"} : pc = IF Cardinality(page) < PageSize THEN "done" ELSE "reading"
  BY Zenon
<1>4. PICK began : began = IF reader.pc = "idle" THEN Selected(f) ELSE reader.began
  BY Zenon
<1>5. PICK next \in Nat : next = o + PageSize
  BY <1>0
<1>6. PICK seen : seen = reader.seen \cup page
  BY Zenon
<1>7. page \in SUBSET Selected(f) /\ Selected(f) \in SUBSET Nat /\ page \in Pages(f, o)
  BY Zenon, <1>0, <1>1, <1>2, SelectedRows DEF Pages
<1>8. reader' = [reader EXCEPT !.pc = pc, !.filter = f, !.offset = next, !.began = began, !.seen = seen]
  BY Zenon, <1>1, <1>2, <1>3, <1>4, <1>5, <1>6
<1>9. began \in SUBSET Nat /\ seen \in SUBSET Nat
  BY Zenon, <1>0, <1>4, <1>6, <1>7 DEF Reader
<1>10. /\ reader' \in Reader
       /\ reader'.pc = pc /\ reader'.filter = f /\ reader'.offset = next
       /\ reader'.began = began /\ reader'.seen = seen /\ reader'.left = reader.left
  BY Zenon, <1>0, <1>8, <1>9 DEF Reader
<1>11. \A i : Selected(f)' = Selected(f) /\ Rank(f, i)' = Rank(f, i)
  BY Zenon, <1>0 DEF Selected, Rank, Since
<1>12. ASSUME ~reader.left, Distinct
       PROVE  \A i \in began : /\ i \in Selected(f) /\ (i \in reader.seen \/ Rank(f, i) > o)
  <2>1. CASE reader.pc = "idle"
    <3>1. o = 0 /\ began = Selected(f)
      BY Zenon, <1>2, <1>4, <2>1 DEF ReaderInv
    <3>2. ASSUME NEW i \in Selected(f) PROVE Rank(f, i) > 0
      <4>1. OneAtATime(Selected(f), rows) /\ rows[i].created \in Nat
        BY Zenon, <1>0, <1>12, SelectedRows
      <4>2. PICK v \in Nat : v = rows[i].created
        BY Zenon, <4>1
      <4>3. v + 1 \in Nat /\ \A n \in Nat : n + 1 > 0
        OBVIOUS
      <4>4. Since(Selected(f), rows, v) = Since(Selected(f), rows, v + 1) + 1
        BY Zenon, <4>1, <4>2, SinceNext
      <4>5. Since(Selected(f), rows, v + 1) \in Nat
        BY Zenon, <4>1, <4>3, SinceNext
      <4> QED BY Zenon, <4>2, <4>3, <4>4, <4>5 DEF Rank
    <3> QED BY Zenon, <3>1, <3>2
  <2>2. CASE reader.pc # "idle"
    <3>1. reader.pc = "reading" /\ reader.filter = f /\ began = reader.began
      BY Zenon, <1>4, <2>2 DEF GetTaskHistory
    <3> QED BY Zenon, <1>2, <1>12, <3>1 DEF ReaderInv, Waiting
  <2> QED BY <2>1, <2>2
<1>13. ASSUME ~reader.left, Distinct
       PROVE  \A i \in began : /\ i \in Selected(f) /\ (i \in seen \/ Rank(f, i) > next)
  <2> TAKE i \in began
  <2>1. i \in Selected(f) /\ (i \in reader.seen \/ Rank(f, i) > o)
    BY Zenon, <1>12, <1>13
  <2>2. page = {j \in Selected(f) : Rank(f, j) \in o + 1..o + PageSize}
    BY Zenon, <1>0, <1>7, <1>13, PageHasPlaces
  <2>3. Rank(f, i) \in Nat
    <3>1. OneAtATime(Selected(f), rows) /\ rows[i].created \in Nat
      BY Zenon, <1>0, <1>13, <2>1, SelectedRows
    <3> QED BY Zenon, <3>1, SinceNext DEF Rank
  <2>4. Rank(f, i) > o => Rank(f, i) \in o + 1..o + PageSize \/ Rank(f, i) > next
    BY <1>0, <1>5, <2>3
  <2> QED BY Zenon, <1>6, <2>1, <2>2, <2>4
<1>14. Distinct' = Distinct
  BY Zenon, <1>0 DEF Distinct
<1>15. ASSUME pc = "reading", ~reader.left, Distinct PROVE Waiting'
  BY Zenon, <1>10, <1>11, <1>13, <1>15 DEF Waiting
<1>16. ASSUME pc = "done", ~reader.left, Distinct PROVE began \subseteq seen
  <2>1. Cardinality(page) < PageSize
    BY Zenon, <1>3, <1>16
  <2>2. \A i \in Selected(f) : ~(Rank(f, i) > next)
    BY Zenon, <1>0, <1>5, <1>7, <1>16, <2>1, ShortPageIsLast
  <2> QED BY Zenon, <1>13, <1>16, <2>2
<1>17. pc # "idle"
  BY Zenon, <1>3
<1> QED BY Zenon, <1>0, <1>10, <1>14, <1>15, <1>16, <1>17 DEF ReaderInv

\* A reader that pages with any filter, while executions start, end and report, has
\* seen all rows that its filter selected when it began, if no row left its result
\* meanwhile and no two rows were created at the same instant.
THEOREM PagingMissesNoRow == HistorySpec => []PagingMissesNothing
<1>1. HistoryInit => ReaderInv
  BY DEF HistoryInit, ReaderInv, Reader
<1>2. ASSUME ReaderInv, RowsInv, RowsInv', [HistoryNext]_historyVars PROVE ReaderInv'
  <2>0. rows \in Seq(Row) /\ rows' \in Seq(Row) /\ reader \in Reader
    BY <1>2 DEF RowsInv, HistoryTypes, ReaderInv
  <2>1. ASSUME NEW f \in Filter, GetTaskHistory(f) PROVE ReaderInv'
    BY Zenon, <1>2, <2>1, PageKeepsReader
  <2>2. ASSUME NEW e \in Execution, NEW created \in Instant, RecordTaskStart(e, created) PROVE ReaderInv'
    <3>1. DOMAIN rows \subseteq DOMAIN rows' /\ \A i \in DOMAIN rows : rows'[i] = rows[i]
      BY Zenon, <1>2, <2>2, StartKeepsRows
    <3>2. reader' = reader
      BY Zenon, <2>2 DEF RecordTaskStart
    <3>3. Selected(reader.filter) \subseteq Selected(reader.filter)'
      BY Zenon, <3>1, <3>2 DEF Selected
    <3> QED BY Zenon, <1>2, <2>0, <3>1, <3>2, <3>3, ChangeKeepsReader
  <2>3. ASSUME NEW e \in Execution, RecordTaskCompletion(e) \/ RecordTaskFailure(e) PROVE ReaderInv'
    <3>1. PICK outcome \in Outcome : RecordOutcome(e, outcome)
      BY <2>3, Zenon DEF RecordTaskCompletion, RecordTaskFailure, Outcome
    <3>2. DOMAIN rows' = DOMAIN rows /\ \A i \in DOMAIN rows : rows'[i].created = rows[i].created
      BY Zenon, <1>2, <3>1, ReportKeepsRows
    <3>3. PICK left \in BOOLEAN : left = (reader.left \/ (reader.pc = "reading" /\
                                        \E i \in Selected(reader.filter) : ~Fulfils(rows'[i], reader.filter)))
      BY Zenon
    <3>4. reader' = [reader EXCEPT !.left = left]
      BY Zenon, <3>1, <3>3 DEF RecordOutcome
    <3>5. /\ reader' \in Reader /\ reader'.pc = reader.pc /\ reader'.filter = reader.filter
          /\ reader'.offset = reader.offset /\ reader'.began = reader.began /\ reader'.seen = reader.seen
          /\ reader'.left = left
      BY <2>0, <3>4 DEF Reader
    <3>6. reader.pc = "reading" /\ ~left => Selected(reader.filter) \subseteq Selected(reader.filter)'
      BY Zenon, <3>2, <3>3, <3>5 DEF Selected
    <3>7. reader.left => left
      BY Zenon, <3>3
    <3> QED BY Zenon, <1>2, <2>0, <3>2, <3>5, <3>6, <3>7, ChangeKeepsReader
  <2>4. ASSUME rows' = rows, reader' = reader PROVE ReaderInv'
    BY Zenon, <1>2, <2>4 DEF ReaderInv, Waiting, Distinct, Rank, Since, Selected
  <2>5. ASSUME (\E e \in Execution, outcome \in Outcome : PodEnds(e, outcome)) \/ CloseStore \/ UNCHANGED historyVars
        PROVE  rows' = rows /\ reader' = reader
    BY Zenon, <2>5 DEF PodEnds, CloseStore, historyVars
  <2> QED BY Zenon, <1>2, <2>1, <2>2, <2>3, <2>4, <2>5 DEF HistoryNext, ExecutionNext
<1>3. ReaderInv => PagingMissesNothing
  BY Zenon DEF ReaderInv, Distinct, PagingMissesNothing
<1> QED BY <1>1, <1>2, <1>3, RowsInvariance, PTL DEF HistorySpec
=============================================================================
