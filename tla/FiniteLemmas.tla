---------------------------- MODULE FiniteLemmas ----------------------------
(***************************************************************************)
(* Facts about numbers, finite sets and their sums, sequences and          *)
(* remainders that the proofs of several modules rest on.  Induction is by *)
(* a least counterexample: a set of natural numbers that is not empty has  *)
(* a least element, because < is well founded.                             *)
(***************************************************************************)
EXTENDS Integers, FiniteSets, FiniteSetsExt, FiniteSetTheorems, WellFoundedInduction, SequenceTheorems, TLAPS

\* A set of natural numbers that is not empty has a least element.
LEMMA Least ==
    ASSUME NEW T \in SUBSET Nat, T # {}
    PROVE  \E x \in T : \A y \in T : x <= y
<1> DEFINE R == OpToRel(<, Nat)
<1>1. \A x, y \in Nat : y < x => <<y, x>> \in R
  BY DEF OpToRel
<1>2. IsWellFoundedOn(R, Nat)
  BY Zenon, NatLessThanWellFounded
<1> HIDE DEF R
<1>3. PICK x \in T : \A y \in T : ~(<<y, x>> \in R)
  BY Zenon, <1>2, WFMin
<1>4. \A y \in T : ~(y < x)
  BY Zenon, <1>1, <1>3
<1>5. \A y \in T : x <= y
  BY <1>4
<1> QED BY <1>5

\* A set of numbers up to n that is not empty has a greatest element.
LEMMA Greatest ==
    ASSUME NEW n \in Nat, NEW T \in SUBSET (1..n), T # {}
    PROVE  \E x \in T : \A y \in T : y <= x
<1> DEFINE U == {u \in Nat : \E x \in T : u = n - x}
<1>1. U # {}
  <2>1. PICK x \in T : TRUE
    BY Zenon
  <2>2. n - x \in U
    BY <2>1
  <2> QED BY Zenon, <2>2
<1>2. PICK u \in U : \A v \in U : u <= v
  BY Zenon, <1>1, Least
<1>3. PICK x \in T : u = n - x
  BY <1>2
<1>4. ASSUME NEW y \in T PROVE y <= x
  <2>1. n - y \in U
    OBVIOUS
  <2> QED BY <2>1, <1>2, <1>3
<1> QED BY <1>4

\* A finite set of numbers that is not empty has a greatest element.
LEMMA FiniteGreatest ==
    ASSUME NEW S \in SUBSET Nat, IsFiniteSet(S), S # {}
    PROVE  \E x \in S : \A y \in S : y <= x
<1> DEFINE HasNone(U) == IsFiniteSet(U) /\ U # {} /\ ~\E x \in U : \A y \in U : y <= x
           Bad == {n \in Nat : \E U \in SUBSET Nat : HasNone(U) /\ Cardinality(U) = n}
<1> SUFFICES ASSUME HasNone(S) PROVE FALSE
  OBVIOUS
<1>1. Cardinality(S) \in Bad
  BY FS_CardinalityType
<1>2. PICK n \in Bad : \A k \in Bad : n <= k
  BY Zenon, <1>1, Least
<1>3. PICK U \in SUBSET Nat : HasNone(U) /\ Cardinality(U) = n
  BY <1>2
<1>4. PICK u \in U : TRUE
  BY Zenon, <1>3
<1> DEFINE W == U \ {u}
<1>5. IsFiniteSet(W) /\ Cardinality(W) = n - 1 /\ W \in SUBSET Nat
  BY <1>3, <1>4, FS_RemoveElement
<1>6. Cardinality(W) \in Nat
  BY <1>5, FS_CardinalityType
<1>7. ~HasNone(W)
  <2> SUFFICES ASSUME HasNone(W) PROVE FALSE
    OBVIOUS
  <2>1. Cardinality(W) \in Bad
    BY Zenon, <1>5, <1>6
  <2>2. n <= Cardinality(W) /\ n \in Nat
    BY Zenon, <2>1, <1>2
  <2> QED BY <2>2, <1>5, <1>6
<1>8. CASE W = {}
  <2>1. \A y \in U : y = u
    BY <1>8
  <2> QED BY <2>1, <1>3, <1>4
<1>9. CASE W # {}
  <2>1. PICK m \in W : \A y \in W : y <= m
    BY <1>5, <1>7, <1>9
  <2>2. CASE u <= m
    <3>1. \A y \in U : y <= m
      BY <2>1, <2>2
    <3> QED BY <2>1, <3>1, <1>3
  <2>3. CASE m <= u
    <3>1. \A y \in U : y <= u
      <4> SUFFICES ASSUME NEW y \in U, y # u PROVE y <= u
        BY <1>4
      <4>1. y <= m /\ y \in Nat /\ m \in Nat /\ u \in Nat
        BY <2>1, <1>4
      <4> QED BY <4>1, <2>3
    <3> QED BY <1>4, <3>1, <1>3
  <2> QED BY <2>1, <2>2, <2>3, <1>4
<1> QED BY <1>8, <1>9
-----------------------------------------------------------------------------
\* Sums of a function over a finite set.
SumOf(g, S) == MapThenSumSet(LAMBDA x : g[x], S)

\* The element that the fold takes next, and the equation of its totals.
Chosen(s) == CHOOSE x \in s : TRUE
TotalOf(g, f, s) == IF s = {} THEN 0 ELSE g[Chosen(s)] + f[s \ {Chosen(s)}]
Totals(g, S) == CHOOSE f : f = [s \in SUBSET S |-> TotalOf(g, f, s)]

\* What MapThenSumSet stands for.
LEMMA SumIsTotal == ASSUME NEW g, NEW S PROVE SumOf(g, S) = Totals(g, S)[S]
BY Zenon DEF SumOf, MapThenSumSet, MapThenFoldSet, Totals, TotalOf, Chosen

\* Taking the next element makes a finite set smaller by one.
LEMMA ChosenSmaller ==
    ASSUME NEW s, IsFiniteSet(s), s # {}
    PROVE  /\ Chosen(s) \in s /\ IsFiniteSet(s \ {Chosen(s)})
           /\ Cardinality(s) \in Nat /\ Cardinality(s \ {Chosen(s)}) \in Nat
           /\ Cardinality(s \ {Chosen(s)}) = Cardinality(s) - 1
<1>1. Chosen(s) \in s
  BY DEF Chosen
<1>2. IsFiniteSet(s \ {Chosen(s)}) /\ Cardinality(s \ {Chosen(s)}) = Cardinality(s) - 1
  BY <1>1, FS_RemoveElement
<1> QED BY <1>1, <1>2, FS_CardinalityType

\* The totals exist, for sets of up to any size.
LEMMA TotalsExist ==
    ASSUME NEW S, IsFiniteSet(S), NEW g, \A x \in S : g[x] \in Nat
    PROVE  \E f \in [SUBSET S -> Nat] : \A s \in SUBSET S : f[s] = TotalOf(g, f, s)
<1> DEFINE Dom(n) == {s \in SUBSET S : Cardinality(s) <= n}
           Good(n) == \E f \in [Dom(n) -> Nat] : \A s \in Dom(n) : f[s] = TotalOf(g, f, s)
           Bad == {n \in Nat : ~Good(n)}
<1>0. \A s \in SUBSET S : IsFiniteSet(s) /\ Cardinality(s) \in Nat /\ Cardinality(s) <= Cardinality(S)
  BY FS_Subset, FS_CardinalityType
<1>1. Good(0)
  <2>1. \A s \in Dom(0) : s = {}
    BY <1>0, FS_EmptySet
  <2> DEFINE f == [s \in Dom(0) |-> 0]
  <2>2. f \in [Dom(0) -> Nat]
    OBVIOUS
  <2>3. \A s \in Dom(0) : f[s] = TotalOf(g, f, s)
    BY <2>1 DEF TotalOf
  <2> HIDE DEF f
  <2> QED BY Zenon, <2>2, <2>3
<1>2. ASSUME NEW n \in Nat, Good(n) PROVE Good(n + 1)
  <2>1. PICK f \in [Dom(n) -> Nat] : \A s \in Dom(n) : f[s] = TotalOf(g, f, s)
    BY Zenon, <1>2
  <2> DEFINE h == [s \in Dom(n + 1) |-> TotalOf(g, f, s)]
  <2>2. ASSUME NEW s \in Dom(n + 1), s # {}
        PROVE  /\ Chosen(s) \in S /\ s \ {Chosen(s)} \in Dom(n) /\ s \ {Chosen(s)} \in Dom(n + 1)
    BY <1>0, <2>2, ChosenSmaller
  <2>3. h \in [Dom(n + 1) -> Nat]
    <3> SUFFICES ASSUME NEW s \in Dom(n + 1) PROVE TotalOf(g, f, s) \in Nat
      OBVIOUS
    <3>1. CASE s = {}
      BY <3>1 DEF TotalOf
    <3>2. CASE s # {}
      <4>1. g[Chosen(s)] \in Nat /\ f[s \ {Chosen(s)}] \in Nat
        BY <2>1, <2>2, <3>2
      <4> QED BY <3>2, <4>1 DEF TotalOf
    <3> QED BY <3>1, <3>2
  <2>4. ASSUME NEW s \in Dom(n + 1) PROVE h[s] = TotalOf(g, h, s)
    <3>1. CASE s = {}
      BY <3>1 DEF TotalOf
    <3>2. CASE s # {}
      <4> DEFINE r == s \ {Chosen(s)}
      <4>1. r \in Dom(n) /\ r \in Dom(n + 1)
        BY <2>2, <3>2
      <4>2. h[r] = TotalOf(g, f, r) /\ f[r] = TotalOf(g, f, r)
        BY <2>1, <4>1
      <4>3. h[s] = g[Chosen(s)] + f[r]
        BY <3>2 DEF TotalOf
      <4> QED BY <3>2, <4>2, <4>3 DEF TotalOf
    <3> QED BY <3>1, <3>2
  <2> HIDE DEF h
  <2> QED BY Zenon, <2>3, <2>4
<1>3. Bad = {}
  <2> SUFFICES ASSUME Bad # {} PROVE FALSE
    BY Zenon
  <2>1. PICK n \in Bad : \A k \in Bad : n <= k
    <3> HIDE DEF Good
    <3> QED BY Zenon, Least
  <2>2. n \in Nat /\ ~Good(n) /\ n # 0
    BY Zenon, <1>1, <2>1
  <2>3. n - 1 \in Nat /\ Good(n - 1)
    <3> HIDE DEF Good
    <3> QED BY <2>1, <2>2
  <2>4. Good(n - 1 + 1)
    BY Zenon, <1>2, <2>3
  <2>5. n - 1 + 1 = n
    BY <2>2
  <2> QED BY Zenon, <2>2, <2>4, <2>5
<1>4. Good(Cardinality(S))
  <2>1. Cardinality(S) \in Nat
    BY FS_CardinalityType
  <2> HIDE DEF Good
  <2> QED BY <1>3, <2>1
<1>5. Dom(Cardinality(S)) = SUBSET S
  BY <1>0
<1> QED BY Zenon, <1>4, <1>5

\* And they are the only ones: they depend only on the values in the set.
LEMMA TotalsUnique ==
    ASSUME NEW S, IsFiniteSet(S), NEW g, NEW h, \A x \in S : g[x] = h[x],
           NEW f, \A s \in SUBSET S : f[s] = TotalOf(g, f, s),
           NEW e, \A s \in SUBSET S : e[s] = TotalOf(h, e, s)
    PROVE  \A s \in SUBSET S : f[s] = e[s]
<1> DEFINE Bad == {n \in Nat : \E s \in SUBSET S : Cardinality(s) = n /\ f[s] # e[s]}
<1>0. \A s \in SUBSET S : IsFiniteSet(s) /\ Cardinality(s) \in Nat
  BY FS_Subset, FS_CardinalityType
<1> SUFFICES ASSUME Bad # {} PROVE FALSE
  BY <1>0
<1>1. PICK n \in Bad : \A k \in Bad : n <= k
  BY Zenon, Least
<1>2. PICK s \in SUBSET S : Cardinality(s) = n /\ f[s] # e[s]
  BY <1>1
<1>3. s # {}
  BY Zenon, <1>2 DEF TotalOf
<1> DEFINE r == s \ {Chosen(s)}
<1>4. Chosen(s) \in S /\ r \in SUBSET S /\ Cardinality(r) \in Nat /\ Cardinality(r) = n - 1 /\ n \in Nat
  BY <1>0, <1>2, <1>3, ChosenSmaller
<1>5. Cardinality(r) \notin Bad
  <2> SUFFICES ASSUME Cardinality(r) \in Bad PROVE FALSE
    BY Zenon
  <2>1. n <= Cardinality(r)
    BY Zenon, <1>1
  <2> QED BY <2>1, <1>4
<1>6. f[r] = e[r]
  BY Zenon, <1>4, <1>5
<1> QED BY <1>2, <1>3, <1>4, <1>6 DEF TotalOf

\* What Totals is.
LEMMA TotalsDef ==
    ASSUME NEW S, IsFiniteSet(S), NEW g, \A x \in S : g[x] \in Nat
    PROVE  /\ Totals(g, S) \in [SUBSET S -> Nat]
           /\ \A s \in SUBSET S : Totals(g, S)[s] = TotalOf(g, Totals(g, S), s)
<1>1. PICK f \in [SUBSET S -> Nat] : \A s \in SUBSET S : f[s] = TotalOf(g, f, s)
  BY Zenon, TotalsExist
<1>2. f = [s \in SUBSET S |-> TotalOf(g, f, s)]
  BY <1>1
<1>3. Totals(g, S) = [s \in SUBSET S |-> TotalOf(g, Totals(g, S), s)]
  BY Zenon, <1>2 DEF Totals
<1> DEFINE t == Totals(g, S)
<1>4. \A s \in SUBSET S : t[s] = TotalOf(g, t, s)
  BY Zenon, <1>3
<1>5. \A s \in SUBSET S : f[s] = t[s]
  <2> HIDE DEF t
  <2> QED BY <1>1, <1>4, TotalsUnique
<1>6. t \in [SUBSET S -> Nat]
  <2>1. t = [s \in SUBSET S |-> t[s]]
    BY Zenon, <1>3, <1>4
  <2> HIDE DEF t
  <2> QED BY Zenon, <1>1, <1>5, <2>1
<1> QED BY <1>4, <1>6

\* A sum is a number.
LEMMA SumType ==
    ASSUME NEW S, IsFiniteSet(S), NEW g, \A x \in S : g[x] \in Nat
    PROVE  SumOf(g, S) \in Nat
<1>1. Totals(g, S)[S] \in Nat
  BY Zenon, TotalsDef
<1> QED BY <1>1, SumIsTotal

\* It depends on the values in the set only.
LEMMA SumSame ==
    ASSUME NEW S, IsFiniteSet(S), NEW g, NEW h, \A x \in S : g[x] \in Nat /\ g[x] = h[x]
    PROVE  SumOf(g, S) = SumOf(h, S)
<1>1. \A s \in SUBSET S : Totals(g, S)[s] = TotalOf(g, Totals(g, S), s)
  BY Zenon, TotalsDef
<1>2. \A s \in SUBSET S : Totals(h, S)[s] = TotalOf(h, Totals(h, S), s)
  BY Zenon, TotalsDef
<1> HIDE DEF Totals
<1>3. Totals(g, S)[S] = Totals(h, S)[S]
  BY <1>1, <1>2, TotalsUnique
<1> QED BY <1>3, SumIsTotal

\* The sum over the empty set.
LEMMA SumEmpty == ASSUME NEW g PROVE SumOf(g, {}) = 0
<1>1. IsFiniteSet({})
  BY FS_EmptySet
<1>2. Totals(g, {})[{}] = TotalOf(g, Totals(g, {}), {})
  BY Zenon, <1>1, TotalsDef
<1> QED BY <1>2, SumIsTotal DEF TotalOf

\* The sum over another set, by the element that the fold takes.
LEMMA SumChosen ==
    ASSUME NEW S, IsFiniteSet(S), S # {}, NEW g, \A x \in S : g[x] \in Nat
    PROVE  SumOf(g, S) = g[Chosen(S)] + SumOf(g, S \ {Chosen(S)})
<1> DEFINE R == S \ {Chosen(S)}
<1>1. IsFiniteSet(R) /\ R \in SUBSET S
  BY ChosenSmaller
<1>2. \A s \in SUBSET S : Totals(g, S)[s] = TotalOf(g, Totals(g, S), s)
  BY Zenon, TotalsDef
<1>3. \A s \in SUBSET R : Totals(g, R)[s] = TotalOf(g, Totals(g, R), s)
  BY Zenon, <1>1, TotalsDef
<1> HIDE DEF Totals
<1>4. Totals(g, S)[R] = Totals(g, R)[R]
  <2> HIDE DEF R
  <2>1. \A s \in SUBSET R : Totals(g, S)[s] = TotalOf(g, Totals(g, S), s)
    BY <1>1, <1>2
  <2> QED BY <1>1, <1>3, <2>1, TotalsUnique
<1>5. Totals(g, S)[S] = g[Chosen(S)] + Totals(g, S)[R]
  BY <1>2 DEF TotalOf
<1> QED BY <1>4, <1>5, SumIsTotal

\* The same by any element.
LEMMA SumRemove ==
    ASSUME NEW S, IsFiniteSet(S), NEW g, \A x \in S : g[x] \in Nat, NEW y \in S
    PROVE  SumOf(g, S) = g[y] + SumOf(g, S \ {y})
<1> DEFINE Wrong(s) == \E x \in s : SumOf(g, s) # g[x] + SumOf(g, s \ {x})
           Bad == {n \in Nat : \E s \in SUBSET S : Cardinality(s) = n /\ Wrong(s)}
<1>0. \A s \in SUBSET S : IsFiniteSet(s) /\ Cardinality(s) \in Nat
  BY FS_Subset, FS_CardinalityType
<1> SUFFICES ASSUME Bad # {} PROVE FALSE
  BY Zenon, <1>0
<1>1. PICK n \in Bad : \A k \in Bad : n <= k
  BY Zenon, Least
<1>2. PICK s \in SUBSET S : Cardinality(s) = n /\ Wrong(s)
  BY <1>1
<1>3. PICK x \in s : SumOf(g, s) # g[x] + SumOf(g, s \ {x})
  BY Zenon, <1>2
<1> HIDE DEF Wrong
<1> DEFINE c == Chosen(s)
<1>4. c \in s /\ SumOf(g, s) = g[c] + SumOf(g, s \ {c})
  BY Zenon, <1>0, <1>3, ChosenSmaller, SumChosen
<1>5. c # x
  BY <1>3, <1>4
<1>6. ASSUME NEW a \in s PROVE ~Wrong(s \ {a})
  <2>1. /\ s \ {a} \in SUBSET S /\ Cardinality(s \ {a}) \in Nat
        /\ Cardinality(s \ {a}) = n - 1 /\ n \in Nat
    BY <1>0, <1>2, <1>6, FS_RemoveElement
  <2>2. SUFFICES ASSUME Wrong(s \ {a}) PROVE FALSE
    OBVIOUS
  <2>3. Cardinality(s \ {a}) \in Bad
    BY SMTT(30), <2>1, <2>2
  <2>4. n <= Cardinality(s \ {a})
    BY <1>1, <2>3
  <2> QED BY <2>1, <2>4
<1> DEFINE r == s \ {c, x}
<1>7. SumOf(g, s \ {c}) = g[x] + SumOf(g, r)
  <2>1. (s \ {c}) \ {x} = r /\ x \in s \ {c}
    BY <1>5
  <2>2. ~Wrong(s \ {c})
    BY <1>6, <1>4
  <2>3. \A z \in s \ {c} : SumOf(g, s \ {c}) = g[z] + SumOf(g, (s \ {c}) \ {z})
    BY Zenon, <2>2 DEF Wrong
  <2> QED BY <2>1, <2>3
<1>8. SumOf(g, s \ {x}) = g[c] + SumOf(g, r)
  <2>1. (s \ {x}) \ {c} = r /\ c \in s \ {x}
    BY <1>4, <1>5
  <2>2. ~Wrong(s \ {x})
    BY <1>6, <1>3
  <2>3. \A z \in s \ {x} : SumOf(g, s \ {x}) = g[z] + SumOf(g, (s \ {x}) \ {z})
    BY Zenon, <2>2 DEF Wrong
  <2> QED BY Zenon, <2>1, <2>3
<1>9. g[c] \in Nat /\ g[x] \in Nat /\ SumOf(g, r) \in Nat
  <2>1. r \in SUBSET S /\ IsFiniteSet(r)
    BY <1>0
  <2> QED BY <1>4, <2>1, SumType
<1> HIDE DEF c, r
<1> QED BY <1>3, <1>4, <1>7, <1>8, <1>9
-----------------------------------------------------------------------------
\* r is q with t put in after its first n elements, or without its k-th.
Inserted(r, q, n, t) ==
    /\ Len(r) = Len(q) + 1
    /\ \A i \in 1..n : r[i] = q[i]
    /\ r[n + 1] = t
    /\ \A i \in n + 1..Len(q) : r[i + 1] = q[i]
Without(r, q, k) ==
    /\ Len(r) = Len(q) - 1
    /\ \A i \in 1..k - 1 : r[i] = q[i]
    /\ \A i \in k..Len(q) - 1 : r[i] = q[i + 1]

\* A sequence with an element put in after its first n.
LEMMA InsertedAt ==
    ASSUME NEW S, NEW q \in Seq(S), NEW t \in S, NEW n \in 0..Len(q)
    PROVE  LET r == SubSeq(q, 1, n) \o <<t>> \o SubSeq(q, n + 1, Len(q))
           IN  r \in Seq(S) /\ Inserted(r, q, n, t)
<1>0. Len(q) \in Nat /\ n \in Nat /\ n <= Len(q) /\ \A i \in 1..Len(q) : q[i] \in S
  OBVIOUS
<1> DEFINE a == SubSeq(q, 1, n)
           b == SubSeq(q, n + 1, Len(q))
           m == a \o <<t>>
<1>1. a \in Seq(S) /\ Len(a) = n /\ \A i \in 1..n : a[i] = q[i]
  <2>1. \A i \in 1..n : q[i] \in S
    BY <1>0
  <2>2. /\ a \in Seq(S) /\ Len(a) = (IF 1 <= n THEN n - 1 + 1 ELSE 0)
        /\ \A i \in 1..n - 1 + 1 : a[i] = q[1 + i - 1]
    BY <1>0, <2>1, SubSeqProperties
  <2> QED BY <1>0, <2>2
<1>2. b \in Seq(S) /\ Len(b) = Len(q) - n /\ \A i \in 1..Len(q) - n : b[i] = q[n + i]
  <2>1. \A i \in n + 1..Len(q) : q[i] \in S
    BY <1>0
  <2>2. /\ b \in Seq(S) /\ Len(b) = (IF n + 1 <= Len(q) THEN Len(q) - (n + 1) + 1 ELSE 0)
        /\ \A i \in 1..Len(q) - (n + 1) + 1 : b[i] = q[n + 1 + i - 1]
    BY <1>0, <2>1, SubSeqProperties
  <2> QED BY <1>0, <2>2
<1> HIDE DEF a, b
<1>3. m \in Seq(S) /\ Len(m) = n + 1 /\ (\A i \in 1..n : m[i] = q[i]) /\ m[n + 1] = t
  <2>1. <<t>> \in Seq(S) /\ Len(<<t>>) = 1 /\ <<t>>[1] = t
    OBVIOUS
  <2>2. /\ m \in Seq(S) /\ Len(m) = Len(a) + Len(<<t>>)
        /\ \A i \in 1..Len(a) + Len(<<t>>) : m[i] = IF i <= Len(a) THEN a[i] ELSE <<t>>[i - Len(a)]
    BY <1>1, <2>1, ConcatProperties
  <2> QED BY <1>0, <1>1, <2>1, <2>2
<1> HIDE DEF m
<1>4. /\ m \o b \in Seq(S) /\ Len(m \o b) = Len(m) + Len(b)
      /\ \A i \in 1..Len(m) + Len(b) : (m \o b)[i] = IF i <= Len(m) THEN m[i] ELSE b[i - Len(m)]
  BY <1>2, <1>3, ConcatProperties
<1> DEFINE r == m \o b
<1>5. r = SubSeq(q, 1, n) \o <<t>> \o SubSeq(q, n + 1, Len(q))
  BY DEF m, a, b
<1> HIDE DEF r
<1>5a. /\ r \in Seq(S) /\ Len(r) = Len(m) + Len(b)
      /\ \A i \in 1..Len(m) + Len(b) : r[i] = IF i <= Len(m) THEN m[i] ELSE b[i - Len(m)]
  BY Zenon, <1>4 DEF r
<1>6. r \in Seq(S) /\ Len(r) = Len(q) + 1
  <2>1. Len(m) + Len(b) = Len(q) + 1
    BY <1>0, <1>2, <1>3
  <2> QED BY Zenon, <1>5a, <2>1
<1>7. \A i \in 1..n + 1 : r[i] = m[i]
  <2>1. \A i \in 1..n + 1 : i \in 1..Len(m) + Len(b) /\ i <= Len(m)
    BY <1>0, <1>2, <1>3
  <2> QED BY Zenon, <1>5a, <2>1
<1>8. ASSUME NEW i \in n + 1..Len(q) PROVE r[i + 1] = q[i]
  <2>1. i + 1 \in 1..Len(m) + Len(b) /\ ~(i + 1 <= Len(m)) /\ i + 1 - Len(m) = i - n /\ i - n \in 1..Len(q) - n
    BY <1>0, <1>2, <1>3
  <2>2. r[i + 1] = b[i - n]
    BY <1>5a, <2>1
  <2>3. b[i - n] = q[n + (i - n)] /\ n + (i - n) = i
    BY <1>0, <1>2, <2>1
  <2> QED BY <2>2, <2>3
<1>9. (\A i \in 1..n : r[i] = q[i]) /\ r[n + 1] = t
  BY <1>0, <1>3, <1>7
<1>10. r \in Seq(S) /\ Inserted(r, q, n, t)
  BY Zenon, <1>6, <1>8, <1>9 DEF Inserted
<1> QED BY Zenon, <1>5, <1>10

\* A sequence without its k-th element.
LEMMA RemovedAt ==
    ASSUME NEW S, NEW q \in Seq(S), NEW k \in 1..Len(q)
    PROVE  LET r == SubSeq(q, 1, k - 1) \o SubSeq(q, k + 1, Len(q))
           IN  r \in Seq(S) /\ Without(r, q, k)
<1>0. Len(q) \in Nat /\ k \in Nat /\ 1 <= k /\ k <= Len(q) /\ \A i \in 1..Len(q) : q[i] \in S
  OBVIOUS
<1> DEFINE a == SubSeq(q, 1, k - 1)
           b == SubSeq(q, k + 1, Len(q))
<1>1. a \in Seq(S) /\ Len(a) = k - 1 /\ \A i \in 1..k - 1 : a[i] = q[i]
  <2>1. \A i \in 1..k - 1 : q[i] \in S
    BY <1>0
  <2>2. /\ a \in Seq(S) /\ Len(a) = (IF 1 <= k - 1 THEN k - 1 - 1 + 1 ELSE 0)
        /\ \A i \in 1..k - 1 - 1 + 1 : a[i] = q[1 + i - 1]
    BY <1>0, <2>1, SubSeqProperties
  <2> QED BY <1>0, <2>2
<1>2. b \in Seq(S) /\ Len(b) = Len(q) - k /\ \A i \in 1..Len(q) - k : b[i] = q[k + i]
  <2>1. \A i \in k + 1..Len(q) : q[i] \in S
    BY <1>0
  <2>2. /\ b \in Seq(S) /\ Len(b) = (IF k + 1 <= Len(q) THEN Len(q) - (k + 1) + 1 ELSE 0)
        /\ \A i \in 1..Len(q) - (k + 1) + 1 : b[i] = q[k + 1 + i - 1]
    BY <1>0, <2>1, SubSeqProperties
  <2> QED BY <1>0, <2>2
<1> HIDE DEF a, b
<1>3. /\ a \o b \in Seq(S) /\ Len(a \o b) = Len(a) + Len(b)
      /\ \A i \in 1..Len(a) + Len(b) : (a \o b)[i] = IF i <= Len(a) THEN a[i] ELSE b[i - Len(a)]
  BY Zenon, <1>1, <1>2, ConcatProperties
<1> DEFINE r == a \o b
<1>4. r = SubSeq(q, 1, k - 1) \o SubSeq(q, k + 1, Len(q))
  BY DEF a, b
<1> HIDE DEF r
<1>5a. /\ r \in Seq(S) /\ Len(r) = Len(a) + Len(b)
      /\ \A i \in 1..Len(a) + Len(b) : r[i] = IF i <= Len(a) THEN a[i] ELSE b[i - Len(a)]
  BY Zenon, <1>3 DEF r
<1>5. r \in Seq(S) /\ Len(r) = Len(q) - 1 /\ \A i \in 1..k - 1 : r[i] = q[i]
  <2>1. Len(a) + Len(b) = Len(q) - 1
    BY <1>0, <1>1, <1>2
  <2>2. \A i \in 1..k - 1 : i \in 1..Len(a) + Len(b) /\ i <= Len(a)
    BY <1>0, <1>1, <2>1
  <2> QED BY Zenon, <1>1, <1>5a, <2>1, <2>2
<1>6. ASSUME NEW i \in k..Len(q) - 1 PROVE r[i] = q[i + 1]
  <2>1. i \in 1..Len(a) + Len(b) /\ ~(i <= Len(a)) /\ i - Len(a) = i - k + 1 /\ i - k + 1 \in 1..Len(q) - k
    BY <1>0, <1>1, <1>2
  <2>2. r[i] = b[i - k + 1]
    BY <1>5a, <2>1
  <2>3. b[i - k + 1] = q[k + (i - k + 1)] /\ k + (i - k + 1) = i + 1
    BY <1>0, <1>2, <2>1
  <2> QED BY <2>2, <2>3
<1>7. r \in Seq(S) /\ Without(r, q, k)
  BY Zenon, <1>5, <1>6 DEF Without
<1> QED BY Zenon, <1>4, <1>7

\* The remainder goes up by one, or starts again.
LEMMA NextRemainder ==
    ASSUME NEW n \in Nat, NEW l \in Nat \ {0}
    PROVE  /\ n % l \in 0..l - 1
           /\ (n + 1) % l = IF n % l = l - 1 THEN 0 ELSE (n % l) + 1
<1> DEFINE d == n \div l
           e == (n + 1) \div l
           p == n % l
           s == (n + 1) % l
           k == e - d
<1>1. d \in Int /\ e \in Int /\ p \in 0..l - 1 /\ s \in 0..l - 1
  OBVIOUS
<1>2. n = l * d + p /\ n + 1 = l * e + s
  OBVIOUS
<1> HIDE DEF d, e, p, s
<1>3. l * k = p + 1 - s /\ k \in Int
  BY <1>1, <1>2
<1>4. k \in {0, 1}
  <2>1. ASSUME k >= 2 PROVE FALSE
    <3>1. PICK j \in Nat : k = 2 + j
      BY <1>3, <2>1
    <3>2. l * k = 2 * l + l * j /\ l * j \in Nat
      BY <3>1
    <3> HIDE DEF k
    <3> QED BY <1>1, <1>3, <3>2
  <2>2. ASSUME k <= -1 PROVE FALSE
    <3> DEFINE j == -1 - k
    <3>1. j \in Nat /\ k = -1 - j
      BY <1>3, <2>2
    <3> HIDE DEF k, j
    <3>2. l * k = -l - l * j /\ l * j \in Nat
      BY <3>1
    <3> QED BY <1>1, <1>3, <3>2
  <2> HIDE DEF k
  <2> QED BY <1>3, <2>1, <2>2
<1>5. s = IF p = l - 1 THEN 0 ELSE p + 1
  <2>1. l * 0 = 0 /\ l * 1 = l
    OBVIOUS
  <2> HIDE DEF k
  <2> QED BY <1>1, <1>3, <1>4, <2>1
<1> QED BY <1>1, <1>5 DEF p, s
=============================================================================
