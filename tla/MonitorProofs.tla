---------------------------- MODULE MonitorProofs ---------------------------
(* Theorems about Monitor, for any number of CPUs, rules, elements and packets. *)
EXTENDS Monitor, FiniteSetTheorems, SequenceTheorems, NaturalsInduction,
        WellFoundedInduction, TLAPS

-----------------------------------------------------------------------------
(* Sums over finite sets *)

\* Induction over the naturals, as the existence of a least element.
LEMMA LeastNat ==
    ASSUME NEW T \in SUBSET Nat, T # {}
    PROVE  \E n \in T : \A m \in T : n <= m
  <1> DEFINE R == OpToRel(<, Nat)
  <1>1. IsWellFoundedOn(R, Nat)
    BY NatLessThanWellFounded
  <1>2. \A x, y \in Nat : y < x => <<y, x>> \in R
    BY DEF OpToRel
  <1> HIDE DEF R
  <1>3. PICK x \in T : \A y \in T : ~(<<y, x>> \in R)
    BY <1>1, WFMin
  <1>4. \A y \in T : ~(y < x)
    BY <1>2, <1>3
  <1> QED BY <1>4

\* A set of subsets of a finite set has one that is least in size.
LEMMA SmallestSubset ==
    ASSUME NEW S, IsFiniteSet(S), NEW B \in SUBSET (SUBSET S), B # {}
    PROVE  \E s \in B : /\ IsFiniteSet(s)
                        /\ \A x \in s : s \ {x} \notin B
  <1> DEFINE C == {n \in Nat : \E s \in B : n = Cardinality(s)}
  <1>1. \A s \in B : IsFiniteSet(s) /\ Cardinality(s) \in Nat
    BY FS_Subset, FS_CardinalityType
  <1>2. C \in SUBSET Nat /\ C # {}
    BY <1>1
  <1>3. PICK n \in C : \A m \in C : n <= m
    BY <1>2, LeastNat
  <1>4. PICK s \in B : n = Cardinality(s)
    BY <1>3
  <1>5. ASSUME NEW x \in s, s \ {x} \in B PROVE FALSE
    <2>1. Cardinality(s \ {x}) = Cardinality(s) - 1
      BY <1>1, FS_RemoveElement
    <2>2. Cardinality(s \ {x}) \in C
      BY <1>1, <1>5
    <2>3. n \in Nat /\ n <= n - 1
      BY <1>1, <1>3, <1>4, <2>1, <2>2
    <2> QED BY <2>3
  <1> QED BY <1>1, <1>4, <1>5

Pick(s) == CHOOSE x \in s : TRUE

\* One step of the fold, with the results g for smaller sets.
AddOne(f, g, s) == IF s = {} THEN 0 ELSE f[Pick(s)] + g[s \ {Pick(s)}]

\* The sums of f over the subsets of S.
Solution(f, S, g) == g = [s \in SUBSET S |-> AddOne(f, g, s)]
Sums(f, S) == CHOOSE g : Solution(f, S, g)

LEMMA FoldIsSum ==
    ASSUME NEW f
    PROVE  FoldFunction(+, 0, f) = Sums(f, DOMAIN f)[DOMAIN f]
  BY Zenon DEF FoldFunction, FoldFunctionOnSet, MapThenFoldSet, Sums, Solution, AddOne, Pick

LEMMA PickIn == ASSUME NEW s, s # {} PROVE Pick(s) \in s
  BY DEF Pick

\* The recursion has a solution.
LEMMA SumsExist ==
    ASSUME NEW S, IsFiniteSet(S), NEW f \in [S -> Nat]
    PROVE  \E g : Solution(f, S, g)
  <1> DEFINE Small(n) == {s \in SUBSET S : Cardinality(s) <= n}
             Solves(g, n) == \A s \in Small(n) : g[s] = AddOne(f, g, s)
             Bad == {n \in Nat : ~\E g \in [Small(n) -> Nat] : Solves(g, n)}
  <1>0. \A s \in SUBSET S : IsFiniteSet(s) /\ Cardinality(s) \in Nat
    BY FS_Subset, FS_CardinalityType
  <1>1. Bad = {}
    <2> SUFFICES ASSUME Bad # {} PROVE FALSE
      OBVIOUS
    <2>1. Bad \in SUBSET Nat
      OBVIOUS
    <2>2. PICK n \in Bad : \A m \in Bad : n <= m
      BY <2>1, LeastNat
    <2>3. n \in Nat /\ ~\E g \in [Small(n) -> Nat] : Solves(g, n)
      BY <2>2
    <2>4. n # 0
      <3> SUFFICES ASSUME n = 0 PROVE FALSE
        OBVIOUS
      <3>1. \A s \in Small(0) : s = {}
        BY <1>0, FS_EmptySet
      <3> DEFINE g == [s \in Small(0) |-> 0]
      <3>2. g \in [Small(0) -> Nat]
        OBVIOUS
      <3>3. Solves(g, 0)
        BY <3>1 DEF AddOne
      <3> QED BY <2>3, <3>2, <3>3
    <2>5. n - 1 \in Nat /\ n - 1 \notin Bad
      <3>1. n - 1 \in Nat /\ ~(n <= n - 1)
        BY <2>3, <2>4
      <3> HIDE DEF Bad
      <3> QED BY <2>2, <3>1
    <2>6. PICK g \in [Small(n - 1) -> Nat] : Solves(g, n - 1)
      BY <2>5
    <2> DEFINE h == [s \in Small(n) |-> AddOne(f, g, s)]
    <2>7. \A s \in Small(n) : s # {} =>
             Pick(s) \in S /\ s \ {Pick(s)} \in Small(n - 1)
      <3> SUFFICES ASSUME NEW s \in Small(n), s # {}
                   PROVE  Pick(s) \in S /\ s \ {Pick(s)} \in Small(n - 1)
        OBVIOUS
      <3>1. Pick(s) \in s
        BY PickIn
      <3>2. Cardinality(s \ {Pick(s)}) = Cardinality(s) - 1
        BY <1>0, <3>1, FS_RemoveElement
      <3>3. Cardinality(s) \in Nat /\ Cardinality(s) <= n
        BY <1>0
      <3>4. Cardinality(s) - 1 <= n - 1
        BY <2>3, <3>3
      <3> QED BY <3>1, <3>2, <3>4
    <2>8. h \in [Small(n) -> Nat]
      <3> SUFFICES ASSUME NEW s \in Small(n) PROVE AddOne(f, g, s) \in Nat
        OBVIOUS
      <3>1. CASE s = {}
        BY <3>1 DEF AddOne
      <3>2. CASE s # {}
        <4>1. f[Pick(s)] \in Nat /\ g[s \ {Pick(s)}] \in Nat
          BY <2>7, <3>2
        <4> QED BY <3>2, <4>1 DEF AddOne
      <3> QED BY <3>1, <3>2
    <2>9. \A s \in Small(n - 1) : s \in Small(n) /\ h[s] = g[s]
      <3> SUFFICES ASSUME NEW s \in Small(n - 1) PROVE s \in Small(n) /\ h[s] = g[s]
        OBVIOUS
      <3>1. s \in Small(n)
        <4>1. Cardinality(s) \in Nat /\ Cardinality(s) <= n - 1
          BY <1>0
        <4>2. Cardinality(s) <= n
          BY <2>3, <4>1
        <4> QED BY <4>2
      <3>2. g[s] = AddOne(f, g, s)
        BY <2>6
      <3> QED BY <3>1, <3>2
    <2>10. Solves(h, n)
      <3> SUFFICES ASSUME NEW s \in Small(n) PROVE h[s] = AddOne(f, h, s)
        OBVIOUS
      <3>1. h[s] = AddOne(f, g, s)
        OBVIOUS
      <3>2. s # {} => h[s \ {Pick(s)}] = g[s \ {Pick(s)}]
        BY <2>7, <2>9
      <3> HIDE DEF h
      <3> QED BY <3>1, <3>2 DEF AddOne
    <2> HIDE DEF h
    <2> QED BY <2>3, <2>8, <2>10
  <1>2. Cardinality(S) \in Nat /\ Small(Cardinality(S)) = SUBSET S
    BY FS_Subset, FS_CardinalityType
  <1>3. PICK g \in [SUBSET S -> Nat] : \A s \in SUBSET S : g[s] = AddOne(f, g, s)
    <2> DEFINE N == Cardinality(S)
    <2>1. N \notin Bad /\ N \in Nat /\ Small(N) = SUBSET S
      BY <1>1, <1>2
    <2> HIDE DEF N
    <2>2. PICK g \in [Small(N) -> Nat] : Solves(g, N)
      BY <2>1
    <2> QED BY <2>1, <2>2
  <1>4. Solution(f, S, g)
    BY <1>3 DEF Solution
  <1> QED BY <1>4

LEMMA SumsType ==
    ASSUME NEW S, IsFiniteSet(S), NEW f \in [S -> Nat]
    PROVE  /\ \A s \in SUBSET S : Sums(f, S)[s] \in Nat
           /\ \A s \in SUBSET S : Sums(f, S)[s] = AddOne(f, Sums(f, S), s)
  <1> DEFINE g == Sums(f, S)
  <1>1. Solution(f, S, g)
    BY SumsExist, Zenon DEF Sums
  <1> HIDE DEF g
  <1>2. \A s \in SUBSET S : g[s] = AddOne(f, g, s)
    BY <1>1 DEF Solution
  <1> DEFINE Bad == {s \in SUBSET S : g[s] \notin Nat}
  <1>3. Bad = {}
    <2> SUFFICES ASSUME Bad # {} PROVE FALSE
      OBVIOUS
    <2>1. PICK s \in Bad : \A x \in s : s \ {x} \notin Bad
      BY SmallestSubset
    <2>2. CASE s = {}
      BY <1>2, <2>2 DEF AddOne
    <2>3. CASE s # {}
      <3>1. Pick(s) \in s
        BY <2>3, PickIn
      <3>2. g[s \ {Pick(s)}] \in Nat
        BY <2>1, <3>1
      <3>3. f[Pick(s)] \in Nat
        BY <3>1
      <3>4. g[s] = f[Pick(s)] + g[s \ {Pick(s)}]
        BY <1>2, <2>3 DEF AddOne
      <3> QED BY <3>2, <3>3, <3>4
    <2> QED BY <2>2, <2>3
  <1> QED BY <1>2, <1>3 DEF g


Splits(f, S, t, c) == Sums(f, S)[t] = f[c] + Sums(f, S)[t \ {c}]

\* Any element of a set may be the one that is added first.
LEMMA SumsSplit ==
    ASSUME NEW S, IsFiniteSet(S), NEW f \in [S -> Nat],
           NEW t \in SUBSET S, NEW c \in t
    PROVE  Splits(f, S, t, c)
  <1> DEFINE g == Sums(f, S)
             Bad == {s \in SUBSET S : \E x \in s : g[s] # f[x] + g[s \ {x}]}
  <1>1. /\ \A s \in SUBSET S : g[s] \in Nat
        /\ \A s \in SUBSET S : g[s] = AddOne(f, g, s)
    BY SumsType
  <1> HIDE DEF g
  <1>2. Bad = {}
    <2> SUFFICES ASSUME Bad # {} PROVE FALSE
      OBVIOUS
    <2>1. PICK s \in Bad : \A x \in s : s \ {x} \notin Bad
      BY SmallestSubset
    <2>2. PICK x \in s : g[s] # f[x] + g[s \ {x}]
      BY <2>1
    <2> DEFINE y == Pick(s)
    <2>3. y \in s /\ g[s] = f[y] + g[s \ {y}]
      BY <1>1, <2>2, PickIn DEF AddOne
    <2> HIDE DEF y
    <2>4. x # y
      BY <2>2, <2>3
    <2>5. /\ s \ {x} \in SUBSET S /\ y \in s \ {x} /\ s \ {x} \notin Bad
          /\ s \ {y} \in SUBSET S /\ x \in s \ {y} /\ s \ {y} \notin Bad
      BY <2>1, <2>2, <2>3, <2>4
    <2>6. /\ g[s \ {x}] = f[y] + g[(s \ {x}) \ {y}]
          /\ g[s \ {y}] = f[x] + g[(s \ {y}) \ {x}]
      BY <2>5
    <2>7. (s \ {x}) \ {y} = (s \ {y}) \ {x} /\ (s \ {x}) \ {y} \in SUBSET S
      OBVIOUS
    <2>8. f[x] \in Nat /\ f[y] \in Nat /\ g[(s \ {x}) \ {y}] \in Nat
      BY <1>1, <2>2, <2>3, <2>7
    <2> HIDE DEF Bad
    <2>10. g[s] = f[x] + g[s \ {x}]
      <3> DEFINE a == f[x]
                 b == f[y]
                 z == g[(s \ {x}) \ {y}]
                 u == g[s \ {x}]
                 v == g[s \ {y}]
      <3>1. g[s] = b + v /\ u = b + z /\ v = a + z
        BY <2>3, <2>6, <2>7, Zenon
      <3>2. a \in Nat /\ b \in Nat /\ z \in Nat
        BY <2>8, Zenon
      <3> HIDE DEF a, b, z, u, v
      <3>3. g[s] = a + u
        BY <3>1, <3>2
      <3> QED BY <3>3 DEF a, u
    <2> QED BY <2>2, <2>10
  <1> QED BY <1>2 DEF g, Splits

\* The sum of a function over its domain.
Total(f) == FoldFunction(+, 0, f)

LEMMA TotalType ==
    ASSUME NEW S, IsFiniteSet(S), NEW f \in [S -> Nat]
    PROVE  Total(f) \in Nat /\ Total(f) = Sums(f, S)[S]
  <1>1. Total(f) = Sums(f, S)[S]
    BY FoldIsSum DEF Total
  <1> QED BY <1>1, SumsType

\* Functions that agree on a set have the same sum there.
LEMMA SumsSame ==
    ASSUME NEW S, IsFiniteSet(S), NEW f \in [S -> Nat], NEW h \in [S -> Nat],
           NEW T \in SUBSET S, \A x \in T : f[x] <= h[x]
    PROVE  Sums(f, S)[T] <= Sums(h, S)[T]
  <1> DEFINE F == Sums(f, S)
             H == Sums(h, S)
  <1>1. /\ \A s \in SUBSET S : F[s] \in Nat /\ H[s] \in Nat
        /\ F[{}] = 0 /\ H[{}] = 0
    BY SumsType DEF AddOne
  <1>2. \A s \in SUBSET S : \A x \in s : F[s] = f[x] + F[s \ {x}] /\ H[s] = h[x] + H[s \ {x}]
    <2>1. \A s \in SUBSET S : \A x \in s : Splits(f, S, s, x) /\ Splits(h, S, s, x)
      BY SumsSplit
    <2> QED BY <2>1, Zenon DEF Splits
  <1> HIDE DEF F, H
  <1> DEFINE Bad == {s \in SUBSET T : ~(F[s] <= H[s])}
  <1>3. Bad = {}
    <2> SUFFICES ASSUME Bad # {} PROVE FALSE
      OBVIOUS
    <2>0. IsFiniteSet(T)
      BY FS_Subset
    <2>1. PICK s \in Bad : \A x \in s : s \ {x} \notin Bad
      BY <2>0, SmallestSubset
    <2>2. s # {}
      <3>1. ~(F[s] <= H[s])
        BY <2>1
      <3> HIDE DEF Bad
      <3>2. ~(0 <= 0) => FALSE
        OBVIOUS
      <3> QED BY <1>1, <3>1, <3>2
    <2>3. PICK x \in s : TRUE
      BY <2>2
    <2>4. F[s \ {x}] <= H[s \ {x}]
      BY <2>1, <2>3
    <2>5. F[s] = f[x] + F[s \ {x}] /\ H[s] = h[x] + H[s \ {x}]
      BY <1>2, <2>3
    <2>6. f[x] \in Nat /\ h[x] \in Nat /\ f[x] <= h[x]
      BY <2>3
    <2>7. F[s \ {x}] \in Nat /\ H[s \ {x}] \in Nat
      BY <1>1
    <2>8. F[s] <= H[s]
      BY <2>4, <2>5, <2>6, <2>7
    <2> QED BY <2>1, <2>8
  <1> QED BY <1>3 DEF F, H

\* h is f but for the value of c, which went up by one.
UpByOne(f, h, S, c) == (\A x \in S \ {c} : h[x] = f[x]) /\ h[c] = f[c] + 1

LEMMA TotalUp ==
    ASSUME NEW S, IsFiniteSet(S), NEW f \in [S -> Nat], NEW c \in S, NEW h \in [S -> Nat],
           UpByOne(f, h, S, c)
    PROVE  Total(h) = Total(f) + 1
  <1> DEFINE F == Sums(f, S)
             H == Sums(h, S)
             T == S \ {c}
  <1>1. Total(f) = F[S] /\ Total(h) = H[S]
    BY TotalType
  <1>2. F[S] = f[c] + F[T] /\ H[S] = h[c] + H[T]
    <2>1. Splits(f, S, S, c) /\ Splits(h, S, S, c)
      BY SumsSplit
    <2> QED BY <2>1 DEF Splits
  <1>3. T \in SUBSET S /\ F[T] \in Nat /\ H[T] \in Nat
    BY SumsType
  <1>4. \A x \in T : f[x] \in Nat /\ h[x] \in Nat /\ f[x] <= h[x] /\ h[x] <= f[x]
    BY DEF UpByOne
  <1>5. F[T] <= H[T] /\ H[T] <= F[T]
    BY <1>3, <1>4, SumsSame
  <1>6. f[c] \in Nat
    OBVIOUS
  <1>7. h[c] = f[c] + 1
    BY DEF UpByOne
  <1> HIDE DEF F, H, T
  <1> QED BY <1>1, <1>2, <1>3, <1>5, <1>6, <1>7

-----------------------------------------------------------------------------
(* Entries of the table *)

Entry == [key : Key, elem : Elem]

\* RemoveAt takes one entry out and leaves the others in their order.
LEMMA RemoveAtIs ==
    ASSUME NEW s \in Seq(Entry), NEW i \in 1 .. Len(s)
    PROVE  /\ RemoveAt(s, i) \in Seq(Entry)
           /\ Len(RemoveAt(s, i)) = Len(s) - 1
           /\ \A j \in 1 .. Len(s) - 1 :
                 RemoveAt(s, i)[j] = IF j < i THEN s[j] ELSE s[j + 1]
  <1> DEFINE a == SubSeq(s, 1, i - 1)
             b == SubSeq(s, i + 1, Len(s))
  <1>0. Len(s) \in Nat /\ i \in Nat /\ 1 <= i /\ i <= Len(s)
    OBVIOUS
  <1>1. /\ a \in Seq(Entry) /\ Len(a) = i - 1
        /\ \A j \in 1 .. i - 1 : a[j] = s[j]
    BY <1>0, SubSeqProperties
  <1>2. /\ b \in Seq(Entry) /\ Len(b) = Len(s) - i
        /\ \A j \in 1 .. Len(s) - i : b[j] = s[i + j]
    BY <1>0, SubSeqProperties
  <1>3. RemoveAt(s, i) = a \o b
    BY DEF RemoveAt
  <1> HIDE DEF a, b
  <1>4. /\ a \o b \in Seq(Entry) /\ Len(a \o b) = Len(s) - 1
        /\ \A j \in 1 .. Len(s) - 1 : (a \o b)[j] = IF j < i THEN a[j] ELSE b[j - (i - 1)]
    <2>1. /\ a \o b \in Seq(Entry) /\ Len(a \o b) = Len(a) + Len(b)
          /\ \A j \in 1 .. Len(a) + Len(b) :
                (a \o b)[j] = IF j <= Len(a) THEN a[j] ELSE b[j - Len(a)]
      BY <1>1, <1>2, ConcatProperties
    <2>2. Len(a) + Len(b) = Len(s) - 1
      BY <1>0, <1>1, <1>2
    <2>3. \A j \in 1 .. Len(s) - 1 : j <= i - 1 <=> j < i
      BY <1>0
    <2> QED BY <1>1, <2>1, <2>2, <2>3
  <1>5. ASSUME NEW j \in 1 .. Len(s) - 1
        PROVE  (a \o b)[j] = IF j < i THEN s[j] ELSE s[j + 1]
    <2>1. CASE j < i
      BY <1>0, <1>1, <1>4, <2>1
    <2>2. CASE j >= i
      <3>1. j - (i - 1) \in 1 .. Len(s) - i /\ i + (j - (i - 1)) = j + 1
        BY <1>0, <2>2
      <3>2. ~(j < i)
        BY <1>0, <2>2
      <3>3. (a \o b)[j] = b[j - (i - 1)]
        BY <1>4, <3>2, Zenon
      <3>4. b[j - (i - 1)] = s[i + (j - (i - 1))]
        BY <1>2, <3>1
      <3>5. (a \o b)[j] = s[j + 1]
        BY <3>1, <3>3, <3>4, Zenon
      <3> QED BY <3>2, <3>5, Zenon
    <2>3. j < i \/ j >= i
      BY <1>0
    <2> QED BY <2>1, <2>2, <2>3, Zenon
  <1> QED BY <1>3, <1>4, <1>5

\* InsertAt puts one in and leaves the others in their order.
LEMMA InsertAtIs ==
    ASSUME NEW s \in Seq(Entry), NEW i \in 1 .. Len(s) + 1, NEW x \in Entry
    PROVE  /\ InsertAt(s, i, x) \in Seq(Entry)
           /\ Len(InsertAt(s, i, x)) = Len(s) + 1
           /\ \A j \in 1 .. Len(s) + 1 :
                 InsertAt(s, i, x)[j] = IF j < i THEN s[j]
                                        ELSE IF j = i THEN x ELSE s[j - 1]
  <1> DEFINE a == SubSeq(s, 1, i - 1)
             b == SubSeq(s, i, Len(s))
             c == a \o <<x>>
  <1>0. Len(s) \in Nat /\ i \in Nat /\ 1 <= i /\ i <= Len(s) + 1
    OBVIOUS
  <1>1. /\ a \in Seq(Entry) /\ Len(a) = i - 1
        /\ \A j \in 1 .. i - 1 : a[j] = s[j]
    BY <1>0, SubSeqProperties
  <1>2. /\ b \in Seq(Entry) /\ Len(b) = Len(s) - i + 1
        /\ \A j \in 1 .. Len(s) - i + 1 : b[j] = s[i + j - 1]
    BY <1>0, SubSeqProperties
  <1>3. InsertAt(s, i, x) = c \o b
    BY DEF InsertAt
  <1> HIDE DEF a, b
  <1>4. /\ c \in Seq(Entry) /\ Len(c) = i
        /\ \A j \in 1 .. i : c[j] = IF j < i THEN s[j] ELSE x
    <2>1. <<x>> \in Seq(Entry) /\ Len(<<x>>) = 1 /\ <<x>>[1] = x
      OBVIOUS
    <2>2. /\ c \in Seq(Entry) /\ Len(c) = i
          /\ \A j \in 1 .. i : c[j] = IF j <= Len(a) THEN a[j] ELSE <<x>>[j - Len(a)]
      BY <1>0, <1>1, <2>1, ConcatProperties
    <2> HIDE DEF c
    <2>3. ASSUME NEW j \in 1 .. i PROVE c[j] = IF j < i THEN s[j] ELSE x
      <3>1. CASE j < i
        BY <1>0, <1>1, <2>2, <3>1
      <3>2. CASE j = i
        <4>1. j - Len(a) = 1 /\ ~(j <= Len(a))
          BY <1>0, <1>1, <3>2
        <4> QED BY <2>1, <2>2, <3>2, <4>1
      <3> QED BY <1>0, <3>1, <3>2
    <2> QED BY <2>2, <2>3
  <1> HIDE DEF c
  <1>5. /\ c \o b \in Seq(Entry) /\ Len(c \o b) = Len(s) + 1
        /\ \A j \in 1 .. Len(s) + 1 : (c \o b)[j] = IF j <= i THEN c[j] ELSE b[j - i]
    <2>1. /\ c \o b \in Seq(Entry) /\ Len(c \o b) = Len(c) + Len(b)
          /\ \A j \in 1 .. Len(c) + Len(b) :
                (c \o b)[j] = IF j <= Len(c) THEN c[j] ELSE b[j - Len(c)]
      BY <1>2, <1>4, ConcatProperties
    <2>2. Len(c) + Len(b) = Len(s) + 1
      BY <1>0, <1>2, <1>4
    <2> QED BY <1>4, <2>1, <2>2
  <1>6. ASSUME NEW j \in 1 .. Len(s) + 1
        PROVE  (c \o b)[j] = IF j < i THEN s[j] ELSE IF j = i THEN x ELSE s[j - 1]
    <2>1. CASE j <= i
      BY <1>0, <1>4, <1>5, <2>1
    <2>2. CASE j > i
      <3>1. j - i \in 1 .. Len(s) - i + 1 /\ i + (j - i) - 1 = j - 1
        BY <1>0, <2>2
      <3>2. ~(j < i) /\ j # i /\ ~(j <= i)
        BY <1>0, <2>2
      <3>3. (c \o b)[j] = b[j - i]
        BY <1>5, <3>2, Zenon
      <3>4. b[j - i] = s[i + (j - i) - 1]
        BY <1>2, <3>1
      <3>5. (c \o b)[j] = s[j - 1]
        BY <3>1, <3>3, <3>4, Zenon
      <3> QED BY <3>2, <3>5, Zenon
    <2>3. j <= i \/ j > i
      BY <1>0
    <2> QED BY <2>1, <2>2, <2>3, Zenon
  <1> QED BY <1>3, <1>5, <1>6

KeysOf(t) == {t[i].key : i \in DOMAIN t}

\* Key k comes before key l.
Before(t, k, l) ==
    \E i, j \in DOMAIN t : i < j /\ t[i].key = k /\ t[j].key = l

\* A table has every key once, and one bucket after the other.
Ordered(t) ==
    /\ t \in Seq(Entry)
    /\ \A i, j \in DOMAIN t :
          i < j => t[i].key # t[j].key /\ Bucket[t[i].key] <= Bucket[t[j].key]

\* u has the entries of t in their order, but for those with key k.
Keeps(t, u, k) ==
    /\ KeysOf(u) \ {k} = KeysOf(t) \ {k}
    /\ \A a, b : a # k /\ b # k /\ Before(t, a, b) => Before(u, a, b)

LEMMA RemoveOrder ==
    ASSUME NEW t, Ordered(t), NEW i \in 1 .. Len(t)
    PROVE  LET u == RemoveAt(t, i)
               k == t[i].key
           IN  Ordered(u) /\ k \notin KeysOf(u) /\ Keeps(t, u, k)
  <1> DEFINE u == RemoveAt(t, i)
             k == t[i].key
             old(j) == IF j < i THEN j ELSE j + 1
             new(j) == IF j < i THEN j ELSE j - 1
  <1>0. t \in Seq(Entry) /\ Len(t) \in Nat /\ DOMAIN t = 1 .. Len(t)
    BY DEF Ordered
  <1>1. /\ u \in Seq(Entry) /\ Len(u) = Len(t) - 1 /\ DOMAIN u = 1 .. Len(u)
        /\ \A j \in 1 .. Len(t) - 1 : u[j] = IF j < i THEN t[j] ELSE t[j + 1]
    <2>1. /\ u \in Seq(Entry) /\ Len(u) = Len(t) - 1
          /\ \A j \in 1 .. Len(t) - 1 : u[j] = IF j < i THEN t[j] ELSE t[j + 1]
      BY <1>0, RemoveAtIs, Zenon
    <2> HIDE DEF u
    <2>2. DOMAIN u = 1 .. Len(u)
      BY <2>1
    <2> QED BY <2>1, <2>2, Zenon
  <1> HIDE DEF u
  <1>2. \A j \in DOMAIN u : old(j) \in DOMAIN t /\ old(j) # i /\ u[j] = t[old(j)]
    <2> SUFFICES ASSUME NEW j \in 1 .. Len(t) - 1
                 PROVE  old(j) \in 1 .. Len(t) /\ old(j) # i /\ u[j] = t[old(j)]
      BY <1>0, <1>1
    <2>1. CASE j < i
      BY <1>0, <1>1, <2>1
    <2>2. CASE j >= i
      BY <1>0, <1>1, <2>2
    <2> QED BY <1>0, <2>1, <2>2
  <1>3. \A j \in DOMAIN t : j # i => new(j) \in DOMAIN u /\ u[new(j)] = t[j]
    <2> SUFFICES ASSUME NEW j \in 1 .. Len(t), j # i
                 PROVE  new(j) \in 1 .. Len(t) - 1 /\ u[new(j)] = t[j]
      BY <1>0, <1>1
    <2>1. CASE j < i
      BY <1>0, <1>1, <2>1
    <2>2. CASE j > i
      <3>1. j - 1 \in 1 .. Len(t) - 1 /\ ~(j - 1 < i) /\ (j - 1) + 1 = j /\ new(j) = j - 1
        BY <1>0, <2>2
      <3> QED BY <1>1, <3>1
    <2> QED BY <1>0, <2>1, <2>2
  <1>4. \A j, m \in DOMAIN u : j < m => old(j) < old(m)
    BY <1>0, <1>1
  <1>5. \A j, m \in DOMAIN t : j # i /\ m # i /\ j < m => new(j) < new(m)
    BY <1>0
  <1> HIDE DEF old, new
  <1>6. Ordered(u)
    BY <1>1, <1>2, <1>4 DEF Ordered
  <1>7. \A j \in DOMAIN t : j # i => t[j].key # k
    <2> SUFFICES ASSUME NEW j \in DOMAIN t, j # i PROVE t[j].key # k
      OBVIOUS
    <2>1. j < i \/ i < j
      BY <1>0
    <2> QED BY <1>0, <2>1 DEF Ordered
  <1>8. k \notin KeysOf(u)
    BY <1>2, <1>7 DEF KeysOf
  <1>9. Keeps(t, u, k)
    <2>1. KeysOf(u) \ {k} = KeysOf(t) \ {k}
      BY <1>2, <1>3 DEF KeysOf
    <2>2. ASSUME NEW a, NEW b, a # k, b # k, Before(t, a, b) PROVE Before(u, a, b)
      <3>1. PICK j \in DOMAIN t, m \in DOMAIN t : j < m /\ t[j].key = a /\ t[m].key = b
        BY <2>2 DEF Before
      <3>2. j # i /\ m # i
        BY <2>2, <3>1
      <3> QED BY <1>3, <1>5, <3>1, <3>2 DEF Before
    <2> QED BY <2>1, <2>2 DEF Keeps
  <1> QED BY <1>6, <1>8, <1>9 DEF u

LEMMA InsertOrder ==
    ASSUME NEW t, Ordered(t), NEW i \in 1 .. Len(t) + 1, NEW x \in Entry,
           x.key \notin KeysOf(t),
           \A j \in DOMAIN t : IF j < i THEN Bucket[t[j].key] < Bucket[x.key]
                                        ELSE Bucket[t[j].key] >= Bucket[x.key]
    PROVE  LET u == InsertAt(t, i, x)
           IN  /\ Ordered(u) /\ x.key \in KeysOf(u) /\ Keeps(t, u, x.key)
               /\ \A b \in KeysOf(t) : Bucket[b] >= Bucket[x.key] => Before(u, x.key, b)
  <1> DEFINE u == InsertAt(t, i, x)
             k == x.key
             old(j) == IF j < i THEN j ELSE j - 1
             new(j) == IF j < i THEN j ELSE j + 1
  <1>0. t \in Seq(Entry) /\ Len(t) \in Nat /\ DOMAIN t = 1 .. Len(t)
    BY DEF Ordered
  <1>1. /\ u \in Seq(Entry) /\ Len(u) = Len(t) + 1 /\ DOMAIN u = 1 .. Len(u)
        /\ \A j \in 1 .. Len(t) + 1 :
              u[j] = IF j < i THEN t[j] ELSE IF j = i THEN x ELSE t[j - 1]
    <2> HIDE DEF u, old, new
    <2>1. /\ u \in Seq(Entry) /\ Len(u) = Len(t) + 1
          /\ \A j \in 1 .. Len(t) + 1 :
                u[j] = IF j < i THEN t[j] ELSE IF j = i THEN x ELSE t[j - 1]
      BY <1>0, InsertAtIs, SMTT(40) DEF u
    <2>2. DOMAIN u = 1 .. Len(u)
      BY <2>1
    <2> QED BY <2>1, <2>2, Zenon
  <1> HIDE DEF u
  <1>2. i \in DOMAIN u /\ u[i] = x
    BY <1>0, <1>1
  <1>3. \A j \in DOMAIN u : j # i => old(j) \in DOMAIN t /\ u[j] = t[old(j)]
    BY <1>0, <1>1
  <1>4. \A j \in DOMAIN t : new(j) \in DOMAIN u /\ u[new(j)] = t[j]
    <2> SUFFICES ASSUME NEW j \in 1 .. Len(t)
                 PROVE  new(j) \in 1 .. Len(t) + 1 /\ u[new(j)] = t[j]
      BY <1>0, <1>1
    <2>1. CASE j < i
      BY <1>0, <1>1, <2>1
    <2>2. CASE j >= i
      <3>1. j + 1 \in 1 .. Len(t) + 1 /\ ~(j + 1 < i) /\ j + 1 # i /\ (j + 1) - 1 = j
        BY <1>0, <2>2
      <3>2. new(j) = j + 1
        BY <1>0, <2>2
      <3> QED BY <1>1, <3>1, <3>2
    <2> QED BY <1>0, <2>1, <2>2
  <1>5. \A j, m \in DOMAIN u : j # i /\ m # i /\ j < m => old(j) < old(m)
    BY <1>0, <1>1
  <1>6. \A j, m \in DOMAIN t : j < m => new(j) < new(m)
    BY <1>0
  <1>7. \A j \in DOMAIN u : /\ j < i => old(j) < i
                            /\ j > i => ~(old(j) < i)
    BY <1>0, <1>1
  <1>8. \A j \in DOMAIN t : ~(j < i) => i < new(j)
    BY <1>0
  <1> HIDE DEF old, new, k
  <1>9. \A j \in DOMAIN t : t[j].key # k /\ t[j].key \in Key /\ Bucket[t[j].key] \in Nat
    <2>1. \A j \in DOMAIN t : t[j].key # k
      BY DEF KeysOf, k
    <2>2. \A j \in DOMAIN t : t[j].key \in Key
      <3>1. \A j \in DOMAIN t : t[j] \in Entry
        BY <1>0
      <3> QED BY <3>1 DEF Entry
    <2>3. Bucket \in [Key -> Nat]
      BY MonitorAssumption
    <2> QED BY <2>1, <2>2, <2>3
  <1>10. k \in Key /\ Bucket[k] \in Nat
    BY MonitorAssumption DEF Entry, k
  <1>11. \A j \in DOMAIN t : IF j < i THEN Bucket[t[j].key] < Bucket[k]
                                      ELSE Bucket[t[j].key] >= Bucket[k]
    BY DEF k
  <1>12. Ordered(u)
    <2> SUFFICES ASSUME NEW j \in DOMAIN u, NEW m \in DOMAIN u, j < m
                 PROVE  u[j].key # u[m].key /\ Bucket[u[j].key] <= Bucket[u[m].key]
      BY <1>1 DEF Ordered
    <2>1. CASE j # i /\ m # i
      <3>1. /\ old(j) \in DOMAIN t /\ old(m) \in DOMAIN t /\ old(j) < old(m)
            /\ u[j] = t[old(j)] /\ u[m] = t[old(m)]
        BY <1>3, <1>5, <2>1
      <3> QED BY <3>1 DEF Ordered
    <2>2. CASE j = i
      <3>1. m # i /\ m > i
        BY <1>1, <2>2
      <3>2. old(m) \in DOMAIN t /\ ~(old(m) < i) /\ u[m] = t[old(m)]
        BY <1>3, <1>7, <3>1
      <3>3. Bucket[t[old(m)].key] >= Bucket[k]
        BY <1>11, <3>2
      <3> QED BY <1>2, <1>9, <1>10, <2>2, <3>2, <3>3 DEF k
    <2>3. CASE m = i
      <3>1. j # i /\ j < i
        BY <1>1, <2>3
      <3>2. old(j) \in DOMAIN t /\ old(j) < i /\ u[j] = t[old(j)]
        BY <1>3, <1>7, <3>1
      <3>3. Bucket[t[old(j)].key] < Bucket[k]
        BY <1>11, <3>2
      <3> QED BY <1>2, <1>9, <1>10, <2>3, <3>2, <3>3 DEF k
    <2> QED BY <2>1, <2>2, <2>3
  <1>13. k \in KeysOf(u)
    BY <1>2 DEF KeysOf, k
  <1>14. Keeps(t, u, k)
    <2>1. KeysOf(u) \ {k} = KeysOf(t) \ {k}
      <3>1. u[i].key = k
        BY <1>2 DEF k
      <3> QED BY <1>3, <1>4, <3>1 DEF KeysOf
    <2>2. ASSUME NEW a, NEW b, a # k, b # k, Before(t, a, b) PROVE Before(u, a, b)
      <3>1. PICK j \in DOMAIN t, m \in DOMAIN t : j < m /\ t[j].key = a /\ t[m].key = b
        BY <2>2 DEF Before
      <3> QED BY <1>4, <1>6, <3>1 DEF Before
    <2> QED BY <2>1, <2>2 DEF Keeps
  <1>15. ASSUME NEW b \in KeysOf(t), Bucket[b] >= Bucket[k] PROVE Before(u, k, b)
    <2>1. PICK j \in DOMAIN t : t[j].key = b
      BY DEF KeysOf
    <2>2. ~(j < i)
      <3>1. ~(Bucket[t[j].key] < Bucket[k])
        BY <1>9, <1>10, <1>15, <2>1
      <3> QED BY <1>11, <3>1
    <2>3. i < new(j) /\ new(j) \in DOMAIN u /\ u[new(j)].key = b /\ u[i].key = k
      BY <1>2, <1>4, <1>8, <2>1, <2>2 DEF k
    <2> QED BY <1>2, <2>3 DEF Before
  <1> QED BY <1>12, <1>13, <1>14, <1>15 DEF u, k

-----------------------------------------------------------------------------
(* The invariant *)

\* The rules a report may hold.
Listing == UNION {[D -> Nat] : D \in SUBSET Key}

Report == [at : {"idle", "next", "value", "pass", "drop", "redirect", "done"},
           cursor : Key \cup {NoKey}, count : 0 .. MaxEntries + 1,
           rules : Listing, counters : [Verdict -> Nat], since : Nat,
           kept : SUBSET Key]

Work == [at : {"idle", "load", "store", "count"}, elem : Elem \cup {{}}, reg : Nat]

DataInv ==
    /\ Ordered(table)
    /\ pkt \in [Elem -> Nat]
    /\ stat \in [CPU -> [Verdict -> Nat]]
    /\ cpu \in [CPU -> Work]
    /\ \A c \in CPU : cpu[c].at \in {"load", "store"} => cpu[c].elem \in Elem
    /\ packets \in 0 .. MaxPackets
    /\ reader \in Report

\* A CPU has counted, in its counters of st, no more packets than the n that came,
\* but for the one that it works on.
Share(st, work, n) ==
    \A c \in CPU :
        st[c]["pass"] + st[c]["drop"] + st[c]["redirect"]
            + (IF work[c].at = "idle" THEN 0 ELSE 1) <= n

ShareInv == Share(stat, cpu, packets)

\* The CPUs that work for a rule, and those that have yet to count a packet they
\* added to one.
InRule(work) == {c \in CPU : work[c].at \in {"load", "store"}}
InCount(work) == {c \in CPU : work[c].at = "count"}

\* No counter of a rule, in memory or in a register, is above n.
Held(memory, work, n) ==
    /\ \A e \in Elem : memory[e] <= n
    /\ \A c \in CPU : work[c].at = "store" => work[c].reg <= n

\* The packets counted by verdict v in the counters st.
CountOf(st, v) == Total([c \in CPU |-> st[c][v]])

\* Whatever elements changed hands, and whatever updates were lost, a rule has not
\* seen the packets that CPUs still work on, and no packet that neither was counted
\* by its verdict nor will be.
HeldInv ==
    /\ Held(pkt, cpu, packets - Cardinality(InRule(cpu)))
    /\ Held(pkt, cpu, CountOf(stat, "drop") + CountOf(stat, "redirect")
                        + Cardinality(InCount(cpu)))

\* Key k of table t is ahead of the iterator of report r, even if the cursor's key
\* is taken out and put back: it goes to its bucket's head.
Ahead(t, r, k) ==
    /\ r.cursor \in Key => Bucket[r.cursor] <= Bucket[k]
    /\ r.cursor \in KeysOf(t) => Before(t, r.cursor, k)

Order(t, r) ==
    /\ r.at \in {"next", "value"} =>
          /\ r.kept \subseteq KeysOf(t)
          /\ \A k \in r.kept \ DOMAIN r.rules :
                (r.at = "value" /\ k = r.cursor) \/ Ahead(t, r, k)
    /\ r.at = "pass" => r.kept \subseteq DOMAIN r.rules

OrderInv == Order(table, reader)

Below(rules, n) == \A k \in DOMAIN rules : rules[k] <= n

\* What a report r may say while pass, drop and redirect packets are counted: its
\* verdicts fit together with those that it has yet to read.
ReadOk(r, pass, drop, redirect) ==
    LET c == r.counters
        n == Cardinality(CPU)
    IN  /\ c["pass"] <= pass /\ c["drop"] <= drop /\ c["redirect"] <= redirect
        /\ r.at \in {"next", "value", "pass"} => r.since <= pass + drop + redirect
        /\ r.at = "drop" => r.since <= c["pass"] + drop + redirect
        /\ r.at = "redirect" => r.since <= c["pass"] + c["drop"] + redirect
        /\ r.at = "done" => r.since <= c["pass"] + c["drop"] + c["redirect"]
        /\ r.at \in {"next", "value", "pass", "drop"} =>
              Below(r.rules, drop + redirect + n)
        /\ r.at = "redirect" => Below(r.rules, c["drop"] + redirect + n)
        /\ r.at = "done" => Below(r.rules, c["drop"] + c["redirect"] + n)

ReadInv ==
    ReadOk(reader, CountOf(stat, "pass"), CountOf(stat, "drop"), CountOf(stat, "redirect"))

IInv == DataInv /\ ShareInv /\ HeldInv /\ OrderInv /\ ReadInv

-----------------------------------------------------------------------------
(* Counters *)

\* The three verdicts' sum.
LEMMA ThreeTotal ==
    ASSUME NEW f \in [Verdict -> Nat]
    PROVE  Total(f) = f["pass"] + f["drop"] + f["redirect"]
  <1> DEFINE F == Sums(f, Verdict)
  <1>1. IsFiniteSet(Verdict)
    <2>1. Verdict = (({} \cup {"pass"}) \cup {"drop"}) \cup {"redirect"}
      BY DEF Verdict
    <2>2. IsFiniteSet({} \cup {"pass"})
      BY FS_EmptySet, FS_AddElement
    <2>3. IsFiniteSet(({} \cup {"pass"}) \cup {"drop"})
      BY <2>2, FS_AddElement
    <2> QED BY <2>1, <2>3, FS_AddElement
  <1>2. Total(f) = F[Verdict]
    BY <1>1, TotalType
  <1>3. /\ Verdict \in SUBSET Verdict /\ {"drop", "redirect"} \in SUBSET Verdict
        /\ {"redirect"} \in SUBSET Verdict
    BY DEF Verdict
  <1>4. /\ Splits(f, Verdict, Verdict, "pass")
        /\ Splits(f, Verdict, {"drop", "redirect"}, "drop")
        /\ Splits(f, Verdict, {"redirect"}, "redirect")
    <2>1. "pass" \in Verdict /\ "drop" \in {"drop", "redirect"} /\ "redirect" \in {"redirect"}
      BY DEF Verdict
    <2> QED BY <1>1, <1>3, <2>1, SumsSplit
  <1>5. /\ Verdict \ {"pass"} = {"drop", "redirect"}
        /\ {"drop", "redirect"} \ {"drop"} = {"redirect"}
        /\ {"redirect"} \ {"redirect"} = {}
    BY DEF Verdict
  <1>6. F[{}] = 0
    BY <1>1, SumsType DEF AddOne
  <1>7. F[Verdict] = f["pass"] + F[{"drop", "redirect"}]
    BY <1>4, <1>5 DEF Splits
  <1>8. F[{"drop", "redirect"}] = f["drop"] + F[{"redirect"}]
    BY <1>4, <1>5 DEF Splits
  <1>9. F[{"redirect"}] = f["redirect"] + F[{}]
    BY <1>4, <1>5 DEF Splits
  <1> HIDE DEF F
  <1>10. f["pass"] \in Nat /\ f["drop"] \in Nat /\ f["redirect"] \in Nat
    BY DEF Verdict
  <1> QED BY <1>2, <1>6, <1>7, <1>8, <1>9, <1>10

LEMMA CountOfType ==
    ASSUME NEW st \in [CPU -> [Verdict -> Nat]], NEW v \in Verdict
    PROVE  CountOf(st, v) \in Nat
  <1>1. IsFiniteSet(CPU)
    BY MonitorAssumption
  <1>2. [c \in CPU |-> st[c][v]] \in [CPU -> Nat]
    OBVIOUS
  <1> QED BY <1>1, <1>2, TotalType DEF CountOf

\* CPU d counts a packet by verdict v.
Bumped(st, d, v) == [st EXCEPT ![d][v] = @ + 1]

LEMMA CountUp ==
    ASSUME NEW st \in [CPU -> [Verdict -> Nat]], NEW d \in CPU, NEW v \in Verdict
    PROVE  LET nw == Bumped(st, d, v)
           IN  /\ nw \in [CPU -> [Verdict -> Nat]]
               /\ CountOf(nw, v) = CountOf(st, v) + 1
               /\ \A w \in Verdict : w # v => CountOf(nw, w) = CountOf(st, w)
               /\ \A c \in CPU : c # d => nw[c] = st[c]
               /\ nw[d][v] = st[d][v] + 1
               /\ \A w \in Verdict : w # v => nw[d][w] = st[d][w]
  <1> DEFINE nw == Bumped(st, d, v)
  <1>0. IsFiniteSet(CPU)
    BY MonitorAssumption
  <1>1. /\ nw \in [CPU -> [Verdict -> Nat]]
        /\ \A c \in CPU : c # d => nw[c] = st[c]
        /\ nw[d][v] = st[d][v] + 1
        /\ \A w \in Verdict : w # v => nw[d][w] = st[d][w]
    BY DEF Bumped
  <1> HIDE DEF nw
  <1>2. CountOf(nw, v) = CountOf(st, v) + 1
    <2> DEFINE f == [c \in CPU |-> st[c][v]]
               h == [c \in CPU |-> nw[c][v]]
    <2>1. f \in [CPU -> Nat] /\ h \in [CPU -> Nat]
      BY <1>1
    <2>2. UpByOne(f, h, CPU, d)
      BY <1>1 DEF UpByOne
    <2> HIDE DEF f, h
    <2>3. Total(h) = Total(f) + 1
      BY <1>0, <2>1, <2>2, TotalUp
    <2> QED BY <2>3 DEF CountOf, f, h
  <1>3. ASSUME NEW w \in Verdict, w # v PROVE CountOf(nw, w) = CountOf(st, w)
    <2>1. [c \in CPU |-> st[c][w]] = [c \in CPU |-> nw[c][w]]
      BY <1>1, <1>3
    <2> QED BY <2>1 DEF CountOf
  <1> QED BY <1>1, <1>2, <1>3 DEF nw

LEMMA CountedIs == \A v : Counted(v) = CountOf(stat, v)
  BY Zenon DEF Counted, CountOf, Total

\* The packets counted, by verdict.
LEMMA CountedType ==
    ASSUME stat \in [CPU -> [Verdict -> Nat]]
    PROVE  /\ Counted("pass") \in Nat /\ Counted("drop") \in Nat
           /\ Counted("redirect") \in Nat
           /\ AllCounted = Counted("pass") + Counted("drop") + Counted("redirect")
  <1>1. \A v \in Verdict : Counted(v) \in Nat
    BY CountedIs, CountOfType
  <1> DEFINE f == [v \in Verdict |-> Counted(v)]
  <1>2. f \in [Verdict -> Nat]
    BY <1>1
  <1>3. f["pass"] = Counted("pass") /\ f["drop"] = Counted("drop")
        /\ f["redirect"] = Counted("redirect")
    BY DEF Verdict
  <1>4. AllCounted = Total(f)
    BY Zenon DEF AllCounted, Total
  <1> HIDE DEF f
  <1>5. AllCounted = f["pass"] + f["drop"] + f["redirect"]
    BY <1>2, <1>4, ThreeTotal
  <1> QED BY <1>1, <1>3, <1>5 DEF Verdict

-----------------------------------------------------------------------------
(* Reports *)

LEMMA ListingIs ==
    ASSUME NEW f \in Listing
    PROVE  DOMAIN f \subseteq Key /\ \A k \in DOMAIN f : f[k] \in Nat
  <1>1. PICK D \in SUBSET Key : f \in [D -> Nat]
    BY Zenon DEF Listing
  <1> QED BY <1>1

\* Listing g is f with n for key k.
Adds(g, f, k, n) ==
    /\ g \in Listing /\ DOMAIN g = DOMAIN f \cup {k}
    /\ g[k] = n /\ \A l \in DOMAIN g : l # k => g[l] = f[l]

\* A rule is put into a report.
LEMMA ListingWith ==
    ASSUME NEW f \in Listing, NEW k \in Key, NEW n \in Nat
    PROVE  Adds(Listed(f, k, n), f, k, n)
  <1> DEFINE g == Listed(f, k, n)
  <1>1. DOMAIN f \subseteq Key /\ \A l \in DOMAIN f : f[l] \in Nat
    BY ListingIs
  <1>2. g = [l \in DOMAIN f \cup {k} |-> IF l = k THEN n ELSE f[l]]
    BY DEF Listed
  <1>3. g \in [DOMAIN f \cup {k} -> Nat]
    BY <1>1, <1>2
  <1>4. DOMAIN f \cup {k} \in SUBSET Key
    BY <1>1
  <1>5. g \in Listing
    BY <1>3, <1>4, Zenon DEF Listing
  <1>6. DOMAIN g = DOMAIN f \cup {k} /\ g[k] = n
    BY <1>2
  <1>7. \A l \in DOMAIN g : l # k => g[l] = f[l]
    BY <1>2
  <1> HIDE DEF g
  <1>8. Adds(g, f, k, n)
    BY <1>5, <1>6, <1>7, Zenon DEF Adds
  <1> QED BY <1>8 DEF g

LEMMA BelowUp ==
    ASSUME NEW f \in Listing, NEW n \in Nat, NEW m \in Nat, n <= m, Below(f, n)
    PROVE  Below(f, m)
  <1>1. \A k \in DOMAIN f : f[k] \in Nat
    BY ListingIs
  <1> QED BY <1>1 DEF Below

LEMMA ProcessorCount == Cardinality(CPU) \in Nat
  BY MonitorAssumption, FS_CardinalityType

LEMMA ReportIs ==
    ASSUME NEW r \in Report
    PROVE  /\ r.rules \in Listing /\ r.since \in Nat
           /\ r.counters["pass"] \in Nat /\ r.counters["drop"] \in Nat
           /\ r.counters["redirect"] \in Nat
  BY DEF Report, Verdict

\* A report stays good while packets are counted.
LEMMA ReadUp ==
    ASSUME NEW r \in Report, NEW q, q.at = r.at, q.since = r.since,
           q.counters = r.counters, q.rules = r.rules,
           NEW p \in Nat, NEW d \in Nat, NEW x \in Nat,
           NEW p2 \in Nat, NEW d2 \in Nat, NEW x2 \in Nat,
           p <= p2, d <= d2, x <= x2, ReadOk(r, p, d, x)
    PROVE  ReadOk(q, p2, d2, x2)
  <1> DEFINE n == Cardinality(CPU)
             a == r.counters["pass"]
             b == r.counters["drop"]
             c == r.counters["redirect"]
  <1>1. n \in Nat
    BY ProcessorCount
  <1>2. r.rules \in Listing /\ r.since \in Nat /\ a \in Nat /\ b \in Nat /\ c \in Nat
    BY ReportIs
  <1> HIDE DEF n, a, b, c
  <1>3. /\ d + x + n \in Nat /\ d2 + x2 + n \in Nat /\ d + x + n <= d2 + x2 + n
        /\ b + x + n \in Nat /\ b + x2 + n \in Nat /\ b + x + n <= b + x2 + n
    BY <1>1, <1>2
  <1>4. /\ Below(r.rules, d + x + n) => Below(r.rules, d2 + x2 + n)
        /\ Below(r.rules, b + x + n) => Below(r.rules, b + x2 + n)
    BY <1>2, <1>3, BelowUp
  <1>5. /\ a <= p /\ b <= d /\ c <= x
        /\ r.at \in {"next", "value", "pass"} => r.since <= p + d + x
        /\ r.at = "drop" => r.since <= a + d + x
        /\ r.at = "redirect" => r.since <= a + b + x
        /\ r.at = "done" => r.since <= a + b + c
        /\ r.at \in {"next", "value", "pass", "drop"} => Below(r.rules, d + x + n)
        /\ r.at = "redirect" => Below(r.rules, b + x + n)
        /\ r.at = "done" => Below(r.rules, b + c + n)
    BY Zenon DEF ReadOk, a, b, c, n
  <1>6. /\ a <= p2 /\ b <= d2 /\ c <= x2
        /\ r.at \in {"next", "value", "pass"} => r.since <= p2 + d2 + x2
        /\ r.at = "drop" => r.since <= a + d2 + x2
        /\ r.at = "redirect" => r.since <= a + b + x2
    BY <1>2, <1>5
  <1> QED BY <1>4, <1>5, <1>6, Zenon DEF ReadOk, a, b, c, n

-----------------------------------------------------------------------------
(* XDP *)

LEMMA SubsetCount ==
    ASSUME NEW S \in SUBSET CPU
    PROVE  /\ IsFiniteSet(S) /\ Cardinality(S) \in Nat
           /\ Cardinality(S) <= Cardinality(CPU)
  BY MonitorAssumption, FS_Subset, FS_CardinalityType

\* CPU c goes on to work x.
Working(w, c, x) == [w EXCEPT ![c] = x]

Ruling(x) == x.at \in {"load", "store"}

\* The size of T against that of S: one was or was not in S, and is or is not in T.
Moved(S, T, was, is) ==
    /\ was /\ is => Cardinality(T) = Cardinality(S)
    /\ was /\ ~is => Cardinality(T) = Cardinality(S) - 1
    /\ ~was /\ is => Cardinality(T) = Cardinality(S) + 1
    /\ ~was /\ ~is => Cardinality(T) = Cardinality(S)

Worked(w, u, c, x) ==
    /\ u \in [CPU -> Work] /\ u[c] = x /\ \A b \in CPU : b # c => u[b] = w[b]
    /\ Moved(InRule(w), InRule(u), Ruling(w[c]), Ruling(x))
    /\ Moved(InCount(w), InCount(u), w[c].at = "count", x.at = "count")

LEMMA WorkStep ==
    ASSUME NEW w \in [CPU -> Work], NEW c \in CPU, NEW x \in Work
    PROVE  Worked(w, Working(w, c, x), c, x)
  <1> DEFINE u == Working(w, c, x)
  <1>1. u \in [CPU -> Work] /\ u[c] = x /\ \A b \in CPU : b # c => u[b] = w[b]
    BY DEF Working
  <1> HIDE DEF u
  <1>2. IsFiniteSet(InRule(w)) /\ IsFiniteSet(InCount(w))
    <2>1. InRule(w) \in SUBSET CPU /\ InCount(w) \in SUBSET CPU
      BY DEF InRule, InCount
    <2> QED BY <2>1, SubsetCount
  <1>3. InRule(u) = IF x.at \in {"load", "store"} THEN InRule(w) \cup {c}
                                                  ELSE InRule(w) \ {c}
    BY <1>1 DEF InRule
  <1>4. InCount(u) = IF x.at = "count" THEN InCount(w) \cup {c} ELSE InCount(w) \ {c}
    BY <1>1 DEF InCount
  <1>5. /\ c \in InRule(w) <=> w[c].at \in {"load", "store"}
        /\ c \in InCount(w) <=> w[c].at = "count"
    BY DEF InRule, InCount
  <1>6. /\ Cardinality(InRule(w) \cup {c}) =
             IF c \in InRule(w) THEN Cardinality(InRule(w)) ELSE Cardinality(InRule(w)) + 1
        /\ Cardinality(InRule(w) \ {c}) =
             IF c \in InRule(w) THEN Cardinality(InRule(w)) - 1 ELSE Cardinality(InRule(w))
    BY <1>2, FS_AddElement, FS_RemoveElement
  <1>7. /\ Cardinality(InCount(w) \cup {c}) =
             IF c \in InCount(w) THEN Cardinality(InCount(w)) ELSE Cardinality(InCount(w)) + 1
        /\ Cardinality(InCount(w) \ {c}) =
             IF c \in InCount(w) THEN Cardinality(InCount(w)) - 1 ELSE Cardinality(InCount(w))
    BY <1>2, FS_AddElement, FS_RemoveElement
  <1>8. Moved(InRule(w), InRule(u), Ruling(w[c]), Ruling(x))
    BY <1>3, <1>5, <1>6, Zenon DEF Moved, Ruling
  <1>9. Moved(InCount(w), InCount(u), w[c].at = "count", x.at = "count")
    BY <1>4, <1>5, <1>7, Zenon DEF Moved
  <1> QED BY <1>1, <1>8, <1>9, Zenon DEF u, Worked

LEMMA InWork ==
    ASSUME NEW w \in [CPU -> Work]
    PROVE  /\ Cardinality(InRule(w)) \in Nat /\ Cardinality(InCount(w)) \in Nat
           /\ Cardinality(InCount(w)) <= Cardinality(CPU)
  <1>1. InRule(w) \in SUBSET CPU /\ InCount(w) \in SUBSET CPU
    BY DEF InRule, InCount
  <1> QED BY <1>1, SubsetCount

\* What is in memory after a step that writes f, cleared where nothing leads to.
LEMMA MemoryIs ==
    ASSUME NEW f \in [Elem -> Nat], Memory(f)
    PROVE  pkt' \in [Elem -> Nat] /\ \A e \in Elem : pkt'[e] <= f[e]
  BY DEF Memory

\* No counter and no register is higher than before and than n.
NoHigher(m, w, m2, w2, n) ==
    /\ \A e \in Elem : m2[e] <= m[e] \/ m2[e] <= n
    /\ \A c \in CPU : w2[c].at = "store" =>
                         (w[c].at = "store" /\ w2[c].reg = w[c].reg) \/ w2[c].reg <= n

LEMMA HeldUp ==
    ASSUME NEW m \in [Elem -> Nat], NEW w \in [CPU -> Work],
           NEW m2 \in [Elem -> Nat], NEW w2 \in [CPU -> Work],
           NEW n \in Int, NEW n2 \in Int, Held(m, w, n), n <= n2,
           NoHigher(m, w, m2, w2, n2)
    PROVE  Held(m2, w2, n2)
  <1>1. \A c \in CPU : w[c].reg \in Nat /\ w2[c].reg \in Nat
    BY DEF Work
  <1>2. ASSUME NEW e \in Elem PROVE m2[e] <= n2
    <2>1. m[e] \in Nat /\ m2[e] \in Nat /\ m[e] <= n
      BY DEF Held
    <2> QED BY <2>1 DEF NoHigher
  <1>3. ASSUME NEW c \in CPU, w2[c].at = "store" PROVE w2[c].reg <= n2
    <2>1. w[c].at = "store" => w[c].reg <= n
      BY DEF Held
    <2> QED BY <1>1, <1>3, <2>1 DEF NoHigher
  <1> QED BY <1>2, <1>3 DEF Held

\* A packet is counted by verdict v on CPU c: the verdicts' counters.
LEMMA Counting ==
    ASSUME NEW st \in [CPU -> [Verdict -> Nat]], NEW c \in CPU, NEW v \in Verdict
    PROVE  LET u == Bumped(st, c, v)
           IN  /\ u \in [CPU -> [Verdict -> Nat]]
               /\ \A w \in Verdict : CountOf(st, w) <= CountOf(u, w)
               /\ CountOf(u, "drop") + CountOf(u, "redirect") =
                     CountOf(st, "drop") + CountOf(st, "redirect")
                        + (IF v = "pass" THEN 0 ELSE 1)
               /\ \A b \in CPU : b # c => u[b] = st[b]
               /\ u[c]["pass"] + u[c]["drop"] + u[c]["redirect"] =
                     st[c]["pass"] + st[c]["drop"] + st[c]["redirect"] + 1
  <1> DEFINE u == Bumped(st, c, v)
  <1>1. /\ u \in [CPU -> [Verdict -> Nat]]
        /\ CountOf(u, v) = CountOf(st, v) + 1
        /\ \A w \in Verdict : w # v => CountOf(u, w) = CountOf(st, w)
        /\ \A b \in CPU : b # c => u[b] = st[b]
        /\ u[c][v] = st[c][v] + 1
        /\ \A w \in Verdict : w # v => u[c][w] = st[c][w]
    BY CountUp
  <1> HIDE DEF u
  <1>2. /\ \A w \in Verdict : CountOf(st, w) \in Nat
        /\ "pass" \in Verdict /\ "drop" \in Verdict /\ "redirect" \in Verdict
    BY CountOfType DEF Verdict
  <1>3. \A w \in Verdict : st[c][w] \in Nat
    OBVIOUS
  <1>4. \A w \in Verdict : CountOf(st, w) <= CountOf(u, w)
    BY <1>1, <1>2
  <1>5. v = "pass" \/ v = "drop" \/ v = "redirect"
    BY DEF Verdict
  <1>6. CountOf(u, "drop") + CountOf(u, "redirect") =
            CountOf(st, "drop") + CountOf(st, "redirect") + (IF v = "pass" THEN 0 ELSE 1)
    <2>1. CASE v = "pass"
      BY <1>1, <1>2, <2>1
    <2>2. CASE v = "drop"
      BY <1>1, <1>2, <2>2
    <2>3. CASE v = "redirect"
      BY <1>1, <1>2, <2>3
    <2> QED BY <1>5, <2>1, <2>2, <2>3
  <1>7. u[c]["pass"] + u[c]["drop"] + u[c]["redirect"] =
            st[c]["pass"] + st[c]["drop"] + st[c]["redirect"] + 1
    BY <1>1, <1>2, <1>3, <1>5
  <1> QED BY <1>1, <1>4, <1>6, <1>7 DEF u

\* What a CPU's share comes to.
LEMMA ShareNat ==
    ASSUME NEW st \in [CPU -> [Verdict -> Nat]], NEW c \in CPU
    PROVE  st[c]["pass"] + st[c]["drop"] + st[c]["redirect"] \in Nat
  BY DEF Verdict

LEMMA arriveInv ==
    ASSUME IInv, NEW c \in CPU, Arrive(c)
    PROVE  IInv'
  <1>1. /\ Ordered(table) /\ pkt \in [Elem -> Nat] /\ stat \in [CPU -> [Verdict -> Nat]]
        /\ cpu \in [CPU -> Work] /\ reader \in Report
        /\ \A b \in CPU : cpu[b].at \in {"load", "store"} => cpu[b].elem \in Elem
    BY Zenon DEF IInv, DataInv
  <1>2. /\ packets \in Nat /\ packets' \in 0 .. MaxPackets /\ packets' = packets + 1
    BY MonitorAssumption DEF IInv, DataInv, Arrive
  <1>3. table' = table /\ pkt' = pkt /\ reader' = reader /\ cpu[c] = Idle
    BY Zenon DEF Arrive
  <1>4. cpu[c].at = "idle"
    BY <1>3 DEF Idle, Doing
  <1>5. OrderInv'
    BY <1>3, Zenon DEF IInv, OrderInv
  <1> DEFINE R == Cardinality(InRule(cpu))
             N == Cardinality(InCount(cpu))
             D == CountOf(stat, "drop") + CountOf(stat, "redirect")
  <1>6. R \in Nat /\ N \in Nat
    BY <1>1, InWork
  <1>7. D \in Nat
    <2>1. CountOf(stat, "drop") \in Nat /\ CountOf(stat, "redirect") \in Nat
      BY <1>1, CountOfType DEF Verdict
    <2> QED BY <2>1
  <1>8. Held(pkt, cpu, packets - R) /\ Held(pkt, cpu, D + N)
    BY Zenon DEF IInv, HeldInv
  <1>9. \A e \in Elem : pkt'[e] <= pkt[e]
    BY <1>1, <1>3
  <1>10. CASE /\ stat' = stat
              /\ \E i \in DOMAIN table :
                    cpu' = [cpu EXCEPT ![c] = Doing("load", table[i].elem, 0)]
    <2>1. PICK i \in DOMAIN table :
                    cpu' = [cpu EXCEPT ![c] = Doing("load", table[i].elem, 0)]
      BY <1>10
    <2> DEFINE x == Doing("load", table[i].elem, 0)
    <2>2. table[i].elem \in Elem
      <3>1. table[i] \in Entry
        BY <1>1 DEF Ordered
      <3> QED BY <3>1 DEF Entry
    <2>3. x \in Work /\ x.at = "load" /\ x.elem \in Elem
      BY <2>2 DEF Work, Doing
    <2>4. cpu' = Working(cpu, c, x)
      BY <2>1, Zenon DEF Working
    <2> HIDE DEF x
    <2>5. /\ cpu' \in [CPU -> Work] /\ cpu'[c] = x /\ \A b \in CPU : b # c => cpu'[b] = cpu[b]
          /\ Cardinality(InRule(cpu')) = R + 1
          /\ Cardinality(InCount(cpu')) = N
      <3>1. ~Ruling(cpu[c]) /\ cpu[c].at # "count" /\ Ruling(x) /\ x.at # "count"
        BY <1>4, <2>3 DEF Ruling
      <3>2. Worked(cpu, cpu', c, x)
        BY <1>1, <2>3, <2>4, WorkStep
      <3> QED BY <3>1, <3>2, Zenon DEF Moved, Worked
    <2>6. DataInv'
      <3>1. \A b \in CPU : cpu'[b].at \in {"load", "store"} => cpu'[b].elem \in Elem
        BY <1>1, <2>3, <2>5
      <3> QED BY <1>1, <1>2, <1>3, <1>10, <2>5, <3>1 DEF DataInv
    <2>7. ShareInv'
      <3> SUFFICES ASSUME NEW b \in CPU
                   PROVE  stat[b]["pass"] + stat[b]["drop"] + stat[b]["redirect"]
                            + (IF cpu'[b].at = "idle" THEN 0 ELSE 1) <= packets + 1
        BY <1>2, <1>10 DEF ShareInv, Share
      <3>1. stat[b]["pass"] + stat[b]["drop"] + stat[b]["redirect"]
                + (IF cpu[b].at = "idle" THEN 0 ELSE 1) <= packets
        BY DEF IInv, ShareInv, Share
      <3> DEFINE z == stat[b]["pass"] + stat[b]["drop"] + stat[b]["redirect"]
      <3>2. z \in Nat
        BY <1>1, ShareNat
      <3> HIDE DEF z
      <3>3. z + (IF cpu[b].at = "idle" THEN 0 ELSE 1) <= packets
        BY <3>1 DEF z
      <3>4. z + (IF cpu'[b].at = "idle" THEN 0 ELSE 1) <= packets + 1
        BY <1>2, <3>2, <3>3
      <3> QED BY <3>4 DEF z
    <2>8. HeldInv'
      <3>1. packets' - Cardinality(InRule(cpu')) = packets - R /\ packets - R \in Int
        BY <1>2, <1>6, <2>5
      <3>2. \A b \in CPU : cpu'[b].at = "store" =>
               cpu[b].at = "store" /\ cpu'[b].reg = cpu[b].reg
        BY <2>3, <2>5
      <3>5. NoHigher(pkt, cpu, pkt', cpu', packets - R) /\ NoHigher(pkt, cpu, pkt', cpu', D + N)
        BY <1>9, <3>2, Zenon DEF NoHigher
      <3>6. pkt' \in [Elem -> Nat] /\ D + N \in Int /\ D + N <= D + N /\ packets - R <= packets - R
        BY <1>1, <1>3, <1>6, <1>7, <3>1
      <3> HIDE DEF R, D, N
      <3>3. Held(pkt', cpu', packets - R)
        BY <1>1, <1>8, <2>5, <3>1, <3>5, <3>6, HeldUp
      <3>4. Held(pkt', cpu', D + N)
        BY <1>1, <1>8, <2>5, <3>5, <3>6, HeldUp
      <3> QED BY <1>10, <2>5, <3>1, <3>3, <3>4 DEF HeldInv, D
    <2>9. ReadInv'
      BY <1>3, <1>10, Zenon DEF IInv, ReadInv
    <2> QED BY <1>5, <2>6, <2>7, <2>8, <2>9 DEF IInv
  <1>11. CASE /\ cpu' = cpu
              /\ \E v \in {"pass", "drop"} : stat' = [stat EXCEPT ![c][v] = @ + 1]
    <2>1. PICK v \in {"pass", "drop"} : stat' = [stat EXCEPT ![c][v] = @ + 1]
      BY <1>11
    <2>2. v \in Verdict
      BY DEF Verdict
    <2>3. /\ stat' \in [CPU -> [Verdict -> Nat]]
          /\ \A w \in Verdict : CountOf(stat, w) <= CountOf(stat', w)
          /\ CountOf(stat', "drop") + CountOf(stat', "redirect") =
                D + (IF v = "pass" THEN 0 ELSE 1)
          /\ \A b \in CPU : b # c => stat'[b] = stat[b]
          /\ stat'[c]["pass"] + stat'[c]["drop"] + stat'[c]["redirect"] =
                stat[c]["pass"] + stat[c]["drop"] + stat[c]["redirect"] + 1
      <3>1. stat' = Bumped(stat, c, v)
        BY <2>1, Zenon DEF Bumped
      <3> QED BY <1>1, <2>2, <3>1, Counting
    <2>4. DataInv'
      BY <1>1, <1>2, <1>3, <1>11, <2>3 DEF DataInv
    <2>5. ShareInv'
      <3> SUFFICES ASSUME NEW b \in CPU
                   PROVE  stat'[b]["pass"] + stat'[b]["drop"] + stat'[b]["redirect"]
                            + (IF cpu[b].at = "idle" THEN 0 ELSE 1) <= packets + 1
        BY <1>2, <1>11 DEF ShareInv, Share
      <3>1. stat[b]["pass"] + stat[b]["drop"] + stat[b]["redirect"]
                + (IF cpu[b].at = "idle" THEN 0 ELSE 1) <= packets
        BY DEF IInv, ShareInv, Share
      <3> DEFINE z == stat[b]["pass"] + stat[b]["drop"] + stat[b]["redirect"]
                 y == stat'[b]["pass"] + stat'[b]["drop"] + stat'[b]["redirect"]
      <3>2. z \in Nat /\ y \in Nat
        BY <1>1, <2>3, ShareNat
      <3>3. b # c => y = z
        BY <2>3
      <3>4. b = c => y = z + 1 /\ cpu[b].at = "idle"
        BY <1>4, <2>3
      <3> HIDE DEF z, y
      <3>5. z + (IF cpu[b].at = "idle" THEN 0 ELSE 1) <= packets
        BY <3>1 DEF z
      <3>6. y + (IF cpu[b].at = "idle" THEN 0 ELSE 1) <= packets + 1
        BY <1>2, <3>2, <3>3, <3>4, <3>5
      <3> QED BY <3>6 DEF y
    <2>6. HeldInv'
      <3> DEFINE D2 == CountOf(stat', "drop") + CountOf(stat', "redirect")
      <3>1. D2 \in Nat /\ D <= D2
        BY <1>7, <2>3
      <3> HIDE DEF D2, D
      <3>2. /\ packets - R \in Int /\ (packets + 1) - R \in Int
            /\ packets - R <= (packets + 1) - R
            /\ D + N \in Int /\ D2 + N \in Int /\ D + N <= D2 + N
        BY <1>2, <1>6, <1>7, <3>1
      <3>5. \A n : NoHigher(pkt, cpu, pkt, cpu, n)
        BY <1>3, <1>9, Zenon DEF NoHigher
      <3>3. Held(pkt, cpu, (packets + 1) - R)
        <4> DEFINE n == packets - R
                   n2 == (packets + 1) - R
        <4>1. n \in Int /\ n2 \in Int /\ n <= n2 /\ Held(pkt, cpu, n)
          BY <1>8, <3>2
        <4> HIDE DEF n, n2
        <4>2. Held(pkt, cpu, n2)
          BY <1>1, <3>5, <4>1, HeldUp
        <4> QED BY <4>2 DEF n2
      <3>4. Held(pkt, cpu, D2 + N)
        BY <1>1, <1>8, <3>2, <3>5, HeldUp
      <3> QED BY <1>2, <1>3, <1>11, <3>3, <3>4, Zenon DEF HeldInv, D2
    <2>7. ReadInv'
      <3>1. \A w \in Verdict : CountOf(stat, w) \in Nat /\ CountOf(stat', w) \in Nat
        BY <1>1, <2>3, CountOfType
      <3>2. ReadOk(reader, CountOf(stat, "pass"), CountOf(stat, "drop"),
                   CountOf(stat, "redirect"))
        BY Zenon DEF IInv, ReadInv
      <3>3. "pass" \in Verdict /\ "drop" \in Verdict /\ "redirect" \in Verdict
        BY DEF Verdict
      <3>4. ReadOk(reader, CountOf(stat', "pass"), CountOf(stat', "drop"),
                   CountOf(stat', "redirect"))
        BY <1>1, <2>3, <3>1, <3>2, <3>3, ReadUp
      <3> QED BY <1>3, <3>4, Zenon DEF ReadInv
    <2> QED BY <1>5, <2>4, <2>5, <2>6, <2>7 DEF IInv
  <1> QED BY <1>10, <1>11, Zenon DEF Arrive, Count

\* CPU c goes from work for its packet to more of it.
LEMMA ShareWork ==
    ASSUME NEW st \in [CPU -> [Verdict -> Nat]], NEW w \in [CPU -> Work],
           NEW c \in CPU, NEW x \in Work, NEW u, NEW n \in Nat,
           Share(st, w, n), Worked(w, u, c, x), w[c].at # "idle", x.at # "idle"
    PROVE  Share(st, u, n)
  <1> SUFFICES ASSUME NEW b \in CPU
               PROVE  st[b]["pass"] + st[b]["drop"] + st[b]["redirect"]
                        + (IF u[b].at = "idle" THEN 0 ELSE 1) <= n
    BY DEF Share
  <1>1. st[b]["pass"] + st[b]["drop"] + st[b]["redirect"]
            + (IF w[b].at = "idle" THEN 0 ELSE 1) <= n
    BY DEF Share
  <1>2. (u[b].at = "idle") <=> (w[b].at = "idle")
    <2>1. CASE b = c
      BY <2>1 DEF Worked
    <2>2. CASE b # c
      BY <2>2 DEF Worked
    <2> QED BY <2>1, <2>2
  <1> QED BY <1>1, <1>2

LEMMA bumpRuleInv ==
    ASSUME IInv, NEW c \in CPU, bump_rule(c)
    PROVE  IInv'
  <1>1. /\ Ordered(table) /\ pkt \in [Elem -> Nat] /\ stat \in [CPU -> [Verdict -> Nat]]
        /\ cpu \in [CPU -> Work] /\ reader \in Report
        /\ \A b \in CPU : cpu[b].at \in {"load", "store"} => cpu[b].elem \in Elem
    BY Zenon DEF IInv, DataInv
  <1>2. packets \in 0 .. MaxPackets /\ packets \in Nat
    BY MonitorAssumption DEF IInv, DataInv
  <1>3. table' = table /\ stat' = stat /\ packets' = packets /\ reader' = reader
    BY Zenon DEF bump_rule
  <1>4. OrderInv' /\ ReadInv'
    BY <1>3, Zenon DEF IInv, OrderInv, ReadInv
  <1> DEFINE R == Cardinality(InRule(cpu))
             N == Cardinality(InCount(cpu))
             D == CountOf(stat, "drop") + CountOf(stat, "redirect")
  <1>5. R \in Nat /\ N \in Nat
    BY <1>1, InWork
  <1>6. D \in Nat
    <2>1. CountOf(stat, "drop") \in Nat /\ CountOf(stat, "redirect") \in Nat
      BY <1>1, CountOfType DEF Verdict
    <2> QED BY <2>1
  <1>7. Held(pkt, cpu, packets - R) /\ Held(pkt, cpu, D + N)
    BY Zenon DEF IInv, HeldInv
  <1>8. packets - R \in Int /\ D + N \in Int
    BY <1>2, <1>5, <1>6
  <1>9. Share(stat, cpu, packets)
    BY Zenon DEF IInv, ShareInv
  <1>10. CASE /\ cpu[c].at = "load" /\ pkt' = pkt
              /\ cpu' = [cpu EXCEPT ![c] = Doing("store", @.elem, pkt[@.elem])]
    <2> DEFINE x == Doing("store", cpu[c].elem, pkt[cpu[c].elem])
    <2>1. cpu[c].elem \in Elem /\ pkt[cpu[c].elem] \in Nat
      BY <1>1, <1>10
    <2>2. x \in Work /\ x.at = "store" /\ x.elem \in Elem /\ x.reg = pkt[cpu[c].elem]
      BY <2>1 DEF Work, Doing
    <2>3. cpu' = Working(cpu, c, x)
      BY <1>10, Zenon DEF Working
    <2> HIDE DEF x
    <2>4. Worked(cpu, cpu', c, x)
      BY <1>1, <2>2, <2>3, WorkStep
    <2>5. /\ cpu' \in [CPU -> Work] /\ cpu'[c] = x
          /\ \A b \in CPU : b # c => cpu'[b] = cpu[b]
          /\ Cardinality(InRule(cpu')) = R /\ Cardinality(InCount(cpu')) = N
      <3>1. Ruling(cpu[c]) /\ Ruling(x) /\ cpu[c].at # "count" /\ x.at # "count"
        BY <1>10, <2>2 DEF Ruling
      <3> QED BY <2>4, <3>1, Zenon DEF Moved, Worked
    <2>6. DataInv'
      <3>1. \A b \in CPU : cpu'[b].at \in {"load", "store"} => cpu'[b].elem \in Elem
        BY <1>1, <2>2, <2>5
      <3> QED BY <1>1, <1>2, <1>3, <1>10, <2>5, <3>1 DEF DataInv
    <2>7. ShareInv'
      <3>1. cpu[c].at # "idle" /\ x.at # "idle"
        BY <1>10, <2>2
      <3>2. Share(stat, cpu', packets)
        BY <1>1, <1>2, <1>9, <2>2, <2>4, <3>1, ShareWork
      <3> QED BY <1>3, <3>2, Zenon DEF ShareInv
    <2>8. HeldInv'
      <3>1. ASSUME NEW n \in Int, Held(pkt, cpu, n) PROVE Held(pkt, cpu', n)
        <4>1. pkt[cpu[c].elem] <= n
          BY <2>1, <3>1 DEF Held
        <4>2. \A e \in Elem : pkt[e] <= pkt[e]
          BY <1>1
        <4>3. \A b \in CPU : cpu'[b].at = "store" =>
                 (cpu[b].at = "store" /\ cpu'[b].reg = cpu[b].reg) \/ cpu'[b].reg <= n
          BY <2>2, <2>5, <4>1
        <4>4. NoHigher(pkt, cpu, pkt, cpu', n)
          BY <4>2, <4>3, Zenon DEF NoHigher
        <4>5. n <= n
          BY <3>1
        <4> QED BY <1>1, <2>5, <3>1, <4>4, <4>5, HeldUp
      <3>2. Held(pkt, cpu', packets - R) /\ Held(pkt, cpu', D + N)
        BY <1>7, <1>8, <3>1
      <3> QED BY <1>3, <1>10, <2>5, <3>2, Zenon DEF HeldInv
    <2> QED BY <1>4, <2>6, <2>7, <2>8 DEF IInv
  <1>11. CASE /\ cpu[c].at = "store"
              /\ cpu' = [cpu EXCEPT ![c] = Doing("count", {}, 0)]
              /\ Memory([pkt EXCEPT ![cpu[c].elem] = cpu[c].reg + 1])
    <2> DEFINE x == Doing("count", {}, 0)
               f == [pkt EXCEPT ![cpu[c].elem] = cpu[c].reg + 1]
    <2>1. cpu[c].elem \in Elem /\ cpu[c].reg \in Nat
      <3>1. cpu[c] \in Work
        BY <1>1
      <3> QED BY <1>1, <1>11, <3>1 DEF Work
    <2>2. x \in Work /\ x.at = "count"
      BY DEF Work, Doing
    <2>3. cpu' = Working(cpu, c, x)
      BY <1>11, Zenon DEF Working
    <2> HIDE DEF x
    <2>4. Worked(cpu, cpu', c, x)
      BY <1>1, <2>2, <2>3, WorkStep
    <2>5. /\ cpu' \in [CPU -> Work] /\ cpu'[c] = x
          /\ \A b \in CPU : b # c => cpu'[b] = cpu[b]
          /\ Cardinality(InRule(cpu')) = R - 1 /\ Cardinality(InCount(cpu')) = N + 1
      <3>1. Ruling(cpu[c]) /\ ~Ruling(x) /\ cpu[c].at # "count" /\ x.at = "count"
        BY <1>11, <2>2 DEF Ruling
      <3> QED BY <2>4, <3>1, Zenon DEF Moved, Worked
    <2>6. f \in [Elem -> Nat] /\ \A e \in Elem : f[e] = pkt[e] \/ f[e] = cpu[c].reg + 1
      BY <1>1, <2>1
    <2>7. pkt' \in [Elem -> Nat] /\ \A e \in Elem : pkt'[e] <= f[e]
      BY <1>11, <2>6, MemoryIs
    <2> HIDE DEF f
    <2>8. DataInv'
      <3>1. \A b \in CPU : cpu'[b].at \in {"load", "store"} => cpu'[b].elem \in Elem
        BY <1>1, <2>2, <2>5
      <3> QED BY <1>1, <1>2, <1>3, <2>5, <2>7, <3>1 DEF DataInv
    <2>9. ShareInv'
      <3>1. cpu[c].at # "idle" /\ x.at # "idle"
        BY <1>11, <2>2
      <3>2. Share(stat, cpu', packets)
        BY <1>1, <1>2, <1>9, <2>2, <2>4, <3>1, ShareWork
      <3> QED BY <1>3, <3>2, Zenon DEF ShareInv
    <2>10. HeldInv'
      <3>1. ASSUME NEW n \in Int, NEW n2 \in Int, n2 = n + 1, Held(pkt, cpu, n)
            PROVE  Held(pkt', cpu', n2)
        <4>1. cpu[c].reg <= n
          BY <1>11, <3>1 DEF Held
        <4>2. ASSUME NEW e \in Elem PROVE pkt'[e] <= pkt[e] \/ pkt'[e] <= n2
          <5>1. pkt[e] \in Nat /\ pkt'[e] \in Nat /\ f[e] \in Nat /\ pkt'[e] <= f[e]
                /\ (f[e] = pkt[e] \/ f[e] = cpu[c].reg + 1)
            BY <1>1, <2>6, <2>7
          <5> QED BY <2>1, <3>1, <4>1, <5>1
        <4>3. \A b \in CPU : cpu'[b].at = "store" =>
                 cpu[b].at = "store" /\ cpu'[b].reg = cpu[b].reg
          BY <2>2, <2>5
        <4>4. NoHigher(pkt, cpu, pkt', cpu', n2)
          BY <4>2, <4>3, Zenon DEF NoHigher
        <4>5. n <= n2
          BY <3>1
        <4> QED BY <1>1, <2>5, <2>7, <3>1, <4>4, <4>5, HeldUp
      <3> DEFINE a == packets - (R - 1)
                 b == D + (N + 1)
      <3>2. a \in Int /\ b \in Int /\ a = (packets - R) + 1 /\ b = (D + N) + 1
        BY <1>2, <1>5, <1>6
      <3> HIDE DEF a, b
      <3>3. Held(pkt', cpu', a) /\ Held(pkt', cpu', b)
        BY <1>7, <1>8, <3>1, <3>2
      <3> QED BY <1>3, <2>5, <3>3, Zenon DEF HeldInv, a, b
    <2> QED BY <1>4, <2>8, <2>9, <2>10 DEF IInv
  <1> QED BY <1>10, <1>11, Zenon DEF bump_rule

LEMMA bumpStatsInv ==
    ASSUME IInv, NEW c \in CPU, bump_stats(c)
    PROVE  IInv'
  <1>1. /\ Ordered(table) /\ pkt \in [Elem -> Nat] /\ stat \in [CPU -> [Verdict -> Nat]]
        /\ cpu \in [CPU -> Work] /\ reader \in Report
        /\ \A b \in CPU : cpu[b].at \in {"load", "store"} => cpu[b].elem \in Elem
    BY Zenon DEF IInv, DataInv
  <1>2. packets \in 0 .. MaxPackets /\ packets \in Nat
    BY MonitorAssumption DEF IInv, DataInv
  <1>3. /\ table' = table /\ pkt' = pkt /\ packets' = packets /\ reader' = reader
        /\ cpu[c].at = "count" /\ cpu' = Working(cpu, c, Idle)
    BY Zenon DEF bump_stats, Working
  <1>4. OrderInv'
    BY <1>3, Zenon DEF IInv, OrderInv
  <1> DEFINE R == Cardinality(InRule(cpu))
             N == Cardinality(InCount(cpu))
             D == CountOf(stat, "drop") + CountOf(stat, "redirect")
             D2 == CountOf(stat', "drop") + CountOf(stat', "redirect")
  <1>5. R \in Nat /\ N \in Nat
    BY <1>1, InWork
  <1>6. D \in Nat
    <2>1. CountOf(stat, "drop") \in Nat /\ CountOf(stat, "redirect") \in Nat
      BY <1>1, CountOfType DEF Verdict
    <2> QED BY <2>1
  <1>7. Held(pkt, cpu, packets - R) /\ Held(pkt, cpu, D + N)
    BY Zenon DEF IInv, HeldInv
  <1>8. PICK v \in {"drop", "redirect"} : stat' = Bumped(stat, c, v)
    BY Zenon DEF bump_stats, Count, Bumped
  <1>9. v \in Verdict /\ v # "pass"
    BY DEF Verdict
  <1>10. /\ stat' \in [CPU -> [Verdict -> Nat]]
         /\ \A w \in Verdict : CountOf(stat, w) <= CountOf(stat', w)
         /\ D2 = D + (IF v = "pass" THEN 0 ELSE 1)
         /\ \A b \in CPU : b # c => stat'[b] = stat[b]
         /\ stat'[c]["pass"] + stat'[c]["drop"] + stat'[c]["redirect"] =
                stat[c]["pass"] + stat[c]["drop"] + stat[c]["redirect"] + 1
    BY <1>1, <1>8, <1>9, Counting
  <1>11. D2 = D + 1
    BY <1>9, <1>10
  <1>12. Idle \in Work /\ Idle.at = "idle"
    BY DEF Work, Idle, Doing
  <1>13. Worked(cpu, cpu', c, Idle)
    BY <1>1, <1>3, <1>12, WorkStep
  <1>14. /\ cpu' \in [CPU -> Work] /\ cpu'[c] = Idle
         /\ \A b \in CPU : b # c => cpu'[b] = cpu[b]
         /\ Cardinality(InRule(cpu')) = R /\ Cardinality(InCount(cpu')) = N - 1
    <2>1. ~Ruling(cpu[c]) /\ ~Ruling(Idle) /\ Idle.at # "count"
      BY <1>3, <1>12 DEF Ruling
    <2> QED BY <1>3, <1>13, <2>1, Zenon DEF Moved, Worked
  <1>15. DataInv'
    <2>1. \A b \in CPU : cpu'[b].at \in {"load", "store"} => cpu'[b].elem \in Elem
      BY <1>1, <1>12, <1>14
    <2> QED BY <1>1, <1>2, <1>3, <1>10, <1>14, <2>1 DEF DataInv
  <1>16. ShareInv'
    <2> SUFFICES ASSUME NEW b \in CPU
                 PROVE  stat'[b]["pass"] + stat'[b]["drop"] + stat'[b]["redirect"]
                          + (IF cpu'[b].at = "idle" THEN 0 ELSE 1) <= packets
      BY <1>3 DEF ShareInv, Share
    <2>1. stat[b]["pass"] + stat[b]["drop"] + stat[b]["redirect"]
              + (IF cpu[b].at = "idle" THEN 0 ELSE 1) <= packets
      BY DEF IInv, ShareInv, Share
    <2> DEFINE z == stat[b]["pass"] + stat[b]["drop"] + stat[b]["redirect"]
               y == stat'[b]["pass"] + stat'[b]["drop"] + stat'[b]["redirect"]
    <2>2. z \in Nat /\ y \in Nat
      BY <1>1, <1>10, ShareNat
    <2>3. b # c => y = z /\ cpu'[b].at = cpu[b].at
      BY <1>10, <1>14
    <2>4. b = c => y = z + 1 /\ cpu'[b].at = "idle" /\ cpu[b].at = "count"
      BY <1>3, <1>10, <1>12, <1>14
    <2> HIDE DEF z, y
    <2>5. z + (IF cpu[b].at = "idle" THEN 0 ELSE 1) <= packets
      BY <2>1 DEF z
    <2>6. y + (IF cpu'[b].at = "idle" THEN 0 ELSE 1) <= packets
      BY <1>2, <2>2, <2>3, <2>4, <2>5
    <2> QED BY <2>6 DEF y
  <1>17. HeldInv'
    <2>1. D2 + (N - 1) = D + N /\ packets - R \in Int /\ D + N \in Int
      BY <1>2, <1>5, <1>6, <1>11
    <2>2. ASSUME NEW n \in Int, Held(pkt, cpu, n) PROVE Held(pkt, cpu', n)
      <3>1. \A e \in Elem : pkt[e] <= pkt[e]
        BY <1>1
      <3>2. \A b \in CPU : cpu'[b].at = "store" =>
               cpu[b].at = "store" /\ cpu'[b].reg = cpu[b].reg
        BY <1>12, <1>14
      <3>3. NoHigher(pkt, cpu, pkt, cpu', n)
        BY <3>1, <3>2, Zenon DEF NoHigher
      <3>4. n <= n
        BY <2>2
      <3> QED BY <1>1, <1>14, <2>2, <3>3, <3>4, HeldUp
    <2>3. Held(pkt, cpu', packets - R) /\ Held(pkt, cpu', D + N)
      BY <1>7, <2>1, <2>2
    <2>4. Held(pkt, cpu', D2 + (N - 1))
      BY <2>1, <2>3, Zenon
    <2> QED BY <1>3, <1>14, <2>3, <2>4, Zenon DEF HeldInv
  <1>18. ReadInv'
    <2>1. \A w \in Verdict : CountOf(stat, w) \in Nat /\ CountOf(stat', w) \in Nat
      BY <1>1, <1>10, CountOfType
    <2>2. ReadOk(reader, CountOf(stat, "pass"), CountOf(stat, "drop"),
                 CountOf(stat, "redirect"))
      BY Zenon DEF IInv, ReadInv
    <2>3. "pass" \in Verdict /\ "drop" \in Verdict /\ "redirect" \in Verdict
      BY DEF Verdict
    <2>4. ReadOk(reader, CountOf(stat', "pass"), CountOf(stat', "drop"),
                 CountOf(stat', "redirect"))
      BY <1>1, <1>10, <2>1, <2>2, <2>3, ReadUp
    <2> QED BY <1>3, <2>4, Zenon DEF ReadInv
  <1> QED BY <1>4, <1>15, <1>16, <1>17, <1>18 DEF IInv
-----------------------------------------------------------------------------
(* Operators change the table *)

LEMMA PositionIs ==
    ASSUME Ordered(table), NEW k
    PROVE  /\ Present = KeysOf(table)
           /\ k \in KeysOf(table) => /\ Position(k) \in DOMAIN table
                                     /\ table[Position(k)].key = k
           /\ k \notin KeysOf(table) => Position(k) = 0
  <1>1. Present = KeysOf(table)
    BY Zenon DEF Present, KeysOf
  <1>2. k \in KeysOf(table) => \E i \in DOMAIN table : table[i].key = k
    BY Zenon DEF KeysOf
  <1> QED BY <1>1, <1>2, Zenon DEF Position

\* What becomes of a report when key k changes.
Touch(r, k) ==
    IF r.at \in {"next", "value"} THEN [r EXCEPT !.kept = @ \ {k}] ELSE r

LEMMA TouchIs ==
    ASSUME NEW r \in Report, NEW k, NEW q, q = Touch(r, k)
    PROVE  /\ q \in Report /\ q.at = r.at /\ q.cursor = r.cursor /\ q.count = r.count
           /\ q.rules = r.rules /\ q.counters = r.counters /\ q.since = r.since
           /\ q.kept = IF r.at \in {"next", "value"} THEN r.kept \ {k} ELSE r.kept
  <1>1. CASE r.at \in {"next", "value"}
    <2>1. q = [r EXCEPT !.kept = @ \ {k}]
      BY <1>1 DEF Touch
    <2> QED BY <1>1, <2>1 DEF Report
  <1>2. CASE r.at \notin {"next", "value"}
    BY <1>2 DEF Touch
  <1> QED BY <1>1, <1>2

\* Report q says what report r says.
Retains(q, r) ==
    /\ q \in Report /\ q.at = r.at /\ q.since = r.since
    /\ q.counters = r.counters /\ q.rules = r.rules

LEMMA TouchRetains ==
    ASSUME NEW r \in Report, NEW k, NEW q, q = Touch(r, k)
    PROVE  Retains(q, r)
  <1>1. CASE r.at \in {"next", "value"}
    <2>1. q = [r EXCEPT !.kept = @ \ {k}]
      BY <1>1 DEF Touch
    <2> QED BY <2>1 DEF Report, Retains
  <1>2. CASE r.at \notin {"next", "value"}
    BY <1>2 DEF Touch, Retains
  <1> QED BY <1>1, <1>2

\* A new entry of k comes before those of its bucket and of the later ones.
Heads(u, k) ==
    k \in KeysOf(u) =>
        \A b \in KeysOf(u) : b # k /\ Bucket[b] >= Bucket[k] => Before(u, k, b)

LEMMA OrderTouch ==
    ASSUME NEW t, NEW u, NEW r \in Report, NEW k0 \in Key, NEW q, q = Touch(r, k0),
           Order(t, r), Keeps(t, u, k0), Heads(u, k0), KeysOf(u) \subseteq Key
    PROVE  Order(u, q)
  <1>1. /\ q.at = r.at /\ q.cursor = r.cursor /\ q.rules = r.rules
        /\ q.kept = IF r.at \in {"next", "value"} THEN r.kept \ {k0} ELSE r.kept
    BY TouchIs
  <1>2. KeysOf(u) \ {k0} = KeysOf(t) \ {k0}
    BY Zenon DEF Keeps
  <1>3. CASE r.at \in {"next", "value"}
    <2>1. /\ r.kept \subseteq KeysOf(t) /\ q.kept = r.kept \ {k0}
          /\ \A k \in r.kept \ DOMAIN r.rules :
                (r.at = "value" /\ k = r.cursor) \/ Ahead(t, r, k)
      BY <1>1, <1>3 DEF Order
    <2>2. q.kept \subseteq KeysOf(u)
      BY <1>2, <2>1
    <2>3. ASSUME NEW k \in q.kept \ DOMAIN q.rules
          PROVE  (q.at = "value" /\ k = q.cursor) \/ Ahead(u, q, k)
      <3>1. k # k0 /\ k \in KeysOf(u) /\ k \in r.kept \ DOMAIN r.rules
        BY <1>1, <2>1, <2>2
      <3>2. CASE r.at = "value" /\ k = r.cursor
        BY <1>1, <3>2
      <3>3. CASE Ahead(t, r, k)
        <4>1. r.cursor \in Key => Bucket[r.cursor] <= Bucket[k]
          BY <3>3, Zenon DEF Ahead
        <4>2. ASSUME r.cursor \in KeysOf(u) PROVE Before(u, r.cursor, k)
          <5>1. CASE r.cursor # k0
            <6>1. r.cursor \in KeysOf(t)
              BY <1>2, <4>2, <5>1
            <6>2. Before(t, r.cursor, k)
              BY <3>3, <6>1, Zenon DEF Ahead
            <6> QED BY <3>1, <5>1, <6>2, Zenon DEF Keeps
          <5>2. CASE r.cursor = k0
            <6>1. Bucket[k] \in Nat /\ Bucket[k0] \in Nat /\ Bucket[k0] <= Bucket[k]
              BY <3>1, <4>1, <5>2, MonitorAssumption
            <6>2. Bucket[k] >= Bucket[k0]
              BY <6>1
            <6> QED BY <3>1, <4>2, <5>2, <6>2, Zenon DEF Heads
          <5> QED BY <5>1, <5>2
        <4> QED BY <1>1, <4>1, <4>2, Zenon DEF Ahead
      <3> QED BY <2>1, <3>1, <3>2, <3>3
    <2>4. q.at # "pass"
      BY <1>1, <1>3
    <2> QED BY <2>2, <2>3, <2>4, Zenon DEF Order
  <1>4. CASE r.at \notin {"next", "value"}
    <2>1. q.kept = r.kept
      BY <1>1, <1>4
    <2> QED BY <1>1, <1>4, <2>1 DEF Order
  <1> QED BY <1>3, <1>4

LEMMA OrderedKeys == ASSUME NEW t, Ordered(t) PROVE KeysOf(t) \subseteq Key
  <1>1. \A i \in DOMAIN t : t[i] \in Entry
    BY DEF Ordered
  <1> QED BY <1>1 DEF KeysOf, Entry

\* A step that changes key k in the table and writes no counter up.
LEMMA OperatorInv ==
    ASSUME IInv, NEW k \in Key, Ordered(table'), Keeps(table, table', k), Heads(table', k),
           NEW f \in [Elem -> Nat], \A e \in Elem : f[e] <= pkt[e],
           Memory(f), Touched(k), UNCHANGED <<stat, cpu, packets>>
    PROVE  IInv'
  <1>1. /\ Ordered(table) /\ pkt \in [Elem -> Nat] /\ stat \in [CPU -> [Verdict -> Nat]]
        /\ cpu \in [CPU -> Work] /\ reader \in Report
        /\ \A b \in CPU : cpu[b].at \in {"load", "store"} => cpu[b].elem \in Elem
    BY Zenon DEF IInv, DataInv
  <1>2. packets \in 0 .. MaxPackets /\ packets \in Nat
    BY MonitorAssumption DEF IInv, DataInv
  <1>3. stat' = stat /\ cpu' = cpu /\ packets' = packets
    OBVIOUS
  <1>4. reader' = Touch(reader, k)
    BY Zenon DEF Touched, Touch
  <1>5. pkt' \in [Elem -> Nat] /\ \A e \in Elem : pkt'[e] <= pkt[e]
    <2>1. pkt' \in [Elem -> Nat] /\ \A e \in Elem : pkt'[e] <= f[e]
      BY MemoryIs
    <2>2. ASSUME NEW e \in Elem PROVE pkt'[e] <= pkt[e]
      <3>1. pkt'[e] \in Nat /\ pkt[e] \in Nat /\ f[e] \in Nat /\ pkt'[e] <= f[e] /\ f[e] <= pkt[e]
        BY <1>1, <2>1
      <3> QED BY <3>1
    <2> QED BY <2>1, <2>2
  <1>6. /\ reader' \in Report /\ reader'.at = reader.at /\ reader'.since = reader.since
        /\ reader'.counters = reader.counters /\ reader'.rules = reader.rules
    <2>1. Retains(reader', reader)
      BY <1>1, <1>4, TouchRetains, Zenon
    <2> QED BY <2>1, Zenon DEF Retains
  <1>7. DataInv'
    BY <1>1, <1>2, <1>3, <1>5, <1>6 DEF DataInv
  <1>8. ShareInv'
    BY <1>3, Zenon DEF IInv, ShareInv
  <1>9. HeldInv'
    <2> DEFINE a == packets - Cardinality(InRule(cpu))
               b == CountOf(stat, "drop") + CountOf(stat, "redirect")
                        + Cardinality(InCount(cpu))
    <2>1. Cardinality(InRule(cpu)) \in Nat /\ Cardinality(InCount(cpu)) \in Nat
      BY <1>1, InWork
    <2>2. CountOf(stat, "drop") \in Nat /\ CountOf(stat, "redirect") \in Nat
      BY <1>1, CountOfType DEF Verdict
    <2>3. a \in Int /\ b \in Int
      BY <1>2, <2>1, <2>2
    <2>4. Held(pkt, cpu, a) /\ Held(pkt, cpu, b)
      BY Zenon DEF IInv, HeldInv
    <2>5. \A n : NoHigher(pkt, cpu, pkt', cpu, n)
      BY <1>5, Zenon DEF NoHigher
    <2> HIDE DEF a, b
    <2>6. a <= a /\ b <= b
      BY <2>3
    <2>7. Held(pkt', cpu, a) /\ Held(pkt', cpu, b)
      BY <1>1, <1>5, <2>3, <2>4, <2>5, <2>6, HeldUp
    <2> QED BY <1>3, <2>7, Zenon DEF HeldInv, a, b
  <1>10. OrderInv'
    <2>1. Order(table, reader)
      BY Zenon DEF IInv, OrderInv
    <2>2. KeysOf(table') \subseteq Key
      BY OrderedKeys
    <2>3. Order(table', reader')
      BY <1>1, <1>4, <2>1, <2>2, OrderTouch
    <2> QED BY <2>3, Zenon DEF OrderInv
  <1>11. ReadInv'
    <2>1. /\ CountOf(stat, "pass") \in Nat /\ CountOf(stat, "drop") \in Nat
          /\ CountOf(stat, "redirect") \in Nat
      BY <1>1, CountOfType DEF Verdict
    <2>2. ReadOk(reader, CountOf(stat, "pass"), CountOf(stat, "drop"),
                 CountOf(stat, "redirect"))
      BY Zenon DEF IInv, ReadInv
    <2> DEFINE p == CountOf(stat, "pass")
               d == CountOf(stat, "drop")
               x == CountOf(stat, "redirect")
    <2>3. p \in Nat /\ d \in Nat /\ x \in Nat /\ ReadOk(reader, p, d, x)
      BY <2>1, <2>2
    <2> HIDE DEF p, d, x
    <2>4. p <= p /\ d <= d /\ x <= x
      BY <2>3
    <2>5. ReadOk(reader', p, d, x)
      BY <1>1, <1>6, <2>3, <2>4, ReadUp
    <2> QED BY <1>3, <2>5, Zenon DEF ReadInv, p, d, x
  <1> QED BY <1>7, <1>8, <1>9, <1>10, <1>11 DEF IInv

LEMMA WithoutIs ==
    ASSUME Ordered(table), NEW k, NEW u, u = Without(k)
    PROVE  Ordered(u) /\ k \notin KeysOf(u) /\ Keeps(table, u, k)
  <1>1. /\ Present = KeysOf(table)
        /\ k \in KeysOf(table) => Position(k) \in DOMAIN table /\ table[Position(k)].key = k
    BY PositionIs
  <1>2. CASE k \in Present
    <2> DEFINE i == Position(k)
    <2>1. i \in 1 .. Len(table) /\ table[i].key = k
      BY <1>1, <1>2 DEF Ordered
    <2>2. u = RemoveAt(table, i)
      BY <1>2, Zenon DEF Without
    <2> HIDE DEF i
    <2> QED BY <2>1, <2>2, RemoveOrder
  <1>3. CASE k \notin Present
    <2>1. u = table
      BY <1>3, Zenon DEF Without
    <2>2. Keeps(table, table, k)
      BY Zenon DEF Keeps
    <2> QED BY <1>1, <1>3, <2>1, <2>2, Zenon
  <1> QED BY <1>2, <1>3

LEMMA putInv ==
    ASSUME IInv, NEW k \in Key, Put(k)
    PROVE  IInv'
  <1>1. Ordered(table) /\ pkt \in [Elem -> Nat]
    BY Zenon DEF IInv, DataInv
  <1>2. PICK e \in Free, i \in 1 .. Len(Without(k)) + 1 :
            /\ IsHead(k, i)
            /\ table' = InsertAt(Without(k), i, [key |-> k, elem |-> e])
            /\ UNCHANGED cpu
            /\ Memory([pkt EXCEPT ![e] = 0])
    BY Zenon DEF Put
  <1>3. Touched(k) /\ UNCHANGED <<stat, packets>>
    BY Zenon DEF Put
  <1> DEFINE u == Without(k)
             x == [key |-> k, elem |-> e]
             f == [pkt EXCEPT ![e] = 0]
  <1>4. Ordered(u) /\ k \notin KeysOf(u) /\ Keeps(table, u, k)
    BY <1>1, WithoutIs
  <1>5. e \in Elem /\ x \in Entry /\ x.key = k
    BY DEF Free, Entry
  <1>6. f \in [Elem -> Nat] /\ \A d \in Elem : f[d] <= pkt[d]
    BY <1>1, <1>5
  <1>7. i \in 1 .. Len(u) + 1 /\ table' = InsertAt(u, i, x) /\ Memory(f)
    BY <1>2, Zenon
  <1>8. \A j \in DOMAIN u : IF j < i THEN Bucket[u[j].key] < Bucket[x.key]
                                     ELSE Bucket[u[j].key] >= Bucket[x.key]
    BY <1>2, <1>5, Zenon DEF IsHead
  <1> HIDE DEF u, x, f
  <1>9. /\ Ordered(table') /\ k \in KeysOf(table') /\ Keeps(u, table', k)
        /\ \A b \in KeysOf(u) : Bucket[b] >= Bucket[k] => Before(table', k, b)
    <2>1. x.key \notin KeysOf(u)
      BY <1>4, <1>5
    <2> QED BY <1>4, <1>5, <1>7, <1>8, <2>1, InsertOrder
  <1>10. Keeps(table, table', k)
    BY <1>4, <1>9, Zenon DEF Keeps
  <1>11. Heads(table', k)
    <2>1. KeysOf(table') \ {k} = KeysOf(u) \ {k}
      BY <1>9, Zenon DEF Keeps
    <2>2. \A b \in KeysOf(table') : b # k => b \in KeysOf(u)
      BY <2>1
    <2> QED BY <1>9, <2>2, Zenon DEF Heads
  <1>12. UNCHANGED <<stat, cpu, packets>>
    BY <1>2, <1>3
  <1> QED BY <1>3, <1>6, <1>7, <1>9, <1>10, <1>11, <1>12, OperatorInv

LEMMA deleteInv ==
    ASSUME IInv, NEW k \in Key, Delete(k)
    PROVE  IInv'
  <1>1. Ordered(table) /\ pkt \in [Elem -> Nat]
    BY Zenon DEF IInv, DataInv
  <1>2. table' = Without(k) /\ Touched(k) /\ UNCHANGED <<stat, cpu, packets>> /\ Memory(pkt)
    BY Zenon DEF Delete
  <1>3. Ordered(table') /\ k \notin KeysOf(table') /\ Keeps(table, table', k)
    BY <1>1, <1>2, WithoutIs
  <1>4. Heads(table', k)
    BY <1>3, Zenon DEF Heads
  <1>5. \A e \in Elem : pkt[e] <= pkt[e]
    BY <1>1
  <1> QED BY <1>1, <1>2, <1>3, <1>4, <1>5, OperatorInv

-----------------------------------------------------------------------------
(* The read *)

\* A step of the reader alone.
LEMMA ReaderInv ==
    ASSUME IInv, UNCHANGED plane, reader' \in Report, Order(table, reader'),
           ReadOk(reader', CountOf(stat, "pass"), CountOf(stat, "drop"),
                  CountOf(stat, "redirect"))
    PROVE  IInv'
  <1>1. table' = table /\ pkt' = pkt /\ stat' = stat /\ cpu' = cpu /\ packets' = packets
    BY DEF plane
  <1>2. DataInv'
    BY <1>1 DEF IInv, DataInv
  <1>3. ShareInv' /\ HeldInv'
    BY <1>1, Zenon DEF IInv, ShareInv, HeldInv
  <1>4. OrderInv' /\ ReadInv'
    BY <1>1, Zenon DEF OrderInv, ReadInv
  <1> QED BY <1>2, <1>3, <1>4 DEF IInv

\* No report at all, and one that has nothing yet.
Fresh(at, since, kept) ==
    [at |-> at, cursor |-> NoKey, count |-> 0, rules |-> NoRules,
     counters |-> Zero, since |-> since, kept |-> kept]

LEMMA EmptyReport ==
    ASSUME NEW r, NEW a \in {"idle", "next", "pass"}, NEW s \in Nat, NEW m \in SUBSET Key,
           r = Fresh(a, s, m)
    PROVE  /\ r \in Report /\ r.at = a /\ r.kept = m /\ r.since = s /\ r.cursor = NoKey
           /\ DOMAIN r.rules = {}
           /\ r.counters["pass"] = 0 /\ r.counters["drop"] = 0 /\ r.counters["redirect"] = 0
  <1>1. NoRules \in Listing /\ DOMAIN NoRules = {}
    <2>1. NoRules \in [{} -> Nat] /\ {} \in SUBSET Key
      BY DEF NoRules
    <2> QED BY <2>1 DEF Listing, NoRules
  <1>2. Zero \in [Verdict -> Nat] /\ Zero["pass"] = 0 /\ Zero["drop"] = 0
        /\ Zero["redirect"] = 0
    BY DEF Zero, Verdict
  <1>3. 0 \in 0 .. MaxEntries + 1
    BY MonitorAssumption
  <1>4. r = [at |-> a, cursor |-> NoKey, count |-> 0, rules |-> NoRules,
             counters |-> Zero, since |-> s, kept |-> m]
    BY DEF Fresh
  <1>5. /\ r.at = a /\ r.kept = m /\ r.since = s /\ r.cursor = NoKey
        /\ r.rules = NoRules /\ r.counters = Zero
    BY <1>4
  <1>6. r \in Report
    BY <1>1, <1>2, <1>3, <1>4 DEF Report
  <1> QED BY <1>1, <1>2, <1>5, <1>6

LEMMA FreshOk ==
    ASSUME NEW a \in {"idle", "next", "pass"}, NEW s \in Nat, NEW m \in SUBSET Key, NEW t,
           NEW p \in Nat, NEW d \in Nat, NEW x \in Nat, NEW r, r = Fresh(a, s, m),
           Ordered(t), a # "idle" => s <= p + d + x, a = "next" => m \subseteq KeysOf(t),
           a = "pass" => m = {}
    PROVE  r \in Report /\ Order(t, r) /\ ReadOk(r, p, d, x)
  <1>1. /\ r \in Report /\ r.at = a /\ r.kept = m /\ r.since = s /\ r.cursor = NoKey
        /\ DOMAIN r.rules = {}
        /\ r.counters["pass"] = 0 /\ r.counters["drop"] = 0 /\ r.counters["redirect"] = 0
    BY EmptyReport
  <1>2. NoKey \notin Key /\ NoKey \notin KeysOf(t)
    BY MonitorAssumption, OrderedKeys
  <1>3. \A k : Ahead(t, r, k)
    BY <1>1, <1>2 DEF Ahead
  <1>4. Order(t, r)
    <2>1. r.at = "next" => r.kept \subseteq KeysOf(t)
      BY <1>1
    <2>2. r.at = "pass" => r.kept \subseteq DOMAIN r.rules
      BY <1>1
    <2>3. r.at # "value"
      BY <1>1
    <2> QED BY <1>3, <2>1, <2>2, <2>3 DEF Order
  <1>5. \A n : Below(r.rules, n)
    BY <1>1 DEF Below
  <1>6. ReadOk(r, p, d, x)
    <2>1. /\ r.counters["pass"] <= p /\ r.counters["drop"] <= d
          /\ r.counters["redirect"] <= x
      BY <1>1
    <2>2. r.at # "idle" => r.since <= p + d + x
      BY <1>1
    <2>3. r.at \in {"idle", "next", "pass"}
      BY <1>1
    <2> QED BY <1>5, <2>1, <2>2, <2>3 DEF ReadOk
  <1> QED BY <1>1, <1>4, <1>6

\* The counters of stats_map and the rules at the start of a read.
LEMMA StartFacts ==
    ASSUME IInv
    PROVE  /\ Ordered(table) /\ reader \in Report /\ Present = KeysOf(table)
           /\ Present \in SUBSET Key
           /\ CountOf(stat, "pass") \in Nat /\ CountOf(stat, "drop") \in Nat
           /\ CountOf(stat, "redirect") \in Nat /\ AllCounted \in Nat
           /\ AllCounted = CountOf(stat, "pass") + CountOf(stat, "drop")
                             + CountOf(stat, "redirect")
           /\ ReadOk(reader, CountOf(stat, "pass"), CountOf(stat, "drop"),
                     CountOf(stat, "redirect"))
           /\ Order(table, reader)
  <1>1. Ordered(table) /\ stat \in [CPU -> [Verdict -> Nat]] /\ reader \in Report
    BY Zenon DEF IInv, DataInv
  <1>2. Present = KeysOf(table) /\ Present \in SUBSET Key
    BY <1>1, PositionIs, OrderedKeys
  <1>3. /\ CountOf(stat, "pass") \in Nat /\ CountOf(stat, "drop") \in Nat
        /\ CountOf(stat, "redirect") \in Nat
    BY <1>1, CountOfType DEF Verdict
  <1>4. AllCounted = CountOf(stat, "pass") + CountOf(stat, "drop") + CountOf(stat, "redirect")
    <2>1. AllCounted = Counted("pass") + Counted("drop") + Counted("redirect")
      BY <1>1, CountedType
    <2>2. /\ Counted("pass") = CountOf(stat, "pass") /\ Counted("drop") = CountOf(stat, "drop")
          /\ Counted("redirect") = CountOf(stat, "redirect")
      BY CountedIs, Zenon
    <2> QED BY <2>1, <2>2, Zenon
  <1>5. AllCounted \in Nat
    BY <1>3, <1>4
  <1>6. ReadOk(reader, CountOf(stat, "pass"), CountOf(stat, "drop"),
               CountOf(stat, "redirect")) /\ Order(table, reader)
    BY Zenon DEF IInv, ReadInv, OrderInv
  <1> QED BY <1>1, <1>2, <1>3, <1>4, <1>5, <1>6

LEMMA beginInv ==
    ASSUME IInv, Begin \/ BeginStats
    PROVE  IInv'
  <1>1. /\ Ordered(table) /\ Present = KeysOf(table) /\ Present \in SUBSET Key
        /\ CountOf(stat, "pass") \in Nat /\ CountOf(stat, "drop") \in Nat
        /\ CountOf(stat, "redirect") \in Nat
    BY StartFacts
  <1>2. UNCHANGED plane
    BY Zenon DEF Begin, BeginStats
  <1> DEFINE p == CountOf(stat, "pass")
             d == CountOf(stat, "drop")
             x == CountOf(stat, "redirect")
  <1>3. p \in Nat /\ d \in Nat /\ x \in Nat /\ 0 <= p + d + x
    BY <1>1
  <1> HIDE DEF p, d, x
  <1>4. CASE Begin
    <2>1. reader' = Fresh("next", 0, Present)
      BY <1>4 DEF Begin, Fresh, NoRead
    <2>2. Present \subseteq KeysOf(table)
      BY <1>1
    <2>3. reader' \in Report /\ Order(table, reader') /\ ReadOk(reader', p, d, x)
      BY <1>1, <1>3, <2>1, <2>2, FreshOk
    <2> QED BY <1>2, <2>3, ReaderInv DEF p, d, x
  <1>5. CASE BeginStats
    <2>1. reader' = Fresh("pass", 0, {})
      BY <1>5 DEF BeginStats, Fresh, NoRead
    <2>2. {} \in SUBSET Key
      OBVIOUS
    <2>3. reader' \in Report /\ Order(table, reader') /\ ReadOk(reader', p, d, x)
      BY <1>1, <1>3, <2>1, <2>2, FreshOk
    <2> QED BY <1>2, <2>3, ReaderInv DEF p, d, x
  <1> QED BY <1>4, <1>5

LEMMA endInv ==
    ASSUME IInv, Abort \/ Fail \/ Show \/ ShowList
    PROVE  IInv'
  <1>1. /\ Ordered(table) /\ CountOf(stat, "pass") \in Nat /\ CountOf(stat, "drop") \in Nat
        /\ CountOf(stat, "redirect") \in Nat
    BY StartFacts
  <1>2. UNCHANGED plane /\ reader' = NoRead
    BY Zenon DEF Abort, Fail, Show, ShowList
  <1>3. reader' = Fresh("idle", 0, {})
    BY <1>2, Zenon DEF Fresh, NoRead
  <1>4. {} \in SUBSET Key /\ 0 \in Nat
    OBVIOUS
  <1>5. /\ reader' \in Report /\ Order(table, reader')
        /\ ReadOk(reader', CountOf(stat, "pass"), CountOf(stat, "drop"),
                  CountOf(stat, "redirect"))
    BY <1>1, <1>3, <1>4, FreshOk
  <1> QED BY <1>2, <1>5, ReaderInv

\* A report at another place of the listing, with rules within the same bound.
LEMMA ReadOn ==
    ASSUME NEW r, NEW q, r.at \in {"next", "value"}, q.at \in {"next", "value", "pass"},
           q.since = r.since, q.counters = r.counters, NEW p, NEW d, NEW x,
           ReadOk(r, p, d, x),
           Below(r.rules, d + x + Cardinality(CPU)) => Below(q.rules, d + x + Cardinality(CPU))
    PROVE  ReadOk(q, p, d, x)
  <1>1. q.at # "drop" /\ q.at # "redirect" /\ q.at # "done"
    OBVIOUS
  <1>2. r.at \in {"next", "value", "pass"} /\ r.at \in {"next", "value", "pass", "drop"}
    OBVIOUS
  <1>3. /\ r.counters["pass"] <= p /\ r.counters["drop"] <= d /\ r.counters["redirect"] <= x
        /\ r.since <= p + d + x /\ Below(r.rules, d + x + Cardinality(CPU))
    BY <1>2, Zenon DEF ReadOk
  <1> QED BY <1>1, <1>3, Zenon DEF ReadOk

\* A key ahead of the iterator is not at a place before the next one.
LEMMA NextBefore ==
    ASSUME Ordered(table), NEW r, NEW k \in KeysOf(table), Ahead(table, r, k)
    PROVE  LET i == Position(r.cursor) + 1
           IN  /\ i \in DOMAIN table
               /\ \E j \in DOMAIN table : table[j].key = k /\ i <= j
  <1> DEFINE b == Position(r.cursor)
  <1>1. DOMAIN table = 1 .. Len(table) /\ Len(table) \in Nat
    BY DEF Ordered
  <1>2. CASE r.cursor \in KeysOf(table)
    <2>1. b \in DOMAIN table /\ table[b].key = r.cursor
      BY <1>2, PositionIs
    <2>2. Before(table, r.cursor, k)
      BY <1>2, Zenon DEF Ahead
    <2>3. PICK m \in DOMAIN table, j \in DOMAIN table :
              m < j /\ table[m].key = r.cursor /\ table[j].key = k
      BY <2>2, Zenon DEF Before
    <2> HIDE DEF b
    <2>4. m = b
      <3>1. m < b \/ b < m \/ m = b
        BY <1>1, <2>1
      <3>2. ~(m < b) /\ ~(b < m)
        BY <2>1, <2>3 DEF Ordered
      <3> QED BY <3>1, <3>2
    <2>5. b + 1 \in DOMAIN table /\ b + 1 <= j
      BY <1>1, <2>1, <2>3, <2>4
    <2> QED BY <2>3, <2>5 DEF b
  <1>3. CASE r.cursor \notin KeysOf(table)
    <2>1. b = 0
      BY <1>3, PositionIs
    <2>2. PICK j \in DOMAIN table : table[j].key = k
      BY DEF KeysOf
    <2> HIDE DEF b
    <2>3. b + 1 \in DOMAIN table /\ b + 1 <= j
      BY <1>1, <2>1
    <2> QED BY <2>2, <2>3 DEF b
  <1> QED BY <1>2, <1>3

LEMMA advanceInv ==
    ASSUME IInv, Advance
    PROVE  IInv'
  <1>1. /\ Ordered(table) /\ reader \in Report
        /\ ReadOk(reader, CountOf(stat, "pass"), CountOf(stat, "drop"),
                  CountOf(stat, "redirect"))
        /\ Order(table, reader)
    BY StartFacts
  <1>2. UNCHANGED plane /\ reader.at = "next" /\ reader.count <= MaxEntries
    BY Zenon DEF Advance, WithinLimit
  <1>3. /\ reader.kept \subseteq KeysOf(table)
        /\ \A k \in reader.kept \ DOMAIN reader.rules : Ahead(table, reader, k)
    BY <1>1, <1>2 DEF Order
  <1>4. /\ reader.count \in 0 .. MaxEntries + 1 /\ reader.rules \in Listing
        /\ reader.counters \in [Verdict -> Nat] /\ reader.since \in Nat
        /\ reader.kept \in SUBSET Key
    BY <1>1 DEF Report
  <1>5. reader.count + 1 \in 0 .. MaxEntries + 1 /\ 0 \in 0 .. MaxEntries + 1
    BY <1>2, <1>4, MonitorAssumption
  <1> DEFINE i == Position(reader.cursor) + 1
  <1>6. CASE NextKey = NoKey
    <2>1. reader' = [reader EXCEPT !.at = "pass", !.cursor = NoKey, !.count = 0]
      BY <1>6, Zenon DEF Advance
    <2>2. /\ reader' \in Report /\ reader'.at = "pass" /\ reader'.kept = reader.kept
          /\ reader'.rules = reader.rules /\ reader'.since = reader.since
          /\ reader'.counters = reader.counters
      BY <1>1, <1>5, <2>1 DEF Report
    <2>3. i \notin DOMAIN table
      <3> SUFFICES ASSUME i \in DOMAIN table PROVE FALSE
        OBVIOUS
      <3>1. NextKey = table[i].key
        BY DEF NextKey
      <3>2. table[i].key \in Key
        <4>1. table[i] \in Entry
          BY <1>1 DEF Ordered
        <4> QED BY <4>1 DEF Entry
      <3> QED BY <1>6, <3>1, <3>2, MonitorAssumption
    <2>4. reader.kept \subseteq DOMAIN reader.rules
      <3> SUFFICES ASSUME NEW k \in reader.kept \ DOMAIN reader.rules PROVE FALSE
        OBVIOUS
      <3>1. k \in KeysOf(table) /\ Ahead(table, reader, k)
        BY <1>3
      <3> QED BY <1>1, <2>3, <3>1, NextBefore
    <2>5. Order(table, reader')
      BY <2>2, <2>4 DEF Order
    <2>6. ReadOk(reader', CountOf(stat, "pass"), CountOf(stat, "drop"),
                 CountOf(stat, "redirect"))
      BY <1>1, <1>2, <2>2, ReadOn
    <2> QED BY <1>2, <2>2, <2>5, <2>6, ReaderInv
  <1>7. CASE NextKey # NoKey
    <2>1. reader' = [reader EXCEPT !.at = "value", !.cursor = NextKey, !.count = @ + 1]
      BY <1>7, Zenon DEF Advance
    <2>2. i \in DOMAIN table /\ NextKey = table[i].key
      BY <1>7, Zenon DEF NextKey
    <2>3. NextKey \in Key
      <3>1. table[i] \in Entry
        BY <1>1, <2>2 DEF Ordered
      <3> QED BY <2>2, <3>1 DEF Entry
    <2>4. /\ reader' \in Report /\ reader'.at = "value" /\ reader'.kept = reader.kept
          /\ reader'.rules = reader.rules /\ reader'.since = reader.since
          /\ reader'.counters = reader.counters /\ reader'.cursor = NextKey
      BY <1>1, <1>5, <2>1, <2>3 DEF Report
    <2>5. ASSUME NEW k \in reader.kept \ DOMAIN reader.rules
          PROVE  k = NextKey \/ Ahead(table, reader', k)
      <3>1. k \in KeysOf(table) /\ Ahead(table, reader, k)
        BY <1>3
      <3>2. PICK j \in DOMAIN table : table[j].key = k /\ i <= j
        BY <1>1, <3>1, NextBefore
      <3> HIDE DEF i
      <3>3. i = j \/ i < j
        BY <1>1, <2>2, <3>2 DEF Ordered
      <3>4. CASE i = j
        BY <2>2, <3>2, <3>4
      <3>5. CASE i < j
        <4>1. Before(table, NextKey, k)
          BY <2>2, <3>2, <3>5, Zenon DEF Before
        <4>2. Bucket[NextKey] <= Bucket[k]
          BY <1>1, <2>2, <3>2, <3>5, Zenon DEF Ordered
        <4> QED BY <2>4, <4>1, <4>2, Zenon DEF Ahead
      <3> QED BY <3>3, <3>4, <3>5
    <2>6. Order(table, reader')
      <3>1. reader'.at # "pass" /\ reader'.at = "value"
        BY <2>4
      <3> QED BY <1>3, <2>4, <2>5, <3>1, Zenon DEF Order
    <2>7. ReadOk(reader', CountOf(stat, "pass"), CountOf(stat, "drop"),
                 CountOf(stat, "redirect"))
      BY <1>1, <1>2, <2>4, ReadOn
    <2> QED BY <1>2, <2>4, <2>6, <2>7, ReaderInv
  <1> QED BY <1>6, <1>7

LEMMA lookupInv ==
    ASSUME IInv, Lookup
    PROVE  IInv'
  <1>1. /\ Ordered(table) /\ reader \in Report
        /\ ReadOk(reader, CountOf(stat, "pass"), CountOf(stat, "drop"),
                  CountOf(stat, "redirect"))
        /\ Order(table, reader)
        /\ CountOf(stat, "drop") \in Nat /\ CountOf(stat, "redirect") \in Nat
    BY StartFacts
  <1>2. UNCHANGED plane /\ reader.at = "value"
    BY Zenon DEF Lookup
  <1>3. /\ reader.kept \subseteq KeysOf(table)
        /\ \A k \in reader.kept \ DOMAIN reader.rules :
              k = reader.cursor \/ Ahead(table, reader, k)
    BY <1>1, <1>2 DEF Order
  <1> DEFINE i == Position(reader.cursor)
  <1>4. CASE i = 0
    <2>1. reader' = [reader EXCEPT !.at = "next"]
      BY <1>4, Zenon DEF Lookup, Missed
    <2>2. /\ reader' \in Report /\ reader'.at = "next" /\ reader'.kept = reader.kept
          /\ reader'.rules = reader.rules /\ reader'.since = reader.since
          /\ reader'.counters = reader.counters /\ reader'.cursor = reader.cursor
      BY <1>1, <2>1 DEF Report
    <2>3. reader.cursor \notin KeysOf(table)
      <3>1. reader.cursor \in KeysOf(table) => i \in DOMAIN table
        BY <1>1, PositionIs
      <3>2. 0 \notin DOMAIN table
        BY <1>1 DEF Ordered
      <3> QED BY <1>4, <3>1, <3>2
    <2>4. \A k \in reader.kept \ DOMAIN reader.rules : Ahead(table, reader', k)
      <3>1. \A k \in reader.kept \ DOMAIN reader.rules : Ahead(table, reader, k)
        BY <1>3, <2>3
      <3> QED BY <2>2, <3>1, Zenon DEF Ahead
    <2>5. Order(table, reader')
      <3>1. reader'.at # "pass" /\ reader'.at = "next"
        BY <2>2
      <3> QED BY <1>3, <2>2, <2>4, <3>1, Zenon DEF Order
    <2>6. ReadOk(reader', CountOf(stat, "pass"), CountOf(stat, "drop"),
                 CountOf(stat, "redirect"))
      BY <1>1, <1>2, <2>2, ReadOn
    <2> QED BY <1>2, <2>2, <2>5, <2>6, ReaderInv
  <1>5. CASE i # 0
    <2> DEFINE n == pkt[table[i].elem]
               g == Listed(reader.rules, reader.cursor, n)
               b == CountOf(stat, "drop") + CountOf(stat, "redirect") + Cardinality(CPU)
    <2>1. reader' = [reader EXCEPT !.at = "next", !.rules = g]
      BY <1>5, Zenon DEF Lookup
    <2>2. i \in DOMAIN table /\ reader.cursor \in Key
      <3>1. reader.cursor \in KeysOf(table)
        BY <1>1, <1>5, PositionIs
      <3> QED BY <1>1, <3>1, PositionIs, OrderedKeys
    <2>3. table[i].elem \in Elem
      <3>1. table[i] \in Entry
        BY <1>1, <2>2 DEF Ordered
      <3> QED BY <3>1 DEF Entry
    <2>4. n \in Nat /\ b \in Nat /\ n <= b
      <3> DEFINE m == CountOf(stat, "drop") + CountOf(stat, "redirect")
                 q == Cardinality(InCount(cpu))
      <3>1. pkt \in [Elem -> Nat] /\ cpu \in [CPU -> Work]
        BY Zenon DEF IInv, DataInv
      <3>2. q \in Nat /\ q <= Cardinality(CPU) /\ Cardinality(CPU) \in Nat
        BY <3>1, InWork, ProcessorCount
      <3>3. m \in Nat
        BY <1>1
      <3>4. Held(pkt, cpu, m + q)
        BY Zenon DEF IInv, HeldInv
      <3>5. n \in Nat /\ n <= m + q
        BY <2>3, <3>1, <3>4 DEF Held
      <3>6. b = m + Cardinality(CPU)
        OBVIOUS
      <3> HIDE DEF m, q, n, b
      <3> QED BY <3>2, <3>3, <3>5, <3>6
    <2>5. reader.rules \in Listing
      BY <1>1, ReportIs
    <2> HIDE DEF i, n, b
    <2>6. Adds(g, reader.rules, reader.cursor, n)
      BY <2>2, <2>4, <2>5, ListingWith
    <2> HIDE DEF g
    <2>12. /\ g \in Listing /\ DOMAIN g = DOMAIN reader.rules \cup {reader.cursor}
          /\ g[reader.cursor] = n
          /\ \A l \in DOMAIN g : l # reader.cursor => g[l] = reader.rules[l]
      BY <2>6, Zenon DEF Adds
    <2>7. /\ reader' \in Report /\ reader'.at = "next" /\ reader'.kept = reader.kept
          /\ reader'.rules = g /\ reader'.since = reader.since
          /\ reader'.counters = reader.counters /\ reader'.cursor = reader.cursor
      BY <1>1, <2>1, <2>12 DEF Report
    <2>8. \A k \in reader.kept \ DOMAIN g : Ahead(table, reader', k)
      <3>1. \A k \in reader.kept \ DOMAIN g : Ahead(table, reader, k)
        BY <1>3, <2>12
      <3> QED BY <2>7, <3>1, Zenon DEF Ahead
    <2>9. Order(table, reader')
      <3>1. reader'.at # "pass" /\ reader'.at = "next"
        BY <2>7
      <3> QED BY <1>3, <2>7, <2>8, <3>1, Zenon DEF Order
    <2>10. Below(reader.rules, b) => Below(g, b)
      <3> SUFFICES ASSUME \A k \in DOMAIN reader.rules : reader.rules[k] <= b,
                          NEW l \in DOMAIN g
                   PROVE  g[l] <= b
        BY Zenon DEF Below
      <3>1. CASE l = reader.cursor
        BY <2>4, <2>12, <3>1
      <3>2. CASE l # reader.cursor
        <4>1. l \in DOMAIN reader.rules /\ g[l] = reader.rules[l]
          BY <2>12, <3>2
        <4> QED BY <4>1
      <3> QED BY <3>1, <3>2
    <2>11. ReadOk(reader', CountOf(stat, "pass"), CountOf(stat, "drop"),
                  CountOf(stat, "redirect"))
      BY <1>1, <1>2, <2>7, <2>10, ReadOn DEF b
    <2> QED BY <1>2, <2>7, <2>9, <2>11, ReaderInv
  <1> QED BY <1>4, <1>5

\* Report r with n for verdict v, and with s for since.
WithVerdict(r, v, next, s, n) ==
    [r EXCEPT !.at = next, !.kept = {}, !.since = s, !.counters[v] = n]

\* It is r elsewhere.
Reads(q, r, v, next, s, n) ==
    /\ q \in Report /\ q.at = next /\ q.rules = r.rules /\ q.since = s
    /\ q.counters[v] = n
    /\ \A w \in Verdict : w # v => q.counters[w] = r.counters[w]

LEMMA WithVerdictIs ==
    ASSUME NEW r \in Report, NEW v \in Verdict, NEW x \in {"drop", "redirect", "done"},
           NEW s \in Nat, NEW n \in Nat
    PROVE  Reads(WithVerdict(r, v, x, s, n), r, v, x, s, n)
  BY DEF WithVerdict, Report, Verdict, Reads

LEMMA readFromMapInv ==
    ASSUME IInv, ReadFromMap
    PROVE  IInv'
  <1> DEFINE p == CountOf(stat, "pass")
             d == CountOf(stat, "drop")
             x == CountOf(stat, "redirect")
             n == Cardinality(CPU)
             c == reader.counters
  <1>1. /\ reader \in Report /\ ReadOk(reader, p, d, x)
        /\ p \in Nat /\ d \in Nat /\ x \in Nat /\ n \in Nat
        /\ AllCounted \in Nat /\ AllCounted = p + d + x
    BY StartFacts, ProcessorCount
  <1>2. /\ reader.since \in Nat /\ c["pass"] \in Nat /\ c["drop"] \in Nat
        /\ c["redirect"] \in Nat
    BY <1>1, ReportIs
  <1>3. UNCHANGED plane
    BY Zenon DEF ReadFromMap, ReadVerdict
  <1>4. \A v : Sum([b \in CPU |-> stat[b][v]]) = CountOf(stat, v)
    BY Zenon DEF Sum, CountOf, Total
  <1>5. \A v, next, s : ReadVerdict(v, next, s) =>
            reader.at = v /\ reader' = WithVerdict(reader, v, next, s, CountOf(stat, v))
    BY <1>4, Zenon DEF ReadVerdict, WithVerdict
  <1>6. /\ c["pass"] <= p /\ c["drop"] <= d /\ c["redirect"] <= x
        /\ reader.at = "pass" => Below(reader.rules, d + x + n)
        /\ reader.at = "drop" => reader.since <= c["pass"] + d + x
                                    /\ Below(reader.rules, d + x + n)
        /\ reader.at = "redirect" => reader.since <= c["pass"] + c["drop"] + x
                                        /\ Below(reader.rules, c["drop"] + x + n)
    BY <1>1 DEF ReadOk
  <1>7. "pass" \in Verdict /\ "drop" \in Verdict /\ "redirect" \in Verdict
    BY DEF Verdict
  <1>8. ASSUME reader' \in Report, reader'.at \in {"drop", "redirect", "done"},
               ReadOk(reader', p, d, x)
        PROVE  IInv'
    <2>1. Order(table, reader')
      BY <1>8 DEF Order
    <2> QED BY <1>3, <1>8, <2>1, ReaderInv
  <1> HIDE DEF p, d, x, n, c
  <1>9. p <= p /\ d <= d /\ x <= x /\ AllCounted <= p + d + x
    BY <1>1
  <1>10. CASE ReadVerdict("pass", "drop", AllCounted)
    <2>1. reader.at = "pass" /\ reader' = WithVerdict(reader, "pass", "drop", AllCounted, p)
      BY <1>5, <1>10 DEF p
    <2>2. /\ reader' \in Report /\ reader'.at = "drop" /\ reader'.rules = reader.rules
          /\ reader'.since = AllCounted /\ reader'.counters["pass"] = p
          /\ reader'.counters["drop"] = c["drop"] /\ reader'.counters["redirect"] = c["redirect"]
      <3>1. reader.counters = c
        BY DEF c
      <3>2. /\ reader' \in Report /\ reader'.at = "drop" /\ reader'.rules = reader.rules
            /\ reader'.since = AllCounted /\ reader'.counters["pass"] = p
            /\ \A w \in Verdict : w # "pass" => reader'.counters[w] = reader.counters[w]
        <4>1. Reads(reader', reader, "pass", "drop", AllCounted, p)
          BY <1>1, <1>7, <2>1, WithVerdictIs
        <4> QED BY <4>1, Zenon DEF Reads
      <3>3. "drop" # "pass" /\ "redirect" # "pass"
        OBVIOUS
      <3> QED BY <1>7, <3>1, <3>2, <3>3, Zenon
    <2>3. ReadOk(reader', p, d, x)
      BY <1>6, <1>9, <2>1, <2>2 DEF ReadOk, n
    <2> QED BY <1>8, <2>2, <2>3
  <1>11. CASE ReadVerdict("drop", "redirect", reader.since)
    <2>1. reader.at = "drop" /\ reader' = WithVerdict(reader, "drop", "redirect", reader.since, d)
      BY <1>5, <1>11 DEF d
    <2>2. /\ reader' \in Report /\ reader'.at = "redirect" /\ reader'.rules = reader.rules
          /\ reader'.since = reader.since /\ reader'.counters["drop"] = d
          /\ reader'.counters["pass"] = c["pass"] /\ reader'.counters["redirect"] = c["redirect"]
      <3>1. reader.counters = c
        BY DEF c
      <3>2. /\ reader' \in Report /\ reader'.at = "redirect" /\ reader'.rules = reader.rules
            /\ reader'.since = reader.since /\ reader'.counters["drop"] = d
            /\ \A w \in Verdict : w # "drop" => reader'.counters[w] = reader.counters[w]
        <4>1. Reads(reader', reader, "drop", "redirect", reader.since, d)
          BY <1>1, <1>2, <1>7, <2>1, WithVerdictIs
        <4> QED BY <4>1, Zenon DEF Reads
      <3>3. "pass" # "drop" /\ "redirect" # "drop"
        OBVIOUS
      <3> QED BY <1>7, <3>1, <3>2, <3>3, Zenon
    <2>3. ReadOk(reader', p, d, x)
      BY <1>6, <1>9, <2>1, <2>2 DEF ReadOk, n
    <2> QED BY <1>8, <2>2, <2>3
  <1>12. CASE ReadVerdict("redirect", "done", reader.since)
    <2>1. reader.at = "redirect" /\ reader' = WithVerdict(reader, "redirect", "done", reader.since, x)
      BY <1>5, <1>12 DEF x
    <2>2. /\ reader' \in Report /\ reader'.at = "done" /\ reader'.rules = reader.rules
          /\ reader'.since = reader.since /\ reader'.counters["redirect"] = x
          /\ reader'.counters["pass"] = c["pass"] /\ reader'.counters["drop"] = c["drop"]
      <3>1. reader.counters = c
        BY DEF c
      <3>2. /\ reader' \in Report /\ reader'.at = "done" /\ reader'.rules = reader.rules
            /\ reader'.since = reader.since /\ reader'.counters["redirect"] = x
            /\ \A w \in Verdict : w # "redirect" => reader'.counters[w] = reader.counters[w]
        <4>1. Reads(reader', reader, "redirect", "done", reader.since, x)
          BY <1>1, <1>2, <1>7, <2>1, WithVerdictIs
        <4> QED BY <4>1, Zenon DEF Reads
      <3>3. "pass" # "redirect" /\ "drop" # "redirect"
        OBVIOUS
      <3> QED BY <1>7, <3>1, <3>2, <3>3, Zenon
    <2>3. ReadOk(reader', p, d, x)
      BY <1>6, <1>9, <2>1, <2>2 DEF ReadOk, n
    <2> QED BY <1>8, <2>2, <2>3
  <1> QED BY <1>10, <1>11, <1>12, Zenon DEF ReadFromMap

-----------------------------------------------------------------------------
(* Theorems *)

\* Nothing is counted of counters that are zero.
LEMMA ZeroTotal ==
    ASSUME NEW S, IsFiniteSet(S), NEW f \in [S -> Nat], \A s \in S : f[s] = 0
    PROVE  Total(f) = 0
  <1> DEFINE F == Sums(f, S)
             Bad == {s \in SUBSET S : F[s] # 0}
  <1>1. /\ \A s \in SUBSET S : F[s] = AddOne(f, F, s)
        /\ Total(f) = F[S]
    BY SumsType, TotalType
  <1> HIDE DEF F
  <1>2. Bad = {}
    <2> SUFFICES ASSUME Bad # {} PROVE FALSE
      OBVIOUS
    <2>1. PICK s \in Bad : \A x \in s : s \ {x} \notin Bad
      BY SmallestSubset
    <2>2. CASE s = {}
      BY <1>1, <2>2 DEF AddOne
    <2>3. CASE s # {}
      <3>1. Pick(s) \in s
        BY <2>3, PickIn
      <3>2. F[s \ {Pick(s)}] = 0 /\ f[Pick(s)] = 0
        BY <2>1, <3>1
      <3>3. s \in SUBSET S /\ F[s] # 0
        BY <2>1
      <3>4. F[s] = f[Pick(s)] + F[s \ {Pick(s)}]
        BY <1>1, <2>3, <3>3, Zenon DEF AddOne
      <3> QED BY <3>2, <3>3, <3>4
    <2> QED BY <2>2, <2>3
  <1> QED BY <1>1, <1>2

LEMMA initInv == Init => IInv
  <1> SUFFICES ASSUME Init PROVE IInv
    OBVIOUS
  <1>0. /\ table = <<>> /\ pkt = [e \in Elem |-> 0] /\ stat = [c \in CPU |-> Zero]
        /\ cpu = [c \in CPU |-> Idle] /\ packets = 0 /\ reader = NoRead
    BY Zenon DEF Init
  <1>1. Ordered(table) /\ pkt \in [Elem -> Nat]
    BY <1>0 DEF Ordered
  <1>2. stat \in [CPU -> [Verdict -> Nat]] /\ \A c \in CPU : stat[c] = Zero
    BY <1>0 DEF Zero
  <1>3. /\ Zero["pass"] = 0 /\ Zero["drop"] = 0 /\ Zero["redirect"] = 0
    BY DEF Zero, Verdict
  <1>4. cpu \in [CPU -> Work] /\ \A c \in CPU : cpu[c].at = "idle"
    BY <1>0 DEF Idle, Doing, Work
  <1>5. \A v \in Verdict : CountOf(stat, v) \in Nat /\ CountOf(stat, v) = 0
    <2> SUFFICES ASSUME NEW v \in Verdict PROVE CountOf(stat, v) = 0
      BY <1>2, CountOfType
    <2> DEFINE f == [c \in CPU |-> stat[c][v]]
    <2>1. f \in [CPU -> Nat] /\ \A c \in CPU : f[c] = 0
      BY <1>2 DEF Zero
    <2> HIDE DEF f
    <2>2. Total(f) = 0
      BY <2>1, ZeroTotal, MonitorAssumption
    <2> QED BY <2>2 DEF CountOf, f
  <1>6. /\ CountOf(stat, "pass") = 0 /\ CountOf(stat, "drop") = 0
        /\ CountOf(stat, "redirect") = 0
    BY <1>5 DEF Verdict
  <1>7. reader \in Report /\ Order(table, reader) /\ ReadOk(reader, 0, 0, 0)
    <2>1. reader = Fresh("idle", 0, {}) /\ {} \in SUBSET Key
      BY <1>0, Zenon DEF Fresh, NoRead
    <2> QED BY <1>1, <2>1, FreshOk
  <1>8. DataInv
    <2>1. packets \in 0 .. MaxPackets
      BY <1>0, MonitorAssumption
    <2> QED BY <1>1, <1>2, <1>4, <1>7, <2>1 DEF DataInv
  <1>9. ShareInv
    BY <1>0, <1>2, <1>3, <1>4 DEF ShareInv, Share
  <1>10. HeldInv
    <2>1. InRule(cpu) = {} /\ InCount(cpu) = {}
      BY <1>4 DEF InRule, InCount
    <2>2. Cardinality({}) = 0
      BY FS_EmptySet
    <2>3. Held(pkt, cpu, 0)
      BY <1>0, <1>4 DEF Held
    <2>4. /\ packets - Cardinality(InRule(cpu)) = 0
          /\ CountOf(stat, "drop") + CountOf(stat, "redirect") + Cardinality(InCount(cpu)) = 0
      <3>1. Cardinality(InRule(cpu)) = 0 /\ Cardinality(InCount(cpu)) = 0
        BY <2>1, <2>2
      <3> QED BY <1>0, <1>6, <3>1
    <2> QED BY <2>3, <2>4, Zenon DEF HeldInv
  <1>11. OrderInv /\ ReadInv
    BY <1>6, <1>7, Zenon DEF OrderInv, ReadInv
  <1> QED BY <1>8, <1>9, <1>10, <1>11 DEF IInv

LEMMA stepInv == IInv /\ [Next]_vars => IInv'
  <1> SUFFICES ASSUME IInv, [Next]_vars PROVE IInv'
    OBVIOUS
  <1>1. ASSUME NEW c \in CPU, Arrive(c) PROVE IInv'
    BY <1>1, arriveInv
  <1>2. ASSUME NEW c \in CPU, bump_rule(c) PROVE IInv'
    BY <1>2, bumpRuleInv
  <1>3. ASSUME NEW c \in CPU, bump_stats(c) PROVE IInv'
    BY <1>3, bumpStatsInv
  <1>4. ASSUME NEW k \in Key, Put(k) PROVE IInv'
    BY <1>4, putInv
  <1>5. ASSUME NEW k \in Key, Delete(k) PROVE IInv'
    BY <1>5, deleteInv
  <1>6. CASE Begin \/ BeginStats
    BY <1>6, beginInv
  <1>7. CASE Advance
    BY <1>7, advanceInv
  <1>8. CASE Lookup
    BY <1>8, lookupInv
  <1>9. CASE Abort \/ Fail \/ Show \/ ShowList
    BY <1>9, endInv
  <1>10. CASE ReadFromMap
    BY <1>10, readFromMapInv
  <1>11. CASE UNCHANGED vars
    <2>1. UNCHANGED plane /\ reader' = reader
      BY <1>11 DEF vars, plane
    <2>2. /\ reader \in Report /\ Order(table, reader)
          /\ ReadOk(reader, CountOf(stat, "pass"), CountOf(stat, "drop"),
                    CountOf(stat, "redirect"))
      BY StartFacts
    <2> QED BY <2>1, <2>2, ReaderInv
  <1> QED BY <1>1, <1>2, <1>3, <1>4, <1>5, <1>6, <1>7, <1>8, <1>9, <1>10, <1>11, Zenon DEF Next

\* The inductive invariant: what the table, the counters, the CPUs and the report
\* are in every state of list, stats and the dashboard beside XDP.
THEOREM Invariant == Spec => []IInv
  BY initInv, stepInv, PTL DEF Spec

\* A CPU has counted no more than the packets that came.
LEMMA StatBound ==
    ASSUME IInv, NEW c \in CPU, NEW v \in Verdict
    PROVE  stat[c][v] \in 0 .. MaxPackets
  <1>1. stat \in [CPU -> [Verdict -> Nat]] /\ packets \in 0 .. MaxPackets
    BY Zenon DEF IInv, DataInv
  <1>2. /\ stat[c]["pass"] \in Nat /\ stat[c]["drop"] \in Nat /\ stat[c]["redirect"] \in Nat
    BY <1>1 DEF Verdict
  <1>3. stat[c]["pass"] + stat[c]["drop"] + stat[c]["redirect"]
            + (IF cpu[c].at = "idle" THEN 0 ELSE 1) <= packets
    BY DEF IInv, ShareInv, Share
  <1>4. /\ stat[c]["pass"] <= packets /\ stat[c]["drop"] <= packets
        /\ stat[c]["redirect"] <= packets
    BY <1>1, <1>2, <1>3
  <1>5. v = "pass" \/ v = "drop" \/ v = "redirect"
    BY DEF Verdict
  <1> QED BY <1>1, <1>2, <1>4, <1>5, MonitorAssumption

\* The types of Monitor hold; in particular no counter, shared or of a CPU, is above
\* the number of packets that came, in whatever way bump_rule's updates overlap.
THEOREM TypeCorrect == Spec => []TypeOK
  <1>1. IInv => TypeOK
    <2> SUFFICES ASSUME IInv PROVE TypeOK
      OBVIOUS
    <2>1. /\ Ordered(table) /\ pkt \in [Elem -> Nat] /\ stat \in [CPU -> [Verdict -> Nat]]
          /\ cpu \in [CPU -> Work] /\ packets \in 0 .. MaxPackets /\ reader \in Report
      BY Zenon DEF IInv, DataInv
    <2>2. \A i \in DOMAIN table : table[i] \in [key : Key, elem : Elem]
      <3>1. \A i \in DOMAIN table : table[i] \in Entry
        BY <2>1 DEF Ordered
      <3> QED BY <3>1, Zenon DEF Entry
    <2>3. pkt \in [Elem -> 0 .. MaxPackets]
      <3>1. Cardinality(InRule(cpu)) \in Nat
        BY <2>1, InWork
      <3>2. Held(pkt, cpu, packets - Cardinality(InRule(cpu)))
        BY Zenon DEF IInv, HeldInv
      <3>3. ASSUME NEW e \in Elem PROVE pkt[e] \in 0 .. MaxPackets
        <4>1. pkt[e] \in Nat /\ pkt[e] <= packets - Cardinality(InRule(cpu))
          BY <2>1, <3>2 DEF Held
        <4> QED BY <2>1, <3>1, <4>1, MonitorAssumption
      <3> QED BY <2>1, <3>3
    <2>4. stat \in [CPU -> [Verdict -> 0 .. MaxPackets]]
      <3>1. \A c \in CPU, v \in Verdict : stat[c][v] \in 0 .. MaxPackets
        BY StatBound
      <3> QED BY <2>1, <3>1
    <2>5. \A c \in CPU : cpu[c].at \in {"idle", "load", "store", "count"}
      BY <2>1 DEF Work
    <2>6. /\ reader.at \in {"idle", "next", "value", "done"} \cup Verdict
          /\ reader.cursor \in Key \cup {NoKey} /\ reader.count \in 0 .. MaxEntries + 1
          /\ reader.kept \subseteq Key
      BY <2>1 DEF Report, Verdict
    <2> QED BY <2>1, <2>2, <2>3, <2>4, <2>5, <2>6 DEF TypeOK
  <1> QED BY <1>1, Invariant, PTL

\* ReadFromMap's totals are true though the verdicts are read one after the other
\* while XDP counts on every CPU: together no less than what was counted before
\* the first was read, and none above what is counted now.
THEOREM TotalsTrueHolds == Spec => []TotalsTrue
  <1>1. IInv => TotalsTrue
    <2> SUFFICES ASSUME IInv, reader.at = "done"
                 PROVE  /\ reader.since <= FoldFunction(+, 0, reader.counters)
                        /\ \A v \in Verdict : reader.counters[v] <= Counted(v)
      BY Zenon DEF TotalsTrue
    <2> DEFINE c == reader.counters
    <2>1. /\ reader \in Report
          /\ ReadOk(reader, CountOf(stat, "pass"), CountOf(stat, "drop"),
                    CountOf(stat, "redirect"))
      BY StartFacts
    <2>2. c \in [Verdict -> Nat]
      BY <2>1 DEF Report
    <2>3. /\ c["pass"] <= CountOf(stat, "pass") /\ c["drop"] <= CountOf(stat, "drop")
          /\ c["redirect"] <= CountOf(stat, "redirect")
          /\ reader.since <= c["pass"] + c["drop"] + c["redirect"]
      BY <2>1, Zenon DEF ReadOk
    <2> HIDE DEF c
    <2>4. Total(c) = c["pass"] + c["drop"] + c["redirect"]
      BY <2>2, ThreeTotal
    <2>5. reader.since <= Total(c)
      BY <2>3, <2>4, Zenon
    <2>6. \A v \in Verdict : c[v] <= CountOf(stat, v)
      BY <2>3 DEF Verdict
    <2>7. \A v \in Verdict : c[v] <= Counted(v)
      BY <2>6, CountedIs, Zenon
    <2> QED BY <2>5, <2>7, Zenon DEF Total, c
  <1> QED BY <1>1, Invariant, PTL

\* TeidMap.List leaves out no rule that was there and stayed untouched, whatever
\* other operators add, replace and delete around the iterator.
THEOREM ListCompleteHolds == Spec => []ListComplete
  <1>1. IInv => ListComplete
    BY Zenon DEF IInv, OrderInv, Order, ListComplete
  <1> QED BY <1>1, Invariant, PTL

\* A report's rules agree with its totals: no rule claims more packets than were
\* dropped and redirected, but for one that each CPU has in hand.
THEOREM RulesWithinTotalsHolds == Spec => []RulesWithinTotals
  <1>1. IInv => RulesWithinTotals
    <2> SUFFICES ASSUME IInv, reader.at = "done"
                 PROVE  \A k \in DOMAIN reader.rules :
                            reader.rules[k] <= reader.counters["drop"]
                                + reader.counters["redirect"] + Cardinality(CPU)
      BY Zenon DEF RulesWithinTotals
    <2>1. ReadOk(reader, CountOf(stat, "pass"), CountOf(stat, "drop"),
                 CountOf(stat, "redirect"))
      BY StartFacts
    <2> QED BY <2>1, Zenon DEF ReadOk, Below
  <1> QED BY <1>1, Invariant, PTL

=============================================================================
