--------------------------- MODULE DashboardProofs --------------------------
(* Theorems about Dashboard, for any keys, rules, default rules and fetches. *)
EXTENDS Dashboard, FiniteSetTheorems, SequenceTheorems, NaturalsInduction,
        WellFoundedInduction, TLAPS

-----------------------------------------------------------------------------
(* Sorted rows *)

\* Induction over the naturals, as the existence of a least element.
LEMMA LeastNat ==
    ASSUME NEW T \in SUBSET Nat, T # {}
    PROVE  \E n \in T : \A m \in T : n <= m
  <1> DEFINE R == OpToRel(<, Nat)
  <1>1. IsWellFoundedOn(R, Nat)
    BY NatLessThanWellFounded
  <1>2. \A x, y \in Nat : y < x => <<y, x>> \in R
    BY DEF OpToRel
  <1> HIDE DEF R
  <1>3. PICK x \in T : \A y \in T : ~(<<y, x>> \in R)
    BY <1>1, WFMin
  <1>4. \A y \in T : ~(y < x)
    BY <1>2, <1>3
  <1> QED BY <1>4

\* A set of subsets of a finite set has one that is least in size.
LEMMA SmallestSubset ==
    ASSUME NEW S, IsFiniteSet(S), NEW B \in SUBSET (SUBSET S), B # {}
    PROVE  \E s \in B : /\ IsFiniteSet(s)
                        /\ \A x \in s : s \ {x} \notin B
  <1> DEFINE C == {n \in Nat : \E s \in B : n = Cardinality(s)}
  <1>1. \A s \in B : IsFiniteSet(s) /\ Cardinality(s) \in Nat
    BY FS_Subset, FS_CardinalityType
  <1>2. C \in SUBSET Nat /\ C # {}
    BY <1>1
  <1>3. PICK n \in C : \A m \in C : n <= m
    BY <1>2, LeastNat
  <1>4. PICK s \in B : n = Cardinality(s)
    BY <1>3
  <1>5. ASSUME NEW x \in s, s \ {x} \in B PROVE FALSE
    <2>1. Cardinality(s \ {x}) = Cardinality(s) - 1
      BY <1>1, FS_RemoveElement
    <2>2. Cardinality(s \ {x}) \in C
      BY <1>1, <1>5
    <2>3. n \in Nat /\ n <= n - 1
      BY <1>1, <1>3, <1>4, <2>1, <2>2
    <2> QED BY <2>3
  <1> QED BY <1>1, <1>4, <1>5

Increasing(ks) == \A i, j \in DOMAIN ks : i < j => ks[i] < ks[j]

\* ks lists the keys of set s in their order.
Sorts(ks, s) == ks \in [1 .. Cardinality(s) -> s] /\ Increasing(ks)

\* x before the n - 1 entries of g.
Prepend(x, g, n) == [i \in 1 .. n |-> IF i = 1 THEN x ELSE g[i - 1]]

LEMMA PrependSorts ==
    ASSUME NEW s \in SUBSET Nat, IsFiniteSet(s), NEW x \in s, \A y \in s : x <= y,
           NEW g, Sorts(g, s \ {x})
    PROVE  Sorts(Prepend(x, g, Cardinality(s)), s)
  <1> DEFINE n == Cardinality(s)
             h == Prepend(x, g, n)
  <1>1. n \in Nat /\ Cardinality(s \ {x}) = n - 1
    BY FS_CardinalityType, FS_RemoveElement
  <1>2. g \in [1 .. n - 1 -> s \ {x}]
    BY <1>1 DEF Sorts
  <1>3. \A i, j \in 1 .. n - 1 : i < j => g[i] < g[j]
    BY <1>2 DEF Sorts, Increasing
  <1> HIDE DEF n
  <1>4. h \in [1 .. n -> s]
    <2> SUFFICES ASSUME NEW i \in 1 .. n PROVE (IF i = 1 THEN x ELSE g[i - 1]) \in s
      BY DEF Prepend
    <2>1. CASE i = 1
      BY <2>1
    <2>2. CASE i # 1
      <3>1. i - 1 \in 1 .. n - 1
        BY <1>1, <2>2
      <3> QED BY <1>2, <2>2, <3>1
    <2> QED BY <2>1, <2>2
  <1>5. ASSUME NEW i \in 1 .. n, NEW j \in 1 .. n, i < j PROVE h[i] < h[j]
    <2>1. j - 1 \in 1 .. n - 1 /\ j # 1
      BY <1>1, <1>5
    <2>2. h[j] = g[j - 1] /\ g[j - 1] \in s \ {x}
      BY <1>2, <2>1 DEF Prepend
    <2>3. CASE i = 1
      <3>1. h[i] = x
        BY <2>3 DEF Prepend
      <3>2. x \in Nat /\ g[j - 1] \in Nat /\ x # g[j - 1] /\ x <= g[j - 1]
        BY <2>2
      <3> QED BY <2>2, <3>1, <3>2
    <2>4. CASE i # 1
      <3>1. i - 1 \in 1 .. n - 1 /\ i - 1 < j - 1
        BY <1>1, <1>5, <2>4
      <3>2. h[i] = g[i - 1]
        BY <2>4 DEF Prepend
      <3> QED BY <1>3, <2>1, <2>2, <3>1, <3>2
    <2> QED BY <2>3, <2>4
  <1> HIDE DEF h
  <1>6. Sorts(h, s)
    BY <1>4, <1>5 DEF Sorts, Increasing, n
  <1> QED BY <1>6 DEF h, n

\* Keys can be sorted.
LEMMA SortedExists ==
    ASSUME NEW S \in SUBSET Nat, IsFiniteSet(S)
    PROVE  \E ks : Sorts(ks, S)
  <1> DEFINE Bad == {s \in SUBSET S : ~\E ks : Sorts(ks, s)}
  <1>1. Bad = {}
    <2> SUFFICES ASSUME Bad # {} PROVE FALSE
      OBVIOUS
    <2>1. PICK s \in Bad : IsFiniteSet(s) /\ \A x \in s : s \ {x} \notin Bad
      BY SmallestSubset
    <2>2. CASE s = {}
      <3> DEFINE e == [i \in 1 .. 0 |-> 0]
      <3>1. Cardinality(s) = 0
        BY <2>2, FS_EmptySet
      <3>2. e \in [1 .. 0 -> s] /\ Increasing(e)
        BY <2>2 DEF Increasing
      <3>3. Sorts(e, s)
        BY <3>1, <3>2 DEF Sorts
      <3> HIDE DEF e
      <3> QED BY <2>1, <3>3
    <2>3. CASE s # {}
      <3>1. s \in SUBSET Nat
        BY <2>1
      <3>2. PICK x \in s : \A y \in s : x <= y
        BY <2>3, <3>1, LeastNat
      <3>3. PICK g : Sorts(g, s \ {x})
        BY <2>1, <3>2
      <3>4. Sorts(Prepend(x, g, Cardinality(s)), s)
        BY <2>1, <3>1, <3>2, <3>3, PrependSorts
      <3> QED BY <2>1, <3>4
    <2> QED BY <2>2, <2>3
  <1> QED BY <1>1

LEMMA buildRowsSorts ==
    ASSUME NEW t
    PROVE  Sorts(buildRows(t), Entries(t))
  <1> DEFINE E == Entries(t)
  <1>1. E \in SUBSET Nat /\ IsFiniteSet(E)
    BY DashboardAssumption, FS_Subset DEF Entries
  <1>2. \E ks : Sorts(ks, E)
    BY <1>1, SortedExists
  <1>3. \E ks \in [1 .. Cardinality(E) -> E] :
            \A i, j \in DOMAIN ks : i < j => ks[i] < ks[j]
    BY <1>2, Zenon DEF Sorts, Increasing
  <1> HIDE DEF E
  <1>4. buildRows(t) = CHOOSE ks \in [1 .. Cardinality(E) -> E] :
                           \A i, j \in DOMAIN ks : i < j => ks[i] < ks[j]
    BY Zenon DEF buildRows, E
  <1>5. Sorts(buildRows(t), E)
    BY <1>3, <1>4, Zenon DEF Sorts, Increasing
  <1> QED BY <1>5 DEF E

LEMMA RowsAre ==
    ASSUME NEW t, NEW ks, Sorts(ks, Entries(t))
    PROVE  /\ ks \in Seq(Entries(t)) /\ Len(ks) \in Nat /\ DOMAIN ks = 1 .. Len(ks)
           /\ \A i \in 1 .. Len(ks) : ks[i] \in Entries(t)
           /\ ks # <<>> => Len(ks) > 0
  <1> DEFINE E == Entries(t)
             n == Cardinality(E)
  <1>1. IsFiniteSet(E)
    BY DashboardAssumption, FS_Subset DEF Entries
  <1>2. n \in Nat
    BY <1>1, FS_CardinalityType
  <1>3. ks \in [1 .. n -> E]
    BY DEF Sorts
  <1> HIDE DEF n, E
  <1>4. ks \in Seq(E)
    BY <1>2, <1>3, SeqDef
  <1>5. Len(ks) \in Nat /\ DOMAIN ks = 1 .. Len(ks) /\ \A i \in 1 .. Len(ks) : ks[i] \in E
    BY <1>4
  <1>6. ks # <<>> => Len(ks) > 0
    BY <1>4, <1>5, EmptySeq
  <1> QED BY <1>4, <1>5, <1>6 DEF E

-----------------------------------------------------------------------------
(* The invariant *)

Fetched == [read : SUBSET Panel, tables : [Panel -> Table]]

DataInv ==
    /\ live \in [Panel -> Table]
    /\ fetches \in [Slot -> Fetched \cup {NoFetch}]
    /\ focus \in Panel
    /\ mode \in {"view", "form", "confirm", "help", "quit"}
    /\ err \in BOOLEAN
    /\ changes \in 0 .. MaxChanges

\* The rows of a panel are the sorted keys of the result that was handled last, with
\* the cursor on one of them.
RowsInv ==
    /\ last \in [Panel -> Table]
    /\ keys \in [Panel -> Seq(Key)]
    /\ selected \in [Panel -> Nat]
    /\ \A p \in Panel : Sorts(keys[p], Entries(last[p]))
    /\ \A p \in Panel : keys[p] # <<>> => selected[p] < Len(keys[p])

\* A form or a prompt knows the rule that it was opened on, and no other.
TargetInv ==
    mode \in {"form", "confirm"} =>
        /\ target.panel \in Panel /\ target.key \subseteq Key
        /\ asked = {<<target.panel, k>> : k \in target.key}

IInv == DataInv /\ RowsInv /\ TargetInv

-----------------------------------------------------------------------------
(* Fetches *)

LEMMA NewFetchType == NewFetch \in Fetched /\ Empty \in Table
  BY DEF NewFetch, Fetched, Empty, Table

LEMMA fetchCmdType ==
    ASSUME DataInv, fetchCmd \/ UNCHANGED fetches
    PROVE  fetches' \in [Slot -> Fetched \cup {NoFetch}]
  <1>1. fetches \in [Slot -> Fetched \cup {NoFetch}] /\ NewFetch \in Fetched
    BY NewFetchType DEF DataInv
  <1>2. CASE UNCHANGED fetches
    BY <1>1, <1>2
  <1>3. CASE fetchCmd
    <2> DEFINE i == Min(Free)
    <2>1. fetches' = fetches \/ fetches' = [fetches EXCEPT ![i] = NewFetch]
      BY <1>3, Zenon DEF fetchCmd
    <2> HIDE DEF i
    <2> QED BY <1>1, <2>1
  <1> QED BY <1>2, <1>3

\* What a fetch that has begun is.
LEMMA FetchIs ==
    ASSUME DataInv, NEW i \in Slot, fetches[i].read \in {{}, {"teid"}, Panel}
    PROVE  fetches[i] \in Fetched
  <1>1. fetches[i] \in Fetched \/ fetches[i] = NoFetch
    BY DEF DataInv
  <1>2. NoFetch.read = {"none"}
    BY DEF NoFetch
  <1>3. {"none"} \notin {{}, {"teid"}, Panel}
    BY DEF Panel
  <1> QED BY <1>1, <1>2, <1>3

LEMMA readTableInv ==
    ASSUME IInv, NEW i \in Slot, NEW p \in Panel, ReadTable(i, p)
    PROVE  IInv'
  <1>1. /\ fetches[i].read \in {{}, {"teid"}, Panel}
        /\ fetches' = [fetches EXCEPT ![i].read = @ \cup {p}, ![i].tables[p] = live[p]]
    BY DEF ReadTable
  <1>2. UNCHANGED <<live, data, ui, changes>>
    BY DEF ReadTable
  <1>3. fetches[i] \in Fetched
    BY <1>1, FetchIs DEF IInv
  <1>4. fetches \in [Slot -> Fetched \cup {NoFetch}] /\ live[p] \in Table
    BY DEF IInv, DataInv
  <1>5. [fetches[i] EXCEPT !.read = @ \cup {p}, !.tables[p] = live[p]] \in Fetched
    BY <1>3, <1>4 DEF Fetched
  <1>6. fetches' = [fetches EXCEPT ![i] =
                       [fetches[i] EXCEPT !.read = @ \cup {p}, !.tables[p] = live[p]]]
    BY <1>1, <1>3, <1>4 DEF Fetched
  <1>7. fetches' \in [Slot -> Fetched \cup {NoFetch}]
    BY <1>4, <1>5, <1>6
  <1> QED BY <1>2, <1>7 DEF IInv, DataInv, RowsInv, TargetInv, data, ui

\* The step leaves the panels alone, or the sub-view.
LEMMA RowsSame == ASSUME RowsInv, UNCHANGED <<last, keys, selected>> PROVE RowsInv'
  BY DEF RowsInv

LEMMA TargetSame == ASSUME TargetInv, UNCHANGED ui PROVE TargetInv'
  BY DEF TargetInv, ui

LEMMA tickInv ==
    ASSUME IInv, Tick
    PROVE  IInv'
  <1>1. fetches' \in [Slot -> Fetched \cup {NoFetch}]
    BY fetchCmdType DEF IInv, Tick
  <1>2. UNCHANGED <<live, data, ui, changes>>
    BY DEF Tick
  <1> QED BY <1>1, <1>2 DEF IInv, DataInv, RowsInv, TargetInv, data, ui

LEMMA fetchFailsInv ==
    ASSUME IInv, NEW i \in Slot, FetchFails(i)
    PROVE  IInv'
  <1>1. /\ changes \in 0 .. MaxChanges /\ fetches \in [Slot -> Fetched \cup {NoFetch}]
        /\ MaxChanges \in Nat
    BY DashboardAssumption DEF IInv, DataInv
  <1>2. changes' \in 0 .. MaxChanges /\ fetches' \in [Slot -> Fetched \cup {NoFetch}]
    BY <1>1 DEF FetchFails
  <1>3. err' = TRUE /\ UNCHANGED <<live, last, keys, selected, ui>>
    BY DEF FetchFails
  <1> QED BY <1>2, <1>3, RowsSame, TargetSame DEF IInv, DataInv, ui

\* The selection is on a row, if there is one.
LEMMA ReselectedIs ==
    ASSUME NEW sel \in Nat, NEW ks, Len(ks) \in Nat
    PROVE  Reselected(sel, ks) \in Nat /\ (Len(ks) > 0 => Reselected(sel, ks) < Len(ks))
  BY DEF Reselected, clamp

LEMMA deliverInv ==
    ASSUME IInv, NEW i \in Slot, Deliver(i)
    PROVE  IInv'
  <1>1. fetches[i] \in Fetched
    BY FetchIs DEF IInv, Deliver
  <1>2. fetches \in [Slot -> Fetched \cup {NoFetch}] /\ selected \in [Panel -> Nat]
    BY DEF IInv, DataInv, RowsInv
  <1>3. fetches' \in [Slot -> Fetched \cup {NoFetch}]
    BY <1>2 DEF Deliver
  <1>4. err' = FALSE /\ UNCHANGED <<live, ui, changes>>
    BY DEF Deliver
  <1>5. last' \in [Panel -> Table]
    BY <1>1 DEF Deliver, Fetched
  <1>6. /\ keys' = [p \in Panel |-> buildRows(last'[p])]
        /\ selected' = [p \in Panel |-> Reselected(selected[p], keys'[p])]
    BY Zenon DEF Deliver
  <1>7. \A p \in Panel : keys'[p] = buildRows(last'[p])
                            /\ selected'[p] = Reselected(selected[p], keys'[p])
    BY <1>6
  <1>8. \A p \in Panel : Sorts(keys'[p], Entries(last'[p]))
    BY <1>7, buildRowsSorts
  <1>9. \A p \in Panel : /\ keys'[p] \in Seq(Key) /\ Len(keys'[p]) \in Nat
                         /\ keys'[p] # <<>> => Len(keys'[p]) > 0
    <2> SUFFICES ASSUME NEW p \in Panel
                 PROVE  /\ keys'[p] \in Seq(Key) /\ Len(keys'[p]) \in Nat
                        /\ keys'[p] # <<>> => Len(keys'[p]) > 0
      OBVIOUS
    <2>1. /\ keys'[p] \in Seq(Entries(last'[p])) /\ Len(keys'[p]) \in Nat
          /\ keys'[p] # <<>> => Len(keys'[p]) > 0
      BY <1>8, RowsAre
    <2>2. Entries(last'[p]) \subseteq Key
      BY DEF Entries
    <2> QED BY <2>1, <2>2
  <1>10. \A p \in Panel : selected'[p] \in Nat
                             /\ (keys'[p] # <<>> => selected'[p] < Len(keys'[p]))
    BY <1>2, <1>7, <1>9, ReselectedIs
  <1>11. keys' \in [Panel -> Seq(Key)] /\ selected' \in [Panel -> Nat]
    BY <1>6, <1>9, <1>10
  <1>12. RowsInv'
    BY <1>5, <1>8, <1>10, <1>11, Zenon DEF RowsInv
  <1> QED BY <1>3, <1>4, <1>12, TargetSame DEF IInv, DataInv, ui

-----------------------------------------------------------------------------
(* Keys *)

LEMMA moveSelectionInv ==
    ASSUME IInv, NEW d \in {-1, 1}, moveSelection(d)
    PROVE  IInv'
  <1>1. /\ selected \in [Panel -> Nat] /\ focus \in Panel
        /\ \A p \in Panel : Sorts(keys[p], Entries(last[p]))
        /\ \A p \in Panel : keys[p] # <<>> => selected[p] < Len(keys[p])
    BY Zenon DEF IInv, DataInv, RowsInv
  <1>2. UNCHANGED <<live, fetches, last, keys, err, ui, changes>> /\ keys[focus] # <<>>
    BY DEF moveSelection
  <1> DEFINE n == Len(keys[focus])
             s == clamp(selected[focus] + d, 0, n - 1)
  <1>3. selected' = [selected EXCEPT ![focus] = s]
    BY Zenon DEF moveSelection
  <1>4. n \in Nat /\ n > 0
    BY <1>1, <1>2, RowsAre
  <1>5. selected[focus] \in Nat
    BY <1>1
  <1> HIDE DEF n
  <1>6. s \in Nat /\ s < n
    BY <1>4, <1>5 DEF clamp
  <1> HIDE DEF s
  <1>7. selected' \in [Panel -> Nat]
    BY <1>1, <1>3, <1>6
  <1>8. \A p \in Panel : keys[p] # <<>> => selected'[p] < Len(keys[p])
    BY <1>1, <1>3, <1>6 DEF n
  <1>9. RowsInv'
    BY <1>2, <1>7, <1>8 DEF IInv, RowsInv
  <1> QED BY <1>2, <1>9, TargetSame DEF IInv, DataInv, ui

\* The key under the cursor is one.
LEMMA selectedRuleType ==
    ASSUME IInv
    PROVE  selectedRule \subseteq Key
  <1>1. CASE selected[focus] < Len(keys[focus])
    <2>1. keys[focus] \in Seq(Key) /\ selected[focus] \in Nat
      BY DEF IInv, DataInv, RowsInv
    <2>2. selected[focus] + 1 \in 1 .. Len(keys[focus])
      BY <1>1, <2>1
    <2>3. keys[focus][selected[focus] + 1] \in Key
      BY <2>1, <2>2
    <2> QED BY <1>1, <2>3 DEF selectedRule
  <1>2. CASE ~(selected[focus] < Len(keys[focus]))
    BY <1>2 DEF selectedRule
  <1> QED BY <1>1, <1>2

LEMMA openInv ==
    ASSUME IInv, NEW view \in {"form", "confirm"}, NEW key \in SUBSET Key, Open(view, key)
    PROVE  IInv'
  <1>1. UNCHANGED <<live, fetches, data, focus, changes>> /\ mode' = view
    BY DEF Open
  <1>2. target' = [panel |-> focus, key |-> key] /\ asked' = {<<focus, k>> : k \in key}
    BY Zenon DEF Open
  <1>3. target'.panel = focus /\ target'.key = key
    BY <1>2
  <1>4. TargetInv'
    <2>1. focus \in Panel
      BY DEF IInv, DataInv
    <2> QED BY <1>2, <1>3, <2>1 DEF TargetInv
  <1> QED BY <1>1, <1>4, RowsSame DEF IInv, DataInv, data

\* Keys that change neither a table nor a panel.
LEMMA viewInv ==
    ASSUME IInv, Tab \/ OpenAdd \/ OpenEdit \/ AskDelete \/ Help \/ Back \/ Quit
    PROVE  IInv'
  <1>1. CASE Tab
    <2>1. focus' \in Panel /\ mode = "view"
          /\ UNCHANGED <<live, fetches, data, mode, target, asked, changes>>
      BY <1>1 DEF Tab, Panel
    <2> QED BY <2>1, RowsSame DEF IInv, DataInv, TargetInv, data
  <1>2. CASE OpenAdd
    BY <1>2, openInv DEF OpenAdd
  <1>3. CASE OpenEdit
    BY <1>3, openInv, selectedRuleType DEF OpenEdit
  <1>4. CASE AskDelete
    BY <1>4, openInv, selectedRuleType DEF AskDelete
  <1>5. CASE Help
    <2>1. mode' = "help" /\ UNCHANGED <<live, fetches, data, focus, changes>>
      BY <1>5 DEF Help
    <2> QED BY <2>1, RowsSame DEF IInv, DataInv, TargetInv, data
  <1>6. CASE Back
    <2>1. mode' = "view" /\ UNCHANGED <<live, fetches, data, focus, changes>>
      BY <1>6 DEF Back
    <2> QED BY <2>1, RowsSame DEF IInv, DataInv, TargetInv, data
  <1>7. CASE Quit
    <2>1. mode' = "quit" /\ UNCHANGED <<live, fetches, data, focus, changes>>
      BY <1>7 DEF Quit
    <2> QED BY <2>1, RowsSame DEF IInv, DataInv, TargetInv, data
  <1> QED BY <1>1, <1>2, <1>3, <1>4, <1>5, <1>6, <1>7

-----------------------------------------------------------------------------
(* Writes *)

\* A write of rule r for key k in panel p.
LEMMA WriteType ==
    ASSUME live \in [Panel -> Table], NEW p, NEW k, NEW r \in Rules \cup {NoRule}
    PROVE  [live EXCEPT ![p][k] = r] \in [Panel -> Table]
  BY DEF Table

LEMMA MaxIn ==
    ASSUME NEW n \in Nat, NEW S \in SUBSET (1 .. n), S # {}
    PROVE  Max(S) \in S
  <1> DEFINE T == {m \in Nat : \E i \in S : m = n - i}
  <1>1. T \in SUBSET Nat /\ T # {}
    <2>1. \A i \in S : n - i \in Nat
      OBVIOUS
    <2> QED BY <2>1
  <1>2. PICK m \in T : \A l \in T : m <= l
    BY <1>1, LeastNat
  <1>3. PICK i \in S : m = n - i
    BY <1>2
  <1>4. ASSUME NEW j \in S PROVE i >= j
    <2>1. n - j \in Nat
      OBVIOUS
    <2>2. n - i <= n - j
      BY <1>2, <1>3, <2>1
    <2>3. i \in Int /\ j \in Int
      OBVIOUS
    <2> QED BY <2>2, <2>3
  <1>5. \E x \in S : \A y \in S : x >= y
    BY <1>4
  <1> HIDE DEF T
  <1> QED BY <1>5, Zenon DEF Max

LEMMA WithDefaultsType ==
    ASSUME live \in [Panel -> Table], NEW n \in 0 .. Len(Defaults)
    PROVE  WithDefaults(n) \in [Panel -> Table]
  <1>1. /\ Defaults \in Seq(Panel \X Key \X FormRules) /\ n \in Nat /\ n <= Len(Defaults)
        /\ FormRules \subseteq Rules
    BY DashboardAssumption
  <1> DEFINE W(p, k) == {i \in 1 .. n : Defaults[i][1] = p /\ Defaults[i][2] = k}
             v(p, k) == IF W(p, k) = {} THEN live[p][k] ELSE Defaults[Max(W(p, k))][3]
  <1>2. ASSUME NEW p \in Panel, NEW k \in Key PROVE v(p, k) \in Rules \cup {NoRule}
    <2>1. CASE W(p, k) = {}
      <3>1. live[p][k] \in Rules \cup {NoRule}
        BY DEF Table
      <3> QED BY <2>1, <3>1
    <2>2. CASE W(p, k) # {}
      <3> DEFINE m == Max(W(p, k))
      <3>1. W(p, k) \in SUBSET (1 .. n)
        OBVIOUS
      <3>2. m \in 1 .. n
        BY <1>1, <2>2, <3>1, MaxIn
      <3> HIDE DEF m
      <3>3. m \in 1 .. Len(Defaults)
        BY <1>1, <3>2
      <3>4. Defaults[m] \in Panel \X Key \X FormRules
        BY <1>1, <3>3
      <3>5. Defaults[m][3] \in Rules
        BY <1>1, <3>4
      <3>6. v(p, k) = Defaults[m][3]
        BY <2>2, Zenon DEF m
      <3> QED BY <3>5, <3>6
    <2> QED BY <2>1, <2>2
  <1>3. WithDefaults(n) = [p \in Panel |-> [k \in Key |-> v(p, k)]]
    BY Zenon DEF WithDefaults
  <1> HIDE DEF v
  <1> QED BY <1>2, <1>3 DEF Table

LEMMA ChangeType ==
    ASSUME DataInv, Change
    PROVE  changes' \in 0 .. MaxChanges
  BY DashboardAssumption DEF DataInv, Change

LEMMA submitFormInv ==
    ASSUME IInv, NEW k \in Key, NEW r \in FormRules, SubmitForm(k, r)
    PROVE  IInv'
  <1>1. live' \in [Panel -> Table]
    <2>1. r \in Rules \cup {NoRule} /\ live \in [Panel -> Table]
      BY DashboardAssumption DEF IInv, DataInv
    <2>2. live' = [live EXCEPT ![target.panel][k] = r]
      BY Zenon DEF SubmitForm
    <2> QED BY <2>1, <2>2, WriteType
  <1>2. changes' \in 0 .. MaxChanges
    BY ChangeType DEF IInv, SubmitForm
  <1>3. fetches' \in [Slot -> Fetched \cup {NoFetch}]
    BY fetchCmdType DEF IInv, SubmitForm, Written
  <1>4. mode' = "view" /\ UNCHANGED <<data, focus>>
    BY DEF SubmitForm, Written
  <1> QED BY <1>1, <1>2, <1>3, <1>4, RowsSame DEF IInv, DataInv, TargetInv, data

LEMMA confirmDeleteInv ==
    ASSUME IInv, ConfirmDelete
    PROVE  IInv'
  <1>1. live' \in [Panel -> Table]
    <2>1. PICK k \in target.key : live' = [live EXCEPT ![target.panel][k] = NoRule]
      BY Zenon DEF ConfirmDelete
    <2>2. NoRule \in Rules \cup {NoRule} /\ live \in [Panel -> Table]
      BY DEF IInv, DataInv
    <2> QED BY <2>1, <2>2, WriteType
  <1>2. changes' \in 0 .. MaxChanges
    BY ChangeType DEF IInv, ConfirmDelete
  <1>3. fetches' \in [Slot -> Fetched \cup {NoFetch}]
    BY fetchCmdType DEF IInv, ConfirmDelete, Written
  <1>4. mode' = "view" /\ UNCHANGED <<data, focus>>
    BY DEF ConfirmDelete, Written
  <1> QED BY <1>1, <1>2, <1>3, <1>4, RowsSame DEF IInv, DataInv, TargetInv, data

LEMMA deleteFailsInv ==
    ASSUME IInv, DeleteFails
    PROVE  IInv'
  <1>1. changes' \in 0 .. MaxChanges
    BY ChangeType DEF IInv, DeleteFails
  <1>2. mode' = "view" /\ err' = TRUE /\ UNCHANGED <<live, fetches, last, keys, selected, focus>>
    BY DEF DeleteFails
  <1> QED BY <1>1, <1>2, RowsSame DEF IInv, DataInv, TargetInv

LEMMA addDefaultRulesInv ==
    ASSUME IInv, NEW n \in 0 .. Len(Defaults), addDefaultRules(n)
    PROVE  IInv'
  <1>1. live' \in [Panel -> Table]
    BY WithDefaultsType DEF IInv, DataInv, addDefaultRules
  <1>2. changes' \in 0 .. MaxChanges
    BY ChangeType DEF IInv, addDefaultRules
  <1>3. fetches' \in [Slot -> Fetched \cup {NoFetch}]
    BY fetchCmdType DEF IInv, addDefaultRules
  <1>4. err' \in BOOLEAN /\ UNCHANGED <<last, keys, selected, ui>>
    BY DEF IInv, DataInv, addDefaultRules
  <1> QED BY <1>1, <1>2, <1>3, <1>4, RowsSame, TargetSame DEF IInv, DataInv, ui

LEMMA othersInv ==
    ASSUME IInv, Others
    PROVE  IInv'
  <1>1. live' \in [Panel -> Table]
    <2>1. PICK p \in Panel, k \in Key, r \in Rules \cup {NoRule} :
              live' = [live EXCEPT ![p][k] = r]
      BY Zenon DEF Others
    <2> QED BY <2>1, WriteType DEF IInv, DataInv
  <1>2. changes' \in 0 .. MaxChanges
    BY ChangeType DEF IInv, Others
  <1>3. UNCHANGED <<fetches, data, ui>>
    BY DEF Others
  <1> QED BY <1>1, <1>2, <1>3, RowsSame, TargetSame DEF IInv, DataInv, data, ui

-----------------------------------------------------------------------------
(* Theorems *)

LEMMA initInv == Init => IInv
  <1> SUFFICES ASSUME Init PROVE IInv
    OBVIOUS
  <1>1. live \in [Panel -> Table]
    BY DashboardAssumption DEF Init, Table
  <1>2. fetches \in [Slot -> Fetched \cup {NoFetch}]
    BY NewFetchType DEF Init
  <1>3. /\ focus \in Panel /\ mode = "view" /\ err \in BOOLEAN /\ changes \in 0 .. MaxChanges
    <2>1. focus = "teid" /\ mode = "view" /\ err = FALSE /\ changes = 0
      BY Zenon DEF Init
    <2>2. focus \in Panel
      BY <2>1 DEF Panel
    <2>3. changes \in 0 .. MaxChanges
      BY <2>1, DashboardAssumption
    <2> QED BY <2>1, <2>2, <2>3
  <1>4. /\ last = [p \in Panel |-> Empty] /\ keys = [p \in Panel |-> <<>>]
        /\ selected = [p \in Panel |-> 0]
    BY DEF Init
  <1>5. Sorts(<<>>, Entries(Empty))
    <2>1. Entries(Empty) = {}
      BY DEF Entries, Empty
    <2>2. Cardinality({}) = 0
      BY FS_EmptySet
    <2>3. <<>> \in [1 .. 0 -> {}] /\ Increasing(<<>>)
      BY DEF Increasing
    <2> QED BY <2>1, <2>2, <2>3 DEF Sorts
  <1>6. RowsInv
    <2>1. last \in [Panel -> Table] /\ selected \in [Panel -> Nat]
      BY <1>4, NewFetchType
    <2>2. keys \in [Panel -> Seq(Key)]
      BY <1>4
    <2>3. \A p \in Panel : keys[p] = <<>> /\ last[p] = Empty
      BY <1>4
    <2> QED BY <1>5, <2>1, <2>2, <2>3 DEF RowsInv
  <1> QED BY <1>1, <1>2, <1>3, <1>6 DEF IInv, DataInv, TargetInv

LEMMA stepInv == IInv /\ [Next]_vars => IInv'
  <1> SUFFICES ASSUME IInv, [Next]_vars PROVE IInv'
    OBVIOUS
  <1>1. CASE Tick
    BY <1>1, tickInv
  <1>2. ASSUME NEW i \in Slot, Fetch(i) PROVE IInv'
    <2>1. "teid" \in Panel /\ "ueip" \in Panel
      BY DEF Panel
    <2>2. CASE ReadTable(i, "teid")
      BY <2>1, <2>2, readTableInv
    <2>3. CASE ReadTable(i, "ueip")
      BY <2>1, <2>3, readTableInv
    <2>4. CASE Deliver(i)
      BY <2>4, deliverInv
    <2> QED BY <1>2, <2>2, <2>3, <2>4 DEF Fetch
  <1>3. ASSUME NEW i \in Slot, FetchFails(i) PROVE IInv'
    BY <1>3, fetchFailsInv
  <1>4. CASE Tab \/ OpenAdd \/ OpenEdit \/ AskDelete \/ Help \/ Back \/ Quit
    BY <1>4, viewInv
  <1>5. ASSUME NEW d \in {-1, 1}, moveSelection(d) PROVE IInv'
    BY <1>5, moveSelectionInv
  <1>6. ASSUME NEW k \in Key, NEW r \in FormRules, SubmitForm(k, r) PROVE IInv'
    BY <1>6, submitFormInv
  <1>7. CASE ConfirmDelete
    BY <1>7, confirmDeleteInv
  <1>8. CASE DeleteFails
    BY <1>8, deleteFailsInv
  <1>9. ASSUME NEW n \in 0 .. Len(Defaults), addDefaultRules(n) PROVE IInv'
    BY <1>9, addDefaultRulesInv
  <1>10. CASE Others
    BY <1>10, othersInv
  <1>11. CASE UNCHANGED vars
    BY <1>11, RowsSame, TargetSame DEF IInv, DataInv, vars, ui
  <1> QED BY <1>1, <1>2, <1>3, <1>4, <1>5, <1>6, <1>7, <1>8, <1>9, <1>10, <1>11, Zenon
          DEF Next, Keys

\* The inductive invariant: tables, fetches, panels and sub-view of the dashboard's
\* event loop in every state, however fetches overlap.
THEOREM Invariant == Spec => []IInv
  BY initInv, stepInv, PTL DEF Spec

\* The types of Dashboard hold.
THEOREM TypeCorrect == Spec => []TypeOK
  <1>1. IInv => TypeOK
    <2> SUFFICES ASSUME IInv PROVE TypeOK
      OBVIOUS
    <2>1. ASSUME NEW p \in Panel PROVE ToSet(keys[p]) \subseteq Key /\ selected[p] \in Nat
      <3>1. keys[p] \in Seq(Key) /\ selected[p] \in Nat
        BY DEF IInv, RowsInv
      <3> QED BY <3>1 DEF ToSet
    <2> QED BY <2>1 DEF IInv, DataInv, RowsInv, TypeOK, Fetched
  <1> QED BY <1>1, Invariant, PTL

\* The cursor of a panel is on a row whenever there is one, and on a rule of the
\* table that the panel shows: "e" and "d" always have a rule to act on, though
\* fetches that overlap make the rows fewer under the cursor.
THEOREM CursorOnRowHolds == Spec => []CursorOnRow
  <1>1. IInv => CursorOnRow
    <2> SUFFICES ASSUME IInv, NEW p \in Panel, keys[p] # <<>>
                 PROVE  /\ selected[p] \in 0 .. Len(keys[p]) - 1
                        /\ keys[p][selected[p] + 1] \in Entries(last[p])
      BY Zenon DEF CursorOnRow
    <2>1. selected[p] \in Nat /\ selected[p] < Len(keys[p])
          /\ Sorts(keys[p], Entries(last[p]))
      BY DEF IInv, RowsInv
    <2>2. Len(keys[p]) \in Nat /\ \A i \in 1 .. Len(keys[p]) : keys[p][i] \in Entries(last[p])
      BY <2>1, RowsAre
    <2>3. selected[p] \in 0 .. Len(keys[p]) - 1 /\ selected[p] + 1 \in 1 .. Len(keys[p])
      BY <2>1, <2>2
    <2> QED BY <2>2, <2>3
  <1> QED BY <1>1, Invariant, PTL

\* A step that closes a form or a prompt opened on a rule.
Closes == mode \in {"form", "confirm"} /\ mode' = "view" /\ asked # {}

\* It changes no other rule.
OnTarget == \A p \in Panel, k \in Key : live'[p][k] # live[p][k] => <<p, k>> \in asked

LEMMA OneWrite ==
    ASSUME live \in [Panel -> Table], NEW q \in Panel, NEW m \in Key, NEW r,
           live' = [live EXCEPT ![q][m] = r], <<q, m>> \in asked
    PROVE  OnTarget
  <1> SUFFICES ASSUME NEW p \in Panel, NEW k \in Key, live'[p][k] # live[p][k]
               PROVE  <<p, k>> \in asked
    BY DEF OnTarget
  <1>1. p = q /\ k = m
    BY DEF Table
  <1> QED BY <1>1

\* "enter" in an edit form and "y" at the prompt write the rule under the cursor at
\* the time the form or the prompt was opened, and no other, though results that
\* were delivered meanwhile have moved the rows.
THEOREM ActsOnTargetHolds == Spec => ActsOnTarget
  <1>1. IInv /\ [Next]_vars => [Closes => OnTarget]_vars
    <2> SUFFICES ASSUME IInv, Next, Closes PROVE OnTarget
      OBVIOUS
    <2>1. /\ mode \in {"form", "confirm"} /\ mode' = "view" /\ asked # {}
          /\ live \in [Panel -> Table] /\ target.panel \in Panel /\ target.key \subseteq Key
          /\ asked = {<<target.panel, k>> : k \in target.key}
      BY DEF IInv, DataInv, TargetInv, Closes
    <2>2. ASSUME live' = live PROVE OnTarget
      BY <2>2 DEF OnTarget
    <2>3. ASSUME NEW k \in Key, NEW r \in FormRules, SubmitForm(k, r) PROVE OnTarget
      <3>1. target.key \in {{}, {k}} /\ live' = [live EXCEPT ![target.panel][k] = r]
        BY <2>3, Zenon DEF SubmitForm
      <3>2. target.key # {}
        BY <2>1
      <3>3. <<target.panel, k>> \in asked
        BY <2>1, <3>1, <3>2
      <3> QED BY <2>1, <3>1, <3>3, OneWrite
    <2>4. CASE ConfirmDelete
      <3>1. PICK k \in target.key : live' = [live EXCEPT ![target.panel][k] = NoRule]
        BY <2>4, Zenon DEF ConfirmDelete
      <3>2. k \in Key /\ <<target.panel, k>> \in asked
        BY <2>1
      <3> QED BY <2>1, <3>1, <3>2, OneWrite
    <2>5. CASE DeleteFails \/ Back
      BY <2>2, <2>5 DEF DeleteFails, Back
    <2>6. mode # "view"
      BY <2>1
    <2>7. ~(Tab \/ OpenAdd \/ OpenEdit \/ AskDelete \/ Help \/ Quit)
      BY <2>6 DEF Tab, OpenAdd, OpenEdit, AskDelete, Open, Help, Quit
    <2>8. \A d, n : ~moveSelection(d) /\ ~addDefaultRules(n)
      BY <2>6, Zenon DEF moveSelection, addDefaultRules
    <2>9. ~(UNCHANGED ui)
      BY <2>1, <2>6 DEF ui
    <2>10. ~Tick /\ ~Others /\ \A i : ~Fetch(i) /\ ~FetchFails(i)
      BY <2>9, Zenon DEF Tick, Others, Fetch, ReadTable, Deliver, FetchFails, ui
    <2> QED BY <2>3, <2>4, <2>5, <2>7, <2>8, <2>10, Zenon DEF Next, Keys
  <1>2. [Closes => OnTarget]_vars =>
            [(mode \in {"form", "confirm"} /\ mode' = "view" /\ asked # {}) =>
                \A p \in Panel, k \in Key :
                    live'[p][k] # live[p][k] => <<p, k>> \in asked]_vars
    BY Zenon DEF Closes, OnTarget
  <1> QED BY <1>1, <1>2, Invariant, PTL DEF Spec, ActsOnTarget

=============================================================================
