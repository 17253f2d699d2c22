-------------------------- MODULE PolicyRaceProofs --------------------------
(* Theorems about PolicyRace, for every number of CPUs and of elements, every *)
(* policy and every bound.                                                   *)
EXTENDS PolicyRace, FiniteSetTheorems, TLAPS

RuleType == [window_start_ns : Nat, window_count : Nat, window_violated : {0, 1},
             violation_streak : Nat, quarantine_until_ns : Nat,
             rate_drop_count : Nat]

\* A running program has an element and read the clock in the past.
RunInv ==
    \A c \in CPU : /\ pc[c] # "idle" => elem[c] \in Elem
                   /\ ts[c] <= now

\* A CPU about to admit a packet found room for it in the count it loaded.
CapInv ==
    /\ CountWithinCap
    /\ \A c \in CPU : pc[c] = "admit" => reg[c] < rate_pps

\* A CPU that loaded the drop counter has a drop of its own still to come.
DropInv ==
    /\ DropsUndercount
    /\ \A c \in CPU : pc[c] = "dropped" => reg[c] <= drops

\* CPU c has found the window of element e violated and is to score it.
Scoring(c, e) == elem[c] = e /\ pc[c] \in {"streak", "escalate"}

\* The steps at which a CPU is done with scoring and will clear the mark.
ClearSteps == {"reached", "impose", "absolve", "calm", "start", "reset", "clear"}

Clearing(c, e) == elem[c] = e /\ pc[c] \in ClearSteps

\* The CPUs that may still score a violated window of element e.
Creditors(e) ==
    {c \in CPU : \/ Scoring(c, e)
                 \/ elems[e].window_violated = 1 /\ ~Clearing(c, e)}

\* The most the violated windows of element e can be scored: once each by every CPU.
Credit(e) == windows[e] * Cardinality(CPU)

\* No streak, in memory or on its way there, exceeds what the violated windows
\* allow, less what the creditors may still add.
CreditInv ==
    /\ \A e \in Elem :
          elems[e].violation_streak + Cardinality(Creditors(e)) <= Credit(e)
    /\ \A c \in CPU, e \in Elem : pc[c] = "escalate" /\ elem[c] = e =>
          reg[c] + Cardinality(Creditors(e)) <= Credit(e)
    /\ EarnedPerCpu

\* The invariant without the credit of the violated windows.
BasicInv == TypeOK /\ RunInv /\ CapInv /\ NoEndlessQuarantine /\ DropInv

IInv == BasicInv /\ CreditInv

-----------------------------------------------------------------------------
(* What a step does to the elements *)

Fields == {"window_start_ns", "window_count", "window_violated",
           "violation_streak", "quarantine_until_ns", "rate_drop_count"}

\* A value that a field may hold.
Fits(field, value) ==
    value \in Nat /\ (field = "window_violated" => value \in {0, 1})

\* Nothing leads to element e after the step.
GivenUp(e) == /\ elems'[e] = Fresh /\ windows'[e] = 0
              /\ \A d \in CPU : elem'[d] # e

\* The elements after CPU c stored value: its own has it, the others are as they
\* were, unless they were given up; the history is ws.
Wrote(c, field, value, ws) ==
    /\ elems' \in [Elem -> RuleType] /\ windows' \in [Elem -> Nat]
    /\ \A e \in Elem :
          \/ GivenUp(e)
          \/ e # elem[c] /\ elems'[e] = elems[e] /\ windows'[e] = ws[e]
          \/ /\ e = elem[c] /\ elems'[e] = [elems[e] EXCEPT ![field] = value]
             /\ windows'[e] = ws[e]

LEMMA FreshType == Fresh \in RuleType
  BY DEF Fresh, RuleType

LEMMA MemoryLemma ==
    ASSUME NEW es \in [Elem -> RuleType], NEW ws \in [Elem -> Nat], Memory(es, ws)
    PROVE  /\ elems' \in [Elem -> RuleType] /\ windows' \in [Elem -> Nat]
           /\ \A e \in Elem : \/ GivenUp(e)
                              \/ elems'[e] = es[e] /\ windows'[e] = ws[e]
  <1> DEFINE inUse(e) == e = linked' \/ \E d \in CPU : elem'[d] = e
  <1>1. /\ elems' = [e \in Elem |-> IF inUse(e) THEN es[e] ELSE Fresh]
        /\ windows' = [e \in Elem |-> IF inUse(e) THEN ws[e] ELSE 0]
    BY DEF Memory
  <1>2. \A e \in Elem : ~inUse(e) => \A d \in CPU : elem'[d] # e
    OBVIOUS
  <1> HIDE DEF inUse
  <1>3. elems' \in [Elem -> RuleType] /\ windows' \in [Elem -> Nat]
    BY <1>1, FreshType
  <1>4. ASSUME NEW e \in Elem
        PROVE  GivenUp(e) \/ (elems'[e] = es[e] /\ windows'[e] = ws[e])
    <2>1. CASE inUse(e)
      BY <1>1, <2>1
    <2>2. CASE ~inUse(e)
      <3>1. elems'[e] = Fresh /\ windows'[e] = 0
        BY <1>1, <2>2
      <3>2. \A d \in CPU : elem'[d] # e
        BY <1>2, <2>2, Zenon
      <3> QED BY <3>1, <3>2, Zenon DEF GivenUp
    <2> QED BY <2>1, <2>2
  <1> QED BY <1>3, <1>4

LEMMA WriteLemma ==
    ASSUME NEW c \in CPU, elem[c] \in Elem, elems \in [Elem -> RuleType],
           NEW field \in Fields, NEW value, Fits(field, value),
           NEW ws \in [Elem -> Nat], Write(c, field, value, ws)
    PROVE  Wrote(c, field, value, ws)
  <1> DEFINE es == [elems EXCEPT ![elem[c]][field] = value]
  <1>1. /\ es \in [Elem -> RuleType]
        /\ es[elem[c]] = [elems[elem[c]] EXCEPT ![field] = value]
        /\ \A e \in Elem \ {elem[c]} : es[e] = elems[e]
    <2>1. [elems[elem[c]] EXCEPT ![field] = value] \in RuleType
      BY DEF RuleType, Fields, Fits
    <2> QED BY <2>1
  <1>2. Memory(es, ws)
    BY DEF Write
  <1> HIDE DEF es
  <1>3. /\ elems' \in [Elem -> RuleType] /\ windows' \in [Elem -> Nat]
        /\ \A e \in Elem : GivenUp(e) \/ (elems'[e] = es[e] /\ windows'[e] = ws[e])
    BY <1>1, <1>2, MemoryLemma
  <1> QED BY <1>1, <1>3 DEF Wrote

\* A store of a running program that goes on, with what it does to the history.
Stores(c, from, field, value, to, ws) ==
    /\ Goto(c, from, to)
    /\ UNCHANGED <<now, linked, elem, ts, reg, drops>>
    /\ Write(c, field, value, ws)

LEMMA StoresCases ==
    ASSUME NEW c, NEW from, NEW to
    PROVE  /\ \A field, value : Store(c, from, field, value, to) =>
                 Stores(c, from, field, value, to, windows)
           /\ ClearStreak(c, from, to) =>
                 Stores(c, from, "violation_streak", 0, to, Cleared(c))
  BY DEF Store, ClearStreak, Stores

LEMMA StoreLemma ==
    ASSUME TypeOK, RunInv, NEW c \in CPU,
           NEW from \in Steps \ {"idle"}, NEW to \in Steps \ {"idle"},
           NEW field \in Fields, NEW value, Fits(field, value),
           NEW ws \in [Elem -> Nat], Stores(c, from, field, value, to, ws)
    PROVE  /\ Wrote(c, field, value, ws)
           /\ pc[c] = from /\ pc' = [pc EXCEPT ![c] = to]
           /\ elem[c] \in Elem
           /\ UNCHANGED <<now, linked, elem, ts, reg, drops>>
  <1>1. pc[c] = from /\ pc' = [pc EXCEPT ![c] = to]
    BY DEF Stores, Goto
  <1>2. UNCHANGED <<now, linked, elem, ts, reg, drops>>
    BY DEF Stores
  <1>3. elem[c] \in Elem
    BY <1>1 DEF RunInv
  <1>4. Wrote(c, field, value, ws)
    BY <1>3, WriteLemma DEF Stores, TypeOK, RuleType
  <1> QED BY <1>1, <1>2, <1>3, <1>4

\* A load or a comparison: the register gets value v.
Reads(c, from, to, v) ==
    /\ Goto(c, from, to)
    /\ reg' = [reg EXCEPT ![c] = v]
    /\ UNCHANGED <<now, elems, linked, elem, ts, drops, windows>>

LEMMA ReadsCases ==
    ASSUME NEW c, NEW from, NEW to
    PROVE  /\ \A field : Load(c, from, field, to) =>
                 Reads(c, from, to, elems[elem[c]][field])
           /\ Compare(c, from, to) => Reads(c, from, to, 0)
  BY DEF Load, Compare, Reads, Rule

LEMMA ReadLemma ==
    ASSUME TypeOK, RunInv, NEW c \in CPU,
           NEW from \in Steps \ {"idle"}, NEW to \in Steps \ {"idle"},
           NEW v, Reads(c, from, to, v)
    PROVE  /\ pc[c] = from /\ pc' = [pc EXCEPT ![c] = to]
           /\ elem[c] \in Elem
           /\ reg' = [reg EXCEPT ![c] = v]
           /\ UNCHANGED <<now, elems, linked, elem, ts, drops, windows>>
  BY DEF Reads, Goto, RunInv

\* The end of a packet.
LEMMA FinishLemma ==
    ASSUME RunInv, NEW c \in CPU, NEW from \in Steps \ {"idle"}, Finish(c, from)
    PROVE  /\ pc[c] = from /\ pc' = [pc EXCEPT ![c] = "idle"]
           /\ elem[c] \in Elem /\ elem' = [elem EXCEPT ![c] = 0]
           /\ ts' = [ts EXCEPT ![c] = 0] /\ reg' = [reg EXCEPT ![c] = 0]
  BY DEF Finish, Goto, RunInv

\* The drop under a quarantine, and the drop over the cap.
Held(c) ==
    /\ Finish(c, "held")
    /\ UNCHANGED <<now, linked, drops>>
    /\ Memory(elems, windows)

Dropped(c) ==
    /\ Finish(c, "dropped")
    /\ drops' = drops + 1
    /\ UNCHANGED <<now, linked>>
    /\ Write(c, "rate_drop_count", reg[c] + 1, windows)

\* A program's step is one of these accesses.
LEMMA RunCases ==
    ASSUME NEW c \in CPU, Run(c)
    PROVE  \/ ReadClock(c)
           \/ \E to \in {"held", "window"} : Compare(c, "deadline", to)
           \/ Held(c)
           \/ Compare(c, "held", "release")
           \/ Store(c, "release", "quarantine_until_ns", 0, "forgive")
           \/ ClearStreak(c, "forgive", "window")
           \/ ClearStreak(c, "release", "lift")
           \/ Store(c, "lift", "quarantine_until_ns", 0, "window")
           \/ \E to \in {"violated", "count"} : Compare(c, "window", to)
           \/ Compare(c, "violated", "streak") /\ Rule(c).window_violated # 0
           \/ Compare(c, "violated", "calm")
           \/ ClearStreak(c, "calm", "start")
           \/ Load(c, "streak", "violation_streak", "escalate")
           \/ Store(c, "escalate", "violation_streak", reg[c] + 1, "reached")
           \/ /\ Compare(c, "reached", "impose")
              /\ Rule(c).violation_streak >= quarantine_threshold
           \/ Compare(c, "reached", "start")
           \/ Store(c, "impose", "quarantine_until_ns",
                    ts[c] + quarantine_seconds * Second, "absolve")
           \/ ClearStreak(c, "absolve", "start")
           \/ Store(c, "start", "window_start_ns", ts[c], "reset")
           \/ Store(c, "reset", "window_count", 0, "clear")
           \/ Store(c, "clear", "window_violated", 0, "count")
           \/ Store(c, "reset", "window_violated", 0, "empty")
           \/ Store(c, "empty", "window_count", 0, "count")
           \/ /\ Load(c, "count", "window_count", "admit")
              /\ ~(Rule(c).window_count >= rate_pps)
           \/ Load(c, "count", "window_count", "mark")
           \/ Admit(c)
           \/ Mark(c)
           \/ Load(c, "drop", "rate_drop_count", "dropped")
           \/ Dropped(c)
  <1> USE DEF Run
  <1>1. CASE CheckQuarantine(c)  BY <1>1 DEF CheckQuarantine
  <1>2. CASE CheckDeadline(c)    BY <1>2 DEF CheckDeadline, Held
  <1>3. CASE SelfRelease(c)      BY <1>3 DEF SelfRelease
  <1>4. CASE CheckWindow(c)      BY <1>4 DEF CheckWindow
  <1>5. CASE Score(c)            BY <1>5 DEF Score
  <1>6. CASE Impose(c)           BY <1>6 DEF Impose
  <1>7. CASE Restart(c)          BY <1>7 DEF Restart
  <1>8. CASE CheckCap(c)         BY <1>8 DEF CheckCap
  <1>9. CASE Drop(c)             BY <1>9 DEF Drop, Dropped
  <1> QED BY <1>1, <1>2, <1>3, <1>4, <1>5, <1>6, <1>7, <1>8, <1>9

-----------------------------------------------------------------------------
(* Lemmas about the credit of the violated windows *)

LEMMA CreditType ==
    ASSUME TypeOK
    PROVE  /\ Cardinality(CPU) \in Nat
           /\ \A e \in Elem : /\ Credit(e) \in Nat
                              /\ IsFiniteSet(Creditors(e))
                              /\ Cardinality(Creditors(e)) \in Nat
                              /\ Cardinality(Creditors(e)) <= Cardinality(CPU)
  <1>1. IsFiniteSet(CPU) /\ Cardinality(CPU) \in Nat
    BY RaceAssumption, FS_CardinalityType
  <1>2. ASSUME NEW e \in Elem PROVE Credit(e) \in Nat
    <2>1. windows[e] \in Nat
      BY DEF TypeOK
    <2> QED BY <1>1, <2>1 DEF Credit
  <1>3. ASSUME NEW e \in Elem
        PROVE  /\ IsFiniteSet(Creditors(e))
               /\ Cardinality(Creditors(e)) \in Nat
               /\ Cardinality(Creditors(e)) <= Cardinality(CPU)
    <2>1. Creditors(e) \in SUBSET CPU
      BY Zenon DEF Creditors
    <2>2. IsFiniteSet(Creditors(e)) /\ Cardinality(Creditors(e)) <= Cardinality(CPU)
      BY <1>1, <2>1, FS_Subset, Zenon
    <2> QED BY <2>2, FS_CardinalityType
  <1> QED BY <1>1, <1>2, <1>3

LEMMA CreditTypeNext ==
    ASSUME TypeOK'
    PROVE  \A e \in Elem : /\ Credit(e)' \in Nat
                           /\ Cardinality(Creditors(e)') \in Nat
                           /\ Cardinality(Creditors(e)') <= Cardinality(CPU)
  <1>1. IsFiniteSet(CPU) /\ Cardinality(CPU) \in Nat
    BY RaceAssumption, FS_CardinalityType
  <1>2. ASSUME NEW e \in Elem PROVE Credit(e)' \in Nat
    <2>1. windows'[e] \in Nat
      BY DEF TypeOK
    <2> QED BY <1>1, <2>1 DEF Credit
  <1>3. ASSUME NEW e \in Elem
        PROVE  /\ Cardinality(Creditors(e)') \in Nat
               /\ Cardinality(Creditors(e)') <= Cardinality(CPU)
    <2>1. Creditors(e)' \in SUBSET CPU
      BY Zenon DEF Creditors
    <2>2. IsFiniteSet(Creditors(e)') /\ Cardinality(Creditors(e)') <= Cardinality(CPU)
      BY <1>1, <2>1, FS_Subset, Zenon
    <2> QED BY <2>2, FS_CardinalityType
  <1> QED BY <1>2, <1>3

\* Fewer creditors are a smaller number.
LEMMA FewerCreditors ==
    ASSUME TypeOK, NEW e \in Elem, Creditors(e)' \subseteq Creditors(e)
    PROVE  /\ Cardinality(Creditors(e)') \in Nat
           /\ Cardinality(Creditors(e)) \in Nat
           /\ Cardinality(Creditors(e)') <= Cardinality(Creditors(e))
  <1>1. Creditors(e)' \in SUBSET Creditors(e)
    OBVIOUS
  <1>2. IsFiniteSet(Creditors(e)) /\ Cardinality(Creditors(e)) \in Nat
    BY CreditType
  <1>3. IsFiniteSet(Creditors(e)') /\ Cardinality(Creditors(e)') <= Cardinality(Creditors(e))
    BY <1>1, <1>2, FS_Subset, Zenon
  <1> QED BY <1>2, <1>3, FS_CardinalityType

\* The count of element e began again: no streak, no program about to score or to
\* impose there, and the window that is marked, if any, is counted.
Renewed(e) ==
    /\ elems'[e].violation_streak = 0
    /\ windows'[e] >= elems'[e].window_violated
    /\ \A d \in CPU : elem'[d] = e => pc'[d] \notin {"streak", "escalate", "impose"}

\* What element e owes is as it was, or less.
Kept(e) ==
    /\ windows'[e] = windows[e]
    /\ elems'[e].violation_streak \in {0, elems[e].violation_streak}
    /\ Creditors(e)' \subseteq Creditors(e)

LEMMA RenewedCredit ==
    ASSUME TypeOK', NEW e \in Elem, Renewed(e)
    PROVE  elems'[e].violation_streak + Cardinality(Creditors(e)') <= Credit(e)'
  <1>1. /\ Credit(e)' \in Nat /\ Cardinality(Creditors(e)') \in Nat
        /\ Cardinality(Creditors(e)') <= Cardinality(CPU)
    BY CreditTypeNext
  <1>2. Cardinality(CPU) \in Nat
    BY RaceAssumption, FS_CardinalityType
  <1>3. windows'[e] \in Nat /\ elems'[e].window_violated \in {0, 1}
    BY DEF TypeOK
  <1>4. CASE elems'[e].window_violated = 0
    <2>1. Creditors(e)' = {}
      BY <1>4 DEF Renewed, Creditors, Scoring
    <2>2. Cardinality(Creditors(e)') = 0
      BY <2>1, FS_EmptySet
    <2> QED BY <1>1, <2>2 DEF Renewed
  <1>5. CASE elems'[e].window_violated = 1
    <2>1. windows'[e] >= 1
      BY <1>5 DEF Renewed
    <2>2. \A m, n \in Nat : m >= 1 => m * n >= n
      OBVIOUS
    <2>3. Credit(e)' >= Cardinality(CPU)
      BY <1>2, <1>3, <2>1, <2>2 DEF Credit
    <2> QED BY <1>1, <1>2, <2>3 DEF Renewed
  <1> QED BY <1>3, <1>4, <1>5

\* Every element owes no more than it did, or its count began again.
LEMMA CreditKept ==
    ASSUME TypeOK, TypeOK', RunInv', CreditInv,
           \A e \in Elem : Kept(e) \/ Renewed(e),
           \A d \in CPU : pc'[d] \in {"escalate", "impose"} =>
               pc[d] = pc'[d] /\ reg'[d] = reg[d] /\ elem'[d] = elem[d]
    PROVE  CreditInv'
  <1>1. ASSUME NEW e \in Elem, Kept(e)
        PROVE  /\ Credit(e)' = Credit(e) /\ Credit(e) \in Nat
               /\ Cardinality(Creditors(e)') \in Nat
               /\ Cardinality(Creditors(e)) \in Nat
               /\ Cardinality(Creditors(e)') <= Cardinality(Creditors(e))
    BY <1>1, CreditType, FewerCreditors DEF Kept, Credit
  <1>2. ASSUME NEW e \in Elem
        PROVE  elems'[e].violation_streak + Cardinality(Creditors(e)') <= Credit(e)'
    <2>1. CASE Renewed(e)
      BY <2>1, RenewedCredit
    <2>2. CASE Kept(e)
      <3>1. elems[e].violation_streak \in Nat
        BY DEF TypeOK
      <3>2. elems[e].violation_streak + Cardinality(Creditors(e)) <= Credit(e)
        BY DEF CreditInv
      <3>3. elems'[e].violation_streak \in {0, elems[e].violation_streak}
        BY <2>2 DEF Kept
      <3> QED BY <1>1, <2>2, <3>1, <3>2, <3>3
    <2> QED BY <2>1, <2>2
  <1>3. ASSUME NEW d \in CPU, NEW e \in Elem, pc'[d] = "escalate", elem'[d] = e
        PROVE  reg'[d] + Cardinality(Creditors(e)') <= Credit(e)'
    <2>1. pc[d] = "escalate" /\ reg'[d] = reg[d] /\ elem[d] = e
      BY <1>3
    <2>2. Kept(e)
      BY <1>3 DEF Renewed
    <2>3. reg[d] \in Nat
      BY DEF TypeOK
    <2>4. reg[d] + Cardinality(Creditors(e)) <= Credit(e)
      BY <2>1 DEF CreditInv
    <2> QED BY <1>1, <2>1, <2>2, <2>3, <2>4
  <1>4. ASSUME NEW d \in CPU, pc'[d] = "impose"
        PROVE  windows'[elem'[d]] * Cardinality(CPU) >= quarantine_threshold
    <2>1. pc[d] = "impose" /\ elem'[d] = elem[d] /\ elem'[d] \in Elem
      BY <1>4 DEF RunInv
    <2>2. Kept(elem[d])
      BY <1>4, <2>1 DEF Renewed
    <2> QED BY <2>1, <2>2 DEF Kept, CreditInv, EarnedPerCpu
  <1> QED BY <1>2, <1>3, <1>4 DEF CreditInv, EarnedPerCpu

-----------------------------------------------------------------------------
(* What a store and a load preserve *)

\* A field of an element after a store: new, zero, or as it was.
LEMMA FieldAfter ==
    ASSUME TypeOK, NEW c \in CPU, NEW field \in Fields, NEW value, NEW ws,
           Wrote(c, field, value, ws), NEW e \in Elem, NEW f \in Fields
    PROVE  \/ elems'[e][f] = 0
           \/ elems'[e][f] = elems[e][f] /\ (f = field => e # elem[c])
           \/ f = field /\ e = elem[c] /\ elems'[e][f] = value
  <1>1. CASE elems'[e] = Fresh
    BY <1>1 DEF Fresh, Fields
  <1>2. CASE e # elem[c] /\ elems'[e] = elems[e]
    BY <1>2
  <1>3. CASE e = elem[c] /\ elems'[e] = [elems[e] EXCEPT ![field] = value]
    BY <1>3 DEF TypeOK, Fields
  <1> QED BY <1>1, <1>2, <1>3 DEF Wrote, GivenUp

LEMMA QuarantineNat == quarantine_seconds * Second \in Nat
  BY RaceAssumption

LEMMA NowNat == ASSUME TypeOK PROVE now \in Nat
  BY RaceAssumption DEF TypeOK

\* A store, of a program that goes on (the CPUs' variables may change as they do
\* in any step of c).
LEMMA WroteBasic ==
    ASSUME BasicInv, NEW c \in CPU, NEW field \in Fields, NEW value, NEW ws,
           Wrote(c, field, value, ws), Fits(field, value),
           TypeOK', RunInv', now' = now, drops' >= drops,
           field = "window_count" => value <= rate_pps,
           field = "quarantine_until_ns" => value <= now + quarantine_seconds * Second,
           field = "rate_drop_count" => value <= drops',
           \A d \in CPU : pc'[d] \in {"admit", "dropped"} =>
               pc[d] = pc'[d] /\ reg'[d] = reg[d]
    PROVE  BasicInv'
  <1> USE DEF BasicInv
  <1>1. {"window_count", "quarantine_until_ns", "rate_drop_count"} \subseteq Fields
    BY DEF Fields
  <1>2. CapInv'
    <2>1. ASSUME NEW e \in Elem PROVE elems'[e].window_count <= rate_pps
      <3>1. \/ elems'[e].window_count = 0
            \/ elems'[e].window_count = elems[e].window_count
            \/ field = "window_count" /\ elems'[e].window_count = value
        BY <1>1, FieldAfter
      <3>2. elems[e].window_count <= rate_pps
        BY DEF CapInv, CountWithinCap
      <3> QED BY <3>1, <3>2, RaceAssumption
    <2>2. \A d \in CPU : pc'[d] = "admit" => reg'[d] < rate_pps
      BY DEF CapInv
    <2> QED BY <2>1, <2>2 DEF CapInv, CountWithinCap
  <1>3. NoEndlessQuarantine'
    <2>1. ASSUME NEW e \in Elem
          PROVE elems'[e].quarantine_until_ns <= now + quarantine_seconds * Second
      <3>1. \/ elems'[e].quarantine_until_ns = 0
            \/ elems'[e].quarantine_until_ns = elems[e].quarantine_until_ns
            \/ field = "quarantine_until_ns" /\ elems'[e].quarantine_until_ns = value
        BY <1>1, FieldAfter
      <3>2. elems[e].quarantine_until_ns <= now + quarantine_seconds * Second
        BY DEF NoEndlessQuarantine
      <3> QED BY <3>1, <3>2, QuarantineNat, NowNat
    <2> QED BY <2>1 DEF NoEndlessQuarantine
  <1>4. DropInv'
    <2>1. drops \in Nat /\ drops' \in Nat
      BY DEF TypeOK
    <2>2. ASSUME NEW e \in Elem PROVE elems'[e].rate_drop_count <= drops'
      <3>1. \/ elems'[e].rate_drop_count = 0
            \/ elems'[e].rate_drop_count = elems[e].rate_drop_count
            \/ field = "rate_drop_count" /\ elems'[e].rate_drop_count = value
        BY <1>1, FieldAfter
      <3>2. elems[e].rate_drop_count <= drops /\ elems[e].rate_drop_count \in Nat
        BY DEF DropInv, DropsUndercount, TypeOK
      <3> QED BY <2>1, <3>1, <3>2
    <2>3. ASSUME NEW d \in CPU, pc'[d] = "dropped" PROVE reg'[d] <= drops'
      <3>1. reg'[d] = reg[d] /\ reg[d] <= drops /\ reg[d] \in Nat
        BY <2>3 DEF DropInv, TypeOK
      <3> QED BY <2>1, <3>1
    <2> QED BY <2>2, <2>3 DEF DropInv, DropsUndercount
  <1> QED BY <1>2, <1>3, <1>4

LEMMA StoreBasic ==
    ASSUME BasicInv, NEW c \in CPU, NEW from \in Steps \ {"idle"},
           NEW to \in Steps \ {"idle", "admit", "dropped"},
           NEW field \in Fields \ {"rate_drop_count"}, NEW value, Fits(field, value),
           NEW ws \in [Elem -> Nat], Stores(c, from, field, value, to, ws),
           field = "window_count" => value <= rate_pps,
           field = "quarantine_until_ns" => value <= now + quarantine_seconds * Second
    PROVE  BasicInv'
  <1>1. TypeOK /\ RunInv
    BY DEF BasicInv
  <1>2. /\ Wrote(c, field, value, ws)
        /\ pc[c] = from /\ pc' = [pc EXCEPT ![c] = to]
        /\ elem[c] \in Elem
        /\ UNCHANGED <<now, linked, elem, ts, reg, drops>>
    BY <1>1, StoreLemma
  <1>3. TypeOK'
    BY <1>1, <1>2 DEF TypeOK, Wrote, RuleType
  <1>4. RunInv'
    BY <1>1, <1>2 DEF RunInv, TypeOK
  <1>5. \A d \in CPU : pc'[d] \in {"admit", "dropped"} =>
            pc[d] = pc'[d] /\ reg'[d] = reg[d]
    BY <1>1, <1>2 DEF TypeOK
  <1>6. drops' >= drops /\ field \in Fields
    BY <1>1, <1>2 DEF TypeOK
  <1> QED BY <1>2, <1>3, <1>4, <1>5, <1>6, WroteBasic

LEMMA ReadBasic ==
    ASSUME BasicInv, NEW c \in CPU, NEW from \in Steps \ {"idle"},
           NEW to \in Steps \ {"idle"}, NEW v \in Nat, Reads(c, from, to, v),
           to = "admit" => v < rate_pps,
           to = "dropped" => v <= drops
    PROVE  BasicInv'
  <1> USE DEF BasicInv
  <1>1. /\ pc[c] = from /\ pc' = [pc EXCEPT ![c] = to]
        /\ elem[c] \in Elem
        /\ reg' = [reg EXCEPT ![c] = v]
        /\ UNCHANGED <<now, elems, linked, elem, ts, drops, windows>>
    BY ReadLemma
  <1>2. TypeOK'
    BY <1>1 DEF TypeOK
  <1>3. RunInv'
    BY <1>1 DEF RunInv, TypeOK
  <1>4. CapInv'
    BY <1>1 DEF CapInv, CountWithinCap, TypeOK
  <1>5. NoEndlessQuarantine'
    BY <1>1 DEF NoEndlessQuarantine
  <1>6. DropInv'
    BY <1>1 DEF DropInv, DropsUndercount, TypeOK
  <1> QED BY <1>2, <1>3, <1>4, <1>5, <1>6

\* A step in which no CPU scores, imposes, marks or comes to an uncleared mark, and
\* each element is given up or keeps its history.
LEMMA CalmCredit ==
    ASSUME TypeOK, TypeOK', RunInv', CreditInv,
           \A d \in CPU :
              \/ pc'[d] = pc[d] /\ elem'[d] = elem[d] /\ reg'[d] = reg[d]
              \/ /\ pc[d] \notin ClearSteps
                 /\ pc'[d] \notin {"streak", "escalate", "impose"},
           \A e \in Elem :
              \/ GivenUp(e)
              \/ /\ windows'[e] = windows[e]
                 /\ elems'[e].window_violated \in {0, elems[e].window_violated}
                 /\ elems'[e].violation_streak \in {0, elems[e].violation_streak}
    PROVE  CreditInv'
  <1>1. ASSUME NEW e \in Elem, GivenUp(e) PROVE Renewed(e)
    BY <1>1 DEF GivenUp, Renewed, Fresh
  <1>2. ASSUME NEW e \in Elem,
               windows'[e] = windows[e],
               elems'[e].window_violated \in {0, elems[e].window_violated},
               elems'[e].violation_streak \in {0, elems[e].violation_streak}
        PROVE  Kept(e)
    <2>1. SUFFICES ASSUME NEW d \in CPU, d \in Creditors(e)' PROVE d \in Creditors(e)
      BY <1>2 DEF Creditors, Kept
    <2>2. elems'[e].window_violated = 1 => elems[e].window_violated = 1
      BY <1>2
    <2>3. CASE pc'[d] = pc[d] /\ elem'[d] = elem[d]
      BY <2>1, <2>2, <2>3 DEF Creditors, Scoring, Clearing
    <2>4. CASE /\ pc[d] \notin ClearSteps
               /\ pc'[d] \notin {"streak", "escalate", "impose"}
      BY <2>1, <2>2, <2>4 DEF Creditors, Scoring, Clearing
    <2> QED BY <2>3, <2>4
  <1>3. \A e \in Elem : Kept(e) \/ Renewed(e)
    BY <1>1, <1>2
  <1>4. \A d \in CPU : pc'[d] \in {"escalate", "impose"} =>
            pc[d] = pc'[d] /\ reg'[d] = reg[d] /\ elem'[d] = elem[d]
    OBVIOUS
  <1> QED BY <1>3, <1>4, CreditKept

\* A store that adds nothing to a streak and marks no window.
LEMMA StoreCredit ==
    ASSUME BasicInv, CreditInv, NEW c \in CPU, NEW from \in Steps \ {"idle"},
           NEW to \in Steps \ {"idle", "streak", "escalate", "impose"},
           NEW field \in Fields, NEW value, Fits(field, value),
           Stores(c, from, field, value, to, windows), BasicInv',
           field \in {"window_violated", "violation_streak"} => value = 0,
           from \in ClearSteps => to \in ClearSteps \/ field = "window_violated"
    PROVE  CreditInv'
  <1>0. TypeOK /\ RunInv /\ TypeOK' /\ RunInv' /\ windows \in [Elem -> Nat]
    BY DEF BasicInv, TypeOK
  <1>1. /\ Wrote(c, field, value, windows)
        /\ pc[c] = from /\ pc' = [pc EXCEPT ![c] = to]
        /\ elem[c] \in Elem
        /\ UNCHANGED <<now, linked, elem, ts, reg, drops>>
    BY <1>0, StoreLemma
  <1>2. ASSUME NEW e \in Elem, GivenUp(e) PROVE Renewed(e)
    BY <1>2 DEF GivenUp, Renewed, Fresh
  <1>3. ASSUME NEW e \in Elem, windows'[e] = windows[e] PROVE Kept(e)
    <2>0. "window_violated" \in Fields /\ "violation_streak" \in Fields
      BY DEF Fields
    <2>1. elems'[e].violation_streak \in {0, elems[e].violation_streak}
      BY <1>0, <1>1, <2>0, FieldAfter
    <2>2. SUFFICES ASSUME NEW d \in CPU, d \in Creditors(e)' PROVE d \in Creditors(e)
      BY <1>3, <2>1 DEF Creditors, Kept
    <2>3. CASE Scoring(d, e)'
      <3>1. Scoring(d, e)
        BY <1>0, <1>1, <2>3 DEF Scoring, TypeOK
      <3> QED BY <3>1 DEF Creditors
    <2>4. CASE elems'[e].window_violated = 1 /\ ~Clearing(d, e)'
      <3>1. /\ elems[e].window_violated = 1
            /\ field = "window_violated" => e # elem[c]
        BY <1>0, <1>1, <2>0, <2>4, FieldAfter
      <3>2. ~Clearing(d, e)
        BY <1>0, <1>1, <2>4, <3>1 DEF Clearing, TypeOK
      <3> QED BY <3>1, <3>2 DEF Creditors
    <2> QED BY <2>2, <2>3, <2>4 DEF Creditors
  <1>4. \A e \in Elem : Kept(e) \/ Renewed(e)
    BY <1>1, <1>2, <1>3 DEF Wrote
  <1>5. \A d \in CPU : pc'[d] \in {"escalate", "impose"} =>
            pc[d] = pc'[d] /\ reg'[d] = reg[d] /\ elem'[d] = elem[d]
    BY <1>0, <1>1 DEF TypeOK
  <1> QED BY <1>0, <1>4, <1>5, CreditKept

\* The history after a streak is cleared.
LEMMA ClearedType ==
    ASSUME TypeOK, NEW c \in CPU, elem[c] \in Elem
    PROVE  /\ Cleared(c) \in [Elem -> Nat]
           /\ \A e \in Elem : e # elem[c] => Cleared(c)[e] = windows[e]
           /\ \/ Cleared(c)[elem[c]] = windows[elem[c]]
              \/ /\ Cleared(c)[elem[c]] = elems[elem[c]].window_violated
                 /\ \A d \in CPU : elem[d] = elem[c] => d = c
  <1>1. windows \in [Elem -> Nat] /\ elems[elem[c]].window_violated \in Nat
    BY DEF TypeOK
  <1>2. CASE \E d \in CPU \ {c} : elem[d] = elem[c]
    BY <1>1, <1>2 DEF Cleared
  <1>3. CASE ~ \E d \in CPU \ {c} : elem[d] = elem[c]
    <2>1. Cleared(c) = [windows EXCEPT ![elem[c]] = elems[elem[c]].window_violated]
      BY <1>3 DEF Cleared, Rule
    <2>2. \A d \in CPU : elem[d] = elem[c] => d = c
      BY <1>3
    <2> QED BY <1>1, <2>1, <2>2
  <1> QED BY <1>2, <1>3

\* The streak is cleared: nothing is owed that was not, or the count begins again.
LEMMA ClearCredit ==
    ASSUME BasicInv, CreditInv, NEW c \in CPU, NEW from \in Steps \ {"idle"},
           NEW to \in Steps \ {"idle", "streak", "escalate", "impose"},
           Stores(c, from, "violation_streak", 0, to, Cleared(c)), BasicInv',
           from \in ClearSteps => to \in ClearSteps
    PROVE  CreditInv'
  <1>0. TypeOK /\ RunInv /\ TypeOK' /\ RunInv'
    BY DEF BasicInv
  <1>1. /\ pc[c] = from /\ elem[c] \in Elem
        /\ Cleared(c) \in [Elem -> Nat]
        /\ \A e \in Elem : e # elem[c] => Cleared(c)[e] = windows[e]
        /\ \/ Cleared(c)[elem[c]] = windows[elem[c]]
           \/ /\ Cleared(c)[elem[c]] = elems[elem[c]].window_violated
              /\ \A d \in CPU : elem[d] = elem[c] => d = c
    <2>1. pc[c] = from /\ elem[c] \in Elem
      BY <1>0 DEF Stores, Goto, RunInv
    <2> QED BY <1>0, <2>1, ClearedType
  <1>2. /\ {"violation_streak", "window_violated"} \subseteq Fields
        /\ Fits("violation_streak", 0)
    BY DEF Fields, Fits
  <1>3. /\ Wrote(c, "violation_streak", 0, Cleared(c))
        /\ pc' = [pc EXCEPT ![c] = to]
        /\ UNCHANGED <<now, linked, elem, ts, reg, drops>>
    BY <1>0, <1>1, <1>2, StoreLemma
  <1>4. ASSUME NEW e \in Elem, GivenUp(e) PROVE Renewed(e)
    BY <1>4 DEF GivenUp, Renewed, Fresh
  <1>5. ASSUME NEW e \in Elem
        PROVE  /\ elems'[e].violation_streak \in {0, elems[e].violation_streak}
               /\ elems'[e].window_violated \in {0, elems[e].window_violated}
    BY <1>0, <1>2, <1>3, FieldAfter
  <1>6. ASSUME NEW e \in Elem, windows'[e] = windows[e] PROVE Kept(e)
    <2>1. SUFFICES ASSUME NEW d \in CPU, d \in Creditors(e)' PROVE d \in Creditors(e)
      BY <1>5, <1>6 DEF Creditors, Kept
    <2>2. elems'[e].window_violated = 1 => elems[e].window_violated = 1
      BY <1>5
    <2>3. CASE d # c
      BY <1>0, <1>3, <2>1, <2>2, <2>3 DEF Creditors, Scoring, Clearing, TypeOK
    <2>4. CASE d = c
      BY <1>0, <1>1, <1>3, <2>1, <2>2, <2>4 DEF Creditors, Scoring, Clearing, TypeOK
    <2> QED BY <2>3, <2>4
  <1>7. ASSUME NEW e \in Elem, e = elem[c],
               elems'[e] = [elems[e] EXCEPT !["violation_streak"] = 0],
               windows'[e] = elems[e].window_violated,
               \A d \in CPU : elem[d] = elem[c] => d = c
        PROVE  Renewed(e)
    <2>1. /\ elems'[e].violation_streak = 0
          /\ elems'[e].window_violated = elems[e].window_violated
          /\ elems[e].window_violated \in Nat
      BY <1>0, <1>7 DEF TypeOK
    <2>2. \A d \in CPU : elem'[d] = e => pc'[d] = to
      BY <1>0, <1>3, <1>7 DEF TypeOK
    <2> QED BY <1>7, <2>1, <2>2 DEF Renewed
  <1>8. ASSUME NEW e \in Elem PROVE Kept(e) \/ Renewed(e)
    <2>1. CASE GivenUp(e)
      BY <1>4, <2>1
    <2>2. CASE e # elem[c] /\ windows'[e] = Cleared(c)[e]
      BY <1>1, <1>6, <2>2
    <2>3. CASE /\ e = elem[c]
               /\ elems'[e] = [elems[e] EXCEPT !["violation_streak"] = 0]
               /\ windows'[e] = Cleared(c)[e]
      BY <1>1, <1>6, <1>7, <2>3
    <2> QED BY <1>3, <2>1, <2>2, <2>3 DEF Wrote
  <1>9. \A d \in CPU : pc'[d] \in {"escalate", "impose"} =>
            pc[d] = pc'[d] /\ reg'[d] = reg[d] /\ elem'[d] = elem[d]
    BY <1>0, <1>3 DEF TypeOK
  <1> QED BY <1>0, <1>8, <1>9, CreditKept

\* A load that does not take a streak.
LEMMA ReadCredit ==
    ASSUME BasicInv, CreditInv, NEW c \in CPU, NEW from \in Steps \ {"idle"},
           NEW to \in Steps \ {"idle", "escalate", "impose"},
           NEW v, Reads(c, from, to, v), BasicInv',
           from \in ClearSteps => to \in ClearSteps,
           to = "streak" => elems[elem[c]].window_violated = 1
    PROVE  CreditInv'
  <1>0. TypeOK /\ RunInv /\ TypeOK' /\ RunInv'
    BY DEF BasicInv
  <1>1. /\ pc[c] = from /\ pc' = [pc EXCEPT ![c] = to]
        /\ reg' = [reg EXCEPT ![c] = v]
        /\ UNCHANGED <<now, elems, linked, elem, ts, drops, windows>>
    BY <1>0, ReadLemma
  <1>2. ASSUME NEW e \in Elem PROVE Kept(e)
    <2>1. SUFFICES ASSUME NEW d \in CPU, d \in Creditors(e)' PROVE d \in Creditors(e)
      BY <1>1 DEF Creditors, Kept
    <2>2. CASE d = c
      <3>1. "streak" \notin ClearSteps
        BY DEF ClearSteps
      <3> QED BY <1>0, <1>1, <2>1, <2>2, <3>1 DEF Creditors, Scoring, Clearing, TypeOK
    <2>3. CASE d # c
      BY <1>0, <1>1, <2>1, <2>3 DEF Creditors, Scoring, Clearing, TypeOK
    <2> QED BY <2>2, <2>3
  <1>3. \A d \in CPU : pc'[d] \in {"escalate", "impose"} =>
            pc[d] = pc'[d] /\ reg'[d] = reg[d] /\ elem'[d] = elem[d]
    BY <1>0, <1>1 DEF TypeOK
  <1> QED BY <1>0, <1>2, <1>3, CreditKept

\* A load that leaves the creditors as they are.
LEMMA ReadKept ==
    ASSUME BasicInv, CreditInv, NEW c \in CPU, NEW from \in Steps \ {"idle"},
           NEW to \in Steps \ {"idle"}, NEW v, Reads(c, from, to, v),
           from \in {"streak", "escalate"} <=> to \in {"streak", "escalate"},
           from \in ClearSteps <=> to \in ClearSteps
    PROVE  \A e \in Elem :
              /\ Creditors(e)' = Creditors(e) /\ Credit(e)' = Credit(e)
              /\ elems'[e].violation_streak + Cardinality(Creditors(e)') <= Credit(e)'
  <1>0. TypeOK /\ RunInv
    BY DEF BasicInv
  <1>1. /\ pc[c] = from /\ pc' = [pc EXCEPT ![c] = to]
        /\ UNCHANGED <<elems, elem, windows>>
    BY <1>0, ReadLemma
  <1>2. \A d \in CPU : /\ pc'[d] \in {"streak", "escalate"} <=> pc[d] \in {"streak", "escalate"}
                       /\ pc'[d] \in ClearSteps <=> pc[d] \in ClearSteps
    BY <1>0, <1>1 DEF TypeOK
  <1>3. ASSUME NEW e \in Elem PROVE Creditors(e)' = Creditors(e)
    BY <1>1, <1>2 DEF Creditors, Scoring, Clearing
  <1>4. \A e \in Elem : Credit(e)' = Credit(e)
    BY <1>1 DEF Credit
  <1>5. \A e \in Elem :
            elems[e].violation_streak + Cardinality(Creditors(e)) <= Credit(e)
    BY DEF CreditInv
  <1> QED BY <1>1, <1>3, <1>4, <1>5

\* The streak is loaded: what the element owes, the CPU owes.
LEMMA LoadStreakCredit ==
    ASSUME BasicInv, CreditInv, BasicInv', NEW c \in CPU,
           Load(c, "streak", "violation_streak", "escalate")
    PROVE  CreditInv'
  <1>0. TypeOK /\ RunInv /\ {"streak", "escalate"} \subseteq Steps \ {"idle"}
        /\ {"streak", "escalate"} \cap ClearSteps = {}
    BY DEF BasicInv, Steps, ClearSteps
  <1> DEFINE v == elems[elem[c]].violation_streak
  <1>1. Reads(c, "streak", "escalate", v)
    BY ReadsCases
  <1> HIDE DEF v
  <1>2. /\ pc[c] = "streak" /\ pc' = [pc EXCEPT ![c] = "escalate"]
        /\ elem[c] \in Elem
        /\ reg' = [reg EXCEPT ![c] = v]
        /\ UNCHANGED <<elems, elem, windows>>
    BY <1>0, <1>1, ReadLemma
  <1>3. \A e \in Elem :
            /\ Creditors(e)' = Creditors(e) /\ Credit(e)' = Credit(e)
            /\ elems'[e].violation_streak + Cardinality(Creditors(e)') <= Credit(e)'
    BY <1>0, <1>1, ReadKept
  <1>4. ASSUME NEW d \in CPU, NEW e \in Elem, pc'[d] = "escalate", elem'[d] = e
        PROVE  reg'[d] + Cardinality(Creditors(e)') <= Credit(e)'
    <2>1. CASE d = c
      <3>1. reg'[d] = elems'[e].violation_streak
        BY <1>0, <1>2, <1>4, <2>1 DEF TypeOK, v
      <3> QED BY <1>3, <3>1
    <2>2. CASE d # c
      <3>1. pc[d] = "escalate" /\ elem[d] = e /\ reg'[d] = reg[d]
        BY <1>0, <1>2, <1>4, <2>2 DEF TypeOK
      <3>2. reg[d] + Cardinality(Creditors(e)) <= Credit(e)
        BY <3>1 DEF CreditInv
      <3> QED BY <1>3, <3>1, <3>2
    <2> QED BY <2>1, <2>2
  <1>5. EarnedPerCpu'
    <2>1. \A d \in CPU : pc'[d] = "impose" => pc[d] = "impose"
      BY <1>0, <1>2 DEF TypeOK
    <2> QED BY <1>2, <2>1 DEF CreditInv, EarnedPerCpu
  <1> QED BY <1>3, <1>4, <1>5 DEF CreditInv

\* The streak is found to have reached the threshold: it is within the credit.
LEMMA ReachCredit ==
    ASSUME BasicInv, CreditInv, BasicInv', NEW c \in CPU,
           Compare(c, "reached", "impose"),
           Rule(c).violation_streak >= quarantine_threshold
    PROVE  CreditInv'
  <1>0. TypeOK /\ RunInv /\ {"reached", "impose"} \subseteq Steps \ {"idle"}
        /\ {"reached", "impose"} \subseteq ClearSteps
    BY DEF BasicInv, Steps, ClearSteps
  <1>1. Reads(c, "reached", "impose", 0)
    BY ReadsCases
  <1>2. /\ pc[c] = "reached" /\ pc' = [pc EXCEPT ![c] = "impose"]
        /\ elem[c] \in Elem
        /\ reg' = [reg EXCEPT ![c] = 0]
        /\ UNCHANGED <<elems, elem, windows>>
    BY <1>0, <1>1, ReadLemma
  <1>3. \A e \in Elem :
            /\ Creditors(e)' = Creditors(e) /\ Credit(e)' = Credit(e)
            /\ elems'[e].violation_streak + Cardinality(Creditors(e)') <= Credit(e)'
    BY <1>0, <1>1, ReadKept
  <1>4. ASSUME NEW d \in CPU, NEW e \in Elem, pc'[d] = "escalate", elem'[d] = e
        PROVE  reg'[d] + Cardinality(Creditors(e)') <= Credit(e)'
    <2>1. pc[d] = "escalate" /\ elem[d] = e /\ reg'[d] = reg[d]
      BY <1>0, <1>2, <1>4 DEF TypeOK
    <2>2. reg[d] + Cardinality(Creditors(e)) <= Credit(e)
      BY <2>1 DEF CreditInv
    <2> QED BY <1>3, <2>1, <2>2
  <1>5. Credit(elem[c]) >= quarantine_threshold
    <2>1. elems[elem[c]].violation_streak >= quarantine_threshold
      BY DEF Rule
    <2>2. /\ elems[elem[c]].violation_streak \in Nat
          /\ Cardinality(Creditors(elem[c])) \in Nat /\ Credit(elem[c]) \in Nat
      BY <1>0, <1>2, CreditType DEF TypeOK
    <2>3. elems[elem[c]].violation_streak + Cardinality(Creditors(elem[c])) <= Credit(elem[c])
      BY <1>2 DEF CreditInv
    <2> QED BY <2>1, <2>2, <2>3, RaceAssumption
  <1>6. EarnedPerCpu'
    <2>1. \A d \in CPU : pc'[d] = "impose" => pc[d] = "impose" \/ d = c
      BY <1>0, <1>2 DEF TypeOK
    <2> QED BY <1>2, <1>5, <2>1 DEF CreditInv, EarnedPerCpu, Credit
  <1> QED BY <1>3, <1>4, <1>6 DEF CreditInv

\* The streak is counted up: one creditor less, one more in the streak.
LEMMA EscalateCredit ==
    ASSUME BasicInv, CreditInv, BasicInv', NEW c \in CPU,
           Store(c, "escalate", "violation_streak", reg[c] + 1, "reached")
    PROVE  CreditInv'
  <1>0. /\ TypeOK /\ RunInv /\ TypeOK' /\ RunInv' /\ windows \in [Elem -> Nat]
        /\ {"escalate", "reached"} \subseteq Steps \ {"idle"}
        /\ "violation_streak" \in Fields /\ "window_violated" \in Fields
        /\ Fits("violation_streak", reg[c] + 1)
    BY DEF BasicInv, Steps, Fields, Fits, TypeOK
  <1>1. /\ Wrote(c, "violation_streak", reg[c] + 1, windows)
        /\ pc[c] = "escalate" /\ pc' = [pc EXCEPT ![c] = "reached"]
        /\ elem[c] \in Elem
        /\ UNCHANGED <<now, linked, elem, ts, reg, drops>>
    <2>1. Stores(c, "escalate", "violation_streak", reg[c] + 1, "reached", windows)
      BY StoresCases
    <2> QED BY <1>0, <2>1, StoreLemma
  <1>2. PICK a \in Elem : a = elem[c]
    BY <1>1
  <1>3. ASSUME NEW e \in Elem
        PROVE  Creditors(e)' \subseteq Creditors(e) \ {d \in {c} : a = e}
    <2>1. SUFFICES ASSUME NEW d \in CPU, d \in Creditors(e)'
                   PROVE  d \in Creditors(e) /\ (d = c => a # e)
      BY DEF Creditors
    <2>2. elems'[e].window_violated = 1 => elems[e].window_violated = 1
      BY <1>0, <1>1, FieldAfter
    <2>3. CASE d = c
      <3>1. pc'[c] = "reached" /\ elem'[c] = a
        BY <1>0, <1>1, <1>2 DEF TypeOK
      <3> QED BY <1>1, <1>2, <2>1, <2>2, <2>3, <3>1
              DEF Creditors, Scoring, Clearing, ClearSteps
    <2>4. CASE d # c
      BY <1>0, <1>1, <2>1, <2>2, <2>4 DEF Creditors, Scoring, Clearing, TypeOK
    <2> QED BY <2>3, <2>4
  <1>4. ASSUME NEW e \in Elem
        PROVE  /\ Cardinality(Creditors(e)') \in Nat
               /\ Cardinality(Creditors(e)) \in Nat
               /\ Cardinality(Creditors(e)') <= Cardinality(Creditors(e))
    <2>1. Creditors(e)' \subseteq Creditors(e)
      BY <1>3
    <2> QED BY <1>0, <2>1, FewerCreditors
  <1>5. Cardinality(Creditors(a)) >= 1 + Cardinality(Creditors(a)')
    <2>1. c \in Creditors(a)
      BY <1>1, <1>2 DEF Creditors, Scoring
    <2>2. IsFiniteSet(Creditors(a))
      BY <1>0, CreditType
    <2>3. /\ IsFiniteSet(Creditors(a) \ {c})
          /\ Cardinality(Creditors(a) \ {c}) = Cardinality(Creditors(a)) - 1
      BY <2>1, <2>2, FS_RemoveElement
    <2>4. Creditors(a)' \in SUBSET (Creditors(a) \ {c})
      BY <1>3
    <2>5. Cardinality(Creditors(a)') <= Cardinality(Creditors(a) \ {c})
      BY <2>3, <2>4, FS_Subset, Zenon
    <2>6. Cardinality(Creditors(a)) \in Nat /\ Cardinality(Creditors(a)') \in Nat
      BY <1>4
    <2> QED BY <2>3, <2>5, <2>6
  <1>6. /\ reg[c] + Cardinality(Creditors(a)) <= Credit(a) /\ reg[c] \in Nat
        /\ \A e \in Elem : Credit(e) \in Nat
    BY <1>0, <1>1, <1>2, CreditType DEF CreditInv, TypeOK
  <1>7. ASSUME NEW e \in Elem
        PROVE  GivenUp(e) \/ (Credit(e)' = Credit(e) /\ windows'[e] = windows[e])
    BY <1>1 DEF Wrote, Credit
  <1>8. ASSUME NEW e \in Elem
        PROVE  elems'[e].violation_streak + Cardinality(Creditors(e)') <= Credit(e)'
    <2>1. CASE GivenUp(e)
      <3>1. Renewed(e)
        BY <2>1 DEF GivenUp, Renewed, Fresh
      <3> QED BY <1>0, <3>1, RenewedCredit
    <2>2. CASE Credit(e)' = Credit(e)
      <3>1. \/ elems'[e].violation_streak = 0
            \/ elems'[e].violation_streak = elems[e].violation_streak
            \/ e = a /\ elems'[e].violation_streak = reg[c] + 1
        BY <1>0, <1>1, <1>2, FieldAfter
      <3>2. elems[e].violation_streak + Cardinality(Creditors(e)) <= Credit(e)
        BY DEF CreditInv
      <3>3. elems[e].violation_streak \in Nat
        BY <1>0 DEF TypeOK
      <3>4. CASE elems'[e].violation_streak \in {0, elems[e].violation_streak}
        BY <1>4, <1>6, <2>2, <3>2, <3>3, <3>4
      <3>5. CASE e = a /\ elems'[e].violation_streak = reg[c] + 1
        BY <1>4, <1>5, <1>6, <2>2, <3>5
      <3> QED BY <3>1, <3>4, <3>5
    <2> QED BY <1>7, <2>1, <2>2
  <1>9. ASSUME NEW d \in CPU, NEW e \in Elem, pc'[d] = "escalate", elem'[d] = e
        PROVE  reg'[d] + Cardinality(Creditors(e)') <= Credit(e)'
    <2>1. pc[d] = "escalate" /\ reg'[d] = reg[d] /\ elem[d] = e
      BY <1>0, <1>1, <1>9 DEF TypeOK
    <2>2. reg[d] + Cardinality(Creditors(e)) <= Credit(e) /\ reg[d] \in Nat
      BY <1>0, <2>1 DEF CreditInv, TypeOK
    <2>3. Credit(e)' = Credit(e)
      BY <1>7, <1>9 DEF GivenUp
    <2> QED BY <1>4, <1>6, <2>1, <2>2, <2>3
  <1>10. ASSUME NEW d \in CPU, pc'[d] = "impose"
         PROVE  windows'[elem'[d]] * Cardinality(CPU) >= quarantine_threshold
    <2>1. pc[d] = "impose" /\ elem'[d] = elem[d] /\ elem[d] \in Elem
      BY <1>0, <1>1, <1>10 DEF TypeOK, RunInv
    <2>2. windows'[elem[d]] = windows[elem[d]]
      BY <1>7, <2>1 DEF GivenUp
    <2> QED BY <2>1, <2>2 DEF CreditInv, EarnedPerCpu
  <1> QED BY <1>8, <1>9, <1>10 DEF CreditInv, EarnedPerCpu

\* Over the cap: the mark, and the history if the window was not marked before.
LEMMA MarkLemma ==
    ASSUME TypeOK, RunInv, NEW c \in CPU, Mark(c)
    PROVE  /\ Wrote(c, "window_violated", 1, Marked(c))
           /\ pc[c] = "mark" /\ pc' = [pc EXCEPT ![c] = "drop"]
           /\ elem[c] \in Elem
           /\ UNCHANGED <<now, linked, elem, ts, reg, drops>>
           /\ Marked(c) \in [Elem -> Nat]
           /\ \A e \in Elem : e # elem[c] => Marked(c)[e] = windows[e]
           /\ Marked(c)[elem[c]] = windows[elem[c]] + 1 - elems[elem[c]].window_violated
  <1>1. elem[c] \in Elem
    BY DEF Mark, Goto, RunInv
  <1>2. /\ windows \in [Elem -> Nat] /\ elems[elem[c]].window_violated \in {0, 1}
        /\ windows[elem[c]] \in Nat
    BY <1>1 DEF TypeOK
  <1>3. Marked(c) = [windows EXCEPT ![elem[c]] =
                        windows[elem[c]] + 1 - elems[elem[c]].window_violated]
    BY DEF Marked, Rule
  <1>4. windows[elem[c]] + 1 - elems[elem[c]].window_violated \in Nat
    BY <1>2
  <1>5. /\ Marked(c) \in [Elem -> Nat]
        /\ \A e \in Elem : e # elem[c] => Marked(c)[e] = windows[e]
        /\ Marked(c)[elem[c]] = windows[elem[c]] + 1 - elems[elem[c]].window_violated
    BY <1>1, <1>2, <1>3, <1>4
  <1>6. /\ {"mark", "drop"} \subseteq Steps \ {"idle"}
        /\ "window_violated" \in Fields /\ Fits("window_violated", 1)
        /\ Stores(c, "mark", "window_violated", 1, "drop", Marked(c))
    BY DEF Steps, Fields, Fits, Mark, Stores
  <1> QED BY <1>5, <1>6, StoreLemma

\* A mark: every CPU may score it once.
LEMMA MarkCredit ==
    ASSUME BasicInv, CreditInv, BasicInv', NEW c \in CPU, Mark(c)
    PROVE  CreditInv'
  <1>0. TypeOK /\ RunInv /\ TypeOK' /\ RunInv'
    BY DEF BasicInv
  <1>1. /\ Wrote(c, "window_violated", 1, Marked(c))
        /\ pc[c] = "mark" /\ pc' = [pc EXCEPT ![c] = "drop"]
        /\ elem[c] \in Elem
        /\ UNCHANGED <<now, linked, elem, ts, reg, drops>>
        /\ \A e \in Elem : e # elem[c] => Marked(c)[e] = windows[e]
        /\ Marked(c)[elem[c]] = windows[elem[c]] + 1 - elems[elem[c]].window_violated
    BY <1>0, MarkLemma
  <1> DEFINE N == Cardinality(CPU)
  <1>2. /\ N \in Nat
        /\ \A e \in Elem : /\ Credit(e) \in Nat /\ Credit(e)' \in Nat
                           /\ Cardinality(Creditors(e)) \in Nat
                           /\ Cardinality(Creditors(e)') \in Nat
                           /\ Cardinality(Creditors(e)') <= N
    BY <1>0, CreditType, CreditTypeNext
  <1>3. "violation_streak" \in Fields /\ "window_violated" \in Fields
    BY DEF Fields
  <1>4. ASSUME NEW e \in Elem
        PROVE  elems'[e].violation_streak \in {0, elems[e].violation_streak}
    BY <1>0, <1>1, <1>3, FieldAfter
  <1>5. ASSUME NEW e \in Elem, windows'[e] = windows[e] + 1
        PROVE  Credit(e)' = Credit(e) + N
    <2>1. \A m, n \in Nat : (m + 1) * n = m * n + n
      OBVIOUS
    <2>2. windows[e] \in Nat
      BY <1>0 DEF TypeOK
    <2> QED BY <1>2, <1>5, <2>1, <2>2 DEF Credit
  <1> HIDE DEF N
  <1>6. ASSUME NEW e \in Elem, windows'[e] = windows[e],
               e # elem[c] => elems'[e] = elems[e],
               e = elem[c] => elems[e].window_violated = 1
        PROVE  Creditors(e)' \subseteq Creditors(e)
    <2>1. SUFFICES ASSUME NEW d \in CPU, d \in Creditors(e)' PROVE d \in Creditors(e)
      BY DEF Creditors
    <2>2. CASE d = c
      <3>1. pc'[c] = "drop" /\ elem'[c] = elem[c]
        BY <1>0, <1>1 DEF TypeOK
      <3> QED BY <1>1, <1>6, <2>1, <2>2, <3>1 DEF Creditors, Scoring, Clearing, ClearSteps
    <2>3. CASE d # c
      BY <1>0, <1>1, <1>6, <2>1, <2>3 DEF Creditors, Scoring, Clearing, TypeOK
    <2> QED BY <2>2, <2>3
  <1>7. ASSUME NEW e \in Elem
        PROVE  \/ GivenUp(e)
               \/ /\ Credit(e)' = Credit(e)
                  /\ Cardinality(Creditors(e)') <= Cardinality(Creditors(e))
               \/ Credit(e)' = Credit(e) + N
    <2>1. CASE e # elem[c] /\ elems'[e] = elems[e] /\ windows'[e] = Marked(c)[e]
      <3>1. windows'[e] = windows[e]
        BY <1>1, <2>1
      <3>2. Creditors(e)' \subseteq Creditors(e)
        BY <1>6, <2>1, <3>1
      <3> QED BY <1>0, <3>1, <3>2, FewerCreditors DEF Credit
    <2>2. CASE /\ e = elem[c] /\ windows'[e] = Marked(c)[e]
               /\ elems[e].window_violated = 1
      <3>1. windows'[e] = windows[e]
        BY <1>0, <1>1, <2>2 DEF TypeOK
      <3>2. Creditors(e)' \subseteq Creditors(e)
        BY <1>6, <2>2, <3>1
      <3> QED BY <1>0, <3>1, <3>2, FewerCreditors DEF Credit
    <2>3. CASE /\ e = elem[c] /\ windows'[e] = Marked(c)[e]
               /\ elems[e].window_violated = 0
      <3>1. windows'[e] = windows[e] + 1
        BY <1>0, <1>1, <2>3 DEF TypeOK
      <3> QED BY <1>5, <3>1
    <2>4. elems[e].window_violated \in {0, 1}
      BY <1>0 DEF TypeOK
    <2> QED BY <1>1, <2>1, <2>2, <2>3, <2>4 DEF Wrote
  <1>8. ASSUME NEW e \in Elem
        PROVE  elems'[e].violation_streak + Cardinality(Creditors(e)') <= Credit(e)'
    <2>1. CASE GivenUp(e)
      <3>1. Renewed(e)
        BY <2>1 DEF GivenUp, Renewed, Fresh
      <3> QED BY <1>0, <3>1, RenewedCredit
    <2>2. CASE ~GivenUp(e)
      <3>1. elems[e].violation_streak + Cardinality(Creditors(e)) <= Credit(e)
        BY DEF CreditInv
      <3>2. elems[e].violation_streak \in Nat
        BY <1>0 DEF TypeOK
      <3> QED BY <1>2, <1>4, <1>7, <2>2, <3>1, <3>2
    <2> QED BY <2>1, <2>2
  <1>9. ASSUME NEW d \in CPU, NEW e \in Elem, pc'[d] = "escalate", elem'[d] = e
        PROVE  reg'[d] + Cardinality(Creditors(e)') <= Credit(e)'
    <2>1. pc[d] = "escalate" /\ reg'[d] = reg[d] /\ elem[d] = e
      BY <1>0, <1>1, <1>9 DEF TypeOK
    <2>2. reg[d] + Cardinality(Creditors(e)) <= Credit(e) /\ reg[d] \in Nat
      BY <1>0, <2>1 DEF CreditInv, TypeOK
    <2>3. ~GivenUp(e)
      BY <1>9 DEF GivenUp
    <2> QED BY <1>2, <1>7, <2>1, <2>2, <2>3
  <1>10. ASSUME NEW d \in CPU, pc'[d] = "impose"
         PROVE  windows'[elem'[d]] * Cardinality(CPU) >= quarantine_threshold
    <2>1. pc[d] = "impose" /\ elem'[d] = elem[d] /\ elem[d] \in Elem
      BY <1>0, <1>1, <1>10 DEF TypeOK, RunInv
    <2>2. PICK e \in Elem : e = elem[d]
      BY <2>1
    <2>3. Credit(e) >= quarantine_threshold
      BY <2>1, <2>2 DEF CreditInv, EarnedPerCpu, Credit
    <2>4. ~GivenUp(e)
      BY <2>1, <2>2 DEF GivenUp
    <2>5. Credit(e)' >= quarantine_threshold
      BY <1>2, <1>7, <2>3, <2>4, RaceAssumption
    <2> QED BY <2>1, <2>2, <2>5 DEF Credit
  <1>11. EarnedPerCpu'
    BY <1>10 DEF EarnedPerCpu
  <1> QED BY <1>8, <1>9, <1>11 DEF CreditInv

-----------------------------------------------------------------------------
(* The invariant *)

LEMMA InitInv == Init => IInv
  <1> SUFFICES ASSUME Init PROVE IInv
    OBVIOUS
  <1> USE DEF Init
  <1>1. TypeOK
    <2>1. elems \in [Elem -> RuleType]
      BY FreshType
    <2> QED BY <2>1, RaceAssumption DEF TypeOK, RuleType, Steps
  <1>2. RunInv
    BY RaceAssumption DEF RunInv
  <1>3. CapInv
    BY RaceAssumption DEF CapInv, CountWithinCap, Fresh
  <1>4. NoEndlessQuarantine
    BY <1>1, QuarantineNat, NowNat DEF NoEndlessQuarantine, Fresh
  <1>5. DropInv
    BY DEF DropInv, DropsUndercount, Fresh
  <1>6. CreditInv
    <2>1. ASSUME NEW e \in Elem PROVE Credit(e) = 0
      <3>1. windows[e] = 0 /\ Cardinality(CPU) \in Nat
        BY <1>1, CreditType
      <3> HIDE DEF Init
      <3> QED BY <3>1 DEF Credit
    <2>2. ASSUME NEW e \in Elem PROVE Cardinality(Creditors(e)) = 0
      <3>1. Creditors(e) = {}
        BY DEF Creditors, Scoring, Fresh
      <3> QED BY <3>1, FS_EmptySet
    <2>3. \A e \in Elem : elems[e].violation_streak = 0
      BY DEF Fresh
    <2>4. \A d \in CPU : pc[d] = "idle"
      OBVIOUS
    <2> HIDE DEF Init
    <2> QED BY <2>1, <2>2, <2>3, <2>4 DEF CreditInv, EarnedPerCpu
  <1> QED BY <1>1, <1>2, <1>3, <1>4, <1>5, <1>6 DEF IInv, BasicInv

\* A step that leaves each element as it was, or empty, and in which no CPU loads.
LEMMA MemoryInv ==
    ASSUME IInv, TypeOK', RunInv', now' = now, drops' = drops,
           \A f \in Elem :
              \/ GivenUp(f)
              \/ elems'[f] \in {Fresh, elems[f]} /\ windows'[f] = windows[f],
           \A d \in CPU :
              \/ pc'[d] = pc[d] /\ elem'[d] = elem[d] /\ reg'[d] = reg[d]
              \/ /\ pc[d] \notin ClearSteps
                 /\ pc'[d] \notin {"streak", "escalate", "impose", "admit", "dropped"}
    PROVE  IInv'
  <1> USE DEF IInv, BasicInv
  <1>1. \A e \in Elem :
           /\ elems'[e].window_violated \in {0, elems[e].window_violated}
           /\ elems'[e].violation_streak \in {0, elems[e].violation_streak}
           /\ elems'[e].quarantine_until_ns \in {0, elems[e].quarantine_until_ns}
           /\ elems'[e].window_count \in {0, elems[e].window_count}
           /\ elems'[e].rate_drop_count \in {0, elems[e].rate_drop_count}
    BY DEF Fresh, GivenUp
  <1>2. CapInv'
    BY <1>1, RaceAssumption DEF CapInv, CountWithinCap
  <1>3. NoEndlessQuarantine'
    BY <1>1, QuarantineNat, NowNat DEF NoEndlessQuarantine
  <1>4. DropInv'
    <2>1. drops \in Nat  BY DEF TypeOK
    <2> QED BY <1>1, <2>1 DEF DropInv, DropsUndercount
  <1>5. CreditInv'
    BY <1>1, CalmCredit
  <1> QED BY <1>2, <1>3, <1>4, <1>5

\* An update or a delete.
LEMMA ControlInv ==
    ASSUME IInv, Delete \/ \E e \in Elem : Put(e)
    PROVE  IInv'
  <1>0. TypeOK /\ RunInv /\ elems \in [Elem -> RuleType] /\ windows \in [Elem -> Nat]
    BY DEF IInv, BasicInv, TypeOK, RuleType
  <1>1. /\ UNCHANGED <<now, pc, elem, ts, reg, drops>>
        /\ linked' \in Elem \cup {0}
    BY DEF Delete, Put, cpus
  <1>2. /\ elems' \in [Elem -> RuleType] /\ windows' \in [Elem -> Nat]
        /\ \A f \in Elem :
              \/ GivenUp(f)
              \/ elems'[f] \in {Fresh, elems[f]} /\ windows'[f] = windows[f]
    <2>1. CASE Delete
      BY <1>0, <2>1, MemoryLemma DEF Delete
    <2>2. ASSUME NEW e \in Elem, Put(e)
          PROVE  /\ elems' \in [Elem -> RuleType] /\ windows' \in [Elem -> Nat]
                 /\ \A f \in Elem :
                       \/ GivenUp(f)
                       \/ elems'[f] \in {Fresh, elems[f]} /\ windows'[f] = windows[f]
      <3> DEFINE es == [elems EXCEPT ![e] = Fresh]
      <3>1. es \in [Elem -> RuleType] /\ \A f \in Elem : es[f] \in {Fresh, elems[f]}
        BY <1>0, FreshType
      <3>2. Memory(es, windows)
        BY <2>2 DEF Put
      <3> HIDE DEF es
      <3> QED BY <1>0, <3>1, <3>2, MemoryLemma
    <2> QED BY <2>1, <2>2
  <1>3. TypeOK'
    BY <1>0, <1>1, <1>2 DEF TypeOK, RuleType
  <1>4. RunInv'
    BY <1>0, <1>1 DEF RunInv
  <1> QED BY <1>1, <1>2, <1>3, <1>4, MemoryInv

LEMMA TickInv == ASSUME IInv, Tick PROVE IInv'
  <1> USE DEF IInv, BasicInv
  <1>1. now' = now + 1 /\ now < MaxTime
        /\ UNCHANGED <<elems, linked, pc, elem, ts, reg, drops, windows>>
    BY DEF Tick, cpus
  <1>2. now \in Nat
    BY NowNat
  <1>3. TypeOK'
    BY <1>1, RaceAssumption DEF TypeOK
  <1>4. RunInv'
    BY <1>1, <1>2 DEF RunInv, TypeOK
  <1>5. NoEndlessQuarantine'
    <2> DEFINE q == quarantine_seconds * Second
    <2>1. q \in Nat  BY QuarantineNat
    <2>2. \A e \in Elem : /\ elems[e].quarantine_until_ns \in Nat
                          /\ elems[e].quarantine_until_ns <= now + q
      BY DEF TypeOK, NoEndlessQuarantine
    <2> HIDE DEF q
    <2>3. \A e \in Elem : elems[e].quarantine_until_ns <= now + 1 + q
      BY <1>2, <2>1, <2>2
    <2> QED BY <1>1, <2>3 DEF NoEndlessQuarantine, q
  <1>6. CapInv' /\ DropInv'
    BY <1>1 DEF CapInv, CountWithinCap, DropInv, DropsUndercount
  <1>7. CreditInv'
    BY <1>1, <1>3, <1>4, CalmCredit
  <1> QED BY <1>3, <1>4, <1>5, <1>6, <1>7

\* The lookup and the clock.
LEMMA ArriveInv == ASSUME IInv, NEW c \in CPU, Arrive(c) \/ ReadClock(c) PROVE IInv'
  <1>0. TypeOK /\ RunInv /\ now \in Nat
    BY NowNat DEF IInv, BasicInv
  <1>1. /\ UNCHANGED <<now, elems, linked, reg, drops, windows>>
        /\ \E to \in {"clock", "deadline"} : pc' = [pc EXCEPT ![c] = to]
        /\ pc[c] \in {"idle", "clock"}
    BY DEF Arrive, ReadClock, Goto
  <1>2. /\ elem' \in [CPU -> Elem \cup {0}] /\ elem'[c] \in Elem
        /\ \A d \in CPU \ {c} : elem'[d] = elem[d]
    <2>1. CASE Arrive(c)
      <3>1. linked \in Elem /\ elem' = [elem EXCEPT ![c] = linked]
        BY <1>0, <2>1 DEF Arrive, TypeOK
      <3> QED BY <1>0, <3>1 DEF TypeOK
    <2>2. CASE ReadClock(c)
      <3>1. elem' = elem /\ elem[c] \in Elem
        BY <1>0, <2>2 DEF ReadClock, Goto, RunInv
      <3> QED BY <1>0, <3>1 DEF TypeOK
    <2> QED BY <2>1, <2>2
  <1>3. ts' \in [CPU -> Nat] /\ \A d \in CPU : ts'[d] <= now
    <2>1. ts' = ts \/ ts' = [ts EXCEPT ![c] = now]
      BY DEF Arrive, ReadClock
    <2> QED BY <1>0, <2>1 DEF TypeOK, RunInv
  <1>4. TypeOK'
    <2>1. {"clock", "deadline"} \subseteq Steps
      BY DEF Steps
    <2>2. pc' \in [CPU -> Steps]
      BY <1>0, <1>1, <2>1 DEF TypeOK
    <2>3. /\ now' \in Boot .. MaxTime /\ linked' \in Elem \cup {0}
          /\ reg' \in [CPU -> Nat] /\ drops' \in Nat /\ windows' \in [Elem -> Nat]
          /\ elems' \in [Elem -> RuleType]
      BY <1>0, <1>1 DEF TypeOK, RuleType
    <2> QED BY <1>2, <1>3, <2>2, <2>3 DEF TypeOK, RuleType
  <1>5. RunInv'
    BY <1>0, <1>1, <1>2, <1>3 DEF RunInv, TypeOK
  <1>6. \A d \in CPU :
           \/ pc'[d] = pc[d] /\ elem'[d] = elem[d] /\ reg'[d] = reg[d]
           \/ /\ pc[d] \notin ClearSteps
              /\ pc'[d] \notin {"streak", "escalate", "impose", "admit", "dropped"}
    BY <1>0, <1>1, <1>2 DEF ClearSteps, TypeOK
  <1>7. \A f \in Elem : elems'[f] \in {Fresh, elems[f]} /\ windows'[f] = windows[f]
    BY <1>1
  <1> QED BY <1>1, <1>4, <1>5, <1>6, <1>7, MemoryInv

\* The packet is dropped under a quarantine.
LEMMA HeldInv == ASSUME IInv, NEW c \in CPU, Held(c) PROVE IInv'
  <1>0. /\ TypeOK /\ RunInv /\ now \in Nat /\ "held" \in Steps \ {"idle"}
        /\ elems \in [Elem -> RuleType] /\ windows \in [Elem -> Nat]
    BY NowNat DEF IInv, BasicInv, Steps, TypeOK, RuleType
  <1>1. /\ pc[c] = "held" /\ pc' = [pc EXCEPT ![c] = "idle"]
        /\ elem[c] \in Elem /\ elem' = [elem EXCEPT ![c] = 0]
        /\ ts' = [ts EXCEPT ![c] = 0] /\ reg' = [reg EXCEPT ![c] = 0]
        /\ UNCHANGED <<now, linked, drops>>
    BY <1>0, FinishLemma DEF Held
  <1>2. /\ elems' \in [Elem -> RuleType] /\ windows' \in [Elem -> Nat]
        /\ \A f \in Elem : \/ GivenUp(f)
                           \/ elems'[f] = elems[f] /\ windows'[f] = windows[f]
    BY <1>0, MemoryLemma DEF Held
  <1>3. TypeOK'
    BY <1>0, <1>1, <1>2 DEF TypeOK, RuleType, Steps
  <1>4. RunInv'
    BY <1>0, <1>1 DEF RunInv, TypeOK
  <1>5. \A d \in CPU :
           \/ pc'[d] = pc[d] /\ elem'[d] = elem[d] /\ reg'[d] = reg[d]
           \/ /\ pc[d] \notin ClearSteps
              /\ pc'[d] \notin {"streak", "escalate", "impose", "admit", "dropped"}
    BY <1>0, <1>1 DEF ClearSteps, TypeOK
  <1> QED BY <1>1, <1>2, <1>3, <1>4, <1>5, MemoryInv

\* A packet that ends with the store of a counter, window_count or rate_drop_count.
LEMMA FinishInv ==
    ASSUME IInv, NEW c \in CPU, NEW field \in {"window_count", "rate_drop_count"},
           NEW from \in {"admit", "dropped"}, Finish(c, from),
           Write(c, field, reg[c] + 1, windows),
           UNCHANGED <<now, linked>>, drops' \in Nat, drops' >= drops,
           field = "window_count" => reg[c] + 1 <= rate_pps,
           field = "rate_drop_count" => reg[c] + 1 <= drops'
    PROVE  IInv'
  <1>0. /\ TypeOK /\ RunInv /\ BasicInv /\ CreditInv /\ now \in Nat
        /\ from \in Steps \ {"idle"} /\ field \in Fields
        /\ elems \in [Elem -> RuleType] /\ windows \in [Elem -> Nat]
        /\ Fits(field, reg[c] + 1)
    BY NowNat DEF IInv, BasicInv, Steps, Fields, TypeOK, RuleType, Fits
  <1>1. /\ pc[c] = from /\ pc' = [pc EXCEPT ![c] = "idle"]
        /\ elem[c] \in Elem /\ elem' = [elem EXCEPT ![c] = 0]
        /\ ts' = [ts EXCEPT ![c] = 0] /\ reg' = [reg EXCEPT ![c] = 0]
    BY <1>0, FinishLemma
  <1>2. Wrote(c, field, reg[c] + 1, windows)
    BY <1>0, <1>1, WriteLemma
  <1>3. TypeOK'
    BY <1>0, <1>1, <1>2 DEF TypeOK, Wrote, RuleType, Steps
  <1>4. RunInv'
    BY <1>0, <1>1 DEF RunInv, TypeOK
  <1>5. \A d \in CPU : pc'[d] \in {"admit", "dropped"} =>
            pc[d] = pc'[d] /\ reg'[d] = reg[d]
    BY <1>0, <1>1 DEF TypeOK
  <1>6. BasicInv'
    <2>1. field # "quarantine_until_ns"
      OBVIOUS
    <2> QED BY <1>0, <1>2, <1>3, <1>4, <1>5, <2>1, WroteBasic
  <1>7. \A d \in CPU :
           \/ pc'[d] = pc[d] /\ elem'[d] = elem[d] /\ reg'[d] = reg[d]
           \/ /\ pc[d] \notin ClearSteps
              /\ pc'[d] \notin {"streak", "escalate", "impose"}
    BY <1>0, <1>1 DEF ClearSteps, TypeOK
  <1>8. ASSUME NEW e \in Elem
        PROVE  /\ elems'[e].window_violated \in {0, elems[e].window_violated}
               /\ elems'[e].violation_streak \in {0, elems[e].violation_streak}
               /\ GivenUp(e) \/ windows'[e] = windows[e]
    <2>1. "window_violated" \in Fields /\ "violation_streak" \in Fields
      BY DEF Fields
    <2>2. GivenUp(e) \/ windows'[e] = windows[e]
      BY <1>2 DEF Wrote
    <2> QED BY <1>0, <1>2, <2>1, <2>2, FieldAfter
  <1>9. CreditInv'
    BY <1>0, <1>3, <1>4, <1>7, <1>8, CalmCredit
  <1> QED BY <1>6, <1>9 DEF IInv

LEMMA AdmitInv == ASSUME IInv, NEW c \in CPU, Admit(c) PROVE IInv'
  <1>1. /\ Finish(c, "admit") /\ UNCHANGED <<now, linked, drops>>
        /\ Write(c, "window_count", reg[c] + 1, windows)
    BY DEF Admit
  <1>2. reg[c] + 1 <= rate_pps /\ drops' \in Nat /\ drops' >= drops
    BY <1>1, RaceAssumption DEF IInv, BasicInv, TypeOK, CapInv, Finish, Goto
  <1> QED BY <1>1, <1>2, FinishInv

LEMMA DroppedInv == ASSUME IInv, NEW c \in CPU, Dropped(c) PROVE IInv'
  <1>1. /\ Finish(c, "dropped") /\ UNCHANGED <<now, linked>> /\ drops' = drops + 1
        /\ Write(c, "rate_drop_count", reg[c] + 1, windows)
    BY DEF Dropped
  <1>2. reg[c] + 1 <= drops' /\ drops' \in Nat /\ drops' >= drops
    BY <1>1 DEF IInv, BasicInv, TypeOK, DropInv, Finish, Goto
  <1> QED BY <1>1, <1>2, FinishInv

LEMMA MarkInv == ASSUME IInv, NEW c \in CPU, Mark(c) PROVE IInv'
  <1>1. BasicInv /\ CreditInv /\ TypeOK /\ RunInv
    BY DEF IInv, BasicInv
  <1>2. /\ "mark" \in Steps \ {"idle"} /\ "drop" \in Steps \ {"idle", "admit", "dropped"}
        /\ "window_violated" \in Fields \ {"rate_drop_count"}
        /\ Fits("window_violated", 1)
        /\ Stores(c, "mark", "window_violated", 1, "drop", Marked(c))
    BY DEF Steps, Fields, Fits, Mark, Stores
  <1>3. Marked(c) \in [Elem -> Nat]
    BY <1>1, MarkLemma
  <1>4. BasicInv'
    BY <1>1, <1>2, <1>3, StoreBasic
  <1> QED BY <1>1, <1>4, MarkCredit DEF IInv

\* A store that scores nothing.
LEMMA StoreInv ==
    ASSUME IInv, NEW c \in CPU, NEW from \in Steps \ {"idle"},
           NEW to \in Steps \ {"idle", "admit", "dropped", "streak", "escalate", "impose"},
           NEW field \in Fields \ {"rate_drop_count"}, NEW value,
           Fits(field, value), Store(c, from, field, value, to),
           field \in {"window_count", "window_violated", "violation_streak"} => value = 0,
           field = "quarantine_until_ns" => value <= now + quarantine_seconds * Second,
           from \in ClearSteps => to \in ClearSteps \/ field = "window_violated"
    PROVE  IInv'
  <1>1. BasicInv /\ CreditInv /\ windows \in [Elem -> Nat]
    BY DEF IInv, BasicInv, TypeOK
  <1>2. Stores(c, from, field, value, to, windows)
    BY StoresCases
  <1>3. BasicInv'
    <2>1. field = "window_count" => value <= rate_pps
      BY RaceAssumption
    <2> QED BY <1>1, <1>2, <2>1, StoreBasic
  <1>4. CreditInv'
    BY <1>1, <1>2, <1>3, StoreCredit
  <1> QED BY <1>3, <1>4 DEF IInv

\* The streak is cleared.
LEMMA ClearInv ==
    ASSUME IInv, NEW c \in CPU, NEW from \in Steps \ {"idle"},
           NEW to \in Steps \ {"idle", "admit", "dropped", "streak", "escalate", "impose"},
           ClearStreak(c, from, to), from \in ClearSteps => to \in ClearSteps
    PROVE  IInv'
  <1>1. BasicInv /\ CreditInv /\ TypeOK /\ RunInv
    BY DEF IInv, BasicInv
  <1>2. Stores(c, from, "violation_streak", 0, to, Cleared(c))
    BY StoresCases
  <1>3. Cleared(c) \in [Elem -> Nat]
    <2>1. elem[c] \in Elem
      BY <1>1, <1>2 DEF Stores, Goto, RunInv
    <2> QED BY <1>1, <2>1, ClearedType
  <1>4. "violation_streak" \in Fields \ {"rate_drop_count"} /\ Fits("violation_streak", 0)
    BY DEF Fields, Fits
  <1>5. BasicInv'
    BY <1>1, <1>2, <1>3, <1>4, StoreBasic
  <1>6. CreditInv'
    BY <1>1, <1>2, <1>5, ClearCredit
  <1> QED BY <1>5, <1>6 DEF IInv

\* A load that does not take a streak.
LEMMA ReadInv ==
    ASSUME IInv, NEW c \in CPU, NEW from \in Steps \ {"idle"},
           NEW to \in Steps \ {"idle", "escalate", "impose"},
           NEW v \in Nat, Reads(c, from, to, v),
           to = "admit" => v < rate_pps,
           to = "dropped" => v <= drops,
           from \in ClearSteps => to \in ClearSteps,
           to = "streak" => elems[elem[c]].window_violated = 1
    PROVE  IInv'
  <1>1. BasicInv /\ CreditInv
    BY DEF IInv
  <1>2. BasicInv'
    BY <1>1, ReadBasic
  <1>3. CreditInv'
    BY <1>1, <1>2, ReadCredit
  <1> QED BY <1>2, <1>3 DEF IInv

LEMMA RunInvariant == ASSUME IInv, NEW c \in CPU, Run(c) PROVE IInv'
  <1>0. /\ Fields = {"window_start_ns", "window_count", "window_violated",
                     "violation_streak", "quarantine_until_ns", "rate_drop_count"}
        /\ Steps = {"idle", "clock", "deadline", "held", "release", "forgive", "lift",
                    "window", "violated", "streak", "escalate", "reached", "impose",
                    "absolve", "calm", "start", "reset", "clear", "empty", "count",
                    "admit", "mark", "drop", "dropped"}
        /\ ClearSteps = {"reached", "impose", "absolve", "calm", "start", "reset", "clear"}
    BY DEF Fields, Steps, ClearSteps
  <1>1. /\ \A f \in Fields : Fits(f, 0)
        /\ Fits("window_start_ns", ts[c])
        /\ 0 <= now + quarantine_seconds * Second
        /\ BasicInv /\ CreditInv /\ TypeOK /\ RunInv
    BY NowNat, QuarantineNat DEF IInv, BasicInv, TypeOK, Fits
  <1>2. ASSUME NEW from \in Steps \ {"idle"}, NEW field \in Fields,
               NEW to, Load(c, from, field, to)
        PROVE  elem[c] \in Elem /\ elems[elem[c]][field] \in Nat
    <2>1. elem[c] \in Elem
      BY <1>1, <1>2 DEF Load, Goto, RunInv
    <2> QED BY <1>1, <2>1 DEF TypeOK, Fields
  <1>3. ASSUME NEW to \in {"held", "window"}, Compare(c, "deadline", to) PROVE IInv'
    <2>1. Reads(c, "deadline", to, 0)  BY <1>3, ReadsCases
    <2> QED BY <1>0, <2>1, ReadInv
  <1>4. CASE Compare(c, "held", "release")
    <2>1. Reads(c, "held", "release", 0)  BY <1>4, ReadsCases
    <2> QED BY <1>0, <2>1, ReadInv
  <1>5. CASE Store(c, "release", "quarantine_until_ns", 0, "forgive")
    BY <1>0, <1>1, <1>5, StoreInv
  <1>6. CASE ClearStreak(c, "forgive", "window")
    BY <1>0, <1>6, ClearInv
  <1>7. CASE ClearStreak(c, "release", "lift")
    BY <1>0, <1>7, ClearInv
  <1>8. CASE Store(c, "lift", "quarantine_until_ns", 0, "window")
    BY <1>0, <1>1, <1>8, StoreInv
  <1>9. ASSUME NEW to \in {"violated", "count"}, Compare(c, "window", to) PROVE IInv'
    <2>1. Reads(c, "window", to, 0)  BY <1>9, ReadsCases
    <2> QED BY <1>0, <2>1, ReadInv
  <1>10. CASE Compare(c, "violated", "streak") /\ Rule(c).window_violated # 0
    <2>1. Reads(c, "violated", "streak", 0)  BY <1>10, ReadsCases
    <2>2. elem[c] \in Elem
      BY <1>1, <1>10 DEF RunInv, Compare, Goto
    <2>3. elems[elem[c]].window_violated = 1
      BY <1>1, <1>10, <2>2 DEF TypeOK, Rule
    <2> QED BY <1>0, <2>1, <2>3, ReadInv
  <1>11. CASE Compare(c, "violated", "calm")
    <2>1. Reads(c, "violated", "calm", 0)  BY <1>11, ReadsCases
    <2> QED BY <1>0, <2>1, ReadInv
  <1>12. CASE ClearStreak(c, "calm", "start")
    BY <1>0, <1>12, ClearInv
  <1>13. CASE Load(c, "streak", "violation_streak", "escalate")
    <2>1. Reads(c, "streak", "escalate", elems[elem[c]].violation_streak)
      BY <1>13, ReadsCases
    <2>2. elems[elem[c]].violation_streak \in Nat
      BY <1>0, <1>2, <1>13
    <2>3. BasicInv'
      BY <1>0, <1>1, <2>1, <2>2, ReadBasic
    <2>4. CreditInv'
      BY <1>1, <1>13, <2>3, LoadStreakCredit
    <2> QED BY <2>3, <2>4 DEF IInv
  <1>14. CASE Store(c, "escalate", "violation_streak", reg[c] + 1, "reached")
    <2>1. Stores(c, "escalate", "violation_streak", reg[c] + 1, "reached", windows)
      BY <1>14, StoresCases
    <2>2. Fits("violation_streak", reg[c] + 1) /\ windows \in [Elem -> Nat]
      BY <1>1 DEF Fits, TypeOK
    <2>3. BasicInv'
      BY <1>0, <1>1, <2>1, <2>2, StoreBasic
    <2>4. CreditInv'
      BY <1>1, <1>14, <2>3, EscalateCredit
    <2> QED BY <2>3, <2>4 DEF IInv
  <1>15. CASE /\ Compare(c, "reached", "impose")
              /\ Rule(c).violation_streak >= quarantine_threshold
    <2>1. Reads(c, "reached", "impose", 0)  BY <1>15, ReadsCases
    <2>2. BasicInv'
      BY <1>0, <1>1, <2>1, ReadBasic
    <2>3. CreditInv'
      BY <1>1, <1>15, <2>2, ReachCredit
    <2> QED BY <2>2, <2>3 DEF IInv
  <1>16. CASE Compare(c, "reached", "start")
    <2>1. Reads(c, "reached", "start", 0)  BY <1>16, ReadsCases
    <2> QED BY <1>0, <2>1, ReadInv
  <1>17. CASE Store(c, "impose", "quarantine_until_ns",
                    ts[c] + quarantine_seconds * Second, "absolve")
    <2> DEFINE v == ts[c] + quarantine_seconds * Second
    <2>1. ts[c] \in Nat /\ ts[c] <= now
      BY <1>1 DEF TypeOK, RunInv
    <2>2. v \in Nat /\ v <= now + quarantine_seconds * Second
      BY <1>1, <2>1, QuarantineNat, NowNat
    <2>3. Fits("quarantine_until_ns", v)
      BY <2>2 DEF Fits
    <2>4. Store(c, "impose", "quarantine_until_ns", v, "absolve")
      BY <1>17
    <2> HIDE DEF v
    <2> QED BY <1>0, <2>2, <2>3, <2>4, StoreInv
  <1>18. CASE ClearStreak(c, "absolve", "start")
    BY <1>0, <1>18, ClearInv
  <1>19. CASE Store(c, "start", "window_start_ns", ts[c], "reset")
    BY <1>0, <1>1, <1>19, StoreInv
  <1>20. CASE Store(c, "reset", "window_count", 0, "clear")
    BY <1>0, <1>1, <1>20, StoreInv
  <1>21. CASE Store(c, "clear", "window_violated", 0, "count")
    BY <1>0, <1>1, <1>21, StoreInv
  <1>22. CASE Store(c, "reset", "window_violated", 0, "empty")
    BY <1>0, <1>1, <1>22, StoreInv
  <1>23. CASE Store(c, "empty", "window_count", 0, "count")
    BY <1>0, <1>1, <1>23, StoreInv
  <1>24. CASE /\ Load(c, "count", "window_count", "admit")
              /\ ~(Rule(c).window_count >= rate_pps)
    <2> DEFINE v == elems[elem[c]].window_count
    <2>1. Reads(c, "count", "admit", v)
      BY <1>24, ReadsCases
    <2>2. v \in Nat
      BY <1>0, <1>2, <1>24
    <2>3. v < rate_pps
      BY <1>24, <2>2, RaceAssumption DEF Rule
    <2> HIDE DEF v
    <2> QED BY <1>0, <2>1, <2>2, <2>3, ReadInv
  <1>25. CASE Load(c, "count", "window_count", "mark")
    <2>1. Reads(c, "count", "mark", elems[elem[c]].window_count)
      BY <1>25, ReadsCases
    <2>2. elems[elem[c]].window_count \in Nat
      BY <1>0, <1>2, <1>25
    <2> QED BY <1>0, <2>1, <2>2, ReadInv
  <1>26. CASE Load(c, "drop", "rate_drop_count", "dropped")
    <2> DEFINE v == elems[elem[c]].rate_drop_count
    <2>1. Reads(c, "drop", "dropped", v)
      BY <1>26, ReadsCases
    <2>2. v \in Nat /\ elem[c] \in Elem
      BY <1>0, <1>2, <1>26
    <2>3. v <= drops
      BY <1>1, <2>2 DEF BasicInv, DropInv, DropsUndercount
    <2> HIDE DEF v
    <2> QED BY <1>0, <2>1, <2>2, <2>3, ReadInv
  <1> QED
    BY RunCases, ArriveInv, HeldInv, AdmitInv, MarkInv, DroppedInv, <1>3, <1>4, <1>5,
       <1>6, <1>7, <1>8, <1>9, <1>10, <1>11, <1>12, <1>13, <1>14, <1>15, <1>16, <1>17,
       <1>18, <1>19, <1>20, <1>21, <1>22, <1>23, <1>24, <1>25, <1>26

LEMMA StepInv == IInv /\ [Next]_vars => IInv'
  <1> SUFFICES ASSUME IInv, [Next]_vars PROVE IInv'
    OBVIOUS
  <1>1. CASE UNCHANGED vars
    BY <1>1 DEF vars, IInv, BasicInv, TypeOK, RunInv, CapInv, CountWithinCap,
                NoEndlessQuarantine, DropInv, DropsUndercount, CreditInv,
                Creditors, Scoring, Clearing, Credit, EarnedPerCpu
  <1>2. CASE Next
    BY <1>2, TickInv, ControlInv, ArriveInv, RunInvariant DEF Next
  <1> QED BY <1>1, <1>2

LEMMA Invariant == Spec => []IInv
  BY InitInv, StepInv, PTL DEF Spec

-----------------------------------------------------------------------------
(* Theorems *)

\* enforce_policy() keeps every field of the rule in its range, on any number of CPUs.
THEOREM TypeCorrect == Spec => []TypeOK
  <1>1. IInv => TypeOK
    BY DEF IInv, BasicInv
  <1> QED BY <1>1, Invariant, PTL

\* The window_count that racing CPUs store never exceeds rate_pps in the compiled
\* program, whose increment uses the value it compared: an update lost between that
\* load and the store only makes the count smaller.
THEOREM CountWithinCapHolds == Spec => []CountWithinCap
  <1>1. IInv => CountWithinCap
    BY DEF IInv, BasicInv, CapInv
  <1> QED BY <1>1, Invariant, PTL

\* A deadline written by any CPU, from a clock it read earlier, is never further
\* away than the configured quarantine.
THEOREM NoEndlessQuarantineHolds == Spec => []NoEndlessQuarantine
  <1>1. IInv => NoEndlessQuarantine
    BY DEF IInv, BasicInv
  <1> QED BY <1>1, Invariant, PTL

\* rate_drop_count never shows a drop that did not happen.
THEOREM DropsUndercountHolds == Spec => []DropsUndercount
  <1>1. IInv => DropsUndercount
    BY DEF IInv, BasicInv, DropInv
  <1> QED BY <1>1, Invariant, PTL

\* However the CPUs interleave, n of them impose no quarantine with fewer than
\* threshold / n violated windows of the element since its streak was last cleared
\* by a program alone at work on it.
THEOREM EarnedPerCpuHolds == Spec => []EarnedPerCpu
  <1>1. IInv => EarnedPerCpu
    BY DEF IInv, CreditInv
  <1> QED BY <1>1, Invariant, PTL

=============================================================================
