-------------------------- MODULE RatePolicyProofs --------------------------
(* Theorems about RatePolicy, for every length of a second, every policy and *)
(* every bound on the clock.                                                 *)
EXTENDS RatePolicy, TLAPS

\* The window of the rule started in the past and its count is within the cap.
WindowInv ==
    /\ rule.window_start_ns <= now
    /\ rule.rate_pps # 0 => rule.window_count <= rule.rate_pps

\* What the window's position says about the second under observation: nothing
\* was seen before it; a window that began before it contributed its count at
\* most; with a window begun inside it, one earlier window contributed as well.
ProbeInv ==
    /\ now < probe => seen = 0
    /\ rule.rate_pps # 0 =>
          /\ rule.window_start_ns < probe => seen <= rule.window_count
          /\ rule.window_start_ns < probe + Second =>
                seen <= rule.rate_pps + rule.window_count
          /\ seen <= 2 * rule.rate_pps

\* Every offence held against the subscriber is a packet dropped over the cap.
OffenceInv ==
    /\ ValidPolicy(rule)
    /\ rule.violation_streak + rule.window_violated <= rule.rate_drop_count

IInv ==
    /\ TypeOK
    /\ WindowInv
    /\ ProbeInv
    /\ OffenceInv
    /\ QuarantineEarned
    /\ CleanSlate

-----------------------------------------------------------------------------
(* Lemmas about enforce_policy *)

\* A configured quarantine lasts a second at least.
LEMMA SecondsLemma ==
    ASSUME NEW s \in Nat \ {0}
    PROVE  s * Second \in Nat /\ s * Second >= Second
  <1>1. PICK k \in Nat : s = k + 1
    BY s - 1 \in Nat, s = (s - 1) + 1
  <1>2. s * Second = k * Second + Second
    BY <1>1, ConstantsAssumption
  <1>3. k * Second \in Nat
    BY <1>1, ConstantsAssumption
  <1> QED BY <1>2, <1>3, ConstantsAssumption

\* Clearing an elapsed quarantine touches the deadline and the streak only.
LEMMA ReleaseLemma ==
    ASSUME NEW r \in Rule
    PROVE  /\ Release(r) \in Rule
           /\ Release(r).quarantine_until_ns = 0
           /\ Release(r).rate_pps = r.rate_pps
           /\ Release(r).quarantine_threshold = r.quarantine_threshold
           /\ Release(r).quarantine_seconds = r.quarantine_seconds
           /\ Release(r).window_start_ns = r.window_start_ns
           /\ Release(r).window_count = r.window_count
           /\ Release(r).window_violated = r.window_violated
           /\ Release(r).rate_drop_count = r.rate_drop_count
           /\ Release(r).violation_streak =
                 IF r.quarantine_until_ns # 0 THEN 0 ELSE r.violation_streak
  BY DEF Release, Rule

\* A new window starts empty; the rule's policy and drop count stay.
LEMMA RollOverLemma ==
    ASSUME NEW r \in Rule, NEW t \in Nat
    PROVE  /\ RollOver(r, t) \in Rule
           /\ RollOver(r, t).rate_pps = r.rate_pps
           /\ RollOver(r, t).quarantine_threshold = r.quarantine_threshold
           /\ RollOver(r, t).quarantine_seconds = r.quarantine_seconds
           /\ RollOver(r, t).window_start_ns = t
           /\ RollOver(r, t).window_count = 0
           /\ RollOver(r, t).window_violated = 0
           /\ RollOver(r, t).rate_drop_count = r.rate_drop_count
           /\ RollOver(r, t).violation_streak =
                 IF r.window_violated = 0 \/ Escalates(r)
                 THEN 0 ELSE r.violation_streak + 1
           /\ RollOver(r, t).quarantine_until_ns =
                 IF Escalates(r) THEN t + r.quarantine_seconds * Second
                                 ELSE r.quarantine_until_ns
  <1> DEFINE u == IF Escalates(r) THEN t + r.quarantine_seconds * Second
                                  ELSE r.quarantine_until_ns
             v == IF r.window_violated = 0 \/ Escalates(r)
                  THEN 0 ELSE r.violation_streak + 1
             w == [r EXCEPT !.quarantine_until_ns = u, !.violation_streak = v,
                            !.window_start_ns = t, !.window_count = 0,
                            !.window_violated = 0]
  <1>1. r.quarantine_seconds * Second \in Nat
    BY ConstantsAssumption DEF Rule
  <1>2. u \in Nat /\ v \in Nat
    BY <1>1 DEF Rule
  <1>3. RollOver(r, t) = w
    BY DEF RollOver
  <1>4. /\ u = IF Escalates(r) THEN t + r.quarantine_seconds * Second
                               ELSE r.quarantine_until_ns
        /\ v = IF r.window_violated = 0 \/ Escalates(r)
               THEN 0 ELSE r.violation_streak + 1
    OBVIOUS
  <1> HIDE DEF u, v
  <1>5. /\ w \in Rule
        /\ w.rate_pps = r.rate_pps
        /\ w.quarantine_threshold = r.quarantine_threshold
        /\ w.quarantine_seconds = r.quarantine_seconds
        /\ w.window_start_ns = t
        /\ w.window_count = 0
        /\ w.window_violated = 0
        /\ w.rate_drop_count = r.rate_drop_count
        /\ w.violation_streak = v
        /\ w.quarantine_until_ns = u
    BY <1>2 DEF Rule
  <1> HIDE DEF w
  <1> QED BY <1>3, <1>4, <1>5

\* A counted packet either uses one unit of the allowance or marks the window.
LEMMA CountLemma ==
    ASSUME NEW r \in Rule
    PROVE  /\ Count(r) \in Rule
           /\ Count(r).rate_pps = r.rate_pps
           /\ Count(r).quarantine_threshold = r.quarantine_threshold
           /\ Count(r).quarantine_seconds = r.quarantine_seconds
           /\ Count(r).window_start_ns = r.window_start_ns
           /\ Count(r).violation_streak = r.violation_streak
           /\ Count(r).quarantine_until_ns = r.quarantine_until_ns
           /\ OverCap(r) =>
                 /\ Count(r).window_count = r.window_count
                 /\ Count(r).window_violated = 1
                 /\ Count(r).rate_drop_count = r.rate_drop_count + 1
           /\ ~OverCap(r) =>
                 /\ Count(r).window_count = r.window_count + 1
                 /\ Count(r).window_violated = r.window_violated
                 /\ Count(r).rate_drop_count = r.rate_drop_count
  <1> DEFINE d == r.rate_drop_count + 1
             over == [r EXCEPT !.window_violated = 1, !.rate_drop_count = d]
             under == [r EXCEPT !.window_count = r.window_count + 1]
  <1>0. d \in Nat /\ d = r.rate_drop_count + 1
    BY DEF Rule
  <1> HIDE DEF d
  <1>1. /\ over \in Rule
        /\ over.rate_pps = r.rate_pps
        /\ over.quarantine_threshold = r.quarantine_threshold
        /\ over.quarantine_seconds = r.quarantine_seconds
        /\ over.window_start_ns = r.window_start_ns
        /\ over.violation_streak = r.violation_streak
        /\ over.quarantine_until_ns = r.quarantine_until_ns
        /\ over.window_count = r.window_count
        /\ over.window_violated = 1
        /\ over.rate_drop_count = d
    BY <1>0 DEF Rule
  <1>2. /\ under \in Rule
        /\ under.rate_pps = r.rate_pps
        /\ under.quarantine_threshold = r.quarantine_threshold
        /\ under.quarantine_seconds = r.quarantine_seconds
        /\ under.window_start_ns = r.window_start_ns
        /\ under.violation_streak = r.violation_streak
        /\ under.quarantine_until_ns = r.quarantine_until_ns
        /\ under.window_count = r.window_count + 1
        /\ under.window_violated = r.window_violated
        /\ under.rate_drop_count = r.rate_drop_count
    BY DEF Rule
  <1>3. Count(r) = IF OverCap(r) THEN over ELSE under
    BY <1>0 DEF Count
  <1> HIDE DEF over, under
  <1>4. CASE OverCap(r)
    BY <1>0, <1>1, <1>3, <1>4
  <1>5. CASE ~OverCap(r)
    BY <1>2, <1>3, <1>5
  <1> QED BY <1>4, <1>5

-----------------------------------------------------------------------------
(* The inductive invariant *)

LEMMA NewRuleLemma ==
    ASSUME NEW p \in Policy
    PROVE  /\ NewRule(p) \in Rule
           /\ NewRule(p).rate_pps = p.rate_pps
           /\ NewRule(p).quarantine_threshold = p.quarantine_threshold
           /\ NewRule(p).quarantine_seconds = p.quarantine_seconds
           /\ NewRule(p).window_start_ns = 0
           /\ NewRule(p).window_count = 0
           /\ NewRule(p).window_violated = 0
           /\ NewRule(p).violation_streak = 0
           /\ NewRule(p).quarantine_until_ns = 0
           /\ NewRule(p).rate_drop_count = 0
  BY DEF NewRule, Rule, Policy

LEMMA InitIInv == Init => IInv
  <1> DEFINE p0 == [rate_pps |-> 0, quarantine_threshold |-> 0,
                    quarantine_seconds |-> 0]
  <1> SUFFICES ASSUME Init PROVE IInv
    OBVIOUS
  <1>1. p0 \in Policy /\ p0.rate_pps = 0 /\ p0.quarantine_threshold = 0
    BY DEF Policy
  <1>2. /\ rule = NewRule(p0) /\ now = Boot /\ seen = 0 /\ streakFrom = 0
        /\ present = FALSE /\ verdict = "none" /\ probe \in Boot .. MaxTime
    BY DEF Init
  <1> HIDE DEF p0
  <1>3. TypeOK
    <2>1. rule \in Rule
      BY <1>1, <1>2, NewRuleLemma
    <2>2. probe \in Nat
      BY <1>2, ConstantsAssumption
    <2> QED BY <1>2, <2>1, <2>2, ConstantsAssumption DEF TypeOK
  <1> QED
    BY <1>1, <1>2, <1>3, NewRuleLemma, ConstantsAssumption
    DEF IInv, TypeOK, WindowInv, ProbeInv, OffenceInv, ValidPolicy,
        QuarantineEarned, CleanSlate

\* The packet that finds a quarantine elapsed finds its window over as well.
LEMMA ElapsedWindow ==
    ASSUME IInv, ~Held(rule, now), rule.quarantine_until_ns # 0
    PROVE  WindowOver(rule, now)
  BY ConstantsAssumption
  DEF IInv, TypeOK, Rule, Held, CleanSlate, WindowOver

\* The four ways through enforce_policy, with what each leaves in the rule.
LEMMA EnforceCases ==
    ASSUME IInv
    PROVE  LET e == Enforce(rule, now) IN
           \/ /\ Held(rule, now)
              /\ e.rule = rule /\ e.drop = TRUE
           \/ /\ ~Held(rule, now) /\ rule.rate_pps = 0
              /\ e.rule = rule /\ e.drop = FALSE
           \/ /\ ~Held(rule, now) /\ rule.rate_pps # 0
              /\ rule.quarantine_until_ns = 0
              /\ ~WindowOver(rule, now)
              /\ e.rule = Count(rule) /\ e.drop = OverCap(rule)
           \/ /\ ~Held(rule, now) /\ rule.rate_pps # 0
              /\ WindowOver(rule, now)
              /\ e.rule = Count(RollOver(Release(rule), now))
              /\ e.drop = FALSE
  <1> DEFINE e == Enforce(rule, now)
  <1>0. rule \in Rule /\ now \in Nat
    BY DEF IInv, TypeOK
  <1>1. CASE Held(rule, now)
    BY <1>1 DEF Enforce
  <1>2. CASE ~Held(rule, now) /\ rule.rate_pps = 0
    <2>1. rule.quarantine_until_ns = 0
      BY <1>2 DEF IInv, QuarantineEarned
    <2> QED BY <1>2, <2>1 DEF Enforce, Release
  <1>3. CASE ~Held(rule, now) /\ rule.rate_pps # 0 /\ ~WindowOver(rule, now)
    <2>1. rule.quarantine_until_ns = 0
      BY <1>3, ElapsedWindow
    <2>2. Release(rule) = rule
      BY <2>1 DEF Release
    <2>3. Rolled(Release(rule), now) = rule
      BY <1>3, <2>2 DEF Rolled
    <2> QED BY <1>3, <2>1, <2>3 DEF Enforce
  <1>4. CASE ~Held(rule, now) /\ rule.rate_pps # 0 /\ WindowOver(rule, now)
    <2> DEFINE q == Release(rule)
               w == RollOver(q, now)
    <2>1. q \in Rule /\ q.window_start_ns = rule.window_start_ns
          /\ q.rate_pps = rule.rate_pps
      BY <1>0, ReleaseLemma
    <2>2. Rolled(q, now) = w
      BY <1>4, <2>1 DEF Rolled, WindowOver
    <2>3. w.window_count = 0 /\ w.rate_pps = rule.rate_pps
      BY <1>0, <2>1, RollOverLemma
    <2>4. OverCap(w) = FALSE
      BY <1>0, <1>4, <2>3 DEF OverCap, Rule
    <2> QED BY <1>4, <2>2, <2>4 DEF Enforce
  <1> QED BY <1>1, <1>2, <1>3, <1>4

LEMMA PacketIInv == IInv /\ Packet => IInv'
  <1> SUFFICES ASSUME IInv, Packet PROVE IInv'
    OBVIOUS
  <1> DEFINE e == Enforce(rule, now)
  <1>0. /\ rule \in Rule /\ now \in Nat /\ probe \in Nat /\ seen \in Nat
        /\ rule' = e.rule /\ now' = now /\ probe' = probe
        /\ streakFrom \in Nat /\ streakFrom' \in {e.rule.window_start_ns, streakFrom}
        /\ seen' = IF InProbe(now) /\ ~e.drop /\ rule.rate_pps # 0
                   THEN seen + 1 ELSE seen
        /\ present' \in BOOLEAN /\ verdict' \in {"none", "pass", "drop"}
    BY DEF IInv, TypeOK, Packet
  <1>1. CASE e.rule = rule /\ (e.drop = TRUE \/ rule.rate_pps = 0)
    <2>1. seen' = seen /\ rule' = rule
      BY <1>0, <1>1
    <2>2. TypeOK'
      BY <1>0, <2>1 DEF TypeOK, Rule
    <2> QED
      BY <1>0, <2>1, <2>2
      DEF IInv, WindowInv, ProbeInv, OffenceInv, ValidPolicy,
          QuarantineEarned, CleanSlate, WindowOver
  <1>2. CASE /\ ~Held(rule, now) /\ rule.rate_pps # 0
             /\ rule.quarantine_until_ns = 0 /\ ~WindowOver(rule, now)
             /\ e.rule = Count(rule) /\ e.drop = OverCap(rule)
    <2>1. rule' = Count(rule) /\ rule' \in Rule
      BY <1>0, <1>2, CountLemma
    <2>2. seen' \in Nat /\ TypeOK'
      BY <1>0, <1>2, <2>1 DEF TypeOK, Rule
    <2>3. WindowInv'
      BY <1>0, <2>1, CountLemma DEF IInv, WindowInv, OverCap, Rule
    <2>4. ProbeInv'
      <3> HIDE DEF e
      <3>1. /\ rule'.rate_pps = rule.rate_pps
            /\ rule'.window_start_ns = rule.window_start_ns
        BY <1>0, <2>1, CountLemma
      <3>2. CASE OverCap(rule)
        <4>1. rule'.window_count = rule.window_count /\ seen' = seen
          BY <1>0, <1>2, <2>1, <3>2, CountLemma
        <4> QED BY <1>0, <3>1, <4>1 DEF IInv, ProbeInv
      <3>3. CASE ~OverCap(rule)
        <4>1. /\ rule'.window_count = rule.window_count + 1
              /\ seen' = IF InProbe(now) THEN seen + 1 ELSE seen
          BY <1>0, <1>2, <2>1, <3>3, CountLemma
        <4>2. rule.window_count + 1 <= rule.rate_pps
          BY <1>0, <3>3 DEF OverCap, Rule
        <4>3. /\ rule.rate_pps \in Nat /\ rule.window_count \in Nat
              /\ rule.window_start_ns \in Nat /\ rule.window_start_ns <= now
          BY <1>0 DEF Rule, IInv, WindowInv
        <4> QED
          BY <1>0, <1>2, <3>1, <4>1, <4>2, <4>3, ConstantsAssumption
          DEF IInv, ProbeInv, InProbe
      <3> QED BY <3>2, <3>3
    <2>5. OffenceInv'
      BY <1>0, <2>1, CountLemma DEF IInv, OffenceInv, ValidPolicy, Rule
    <2>6. QuarantineEarned' /\ CleanSlate'
      BY <1>0, <1>2, <2>1, CountLemma DEF QuarantineEarned, CleanSlate
    <2> QED BY <2>2, <2>3, <2>4, <2>5, <2>6 DEF IInv
  <1>3. CASE /\ ~Held(rule, now) /\ rule.rate_pps # 0
             /\ WindowOver(rule, now)
             /\ e.rule = Count(RollOver(Release(rule), now))
             /\ e.drop = FALSE
    <2> DEFINE q == Release(rule)
               w == RollOver(q, now)
    <2>1. q \in Rule
      BY <1>0, ReleaseLemma
    <2>2. w \in Rule
      BY <1>0, <2>1, RollOverLemma
    <2>3. rule' = Count(w) /\ rule' \in Rule
      BY <1>0, <1>3, <2>2, CountLemma
    <2>a. /\ q.rate_pps = rule.rate_pps
          /\ q.quarantine_threshold = rule.quarantine_threshold
          /\ q.quarantine_seconds = rule.quarantine_seconds
          /\ q.rate_drop_count = rule.rate_drop_count
      BY <1>0, ReleaseLemma
    <2>b. /\ w.rate_pps = rule.rate_pps
          /\ w.quarantine_threshold = rule.quarantine_threshold
          /\ w.quarantine_seconds = rule.quarantine_seconds
          /\ w.rate_drop_count = rule.rate_drop_count
          /\ w.window_start_ns = now
          /\ w.window_count = 0
          /\ w.window_violated = 0
      BY <1>0, <2>1, <2>a, RollOverLemma
    <2>4. ~OverCap(w)
      BY <1>0, <1>3, <2>b DEF OverCap, Rule
    <2>5. /\ rule'.rate_pps = rule.rate_pps
          /\ rule'.quarantine_threshold = rule.quarantine_threshold
          /\ rule'.quarantine_seconds = rule.quarantine_seconds
          /\ rule'.window_start_ns = now
          /\ rule'.window_count = 1
          /\ rule'.window_violated = 0
          /\ rule'.rate_drop_count = rule.rate_drop_count
          /\ rule'.violation_streak = w.violation_streak
          /\ rule'.quarantine_until_ns = w.quarantine_until_ns
      <3> HIDE DEF q, w
      <3> QED BY <2>2, <2>3, <2>4, <2>b, CountLemma
    <2>6. /\ w.violation_streak =
                IF q.window_violated = 0 \/ Escalates(q)
                THEN 0 ELSE q.violation_streak + 1
          /\ w.quarantine_until_ns =
                IF Escalates(q) THEN now + rule.quarantine_seconds * Second
                                ELSE 0
          /\ q.window_violated = rule.window_violated
          /\ q.violation_streak \in {0, rule.violation_streak}
      <3>1. /\ q.quarantine_until_ns = 0 /\ q.window_violated = rule.window_violated
            /\ q.violation_streak \in {0, rule.violation_streak}
        BY <1>0, ReleaseLemma
      <3> HIDE DEF q
      <3>2. /\ w.violation_streak =
                  IF q.window_violated = 0 \/ Escalates(q)
                  THEN 0 ELSE q.violation_streak + 1
            /\ w.quarantine_until_ns =
                  IF Escalates(q) THEN now + q.quarantine_seconds * Second
                                  ELSE q.quarantine_until_ns
        BY <1>0, <2>1, RollOverLemma, Zenon
      <3> QED BY <2>a, <3>1, <3>2, Zenon
    <2>7. Escalates(q) => /\ rule.window_violated = 1
                          /\ rule.quarantine_threshold # 0
                          /\ q.violation_streak + 1 >= rule.quarantine_threshold
      BY <1>0, ReleaseLemma DEF Escalates
    <2> HIDE DEF q, w, e
    <2>8. seen' \in Nat /\ TypeOK'
      BY <1>0, <2>3 DEF TypeOK, Rule
    <2>9. WindowInv'
      BY <1>0, <1>3, <2>5 DEF WindowInv, Rule
    <2>10. ProbeInv'
      BY <1>0, <1>3, <2>5, ConstantsAssumption
      DEF IInv, WindowInv, ProbeInv, WindowOver, Rule, InProbe
    <2>11. OffenceInv'
      BY <1>0, <2>5, <2>6, <2>7
      DEF IInv, OffenceInv, ValidPolicy, Rule
    <2>12. QuarantineEarned'
      BY <1>0, <1>3, <2>5, <2>6, <2>7
      DEF IInv, OffenceInv, QuarantineEarned, Rule
    <2>13. CleanSlate'
      <3>1. SUFFICES ASSUME Escalates(q) PROVE CleanSlate'
        BY <2>5, <2>6 DEF CleanSlate
      <3>2. rule.quarantine_seconds \in Nat \ {0}
        BY <1>0, <2>7, <3>1 DEF IInv, OffenceInv, ValidPolicy, Rule
      <3>3. /\ rule.quarantine_seconds * Second \in Nat
            /\ rule.quarantine_seconds * Second >= Second
        BY <3>2, SecondsLemma
      <3> QED
        BY <1>0, <2>5, <2>6, <3>1, <3>3, ConstantsAssumption
        DEF CleanSlate, WindowOver
    <2> QED BY <2>8, <2>9, <2>10, <2>11, <2>12, <2>13 DEF IInv
  <1> QED
    <2> HIDE DEF e
    <2>1. e = Enforce(rule, now)
      BY DEF e
    <2> QED BY <1>1, <1>2, <1>3, <2>1, EnforceCases

LEMMA NextIInv == IInv /\ [Next]_vars => IInv'
  <1> SUFFICES ASSUME IInv, [Next]_vars PROVE IInv'
    OBVIOUS
  <1> USE DEF IInv
  <1>1. CASE Tick
    BY <1>1
    DEF Tick, TypeOK, Rule, WindowInv, ProbeInv, OffenceInv, ValidPolicy,
        QuarantineEarned, CleanSlate, WindowOver
  <1>2. CASE Packet
    BY <1>2, PacketIInv
  <1>3. CASE Put
    <2>1. PICK p \in Policies : ValidPolicy(p) /\ rule' = NewRule(p)
      BY <1>3 DEF Put
    <2>2. p \in Policy
      BY ConstantsAssumption
    <2>3. TypeOK'
      BY <1>3, <2>1, <2>2, NewRuleLemma DEF Put, TypeOK
    <2> QED
      BY <1>3, <2>1, <2>2, <2>3, NewRuleLemma, ConstantsAssumption
      DEF Put, TypeOK, Policy, WindowInv, ProbeInv, OffenceInv, ValidPolicy,
          QuarantineEarned, CleanSlate
  <1>4. CASE Delete
    BY <1>4
    DEF Delete, TypeOK, Rule, WindowInv, ProbeInv, OffenceInv, ValidPolicy,
        QuarantineEarned, CleanSlate, WindowOver
  <1>5. CASE UNCHANGED vars
    BY <1>5
    DEF vars, TypeOK, Rule, WindowInv, ProbeInv, OffenceInv, ValidPolicy,
        QuarantineEarned, CleanSlate, WindowOver
  <1> QED BY <1>1, <1>2, <1>3, <1>4, <1>5 DEF Next

THEOREM Invariance == Spec => []IInv
  BY InitIInv, NextIInv, PTL DEF Spec

\* enforce_policy keeps the rule well typed: counters stay naturals, the
\* violated flag stays a bit.
THEOREM TypeCorrect == Spec => []TypeOK
  <1>1. IInv => TypeOK
    BY DEF IInv
  <1> QED BY Invariance, <1>1, PTL

\* In any second at all, a capped rule lets at most twice its cap through.
THEOREM SlidingCapHolds == Spec => []SlidingCap
  <1>1. IInv => SlidingCap
    BY DEF IInv, ProbeInv, SlidingCap
  <1> QED BY Invariance, <1>1, PTL

\* No quarantine without threshold drops over the cap since the last write.
THEOREM QuarantineEarnedHolds == Spec => []QuarantineEarned
  <1>1. IInv => QuarantineEarned
    BY DEF IInv
  <1> QED BY Invariance, <1>1, PTL

\* A quarantined subscriber is released with a clean record.
THEOREM CleanSlateHolds == Spec => []CleanSlate
  <1>1. IInv => CleanSlate
    BY DEF IInv
  <1> QED BY Invariance, <1>1, PTL

-----------------------------------------------------------------------------
(* RatePolicy implements Quarantine *)

\* The offences the abstract specification counts.
Offences(r) == r.violation_streak + r.window_violated

LEMMA InitRefines == Init => Abs!QInit
  BY DEF Init, Abs!QInit, NewRule, PolicyOf

\* The policy fields, as the abstract specification sees them, change only
\* with the fields themselves.
LEMMA PolicyOfLemma ==
    ASSUME NEW r, NEW s,
           r.rate_pps = s.rate_pps,
           r.quarantine_threshold = s.quarantine_threshold,
           r.quarantine_seconds = s.quarantine_seconds
    PROVE  PolicyOf(r) = PolicyOf(s)
  BY DEF PolicyOf

LEMMA PolicyOfFields ==
    ASSUME NEW r
    PROVE  /\ PolicyOf(r).rate_pps = r.rate_pps
           /\ PolicyOf(r).quarantine_threshold = r.quarantine_threshold
           /\ PolicyOf(r).quarantine_seconds = r.quarantine_seconds
  BY DEF PolicyOf

LEMMA PacketRefines == IInv /\ Packet => Abs!QNext
  <1> SUFFICES ASSUME IInv, Packet PROVE Abs!QNext
    OBVIOUS
  <1> DEFINE e == Enforce(rule, now)
  <1>0. /\ rule \in Rule /\ now \in Nat /\ present = TRUE
        /\ rule' = e.rule /\ now' = now /\ present' = TRUE
        /\ verdict' = IF e.drop THEN "drop" ELSE "pass"
    BY DEF IInv, TypeOK, Packet
  <1> HIDE DEF e
  <1>1. CASE Held(rule, now) /\ e.rule = rule /\ e.drop = TRUE
    <2>1. Abs!Refuse
      BY <1>0, <1>1 DEF Abs!Refuse, Abs!Blocked, Held
    <2> QED BY <2>1 DEF Abs!QNext
  <1>2. CASE /\ ~Held(rule, now) /\ rule.rate_pps = 0
             /\ e.rule = rule /\ e.drop = FALSE
    <2>1. rule.quarantine_until_ns = 0
      BY <1>2 DEF IInv, QuarantineEarned
    <2>2. Abs!Admit
      BY <1>0, <1>2, <2>1 DEF Abs!Admit
    <2> QED BY <2>2 DEF Abs!QNext
  <1>3. CASE /\ ~Held(rule, now) /\ rule.rate_pps # 0
             /\ rule.quarantine_until_ns = 0 /\ ~WindowOver(rule, now)
             /\ e.rule = Count(rule) /\ e.drop = OverCap(rule)
    <2>1. /\ PolicyOf(rule') = PolicyOf(rule)
          /\ rule'.quarantine_until_ns = 0
          /\ rule'.violation_streak = rule.violation_streak
      BY <1>0, <1>3, CountLemma, PolicyOfLemma
    <2>2. CASE OverCap(rule)
      <3>1. rule'.window_violated = 1 /\ verdict' = "drop"
        BY <1>0, <1>3, <2>2, CountLemma
      <3>2. Offences(rule') \in {Offences(rule), Offences(rule) + 1}
        BY <1>0, <2>1, <3>1 DEF Rule, Offences
      <3>3. Abs!Offend
        BY <1>0, <1>3, <2>1, <3>1, <3>2, PolicyOfFields
        DEF Abs!Offend, Offences
      <3> QED BY <3>3 DEF Abs!QNext
    <2>3. CASE ~OverCap(rule)
      <3>1. rule'.window_violated = rule.window_violated /\ verdict' = "pass"
        BY <1>0, <1>3, <2>3, CountLemma
      <3>2. Abs!Admit
        BY <1>0, <1>3, <2>1, <3>1 DEF Abs!Admit
      <3> QED BY <3>2 DEF Abs!QNext
    <2> QED BY <2>2, <2>3
  <1>4. CASE /\ ~Held(rule, now) /\ rule.rate_pps # 0
             /\ WindowOver(rule, now)
             /\ e.rule = Count(RollOver(Release(rule), now))
             /\ e.drop = FALSE
    <2> DEFINE q == Release(rule)
               w == RollOver(q, now)
    <2>1. q \in Rule /\ w \in Rule
      BY <1>0, ReleaseLemma, RollOverLemma
    <2>2. /\ q.rate_pps = rule.rate_pps
          /\ q.quarantine_threshold = rule.quarantine_threshold
          /\ q.quarantine_seconds = rule.quarantine_seconds
          /\ q.window_violated = rule.window_violated
          /\ q.quarantine_until_ns = 0
          /\ q.violation_streak =
                IF rule.quarantine_until_ns # 0 THEN 0 ELSE rule.violation_streak
      BY <1>0, ReleaseLemma
    <2>3. /\ w.rate_pps = rule.rate_pps
          /\ w.quarantine_threshold = rule.quarantine_threshold
          /\ w.quarantine_seconds = rule.quarantine_seconds
          /\ w.window_count = 0
          /\ w.window_violated = 0
          /\ w.violation_streak =
                IF rule.window_violated = 0 \/ Escalates(q)
                THEN 0 ELSE q.violation_streak + 1
          /\ w.quarantine_until_ns =
                IF Escalates(q) THEN now + rule.quarantine_seconds * Second
                                ELSE 0
      <3> HIDE DEF q
      <3>1. /\ w.rate_pps = q.rate_pps
            /\ w.quarantine_threshold = q.quarantine_threshold
            /\ w.quarantine_seconds = q.quarantine_seconds
            /\ w.window_count = 0
            /\ w.window_violated = 0
            /\ w.violation_streak =
                  IF q.window_violated = 0 \/ Escalates(q)
                  THEN 0 ELSE q.violation_streak + 1
            /\ w.quarantine_until_ns =
                  IF Escalates(q) THEN now + q.quarantine_seconds * Second
                                  ELSE q.quarantine_until_ns
        BY <1>0, <2>1, RollOverLemma
      <3> HIDE DEF w
      <3> QED BY <2>2, <3>1
    <2>4. Escalates(q) <=> /\ rule.window_violated = 1
                           /\ rule.quarantine_threshold # 0
                           /\ q.violation_streak + 1 >= rule.quarantine_threshold
      BY <2>2 DEF Escalates
    <2> HIDE DEF q, w
    <2>5. ~OverCap(w) /\ rule' = Count(w) /\ verdict' = "pass"
      BY <1>0, <1>4, <2>3 DEF OverCap, Rule, q, w
    <2>6. /\ PolicyOf(rule') = PolicyOf(rule)
          /\ rule'.quarantine_until_ns = w.quarantine_until_ns
          /\ rule'.violation_streak = w.violation_streak
          /\ rule'.window_violated = 0
      BY <2>1, <2>3, <2>5, CountLemma, PolicyOfLemma
    <2>7. CASE rule.quarantine_until_ns # 0
      <3>1. rule.window_violated = 0
        BY <2>7 DEF IInv, CleanSlate
      <3>2. rule'.quarantine_until_ns = 0 /\ rule'.violation_streak = 0
        BY <2>3, <2>4, <2>6, <3>1
      <3>3. Abs!Lift
        BY <1>0, <1>4, <2>5, <2>6, <2>7, <3>2
        DEF Abs!Lift, Abs!Blocked, Held
      <3> QED BY <3>3 DEF Abs!QNext
    <2>8. CASE rule.quarantine_until_ns = 0 /\ Escalates(q)
      <3>1. rule.violation_streak + rule.window_violated
                >= rule.quarantine_threshold
        BY <2>2, <2>4, <2>8
      <3>2. Abs!Impose
        BY <1>0, <1>4, <2>3, <2>4, <2>5, <2>6, <2>8, <3>1, PolicyOfFields
        DEF Abs!Impose
      <3> QED BY <3>2 DEF Abs!QNext
    <2>9. CASE rule.quarantine_until_ns = 0 /\ ~Escalates(q)
      <3>1. Offences(rule') \in {0, Offences(rule)}
        BY <1>0, <2>2, <2>3, <2>6, <2>9 DEF Rule, Offences
      <3>2. Abs!Admit
        BY <1>0, <2>3, <2>5, <2>6, <2>9, <3>1 DEF Abs!Admit, Offences
      <3> QED BY <3>2 DEF Abs!QNext
    <2> QED BY <2>7, <2>8, <2>9
  <1> QED
    <2>1. e = Enforce(rule, now)
      BY DEF e
    <2> QED BY <1>1, <1>2, <1>3, <1>4, <2>1, EnforceCases

LEMMA NextRefines == IInv /\ [Next]_vars => [Abs!QNext]_(Abs!qvars)
  <1> SUFFICES ASSUME IInv, [Next]_vars PROVE [Abs!QNext]_(Abs!qvars)
    OBVIOUS
  <1>1. CASE Tick
    BY <1>1 DEF Tick, Abs!QNext, Abs!Advance
  <1>2. CASE Packet
    BY <1>2, PacketRefines
  <1>3. CASE Put
    <2>1. PICK p \in Policies : rule' = NewRule(p)
      BY <1>3 DEF Put
    <2>2. p \in Policy
      BY ConstantsAssumption
    <2>3. PolicyOf(rule') = p
      <3>1. /\ rule'.rate_pps = p.rate_pps
            /\ rule'.quarantine_threshold = p.quarantine_threshold
            /\ rule'.quarantine_seconds = p.quarantine_seconds
        BY <2>1, <2>2, NewRuleLemma
      <3>2. p = PolicyOf(p)
        BY <2>2 DEF PolicyOf, Policy
      <3> QED BY <3>1, <3>2, PolicyOfLemma
    <2>4. rule'.quarantine_until_ns = 0 /\ rule'.violation_streak = 0
          /\ rule'.window_violated = 0
      BY <2>1, <2>2, NewRuleLemma
    <2>5. Abs!Write
      BY <1>3, <2>3, <2>4 DEF Put, Abs!Write
    <2> QED BY <2>5 DEF Abs!QNext
  <1>4. CASE Delete
    BY <1>4 DEF Delete, Abs!QNext, Abs!Withdraw
  <1>5. CASE UNCHANGED vars
    BY <1>5 DEF vars, Abs!qvars
  <1> QED BY <1>1, <1>2, <1>3, <1>4, <1>5 DEF Next

\* enforce_policy implements the abstract quarantine, whatever the policies.
THEOREM Refinement == Spec => ImplementsQuarantine
  BY Invariance, InitRefines, NextRefines, PTL
  DEF Spec, ImplementsQuarantine, Abs!QSpec

=============================================================================
