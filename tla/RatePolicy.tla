----------------------------- MODULE RatePolicy -----------------------------
(***************************************************************************)
(* enforce_policy() of gtp-router/ebpf/gtp_xdp.c on one forwarding rule:   *)
(* the fixed one-second window counter, the streak of violated windows and *)
(* the quarantine they escalate to.  Packets of one rule are handled one   *)
(* after the other here (one receive queue); module PolicyRace interleaves *)
(* two CPUs.  The control plane rewrites the rule (add-teid, add-ueip) and *)
(* deletes it at any moment.                                               *)
(*                                                                         *)
(* Only the policy fields of struct fwd_rule are kept.  Time is counted in *)
(* ticks, Second of them being the 1000000000 ns of the code.  The 64-bit  *)
(* clock does not wrap within the life of a machine, window_count never    *)
(* passes the 32-bit rate_pps and a streak of 2^32 windows takes 136 years,*)
(* so naturals stand for these fields; rate_drop_count is capped by        *)
(* MaxDrops in the guard of Packet.                                        *)
(***************************************************************************)
EXTENDS Integers

CONSTANTS
    Second,     \* clock ticks in one second
    Boot,       \* the clock when the first rule can be written
    MaxTime,    \* bound on the clock
    MaxDrops,   \* bound on rate_drop_count
    Policies    \* the (rate, threshold, seconds) triples operators ask for

Policy == [rate_pps : Nat, quarantine_threshold : Nat, quarantine_seconds : Nat]

ASSUME ConstantsAssumption ==
    /\ Second \in Nat \ {0}
    /\ Boot \in Nat
    /\ MaxTime \in Nat
    /\ MaxDrops \in Nat
    /\ Policies \subseteq Policy

VARIABLES
    now,        \* bpf_ktime_get_ns()
    present,    \* the map holds a rule for this key
    rule,       \* the rule's policy fields
    verdict,    \* history: what the last packet was told, "none" before it
    probe,      \* history: an instant chosen once and for all
    seen,       \* history: packets a capped rule let through in the second
                \* that starts at probe, since the rule was last written
    streakFrom  \* history: start of the first window of the current streak

vars == <<now, present, rule, verdict, probe, seen, streakFrom>>

Rule == [rate_pps : Nat, quarantine_threshold : Nat, quarantine_seconds : Nat,
         window_start_ns : Nat, window_count : Nat, window_violated : {0, 1},
         violation_streak : Nat, quarantine_until_ns : Nat,
         rate_drop_count : Nat]

\* The rule as the add commands build it: the policy the operator asked for,
\* every counter, the window and the quarantine at zero.
NewRule(p) ==
    [rate_pps             |-> p.rate_pps,
     quarantine_threshold |-> p.quarantine_threshold,
     quarantine_seconds   |-> p.quarantine_seconds,
     window_start_ns      |-> 0,
     window_count         |-> 0,
     window_violated      |-> 0,
     violation_streak     |-> 0,
     quarantine_until_ns  |-> 0,
     rate_drop_count      |-> 0]

\* ValidateRule's condition on the policy fields.
ValidPolicy(p) == p.quarantine_threshold # 0 => p.quarantine_seconds # 0

-----------------------------------------------------------------------------
(* enforce_policy, step by step *)

\* The rule is under a quarantine whose deadline has not passed.
Held(r, t) == r.quarantine_until_ns # 0 /\ t < r.quarantine_until_ns

\* Mutant: the release forgets the deadline itself.
ReleaseStreakOnly(r) == [r EXCEPT !.violation_streak = 0]

\* An elapsed quarantine is cleared by the packet that finds it.
Release(r) ==
    IF r.quarantine_until_ns # 0
    THEN [r EXCEPT !.quarantine_until_ns = 0, !.violation_streak = 0]
    ELSE r

\* Mutant: the window that just ended is not looked at.
EscalatesUnscored(r) ==
    /\ r.quarantine_threshold # 0
    /\ r.violation_streak + 1 >= r.quarantine_threshold

\* Scoring the window that just ended completes a streak of violated windows.
Escalates(r) ==
    /\ r.window_violated = 1
    /\ r.quarantine_threshold # 0
    /\ r.violation_streak + 1 >= r.quarantine_threshold

\* Mutant: the streak survives the quarantine it led to.
RollOverKeepsStreak(r, t) ==
    [r EXCEPT
       !.quarantine_until_ns = IF Escalates(r)
                               THEN t + r.quarantine_seconds * Second ELSE @,
       !.violation_streak = IF r.window_violated = 0 THEN 0 ELSE @ + 1,
       !.window_start_ns = t,
       !.window_count    = 0,
       !.window_violated = 0]

\* The window that ended is scored and a new one starts at t.
RollOver(r, t) ==
    [r EXCEPT
       !.quarantine_until_ns = IF Escalates(r)
                               THEN t + r.quarantine_seconds * Second ELSE @,
       !.violation_streak = IF r.window_violated = 0 \/ Escalates(r)
                            THEN 0 ELSE @ + 1,
       !.window_start_ns = t,
       !.window_count    = 0,
       !.window_violated = 0]

\* A second has passed since the window started.
WindowOver(r, t) == t - r.window_start_ns >= Second

Rolled(r, t) == IF WindowOver(r, t) THEN RollOver(r, t) ELSE r

\* Mutant: one packet more than the cap.
OverCapLate(r) == r.window_count > r.rate_pps

\* The window's allowance is used up: the packet marks the window violated.
OverCap(r) == r.window_count >= r.rate_pps

\* Mutant: the flag is counted up instead of set.
CountFlagUp(r) ==
    IF OverCap(r)
    THEN [r EXCEPT !.window_violated = @ + 1, !.rate_drop_count = @ + 1]
    ELSE [r EXCEPT !.window_count = @ + 1]

\* The packet is counted: against the allowance or as a drop over the cap.
Count(r) ==
    IF OverCap(r)
    THEN [r EXCEPT !.window_violated = 1, !.rate_drop_count = @ + 1]
    ELSE [r EXCEPT !.window_count = @ + 1]

\* Mutant: the quarantine is not looked at before the rate.
EnforceRateOnly(r, t) ==
    IF r.rate_pps = 0 THEN [rule |-> Release(r), drop |-> FALSE]
    ELSE LET w == Rolled(Release(r), t)
         IN  [rule |-> Count(w), drop |-> OverCap(w)]

\* The whole of enforce_policy: the rule it leaves and whether to drop.
Enforce(r, t) ==
    IF Held(r, t) THEN [rule |-> r, drop |-> TRUE]
    ELSE IF r.rate_pps = 0 THEN [rule |-> Release(r), drop |-> FALSE]
    ELSE LET w == Rolled(Release(r), t)
         IN  [rule |-> Count(w), drop |-> OverCap(w)]

-----------------------------------------------------------------------------
(* The specification *)

Init ==
    /\ now = Boot
    /\ present = FALSE
    /\ rule = NewRule([rate_pps |-> 0, quarantine_threshold |-> 0,
                       quarantine_seconds |-> 0])
    /\ verdict = "none"
    /\ probe \in Boot .. MaxTime
    /\ seen = 0
    /\ streakFrom = 0

\* The monotonic clock goes on.
Tick ==
    /\ now < MaxTime
    /\ now' = now + 1
    /\ UNCHANGED <<present, rule, verdict, probe, seen, streakFrom>>

\* History: t lies in the second under observation.
InProbe(t) == probe <= t /\ t < probe + Second

\* A packet matches the rule: enforce_policy runs to its end.
Packet ==
    /\ present
    /\ LET e == Enforce(rule, now)
       IN  /\ e.rule.rate_drop_count <= MaxDrops
           /\ rule' = e.rule
           /\ verdict' = IF e.drop THEN "drop" ELSE "pass"
           /\ seen' = IF InProbe(now) /\ ~e.drop /\ rule.rate_pps # 0
                      THEN seen + 1 ELSE seen
           /\ streakFrom' = IF e.rule.violation_streak = 0
                               /\ e.rule.window_violated = 1
                            THEN e.rule.window_start_ns ELSE streakFrom
    /\ UNCHANGED <<now, present, probe>>

\* add-teid / add-ueip: validate, then replace the whole map value.
Put ==
    /\ \E p \in Policies : ValidPolicy(p) /\ rule' = NewRule(p)
    /\ present' = TRUE
    /\ verdict' = "none"
    /\ seen' = 0
    /\ UNCHANGED <<now, probe, streakFrom>>

\* del-teid / del-ueip.
Delete ==
    /\ present
    /\ present' = FALSE
    /\ verdict' = "none"
    /\ UNCHANGED <<now, rule, probe, seen, streakFrom>>

Next == Tick \/ Packet \/ Put \/ Delete

Spec == Init /\ [][Next]_vars

\* The clock always goes on; a subscriber under quarantine keeps sending.
FairSpec == Spec /\ WF_vars(Tick) /\ WF_vars(Packet)

-----------------------------------------------------------------------------
(* Properties *)

TypeOK ==
    /\ now \in Nat
    /\ present \in BOOLEAN
    /\ rule \in Rule
    /\ verdict \in {"none", "pass", "drop"}
    /\ probe \in Nat
    /\ seen \in Nat
    /\ streakFrom \in Nat

\* The cap over any second, not only over the code's own windows: whatever
\* second one looks at (probe is arbitrary), a rule capped at rate_pps lets at
\* most 2 * rate_pps packets through in it.  The windows of enforce_policy
\* start when a packet finds the old one over, so a second overlaps two of
\* them at the most.
SlidingCap == rule.rate_pps # 0 => seen <= 2 * rule.rate_pps

\* A standing quarantine was earned: since the rule was written at least
\* quarantine_threshold packets were dropped over the cap, each of the counted
\* windows having had one, and the rule has both a cap and a threshold.
QuarantineEarned ==
    rule.quarantine_until_ns # 0 =>
        /\ rule.rate_pps # 0
        /\ rule.quarantine_threshold \in 1 .. rule.rate_drop_count

\* While a quarantine stands nothing is held against the subscriber any more:
\* no streak, no violated window, and the window it was imposed in is over by
\* the deadline, so the packet that lifts it always gets a fresh allowance.
CleanSlate ==
    rule.quarantine_until_ns # 0 =>
        /\ rule.violation_streak = 0
        /\ rule.window_violated = 0
        /\ WindowOver(rule, rule.quarantine_until_ns)

\* The rule's policy as the abstract specification sees it.
PolicyOf(r) == [rate_pps             |-> r.rate_pps,
                quarantine_threshold |-> r.quarantine_threshold,
                quarantine_seconds   |-> r.quarantine_seconds]

\* A rule that is not in the map holds nothing against anyone.
Abs == INSTANCE Quarantine WITH
    policy   <- PolicyOf(rule),
    until    <- IF present THEN rule.quarantine_until_ns ELSE 0,
    offences <- IF present THEN rule.violation_streak + rule.window_violated
                           ELSE 0

\* enforce_policy implements the abstract quarantine: an offence is a window
\* with a drop, a block is imposed only on enough of them, blocks every packet
\* until its deadline and is lifted by the first packet after it.
ImplementsQuarantine == Abs!QSpec

\* A quarantine whose deadline comes within the bound on the clock ends, by
\* the packet that finds it elapsed (or by the operator), if the subscriber
\* keeps sending: no timer or poller has to run.
SelfRelease ==
    (present /\ rule.quarantine_until_ns \in 1 .. MaxTime)
        ~> (~present \/ rule.quarantine_until_ns = 0)

\* README.md: quarantine comes "after 3 consecutive seconds of sustained
\* violation".  Read generously, for a subscriber whose windows each start
\* within a second of the end of the one before: a quarantine imposed at a
\* window's start follows a streak that began at most 2 * threshold seconds
\* earlier.
SustainedViolation ==
    rule.quarantine_until_ns # 0 =>
        rule.window_start_ns - streakFrom <=
            2 * rule.quarantine_threshold * Second

=============================================================================
