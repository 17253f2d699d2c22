----------------------------- MODULE Quarantine -----------------------------
(***************************************************************************)
(* What the per-rule enforcement of gtp_xdp.c promises, without windows    *)
(* and counters: a subscriber collects offences; only when these reach the *)
(* rule's threshold may a block be imposed; until its deadline every       *)
(* packet is dropped; the first packet after the deadline lifts the block  *)
(* and starts with a clean record; the operator may rewrite the rule at    *)
(* any moment, which also lifts the block.  The packet that imposes a      *)
(* block is itself let through.  RatePolicy implements this specification. *)
(***************************************************************************)
EXTENDS Naturals

CONSTANTS Second, Boot, MaxTime, Policies

VARIABLES
    now,        \* the clock
    present,    \* there is a rule
    policy,     \* the rule's policy
    until,      \* deadline of the block, 0 when there is none
    offences,   \* offences held against the subscriber
    verdict     \* what the last packet was told

qvars == <<now, present, policy, until, offences, verdict>>

Blocked == until # 0 /\ now < until

QInit ==
    /\ now = Boot
    /\ present = FALSE
    /\ policy = [rate_pps |-> 0, quarantine_threshold |-> 0,
                 quarantine_seconds |-> 0]
    /\ until = 0
    /\ offences = 0
    /\ verdict = "none"

Advance ==
    /\ now < MaxTime
    /\ now' = now + 1
    /\ UNCHANGED <<present, policy, until, offences, verdict>>

\* A packet under the block: dropped, nothing is learnt from it.
Refuse ==
    /\ present /\ Blocked
    /\ verdict' = "drop"
    /\ UNCHANGED <<now, present, policy, until, offences>>

\* A packet with no block in force: let through; the record may be wiped.
Admit ==
    /\ present /\ until = 0
    /\ verdict' = "pass"
    /\ offences' \in {0, offences}
    /\ UNCHANGED <<now, present, policy, until>>

\* A packet over the cap of a capped rule: dropped, at most one new offence.
Offend ==
    /\ present /\ until = 0 /\ policy.rate_pps # 0
    /\ verdict' = "drop"
    /\ offences' \in {offences, offences + 1}
    /\ UNCHANGED <<now, present, policy, until>>

\* Enough offences: the block is imposed, for the configured time.
Impose ==
    /\ present /\ until = 0 /\ policy.rate_pps # 0
    /\ policy.quarantine_threshold # 0
    /\ offences >= policy.quarantine_threshold
    /\ until' = now + policy.quarantine_seconds * Second
    /\ offences' = 0
    /\ verdict' = "pass"
    /\ UNCHANGED <<now, present, policy>>

\* The first packet after the deadline.
Lift ==
    /\ present /\ until # 0 /\ ~Blocked
    /\ until' = 0
    /\ offences' = 0
    /\ verdict' = "pass"
    /\ UNCHANGED <<now, present, policy>>

\* The operator writes the rule, which wipes the record and lifts a block.
Write ==
    /\ policy' \in Policies
    /\ present' = TRUE
    /\ until' = 0
    /\ offences' = 0
    /\ verdict' = "none"
    /\ UNCHANGED now

\* The operator deletes the rule.
Withdraw ==
    /\ present /\ present' = FALSE
    /\ until' = 0
    /\ offences' = 0
    /\ verdict' = "none"
    /\ UNCHANGED <<now, policy>>

QNext ==
    \/ Advance
    \/ Refuse \/ Admit \/ Offend \/ Impose \/ Lift
    \/ Write \/ Withdraw

QSpec == QInit /\ [][QNext]_qvars

=============================================================================
