---------------------------- MODULE MCRatePolicy ----------------------------
(* RatePolicy with a handful of policies: unlimited, capped, and capped with *)
(* a quarantine after one or two violated windows.                           *)
EXTENDS RatePolicy

P(rate, threshold, seconds) ==
    [rate_pps |-> rate, quarantine_threshold |-> threshold,
     quarantine_seconds |-> seconds]

MCPolicies == {P(0, 0, 0), P(1, 2, 1), P(2, 1, 1), P(2, 1, 0), P(0, 1, 1)}

MCPoliciesGap == {P(1, 2, 1)}

=============================================================================
