---------------------------- MODULE MCDashboard -----------------------------
(* Dashboard with two keys, a rule the form can write and one with NAT.      *)
EXTENDS Dashboard

CONSTANTS plain, nat

\* Two rows and none, or none at all.
MCStart ==
    {[teid |-> [k \in Key |-> r], ueip |-> [k \in Key |-> NoRule]] :
        r \in {nat, NoRule}}

MCDefaults == <<<<"teid", 1, plain>>, <<"ueip", 2, plain>>>>

=============================================================================
