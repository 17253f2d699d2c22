---------------------------- MODULE MCPolicyRace ----------------------------
(* PolicyRace on two CPUs.                                                   *)
EXTENDS PolicyRace, TLC

Symmetric == Permutations(CPU)

=============================================================================
