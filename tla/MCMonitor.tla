----------------------------- MODULE MCMonitor ------------------------------
(* Monitor with two rules in one hash bucket, on two CPUs.                   *)
EXTENDS Monitor

MCBucket == [k \in Key |-> 1]

Symmetric == Permutations(CPU) \cup Permutations(Key) \cup Permutations(Elem)

=============================================================================
