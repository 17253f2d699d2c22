---------------------------- MODULE MCForwarding ----------------------------
(* Forwarding with one key, which stands for a TEID and for an address; an   *)
(* interface the loader provisioned, one it did not and one beyond the       *)
(* devmap.                                                                   *)
EXTENDS Forwarding, TLC

R(action, out, capped) ==
    [action |-> action, out |-> out, macs |-> TRUE, tunnel |-> TRUE,
     capped |-> capped]

MCRules == {R("drop", 0, FALSE), R("decap", 2, TRUE), R("redirect", 1, FALSE),
            R("encap", 2, TRUE), R("encap", 9, FALSE),
            [R("encap", 1, FALSE) EXCEPT !.tunnel = FALSE]}

Symmetric == Permutations(Op)

=============================================================================
