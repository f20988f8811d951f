------------------------------ MODULE MCHiring ------------------------------
(* Hiring for TLC. *)
EXTENDS Hiring, TLC

MCLimit == [create_version |-> 2, publish_version |-> 2, create_campaign |-> 1,
            publish_campaign |-> 2, issue |-> 1, exchange |-> 1, verify |-> 2, consent |-> 1]

Symmetric == Permutations(Requests) \cup Permutations(Keys)
=============================================================================
