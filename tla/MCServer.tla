------------------------------ MODULE MCServer ------------------------------
(* Instances of Server for TLC. *)
EXTENDS Server, TLC

CONSTANTS q1, q2, q3

ThreeRequests == {q1, q2, q3}

Symmetry == Permutations(Requests)
=============================================================================
