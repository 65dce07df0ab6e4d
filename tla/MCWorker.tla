------------------------------ MODULE MCWorker ------------------------------
(* Instances of Worker for TLC. *)
EXTENDS Worker, TLC

CONSTANTS e1, e2, w1, w2

OneEvent    == {e1}
TwoEvents   == {e1, e2}
TwoWorkers  == {w1, w2}
ShortDelays == [n \in 1..MaxAttempts |-> {n - 1, n}]

Symmetry == Permutations(Events) \cup Permutations(Workers)
=============================================================================
