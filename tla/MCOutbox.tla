------------------------------ MODULE MCOutbox ------------------------------
(* Instances of Outbox for TLC: events and workers are interchangeable. *)
EXTENDS Outbox, TLC

CONSTANTS e1, e2, w1, w2, w3

OneEvent     == {e1}
TwoEvents    == {e1, e2}
TwoWorkers   == {w1, w2}
ThreeWorkers == {w1, w2, w3}

\* The base delay grows; the jitter lets it vary.
ShortDelays == [n \in 1..MaxAttempts |-> {n - 1, n}]

Symmetry == Permutations(Events) \cup Permutations(Workers)
=============================================================================
