--------------------------- MODULE MCOutboxProgress ---------------------------
(* Instances of OutboxProgress for TLC. *)
EXTENDS OutboxProgress

CONSTANTS e1, e2, w1, w2

OneEvent    == {e1}
TwoEvents   == {e1, e2}
OneWorker   == {w1}
TwoWorkers  == {w1, w2}

ShortDelays == [n \in 1..MaxAttempts |-> {n - 1, n}]
=============================================================================
