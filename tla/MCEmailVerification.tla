------------------------ MODULE MCEmailVerification ------------------------
(* Instances of EmailVerification for TLC: requests of one kind are interchangeable. *)
EXTENDS EmailVerification, TLC

CONSTANTS g1, s1, s2, c1, c2, d1, d2, e1

OneRegistration  == {g1}
TwoResends       == {s1, s2}
TwoConfirmations == {c1, c2}
TwoDeliveries    == {d1, d2}
OneEmail         == {e1}

Symmetry ==
    Permutations(Resends) \cup Permutations(Confirmations) \cup Permutations(Deliveries)
=============================================================================
