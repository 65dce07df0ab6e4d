----------------------- MODULE MCVerificationDelivery -----------------------
(* Instances of VerificationDelivery for TLC. *)
EXTENDS VerificationDelivery, TLC

CONSTANTS g1, s1, c1, d1, d2, e1

OneRegistration  == {g1}
OneResend        == {s1}
NoRequests       == {}
OneConfirmation  == {c1}
OneDelivery      == {d1}
TwoDeliveries    == {d1, d2}
OneEmail         == {e1}

Symmetry == Permutations(Deliveries)
=============================================================================
