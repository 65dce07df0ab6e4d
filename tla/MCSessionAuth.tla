--------------------------- MODULE MCSessionAuth ---------------------------
(* Instances of SessionAuth for TLC: requests of one kind are interchangeable, and so
   are the operation IDs.                                                            *)
EXTENDS SessionAuth, TLC

CONSTANTS l1, l2, r1, r2, r3, a1, op1, op2

OneLogin    == {l1}
TwoLogins   == {l1, l2}
OneRefresh  == {r1}
TwoRefreshes == {r1, r2}
ThreeRefreshes == {r1, r2, r3}
NoRequests  == {}
OneAuthentication  == {a1}
TwoOperations == {op1, op2}

Symmetry ==
    Permutations(Logins) \cup Permutations(Refreshes)
    \cup Permutations(Authentications) \cup Permutations(Operations)
=============================================================================
