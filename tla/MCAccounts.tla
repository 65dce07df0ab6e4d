----------------------------- MODULE MCAccounts -----------------------------
(* Instances of Accounts for TLC. *)
EXTENDS Accounts, TLC

CONSTANTS g1, g2, l1, a1, bad, p1, p2, short, long

TwoRegistrations == {g1, g2}
OneLogin         == {l1}
TwoAddresses     == {a1, bad}
OneMalformed     == {bad}
FourPasswords    == {p1, p2, short, long}

\* A length at each bound and one beyond it.
Lengths == (p1 :> MinPassword) @@ (p2 :> MaxPassword)
           @@ (short :> MinPassword - 1) @@ (long :> MaxPassword + 1)
Devices == {MinDevice - 1, MinDevice}

Symmetry == Permutations(Registrations)
=============================================================================
