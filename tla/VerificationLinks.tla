-------------------------- MODULE VerificationLinks --------------------------
(***************************************************************************)
(* What the owner of an address may rely on, without rows, locks, outbox   *)
(* and the order in which requests run.  A request carries the time at     *)
(* which it was made, and times need not come in order.  A link works from *)
(* the time it was issued until it ends; a later link ends every earlier   *)
(* one, so that no two links of a user ever work at the same time.         *)
(***************************************************************************)
EXTENDS Naturals, FiniteSets

CONSTANTS
    Users,
    Links,        \* verification links that may be issued
    Times,        \* times at which requests are made
    None,         \* no user, no time
    Lifetime,     \* how long a link works
    Cooldown,     \* the least time between two links of a user
    Window,       \* any span of time as long as this ...
    Limit         \* ... holds at most so many links of a user

VARIABLES
    owner,        \* of each link: its user
    from,         \* of each link: when it was issued
    until,        \* of each link: when it ceases to work
    received,     \* links that were mailed
    verified      \* of each user: when the address was verified

vars == <<owner, from, until, received, verified>>

Init ==
    /\ owner = [l \in Links |-> None]
    /\ from = [l \in Links |-> None]
    /\ until = [l \in Links |-> None]
    /\ received = {}
    /\ verified = [u \in Users |-> None]

LinksOf(u) == {l \in Links : owner[l] = u}

\* Link l is issued for user u, whose address is not verified, by a request of time t.
Issue(u, l) ==
    /\ owner[l] = None
    /\ verified[u] = None
    /\ owner' = [owner EXCEPT ![l] = u]
    /\ \E t \in Times :
          /\ \A k \in LinksOf(u) : from[k] + Cooldown <= t
          /\ Cardinality({k \in LinksOf(u) : from[k] + Window >= t}) < Limit
          /\ from' = [from EXCEPT ![l] = t]
          /\ until' = [k \in Links |-> IF k = l THEN t + Lifetime
                                       ELSE IF k \in LinksOf(u) /\ until[k] > t THEN t
                                       ELSE until[k]]
    /\ UNCHANGED <<received, verified>>

Receive(l) ==
    /\ owner[l] # None
    /\ received' = received \cup {l}
    /\ UNCHANGED <<owner, from, until, verified>>

\* A link that another one has ended is of no use any more, whenever the request was made.
Ended(l) == until[l] # from[l] + Lifetime

\* A link verifies its user, once, by a request made while the link works.
Verify(u, l) ==
    /\ verified[u] = None
    /\ owner[l] = u
    /\ l \in received
    /\ ~Ended(l)
    /\ \E t \in Times :
          /\ from[l] <= t /\ t < until[l]
          /\ verified' = [verified EXCEPT ![u] = t]
    /\ UNCHANGED <<owner, from, until, received>>

Next ==
    \E l \in Links :
        \/ Receive(l)
        \/ \E u \in Users : Issue(u, l) \/ Verify(u, l)

Spec == Init /\ [][Next]_vars

-----------------------------------------------------------------------------
\* No two links of a user ever work at the same time.
OneAtATime ==
    \A k, l \in Links : (k # l /\ owner[k] # None /\ owner[k] = owner[l]) =>
        until[k] <= from[l] \/ until[l] <= from[k]
=============================================================================
