----------------------------- MODULE TokenFamily -----------------------------
(***************************************************************************)
(* What a client may rely on, without transactions, locks, caches and      *)
(* time.  A session is a family of tokens, each but the first the          *)
(* successor of the one before it.  The last one can be used, by one       *)
(* operation; that operation gets the successor as its answer, as often as *)
(* it asks.  Another operation on a used token ends the family.            *)
(***************************************************************************)
CONSTANTS
    Sessions,
    Tokens,        \* token pairs that may be issued
    Operations,    \* operation IDs
    None           \* no token, no operation

VARIABLES
    last,          \* of each session: the token that can be used
    family,        \* of each token: its session
    usedBy,        \* of each token: the operation that used it
    next,          \* of each token: its successor
    ended,         \* sessions that were revoked
    presented,     \* what clients have sent, as <<token, operation>>
    given          \* what clients have received, as <<token used, operation, token>>

vars == <<last, family, usedBy, next, ended, presented, given>>

Init ==
    /\ last = [s \in Sessions |-> None]
    /\ family = [t \in Tokens |-> None]
    /\ usedBy = [t \in Tokens |-> None]
    /\ next = [t \in Tokens |-> None]
    /\ ended = {}
    /\ presented = {}
    /\ given = {}

\* Token t, never issued before, becomes the last of session s.
Append(s, t) ==
    /\ family[t] = None
    /\ family' = [family EXCEPT ![t] = s]
    /\ last' = [last EXCEPT ![s] = t]

Begin(s, t) ==
    /\ last[s] = None
    /\ Append(s, t)
    /\ UNCHANGED <<usedBy, next, ended, presented, given>>

\* A client sends a token, any number of times.
Present(t, o) ==
    /\ presented' = presented \cup {<<t, o>>}
    /\ UNCHANGED <<last, family, usedBy, next, ended, given>>

Rotate(s, t, o) ==
    LET old == last[s] IN
    /\ <<old, o>> \in presented
    /\ s \notin ended
    /\ Append(s, t)
    /\ usedBy' = [usedBy EXCEPT ![old] = o]
    /\ next' = [next EXCEPT ![old] = t]
    /\ UNCHANGED <<ended, presented, given>>

\* The first token of a session reaches the client that logged in.
GiveFirst(s, t) ==
    /\ family[t] = s
    /\ \A u \in Tokens : next[u] # t
    /\ given' = given \cup {<<None, None, t>>}
    /\ UNCHANGED <<last, family, usedBy, next, ended, presented>>

\* The operation that used a token is given its successor, and nothing else.
GiveNext(t) ==
    /\ next[t] # None
    /\ given' = given \cup {<<t, usedBy[t], next[t]>>}
    /\ UNCHANGED <<last, family, usedBy, next, ended, presented>>

\* Two operations presented token t.
Revoke(s, t, o) ==
    /\ s \notin ended
    /\ family[t] = s
    /\ usedBy[t] \notin {None, o}
    /\ <<t, o>> \in presented
    /\ ended' = ended \cup {s}
    /\ UNCHANGED <<last, family, usedBy, next, presented, given>>

Next ==
    \/ \E s \in Sessions, t \in Tokens :
          \/ Begin(s, t)
          \/ GiveFirst(s, t)
          \/ \E o \in Operations : Rotate(s, t, o) \/ Revoke(s, t, o)
    \/ \E t \in Tokens : GiveNext(t) \/ \E o \in Operations : Present(t, o)

Spec == Init /\ [][Next]_vars
=============================================================================
