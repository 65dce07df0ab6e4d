------------------------- MODULE EmailVerification -------------------------
(***************************************************************************)
(* Register, ConfirmEmail and ResendVerification of                        *)
(* internal/service/auth/service.go over the transactions of               *)
(* postgres/auth_repository.go, and the delivery of the verification mail  *)
(* by internal/handler/event/dispatcher.go.                                *)
(*                                                                         *)
(* The service samples the time before the transaction begins, and the     *)
(* transaction may then wait for the lock of the user's row: every time in *)
(* a row is older than the moment the row is written.                      *)
(*                                                                         *)
(* A user is named by the Register request that creates it, a verification *)
(* and its outbox event by the request that generates them.                *)
(***************************************************************************)
EXTENDS Integers, FiniteSets

CONSTANTS
    Registrations,     \* requests that call Register
    Resends,           \* requests that call ResendVerification
    Confirmations,     \* requests that call ConfirmEmail
    Deliveries,        \* calls of the event handler by a worker
    Emails,            \* normalised addresses
    None,              \* SQL NULL, a row that is not there
    Unknown,           \* a token that no request generated
    TokenLifetime,     \* verificationTokenLifetime
    ResendCooldown,    \* the minute between two verifications
    LimitWindow,       \* the hour of the resend limit
    ResendLimit,       \* how many verifications the window may hold
    MaxTime            \* bound: the clock stops here

Verifications == Registrations \cup Resends
Transactions  == Resends \cup Confirmations
Requests      == Verifications \cup Confirmations \cup Deliveries
Users         == Registrations

\* How a request ends.
Answers == {"ok", "exists", "invalid", "used", "revoked", "expired", "alreadyVerified",
            "notFound", "limited", "failed"}

ASSUME VerificationAssumption ==
    /\ Registrations \cap Resends = {}
    /\ Verifications \cap Confirmations = {}
    /\ (Verifications \cup Confirmations) \cap Deliveries = {}
    /\ None \notin Requests \cup Emails \cup Int \cup Answers
    /\ Unknown \notin Requests \cup {None}
    /\ {TokenLifetime, ResendCooldown, LimitWindow, ResendLimit} \subseteq Nat \ {0}
    /\ MaxTime \in Nat

VARIABLES
    clock,          \* what now() returns, in the server and in the worker
    users,          \* table users
    verifications,  \* table email_verifications
    events,         \* the verifications whose event is in outbox_events
    userLock,       \* request whose transaction holds the users row
    mailed,         \* verifications whose token has reached the user by mail
    pc,             \* the statement a request executes next
    local,          \* the local variables of a request
    reply           \* how a finished request has ended

tables == <<users, verifications, events>>
vars   == <<clock, users, verifications, events, userLock, mailed, pc, local, reply>>

-----------------------------------------------------------------------------
Time == Nat \cup {None}

NoUser == [email |-> None, verifiedAt |-> None]
NoVerification == [user |-> None, createdAt |-> None, expiresAt |-> None,
                   usedAt |-> None, revokedAt |-> None]

Blank == [now        |-> 0,      \* confirmedAt, requestedAt
          email      |-> None,   \* the address of the request
          token      |-> None,   \* the token, or the verification of the event
          user       |-> None,   \* userID
          verifiedAt |-> None,   \* emailVerifiedAt as the transaction read it
          expiresAt  |-> None]   \* data.ExpiresAt as the handler read it

Labels == {"idle", "createUser", "lookupToken", "lockUser", "confirm", "lockEmail",
           "checkLimits", "issue", "getForDelivery", "send", "done"}

Goto(r, label) == pc' = [pc EXCEPT ![r] = label]

\* The call returns; only the token it was about is remembered.
Return(r, answer) ==
    /\ Goto(r, "done")
    /\ reply' = [reply EXCEPT ![r] = answer]
    /\ local' = [local EXCEPT ![r] = [Blank EXCEPT !.token = local[r].token]]

\* Commit and Rollback give the lock back.
EndTransaction(r) ==
    userLock' = [u \in Users |-> IF userLock[u] = r THEN None ELSE userLock[u]]

\* SELECT ... FOR UPDATE waits until no other transaction holds the row.
\* (Faulty variant, for mutation: a SELECT without FOR UPDATE.)
Always(u) == TRUE
RowFree(u) == userLock[u] = None

Exists(u) == users[u].email # None

Init ==
    /\ clock = 0
    /\ users = [u \in Users |-> NoUser]
    /\ verifications = [v \in Verifications |-> NoVerification]
    /\ events = {}
    /\ userLock = [u \in Users |-> None]
    /\ mailed = {}
    /\ pc = [r \in Requests |-> "idle"]
    /\ local = [r \in Requests |-> Blank]
    /\ reply = [r \in Requests |-> None]

-----------------------------------------------------------------------------
(* Register.                                                               *)

StartRegister(r, e) ==
    /\ pc[r] = "idle"
    /\ Goto(r, "createUser")
    /\ local' = [local EXCEPT ![r] = [@ EXCEPT !.now = clock, !.email = e]]
    /\ UNCHANGED <<clock, tables, userLock, mailed, reply>>

\* The verification that a request generates, prepared at time now.
NewVerification(u, now) ==
    [user |-> u, createdAt |-> now, expiresAt |-> now + TokenLifetime,
     usedAt |-> None, revokedAt |-> None]

\* The user, its first verification and the event are inserted by one transaction; the
\* unique index on the address rejects a second user.
CreateUser(r) ==
    LET now == local[r].now
        e   == local[r].email
    IN
    /\ pc[r] = "createUser"
    /\ \/ /\ \E u \in Users : users[u].email = e
          /\ Return(r, "exists")
          /\ UNCHANGED tables
       \/ /\ \A u \in Users : users[u].email # e
          /\ users' = [users EXCEPT ![r] = [email |-> e, verifiedAt |-> None]]
          /\ verifications' = [verifications EXCEPT ![r] = NewVerification(r, now)]
          /\ events' = events \cup {r}
          /\ Return(r, "ok")
    /\ UNCHANGED <<clock, userLock, mailed>>

-----------------------------------------------------------------------------
(* ConfirmEmail.                                                           *)

StartConfirm(r, v) ==
    /\ pc[r] = "idle"
    /\ Goto(r, "lookupToken")
    /\ local' = [local EXCEPT ![r] = [@ EXCEPT !.now = clock, !.token = v]]
    /\ UNCHANGED <<clock, tables, userLock, mailed, reply>>

\* SELECT user_id, without a lock.
LookupToken(r) ==
    LET v == local[r].token IN
    /\ pc[r] = "lookupToken"
    /\ \/ /\ v = Unknown
          /\ Return(r, "invalid")
       \/ /\ v # Unknown
          /\ local' = [local EXCEPT ![r].user = verifications[v].user]
          /\ Goto(r, "lockUser")
          /\ UNCHANGED reply
    /\ UNCHANGED <<clock, tables, userLock, mailed>>

\* SELECT email_verified_at ... FOR UPDATE.
LockUser(r) ==
    LET u == local[r].user IN
    /\ pc[r] = "lockUser"
    /\ RowFree(u)
    /\ userLock' = [userLock EXCEPT ![u] = r]
    /\ local' = [local EXCEPT ![r].verifiedAt = users[u].verifiedAt]
    /\ Goto(r, "confirm")
    /\ UNCHANGED <<clock, tables, mailed, reply>>

\* !confirmedAt.Before(expiresAt).
\* (Faulty variant: the moment of expiry still counts.)
ExpiredAfter(row, now) == now > row.expiresAt
Expired(row, now) == now >= row.expiresAt

Revoked(row) == row.revokedAt # None

\* The checks in their order: why a confirmation is refused, None when it is not.
\* (Faulty variant: what the row of the user says is not looked at again under its lock.)
RefusalOfToken(row, now, verifiedAt) ==
    IF row.usedAt # None    THEN "used"    ELSE
    IF Revoked(row)         THEN "revoked" ELSE
    IF Expired(row, now)    THEN "expired" ELSE None
RefusalOf(row, now, verifiedAt) ==
    IF row.usedAt # None    THEN "used"    ELSE
    IF Revoked(row)         THEN "revoked" ELSE
    IF Expired(row, now)    THEN "expired" ELSE
    IF verifiedAt # None    THEN "alreadyVerified" ELSE None

\* The verification is locked, checked and used up, the user is verified, and the
\* transaction commits.  Both rows stay locked from the check to the commit.
Confirm(r) ==
    LET v   == local[r].token
        now == local[r].now
        refusal == RefusalOf(verifications[v], now, local[r].verifiedAt)
    IN
    /\ pc[r] = "confirm"
    /\ \/ /\ refusal # None
          /\ Return(r, refusal)
          /\ UNCHANGED tables
       \/ /\ refusal = None
          /\ verifications' = [verifications EXCEPT ![v].usedAt = now]
          /\ users' = [users EXCEPT ![local[r].user].verifiedAt = now]
          /\ Return(r, "ok")
          /\ UNCHANGED events
    /\ EndTransaction(r)
    /\ UNCHANGED <<clock, mailed>>

-----------------------------------------------------------------------------
(* ResendVerification.                                                     *)

StartResend(r, e) ==
    /\ pc[r] = "idle"
    /\ Goto(r, "lockEmail")
    /\ local' = [local EXCEPT ![r] = [@ EXCEPT !.now = clock, !.email = e]]
    /\ UNCHANGED <<clock, tables, userLock, mailed, reply>>

\* SELECT the user by its address, FOR UPDATE.
LockEmail(r) ==
    LET owners == {u \in Users : users[u].email = local[r].email} IN
    /\ pc[r] = "lockEmail"
    /\ \/ /\ owners = {}
          /\ Return(r, "notFound")
          /\ UNCHANGED userLock
       \/ \E u \in owners :
             /\ RowFree(u)
             /\ \/ /\ users[u].verifiedAt # None
                   /\ Return(r, "alreadyVerified")
                   /\ UNCHANGED userLock
                \/ /\ users[u].verifiedAt = None
                   /\ userLock' = [userLock EXCEPT ![u] = r]
                   /\ local' = [local EXCEPT ![r].user = u]
                   /\ Goto(r, "checkLimits")
                   /\ UNCHANGED reply
    /\ UNCHANGED <<clock, tables, mailed>>

Of(u) == {v \in Verifications : verifications[v].user = u}

\* COUNT(*) of the verifications created in the hour that ends at now.
CreatedInWindow(u, now) ==
    {v \in Of(u) : /\ verifications[v].createdAt >= now - LimitWindow
                   /\ verifications[v].createdAt <= now}

\* (Faulty variant: one more than the limit is let through.)
OverLimit(u, now) == Cardinality(CreatedInWindow(u, now)) > ResendLimit
AtLimit(u, now) == Cardinality(CreatedInWindow(u, now)) >= ResendLimit

\* requestedAt minus MAX(created_at) is less than the cooldown.
TooSoon(u, now) == \E v \in Of(u) : now - verifications[v].createdAt < ResendCooldown

CheckLimits(r) ==
    LET u   == local[r].user
        now == local[r].now
    IN
    /\ pc[r] = "checkLimits"
    /\ \/ /\ AtLimit(u, now) \/ TooSoon(u, now)
          /\ Return(r, "limited")
          /\ EndTransaction(r)
       \/ /\ ~AtLimit(u, now)
          /\ ~TooSoon(u, now)
          /\ Goto(r, "issue")
          /\ UNCHANGED <<local, reply, userLock>>
    /\ UNCHANGED <<clock, tables, mailed>>

\* The verifications the UPDATE revokes.
\* (Faulty variant: none is revoked.)
RevokesNone(row, now) == FALSE
IsRevoked(row, now) == row.usedAt = None /\ row.revokedAt = None /\ row.expiresAt > now

\* The older verifications are revoked and the new one is inserted with its event.
Issue(r) ==
    LET u   == local[r].user
        now == local[r].now
    IN
    /\ pc[r] = "issue"
    /\ verifications' = [v \in Verifications |->
          IF v = r THEN NewVerification(u, now)
          ELSE IF v \in Of(u) /\ IsRevoked(verifications[v], now)
               THEN [verifications[v] EXCEPT !.revokedAt = now]
               ELSE verifications[v]]
    /\ events' = events \cup {r}
    /\ EndTransaction(r)
    /\ Return(r, "ok")
    /\ UNCHANGED <<clock, users, mailed>>

-----------------------------------------------------------------------------
(* The handler of the event EmailVerificationRequested.                    *)

StartDelivery(r, v) ==
    /\ pc[r] = "idle"
    /\ Goto(r, "getForDelivery")
    /\ local' = [local EXCEPT ![r].token = v]
    /\ UNCHANGED <<clock, tables, userLock, mailed, reply>>

\* A used or revoked verification is not delivered and that is not an error.
GetForDelivery(r) ==
    LET row == verifications[local[r].token] IN
    /\ pc[r] = "getForDelivery"
    /\ \/ /\ row.usedAt # None \/ row.revokedAt # None
          /\ Return(r, "ok")
       \/ /\ row.usedAt = None /\ row.revokedAt = None
          /\ local' = [local EXCEPT ![r].expiresAt = row.expiresAt]
          /\ Goto(r, "send")
          /\ UNCHANGED reply
    /\ UNCHANGED <<clock, tables, userLock, mailed>>

\* Nor is one that has expired by now.
Sends(r) == pc[r] = "send" /\ clock < local[r].expiresAt

SendVerification(r) ==
    /\ pc[r] = "send"
    /\ mailed' = IF Sends(r) THEN mailed \cup {local[r].token} ELSE mailed
    /\ Return(r, "ok")
    /\ UNCHANGED <<clock, tables, userLock>>

-----------------------------------------------------------------------------
\* A statement fails, the request is cancelled or the process stops: rolled back.
Abort(r) ==
    /\ pc[r] \notin {"idle", "done"}
    /\ EndTransaction(r)
    /\ Return(r, "failed")
    /\ UNCHANGED <<clock, tables, mailed>>

Tick ==
    /\ clock < MaxTime
    /\ clock' = clock + 1
    /\ UNCHANGED <<tables, userLock, mailed, pc, local, reply>>

ArriveAtServer ==
    \/ \E r \in Registrations, e \in Emails : StartRegister(r, e)
    \/ \E r \in Resends, e \in Emails : StartResend(r, e)
    \/ \E r \in Confirmations, v \in mailed \cup {Unknown} : StartConfirm(r, v)

Arrive ==
    \/ ArriveAtServer
    \/ \E r \in Deliveries, v \in events : StartDelivery(r, v)

Step(r) ==
    \/ CreateUser(r)
    \/ LookupToken(r) \/ LockUser(r) \/ Confirm(r)
    \/ LockEmail(r) \/ CheckLimits(r) \/ Issue(r)
    \/ GetForDelivery(r) \/ SendVerification(r)

Next ==
    \/ Arrive
    \/ \E r \in Requests : Step(r)
    \/ \E r \in Requests : Abort(r)
    \/ Tick

Spec == Init /\ [][Next]_vars

-----------------------------------------------------------------------------
(* Properties.                                                             *)

\* Every variable keeps its type; the lock of a user's row is held by the transaction that
\* is between SELECT ... FOR UPDATE and its end, and by no other.
TypeOK ==
    /\ clock \in Nat
    /\ users \in [Users -> [email : Emails \cup {None}, verifiedAt : Time]]
    /\ verifications \in [Verifications ->
          [user : Users \cup {None}, createdAt : Time, expiresAt : Time,
           usedAt : Time, revokedAt : Time]]
    /\ events \subseteq Verifications
    /\ userLock \in [Users -> Transactions \cup {None}]
    /\ mailed \subseteq events
    /\ pc \in [Requests -> Labels]
    /\ local \in [Requests ->
          [now : Nat, email : Emails \cup {None},
           token : Verifications \cup {None, Unknown}, user : Users \cup {None},
           verifiedAt : Time, expiresAt : Time]]
    /\ reply \in [Requests -> Answers \cup {None}]
    /\ \A r \in Requests, u \in Users :
          userLock[u] = r <=> local[r].user = u /\ pc[r] \in {"confirm", "checkLimits", "issue"}

\* A user never holds two links that both work: a resend leaves no verification unused,
\* unrevoked and unexpired but its own, although it compares expires_at with a time
\* sampled before it had the lock.
AtMostOneLive ==
    \A u \in Users : \A v, w \in Of(u) :
        LET Live(x) == /\ verifications[x].usedAt = None
                       /\ verifications[x].revokedAt = None
                       /\ verifications[x].expiresAt > clock
        IN Live(v) /\ Live(w) => v = w

\* An address is verified by one token, once: exactly one verification of the user is
\* used, at the time the user row records, and it is one that was not revoked.
VerifiedByOneToken ==
    \A u \in Users :
        LET used == {v \in Of(u) : verifications[v].usedAt # None} IN
        IF users[u].verifiedAt = None
        THEN used = {}
        ELSE \E v \in used : /\ used = {v}
                             /\ verifications[v].usedAt = users[u].verifiedAt
                             /\ verifications[v].revokedAt = None

\* Any two verifications of a user are a cooldown apart, the one of Register included.
CooldownHolds ==
    \A u \in Users : \A v, w \in Of(u) :
        LET t == verifications[v].createdAt
            s == verifications[w].createdAt
        IN v # w => (IF t < s THEN s - t ELSE t - s) >= ResendCooldown

\* No window of an hour holds more verifications of a user than the limit.  The count
\* looks back from a time sampled before the lock and misses what was created after it;
\* that the bound holds all the same is owed to the cooldown.
HourlyLimit ==
    \A u \in Users : \A v \in Of(u) :
        LET from == verifications[v].createdAt
            window == {w \in Of(u) : /\ verifications[w].createdAt >= from
                                     /\ verifications[w].createdAt <= from + LimitWindow}
        IN Cardinality(window) <= ResendLimit

\* A link ceases to work when it is revoked, or else when it expires.
Until(v) == IF verifications[v].revokedAt # None THEN verifications[v].revokedAt
            ELSE verifications[v].expiresAt

Abstract == INSTANCE VerificationLinks WITH
    Links    <- Verifications,
    Times    <- 0..MaxTime,
    Lifetime <- TokenLifetime,
    Cooldown <- ResendCooldown,
    Window   <- LimitWindow,
    Limit    <- ResendLimit,
    owner    <- [v \in Verifications |-> verifications[v].user],
    from     <- [v \in Verifications |-> verifications[v].createdAt],
    until    <- [v \in Verifications |-> Until(v)],
    received <- mailed,
    verified <- [u \in Users |-> users[u].verifiedAt]

\* Row locks, times sampled before the lock, revocation by a comparison of times and the
\* mail of the outbox give users the links of VerificationLinks: a link ends the earlier
\* ones, and an address is verified once, with a mailed link that works, by a request
\* made in the link's life.  A link of a verified user changes no more.
ImplementsVerificationLinks == Abstract!Spec
=============================================================================
