---------------------- MODULE EmailVerificationProofs ----------------------
(***************************************************************************)
(* Proofs about EmailVerification, for any number of users, requests and   *)
(* deliveries, any lifetimes and limits and a clock that stops anywhere.   *)
(***************************************************************************)
EXTENDS EmailVerification, FiniteSetTheorems, TLAPS

-----------------------------------------------------------------------------
(* The inductive invariant.                                                *)

\* Labels at which a transaction holds the row of its user.
Holding == {"confirm", "checkLimits", "issue"}

\* Every kind of request stays on its own path.
PathOK(r) ==
    /\ pc[r] = "createUser" => r \in Registrations
    /\ pc[r] \in {"lookupToken", "lockUser", "confirm"} => r \in Confirmations
    /\ pc[r] \in {"lockEmail", "checkLimits", "issue"} => r \in Resends
    /\ pc[r] \in {"getForDelivery", "send"} => r \in Deliveries

\* What a request is going to insert is not there yet.
PendingOK(r) ==
    pc[r] # "done" =>
        /\ r \notin events
        /\ r \in Registrations => ~Exists(r)

\* What a request remembers: a time that has passed, an address, a token that was mailed
\* no later than that time, and the user the token belongs to.
MemoryOK(r) ==
    /\ local[r].now <= clock
    /\ pc[r] \in {"createUser", "lockEmail"} => local[r].email \in Emails
    /\ pc[r] = "lookupToken" => local[r].token \in events \cup {Unknown}
    /\ pc[r] \in {"lockUser", "confirm", "getForDelivery", "send"} => local[r].token \in events
    /\ (pc[r] \in {"lookupToken", "lockUser", "confirm"} /\ local[r].token # Unknown) =>
          verifications[local[r].token].createdAt <= local[r].now
    /\ pc[r] \in {"lockUser", "confirm"} =>
          local[r].user = verifications[local[r].token].user

\* What a transaction has read of its user still holds while it has the row.
LocksOK(r) ==
    /\ pc[r] = "confirm" => local[r].verifiedAt = users[local[r].user].verifiedAt
    /\ pc[r] \in {"checkLimits", "issue"} =>
          /\ local[r].user \in Users
          /\ Exists(local[r].user)
          /\ users[local[r].user].verifiedAt = None
    /\ pc[r] = "issue" =>
          /\ ~AtLimit(local[r].user, local[r].now)
          /\ ~TooSoon(local[r].user, local[r].now)

RequestOK(r) == PathOK(r) /\ PendingOK(r) /\ MemoryOK(r) /\ LocksOK(r)

\* A verification is there when its event is; it belongs to a user that exists and was
\* created at a time that has passed.
Rows ==
    /\ IsFiniteSet(events)
    /\ \A u \in Users : ~Exists(u) => users[u] = NoUser
    /\ \A v \in Verifications : v \notin events => verifications[v] = NoVerification
    /\ \A v \in events :
          /\ verifications[v].user \in Users
          /\ Exists(verifications[v].user)
          /\ verifications[v].createdAt \in Nat
          /\ verifications[v].createdAt <= clock
          /\ verifications[v].expiresAt = verifications[v].createdAt + TokenLifetime

\* What happens to a verification happens within its life, by the times in its row: it is
\* used before it expires and revoked after it was created and before it expires, whatever
\* the order in which requests that sampled the time earlier or later take the lock.
LifeIsOrdered ==
    \A v \in UNION {Of(u) : u \in Users} :
        LET row == verifications[v] IN
        /\ row.usedAt # None => row.createdAt <= row.usedAt /\ row.usedAt < row.expiresAt
        /\ row.revokedAt # None =>
              row.createdAt < row.revokedAt /\ row.revokedAt < row.expiresAt

Promises ==
    /\ AtMostOneLive
    /\ VerifiedByOneToken
    /\ LifeIsOrdered
    /\ CooldownHolds
    /\ HourlyLimit

IInv ==
    /\ TypeOK
    /\ \A r \in Requests : RequestOK(r)
    /\ Rows
    /\ Promises

-----------------------------------------------------------------------------
(* Control: how a step moves the request that takes it.                    *)

Locals == [now : Nat, email : Emails \cup {None},
           token : Verifications \cup {None, Unknown}, user : Users \cup {None},
           verifiedAt : Time, expiresAt : Time]

ControlType ==
    /\ pc \in [Requests -> Labels]
    /\ local \in [Requests -> Locals]
    /\ reply \in [Requests -> Answers \cup {None}]

LockType == userLock \in [Users -> Transactions \cup {None}]

LockOK ==
    \A r \in Requests, u \in Users :
        userLock[u] = r <=> local[r].user = u /\ pc[r] \in Holding

TableType ==
    /\ clock \in Nat
    /\ users \in [Users -> [email : Emails \cup {None}, verifiedAt : Time]]
    /\ verifications \in [Verifications ->
          [user : Users \cup {None}, createdAt : Time, expiresAt : Time,
           usedAt : Time, revokedAt : Time]]
    /\ events \subseteq Verifications
    /\ mailed \subseteq events

LEMMA TypeParts == TypeOK <=> TableType /\ ControlType /\ LockType /\ LockOK
  BY DEF TypeOK, TableType, ControlType, LockType, LockOK, Holding, Locals

LEMMA SetFacts ==
    /\ Registrations \subseteq Requests /\ Resends \subseteq Requests
    /\ Confirmations \subseteq Requests /\ Deliveries \subseteq Requests
    /\ Verifications \subseteq Requests /\ Transactions \subseteq Requests
    /\ Users \subseteq Verifications /\ Users = Registrations
    /\ None \notin Requests /\ None \notin Nat /\ None \notin Emails
    /\ None \notin Users /\ None \notin Verifications /\ Unknown \notin Verifications
    /\ Unknown # None
    /\ Registrations \cap Resends = {}
  BY VerificationAssumption DEF Requests, Verifications, Transactions, Users

\* Only r moves.
Frame(r) ==
    \A q \in Requests : q # r => pc'[q] = pc[q] /\ local'[q] = local[q]

\* The two ways a request goes on, with and without an assignment to its locals, and the
\* way it ends.
LEMMA Moves ==
    ASSUME TypeOK, NEW r \in Requests, NEW label \in Labels, Goto(r, label), UNCHANGED reply,
           NEW new \in Locals, local' = [local EXCEPT ![r] = new]
    PROVE  ControlType' /\ Frame(r) /\ pc'[r] = label /\ local'[r] = new
  BY TypeParts DEF Goto, Frame, ControlType

LEMMA GoesOn ==
    ASSUME TypeOK, NEW r \in Requests, NEW label \in Labels, Goto(r, label), UNCHANGED <<reply, local>>
    PROVE  ControlType' /\ Frame(r) /\ pc'[r] = label /\ local'[r] = local[r]
  BY TypeParts DEF Goto, Frame, ControlType

LEMMA Returns ==
    ASSUME TypeOK, NEW r \in Requests, NEW answer \in Answers, Return(r, answer)
    PROVE  ControlType' /\ Frame(r) /\ pc'[r] = "done" /\ local'[r].now = 0
<1> DEFINE left == [Blank EXCEPT !.token = local[r].token]
<1>1. ControlType
  BY TypeParts
<1>2. left \in Locals /\ left.now = 0
  <2>1. local[r] \in Locals
    BY <1>1 DEF ControlType
  <2> QED BY <2>1 DEF Locals, Blank, Time
<1>3. local' = [local EXCEPT ![r] = left]
  BY DEF Return
<1> HIDE DEF left
<1>4. local' \in [Requests -> Locals] /\ local'[r] = left
  BY <1>1, <1>2, <1>3 DEF ControlType
<1>5. pc' \in [Requests -> Labels] /\ pc'[r] = "done"
  BY <1>1 DEF ControlType, Return, Goto, Labels
<1>6. reply' \in [Requests -> Answers \cup {None}]
  BY <1>1 DEF ControlType, Return
<1>7. Frame(r)
  BY <1>1, <1>3 DEF ControlType, Return, Goto, Frame
<1> QED BY <1>2, <1>4, <1>5, <1>6, <1>7 DEF ControlType

\* What a step does to the lock: it keeps what it had, it gives it back, or it takes it.
LEMMA LockStays ==
    ASSUME TypeOK, NEW r \in Requests, Frame(r), UNCHANGED userLock,
           \/ pc[r] \notin Holding /\ pc'[r] \notin Holding
           \/ pc[r] \in Holding /\ pc'[r] \in Holding /\ local'[r] = local[r]
    PROVE  LockType' /\ LockOK'
  BY TypeParts DEF LockType, LockOK, Frame

LEMMA LockGivenBack ==
    ASSUME TypeOK, NEW r \in Requests, Frame(r), EndTransaction(r), pc'[r] \notin Holding
    PROVE  LockType' /\ LockOK'
<1>1. LockType /\ LockOK
  BY TypeParts
<1>2. LockType'
  BY <1>1 DEF LockType, EndTransaction
<1>3. ASSUME NEW q \in Requests, NEW u \in Users
      PROVE  userLock'[u] = q <=> local'[q].user = u /\ pc'[q] \in Holding
  <2>1. userLock'[u] = IF userLock[u] = r THEN None ELSE userLock[u]
    BY DEF EndTransaction
  <2>2. CASE q = r  BY <2>1, <2>2, SetFacts
  <2>3. CASE q # r
    <3>1. userLock'[u] = q <=> userLock[u] = q
      BY <2>1, <2>3, SetFacts
    <3> QED BY <1>1, <2>3, <3>1 DEF LockOK, Frame
  <2> QED BY <2>2, <2>3
<1> QED BY <1>2, <1>3 DEF LockOK

LEMMA LockTaken ==
    ASSUME TypeOK, NEW r \in Transactions, NEW u \in Users, Frame(r), RowFree(u),
           userLock' = [userLock EXCEPT ![u] = r],
           pc[r] \notin Holding, pc'[r] \in Holding, local'[r].user = u
    PROVE  LockType' /\ LockOK'
<1>1. LockType /\ LockOK /\ r \in Requests
  BY TypeParts, SetFacts
<1>2. LockType'
  BY <1>1 DEF LockType
<1>3. ASSUME NEW q \in Requests, NEW w \in Users
      PROVE  userLock'[w] = q <=> local'[q].user = w /\ pc'[q] \in Holding
  <2>1. userLock'[w] = IF w = u THEN r ELSE userLock[w]
    BY <1>1 DEF LockType
  <2>2. CASE q = r  BY <1>1, <2>1, <2>2 DEF LockOK
  <2>3. CASE q # r
    <3>1. userLock'[w] = q <=> userLock[w] = q
      BY <2>1, <2>3, SetFacts DEF RowFree
    <3> QED BY <1>1, <2>3, <3>1 DEF LockOK, Frame
  <2> QED BY <2>2, <2>3
<1> QED BY <1>2, <1>3 DEF LockOK

-----------------------------------------------------------------------------
(* Steps seen from the requests that do not take them.                     *)

\* Rows are never deleted, a verification keeps its user and its times, and time passes.
Grows ==
    /\ clock \in Nat /\ clock' \in Nat /\ clock <= clock'
    /\ events \subseteq events'
    /\ \A v \in events :
          /\ verifications'[v].user = verifications[v].user
          /\ verifications'[v].createdAt = verifications[v].createdAt
    /\ \A u \in Users : Exists(u) => Exists(u)'

\* What q is going to insert is left alone, and so are the user it has locked and the
\* user's verifications.
Respects(q) ==
    /\ pc[q] # "done" => (q \notin events => q \notin events')
    /\ (pc[q] # "done" /\ q \in Registrations) => (~Exists(q) => ~Exists(q)')
    /\ pc[q] \in Holding =>
          \A u \in Users : u = local[q].user =>
              /\ users'[u].verifiedAt = users[u].verifiedAt
              /\ Of(u)' = Of(u)

LEMMA OtherRequestOK ==
    ASSUME TypeOK, Rows, NEW q \in Requests, RequestOK(q), Grows, Respects(q),
           pc'[q] = pc[q], local'[q] = local[q]
    PROVE  RequestOK(q)'
<1>1. PathOK(q)'
  BY DEF RequestOK, PathOK
<1>2. PendingOK(q)'
  BY DEF RequestOK, PendingOK, Respects
<1>3. MemoryOK(q)'
  <2>1. local[q].now <= clock'
    BY DEF RequestOK, MemoryOK, Grows, TypeOK
  <2>2. ASSUME pc[q] \in {"lookupToken", "lockUser", "confirm"}, local[q].token # Unknown
        PROVE  verifications'[local[q].token].createdAt <= local[q].now
    <3>1. local[q].token \in events
      BY <2>2 DEF RequestOK, MemoryOK
    <3> QED BY <2>2, <3>1 DEF RequestOK, MemoryOK, Grows
  <2>3. pc[q] \in {"lockUser", "confirm"} =>
           local[q].user = verifications'[local[q].token].user
    BY DEF RequestOK, MemoryOK, Grows
  <2> QED BY <2>1, <2>2, <2>3 DEF RequestOK, MemoryOK, Grows
<1>4. LocksOK(q)'
  <2>1. ASSUME pc[q] = "confirm" PROVE local[q].verifiedAt = users'[local[q].user].verifiedAt
    BY <2>1 DEF RequestOK, LocksOK, MemoryOK, Respects, Holding, Rows
  <2>2. ASSUME pc[q] \in {"checkLimits", "issue"}
        PROVE  /\ local[q].user \in Users
               /\ Exists(local[q].user)'
               /\ users'[local[q].user].verifiedAt = None
               /\ Of(local[q].user)' = Of(local[q].user)
    BY <2>2 DEF RequestOK, LocksOK, Respects, Holding, Grows
  <2>3. ASSUME pc[q] = "issue"
        PROVE  /\ ~AtLimit(local[q].user, local[q].now)'
               /\ ~TooSoon(local[q].user, local[q].now)'
    <3> DEFINE u   == local[q].user
               now == local[q].now
    <3>1. Of(u)' = Of(u) /\ u \in Users /\ local'[q].user = u /\ local'[q].now = now
      BY <2>2, <2>3
    <3>2. \A v \in Of(u) : v \in events
      BY <3>1, SetFacts DEF Of, Rows, NoVerification
    <3>3. \A v \in Of(u) : verifications'[v].createdAt = verifications[v].createdAt
      BY <3>2 DEF Grows
    <3>4. CreatedInWindow(u, now)' = CreatedInWindow(u, now)
      BY <3>1, <3>3 DEF CreatedInWindow
    <3>5. TooSoon(u, now)' <=> TooSoon(u, now)
      BY <3>1, <3>3 DEF TooSoon
    <3>6. ~AtLimit(u, now) /\ ~TooSoon(u, now)
      BY <2>3 DEF RequestOK, LocksOK
    <3> QED BY <3>4, <3>5, <3>6 DEF AtLimit
  <2> QED BY <2>1, <2>2, <2>3 DEF LocksOK
<1> QED BY <1>1, <1>2, <1>3, <1>4 DEF RequestOK

\* A step of r that leaves the tables and the clock alone cannot disturb what the other
\* requests and the properties rely on.
LEMMA QuietStep ==
    ASSUME IInv, NEW r \in Requests, UNCHANGED <<clock, tables>>, Frame(r),
           TypeOK', RequestOK(r)'
    PROVE  IInv'
<1>1. Grows /\ \A q \in Requests : Respects(q)
  BY DEF Grows, Respects, Exists, Of, tables, IInv, TypeOK
<1>2. ASSUME NEW q \in Requests PROVE RequestOK(q)'
  <2>1. CASE q = r  BY <2>1
  <2>2. CASE q # r  BY <1>1, <2>2, OtherRequestOK DEF IInv, Frame
  <2> QED BY <2>1, <2>2
<1>3. Rows'
  BY DEF IInv, Rows, Exists, tables
<1>4. \A u \in Users : Of(u)' = Of(u)
  BY DEF Of, tables
<1>5. Promises'
  BY <1>4 DEF IInv, Promises, AtMostOneLive, VerifiedByOneToken, LifeIsOrdered, CooldownHolds,
     HourlyLimit, tables
<1> QED BY <1>2, <1>3, <1>5 DEF IInv

LEMMA ReturnedOK ==
    ASSUME TypeOK, NEW r \in Requests, NEW answer \in Answers, Return(r, answer), clock' \in Nat
    PROVE  RequestOK(r)'
<1>1. pc'[r] = "done" /\ local'[r].now = 0
  BY Returns
<1> QED BY <1>1 DEF RequestOK, PathOK, PendingOK, MemoryOK, LocksOK

\* A step of r that only ends the request.
LEMMA QuietReturn ==
    ASSUME IInv, NEW r \in Requests, NEW answer \in Answers, Return(r, answer),
           (pc[r] \notin Holding /\ UNCHANGED userLock) \/ EndTransaction(r),
           UNCHANGED <<clock, tables>>, mailed' \subseteq events'
    PROVE  IInv'
<1>1. ControlType' /\ Frame(r) /\ pc'[r] = "done"
  BY Returns DEF IInv
<1>2. LockType' /\ LockOK'
  <2>1. CASE pc[r] \notin Holding /\ UNCHANGED userLock
    BY <1>1, <2>1, LockStays DEF IInv, Holding
  <2>2. CASE EndTransaction(r)
    BY <1>1, <2>2, LockGivenBack DEF IInv, Holding
  <2> QED BY <2>1, <2>2
<1>3. TableType'
  BY TypeParts DEF IInv, TableType, tables
<1>4. TypeOK'
  BY <1>1, <1>2, <1>3, TypeParts DEF TypeOK, TableType, ControlType, LockType, LockOK, Holding, Locals
<1>5. RequestOK(r)'
  BY <1>3, ReturnedOK DEF IInv, TableType
<1> QED BY <1>1, <1>4, <1>5, QuietStep

-----------------------------------------------------------------------------
(* The steps that leave the tables alone.                                  *)

\* A step of r that goes on to another statement.
LEMMA QuietMove ==
    ASSUME IInv, NEW r \in Requests, UNCHANGED <<clock, tables, mailed>>,
           ControlType', Frame(r), LockType', LockOK', RequestOK(r)'
    PROVE  IInv'
<1>1. TableType'
  BY TypeParts DEF IInv, TableType, tables
<1>2. TypeOK'
  BY <1>1 DEF TypeOK, TableType, ControlType, LockType, LockOK, Holding, Locals
<1> QED BY <1>2, QuietStep

LEMMA StartRegisterKeeps ==
    ASSUME IInv, NEW r \in Registrations, NEW e \in Emails, StartRegister(r, e)
    PROVE  IInv'
<1> DEFINE new == [local[r] EXCEPT !.now = clock, !.email = e]
<1>1. r \in Requests /\ pc[r] = "idle" /\ "createUser" \in Labels
  BY SetFacts DEF StartRegister, Labels
<1>2. new \in Locals /\ new.now = clock /\ new.email = e
  BY <1>1, TypeParts DEF IInv, TableType, ControlType, Locals
<1>3. local' = [local EXCEPT ![r] = new]
  BY DEF StartRegister
<1> HIDE DEF new
<1>4. ControlType' /\ Frame(r) /\ pc'[r] = "createUser" /\ local'[r] = new
  BY <1>1, <1>2, <1>3, Moves DEF IInv, StartRegister
<1>5. LockType' /\ LockOK'
  BY <1>1, <1>4, LockStays DEF IInv, Holding, StartRegister
<1>6. RequestOK(r)'
  <2>1. PathOK(r)' /\ LocksOK(r)'
    BY <1>4 DEF PathOK, LocksOK
  <2>2. PendingOK(r)'
    BY <1>1, <1>4 DEF IInv, RequestOK, PendingOK, Exists, StartRegister, tables
  <2>3. MemoryOK(r)'
    BY <1>2, <1>4 DEF IInv, TypeOK, MemoryOK, StartRegister
  <2> QED BY <2>1, <2>2, <2>3 DEF RequestOK
<1> QED BY <1>1, <1>4, <1>5, <1>6, QuietMove DEF StartRegister

LEMMA StartResendKeeps ==
    ASSUME IInv, NEW r \in Resends, NEW e \in Emails, StartResend(r, e)
    PROVE  IInv'
<1> DEFINE new == [local[r] EXCEPT !.now = clock, !.email = e]
<1>1. r \in Requests /\ pc[r] = "idle" /\ "lockEmail" \in Labels
  BY SetFacts DEF StartResend, Labels
<1>2. new \in Locals /\ new.now = clock /\ new.email = e
  BY <1>1, TypeParts DEF IInv, TableType, ControlType, Locals
<1>3. local' = [local EXCEPT ![r] = new]
  BY DEF StartResend
<1> HIDE DEF new
<1>4. ControlType' /\ Frame(r) /\ pc'[r] = "lockEmail" /\ local'[r] = new
  BY <1>1, <1>2, <1>3, Moves DEF IInv, StartResend
<1>5. LockType' /\ LockOK'
  BY <1>1, <1>4, LockStays DEF IInv, Holding, StartResend
<1>6. RequestOK(r)'
  <2>1. PathOK(r)' /\ LocksOK(r)'
    BY <1>4 DEF PathOK, LocksOK
  <2>2. PendingOK(r)'
    BY <1>1, <1>4 DEF IInv, RequestOK, PendingOK, Exists, StartResend, tables
  <2>3. MemoryOK(r)'
    BY <1>2, <1>4 DEF IInv, TypeOK, MemoryOK, StartResend
  <2> QED BY <2>1, <2>2, <2>3 DEF RequestOK
<1> QED BY <1>1, <1>4, <1>5, <1>6, QuietMove DEF StartResend

\* The token of a confirmation was mailed, so its verification is there and no younger
\* than the confirmation.
LEMMA StartConfirmKeeps ==
    ASSUME IInv, NEW r \in Confirmations, NEW v \in mailed \cup {Unknown}, StartConfirm(r, v)
    PROVE  IInv'
<1> DEFINE new == [local[r] EXCEPT !.now = clock, !.token = v]
<1>1. r \in Requests /\ pc[r] = "idle" /\ "lookupToken" \in Labels
  BY SetFacts DEF StartConfirm, Labels
<1>2. v = Unknown \/ v \in events
  BY DEF IInv, TypeOK
<1>3. new \in Locals /\ new.now = clock /\ new.token = v
  BY <1>1, <1>2, TypeParts DEF IInv, TableType, ControlType, Locals
<1>4. local' = [local EXCEPT ![r] = new]
  BY DEF StartConfirm
<1> HIDE DEF new
<1>5. ControlType' /\ Frame(r) /\ pc'[r] = "lookupToken" /\ local'[r] = new
  BY <1>1, <1>3, <1>4, Moves DEF IInv, StartConfirm
<1>6. LockType' /\ LockOK'
  BY <1>1, <1>5, LockStays DEF IInv, Holding, StartConfirm
<1>7. RequestOK(r)'
  <2>1. PathOK(r)' /\ LocksOK(r)'
    BY <1>5 DEF PathOK, LocksOK
  <2>2. PendingOK(r)'
    BY <1>1, <1>5 DEF IInv, RequestOK, PendingOK, Exists, StartConfirm, tables
  <2>3. MemoryOK(r)'
    BY <1>2, <1>3, <1>5 DEF IInv, TypeOK, Rows, MemoryOK, StartConfirm, tables
  <2> QED BY <2>1, <2>2, <2>3 DEF RequestOK
<1> QED BY <1>1, <1>5, <1>6, <1>7, QuietMove DEF StartConfirm

LEMMA StartDeliveryKeeps ==
    ASSUME IInv, NEW r \in Deliveries, NEW v \in events, StartDelivery(r, v)
    PROVE  IInv'
<1> DEFINE new == [local[r] EXCEPT !.token = v]
<1>1. r \in Requests /\ pc[r] = "idle" /\ "getForDelivery" \in Labels /\ v \in Verifications
  BY SetFacts DEF StartDelivery, Labels, IInv, TypeOK
<1>2. new \in Locals /\ new.now = local[r].now /\ new.token = v
  BY <1>1, TypeParts DEF IInv, TableType, ControlType, Locals
<1>3. local' = [local EXCEPT ![r] = new]
  BY <1>1, TypeParts DEF StartDelivery, IInv, ControlType, Locals
<1> HIDE DEF new
<1>4. ControlType' /\ Frame(r) /\ pc'[r] = "getForDelivery" /\ local'[r] = new
  BY <1>1, <1>2, <1>3, Moves DEF IInv, StartDelivery
<1>5. LockType' /\ LockOK'
  BY <1>1, <1>4, LockStays DEF IInv, Holding, StartDelivery
<1>6. RequestOK(r)'
  <2>1. PathOK(r)' /\ LocksOK(r)'
    BY <1>4 DEF PathOK, LocksOK
  <2>2. PendingOK(r)'
    BY <1>1, <1>4 DEF IInv, RequestOK, PendingOK, Exists, StartDelivery, tables
  <2>3. MemoryOK(r)'
    BY <1>1, <1>2, <1>4 DEF IInv, RequestOK, MemoryOK, StartDelivery, tables
  <2> QED BY <2>1, <2>2, <2>3 DEF RequestOK
<1> QED BY <1>1, <1>4, <1>5, <1>6, QuietMove DEF StartDelivery

LEMMA AnswerTypes ==
    {"ok", "exists", "invalid", "used", "revoked", "expired", "alreadyVerified",
     "notFound", "limited", "failed"} \subseteq Answers
  BY DEF Answers

LEMMA LookupTokenKeeps ==
    ASSUME IInv, NEW r \in Requests, LookupToken(r)
    PROVE  IInv'
<1> DEFINE v == local[r].token
           new == [local[r] EXCEPT !.user = verifications[v].user]
<1>1. pc[r] = "lookupToken" /\ "lockUser" \in Labels
  BY DEF LookupToken, Labels
<1>2. CASE v = Unknown
  BY <1>1, <1>2, QuietReturn, AnswerTypes DEF LookupToken, Holding, IInv, TypeOK, tables
<1>3. CASE v # Unknown
  <2>1. v \in events /\ v \in Verifications
    BY <1>1, <1>3 DEF IInv, RequestOK, MemoryOK, TypeOK
  <2>2. /\ new \in Locals /\ new.now = local[r].now /\ new.token = v
        /\ new.user = verifications[v].user
    BY <2>1, TypeParts DEF IInv, TableType, ControlType, Locals
  <2>3. local' = [local EXCEPT ![r] = new] /\ Goto(r, "lockUser")
    BY <1>3, TypeParts DEF LookupToken, IInv, ControlType, Locals
  <2> HIDE DEF new
  <2>4. ControlType' /\ Frame(r) /\ pc'[r] = "lockUser" /\ local'[r] = new
    BY <1>1, <1>3, <2>2, <2>3, Moves DEF IInv, LookupToken
  <2>5. LockType' /\ LockOK'
    BY <1>1, <2>4, LockStays DEF IInv, Holding, LookupToken
  <2>6. RequestOK(r)'
    BY <1>1, <1>3, <2>1, <2>2, <2>4
       DEF IInv, RequestOK, PathOK, PendingOK, MemoryOK, LocksOK, Exists, LookupToken, tables
  <2> QED BY <2>4, <2>5, <2>6, QuietMove DEF LookupToken
<1> QED BY <1>2, <1>3

LEMMA LockUserKeeps ==
    ASSUME IInv, NEW r \in Requests, LockUser(r)
    PROVE  IInv'
<1> DEFINE u == local[r].user
           new == [local[r] EXCEPT !.verifiedAt = users[u].verifiedAt]
<1>1. pc[r] = "lockUser" /\ "confirm" \in Labels /\ r \in Transactions
  BY DEF LockUser, Labels, IInv, RequestOK, PathOK, Transactions
<1>2. u \in Users
  BY <1>1 DEF IInv, RequestOK, MemoryOK, Rows
<1>3. /\ new \in Locals /\ new.now = local[r].now /\ new.token = local[r].token
      /\ new.user = u /\ new.verifiedAt = users[u].verifiedAt
  BY <1>2, TypeParts DEF IInv, TableType, ControlType, Locals
<1>4. local' = [local EXCEPT ![r] = new]
  BY TypeParts DEF LockUser, IInv, ControlType, Locals
<1> HIDE DEF new
<1>5. ControlType' /\ Frame(r) /\ pc'[r] = "confirm" /\ local'[r] = new
  BY <1>1, <1>3, <1>4, Moves DEF IInv, LockUser
<1>6. LockType' /\ LockOK'
  BY <1>1, <1>2, <1>3, <1>5, LockTaken DEF IInv, Holding, LockUser
<1>7. RequestOK(r)'
  BY <1>1, <1>2, <1>3, <1>5
     DEF IInv, RequestOK, PathOK, PendingOK, MemoryOK, LocksOK, Exists, LockUser, tables
<1> QED BY <1>5, <1>6, <1>7, QuietMove DEF LockUser

LEMMA LockEmailKeeps ==
    ASSUME IInv, NEW r \in Requests, LockEmail(r)
    PROVE  IInv'
<1>1. /\ pc[r] = "lockEmail" /\ "checkLimits" \in Labels
      /\ r \in Transactions /\ r \in Resends /\ local[r].email # None
  BY SetFacts DEF LockEmail, Labels, IInv, RequestOK, PathOK, MemoryOK, Transactions
<1>2. CASE UNCHANGED userLock
            /\ \E answer \in {"notFound", "alreadyVerified"} : Return(r, answer)
  BY <1>1, <1>2, QuietReturn, AnswerTypes DEF LockEmail, Holding, IInv, TypeOK, tables
<1>3. ASSUME NEW u \in Users, users[u].email = local[r].email, RowFree(u),
             users[u].verifiedAt = None, userLock' = [userLock EXCEPT ![u] = r],
             local' = [local EXCEPT ![r].user = u], Goto(r, "checkLimits"), UNCHANGED reply
      PROVE  IInv'
  <2> DEFINE new == [local[r] EXCEPT !.user = u]
  <2>1. new \in Locals /\ new.now = local[r].now /\ new.user = u
    BY <1>3, TypeParts DEF IInv, TableType, ControlType, Locals
  <2>2. local' = [local EXCEPT ![r] = new]
    BY <1>3, TypeParts DEF IInv, ControlType, Locals
  <2> HIDE DEF new
  <2>3. ControlType' /\ Frame(r) /\ pc'[r] = "checkLimits" /\ local'[r] = new
    BY <1>1, <1>3, <2>1, <2>2, Moves DEF IInv
  <2>4. LockType' /\ LockOK'
    BY <1>1, <1>3, <2>1, <2>3, LockTaken DEF IInv, Holding
  <2>5. RequestOK(r)'
    BY <1>1, <1>3, <2>1, <2>3
       DEF IInv, RequestOK, PathOK, PendingOK, MemoryOK, LocksOK, Exists, LockEmail, tables
  <2> QED BY <2>3, <2>4, <2>5, QuietMove DEF LockEmail
<1> QED BY <1>2, <1>3 DEF LockEmail

LEMMA CheckLimitsKeeps ==
    ASSUME IInv, NEW r \in Requests, CheckLimits(r)
    PROVE  IInv'
<1>1. pc[r] = "checkLimits" /\ "issue" \in Labels
  BY DEF CheckLimits, Labels
<1>2. CASE Return(r, "limited") /\ EndTransaction(r)
  BY <1>2, QuietReturn, AnswerTypes DEF CheckLimits, IInv, TypeOK, tables
<1>3. CASE /\ ~AtLimit(local[r].user, local[r].now) /\ ~TooSoon(local[r].user, local[r].now)
           /\ Goto(r, "issue") /\ UNCHANGED <<local, reply, userLock>>
  <2>1. ControlType' /\ Frame(r) /\ pc'[r] = "issue" /\ local'[r] = local[r]
    BY <1>1, <1>3, GoesOn DEF IInv
  <2>2. LockType' /\ LockOK'
    BY <1>1, <1>3, <2>1, LockStays DEF IInv, Holding
  <2>3. RequestOK(r)'
    <3>1. PathOK(r)' /\ PendingOK(r)' /\ MemoryOK(r)'
      BY <1>1, <2>1
         DEF IInv, RequestOK, PathOK, PendingOK, MemoryOK, Exists, CheckLimits, tables
    <3>2. LocksOK(r)'
      BY <1>1, <1>3, <2>1
         DEF IInv, RequestOK, LocksOK, Exists, CheckLimits, tables, AtLimit, TooSoon,
         CreatedInWindow, Of
    <3> QED BY <3>1, <3>2 DEF RequestOK
  <2> QED BY <2>1, <2>2, <2>3, QuietMove DEF CheckLimits
<1> QED BY <1>2, <1>3 DEF CheckLimits

LEMMA GetForDeliveryKeeps ==
    ASSUME IInv, NEW r \in Requests, GetForDelivery(r)
    PROVE  IInv'
<1> DEFINE row == verifications[local[r].token]
           new == [local[r] EXCEPT !.expiresAt = row.expiresAt]
<1>1. pc[r] = "getForDelivery" /\ "send" \in Labels
  BY DEF GetForDelivery, Labels
<1>2. CASE Return(r, "ok")
  BY <1>1, <1>2, QuietReturn, AnswerTypes DEF GetForDelivery, Holding, IInv, TypeOK, tables
<1>3. CASE /\ local' = [local EXCEPT ![r].expiresAt = row.expiresAt]
           /\ Goto(r, "send") /\ UNCHANGED reply
  <2>1. local[r].token \in events /\ local[r].token \in Verifications
    BY <1>1 DEF IInv, RequestOK, MemoryOK, TypeOK
  <2>2. new \in Locals /\ new.now = local[r].now /\ new.token = local[r].token
    BY <2>1, TypeParts DEF IInv, TableType, ControlType, Locals
  <2>3. local' = [local EXCEPT ![r] = new]
    BY <1>3, TypeParts DEF IInv, ControlType, Locals
  <2> HIDE DEF new
  <2>4. ControlType' /\ Frame(r) /\ pc'[r] = "send" /\ local'[r] = new
    BY <1>1, <1>3, <2>2, <2>3, Moves DEF IInv
  <2>5. LockType' /\ LockOK'
    BY <1>1, <2>4, LockStays DEF IInv, Holding, GetForDelivery
  <2>6. RequestOK(r)'
    BY <1>1, <2>1, <2>2, <2>4
       DEF IInv, RequestOK, PathOK, PendingOK, MemoryOK, LocksOK, Exists, GetForDelivery, tables
  <2> QED BY <2>4, <2>5, <2>6, QuietMove DEF GetForDelivery
<1> QED BY <1>2, <1>3 DEF GetForDelivery

LEMMA SendVerificationKeeps ==
    ASSUME IInv, NEW r \in Requests, SendVerification(r)
    PROVE  IInv'
<1>1. mailed' \subseteq events'
  BY DEF SendVerification, IInv, RequestOK, MemoryOK, TypeOK, tables
<1> QED BY <1>1, QuietReturn, AnswerTypes DEF SendVerification, Holding

LEMMA AbortKeeps ==
    ASSUME IInv, NEW r \in Requests, Abort(r)
    PROVE  IInv'
  BY QuietReturn, AnswerTypes DEF Abort, IInv, TypeOK, tables

-----------------------------------------------------------------------------
(* The clock and the three transactions that write.                        *)

LEMMA OfFinite ==
    ASSUME TypeOK, Rows, NEW u \in Users
    PROVE  Of(u) \subseteq events /\ IsFiniteSet(Of(u))
<1>1. Of(u) \subseteq events
  BY SetFacts DEF Of, Rows, NoVerification
<1> QED BY <1>1, FS_Subset DEF Rows

LEMMA TickKeeps ==
    ASSUME IInv, Tick
    PROVE  IInv'
<1>1. clock \in Nat /\ clock' \in Nat /\ clock <= clock'
  BY DEF Tick, IInv, TypeOK
<1>2. TypeOK'
  BY <1>1 DEF Tick, IInv, TypeOK, tables
<1>3. ASSUME NEW q \in Requests PROVE RequestOK(q)'
  <2>1. Grows /\ Respects(q)
    BY <1>1 DEF Grows, Respects, Exists, Of, Tick, tables
  <2> QED BY <2>1, OtherRequestOK DEF IInv, Tick
<1>4. Rows'
  BY <1>1 DEF IInv, Rows, TypeOK, Exists, Tick, tables
<1>5. UNCHANGED <<users, verifications>> /\ \A u \in Users : Of(u)' = Of(u)
  BY DEF Of, Tick, tables
<1>6. AtMostOneLive'
  <2> SUFFICES ASSUME NEW u \in Users, NEW v \in Of(u), NEW w \in Of(u),
                      verifications[v].usedAt = None, verifications[v].revokedAt = None,
                      verifications[v].expiresAt > clock',
                      verifications[w].usedAt = None, verifications[w].revokedAt = None,
                      verifications[w].expiresAt > clock'
               PROVE  v = w
    BY <1>5 DEF AtMostOneLive
  <2>1. v \in events /\ w \in events
    BY OfFinite DEF IInv
  <2>2. verifications[v].expiresAt \in Nat /\ verifications[w].expiresAt \in Nat
    BY <2>1, VerificationAssumption DEF IInv, Rows
  <2> QED BY <1>1, <2>2 DEF IInv, Promises, AtMostOneLive
<1>7. VerifiedByOneToken' /\ LifeIsOrdered' /\ CooldownHolds' /\ HourlyLimit'
  BY <1>5 DEF IInv, Promises, VerifiedByOneToken, LifeIsOrdered, CooldownHolds, HourlyLimit
<1> QED BY <1>2, <1>3, <1>4, <1>6, <1>7 DEF IInv, Promises

\* The row of a verification that has just been generated.
LEMMA NewRow ==
    ASSUME NEW u \in Users, NEW now \in Nat
    PROVE  LET row == NewVerification(u, now) IN
           /\ row \in [user : Users \cup {None}, createdAt : Time, expiresAt : Time,
                       usedAt : Time, revokedAt : Time]
           /\ row.user = u /\ row.createdAt = now /\ row.expiresAt = now + TokenLifetime
           /\ row.usedAt = None /\ row.revokedAt = None
  BY VerificationAssumption DEF NewVerification, Time

\* A user that is created has no older verification.
LEMMA CreateUserKeeps ==
    ASSUME IInv, NEW r \in Requests, CreateUser(r)
    PROVE  IInv'
<1> DEFINE now == local[r].now
           e   == local[r].email
<1>1. /\ pc[r] = "createUser" /\ r \in Registrations /\ r \in Users /\ r \in Verifications
      /\ r \notin events /\ ~Exists(r) /\ e \in Emails /\ now \in Nat /\ now <= clock
      /\ users[r] = NoUser
  BY SetFacts DEF CreateUser, IInv, RequestOK, PathOK, PendingOK, MemoryOK, TypeOK, Rows
<1>2. CASE Return(r, "exists") /\ UNCHANGED tables
  BY <1>1, <1>2, QuietReturn, AnswerTypes DEF CreateUser, Holding, IInv, TypeOK, tables
<1>3. CASE /\ users' = [users EXCEPT ![r] = [email |-> e, verifiedAt |-> None]]
           /\ verifications' = [verifications EXCEPT ![r] = NewVerification(r, now)]
           /\ events' = events \cup {r}
           /\ Return(r, "ok")
  <2>1. ControlType' /\ Frame(r) /\ pc'[r] = "done"
    BY <1>3, Returns, AnswerTypes DEF IInv
  <2>2. LockType' /\ LockOK'
    BY <1>1, <2>1, LockStays DEF IInv, Holding, CreateUser
  <2> DEFINE row == verifications'[r]
  <2>3. /\ row = NewVerification(r, now)
        /\ row \in [user : Users \cup {None}, createdAt : Time, expiresAt : Time,
                    usedAt : Time, revokedAt : Time]
        /\ row.user = r /\ row.createdAt = now /\ row.expiresAt = now + TokenLifetime
        /\ row.usedAt = None /\ row.revokedAt = None
    <3>1. row = NewVerification(r, now)
      BY <1>1, <1>3 DEF IInv, TypeOK
    <3> QED BY <1>1, <3>1, NewRow
  <2>4. /\ \A v \in Verifications : v # r => verifications'[v] = verifications[v]
        /\ \A u \in Users : u # r => users'[u] = users[u]
        /\ users'[r].email = e /\ users'[r].verifiedAt = None
    BY <1>1, <1>3 DEF IInv, TypeOK
  <2>5. TableType' /\ clock' = clock
    <3>1. users' \in [Users -> [email : Emails \cup {None}, verifiedAt : Time]]
      BY <1>1, <1>3 DEF IInv, TypeOK, Time
    <3>2. verifications' \in [Verifications ->
             [user : Users \cup {None}, createdAt : Time, expiresAt : Time,
              usedAt : Time, revokedAt : Time]]
      BY <1>1, <1>3, <2>3 DEF IInv, TypeOK
    <3> QED BY <1>1, <1>3, <3>1, <3>2 DEF IInv, TypeOK, TableType, CreateUser
  <2>6. TypeOK'
    BY <2>1, <2>2, <2>5
       DEF TypeOK, TableType, ControlType, LockType, LockOK, Holding, Locals
  <2>7. Of(r) = {} /\ Of(r)' = {r}
    <3>1. ASSUME NEW v \in Verifications PROVE verifications[v].user # r
      BY <1>1, SetFacts DEF IInv, Rows, NoVerification
    <3>2. Of(r) = {}
      BY <3>1 DEF Of
    <3>3. \A v \in Verifications : verifications'[v].user = r <=> v = r
      BY <2>3, <2>4, <3>1
    <3> QED BY <1>1, <3>2, <3>3 DEF Of
  <2>8. \A u \in Users : u # r => Of(u)' = Of(u) /\ r \notin Of(u)
    <3>1. verifications[r].user = None
      BY <1>1 DEF IInv, Rows, NoVerification
    <3> QED BY <2>3, <2>4, <3>1, SetFacts DEF Of
  <2>9. ASSUME NEW q \in Requests PROVE RequestOK(q)'
    <3>1. CASE q = r
      BY <1>3, <2>5, <3>1, ReturnedOK, AnswerTypes DEF IInv, TableType
    <3>2. CASE q # r
      <4>1. Grows
        <5>1. \A v \in events : v # r /\ v \in Verifications
          BY <1>1 DEF IInv, TypeOK
        <5> QED BY <1>1, <1>3, <2>4, <2>5, <5>1 DEF IInv, TypeOK, Grows, Exists
      <4>2. Respects(q)
        <5>1. (pc[q] # "done" /\ q \in Registrations) => (~Exists(q) => ~Exists(q)')
          BY <2>4, <3>2 DEF Exists, Users
        <5>2. (pc[q] \in Holding /\ local[q].user \in Users) => local[q].user # r
          <6>1. (pc[q] = "confirm" /\ local[q].user \in Users) => Exists(local[q].user)
            BY DEF IInv, RequestOK, MemoryOK, Rows
          <6>2. pc[q] \in {"checkLimits", "issue"} => Exists(local[q].user)
            BY DEF IInv, RequestOK, LocksOK
          <6> QED BY <1>1, <6>1, <6>2 DEF Holding
        <5> QED BY <1>3, <2>4, <2>8, <3>2, <5>1, <5>2 DEF Respects
      <4> QED BY <2>1, <3>2, <4>1, <4>2, OtherRequestOK DEF IInv, Frame
    <3> QED BY <3>1, <3>2
  <2>10. Rows'
    <3>1. IsFiniteSet(events')
      BY <1>3, FS_AddElement DEF IInv, Rows
    <3>2. ASSUME NEW v \in events'
          PROVE  /\ verifications'[v].user \in Users
                 /\ Exists(verifications[v].user)'
                 /\ verifications'[v].createdAt \in Nat
                 /\ verifications'[v].createdAt <= clock'
                 /\ verifications'[v].expiresAt = verifications'[v].createdAt + TokenLifetime
      <4>1. CASE v = r
        BY <1>1, <2>3, <2>4, <2>5, <4>1, SetFacts DEF Exists
      <4>2. CASE v # r
        <5>1. v \in events /\ v \in Verifications
          BY <1>3, <4>2 DEF IInv, TypeOK
        <5>2. verifications'[v] = verifications[v]
          BY <2>4, <4>2, <5>1
        <5>3. verifications[v].user # r
          BY <1>1, <5>1 DEF IInv, Rows
        <5> QED BY <2>4, <2>5, <5>1, <5>2, <5>3 DEF IInv, Rows, Exists
      <4> QED BY <4>1, <4>2
    <3>3. \A u \in Users : ~Exists(u)' => users'[u] = NoUser
      BY <1>1, <2>4, SetFacts DEF IInv, Rows, Exists
    <3>4. \A v \in Verifications : v \notin events' => verifications'[v] = NoVerification
      BY <1>3, <2>4 DEF IInv, Rows
    <3> QED BY <3>1, <3>2, <3>3, <3>4 DEF Rows
  <2>11. ASSUME NEW u \in Users, u # r
         PROVE  /\ Of(u)' = Of(u)
                /\ \A v \in Of(u) : verifications'[v] = verifications[v]
                /\ users'[u] = users[u]
    BY <2>4, <2>8, <2>11 DEF Of
  <2>12. AtMostOneLive'
    BY <2>5, <2>7, <2>11 DEF IInv, Promises, AtMostOneLive
  <2>13. VerifiedByOneToken'
    BY <2>3, <2>4, <2>7, <2>11 DEF IInv, Promises, VerifiedByOneToken
  <2>14. LifeIsOrdered'
    BY <2>3, <2>7, <2>11 DEF IInv, Promises, LifeIsOrdered
  <2>15. CooldownHolds'
    BY <2>7, <2>11 DEF IInv, Promises, CooldownHolds
  <2>16. HourlyLimit'
    <3> SUFFICES ASSUME NEW u \in Users, NEW v \in Of(u)'
                 PROVE  LET from == verifications'[v].createdAt
                            window == {w \in Of(u)' :
                               /\ verifications'[w].createdAt >= from
                               /\ verifications'[w].createdAt <= from + LimitWindow}
                        IN Cardinality(window) <= ResendLimit
      BY DEF HourlyLimit
    <3>1. CASE u = r
      <4> DEFINE window == {w \in {r} : /\ verifications'[w].createdAt >= now
                                        /\ verifications'[w].createdAt <= now + LimitWindow}
      <4>1. window = {r}
        BY <1>1, <2>3, VerificationAssumption
      <4>2. Cardinality(window) = 1
        BY <4>1, FS_Singleton
      <4>3. Cardinality(window) <= ResendLimit
        BY <4>2, VerificationAssumption
      <4> HIDE DEF window
      <4>4. Of(u)' = {r} /\ v = r /\ verifications'[v].createdAt = now
        BY <2>3, <2>7, <3>1
      <4> QED BY <4>3, <4>4 DEF window
    <3>2. CASE u # r
      BY <2>11, <3>2 DEF IInv, Promises, HourlyLimit
    <3> QED BY <3>1, <3>2
  <2> QED BY <2>6, <2>9, <2>10, <2>12, <2>13, <2>14, <2>15, <2>16 DEF IInv, Promises
<1> QED BY <1>2, <1>3 DEF CreateUser

\* Two transactions never hold the row of one user.
LEMMA LockExcludes ==
    ASSUME IInv, NEW r \in Requests, NEW q \in Requests, pc[r] \in Holding, pc[q] \in Holding,
           local[r].user \in Users, local[q].user = local[r].user
    PROVE  q = r
  BY TypeParts DEF IInv, LockOK

\* A confirmation that is accepted uses up a token of a user that was not verified, so no
\* other token of that user had been used.
LEMMA ConfirmKeeps ==
    ASSUME IInv, NEW r \in Requests, Confirm(r)
    PROVE  IInv'
<1> DEFINE v   == local[r].token
           u   == local[r].user
           now == local[r].now
           refusal == RefusalOf(verifications[v], now, local[r].verifiedAt)
<1>1. /\ pc[r] = "confirm" /\ v \in events /\ v \in Verifications
      /\ u = verifications[v].user /\ u \in Users /\ Exists(u)
      /\ verifications[v].createdAt <= now /\ now \in Nat /\ now # None /\ now <= clock
      /\ local[r].verifiedAt = users[u].verifiedAt
  <2>1. pc[r] = "confirm" /\ v \in events /\ v \in Verifications /\ v # Unknown
    BY SetFacts DEF Confirm, IInv, RequestOK, MemoryOK, TypeOK
  <2>2. now \in Nat /\ now # None
    BY SetFacts DEF IInv, TypeOK
  <2> QED BY <2>1, <2>2 DEF IInv, RequestOK, MemoryOK, LocksOK, Rows, TypeOK
<1>2. CASE refusal # None /\ Return(r, refusal) /\ UNCHANGED tables
  <2>1. refusal \in Answers
    BY <1>2, AnswerTypes DEF RefusalOf
  <2> QED BY <1>2, <2>1, QuietReturn DEF Confirm, IInv, TypeOK, tables
<1>3. CASE /\ refusal = None
           /\ verifications' = [verifications EXCEPT ![v].usedAt = now]
           /\ users' = [users EXCEPT ![u].verifiedAt = now]
           /\ Return(r, "ok")
           /\ UNCHANGED events
  <2>1. ControlType' /\ Frame(r) /\ pc'[r] = "done"
    BY <1>3, Returns, AnswerTypes DEF IInv
  <2>2. LockType' /\ LockOK'
    BY <2>1, LockGivenBack DEF IInv, Holding, Confirm
  <2>3. /\ verifications[v].usedAt = None /\ verifications[v].revokedAt = None
        /\ now < verifications[v].expiresAt /\ users[u].verifiedAt = None
    <3>1. verifications[v].expiresAt \in Nat
      BY <1>1, VerificationAssumption DEF IInv, Rows
    <3>2. \A why \in Answers : why # None
      BY VerificationAssumption
    <3> QED BY <1>1, <1>3, <3>1, <3>2, AnswerTypes DEF RefusalOf, Revoked, Expired
  <2>4. /\ \A w \in Verifications : w # v => verifications'[w] = verifications[w]
        /\ \A w \in Verifications :
              /\ verifications'[w].user = verifications[w].user
              /\ verifications'[w].createdAt = verifications[w].createdAt
              /\ verifications'[w].expiresAt = verifications[w].expiresAt
              /\ verifications'[w].revokedAt = verifications[w].revokedAt
        /\ verifications'[v].usedAt = now
    BY <1>1, <1>3 DEF IInv, TypeOK
  <2>5. /\ \A x \in Users : x # u => users'[x] = users[x]
        /\ \A x \in Users : users'[x].email = users[x].email
        /\ users'[u].verifiedAt = now
    BY <1>1, <1>3 DEF IInv, TypeOK
  <2>6. TableType' /\ clock' = clock
    <3>1. users' \in [Users -> [email : Emails \cup {None}, verifiedAt : Time]]
      <4> DEFINE new == [users[u] EXCEPT !.verifiedAt = now]
      <4>1. new \in [email : Emails \cup {None}, verifiedAt : Time]
        BY <1>1 DEF IInv, TypeOK, Time
      <4>2. users' = [users EXCEPT ![u] = new]
        BY <1>3
      <4> HIDE DEF new
      <4> QED BY <4>1, <4>2 DEF IInv, TypeOK
    <3>2. verifications' \in [Verifications ->
             [user : Users \cup {None}, createdAt : Time, expiresAt : Time,
              usedAt : Time, revokedAt : Time]]
      <4> DEFINE new == [verifications[v] EXCEPT !.usedAt = now]
      <4>1. new \in [user : Users \cup {None}, createdAt : Time, expiresAt : Time,
                     usedAt : Time, revokedAt : Time]
        BY <1>1 DEF IInv, TypeOK, Time
      <4>2. verifications' = [verifications EXCEPT ![v] = new]
        BY <1>3
      <4> HIDE DEF new
      <4> QED BY <4>1, <4>2 DEF IInv, TypeOK
    <3> QED BY <1>1, <1>3, <3>1, <3>2 DEF IInv, TypeOK, TableType, Confirm
  <2>7. TypeOK'
    BY <2>1, <2>2, <2>6
       DEF TypeOK, TableType, ControlType, LockType, LockOK, Holding, Locals
  <2>8. \A x \in Users : Of(x)' = Of(x)
    BY <2>4 DEF Of
  <2>9. ASSUME NEW q \in Requests PROVE RequestOK(q)'
    <3>1. CASE q = r
      BY <1>3, <2>6, <3>1, ReturnedOK, AnswerTypes DEF IInv, TableType
    <3>2. CASE q # r
      <4>1. Grows
        BY <1>3, <2>4, <2>5, <2>6 DEF IInv, TypeOK, Grows, Exists
      <4>2. Respects(q)
        <5>1. (pc[q] \in Holding /\ local[q].user \in Users) => local[q].user # u
          BY <1>1, <3>2, LockExcludes DEF Holding
        <5> QED BY <1>3, <2>5, <2>8, <5>1, SetFacts DEF Respects, Exists
      <4> QED BY <2>1, <3>2, <4>1, <4>2, OtherRequestOK DEF IInv, Frame
    <3> QED BY <3>1, <3>2
  <2>10. Rows'
    <3>1. \A x \in Users : ~Exists(x)' => users'[x] = NoUser
      BY <1>1, <2>5 DEF IInv, Rows, Exists
    <3>2. \A w \in Verifications : w \notin events' => verifications'[w] = NoVerification
      BY <1>1, <1>3, <2>4 DEF IInv, Rows
    <3>3. \A w \in events : verifications'[w].user \in Users /\ Exists(verifications[w].user)'
      BY <2>4, <2>5 DEF IInv, Rows, Exists, TypeOK
    <3>4. \A w \in events :
             /\ verifications'[w].createdAt \in Nat
             /\ verifications'[w].createdAt <= clock'
             /\ verifications'[w].expiresAt = verifications'[w].createdAt + TokenLifetime
      BY <2>4, <2>6 DEF IInv, Rows, TypeOK
    <3> QED BY <1>3, <2>4, <3>1, <3>2, <3>3, <3>4 DEF IInv, TypeOK, Rows, Exists
  <2>11. AtMostOneLive'
    <3>1. \A w \in Verifications : verifications'[w].usedAt = None => w # v
      BY <1>1, <2>4, VerificationAssumption
    <3> QED BY <2>4, <2>6, <2>8, <3>1 DEF IInv, Promises, AtMostOneLive, Of
  <2>12. VerifiedByOneToken'
    <3> SUFFICES ASSUME NEW x \in Users
                 PROVE  LET used == {w \in Of(x)' : verifications'[w].usedAt # None} IN
                        IF users'[x].verifiedAt = None
                        THEN used = {}
                        ELSE \E w \in used : /\ used = {w}
                                             /\ verifications'[w].usedAt = users'[x].verifiedAt
                                             /\ verifications'[w].revokedAt = None
      BY DEF VerifiedByOneToken
    <3>1. CASE x = u
      <4> DEFINE used == {w \in Of(x)' : verifications'[w].usedAt # None}
      <4>1. \A w \in Of(u) : verifications[w].usedAt = None
        <5>1. {w \in Of(u) : verifications[w].usedAt # None} = {}
          BY <1>1, <2>3 DEF IInv, Promises, VerifiedByOneToken
        <5> QED BY <5>1
      <4>2. v \in Of(u) /\ Of(u) \subseteq Verifications
        BY <1>1 DEF Of
      <4> HIDE DEF now, u, v
      <4>3. used = {v}
        <5>1. \A w \in Of(u) : w # v => verifications'[w].usedAt = None
          BY <2>4, <4>1, <4>2
        <5>2. verifications'[v].usedAt # None
          BY <1>1, <2>4
        <5> QED BY <1>1, <2>8, <3>1, <4>2, <5>1, <5>2
      <4>4. users'[x].verifiedAt # None
        BY <1>1, <2>5, <3>1
      <4> QED BY <2>3, <2>4, <2>5, <3>1, <4>2, <4>3, <4>4
    <3>2. CASE x # u
      <4>1. \A w \in Of(x) : verifications'[w] = verifications[w]
        BY <1>1, <2>4, <3>2 DEF Of
      <4> QED BY <2>5, <2>8, <3>2, <4>1 DEF IInv, Promises, VerifiedByOneToken
    <3> QED BY <3>1, <3>2
  <2>13. LifeIsOrdered'
    <3> SUFFICES ASSUME NEW x \in Users, NEW w \in Of(x)
                 PROVE  LET row == verifications'[w] IN
                        /\ row.usedAt # None =>
                              row.createdAt <= row.usedAt /\ row.usedAt < row.expiresAt
                        /\ row.revokedAt # None =>
                              row.createdAt < row.revokedAt /\ row.revokedAt < row.expiresAt
      BY <2>8 DEF LifeIsOrdered
    <3>1. w \in Verifications
      BY DEF Of
    <3>2. CASE w = v  BY <1>1, <2>3, <2>4, <3>1, <3>2
    <3>3. CASE w # v
      BY <2>4, <3>1, <3>3 DEF IInv, Promises, LifeIsOrdered
    <3> QED BY <3>2, <3>3
  <2>14. CooldownHolds'
    BY <2>4, <2>8 DEF IInv, Promises, CooldownHolds, Of
  <2>15. HourlyLimit'
    <3>1. \A x \in Users : \A w \in Of(x) :
             verifications'[w].createdAt = verifications[w].createdAt
      BY <2>4 DEF Of
    <3> QED BY <2>8, <3>1 DEF IInv, Promises, HourlyLimit
  <2> QED BY <2>7, <2>9, <2>10, <2>11, <2>12, <2>13, <2>14, <2>15 DEF IInv, Promises
<1> QED BY <1>2, <1>3 DEF Confirm

\* A resend revokes what is unused and not expired at its own time, an earlier one than
\* the clock's, and adds a verification younger than all others of the user.
LEMMA IssueKeeps ==
    ASSUME IInv, NEW r \in Requests, Issue(r)
    PROVE  IInv'
<1> SUFFICES ASSUME NEW u, NEW now, u = local[r].user, now = local[r].now
             PROVE  IInv'
  OBVIOUS
<1>1. /\ pc[r] = "issue" /\ r \in Verifications /\ r \notin events /\ r # u
      /\ u \in Users /\ Exists(u) /\ users[u].verifiedAt = None
      /\ now \in Nat /\ now # None /\ now <= clock /\ clock \in Nat
      /\ ~AtLimit(u, now) /\ ~TooSoon(u, now)
      /\ verifications[r] = NoVerification
  <2>1. pc[r] = "issue" /\ r \in Resends /\ r \in Verifications /\ r \notin Users
    BY SetFacts DEF Issue, IInv, RequestOK, PathOK, Verifications
  <2>2. now \in Nat /\ now # None
    BY SetFacts DEF IInv, TypeOK
  <2> QED BY <2>1, <2>2 DEF IInv, RequestOK, PendingOK, MemoryOK, LocksOK, Rows, TypeOK
<1>2. ControlType' /\ Frame(r) /\ pc'[r] = "done"
  BY Returns, AnswerTypes DEF Issue, IInv
<1>3. LockType' /\ LockOK'
  BY <1>2, LockGivenBack DEF IInv, Holding, Issue
<1>4. \A v \in Verifications : verifications'[v] =
         IF v = r THEN NewVerification(u, now)
         ELSE IF v \in Of(u) /\ IsRevoked(verifications[v], now)
              THEN [verifications[v] EXCEPT !.revokedAt = now]
              ELSE verifications[v]
  BY DEF Issue
<1>5. LET row == verifications'[r] IN
      /\ row \in [user : Users \cup {None}, createdAt : Time, expiresAt : Time,
                  usedAt : Time, revokedAt : Time]
      /\ row.user = u /\ row.createdAt = now /\ row.expiresAt = now + TokenLifetime
      /\ row.usedAt = None /\ row.revokedAt = None
  <2>1. verifications'[r] = NewVerification(u, now)
    BY <1>1, <1>4
  <2> QED BY <1>1, <2>1, NewRow
<1>6. ASSUME NEW v \in Verifications, v # r
      PROVE  /\ verifications'[v].user = verifications[v].user
             /\ verifications'[v].createdAt = verifications[v].createdAt
             /\ verifications'[v].expiresAt = verifications[v].expiresAt
             /\ verifications'[v].usedAt = verifications[v].usedAt
             /\ v \notin Of(u) => verifications'[v] = verifications[v]
             /\ v \in Of(u) =>
                   verifications'[v].revokedAt =
                      IF IsRevoked(verifications[v], now) THEN now ELSE verifications[v].revokedAt
             /\ verifications'[v] \in [user : Users \cup {None}, createdAt : Time,
                                      expiresAt : Time, usedAt : Time, revokedAt : Time]
  <2>1. verifications[v] \in [user : Users \cup {None}, createdAt : Time, expiresAt : Time,
                             usedAt : Time, revokedAt : Time]
    BY DEF IInv, TypeOK
  <2>2. CASE v \in Of(u) /\ IsRevoked(verifications[v], now)
    <3>1. verifications'[v] = [verifications[v] EXCEPT !.revokedAt = now]
      BY <1>4, <1>6, <2>2
    <3> QED BY <1>1, <2>1, <2>2, <3>1 DEF Time
  <2>3. CASE ~(v \in Of(u) /\ IsRevoked(verifications[v], now))
    <3>1. verifications'[v] = verifications[v]
      BY <1>4, <1>6, <2>3
    <3> QED BY <2>1, <2>3, <3>1
  <2> QED BY <2>2, <2>3
<1>7. ASSUME NEW v \in Of(u)
      PROVE  /\ v \in Verifications /\ v # r /\ v \in events
             /\ verifications[v].createdAt \in Nat /\ verifications[v].expiresAt \in Nat
             /\ now - verifications[v].createdAt >= ResendCooldown
             /\ verifications[v].createdAt < now
             /\ verifications'[v].revokedAt =
                   IF IsRevoked(verifications[v], now) THEN now ELSE verifications[v].revokedAt
  <2>1. v \in Verifications /\ v # r /\ v \in events
    BY <1>1, OfFinite DEF Of, IInv
  <2>2. verifications[v].createdAt \in Nat /\ verifications[v].expiresAt \in Nat
    BY <2>1, VerificationAssumption DEF IInv, Rows
  <2>3. now - verifications[v].createdAt >= ResendCooldown
    BY <1>1, <2>2, VerificationAssumption DEF TooSoon
  <2>4. verifications'[v].revokedAt =
           IF IsRevoked(verifications[v], now) THEN now ELSE verifications[v].revokedAt
    BY <1>6, <2>1
  <2> QED BY <1>1, <2>1, <2>2, <2>3, <2>4, VerificationAssumption
<1>8. r \notin Of(u) /\ Of(u)' = Of(u) \cup {r}
  BY <1>1, <1>5, <1>6, <1>7 DEF Of
<1>9. ASSUME NEW x \in Users, x # u
      PROVE  /\ Of(x)' = Of(x)
             /\ \A v \in Of(x) : v \in Verifications /\ verifications'[v] = verifications[v]
  <2>1. r \notin Of(x)
    BY <1>1, SetFacts DEF Of, NoVerification
  <2>2. Of(x)' = Of(x)
    BY <1>1, <1>5, <1>6, <1>9, <2>1 DEF Of
  <2>3. \A v \in Of(x) : v \in Verifications /\ v # r /\ v \notin Of(u)
    BY <1>9, <2>1 DEF Of
  <2> QED BY <1>6, <2>2, <2>3
<1>10. UNCHANGED <<clock, users>> /\ events' = events \cup {r} /\ mailed' = mailed
  BY DEF Issue
<1>11. TableType'
  <2>1. ASSUME NEW v \in Verifications
        PROVE  verifications'[v] \in [user : Users \cup {None}, createdAt : Time,
                                      expiresAt : Time, usedAt : Time, revokedAt : Time]
    BY <1>5, <1>6
  <2>2. verifications' = [v \in Verifications |-> verifications'[v]]
    BY DEF Issue
  <2> QED BY <1>1, <1>10, <2>1, <2>2 DEF IInv, TypeOK, TableType
<1>12. TypeOK'
  BY <1>2, <1>3, <1>11
     DEF TypeOK, TableType, ControlType, LockType, LockOK, Holding, Locals
<1>13. ASSUME NEW q \in Requests PROVE RequestOK(q)'
  <2>1. CASE q = r
    BY <1>11, <2>1, ReturnedOK, AnswerTypes DEF IInv, Issue, TableType
  <2>2. CASE q # r
    <3>1. Grows
      <4>1. \A v \in events : v # r /\ v \in Verifications
        BY <1>1 DEF IInv, TypeOK
      <4> QED BY <1>1, <1>6, <1>10, <4>1 DEF Grows, Exists
    <3>2. Respects(q)
      <4>1. (pc[q] \in Holding /\ local[q].user \in Users) => local[q].user # u
        BY <1>1, <2>2, LockExcludes DEF Holding
      <4> QED BY <1>9, <1>10, <2>2, <4>1 DEF Respects, Exists
    <3> QED BY <1>2, <2>2, <3>1, <3>2, OtherRequestOK DEF IInv, Frame
  <2> QED BY <2>1, <2>2
<1>14. Rows'
  <2>1. IsFiniteSet(events')
    BY <1>10, FS_AddElement DEF IInv, Rows
  <2>2. ASSUME NEW v \in events'
        PROVE  /\ verifications'[v].user \in Users
               /\ Exists(verifications[v].user) \/ v = r
               /\ verifications'[v].createdAt \in Nat
               /\ verifications'[v].createdAt <= clock'
               /\ verifications'[v].expiresAt = verifications'[v].createdAt + TokenLifetime
    <3>1. CASE v = r  BY <1>1, <1>5, <1>10, <3>1
    <3>2. CASE v # r
      <4>1. v \in events /\ v \in Verifications
        BY <1>10, <3>2 DEF IInv, TypeOK
      <4> QED BY <1>6, <1>10, <3>2, <4>1 DEF IInv, Rows
    <3> QED BY <3>1, <3>2
  <2>3. \A v \in events' : users'[verifications'[v].user].email # None
    <3> SUFFICES ASSUME NEW v \in events' PROVE users[verifications'[v].user].email # None
      BY <1>10
    <3>1. CASE v = r  BY <1>1, <1>5, <3>1 DEF Exists
    <3>2. CASE v # r
      <4>1. v \in events /\ v \in Verifications
        BY <1>10, <3>2 DEF IInv, TypeOK
      <4> QED BY <1>6, <3>2, <4>1 DEF IInv, Rows, Exists
    <3> QED BY <3>1, <3>2
  <2>4. \A v \in Verifications : v \notin events' => verifications'[v] = NoVerification
    <3> SUFFICES ASSUME NEW v \in Verifications, v \notin events'
                 PROVE  verifications'[v] = NoVerification
      OBVIOUS
    <3>1. v # r /\ v \notin events /\ verifications[v] = NoVerification
      BY <1>10 DEF IInv, Rows
    <3>2. v \notin Of(u)
      BY <1>7, <3>1
    <3> QED BY <1>6, <3>1, <3>2
  <2>5. \A x \in Users : ~Exists(x)' => users'[x] = NoUser
    BY <1>10 DEF IInv, Rows, Exists
  <2> QED BY <2>1, <2>2, <2>3, <2>4, <2>5 DEF Rows, Exists
<1>15. AtMostOneLive'
  <2> SUFFICES ASSUME NEW x \in Users, NEW v \in Of(x)', NEW w \in Of(x)',
                      verifications'[v].usedAt = None, verifications'[v].revokedAt = None,
                      verifications'[v].expiresAt > clock,
                      verifications'[w].usedAt = None, verifications'[w].revokedAt = None,
                      verifications'[w].expiresAt > clock
               PROVE  v = w
    BY <1>10 DEF AtMostOneLive
  <2>1. CASE x = u
    <3>1. ASSUME NEW y \in Of(u), verifications'[y].usedAt = None,
                 verifications'[y].revokedAt = None, verifications'[y].expiresAt > clock
          PROVE  FALSE
      <4>1. /\ verifications[y].usedAt = None
            /\ verifications[y].expiresAt > clock
            /\ verifications'[y].revokedAt =
                  IF IsRevoked(verifications[y], now) THEN now ELSE verifications[y].revokedAt
        BY <1>6, <1>7, <3>1
      <4>2. verifications[y].revokedAt = None /\ ~IsRevoked(verifications[y], now)
        BY <1>1, <3>1, <4>1
      <4>3. verifications[y].expiresAt > now
        BY <1>1, <1>7, <4>1
      <4> QED BY <4>1, <4>2, <4>3 DEF IsRevoked
    <3>2. v = r /\ w = r
      BY <1>8, <2>1, <3>1
    <3> QED BY <3>2
  <2>2. CASE x # u
    BY <1>9, <2>2 DEF IInv, Promises, AtMostOneLive
  <2> QED BY <2>1, <2>2
<1>16. VerifiedByOneToken'
  <2> SUFFICES ASSUME NEW x \in Users
               PROVE  LET used == {w \in Of(x)' : verifications'[w].usedAt # None} IN
                      IF users'[x].verifiedAt = None
                      THEN used = {}
                      ELSE \E w \in used : /\ used = {w}
                                           /\ verifications'[w].usedAt = users'[x].verifiedAt
                                           /\ verifications'[w].revokedAt = None
    BY DEF VerifiedByOneToken
  <2>1. CASE x = u
    <3>1. {w \in Of(u) : verifications[w].usedAt # None} = {}
      BY <1>1 DEF IInv, Promises, VerifiedByOneToken
    <3>2. \A w \in Of(x)' : verifications'[w].usedAt = None
      BY <1>5, <1>6, <1>7, <1>8, <2>1, <3>1
    <3> QED BY <1>1, <1>10, <2>1, <3>2
  <2>2. CASE x # u
    BY <1>9, <1>10, <2>2 DEF IInv, Promises, VerifiedByOneToken
  <2> QED BY <2>1, <2>2
<1>17. LifeIsOrdered'
  <2> SUFFICES ASSUME NEW x \in Users, NEW w \in Of(x)'
               PROVE  LET row == verifications'[w] IN
                      /\ row.usedAt # None =>
                            row.createdAt <= row.usedAt /\ row.usedAt < row.expiresAt
                      /\ row.revokedAt # None =>
                            row.createdAt < row.revokedAt /\ row.revokedAt < row.expiresAt
    BY DEF LifeIsOrdered
  <2>1. CASE w = r  BY <1>5, <2>1
  <2>2. CASE x = u /\ w # r
    <3>1. w \in Of(u)
      BY <1>8, <2>2
    <3>2. LET row == verifications[w] IN
          /\ row.usedAt # None => row.createdAt <= row.usedAt /\ row.usedAt < row.expiresAt
          /\ row.revokedAt # None =>
                row.createdAt < row.revokedAt /\ row.revokedAt < row.expiresAt
      BY <1>1, <3>1 DEF IInv, Promises, LifeIsOrdered
    <3>3. CASE IsRevoked(verifications[w], now)
      <4>1. verifications[w].usedAt = None /\ now < verifications[w].expiresAt
        BY <1>1, <1>7, <3>1, <3>3 DEF IsRevoked
      <4> QED BY <1>6, <1>7, <3>1, <3>3, <4>1
    <3>4. CASE ~IsRevoked(verifications[w], now)
      BY <1>6, <1>7, <3>1, <3>2, <3>4
    <3> QED BY <3>3, <3>4
  <2>3. CASE x # u
    BY <1>9, <2>3 DEF IInv, Promises, LifeIsOrdered
  <2> QED BY <2>1, <2>2, <2>3
<1>18. CooldownHolds'
  <2> SUFFICES ASSUME NEW x \in Users, NEW v \in Of(x)', NEW w \in Of(x)', v # w
               PROVE  LET t == verifications'[v].createdAt
                          s == verifications'[w].createdAt
                      IN (IF t < s THEN s - t ELSE t - s) >= ResendCooldown
    BY DEF CooldownHolds
  <2>1. CASE x = u
    <3>1. \A y \in Of(u) : verifications'[y].createdAt = verifications[y].createdAt
      BY <1>6, <1>7
    <3>2. CASE v \in Of(u) /\ w \in Of(u)
      BY <1>1, <2>1, <3>1, <3>2 DEF IInv, Promises, CooldownHolds
    <3>3. CASE v = r /\ w \in Of(u)
      BY <1>1, <1>5, <1>7, <3>1, <3>3
    <3>4. CASE v \in Of(u) /\ w = r
      BY <1>1, <1>5, <1>7, <3>1, <3>4
    <3> QED BY <1>8, <2>1, <3>2, <3>3, <3>4
  <2>2. CASE x # u
    BY <1>9, <2>2 DEF IInv, Promises, CooldownHolds
  <2> QED BY <2>1, <2>2
<1>19. HourlyLimit'
  <2> DEFINE Window(S, from) == {w \in S : /\ verifications[w].createdAt >= from
                                           /\ verifications[w].createdAt <= from + LimitWindow}
  <2> SUFFICES ASSUME NEW x \in Users, NEW v \in Of(x)'
               PROVE  LET from == verifications'[v].createdAt
                          window == {w \in Of(x)' :
                             /\ verifications'[w].createdAt >= from
                             /\ verifications'[w].createdAt <= from + LimitWindow}
                      IN Cardinality(window) <= ResendLimit
    BY DEF HourlyLimit
  <2>1. CASE x # u
    BY <1>9, <2>1 DEF IInv, Promises, HourlyLimit
  <2>2. CASE x = u
    <3> DEFINE from   == verifications'[v].createdAt
               window == {w \in Of(x)' : /\ verifications'[w].createdAt >= from
                                         /\ verifications'[w].createdAt <= from + LimitWindow}
    <3>1. Cardinality(window) <= ResendLimit
      <4>1. ResendLimit \in Nat /\ ResendLimit >= 1 /\ LimitWindow \in Nat
        BY VerificationAssumption
      <4>2. \A w \in Of(u) : /\ verifications'[w].createdAt = verifications[w].createdAt
                             /\ verifications[w].createdAt \in Nat
                             /\ verifications[w].createdAt < now
        BY <1>6, <1>7
      <4>3. IsFiniteSet(Of(u))
        BY <1>1, OfFinite DEF IInv
      <4>4. CASE v = r
        <5>1. from = now
          BY <1>5, <4>4
        <5>2. window \subseteq {r}
          BY <1>1, <1>8, <2>2, <4>2, <5>1
        <5>3. IsFiniteSet({r}) /\ Cardinality({r}) = 1
          BY FS_Singleton
        <5> HIDE DEF window
        <5>4. Cardinality(window) <= 1 /\ Cardinality(window) \in Nat
          BY <5>2, <5>3, FS_Subset, FS_CardinalityType
        <5> QED BY <4>1, <5>4
      <4>5. CASE v # r
        <5>1. v \in Of(u) /\ from = verifications[v].createdAt /\ from \in Nat
          BY <1>8, <2>2, <4>2, <4>5
        <5>2. Cardinality(Window(Of(u), from)) <= ResendLimit
          BY <1>1, <5>1 DEF IInv, Promises, HourlyLimit
        <5>3. CASE from + LimitWindow < now
          <6>1. window = Window(Of(u), from)
            BY <1>1, <1>5, <1>8, <2>2, <4>1, <4>2, <5>1, <5>3
          <6> QED BY <5>2, <6>1
        <5>4. CASE ~(from + LimitWindow < now)
          <6>1. Window(Of(u), from) \subseteq CreatedInWindow(u, now)
            BY <1>1, <4>1, <4>2, <5>1, <5>4 DEF CreatedInWindow
          <6>2. CreatedInWindow(u, now) \subseteq Of(u)
            BY DEF CreatedInWindow
          <6>3. /\ IsFiniteSet(CreatedInWindow(u, now))
                /\ Cardinality(CreatedInWindow(u, now)) \in Nat
            BY <4>3, <6>2, FS_Subset, FS_CardinalityType
          <6>4. Cardinality(CreatedInWindow(u, now)) < ResendLimit
            BY <1>1, <4>1, <6>3 DEF AtLimit
          <6>5. window \subseteq CreatedInWindow(u, now) \cup {r}
            BY <1>8, <2>2, <4>2, <5>1, <6>1
          <6> HIDE DEF window
          <6>6. /\ IsFiniteSet(CreatedInWindow(u, now) \cup {r})
                /\ Cardinality(CreatedInWindow(u, now) \cup {r}) <=
                      Cardinality(CreatedInWindow(u, now)) + 1
            <7>1. /\ IsFiniteSet(CreatedInWindow(u, now) \cup {r})
                  /\ Cardinality(CreatedInWindow(u, now) \cup {r}) =
                        IF r \in CreatedInWindow(u, now)
                        THEN Cardinality(CreatedInWindow(u, now))
                        ELSE Cardinality(CreatedInWindow(u, now)) + 1
              BY <6>3, FS_AddElement
            <7> QED BY <6>3, <7>1
          <6>7. /\ Cardinality(CreatedInWindow(u, now) \cup {r}) \in Nat
                /\ Cardinality(window) \in Nat
                /\ Cardinality(window) <= Cardinality(CreatedInWindow(u, now) \cup {r})
            BY <6>5, <6>6, FS_Subset, FS_CardinalityType
          <6> QED BY <4>1, <6>3, <6>4, <6>6, <6>7
        <5> QED BY <5>3, <5>4
      <4> QED BY <4>4, <4>5
    <3> QED BY <3>1
  <2> QED BY <2>1, <2>2
<1> QED BY <1>12, <1>13, <1>14, <1>15, <1>16, <1>17, <1>18, <1>19 DEF IInv, Promises

-----------------------------------------------------------------------------
(* The theorems.                                                           *)

LEMMA InitIInv == Init => IInv
<1> SUFFICES ASSUME Init PROVE IInv
  OBVIOUS
<1>1. TypeOK
  <2>1. Blank \in Locals /\ Blank.user = None
    BY DEF Blank, Locals, Time
  <2>2. TableType /\ ControlType /\ LockType
    BY <2>1 DEF Init, TableType, ControlType, LockType, NoUser, NoVerification, Time, Labels
  <2>3. LockOK
    BY <2>1, SetFacts DEF Init, LockOK, Holding
  <2> QED BY <2>2, <2>3, TypeParts
<1>2. \A r \in Requests : RequestOK(r)
  BY DEF Init, RequestOK, PathOK, PendingOK, MemoryOK, LocksOK, Exists, NoUser, Blank, Users
<1>3. Rows
  BY FS_EmptySet DEF Init, Rows
<1>4. \A u \in Users : Of(u) = {}
  BY SetFacts DEF Init, Of, NoVerification
<1>5. Promises
  BY <1>4 DEF Init, Promises, AtMostOneLive, VerifiedByOneToken, LifeIsOrdered, CooldownHolds,
     HourlyLimit, NoUser
<1> QED BY <1>1, <1>2, <1>3, <1>5 DEF IInv

LEMMA NextIInv == IInv /\ [Next]_vars => IInv'
<1> SUFFICES ASSUME IInv, [Next]_vars PROVE IInv'
  OBVIOUS
<1>1. CASE Arrive
  BY <1>1, StartRegisterKeeps, StartResendKeeps, StartConfirmKeeps, StartDeliveryKeeps
     DEF Arrive, ArriveAtServer
<1>2. ASSUME NEW r \in Requests, Step(r) PROVE IInv'
  BY <1>2, CreateUserKeeps, LookupTokenKeeps, LockUserKeeps, ConfirmKeeps, LockEmailKeeps,
     CheckLimitsKeeps, IssueKeeps, GetForDeliveryKeeps, SendVerificationKeeps DEF Step
<1>3. ASSUME NEW r \in Requests, Abort(r) PROVE IInv'
  BY <1>3, AbortKeeps
<1>4. CASE Tick
  BY <1>4, TickKeeps
<1>5. CASE UNCHANGED vars
  <2>1. TypeOK'
    BY <1>5 DEF IInv, TypeOK, vars, tables
  <2>2. ASSUME NEW q \in Requests PROVE RequestOK(q)'
    <3>1. Grows /\ Respects(q)
      BY <1>5 DEF Grows, Respects, Exists, Of, IInv, TypeOK, vars, tables
    <3> QED BY <1>5, <3>1, OtherRequestOK DEF IInv, vars
  <2>3. Rows'
    BY <1>5 DEF IInv, Rows, Exists, vars, tables
  <2>4. \A u \in Users : Of(u)' = Of(u)
    BY <1>5 DEF Of, vars, tables
  <2>5. Promises'
    BY <1>5, <2>4 DEF IInv, Promises, AtMostOneLive, VerifiedByOneToken, LifeIsOrdered,
       CooldownHolds, HourlyLimit, vars, tables
  <2> QED BY <2>1, <2>2, <2>3, <2>5 DEF IInv
<1> QED BY <1>1, <1>2, <1>3, <1>4, <1>5 DEF Next

\* Every reachable state satisfies the inductive invariant: what Register, ConfirmEmail and
\* ResendVerification leave in the tables, whatever the order of their statements.
THEOREM Invariance == Spec => []IInv
<1>1. Init => IInv
  BY InitIInv
<1>2. IInv /\ [Next]_vars => IInv'
  BY NextIInv
<1> QED BY <1>1, <1>2, PTL DEF Spec

\* The rows and the locals keep their types, and the lock of a user's row is held exactly
\* by the transaction between SELECT ... FOR UPDATE and its end.
THEOREM TypeCorrect == Spec => []TypeOK
<1>1. IInv => TypeOK
  BY DEF IInv
<1> QED BY <1>1, Invariance, PTL

\* A user never holds two links that both work.
THEOREM OneLiveLink == Spec => []AtMostOneLive
<1>1. IInv => AtMostOneLive
  BY DEF IInv, Promises
<1> QED BY <1>1, Invariance, PTL

\* An address is verified by exactly one token, used once and never revoked.
THEOREM OneTokenVerifies == Spec => []VerifiedByOneToken
<1>1. IInv => VerifiedByOneToken
  BY DEF IInv, Promises
<1> QED BY <1>1, Invariance, PTL

\* A verification is used and revoked within its life only.
THEOREM LivesInOrder == Spec => []LifeIsOrdered
<1>1. IInv => LifeIsOrdered
  BY DEF IInv, Promises
<1> QED BY <1>1, Invariance, PTL

\* Two verifications of a user are a cooldown apart.
THEOREM CooldownKept == Spec => []CooldownHolds
<1>1. IInv => CooldownHolds
  BY DEF IInv, Promises
<1> QED BY <1>1, Invariance, PTL

\* No hour holds more verifications of a user than the limit, although the count of
\* CheckLimits looks back from a time sampled before the lock: the cooldown makes that time
\* later than every verification there is.
THEOREM LimitKept == Spec => []HourlyLimit
<1>1. IInv => HourlyLimit
  BY DEF IInv, Promises
<1> QED BY <1>1, Invariance, PTL

LEMMA VerifiedIsFinal ==
    ASSUME IInv, [Next]_vars, NEW u \in Users, users[u].verifiedAt # None
    PROVE  /\ users'[u] = users[u]
           /\ {v \in Verifications : verifications'[v].user = u} = Of(u)
           /\ \A v \in Of(u) : verifications'[v] = verifications[v]
<1>1. ASSUME UNCHANGED <<users, verifications>>
      PROVE  /\ users'[u] = users[u]
             /\ {v \in Verifications : verifications'[v].user = u} = Of(u)
             /\ \A v \in Of(u) : verifications'[v] = verifications[v]
  BY <1>1 DEF Of
<1>2. ASSUME NEW r \in Requests, CreateUser(r), ~UNCHANGED <<users, verifications>>
      PROVE  /\ users'[u] = users[u]
             /\ {v \in Verifications : verifications'[v].user = u} = Of(u)
             /\ \A v \in Of(u) : verifications'[v] = verifications[v]
  <2>1. /\ r \in Users /\ r \in Verifications /\ r \notin events /\ ~Exists(r)
        /\ users[r] = NoUser /\ verifications[r] = NoVerification
    BY <1>2, SetFacts DEF CreateUser, IInv, RequestOK, PathOK, PendingOK, Rows
  <2>2. /\ users' = [users EXCEPT ![r] = [email |-> local[r].email, verifiedAt |-> None]]
        /\ verifications' = [verifications EXCEPT ![r] = NewVerification(r, local[r].now)]
    BY <1>2 DEF CreateUser, tables
  <2>3. u # r
    BY <2>1 DEF NoUser
  <2>4. users'[u] = users[u]
    BY <2>2, <2>3 DEF IInv, TypeOK
  <2>5. \A v \in Verifications : v # r => verifications'[v] = verifications[v]
    BY <2>2 DEF IInv, TypeOK
  <2>6. verifications[r].user # u /\ verifications'[r].user # u
    BY <2>1, <2>2, <2>3, SetFacts DEF IInv, TypeOK, NoVerification, NewVerification
  <2> QED BY <2>4, <2>5, <2>6 DEF Of
<1>3. ASSUME NEW r \in Requests, Confirm(r), ~UNCHANGED <<users, verifications>>
      PROVE  /\ users'[u] = users[u]
             /\ {v \in Verifications : verifications'[v].user = u} = Of(u)
             /\ \A v \in Of(u) : verifications'[v] = verifications[v]
  <2>1. /\ local[r].token \in Verifications /\ local[r].user \in Users
        /\ verifications[local[r].token].user = local[r].user
        /\ local[r].verifiedAt = users[local[r].user].verifiedAt
    BY <1>3 DEF Confirm, IInv, RequestOK, MemoryOK, LocksOK, Rows, TypeOK
  <2>2. /\ verifications' = [verifications EXCEPT ![local[r].token].usedAt = local[r].now]
        /\ users' = [users EXCEPT ![local[r].user].verifiedAt = local[r].now]
        /\ RefusalOf(verifications[local[r].token], local[r].now, local[r].verifiedAt) = None
    BY <1>3 DEF Confirm, tables
  <2>3. local[r].verifiedAt = None
    <3>1. "alreadyVerified" # None /\ "used" # None /\ "revoked" # None /\ "expired" # None
      BY VerificationAssumption DEF Answers
    <3> QED BY <2>2, <3>1 DEF RefusalOf
  <2>4. u # local[r].user
    BY <2>1, <2>3
  <2>5. users'[u] = users[u]
    BY <2>1, <2>2, <2>4 DEF IInv, TypeOK
  <2>6. \A v \in Verifications :
           /\ verifications'[v].user = verifications[v].user
           /\ v # local[r].token => verifications'[v] = verifications[v]
    BY <2>1, <2>2 DEF IInv, TypeOK
  <2> QED BY <2>1, <2>4, <2>5, <2>6 DEF Of
<1>4. ASSUME NEW r \in Requests, Issue(r)
      PROVE  /\ users'[u] = users[u]
             /\ {v \in Verifications : verifications'[v].user = u} = Of(u)
             /\ \A v \in Of(u) : verifications'[v] = verifications[v]
  <2> DEFINE owner == local[r].user
  <2>1. /\ owner \in Users /\ users[owner].verifiedAt = None
        /\ r \in Verifications /\ verifications[r] = NoVerification
    BY <1>4, SetFacts DEF Issue, IInv, RequestOK, PathOK, PendingOK, LocksOK, Rows, Verifications
  <2>2. u # owner
    BY <2>1
  <2>3. users'[u] = users[u]
    BY <1>4 DEF Issue
  <2>4. ASSUME NEW v \in Verifications
        PROVE  /\ verifications'[v].user = u <=> verifications[v].user = u
               /\ verifications[v].user = u => verifications'[v] = verifications[v]
    <3>1. verifications'[v] =
             IF v = r THEN NewVerification(owner, local[r].now)
             ELSE IF v \in Of(owner) /\ IsRevoked(verifications[v], local[r].now)
                  THEN [verifications[v] EXCEPT !.revokedAt = local[r].now]
                  ELSE verifications[v]
      BY <1>4 DEF Issue
    <3>2. CASE v = r
      BY <2>1, <2>2, <3>1, <3>2, SetFacts DEF NewVerification, NoVerification
    <3>3. CASE v # r /\ v \in Of(owner)
      <4>1. verifications[v].user = owner
        BY <3>3 DEF Of
      <4>2. verifications[v] \in [user : Users \cup {None}, createdAt : Time,
                                  expiresAt : Time, usedAt : Time, revokedAt : Time]
        BY DEF IInv, TypeOK
      <4>3. verifications'[v].user = verifications[v].user
        BY <3>1, <3>3, <4>2
      <4> QED BY <2>2, <4>1, <4>3
    <3>4. CASE v # r /\ v \notin Of(owner)
      BY <3>1, <3>4
    <3> QED BY <3>2, <3>3, <3>4
  <2> QED BY <2>3, <2>4 DEF Of
<1>5. CASE Arrive
  BY <1>1, <1>5 DEF Arrive, ArriveAtServer, StartRegister, StartResend, StartConfirm,
     StartDelivery, tables
<1>6. ASSUME NEW r \in Requests, Step(r), ~CreateUser(r), ~Confirm(r), ~Issue(r)
      PROVE  UNCHANGED <<users, verifications>>
  BY <1>6 DEF Step, LookupToken, LockUser, LockEmail, CheckLimits, GetForDelivery,
     SendVerification, tables
<1>7. CASE Tick \/ (\E r \in Requests : Abort(r)) \/ UNCHANGED vars
  BY <1>1, <1>7 DEF Tick, Abort, vars, tables
<1> QED BY <1>1, <1>2, <1>3, <1>4, <1>5, <1>6, <1>7 DEF Next

\* No verification is created for a user whose address is verified already, and no
\* verification of such a user changes any more.
NothingAfterVerified ==
    [][\A u \in Users : users[u].verifiedAt # None =>
          /\ users'[u] = users[u]
          /\ {v \in Verifications : verifications'[v].user = u} = Of(u)
          /\ \A v \in Of(u) : verifications'[v] = verifications[v]]_vars

\* Once the address of a user is verified nothing happens to its verifications any more:
\* none is added, used or revoked.
THEOREM NothingFollowsVerification == Spec => NothingAfterVerified
<1>1. IInv /\ [Next]_vars =>
         [\A u \in Users : users[u].verifiedAt # None =>
             /\ users'[u] = users[u]
             /\ {v \in Verifications : verifications'[v].user = u} = Of(u)
             /\ \A v \in Of(u) : verifications'[v] = verifications[v]]_vars
  BY VerifiedIsFinal
<1> QED BY <1>1, Invariance, PTL DEF Spec, NothingAfterVerified

-----------------------------------------------------------------------------
(* The links of VerificationLinks.                                         *)

\* A confirmation that is under way has a token of which the user has had the mail, and
\* requests carry times at which the clock has been.
Presented ==
    /\ clock <= MaxTime
    /\ \A r \in Requests : pc[r] \in {"lookupToken", "lockUser", "confirm"} =>
          local[r].token \in mailed \cup {Unknown}

\* A verification was revoked at the time of a later one of its user.
EndedByIssue ==
    \A v \in events : verifications[v].revokedAt # None =>
        \E w \in events : /\ verifications[w].user = verifications[v].user
                          /\ verifications[w].createdAt = verifications[v].revokedAt

LInv == IInv /\ Presented /\ EndedByIssue

LEMMA OthersPresented ==
    ASSUME TypeOK, Presented, NEW r \in Requests, mailed \subseteq mailed', clock' = clock,
           Frame(r), pc'[r] \in {"lookupToken", "lockUser", "confirm"} =>
                        local'[r].token \in mailed' \cup {Unknown}
    PROVE  Presented'
  BY DEF Presented, Frame

LEMMA NextPresented == IInv /\ Presented /\ [Next]_vars => Presented'
<1> SUFFICES ASSUME IInv, Presented, [Next]_vars PROVE Presented'
  OBVIOUS
<1> USE DEF IInv
<1>1. ASSUME NEW r \in Requests, NEW answer \in Answers, Return(r, answer),
             mailed \subseteq mailed', clock' = clock
      PROVE  Presented'
  BY <1>1, Returns, OthersPresented
<1>2. ASSUME NEW r \in Requests, NEW label \in Labels, Goto(r, label), mailed' = mailed,
             clock' = clock, \A q \in Requests : q # r => local'[q] = local[q],
             label \in {"lookupToken", "lockUser", "confirm"} =>
                 local'[r].token \in mailed \cup {Unknown}
      PROVE  Presented'
  <2>1. Frame(r) /\ pc'[r] = label
    BY <1>2 DEF Frame, Goto, TypeOK
  <2> QED BY <1>2, <2>1, OthersPresented
<1>3. CASE Arrive
  <2>1. ASSUME NEW r \in Registrations, NEW e \in Emails, StartRegister(r, e) PROVE Presented'
    <3>1. \A q \in Requests : q # r => local'[q] = local[q]
      BY <2>1, SetFacts DEF StartRegister, TypeOK
    <3> QED BY <1>2, <2>1, <3>1, SetFacts DEF StartRegister, Labels
  <2>2. ASSUME NEW r \in Resends, NEW e \in Emails, StartResend(r, e) PROVE Presented'
    <3>1. \A q \in Requests : q # r => local'[q] = local[q]
      BY <2>2, SetFacts DEF StartResend, TypeOK
    <3> QED BY <1>2, <2>2, <3>1, SetFacts DEF StartResend, Labels
  <2>3. ASSUME NEW r \in Confirmations, NEW v \in mailed \cup {Unknown}, StartConfirm(r, v)
        PROVE  Presented'
    <3>1. (\A q \in Requests : q # r => local'[q] = local[q]) /\ local'[r].token = v
      BY <2>3, SetFacts DEF StartConfirm, TypeOK
    <3> QED BY <1>2, <2>3, <3>1, SetFacts DEF StartConfirm, Labels
  <2>4. ASSUME NEW r \in Deliveries, NEW v \in events, StartDelivery(r, v) PROVE Presented'
    <3>1. \A q \in Requests : q # r => local'[q] = local[q]
      BY <2>4, SetFacts DEF StartDelivery, TypeOK
    <3> QED BY <1>2, <2>4, <3>1, SetFacts DEF StartDelivery, Labels
  <2> QED BY <1>3, <2>1, <2>2, <2>3, <2>4 DEF Arrive, ArriveAtServer
<1>4. ASSUME NEW r \in Requests, Step(r) PROVE Presented'
  <2>1. CASE CreateUser(r)
    BY <1>1, <2>1, AnswerTypes DEF CreateUser
  <2>2. CASE LookupToken(r)
    <3>1. CASE local[r].token = Unknown
      BY <1>1, <2>2, <3>1, AnswerTypes DEF LookupToken
    <3>2. CASE local[r].token # Unknown
      <4>1. (\A q \in Requests : q # r => local'[q] = local[q]) /\ local'[r].token = local[r].token
        BY <2>2, <3>2 DEF LookupToken, TypeOK
      <4>2. local[r].token \in mailed \cup {Unknown}
        BY <2>2 DEF LookupToken, Presented
      <4> QED BY <1>2, <2>2, <3>2, <4>1, <4>2 DEF LookupToken, Labels
    <3> QED BY <3>1, <3>2
  <2>3. CASE LockUser(r)
    <3>1. (\A q \in Requests : q # r => local'[q] = local[q]) /\ local'[r].token = local[r].token
      BY <2>3 DEF LockUser, TypeOK
    <3>2. local[r].token \in mailed \cup {Unknown}
      BY <2>3 DEF LockUser, Presented
    <3> QED BY <1>2, <2>3, <3>1, <3>2 DEF LockUser, Labels
  <2>4. CASE Confirm(r)
    <3> DEFINE refusal == RefusalOf(verifications[local[r].token], local[r].now, local[r].verifiedAt)
    <3>1. refusal # None => refusal \in Answers
      BY AnswerTypes DEF RefusalOf
    <3>2. \/ refusal # None /\ Return(r, refusal)
          \/ Return(r, "ok")
      BY <2>4 DEF Confirm
    <3>3. UNCHANGED <<clock, mailed>>
      BY <2>4 DEF Confirm
    <3> HIDE DEF refusal
    <3> QED BY <1>1, <3>1, <3>2, <3>3, AnswerTypes
  <2>5. CASE LockEmail(r)
    <3>1. CASE \E answer \in Answers : Return(r, answer)
      BY <1>1, <2>5, <3>1 DEF LockEmail
    <3>2. CASE ~(\E answer \in Answers : Return(r, answer))
      <4>1. PICK u \in Users : local' = [local EXCEPT ![r].user = u] /\ Goto(r, "checkLimits")
        BY <2>5, <3>2, AnswerTypes DEF LockEmail
      <4>2. \A q \in Requests : q # r => local'[q] = local[q]
        BY <4>1 DEF TypeOK
      <4> QED BY <1>2, <2>5, <4>1, <4>2 DEF LockEmail, Labels
    <3> QED BY <3>1, <3>2
  <2>6. CASE CheckLimits(r)
    <3>1. CASE Return(r, "limited")
      BY <1>1, <2>6, <3>1, AnswerTypes DEF CheckLimits
    <3>2. CASE Goto(r, "issue") /\ UNCHANGED local
      <4>1. \A q \in Requests : q # r => local'[q] = local[q]
        BY <3>2 DEF TypeOK
      <4> QED BY <1>2, <2>6, <3>2, <4>1 DEF CheckLimits, Labels
    <3> QED BY <2>6, <3>1, <3>2 DEF CheckLimits
  <2>7. CASE Issue(r)
    BY <1>1, <2>7, AnswerTypes DEF Issue
  <2>8. CASE GetForDelivery(r)
    <3>1. CASE Return(r, "ok")
      BY <1>1, <2>8, <3>1, AnswerTypes DEF GetForDelivery
    <3>2. CASE Goto(r, "send") /\ local' = [local EXCEPT ![r].expiresAt = verifications[local[r].token].expiresAt]
      <4>1. \A q \in Requests : q # r => local'[q] = local[q]
        BY <3>2 DEF TypeOK
      <4> QED BY <1>2, <2>8, <3>2, <4>1 DEF GetForDelivery, Labels
    <3> QED BY <2>8, <3>1, <3>2 DEF GetForDelivery
  <2>9. CASE SendVerification(r)
    BY <1>1, <2>9, AnswerTypes DEF SendVerification
  <2> QED BY <1>4, <2>1, <2>2, <2>3, <2>4, <2>5, <2>6, <2>7, <2>8, <2>9 DEF Step
<1>5. ASSUME NEW r \in Requests, Abort(r) PROVE Presented'
  BY <1>1, <1>5, AnswerTypes DEF Abort
<1>6. CASE Tick
  <2>1. clock' <= MaxTime
    BY <1>6, VerificationAssumption DEF Tick, TypeOK
  <2> QED BY <1>6, <2>1 DEF Tick, Presented
<1>7. CASE UNCHANGED vars
  BY <1>7 DEF vars, Presented
<1> QED BY <1>3, <1>4, <1>5, <1>6, <1>7 DEF Next

\* What the steps that write verifications do to the rows: a new row appears, a row is
\* used, or a new row appears and the live ones of its user are revoked.
LEMMA RowsOfCreateUser ==
    ASSUME IInv, NEW r \in Requests, CreateUser(r), ~UNCHANGED tables
    PROVE  /\ r \in Users /\ r \in Verifications /\ r \notin events
           /\ users[r] = NoUser /\ verifications[r] = NoVerification
           /\ \A v \in Verifications : verifications[v].user # r
           /\ users' = [users EXCEPT ![r] = [email |-> local[r].email, verifiedAt |-> None]]
           /\ verifications' = [verifications EXCEPT ![r] = NewVerification(r, local[r].now)]
           /\ events' = events \cup {r}
<1>1. /\ r \in Users /\ r \in Verifications /\ r \notin events /\ ~Exists(r)
      /\ users[r] = NoUser /\ verifications[r] = NoVerification
  BY SetFacts DEF CreateUser, IInv, RequestOK, PathOK, PendingOK, Rows
<1>2. ASSUME NEW v \in Verifications PROVE verifications[v].user # r
  <2>1. CASE v \in events
    BY <1>1, <2>1 DEF IInv, Rows
  <2>2. CASE v \notin events
    BY <1>1, <2>2, SetFacts DEF IInv, Rows, NoVerification
  <2> QED BY <2>1, <2>2
<1> QED BY <1>1, <1>2 DEF CreateUser, tables

LEMMA RowsOfConfirm ==
    ASSUME IInv, NEW r \in Requests, Confirm(r), ~UNCHANGED tables
    PROVE  /\ local[r].token \in events /\ local[r].user \in Users
           /\ verifications[local[r].token].user = local[r].user
           /\ users[local[r].user].verifiedAt = None
           /\ verifications[local[r].token].createdAt <= local[r].now
           /\ verifications[local[r].token].revokedAt = None
           /\ local[r].now < verifications[local[r].token].expiresAt
           /\ users' = [users EXCEPT ![local[r].user].verifiedAt = local[r].now]
           /\ verifications' = [verifications EXCEPT ![local[r].token].usedAt = local[r].now]
           /\ events' = events
<1>1. /\ local[r].token \in events /\ local[r].user \in Users
      /\ verifications[local[r].token].user = local[r].user
      /\ local[r].verifiedAt = users[local[r].user].verifiedAt
      /\ verifications[local[r].token].createdAt <= local[r].now
  BY SetFacts DEF Confirm, IInv, RequestOK, MemoryOK, LocksOK, Rows, TypeOK
<1>2. /\ verifications' = [verifications EXCEPT ![local[r].token].usedAt = local[r].now]
      /\ users' = [users EXCEPT ![local[r].user].verifiedAt = local[r].now]
      /\ RefusalOf(verifications[local[r].token], local[r].now, local[r].verifiedAt) = None
      /\ events' = events
  BY DEF Confirm, tables
<1>3. /\ local[r].verifiedAt = None
      /\ ~Revoked(verifications[local[r].token])
      /\ ~Expired(verifications[local[r].token], local[r].now)
  <2>1. "alreadyVerified" # None /\ "used" # None /\ "revoked" # None /\ "expired" # None
    BY VerificationAssumption DEF Answers
  <2> QED BY <1>2, <2>1 DEF RefusalOf
<1>4. /\ verifications[local[r].token].expiresAt \in Nat /\ local[r].now \in Nat
  BY <1>1, VerificationAssumption DEF IInv, Rows, TypeOK
<1> QED BY <1>1, <1>2, <1>3, <1>4 DEF Revoked, Expired

LEMMA RowsOfIssue ==
    ASSUME IInv, NEW r \in Requests, Issue(r)
    PROVE  /\ r \in Verifications /\ r \notin events /\ verifications[r] = NoVerification
           /\ local[r].user \in Users /\ users[local[r].user].verifiedAt = None
           /\ \A v \in Of(local[r].user) :
                 v \in events /\ verifications[v].createdAt + ResendCooldown <= local[r].now
           /\ Cardinality(CreatedInWindow(local[r].user, local[r].now)) < ResendLimit
           /\ verifications'[r] = NewVerification(local[r].user, local[r].now)
           /\ \A v \in Verifications \ {r} :
                 verifications'[v] =
                    IF v \in Of(local[r].user) /\ IsRevoked(verifications[v], local[r].now)
                    THEN [verifications[v] EXCEPT !.revokedAt = local[r].now]
                    ELSE verifications[v]
           /\ users' = users /\ events' = events \cup {r}
<1> DEFINE u   == local[r].user
           now == local[r].now
<1>1. /\ r \in Verifications /\ r \notin events /\ verifications[r] = NoVerification
      /\ u \in Users /\ users[u].verifiedAt = None /\ now \in Nat
      /\ ~AtLimit(u, now) /\ ~TooSoon(u, now)
  BY SetFacts DEF Issue, IInv, RequestOK, PathOK, PendingOK, LocksOK, Rows, Verifications, TypeOK
<1>2. ASSUME NEW v \in Of(u)
      PROVE  v \in events /\ verifications[v].createdAt + ResendCooldown <= now
  <2>1. v \in events
    BY <1>1, <1>2, SetFacts DEF IInv, Rows, Of, NoVerification
  <2>2. verifications[v].createdAt \in Nat /\ ~(now - verifications[v].createdAt < ResendCooldown)
    BY <1>1, <2>1 DEF TooSoon, IInv, Rows
  <2> QED BY <1>1, <2>1, <2>2, VerificationAssumption
<1>3. Cardinality(CreatedInWindow(u, now)) < ResendLimit
  <2>1. IsFiniteSet(CreatedInWindow(u, now))
    <3>1. CreatedInWindow(u, now) \subseteq events
      BY <1>2 DEF CreatedInWindow
    <3> QED BY <3>1, FS_Subset DEF IInv, Rows
  <2>2. Cardinality(CreatedInWindow(u, now)) \in Nat
    BY <2>1, FS_CardinalityType
  <2> QED BY <1>1, <2>2, VerificationAssumption DEF AtLimit
<1> QED BY <1>1, <1>2, <1>3 DEF Issue

\* Only these three steps, and the mail, can be seen.
LEMMA Unseen ==
    ASSUME IInv, [Next]_vars,
           \A r \in Requests : /\ ~(CreateUser(r) /\ ~UNCHANGED tables)
                               /\ ~(Confirm(r) /\ ~UNCHANGED tables)
                               /\ ~Issue(r)
    PROVE  UNCHANGED tables
<1>1. CASE Arrive
  BY <1>1 DEF Arrive, ArriveAtServer, StartRegister, StartResend, StartConfirm, StartDelivery
<1>2. CASE \E r \in Requests : Step(r)
  BY <1>2 DEF Step, LookupToken, LockUser, LockEmail, CheckLimits, GetForDelivery,
     SendVerification
<1>3. CASE Tick \/ (\E r \in Requests : Abort(r)) \/ UNCHANGED vars
  BY <1>3 DEF Tick, Abort, vars, tables
<1> QED BY <1>1, <1>2, <1>3 DEF Next

LEMMA NextEndedByIssue == IInv /\ EndedByIssue /\ [Next]_vars => EndedByIssue'
<1> SUFFICES ASSUME IInv, EndedByIssue, [Next]_vars PROVE EndedByIssue'
  OBVIOUS
<1> DEFINE Row == [user : Users \cup {None}, createdAt : Time, expiresAt : Time,
                   usedAt : Time, revokedAt : Time]
<1>t. verifications \in [Verifications -> Row] /\ events \subseteq Verifications
  BY DEF IInv, TypeOK
<1>1. CASE UNCHANGED tables
  BY <1>1 DEF EndedByIssue, tables
<1>2. ASSUME NEW r \in Requests, CreateUser(r), ~UNCHANGED tables PROVE EndedByIssue'
  <2>1. /\ r \in Verifications /\ r \notin events /\ events' = events \cup {r}
        /\ verifications' = [verifications EXCEPT ![r] = NewVerification(r, local[r].now)]
    BY <1>2, RowsOfCreateUser
  <2>2. verifications'[r].revokedAt = None
    BY <1>t, <2>1 DEF NewVerification
  <2>3. \A v \in events : verifications'[v] = verifications[v]
    BY <1>t, <2>1
  <2> QED BY <2>1, <2>2, <2>3 DEF EndedByIssue
<1>3. ASSUME NEW r \in Requests, Confirm(r), ~UNCHANGED tables PROVE EndedByIssue'
  <2>1. /\ events' = events /\ local[r].token \in events
        /\ verifications' = [verifications EXCEPT ![local[r].token].usedAt = local[r].now]
    BY <1>3, RowsOfConfirm
  <2>2. \A v \in events : /\ verifications'[v].user = verifications[v].user
                          /\ verifications'[v].createdAt = verifications[v].createdAt
                          /\ verifications'[v].revokedAt = verifications[v].revokedAt
    BY <1>t, <2>1
  <2> QED BY <2>1, <2>2 DEF EndedByIssue
<1>4. ASSUME NEW r \in Requests, Issue(r) PROVE EndedByIssue'
  <2> DEFINE u   == local[r].user
             now == local[r].now
  <2>1. /\ r \in Verifications /\ r \notin events /\ events' = events \cup {r}
        /\ verifications'[r] = NewVerification(u, now)
        /\ \A v \in Verifications \ {r} :
              verifications'[v] =
                 IF v \in Of(u) /\ IsRevoked(verifications[v], now)
                 THEN [verifications[v] EXCEPT !.revokedAt = now]
                 ELSE verifications[v]
    BY <1>4, RowsOfIssue
  <2>2. /\ verifications'[r].user = u /\ verifications'[r].createdAt = now
        /\ verifications'[r].revokedAt = None
    BY <2>1 DEF NewVerification
  <2>3. ASSUME NEW v \in events
        PROVE  /\ verifications'[v].user = verifications[v].user
               /\ verifications'[v].createdAt = verifications[v].createdAt
               /\ \/ verifications'[v].revokedAt = verifications[v].revokedAt
                  \/ verifications[v].user = u /\ verifications'[v].revokedAt = now
    <3>1. verifications[v] \in Row /\ v \in Verifications \ {r}
      BY <1>t, <2>1
    <3>2. CASE v \in Of(u) /\ IsRevoked(verifications[v], now)
      <4>1. verifications'[v] = [verifications[v] EXCEPT !.revokedAt = now]
        BY <2>1, <3>1, <3>2
      <4>2. verifications[v].user = u
        BY <3>2 DEF Of
      <4> QED BY <3>1, <4>1, <4>2
    <3>3. CASE ~(v \in Of(u) /\ IsRevoked(verifications[v], now))
      BY <2>1, <3>1, <3>3
    <3> QED BY <3>2, <3>3
  <2> HIDE DEF u, now
  <2>4. ASSUME NEW v \in events', verifications'[v].revokedAt # None
        PROVE  \E w \in events' : /\ verifications'[w].user = verifications'[v].user
                                  /\ verifications'[w].createdAt = verifications'[v].revokedAt
    <3>1. v \in events
      BY <2>1, <2>2, <2>4
    <3>2. CASE verifications'[v].revokedAt = verifications[v].revokedAt
      <4>1. PICK w \in events : /\ verifications[w].user = verifications[v].user
                                /\ verifications[w].createdAt = verifications[v].revokedAt
        BY <2>4, <3>1, <3>2 DEF EndedByIssue
      <4> QED BY <2>1, <2>3, <3>1, <3>2, <4>1
    <3>3. CASE verifications[v].user = u /\ verifications'[v].revokedAt = now
      BY <2>1, <2>2, <2>3, <3>1, <3>3
    <3> QED BY <2>3, <3>1, <3>2, <3>3
  <2> QED BY <2>4 DEF EndedByIssue
<1> QED BY <1>1, <1>2, <1>3, <1>4, Unseen

LEMMA LinksInvariance == Spec => []LInv
<1>1. Init => Presented /\ EndedByIssue
  BY VerificationAssumption DEF Init, Presented, EndedByIssue
<1>2. IInv /\ (Presented /\ EndedByIssue) /\ [Next]_vars => (Presented /\ EndedByIssue)'
  BY NextPresented, NextEndedByIssue
<1>3. Spec => [](Presented /\ EndedByIssue)
  BY <1>1, <1>2, Invariance, PTL DEF Spec
<1> QED BY <1>3, Invariance, PTL DEF LInv

\* The variables of VerificationLinks, as functions of the tables.
OwnerOf    == [v \in Verifications |-> verifications[v].user]
FromOf     == [v \in Verifications |-> verifications[v].createdAt]
UntilOf    == [v \in Verifications |-> Until(v)]
VerifiedOf == [u \in Users |-> users[u].verifiedAt]

LEMMA LinkTimes ==
    ASSUME LInv
    PROVE  /\ \A v \in events :
                 /\ verifications[v].createdAt \in Nat
                 /\ Until(v) \in Nat
                 /\ verifications[v].expiresAt = verifications[v].createdAt + TokenLifetime
                 /\ verifications[v].expiresAt \in Nat
                 /\ verifications[v].revokedAt = None => Until(v) = verifications[v].expiresAt
           /\ \A r \in Requests : local[r].now \in 0..MaxTime
           /\ TokenLifetime \in Nat /\ ResendCooldown \in Nat \ {0} /\ LimitWindow \in Nat
           /\ ResendLimit \in Nat \ {0} /\ MaxTime \in Nat
<1>1. TokenLifetime \in Nat /\ ResendCooldown \in Nat \ {0} /\ LimitWindow \in Nat
      /\ ResendLimit \in Nat \ {0} /\ MaxTime \in Nat
  BY VerificationAssumption
<1>2. ASSUME NEW v \in events
      PROVE  /\ verifications[v].createdAt \in Nat
             /\ Until(v) \in Nat
             /\ verifications[v].expiresAt = verifications[v].createdAt + TokenLifetime
             /\ verifications[v].expiresAt \in Nat
             /\ verifications[v].revokedAt = None => Until(v) = verifications[v].expiresAt
  <2>1. /\ verifications[v].createdAt \in Nat
        /\ verifications[v].expiresAt = verifications[v].createdAt + TokenLifetime
    BY DEF LInv, IInv, Rows
  <2>2. verifications[v].revokedAt \in Time
    BY DEF LInv, IInv, TypeOK
  <2> QED BY <1>1, <2>1, <2>2 DEF Until, Time
<1>3. ASSUME NEW r \in Requests PROVE local[r].now \in 0..MaxTime
  BY <1>1 DEF LInv, IInv, TypeOK, RequestOK, MemoryOK, Presented
<1> QED BY <1>1, <1>2, <1>3

LEMMA SameCardinality == \A S : Abstract!Cardinality(S) = Cardinality(S)
  BY Zenon DEF Abstract!Cardinality, Cardinality

LEMMA CreateUserIssues ==
    ASSUME LInv, NEW r \in Requests, CreateUser(r), ~UNCHANGED tables
    PROVE  Abstract!Issue(r, r)
<1> DEFINE now == local[r].now
<1>1. /\ r \in Users /\ r \in Verifications
      /\ users[r] = NoUser /\ verifications[r] = NoVerification
      /\ \A v \in Verifications : verifications[v].user # r
      /\ users' = [users EXCEPT ![r] = [email |-> local[r].email, verifiedAt |-> None]]
      /\ verifications' = [verifications EXCEPT ![r] = NewVerification(r, now)]
  BY RowsOfCreateUser DEF LInv
<1>2. now \in 0..MaxTime /\ ResendLimit \in Nat \ {0}
  BY LinkTimes
<1>3. OwnerOf[r] = None /\ VerifiedOf[r] = None
  BY <1>1 DEF OwnerOf, VerifiedOf, NoUser, NoVerification
<1>4. {k \in Verifications : OwnerOf[k] = r} = {}
  BY <1>1 DEF OwnerOf
<1>5. verifications'[r] = NewVerification(r, now)
      /\ \A v \in Verifications \ {r} : verifications'[v] = verifications[v]
  BY <1>1 DEF LInv, IInv, TypeOK
<1>6. OwnerOf' = [OwnerOf EXCEPT ![r] = r] /\ FromOf' = [FromOf EXCEPT ![r] = now]
  <2>1. verifications'[r].user = r /\ verifications'[r].createdAt = now
    BY <1>5 DEF NewVerification
  <2>2. r \in Verifications
    BY <1>1
  <2> HIDE DEF now
  <2> QED BY <1>5, <2>1, <2>2 DEF OwnerOf, FromOf
<1>7. UntilOf' = [k \in Verifications |->
                     IF k = r THEN now + TokenLifetime
                     ELSE IF k \in {} /\ UntilOf[k] > now THEN now ELSE UntilOf[k]]
  BY <1>1, <1>5 DEF UntilOf, Until, NewVerification
<1>8. VerifiedOf' = VerifiedOf
  BY <1>1 DEF VerifiedOf, NoUser, LInv, IInv, TypeOK
<1>9. mailed' = mailed
  BY DEF CreateUser
<1>10. Cardinality({k \in {} : FromOf[k] + LimitWindow >= now}) < ResendLimit
  <2>1. {k \in {} : FromOf[k] + LimitWindow >= now} = {}
    OBVIOUS
  <2> QED BY <1>2, <2>1, FS_EmptySet
<1> HIDE DEF now
<1> QED BY <1>2, <1>3, <1>4, <1>6, <1>7, <1>8, <1>9, <1>10, SameCardinality
        DEF Abstract!Issue, Abstract!LinksOf, OwnerOf, FromOf, UntilOf, VerifiedOf

LEMMA ConfirmVerifies ==
    ASSUME LInv, NEW r \in Requests, Confirm(r), ~UNCHANGED tables,
           NEW u, u = local[r].user, NEW v, v = local[r].token
    PROVE  Abstract!Verify(u, v)
<1> DEFINE now == local[r].now
<1>1. /\ v \in events /\ u \in Users
      /\ verifications[v].user = u
      /\ users[u].verifiedAt = None
      /\ verifications[v].createdAt <= now
      /\ verifications[v].revokedAt = None
      /\ now < verifications[v].expiresAt
      /\ users' = [users EXCEPT ![u].verifiedAt = now]
      /\ verifications' = [verifications EXCEPT ![v].usedAt = now]
  BY RowsOfConfirm DEF LInv
<1>2. v \in Verifications /\ now \in 0..MaxTime
      /\ verifications[v].expiresAt = verifications[v].createdAt + TokenLifetime
      /\ Until(v) = verifications[v].expiresAt
  BY <1>1, LinkTimes DEF LInv, IInv, TypeOK
<1>3. v \in mailed /\ mailed' = mailed
  BY <1>2, SetFacts DEF Confirm, LInv, Presented
<1>4. /\ VerifiedOf[u] = None /\ OwnerOf[v] = u
      /\ FromOf[v] = verifications[v].createdAt /\ UntilOf[v] = verifications[v].expiresAt
  BY <1>1, <1>2 DEF VerifiedOf, OwnerOf, FromOf, UntilOf
<1>5. \A w \in Verifications :
         /\ verifications'[w].user = verifications[w].user
         /\ verifications'[w].createdAt = verifications[w].createdAt
         /\ verifications'[w].expiresAt = verifications[w].expiresAt
         /\ verifications'[w].revokedAt = verifications[w].revokedAt
  BY <1>1, <1>2 DEF LInv, IInv, TypeOK
<1>6. OwnerOf' = OwnerOf /\ FromOf' = FromOf /\ UntilOf' = UntilOf
  BY <1>5 DEF OwnerOf, FromOf, UntilOf, Until
<1>7. VerifiedOf' = [VerifiedOf EXCEPT ![u] = now]
  <2>1. \A w \in Users : users'[w].verifiedAt = IF w = u THEN now ELSE users[w].verifiedAt
    BY <1>1 DEF LInv, IInv, TypeOK
  <2> HIDE DEF now
  <2> QED BY <1>1, <2>1 DEF VerifiedOf
<1> HIDE DEF now
<1> QED BY <1>1, <1>2, <1>3, <1>4, <1>6, <1>7
        DEF Abstract!Verify, Abstract!Ended, OwnerOf, FromOf, UntilOf, VerifiedOf

LEMMA IssueIssues ==
    ASSUME LInv, NEW r \in Requests, Issue(r), NEW u, u = local[r].user
    PROVE  Abstract!Issue(u, r)
<1> DEFINE now  == local[r].now
           mine == {k \in Verifications : OwnerOf[k] = u}
<1>1. /\ r \in Verifications /\ r \notin events /\ verifications[r] = NoVerification
      /\ u \in Users /\ users[u].verifiedAt = None
      /\ \A v \in Of(u) :
            v \in events /\ verifications[v].createdAt + ResendCooldown <= now
      /\ Cardinality(CreatedInWindow(u, now)) < ResendLimit
      /\ verifications'[r] = NewVerification(u, now)
      /\ \A v \in Verifications \ {r} :
            verifications'[v] =
               IF v \in Of(u) /\ IsRevoked(verifications[v], now)
               THEN [verifications[v] EXCEPT !.revokedAt = now]
               ELSE verifications[v]
      /\ users' = users
  BY RowsOfIssue DEF LInv
<1>2. now \in 0..MaxTime /\ now \in Nat /\ LimitWindow \in Nat /\ ResendCooldown \in Nat \ {0}
      /\ MaxTime \in Nat
  BY LinkTimes
<1>3. mine = Of(u) /\ mine \subseteq events /\ r \notin mine
  BY <1>1 DEF OwnerOf, Of
<1>4. OwnerOf[r] = None /\ VerifiedOf[u] = None
  BY <1>1 DEF OwnerOf, VerifiedOf, NoVerification
<1>5. \A k \in mine : FromOf[k] = verifications[k].createdAt /\ FromOf[k] \in Nat
                      /\ FromOf[k] + ResendCooldown <= now
  BY <1>1, <1>3, LinkTimes DEF FromOf
<1>6. {k \in mine : FromOf[k] + LimitWindow >= now} = CreatedInWindow(u, now)
  BY <1>2, <1>3, <1>5 DEF CreatedInWindow
<1>7. ASSUME NEW k \in Verifications \ {r}
      PROVE  /\ verifications'[k].user = verifications[k].user
             /\ verifications'[k].createdAt = verifications[k].createdAt
             /\ verifications'[k].expiresAt = verifications[k].expiresAt
             /\ verifications'[k].revokedAt =
                   IF k \in mine /\ IsRevoked(verifications[k], now) THEN now
                   ELSE verifications[k].revokedAt
  <2>1. verifications[k] \in [user : Users \cup {None}, createdAt : Time, expiresAt : Time,
                              usedAt : Time, revokedAt : Time]
    BY DEF LInv, IInv, TypeOK
  <2>2. CASE k \in mine /\ IsRevoked(verifications[k], now)
    BY <1>1, <1>3, <2>1, <2>2
  <2>3. CASE ~(k \in mine /\ IsRevoked(verifications[k], now))
    BY <1>1, <1>3, <2>3
  <2> QED BY <2>2, <2>3
<1>8. OwnerOf' = [OwnerOf EXCEPT ![r] = u] /\ FromOf' = [FromOf EXCEPT ![r] = now]
  <2>1. verifications'[r].user = u /\ verifications'[r].createdAt = now
    BY <1>1 DEF NewVerification
  <2> HIDE DEF now
  <2> QED BY <1>1, <1>7, <2>1 DEF OwnerOf, FromOf
<1>9. ASSUME NEW k \in mine
      PROVE  /\ verifications[k].usedAt = None
             /\ verifications[k].revokedAt # None => Until(k) <= now
  <2>1. verifications[k].usedAt = None
    BY <1>1, <1>3, <1>9 DEF LInv, IInv, Promises, VerifiedByOneToken
  <2>2. ASSUME verifications[k].revokedAt # None PROVE Until(k) <= now
    <3>1. PICK w \in events : /\ verifications[w].user = verifications[k].user
                              /\ verifications[w].createdAt = verifications[k].revokedAt
      BY <1>3, <1>9, <2>2 DEF LInv, EndedByIssue
    <3>2. w \in mine /\ FromOf[w] = Until(k)
      BY <1>3, <1>9, <2>2, <3>1 DEF OwnerOf, FromOf, Until, LInv, IInv, TypeOK
    <3> QED BY <1>2, <1>5, <3>2
  <2> QED BY <2>1, <2>2
<1>10. ASSUME NEW k \in Verifications \ {r}
       PROVE  Until(k)' = IF k \in mine /\ Until(k) > now THEN now ELSE Until(k)
  <2>1. CASE k \notin mine
    BY <1>7, <2>1 DEF Until
  <2>2. CASE k \in mine /\ verifications[k].revokedAt # None
    <3>1. Until(k) \in Nat /\ Until(k) <= now
      BY <1>3, <1>9, <2>2, LinkTimes
    <3>2. Until(k)' = Until(k)
      BY <1>7, <2>2 DEF Until, IsRevoked
    <3> QED BY <1>2, <3>1, <3>2
  <2>3. CASE k \in mine /\ verifications[k].revokedAt = None
    <3>1. /\ Until(k) = verifications[k].expiresAt /\ Until(k) \in Nat
          /\ verifications[k].usedAt = None
      BY <1>3, <1>9, <2>3, LinkTimes
    <3>2. IsRevoked(verifications[k], now) <=> Until(k) > now
      BY <2>3, <3>1 DEF IsRevoked
    <3>3. now # None
      BY <1>2, SetFacts
    <3> QED BY <1>7, <2>3, <3>1, <3>2, <3>3 DEF Until
  <2> QED BY <2>1, <2>2, <2>3
<1>11. UntilOf' = [k \in Verifications |->
                      IF k = r THEN now + TokenLifetime
                      ELSE IF k \in mine /\ UntilOf[k] > now THEN now ELSE UntilOf[k]]
  <2>1. Until(r)' = now + TokenLifetime
    BY <1>1 DEF Until, NewVerification
  <2> QED BY <1>10, <2>1 DEF UntilOf
<1>12. VerifiedOf' = VerifiedOf /\ mailed' = mailed
  BY <1>1 DEF VerifiedOf, Issue
<1> HIDE DEF now
<1> QED BY <1>1, <1>2, <1>4, <1>5, <1>6, <1>8, <1>11, <1>12, SameCardinality
        DEF Abstract!Issue, Abstract!LinksOf, OwnerOf, FromOf, UntilOf, VerifiedOf

\* A step that leaves the tables alone mails a link or cannot be seen.
LEMMA MailReceives ==
    ASSUME LInv, [Next]_vars, UNCHANGED tables
    PROVE  [Abstract!Next]_(Abstract!vars)
<1>1. OwnerOf' = OwnerOf /\ FromOf' = FromOf /\ UntilOf' = UntilOf /\ VerifiedOf' = VerifiedOf
  BY DEF OwnerOf, FromOf, UntilOf, VerifiedOf, Until, tables
<1>2. mailed' = mailed \/ \E l \in events : mailed' = mailed \cup {l}
  <2>1. CASE Arrive
    BY <2>1 DEF Arrive, ArriveAtServer, StartRegister, StartResend, StartConfirm, StartDelivery
  <2>2. CASE \E r \in Requests : SendVerification(r)
    BY <2>2 DEF SendVerification, LInv, IInv, RequestOK, MemoryOK
  <2>3. CASE \E r \in Requests : Step(r) /\ ~SendVerification(r)
    BY <2>3 DEF Step, CreateUser, LookupToken, LockUser, Confirm, LockEmail, CheckLimits,
       Issue, GetForDelivery
  <2>4. CASE Tick \/ (\E r \in Requests : Abort(r)) \/ UNCHANGED vars
    BY <2>4 DEF Tick, Abort, vars
  <2> QED BY <2>1, <2>2, <2>3, <2>4 DEF Next
<1>3. CASE mailed' = mailed
  BY <1>1, <1>3 DEF Abstract!vars, OwnerOf, FromOf, UntilOf, VerifiedOf
<1>4. ASSUME NEW l \in events, mailed' = mailed \cup {l}
      PROVE  Abstract!Receive(l) /\ l \in Verifications
  <2>1. l \in Verifications /\ OwnerOf[l] # None
    BY SetFacts DEF OwnerOf, LInv, IInv, TypeOK, Rows
  <2> QED BY <1>1, <1>4, <2>1 DEF Abstract!Receive, OwnerOf, FromOf, UntilOf, VerifiedOf
<1> QED BY <1>2, <1>3, <1>4 DEF Abstract!Next

LEMMA LinksStep == LInv /\ [Next]_vars => [Abstract!Next]_(Abstract!vars)
<1> SUFFICES ASSUME LInv, [Next]_vars PROVE [Abstract!Next]_(Abstract!vars)
  OBVIOUS
<1>1. CASE UNCHANGED tables
  BY <1>1, MailReceives
<1>2. ASSUME NEW r \in Requests, CreateUser(r), ~UNCHANGED tables PROVE Abstract!Next
  <2>1. r \in Users /\ r \in Verifications
    BY <1>2, RowsOfCreateUser DEF LInv
  <2> QED BY <1>2, <2>1, CreateUserIssues DEF Abstract!Next
<1>3. ASSUME NEW r \in Requests, Confirm(r), ~UNCHANGED tables PROVE Abstract!Next
  <2>1. PICK u \in Users, v \in Verifications : u = local[r].user /\ v = local[r].token
    <3>1. local[r].token \in events /\ local[r].user \in Users
      BY <1>3, RowsOfConfirm DEF LInv
    <3>2. events \subseteq Verifications
      BY DEF LInv, IInv, TypeOK
    <3> QED BY <3>1, <3>2
  <2>2. Abstract!Verify(u, v)
    BY <1>3, <2>1, ConfirmVerifies
  <2> QED BY <2>2 DEF Abstract!Next
<1>4. ASSUME NEW r \in Requests, Issue(r) PROVE Abstract!Next
  <2>1. r \in Verifications /\ \E u \in Users : u = local[r].user
    BY <1>4, RowsOfIssue DEF LInv
  <2>2. PICK u \in Users : u = local[r].user
    BY <2>1
  <2>3. Abstract!Issue(u, r)
    BY <1>4, <2>2, IssueIssues
  <2> QED BY <2>1, <2>3 DEF Abstract!Next
<1> QED BY <1>1, <1>2, <1>3, <1>4, Unseen DEF LInv

\* Row locks, times sampled before the lock and the outbox implement the abstract links:
\* for any number of users and requests, a link ends all earlier ones of its user, and an
\* address is verified once, by a mailed link and a request made in the link's life.
THEOREM LinksRefinement == Spec => ImplementsVerificationLinks
<1>1. Init => Abstract!Init
  BY DEF Init, Abstract!Init, NoVerification, NoUser, Until
<1> QED BY <1>1, LinksStep, LinksInvariance, PTL DEF Spec, ImplementsVerificationLinks, Abstract!Spec

LEMMA OneAtATimeStays ==
    ASSUME LInv, LInv', Abstract!OneAtATime, [Abstract!Next]_(Abstract!vars)
    PROVE  Abstract!OneAtATime'
<1>1. /\ \A v \in Verifications : OwnerOf[v] # None => FromOf[v] \in Nat /\ UntilOf[v] \in Nat
      /\ TokenLifetime \in Nat /\ ResendCooldown \in Nat /\ MaxTime \in Nat
  <2>1. \A v \in Verifications : verifications[v].user # None => v \in events
    BY DEF LInv, IInv, Rows, NoVerification
  <2> QED BY <2>1, LinkTimes DEF OwnerOf, FromOf, UntilOf
<1>2. \A k, l \in Verifications : (k # l /\ OwnerOf[k] # None /\ OwnerOf[k] = OwnerOf[l]) =>
         UntilOf[k] <= FromOf[l] \/ UntilOf[l] <= FromOf[k]
  BY DEF Abstract!OneAtATime, OwnerOf, FromOf, UntilOf
<1>3. SUFFICES
        \A k, l \in Verifications : (k # l /\ OwnerOf'[k] # None /\ OwnerOf'[k] = OwnerOf'[l]) =>
            UntilOf'[k] <= FromOf'[l] \/ UntilOf'[l] <= FromOf'[k]
  BY DEF Abstract!OneAtATime, OwnerOf, FromOf, UntilOf
<1>4. CASE UNCHANGED <<OwnerOf, FromOf, UntilOf>>
  BY <1>2, <1>4
<1>5. ASSUME NEW u \in Users, NEW l \in Verifications, Abstract!Issue(u, l)
      PROVE  \A j, k \in Verifications :
                (j # k /\ OwnerOf'[j] # None /\ OwnerOf'[j] = OwnerOf'[k]) =>
                    UntilOf'[j] <= FromOf'[k] \/ UntilOf'[k] <= FromOf'[j]
  <2> DEFINE mine == Abstract!LinksOf(u)
  <2>m. mine = {k \in Verifications : OwnerOf[k] = u}
    BY DEF Abstract!LinksOf, OwnerOf
  <2>p. PICK t \in 0..MaxTime :
           /\ \A k \in mine : FromOf[k] + ResendCooldown <= t
           /\ FromOf' = [FromOf EXCEPT ![l] = t]
           /\ UntilOf' = [k \in Verifications |->
                 IF k = l THEN t + TokenLifetime
                 ELSE IF k \in mine /\ UntilOf[k] > t THEN t ELSE UntilOf[k]]
    BY <1>5 DEF Abstract!Issue, OwnerOf, FromOf, UntilOf
  <2> HIDE DEF mine
  <2>1. /\ \A k \in Verifications : OwnerOf[k] = u => FromOf[k] + ResendCooldown <= t
        /\ FromOf' = [FromOf EXCEPT ![l] = t]
        /\ \A k \in Verifications : UntilOf'[k] =
              IF k = l THEN t + TokenLifetime
              ELSE IF OwnerOf[k] = u /\ UntilOf[k] > t THEN t ELSE UntilOf[k]
    BY <2>m, <2>p
  <2>2. OwnerOf[l] = None /\ OwnerOf' = [OwnerOf EXCEPT ![l] = u] /\ u # None
    BY <1>5, SetFacts DEF Abstract!Issue, OwnerOf
  <2>3. /\ OwnerOf'[l] = u /\ FromOf'[l] = t
        /\ \A k \in Verifications \ {l} : OwnerOf'[k] = OwnerOf[k] /\ FromOf'[k] = FromOf[k]
    BY <2>1, <2>2 DEF OwnerOf, FromOf
  <2>4. ASSUME NEW k \in Verifications \ {l}, OwnerOf[k] # None
        PROVE  /\ FromOf[k] \in Nat /\ UntilOf[k] \in Nat /\ UntilOf'[k] \in Nat
               /\ UntilOf'[k] <= UntilOf[k]
               /\ OwnerOf[k] = u => UntilOf'[k] <= t
    <3>1. FromOf[k] \in Nat /\ UntilOf[k] \in Nat /\ t \in Nat
      BY <1>1, <2>4
    <3>2. UntilOf'[k] = IF OwnerOf[k] = u /\ UntilOf[k] > t THEN t ELSE UntilOf[k]
      BY <2>1
    <3> QED BY <3>1, <3>2
  <2> QED BY <1>2, <2>3, <2>4
<1>6. ASSUME NEW u \in Users, NEW l \in Verifications, Abstract!Verify(u, l)
      PROVE  UNCHANGED <<OwnerOf, FromOf, UntilOf>>
  BY <1>6 DEF Abstract!Verify, OwnerOf, FromOf, UntilOf
<1>7. ASSUME NEW l \in Verifications, Abstract!Receive(l)
      PROVE  UNCHANGED <<OwnerOf, FromOf, UntilOf>>
  BY <1>7 DEF Abstract!Receive, OwnerOf, FromOf, UntilOf
<1>8. Abstract!vars' = Abstract!vars => UNCHANGED <<OwnerOf, FromOf, UntilOf>>
  BY DEF Abstract!vars, OwnerOf, FromOf, UntilOf
<1> QED BY <1>4, <1>5, <1>6, <1>7, <1>8 DEF Abstract!Next

\* At no time, sampled early or late, do two links of a user work: each ends no later than
\* the next one was issued, whatever the order in which resends and confirmations run.
THEOREM OneLinkAtATime == Spec => []Abstract!OneAtATime
<1>1. Init => Abstract!OneAtATime
  BY DEF Init, Abstract!OneAtATime, NoVerification
<1>2. LInv /\ LInv' /\ Abstract!OneAtATime /\ [Next]_vars => Abstract!OneAtATime'
  BY LinksStep, OneAtATimeStays
<1> QED BY <1>1, <1>2, LinksInvariance, PTL DEF Spec
=============================================================================
