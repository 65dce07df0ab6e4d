------------------------- MODULE SessionAuthProofs -------------------------
(***************************************************************************)
(* Proofs about SessionAuth, for any number of sessions, requests and      *)
(* operation IDs and for any lifetimes.                                    *)
(***************************************************************************)
EXTENDS SessionAuth, TLAPS

-----------------------------------------------------------------------------
(* The inductive invariant.                                                *)

LoginLabels == {"idle", "createSession", "storeLogin", "respond", "done"}
RefreshLabels ==
    {"idle", "selectToken", "selectSession", "extend", "revoke", "storeResult", "storeAccess",
     "cacheActive", "getResult", "restoreAccess", "cacheRevoked", "respond", "done"}
AuthenticationLabels == {"idle", "getAccess", "getSession", "readState", "sampleNow",
                         "cacheState", "done"}

\* Labels at which a refresh owns the row of its old token, and that of the session, too.
LocksToken   == {"selectSession", "extend", "revoke"}
LocksSession == {"extend", "revoke"}
\* Labels at which a refresh knows the session of its old token.
KnowsSession == {"selectSession", "extend", "revoke", "storeResult", "storeAccess",
                 "cacheActive", "getResult", "restoreAccess", "cacheRevoked"}
\* Labels at which a request holds the pair it is going to return.
HoldsPair    == {"storeLogin", "storeResult", "storeAccess", "cacheActive", "restoreAccess",
                 "respond"}
\* Labels at which an Authenticate holds an identity.
HoldsIdentity == {"getSession", "readState", "sampleNow", "cacheState"}
\* Labels at which a request has not written to the database.
Pending == {"idle", "createSession", "selectToken", "selectSession", "extend"}

Issued(p) == p \in Pairs /\ tokens[p].session # None

\* Every kind of request stays on its own path.
PathOK(r) ==
    /\ r \in Logins => pc[r] \in LoginLabels
    /\ r \in Refreshes => pc[r] \in RefreshLabels
    /\ r \in Authentications => pc[r] \in AuthenticationLabels

\* What a request is going to insert is not there yet.
PendingOK(r) ==
    pc[r] \in Pending =>
        /\ r \in Pairs => tokens[r].session = None
        /\ r \in Logins => ~Exists(r)

\* What a request remembers agrees with the database.
MemoryOK(r) ==
    /\ (r \in Refreshes /\ pc[r] # "idle") => local[r].op \in Operations
    /\ (r \in Refreshes /\ pc[r] = "selectToken") =>
          local[r].old = Unknown \/ Issued(local[r].old)
    /\ (r \in Refreshes /\ pc[r] \in KnowsSession) =>
          Issued(local[r].old) /\ local[r].session = tokens[local[r].old].session
    /\ (r \in Refreshes /\ pc[r] = "storeResult") => tokens[local[r].old].requestID # None
    /\ pc[r] \in HoldsPair =>
          Issued(local[r].pair) /\ local[r].session = tokens[local[r].pair].session
    /\ pc[r] \in HoldsIdentity => local[r].session \in Sessions /\ Exists(local[r].session)
    /\ pc[r] \in {"sampleNow", "cacheState"} => local[r].seen.expiresAt # None

\* The owner of a row lock is a transaction that is still open, and its copy of the row
\* is up to date.
LocksOK(r) ==
    /\ (r \in Refreshes /\ pc[r] \in LocksToken) =>
          /\ tokenLock[local[r].old] = r
          /\ local[r].row = tokens[local[r].old].requestID
    /\ (r \in Refreshes /\ pc[r] \in LocksSession) => sessionLock[local[r].session] = r
    /\ pc[r] = "extend" => local[r].row = None

\* What a client has received was issued.
ReplyOK(r) == reply[r] \in Pairs => Issued(reply[r])

RequestOK(r) == PathOK(r) /\ PendingOK(r) /\ MemoryOK(r) /\ LocksOK(r) /\ ReplyOK(r)

\* A token belongs to a session that exists, and only rows that exist are locked.
Rows ==
    /\ \A p \in Pairs : tokenLock[p] # None => tokens[p].session # None
    /\ \A p \in Pairs : tokens[p].session # None => Exists(tokens[p].session)
    /\ \A p \in Pairs : tokens[p].session = None => tokens[p].requestID = None

\* What Redis holds was issued.
Stores ==
    /\ \A p \in Pairs : accessTokens[p] # None =>
          Issued(p) /\ accessTokens[p].session = tokens[p].session
    /\ \A p \in Pairs : refreshResults[p] # None =>
          /\ Issued(p)
          /\ Issued(refreshResults[p].pair)
          /\ tokens[p].requestID # None
          /\ tokens[refreshResults[p].pair].session = tokens[p].session

IInv ==
    /\ Types
    /\ \A r \in Requests : RequestOK(r)
    /\ Rows
    /\ Stores
    /\ OneUnusedToken

-----------------------------------------------------------------------------
(* Steps seen from the requests that do not take them.                     *)

\* Only r moves.
Frame(r) ==
    \A q \in Requests : q # r =>
        pc'[q] = pc[q] /\ local'[q] = local[q] /\ reply'[q] = reply[q]

\* Rows are never deleted and a token never changes hands or operations.
Grows ==
    /\ \A p \in Pairs : tokens[p].session # None =>
          /\ tokens'[p].session = tokens[p].session
          /\ tokens[p].requestID # None => tokens'[p].requestID = tokens[p].requestID
    /\ \A s \in Sessions : Exists(s) => Exists(s)'

\* The rows that q has locked and those it is going to insert are left alone.
Respects(q) ==
    /\ \A p \in Pairs : tokenLock[p] = q => tokenLock'[p] = q /\ tokens'[p] = tokens[p]
    /\ \A s \in Sessions : sessionLock[s] = q => sessionLock'[s] = q
    /\ (q \in Pairs /\ tokens[q].session = None) => tokens'[q].session = None
    /\ (q \in Logins /\ ~Exists(q)) => ~Exists(q)'

LEMMA OtherRequestOK ==
    ASSUME Types, Rows, NEW q \in Requests, RequestOK(q), Grows, Respects(q),
           pc'[q] = pc[q], local'[q] = local[q], reply'[q] = reply[q]
    PROVE  RequestOK(q)'
<1>1. PathOK(q)'
  BY DEF RequestOK, PathOK
<1>2. PendingOK(q)'
  BY DEF RequestOK, PendingOK, Respects, Pairs
<1>3. MemoryOK(q)'
  <2> USE DEF RequestOK, MemoryOK
  <2>1. \A p \in Pairs : tokens[p].session # None => tokens'[p].session = tokens[p].session
    BY DEF Grows
  <2>2. (q \in Refreshes /\ pc[q] = "selectToken") =>
           local[q].old = Unknown \/ (local[q].old \in Pairs /\ tokens'[local[q].old].session # None)
    BY <2>1 DEF Issued
  <2>3. (q \in Refreshes /\ pc[q] \in KnowsSession) =>
           /\ local[q].old \in Pairs
           /\ local[q].session = tokens'[local[q].old].session
           /\ tokens'[local[q].old].session # None
    BY <2>1 DEF Issued
  <2>4. (q \in Refreshes /\ pc[q] = "storeResult") => tokens'[local[q].old].requestID # None
    BY DEF Grows, Issued, KnowsSession
  <2>5. pc[q] \in HoldsPair =>
           /\ local[q].pair \in Pairs
           /\ local[q].session = tokens'[local[q].pair].session
           /\ tokens'[local[q].pair].session # None
    BY <2>1 DEF Issued
  <2>6. pc[q] \in HoldsIdentity =>
           local[q].session \in Sessions /\ sessions'[local[q].session].expiresAt # None
    BY DEF Grows, Exists
  <2> QED BY <2>2, <2>3, <2>4, <2>5, <2>6 DEF Exists, Issued
<1>4. LocksOK(q)'
  <2>1. ASSUME q \in Refreshes, pc[q] \in LocksToken
        PROVE  /\ tokenLock'[local[q].old] = q
               /\ tokens'[local[q].old] = tokens[local[q].old]
    BY <2>1 DEF RequestOK, LocksOK, MemoryOK, LocksToken, KnowsSession, Issued, Respects
  <2>2. ASSUME q \in Refreshes, pc[q] \in LocksSession
        PROVE  sessionLock'[local[q].session] = q
    <3>1. Issued(local[q].old) /\ local[q].session = tokens[local[q].old].session
      BY <2>2 DEF RequestOK, MemoryOK, LocksSession, KnowsSession
    <3>2. local[q].session \in Sessions
      BY <3>1 DEF Types, TokenRows, Issued
    <3> QED BY <2>2, <3>2 DEF RequestOK, LocksOK, Respects
  <2> QED BY <2>1, <2>2 DEF RequestOK, LocksOK
<1>5. ReplyOK(q)'
  BY DEF RequestOK, ReplyOK, Grows, Issued
<1> QED BY <1>1, <1>2, <1>3, <1>4, <1>5 DEF RequestOK

\* A step of r that leaves the database alone cannot disturb what the other requests and
\* the tables rely on.
LEMMA QuietStep ==
    ASSUME IInv, NEW r \in Requests, UNCHANGED database, Frame(r),
           Types', RequestOK(r)', Stores'
    PROVE  IInv'
<1>1. Grows /\ \A q \in Requests : Respects(q)
  BY DEF Grows, Respects, Exists, database
<1>2. ASSUME NEW q \in Requests PROVE RequestOK(q)'
  <2>1. CASE q = r  BY <2>1
  <2>2. CASE q # r  BY <1>1, <2>2, OtherRequestOK DEF IInv, Frame
  <2> QED BY <2>1, <2>2
<1>3. Rows' /\ OneUnusedToken'
  BY DEF IInv, Rows, OneUnusedToken, Exists, Unused, database
<1> QED BY <1>2, <1>3 DEF IInv

ControlType ==
    /\ pc \in [Requests -> Labels]
    /\ local \in [Requests -> Locals]
    /\ reply \in [Requests -> Answers \cup {None}]

\* The two ways a request goes on, with and without an assignment to its locals, and the
\* way it ends.
LEMMA Moves ==
    ASSUME Types, NEW r \in Requests, NEW label \in Labels, Goto(r, label), UNCHANGED reply,
           NEW new \in Locals, local' = [local EXCEPT ![r] = new]
    PROVE  /\ ControlType' /\ Frame(r)
           /\ pc'[r] = label /\ local'[r] = new /\ reply'[r] = reply[r]
  BY DEF Types, Goto, Frame, ControlType

LEMMA GoesOn ==
    ASSUME Types, NEW r \in Requests, NEW label \in Labels, Goto(r, label), UNCHANGED <<reply, local>>
    PROVE  /\ ControlType' /\ Frame(r)
           /\ pc'[r] = label /\ local'[r] = local[r] /\ reply'[r] = reply[r]
  BY DEF Types, Goto, Frame, ControlType

LEMMA Returns ==
    ASSUME Types, NEW r \in Requests, NEW answer \in Answers, Return(r, answer)
    PROVE  /\ ControlType' /\ Frame(r)
           /\ pc'[r] = "done" /\ reply'[r] = answer
           /\ local'[r].old = local[r].old /\ local'[r].op = local[r].op
<1> DEFINE left == [Blank EXCEPT !.old = local[r].old, !.op = local[r].op]
<1>1. left \in Locals /\ left.old = local[r].old /\ left.op = local[r].op
  <2>1. local[r] \in Locals
    BY DEF Types
  <2> QED BY <2>1 DEF Locals, Blank, NoSessionRow, SessionRows
<1>2. local' = [local EXCEPT ![r] = left]
  BY DEF Return
<1> HIDE DEF left
<1>3. local' \in [Requests -> Locals] /\ local'[r] = left
  BY <1>1, <1>2 DEF Types
<1>4. pc' \in [Requests -> Labels] /\ pc'[r] = "done"
  BY DEF Types, Return, Goto, Labels
<1>5. reply' \in [Requests -> Answers \cup {None}] /\ reply'[r] = answer
  BY DEF Types, Return
<1>6. Frame(r)
  BY <1>2 DEF Types, Return, Goto, Frame
<1> QED BY <1>1, <1>3, <1>4, <1>5, <1>6 DEF ControlType

LEMMA ReturnedOK ==
    ASSUME IInv, NEW r \in Requests, NEW answer \in Answers, Return(r, answer),
           pc[r] # "idle", answer \in Pairs => tokens'[answer].session # None
    PROVE  RequestOK(r)'
<1>1. /\ pc'[r] = "done" /\ reply'[r] = answer
      /\ local'[r].old = local[r].old /\ local'[r].op = local[r].op
  BY Returns DEF IInv
<1>2. PathOK(r)' /\ PendingOK(r)' /\ LocksOK(r)'
  BY <1>1 DEF PathOK, PendingOK, LocksOK, LoginLabels, RefreshLabels, AuthenticationLabels,
     Pending, LocksToken, LocksSession
<1>3. MemoryOK(r)'
  BY <1>1 DEF IInv, RequestOK, MemoryOK, KnowsSession, HoldsPair, HoldsIdentity
<1>4. ReplyOK(r)'
  BY <1>1 DEF ReplyOK, Issued
<1> QED BY <1>2, <1>3, <1>4 DEF RequestOK

\* A step of r that only ends the request.
LEMMA QuietReturn ==
    ASSUME IInv, NEW r \in Requests, NEW answer \in Answers, Return(r, answer),
           pc[r] # "idle", answer \in Pairs => tokens[answer].session # None,
           UNCHANGED <<world, database, redis>>
    PROVE  IInv'
<1>1. ControlType' /\ Frame(r)
  BY Returns DEF IInv
<1>2. Types'
  BY <1>1 DEF IInv, Types, ControlType, world, database, redis
<1>3. RequestOK(r)'
  BY ReturnedOK DEF database
<1>4. Stores'
  BY DEF IInv, Stores, Issued, database, redis
<1> QED BY <1>1, <1>2, <1>3, <1>4, QuietStep

LEMMA AnswerTypes ==
    /\ {"accepted", "unauthorized", "reuse", "failed"} \subseteq Answers
    /\ {"accepted", "unauthorized", "reuse", "failed"} \cap Pairs = {}
  BY RequestsAssumption DEF Answers

-----------------------------------------------------------------------------
(* The steps of a request that leave the database alone.                   *)

LEMMA StartLoginKeeps ==
    ASSUME IInv, NEW r \in Logins, StartLogin(r)
    PROVE  IInv'
<1> DEFINE new == [local[r] EXCEPT !.now = clock]
<1>1. r \in Requests /\ pc[r] = "idle" /\ "createSession" \in Labels
  BY DEF Requests, StartLogin, Labels
<1>2. new \in Locals
  BY <1>1 DEF IInv, Types, Locals
<1>3. ControlType' /\ Frame(r) /\ pc'[r] = "createSession" /\ reply'[r] = reply[r]
  BY <1>1, <1>2, Moves DEF IInv, StartLogin
<1>4. Types'
  BY <1>3 DEF IInv, Types, ControlType, StartLogin, world, database, redis
<1>5. r \notin Refreshes /\ r \notin Authentications
  BY RequestsAssumption DEF Pairs
<1>6. RequestOK(r)'
  <2>1. PathOK(r)' /\ PendingOK(r)'
    BY <1>1, <1>3, <1>5 DEF IInv, RequestOK, PathOK, PendingOK, LoginLabels, Pending, StartLogin,
       database, Exists
  <2>2. MemoryOK(r)' /\ LocksOK(r)'
    BY <1>3, <1>5 DEF MemoryOK, LocksOK, HoldsPair, HoldsIdentity
  <2>3. ReplyOK(r)'
    BY <1>1, <1>3 DEF IInv, RequestOK, ReplyOK, Issued, StartLogin, database
  <2> QED BY <2>1, <2>2, <2>3 DEF RequestOK
<1>7. Stores'
  BY DEF IInv, Stores, Issued, StartLogin, database, redis
<1> QED BY <1>1, <1>3, <1>4, <1>6, <1>7, QuietStep DEF StartLogin

LEMMA StartRefreshKeeps ==
    ASSUME IInv, NEW r \in Refreshes, NEW p \in Known \cup {Unknown}, NEW o \in Operations,
           StartRefresh(r, p, o)
    PROVE  IInv'
<1> DEFINE new == [local[r] EXCEPT !.old = p, !.op = o, !.now = clock]
<1>1. r \in Requests /\ pc[r] = "idle" /\ "selectToken" \in Labels
  BY DEF Requests, StartRefresh, Labels
<1>2. p = Unknown \/ Issued(p)
  BY DEF Known, IInv, RequestOK, ReplyOK
<1>3. new \in Locals /\ new.old = p /\ new.op = o
  BY <1>1, <1>2 DEF IInv, Types, Locals, Issued
<1>4. /\ ControlType' /\ Frame(r) /\ pc'[r] = "selectToken" /\ reply'[r] = reply[r]
      /\ local'[r] = new
  BY <1>1, <1>3, Moves DEF IInv, StartRefresh
<1> HIDE DEF new
<1>5. Types'
  BY <1>4 DEF IInv, Types, ControlType, StartRefresh, world, database, redis
<1>6. r \notin Logins /\ r \notin Authentications
  BY RequestsAssumption DEF Pairs
<1>7. RequestOK(r)'
  <2>1. PathOK(r)' /\ PendingOK(r)'
    BY <1>1, <1>4, <1>6 DEF IInv, RequestOK, PathOK, PendingOK, RefreshLabels, Pending,
       StartRefresh, database
  <2>2. MemoryOK(r)'
    BY <1>2, <1>3, <1>4 DEF MemoryOK, KnowsSession, HoldsPair, HoldsIdentity, StartRefresh,
       database, Issued
  <2>3. LocksOK(r)'
    BY <1>4 DEF LocksOK, LocksToken, LocksSession
  <2>4. ReplyOK(r)'
    BY <1>1, <1>4 DEF IInv, RequestOK, ReplyOK, Issued, StartRefresh, database
  <2> QED BY <2>1, <2>2, <2>3, <2>4 DEF RequestOK
<1>8. Stores'
  BY DEF IInv, Stores, Issued, StartRefresh, database, redis
<1> QED BY <1>1, <1>4, <1>5, <1>7, <1>8, QuietStep DEF StartRefresh

LEMMA StartAuthenticateKeeps ==
    ASSUME IInv, NEW r \in Authentications, NEW p \in Known \cup {Unknown},
           StartAuthenticate(r, p)
    PROVE  IInv'
<1> DEFINE new == [local[r] EXCEPT !.old = p]
<1>1. r \in Requests /\ pc[r] = "idle" /\ "getAccess" \in Labels
  BY DEF Requests, StartAuthenticate, Labels
<1>2. p = Unknown \/ p \in Pairs
  BY DEF Known
<1>3. new \in Locals
  BY <1>1, <1>2 DEF IInv, Types, Locals
<1>4. ControlType' /\ Frame(r) /\ pc'[r] = "getAccess" /\ reply'[r] = reply[r]
  BY <1>1, <1>3, Moves DEF IInv, StartAuthenticate
<1>5. Types'
  BY <1>4 DEF IInv, Types, ControlType, StartAuthenticate, world, database, redis
<1>6. r \notin Logins /\ r \notin Refreshes
  BY RequestsAssumption DEF Pairs
<1>7. RequestOK(r)'
  <2>1. PathOK(r)' /\ PendingOK(r)'
    BY <1>4, <1>6 DEF PathOK, PendingOK, AuthenticationLabels, Pending
  <2>2. MemoryOK(r)' /\ LocksOK(r)'
    BY <1>4, <1>6 DEF MemoryOK, LocksOK, HoldsPair, HoldsIdentity
  <2>3. ReplyOK(r)'
    BY <1>1, <1>4 DEF IInv, RequestOK, ReplyOK, Issued, StartAuthenticate, database
  <2> QED BY <2>1, <2>2, <2>3 DEF RequestOK
<1>8. Stores'
  BY DEF IInv, Stores, Issued, StartAuthenticate, database, redis
<1> QED BY <1>1, <1>4, <1>5, <1>7, <1>8, QuietStep DEF StartAuthenticate

LEMMA StoreAccessTokenKeeps ==
    ASSUME IInv, NEW r \in Requests, StoreAccessToken(r)
    PROVE  IInv'
<1> DEFINE p == local[r].pair
           s == local[r].session
<1>1. pc[r] \in {"storeLogin", "storeAccess", "restoreAccess"}
  BY DEF StoreAccessToken
<1>2. PICK label \in {"respond", "cacheActive"} :
         /\ Goto(r, label)
         /\ pc[r] = "storeAccess" <=> label = "cacheActive"
         /\ accessTokens' \in Written(accessTokens, AccessStored(p, s))
         /\ UNCHANGED <<world, database, refreshResults, sessionCache, local, reply>>
  BY DEF StoreAccessToken
<1>3. p \in Pairs /\ tokens[p].session # None /\ s = tokens[p].session /\ s \in Sessions
  BY <1>1 DEF IInv, Types, RequestOK, MemoryOK, HoldsPair, Issued, TokenRows
<1>4. label \in Labels /\ pc[r] # "idle"
  BY <1>1 DEF Labels
<1>5. ControlType' /\ Frame(r) /\ pc'[r] = label /\ local'[r] = local[r] /\ reply'[r] = reply[r]
  BY <1>2, <1>4, GoesOn DEF IInv
<1>6. \/ accessTokens' = accessTokens
      \/ accessTokens' = [accessTokens EXCEPT
                             ![p] = [session |-> s, until |-> clock + AccessTokenLifetime]]
  BY <1>2 DEF Written, AccessStored
<1> HIDE DEF p, s
<1>7. clock + AccessTokenLifetime \in Nat
  BY DurationsAssumption DEF IInv, Types
<1>8. accessTokens' \in [Pairs -> {None} \cup [session : Sessions, until : Nat]]
  BY <1>3, <1>6, <1>7 DEF IInv, Types
<1>9. Types'
  BY <1>2, <1>5, <1>8 DEF IInv, Types, ControlType, world, database
<1>10. RequestOK(r)'
  <2>1. PathOK(r)' /\ PendingOK(r)'
    BY <1>1, <1>2, <1>5 DEF IInv, RequestOK, PathOK, PendingOK, LoginLabels, RefreshLabels,
       AuthenticationLabels, Pending
  <2>2. MemoryOK(r)'
    BY <1>1, <1>2, <1>3, <1>5 DEF IInv, RequestOK, MemoryOK, KnowsSession, HoldsPair,
       HoldsIdentity, Issued, database, p, s
  <2>3. LocksOK(r)' /\ ReplyOK(r)'
    BY <1>2, <1>5 DEF IInv, RequestOK, LocksOK, ReplyOK, Issued, LocksToken, LocksSession, database
  <2> QED BY <2>1, <2>2, <2>3 DEF RequestOK
<1>11. Stores'
  BY <1>2, <1>3, <1>6 DEF IInv, Types, Stores, Issued, database
<1> QED BY <1>2, <1>5, <1>9, <1>10, <1>11, QuietStep

LEMMA RespondKeeps ==
    ASSUME IInv, NEW r \in Requests, Respond(r)
    PROVE  IInv'
<1>1. pc[r] = "respond" /\ Return(r, local[r].pair)
  BY DEF Respond
<1>2. local[r].pair \in Answers /\ tokens[local[r].pair].session # None
  BY <1>1 DEF IInv, RequestOK, MemoryOK, HoldsPair, Issued, Answers
<1> QED BY <1>1, <1>2, QuietReturn DEF Respond

LEMMA StoreResultKeeps ==
    ASSUME IInv, NEW r \in Requests, StoreResult(r)
    PROVE  IInv'
<1> DEFINE p == local[r].old
           new == local[r].pair
<1>1. pc[r] = "storeResult" /\ "storeAccess" \in Labels
  BY DEF StoreResult, Labels
<1>2. r \in Refreshes
  BY <1>1 DEF IInv, RequestOK, PathOK, LoginLabels, AuthenticationLabels, Requests
<1>3. /\ p \in Pairs /\ tokens[p].session # None /\ tokens[p].requestID # None
      /\ new \in Pairs /\ tokens[new].session = tokens[p].session
  BY <1>1, <1>2 DEF IInv, RequestOK, MemoryOK, KnowsSession, HoldsPair, Issued
<1>4. /\ ControlType' /\ Frame(r)
      /\ pc'[r] = "storeAccess" /\ local'[r] = local[r] /\ reply'[r] = reply[r]
  BY <1>1, GoesOn DEF IInv, StoreResult
<1>5. \/ refreshResults' = refreshResults
      \/ refreshResults' = [refreshResults EXCEPT
                               ![p] = [pair |-> new, until |-> clock + RefreshRetryTTL]]
  BY DEF StoreResult, Written, ResultKey
<1> HIDE DEF p, new
<1>6. clock + RefreshRetryTTL \in Nat
  BY DurationsAssumption DEF IInv, Types
<1>7. refreshResults' \in [Pairs -> {None} \cup [pair : Pairs, until : Nat]]
  BY <1>3, <1>5, <1>6 DEF IInv, Types
<1>8. Types'
  BY <1>4, <1>7 DEF IInv, Types, ControlType, StoreResult, world, database
<1>9. RequestOK(r)'
  <2>1. PathOK(r)' /\ PendingOK(r)'
    BY <1>1, <1>4 DEF IInv, RequestOK, PathOK, PendingOK, LoginLabels, RefreshLabels,
       AuthenticationLabels, Pending
  <2>2. MemoryOK(r)'
    BY <1>1, <1>2, <1>4 DEF IInv, RequestOK, MemoryOK, KnowsSession, HoldsPair,
       HoldsIdentity, Issued, database, StoreResult
  <2>3. LocksOK(r)' /\ ReplyOK(r)'
    BY <1>4 DEF IInv, RequestOK, LocksOK, ReplyOK, Issued, LocksToken, LocksSession, database,
       StoreResult
  <2> QED BY <2>1, <2>2, <2>3 DEF RequestOK
<1>10. Stores'
  BY <1>3, <1>5 DEF IInv, Types, Stores, Issued, database, StoreResult
<1> QED BY <1>4, <1>8, <1>9, <1>10, QuietStep DEF StoreResult

LEMMA GetResultKeeps ==
    ASSUME IInv, NEW r \in Requests, GetResult(r)
    PROVE  IInv'
<1> DEFINE p == local[r].old
           entry == refreshResults[p]
           new == [local[r] EXCEPT !.pair = entry.pair]
<1>1. pc[r] = "getResult" /\ "restoreAccess" \in Labels /\ pc[r] # "idle"
  BY DEF GetResult, Labels
<1>2. CASE Return(r, "unauthorized")
  BY <1>1, <1>2, AnswerTypes, QuietReturn DEF GetResult
<1>3. CASE ~Return(r, "unauthorized")
  <2>1. /\ Live(entry) /\ local' = [local EXCEPT ![r].pair = entry.pair]
        /\ Goto(r, "restoreAccess") /\ reply' = reply
    BY <1>3 DEF GetResult
  <2>2. r \in Refreshes
    BY <1>1 DEF IInv, RequestOK, PathOK, LoginLabels, AuthenticationLabels, Requests
  <2>3. /\ p \in Pairs /\ local[r].session = tokens[p].session
        /\ entry.pair \in Pairs /\ tokens[entry.pair].session # None
        /\ tokens[entry.pair].session = tokens[p].session
    BY <1>1, <2>1, <2>2 DEF IInv, RequestOK, MemoryOK, KnowsSession, Issued, Live, Stores
  <2>4. new \in Locals /\ new.pair = entry.pair /\ new.old = p /\ new.op = local[r].op
           /\ new.session = local[r].session
    BY <2>3 DEF IInv, Types, Locals
  <2>5. local' = [local EXCEPT ![r] = new]
    BY <2>1 DEF IInv, Types
  <2>6. /\ ControlType' /\ Frame(r)
        /\ pc'[r] = "restoreAccess" /\ local'[r] = new /\ reply'[r] = reply[r]
    BY <1>1, <2>1, <2>4, <2>5, Moves DEF IInv
  <2> HIDE DEF new, entry
  <2>7. Types'
    BY <2>6 DEF IInv, Types, ControlType, GetResult, world, database, redis
  <2>8. PathOK(r)' /\ PendingOK(r)'
    BY <1>1, <2>6 DEF IInv, RequestOK, PathOK, PendingOK, LoginLabels, RefreshLabels,
       AuthenticationLabels, Pending
  <2>9. MemoryOK(r)'
    BY <1>1, <2>2, <2>3, <2>4, <2>6 DEF IInv, RequestOK, MemoryOK, KnowsSession, HoldsPair,
       HoldsIdentity, Issued, database, GetResult
  <2>10. LocksOK(r)' /\ ReplyOK(r)'
    BY <2>6 DEF IInv, RequestOK, LocksOK, ReplyOK, Issued, LocksToken, LocksSession, database,
       GetResult
  <2>11. Stores'
    BY DEF IInv, Stores, Issued, GetResult, database, redis
  <2> QED BY <2>6, <2>7, <2>8, <2>9, <2>10, <2>11, QuietStep DEF GetResult, RequestOK
<1> QED BY <1>2, <1>3

\* A write to the session cache keeps its type.
LEMMA SessionSetType ==
    ASSUME Types, NEW s \in Sessions, NEW isActive \in BOOLEAN, NEW ttl \in Nat,
           sessionCache' \in Written(sessionCache, SessionSet(s, isActive, ttl))
    PROVE  sessionCache' \in [Sessions -> {None} \cup [active : BOOLEAN, until : Nat]]
<1>1. clock + ttl \in Nat
  BY DEF Types
<1> QED BY <1>1 DEF Types, Written, SessionSet

LEMMA CacheActiveKeeps ==
    ASSUME IInv, NEW r \in Requests, CacheActive(r)
    PROVE  IInv'
<1>1. pc[r] = "cacheActive" /\ "respond" \in Labels
  BY DEF CacheActive, Labels
<1>2. local[r].session \in Sessions
  BY <1>1 DEF IInv, Types, RequestOK, MemoryOK, HoldsPair, Issued, TokenRows
<1>3. /\ ControlType' /\ Frame(r)
      /\ pc'[r] = "respond" /\ local'[r] = local[r] /\ reply'[r] = reply[r]
  BY <1>1, GoesOn DEF IInv, CacheActive
<1>4. Types'
  BY <1>2, <1>3, SessionSetType, DurationsAssumption DEF IInv, Types, ControlType, CacheActive,
     world, database
<1>5. RequestOK(r)'
  <2>1. PathOK(r)' /\ PendingOK(r)'
    BY <1>1, <1>3 DEF IInv, RequestOK, PathOK, PendingOK, LoginLabels, RefreshLabels,
       AuthenticationLabels, Pending
  <2>2. MemoryOK(r)'
    BY <1>1, <1>3 DEF IInv, RequestOK, MemoryOK, KnowsSession, HoldsPair,
       HoldsIdentity, Issued, database, CacheActive
  <2>3. LocksOK(r)' /\ ReplyOK(r)'
    BY <1>3 DEF IInv, RequestOK, LocksOK, ReplyOK, Issued, LocksToken, LocksSession, database,
       CacheActive
  <2> QED BY <2>1, <2>2, <2>3 DEF RequestOK
<1>6. Stores'
  BY DEF IInv, Stores, Issued, CacheActive, database
<1> QED BY <1>3, <1>4, <1>5, <1>6, QuietStep DEF CacheActive

\* A step of r that writes the session cache and ends the request.
LEMMA CacheReturn ==
    ASSUME IInv, NEW r \in Requests, NEW answer \in Answers \ Pairs, Return(r, answer),
           pc[r] # "idle", NEW isActive \in BOOLEAN, NEW ttl \in Nat, local[r].session \in Sessions,
           sessionCache' \in Written(sessionCache, SessionSet(local[r].session, isActive, ttl)),
           UNCHANGED <<world, database, accessTokens, refreshResults>>
    PROVE  IInv'
<1>1. ControlType' /\ Frame(r)
  BY Returns DEF IInv
<1>2. Types'
  BY <1>1, SessionSetType DEF IInv, Types, ControlType, world, database
<1>3. RequestOK(r)'
  BY ReturnedOK
<1>4. Stores'
  BY DEF IInv, Stores, Issued, database
<1> QED BY <1>1, <1>2, <1>3, <1>4, QuietStep

LEMMA CacheRevokedKeeps ==
    ASSUME IInv, NEW r \in Requests, CacheRevoked(r)
    PROVE  IInv'
<1>1. pc[r] = "cacheRevoked" /\ pc[r] # "idle"
  BY DEF CacheRevoked
<1>2. r \in Refreshes
  BY <1>1 DEF IInv, RequestOK, PathOK, LoginLabels, AuthenticationLabels, Requests
<1>3. local[r].session \in Sessions
  BY <1>1, <1>2 DEF IInv, Types, RequestOK, MemoryOK, KnowsSession, Issued, TokenRows
<1>4. SessionLifetime \in Nat
  BY DurationsAssumption
<1>5. "reuse" \in Answers \ Pairs
  BY AnswerTypes
<1> QED BY <1>1, <1>3, <1>4, <1>5, CacheReturn DEF CacheRevoked

LEMMA GetAccessKeeps ==
    ASSUME IInv, NEW r \in Requests, GetAccess(r)
    PROVE  IInv'
<1> DEFINE p == local[r].old
           s == accessTokens[p].session
           new == [local[r] EXCEPT !.session = s]
<1>1. pc[r] = "getAccess" /\ pc[r] # "idle" /\ "getSession" \in Labels
  BY DEF GetAccess, Labels
<1>2. CASE Return(r, "unauthorized")
  BY <1>1, <1>2, AnswerTypes, QuietReturn DEF GetAccess
<1>3. CASE ~Return(r, "unauthorized")
  <2>1. /\ p \in Pairs /\ Live(accessTokens[p])
        /\ local' = [local EXCEPT ![r].session = s]
        /\ Goto(r, "getSession") /\ reply' = reply
    BY <1>3 DEF GetAccess
  <2>2. s \in Sessions /\ Exists(s)
    BY <2>1 DEF IInv, Types, Stores, Live, Rows, TokenRows, Issued
  <2>3. r \notin Refreshes
    BY <1>1 DEF IInv, RequestOK, PathOK, RefreshLabels
  <2>4. new \in Locals /\ new.session = s
    BY <2>2 DEF IInv, Types, Locals
  <2>5. local' = [local EXCEPT ![r] = new]
    BY <2>1 DEF IInv, Types
  <2>6. /\ ControlType' /\ Frame(r)
        /\ pc'[r] = "getSession" /\ local'[r] = new /\ reply'[r] = reply[r]
    BY <1>1, <2>1, <2>4, <2>5, Moves DEF IInv
  <2> HIDE DEF new, s
  <2>7. Types'
    BY <2>6 DEF IInv, Types, ControlType, GetAccess, world, database, redis
  <2>8. PathOK(r)' /\ PendingOK(r)'
    BY <1>1, <2>6 DEF IInv, RequestOK, PathOK, PendingOK, LoginLabels, RefreshLabels,
       AuthenticationLabels, Pending
  <2>9. MemoryOK(r)'
    BY <2>2, <2>3, <2>4, <2>6 DEF MemoryOK, HoldsPair, database, GetAccess, Exists
  <2>10. LocksOK(r)' /\ ReplyOK(r)'
    BY <2>3, <2>6 DEF IInv, RequestOK, LocksOK, ReplyOK, Issued, database, GetAccess
  <2>11. Stores'
    BY DEF IInv, Stores, Issued, GetAccess, database, redis
  <2> QED BY <2>6, <2>7, <2>8, <2>9, <2>10, <2>11, QuietStep DEF GetAccess, RequestOK
<1> QED BY <1>2, <1>3

LEMMA GetSessionKeeps ==
    ASSUME IInv, NEW r \in Requests, GetSession(r)
    PROVE  IInv'
<1>1. pc[r] = "getSession" /\ pc[r] # "idle" /\ "readState" \in Labels
  BY DEF GetSession, Labels
<1>2. CASE \E answer \in {"accepted", "unauthorized"} : Return(r, answer)
  BY <1>1, <1>2, AnswerTypes, QuietReturn DEF GetSession
<1>3. CASE Goto(r, "readState") /\ UNCHANGED <<local, reply>>
  <2>1. /\ ControlType' /\ Frame(r)
        /\ pc'[r] = "readState" /\ local'[r] = local[r] /\ reply'[r] = reply[r]
    BY <1>1, <1>3, GoesOn DEF IInv
  <2>2. r \notin Refreshes
    BY <1>1 DEF IInv, RequestOK, PathOK, RefreshLabels
  <2>3. Types'
    BY <2>1 DEF IInv, Types, ControlType, GetSession, world, database, redis
  <2>4. PathOK(r)' /\ PendingOK(r)'
    BY <1>1, <2>1 DEF IInv, RequestOK, PathOK, PendingOK, LoginLabels, RefreshLabels,
       AuthenticationLabels, Pending
  <2>5. MemoryOK(r)'
    BY <1>1, <2>1, <2>2 DEF IInv, RequestOK, MemoryOK, HoldsPair, HoldsIdentity, Exists,
       database, GetSession
  <2>6. LocksOK(r)' /\ ReplyOK(r)'
    BY <2>1, <2>2 DEF IInv, RequestOK, LocksOK, ReplyOK, Issued, database, GetSession
  <2>7. Stores'
    BY DEF IInv, Stores, Issued, GetSession, database, redis
  <2> QED BY <2>1, <2>3, <2>4, <2>5, <2>6, <2>7, QuietStep DEF GetSession, RequestOK
<1> QED BY <1>2, <1>3 DEF GetSession

LEMMA GetSessionStateKeeps ==
    ASSUME IInv, NEW r \in Requests, GetSessionState(r)
    PROVE  IInv'
<1> DEFINE s == local[r].session
           new == [local[r] EXCEPT !.seen = sessions[s]]
<1>1. pc[r] = "readState" /\ "sampleNow" \in Labels
  BY DEF GetSessionState, Labels
<1>2. r \notin Refreshes
  BY <1>1 DEF IInv, RequestOK, PathOK, RefreshLabels
<1>3. s \in Sessions /\ Exists(s)
  BY <1>1 DEF IInv, RequestOK, MemoryOK, HoldsIdentity
<1>4. new \in Locals /\ new.seen = sessions[s] /\ new.session = s
  BY <1>3 DEF IInv, Types, Locals
<1>5. local' = [local EXCEPT ![r] = new]
  BY DEF IInv, Types, GetSessionState
<1>6. /\ ControlType' /\ Frame(r)
      /\ pc'[r] = "sampleNow" /\ local'[r] = new /\ reply'[r] = reply[r]
  BY <1>1, <1>4, <1>5, Moves DEF IInv, GetSessionState
<1> HIDE DEF new, s
<1>7. Types'
  BY <1>6 DEF IInv, Types, ControlType, GetSessionState, world, database, redis
<1>8. PathOK(r)' /\ PendingOK(r)'
  BY <1>1, <1>6 DEF IInv, RequestOK, PathOK, PendingOK, LoginLabels, RefreshLabels,
     AuthenticationLabels, Pending
<1>9. MemoryOK(r)'
  BY <1>2, <1>3, <1>4, <1>6 DEF MemoryOK, HoldsPair, database, GetSessionState, Exists
<1>10. LocksOK(r)' /\ ReplyOK(r)'
  BY <1>2, <1>6 DEF IInv, RequestOK, LocksOK, ReplyOK, Issued, database, GetSessionState
<1>11. Stores'
  BY DEF IInv, Stores, Issued, GetSessionState, database, redis
<1> QED BY <1>6, <1>7, <1>8, <1>9, <1>10, <1>11, QuietStep DEF GetSessionState, RequestOK

LEMMA SampleNowKeeps ==
    ASSUME IInv, NEW r \in Requests, SampleNow(r)
    PROVE  IInv'
<1> DEFINE new == [local[r] EXCEPT !.now = clock]
<1>1. pc[r] = "sampleNow" /\ "cacheState" \in Labels
  BY DEF SampleNow, Labels
<1>2. r \notin Refreshes
  BY <1>1 DEF IInv, RequestOK, PathOK, RefreshLabels
<1>3. new \in Locals /\ new.seen = local[r].seen /\ new.session = local[r].session
  BY DEF IInv, Types, Locals
<1>4. local' = [local EXCEPT ![r] = new]
  BY DEF IInv, Types, SampleNow
<1>5. /\ ControlType' /\ Frame(r)
      /\ pc'[r] = "cacheState" /\ local'[r] = new /\ reply'[r] = reply[r]
  BY <1>1, <1>3, <1>4, Moves DEF IInv, SampleNow
<1> HIDE DEF new
<1>6. Types'
  BY <1>5 DEF IInv, Types, ControlType, SampleNow, world, database, redis
<1>7. PathOK(r)' /\ PendingOK(r)'
  BY <1>1, <1>5 DEF IInv, RequestOK, PathOK, PendingOK, LoginLabels, RefreshLabels,
     AuthenticationLabels, Pending
<1>8. MemoryOK(r)'
  BY <1>1, <1>2, <1>3, <1>5 DEF IInv, RequestOK, MemoryOK, HoldsPair, HoldsIdentity, database,
     SampleNow, Exists
<1>9. LocksOK(r)' /\ ReplyOK(r)'
  BY <1>2, <1>5 DEF IInv, RequestOK, LocksOK, ReplyOK, Issued, database, SampleNow
<1>10. Stores'
  BY DEF IInv, Stores, Issued, SampleNow, database, redis
<1> QED BY <1>5, <1>6, <1>7, <1>8, <1>9, <1>10, QuietStep DEF SampleNow, RequestOK

LEMMA CacheStateKeeps ==
    ASSUME IInv, NEW r \in Requests, CacheState(r)
    PROVE  IInv'
<1> DEFINE seen == local[r].seen
           now  == local[r].now
<1>1. pc[r] = "cacheState" /\ pc[r] # "idle"
  BY DEF CacheState
<1>2. local[r].session \in Sessions /\ seen.expiresAt # None
  BY <1>1 DEF IInv, RequestOK, MemoryOK, HoldsIdentity
<1>3. seen.expiresAt \in Nat /\ now \in Nat
  BY <1>2 DEF IInv, Types, Locals, SessionRows
<1> HIDE DEF seen, now
<1>4. CacheTTL(seen, now) \in Nat
  BY <1>3, DurationsAssumption DEF CacheTTL, IsActive
<1>5. IsActive(seen, now) \in BOOLEAN
  BY <1>3 DEF IsActive
<1>6. PICK answer \in {"accepted", "unauthorized"} : Return(r, answer)
  BY DEF CacheState
<1>7. answer \in Answers \ Pairs
  BY AnswerTypes
<1>8. sessionCache' \in Written(sessionCache,
          SessionSet(local[r].session, IsActive(seen, now), CacheTTL(seen, now)))
  BY DEF CacheState, seen, now
<1> QED BY <1>1, <1>2, <1>4, <1>5, <1>6, <1>7, <1>8, CacheReturn DEF CacheState

-----------------------------------------------------------------------------
(* Time and the loss of Redis.                                             *)

LEMMA QuietWorld ==
    ASSUME IInv, UNCHANGED <<database, pc, local, reply>>, Types', Stores'
    PROVE  IInv'
<1>1. ASSUME NEW q \in Requests PROVE RequestOK(q)'
  <2>1. Grows /\ Respects(q)
    BY DEF Grows, Respects, Exists, database
  <2> QED BY <2>1, OtherRequestOK DEF IInv
<1>2. Rows' /\ OneUnusedToken'
  BY DEF IInv, Rows, OneUnusedToken, Exists, Unused, database
<1> QED BY <1>1, <1>2 DEF IInv

LEMMA RedisLossKeeps ==
    ASSUME IInv, RedisLoss
    PROVE  IInv'
<1>1. Types'
  BY DEF IInv, Types, RedisLoss, database
<1>2. Stores'
  BY DEF Stores, RedisLoss
<1> QED BY <1>1, <1>2, QuietWorld DEF RedisLoss

LEMMA TickKeeps ==
    ASSUME IInv, Tick
    PROVE  IInv'
<1>1. Types'
  BY DurationsAssumption DEF IInv, Types, Tick, database, redis
<1>2. Stores'
  BY DEF IInv, Stores, Issued, Tick, database, redis
<1> QED BY <1>1, <1>2, QuietWorld DEF Tick

-----------------------------------------------------------------------------
(* The steps that write to the database or take a row lock.                *)

LEMMA DatabaseStep ==
    ASSUME IInv, NEW r \in Requests, Frame(r), Types', RequestOK(r)', Grows,
           \A q \in Requests : q # r => Respects(q),
           UNCHANGED redis, Rows', OneUnusedToken'
    PROVE  IInv'
<1>1. ASSUME NEW q \in Requests PROVE RequestOK(q)'
  <2>1. CASE q = r  BY <2>1
  <2>2. CASE q # r  BY <2>2, OtherRequestOK DEF IInv, Frame
  <2> QED BY <2>1, <2>2
<1>2. Stores'
  BY DEF IInv, Types, Stores, Issued, Grows, redis
<1> QED BY <1>1, <1>2 DEF IInv

\* A step that touches row locks only.
LEMMA LockStep ==
    ASSUME IInv, NEW r \in Requests, Frame(r), Types', RequestOK(r)',
           UNCHANGED <<sessions, tokens, redis>>,
           \A p \in Pairs : tokenLock'[p] # None => tokens[p].session # None,
           \A p \in Pairs, q \in Requests : (q # r /\ tokenLock[p] = q) => tokenLock'[p] = q,
           \A s \in Sessions, q \in Requests : (q # r /\ sessionLock[s] = q) => sessionLock'[s] = q
    PROVE  IInv'
<1>1. Grows /\ \A q \in Requests : q # r => Respects(q)
  BY DEF Grows, Respects, Exists
<1>2. Rows' /\ OneUnusedToken'
  BY DEF IInv, Rows, OneUnusedToken, Exists, Unused
<1> QED BY <1>1, <1>2, DatabaseStep

LEMMA EndsTransaction ==
    ASSUME Types, NEW r \in Requests, EndTransaction(r)
    PROVE  /\ tokenLock' \in [Pairs -> Refreshes \cup {None}]
           /\ sessionLock' \in [Sessions -> Refreshes \cup {None}]
           /\ \A p \in Pairs : tokenLock'[p] # None => tokenLock[p] # None
           /\ \A p \in Pairs, q \in Requests :
                 (q # r /\ tokenLock[p] = q) => tokenLock'[p] = q
           /\ \A s \in Sessions, q \in Requests :
                 (q # r /\ sessionLock[s] = q) => sessionLock'[s] = q
  BY DEF Types, EndTransaction, Without

\* A step of r that rolls its transaction back and ends the request.
LEMMA RollbackReturn ==
    ASSUME IInv, NEW r \in Requests, NEW answer \in Answers \ Pairs, Return(r, answer),
           pc[r] # "idle", EndTransaction(r), UNCHANGED <<world, sessions, tokens, redis>>
    PROVE  IInv'
<1>1. ControlType' /\ Frame(r)
  BY Returns DEF IInv
<1>2. Types'
  BY <1>1, EndsTransaction DEF IInv, Types, ControlType, world, redis
<1>3. RequestOK(r)'
  BY ReturnedOK
<1>4. \A p \in Pairs : tokenLock'[p] # None => tokens[p].session # None
  BY EndsTransaction DEF IInv, Rows
<1> QED BY <1>1, <1>2, <1>3, <1>4, EndsTransaction, LockStep DEF IInv

LEMMA AbortKeeps ==
    ASSUME IInv, NEW r \in Requests, Abort(r)
    PROVE  IInv'
<1>1. pc[r] # "idle" /\ "failed" \in Answers \ Pairs
  BY AnswerTypes DEF Abort
<1> QED BY <1>1, RollbackReturn DEF Abort

LEMMA SelectTokenKeeps ==
    ASSUME IInv, NEW r \in Requests, SelectToken(r)
    PROVE  IInv'
<1> DEFINE p == local[r].old
           new == [local[r] EXCEPT !.row = tokens[p].requestID, !.session = tokens[p].session]
<1>1. pc[r] = "selectToken" /\ pc[r] # "idle" /\ "selectSession" \in Labels
  BY DEF SelectToken, Labels
<1>2. r \in Refreshes
  BY <1>1 DEF IInv, RequestOK, PathOK, LoginLabels, AuthenticationLabels, Requests
<1>3. CASE p = Unknown
  <2>1. Return(r, "failed") /\ UNCHANGED tokenLock
    BY <1>3, RequestsAssumption DEF SelectToken, Requests, Pairs
  <2> QED BY <1>1, <2>1, AnswerTypes, QuietReturn DEF SelectToken, database
<1>4. CASE p # Unknown
  <2>1. /\ p \in Pairs /\ RowFree(tokenLock, p)
        /\ tokenLock' = [tokenLock EXCEPT ![p] = r]
        /\ local' = [local EXCEPT ![r] = [@ EXCEPT !.row = tokens[p].requestID,
                                                   !.session = tokens[p].session]]
        /\ Goto(r, "selectSession") /\ reply' = reply
    BY <1>4 DEF SelectToken
  <2>2. tokens[p].session # None /\ local[r].op \in Operations
    BY <1>1, <1>2, <1>4 DEF IInv, RequestOK, MemoryOK, Issued
  <2>3. /\ new \in Locals /\ new.row = tokens[p].requestID /\ new.session = tokens[p].session
        /\ new.old = p /\ new.op = local[r].op
    <3>1. local[r] \in Locals
      BY DEF IInv, Types
    <3>2. tokens[p] \in TokenRows
      BY <2>1 DEF IInv, Types
    <3>3. tokens[p].requestID \in Operations \cup {None} /\ tokens[p].session \in Sessions \cup {None}
      BY <3>2 DEF TokenRows
    <3> QED BY <3>1, <3>3 DEF Locals
  <2>4. local' = [local EXCEPT ![r] = new]
    BY <2>1 DEF IInv, Types
  <2>5. /\ ControlType' /\ Frame(r)
        /\ pc'[r] = "selectSession" /\ local'[r] = new /\ reply'[r] = reply[r]
    BY <1>1, <2>1, <2>3, <2>4, Moves DEF IInv
  <2> HIDE DEF new, p
  <2>6. Types'
    BY <1>2, <2>1, <2>5 DEF IInv, Types, ControlType, SelectToken, world, redis
  <2>7. PathOK(r)' /\ PendingOK(r)'
    BY <1>1, <1>2, <2>5 DEF IInv, RequestOK, PathOK, PendingOK, LoginLabels, RefreshLabels,
       AuthenticationLabels, Pending, SelectToken, Exists
  <2>8. MemoryOK(r)'
    BY <1>2, <2>1, <2>2, <2>3, <2>5 DEF MemoryOK, HoldsPair, HoldsIdentity, SelectToken, Issued
  <2>9. LocksOK(r)'
    BY <2>1, <2>3, <2>5 DEF IInv, Types, LocksOK, LocksSession, SelectToken
  <2>10. ReplyOK(r)'
    BY <2>5 DEF IInv, RequestOK, ReplyOK, Issued, SelectToken
  <2>11. \A t \in Pairs, q \in Requests : (q # r /\ tokenLock[t] = q) => tokenLock'[t] = q
    BY <2>1, RequestsAssumption DEF IInv, Types, RowFree
  <2>12. \A t \in Pairs : tokenLock'[t] # None => tokens[t].session # None
    BY <2>1, <2>2 DEF IInv, Types, Rows
  <2> QED BY <2>5, <2>6, <2>7, <2>8, <2>9, <2>10, <2>11, <2>12, LockStep DEF RequestOK, SelectToken
<1> QED BY <1>3, <1>4

LEMMA SelectSessionKeeps ==
    ASSUME IInv, NEW r \in Requests, SelectSession(r)
    PROVE  IInv'
<1> DEFINE s == local[r].session
           lookup == local[r].row
<1>1. pc[r] = "selectSession" /\ pc[r] # "idle" /\ {"extend", "revoke", "getResult"} \subseteq Labels
  BY DEF SelectSession, Labels
<1>2. r \in Refreshes
  BY <1>1 DEF IInv, RequestOK, PathOK, LoginLabels, AuthenticationLabels, Requests
<1>3. /\ Issued(local[r].old) /\ s = tokens[local[r].old].session /\ s \in Sessions
      /\ tokenLock[local[r].old] = r /\ lookup = tokens[local[r].old].requestID
  BY <1>1, <1>2 DEF IInv, Types, RequestOK, MemoryOK, LocksOK, KnowsSession, LocksToken, Issued,
     TokenRows
<1>4. CASE Return(r, "unauthorized") /\ EndTransaction(r)
  BY <1>1, <1>4, AnswerTypes, RollbackReturn DEF SelectSession
<1>5. CASE /\ local' = [local EXCEPT ![r].session = RetryIdentity(r)]
           /\ Goto(r, "getResult") /\ EndTransaction(r) /\ UNCHANGED reply
  <2>1. local' = local
    BY <1>5 DEF IInv, Types, Locals, RetryIdentity
  <2>2. /\ ControlType' /\ Frame(r)
        /\ pc'[r] = "getResult" /\ local'[r] = local[r] /\ reply'[r] = reply[r]
    BY <1>1, <1>5, <2>1, GoesOn DEF IInv
  <2>3. Types'
    BY <1>5, <2>2, EndsTransaction DEF IInv, Types, ControlType, SelectSession, world, redis
  <2>4. PathOK(r)' /\ PendingOK(r)'
    BY <1>1, <2>2 DEF IInv, RequestOK, PathOK, PendingOK, LoginLabels, RefreshLabels,
       AuthenticationLabels, Pending
  <2>5. MemoryOK(r)'
    BY <1>1, <1>2, <1>3, <2>2 DEF IInv, RequestOK, MemoryOK, HoldsPair, HoldsIdentity,
       SelectSession, Issued
  <2>6. LocksOK(r)' /\ ReplyOK(r)'
    BY <2>2 DEF IInv, RequestOK, LocksOK, ReplyOK, Issued, LocksToken, LocksSession, SelectSession
  <2>7. \A p \in Pairs : tokenLock'[p] # None => tokens[p].session # None
    BY <1>5, EndsTransaction DEF IInv, Rows
  <2> QED BY <1>5, <2>2, <2>3, <2>4, <2>5, <2>6, <2>7, EndsTransaction, LockStep
          DEF IInv, RequestOK, SelectSession
<1>6. CASE /\ Goto(r, IF lookup # None THEN "revoke" ELSE "extend")
           /\ sessionLock' = [sessionLock EXCEPT ![s] = r]
           /\ UNCHANGED <<tokenLock, local, reply>>
  <2> DEFINE label == IF lookup # None THEN "revoke" ELSE "extend"
  <2>1. label \in Labels /\ label \in {"revoke", "extend"} /\ (label = "extend" <=> lookup = None)
    BY <1>1
  <2> HIDE DEF label
  <2>2. /\ ControlType' /\ Frame(r)
        /\ pc'[r] = label /\ local'[r] = local[r] /\ reply'[r] = reply[r]
    BY <1>6, <2>1, GoesOn DEF IInv, label
  <2>3. Types'
    BY <1>2, <1>3, <1>6, <2>2 DEF IInv, Types, ControlType, SelectSession, world, redis
  <2>4. PathOK(r)' /\ PendingOK(r)'
    BY <1>1, <2>1, <2>2 DEF IInv, RequestOK, PathOK, PendingOK, LoginLabels, RefreshLabels,
       AuthenticationLabels, Pending, SelectSession, Exists
  <2>5. MemoryOK(r)'
    BY <1>1, <1>2, <1>3, <2>1, <2>2 DEF IInv, RequestOK, MemoryOK, HoldsPair, HoldsIdentity,
       SelectSession, Issued
  <2>6. LocksOK(r)'
    BY <1>3, <1>6, <2>1, <2>2 DEF IInv, Types, LocksOK, SelectSession
  <2>7. ReplyOK(r)'
    BY <2>2 DEF IInv, RequestOK, ReplyOK, Issued, SelectSession
  <2>8. \A t \in Sessions, q \in Requests : (q # r /\ sessionLock[t] = q) => sessionLock'[t] = q
    <3>1. sessionLock[s] = None
      BY DEF SelectSession, RowFree
    <3> QED BY <1>3, <1>6, <3>1, RequestsAssumption DEF IInv, Types
  <2>9. \A p \in Pairs : tokenLock'[p] # None => tokens[p].session # None
    BY <1>6 DEF IInv, Rows
  <2> QED BY <1>6, <2>2, <2>3, <2>4, <2>5, <2>6, <2>7, <2>8, <2>9, LockStep
          DEF RequestOK, SelectSession
<1> QED BY <1>4, <1>5, <1>6 DEF SelectSession

LEMMA CreateSessionKeeps ==
    ASSUME IInv, NEW r \in Requests, CreateSession(r)
    PROVE  IInv'
<1> DEFINE new == [local[r] EXCEPT !.session = r, !.pair = r]
           end == local[r].now + SessionLifetime
<1>1. pc[r] = "createSession" /\ "storeLogin" \in Labels
  BY DEF CreateSession, Labels
<1>2. r \in Logins /\ r \in Pairs /\ r \in Sessions /\ r \notin Refreshes
  <2>1. r \in Logins
    BY <1>1 DEF IInv, RequestOK, PathOK, RefreshLabels, AuthenticationLabels, Requests
  <2> QED BY <2>1, RequestsAssumption DEF Pairs, Sessions
<1>3. tokens[r].session = None /\ ~Exists(r) /\ tokens[r].requestID = None /\ r # None
  BY <1>1, <1>2, RequestsAssumption DEF IInv, RequestOK, PendingOK, Pending, Rows, Requests
<1>4. new \in Locals /\ new.session = r /\ new.pair = r
  BY <1>2 DEF IInv, Types, Locals
<1>5. local' = [local EXCEPT ![r] = new]
  BY DEF IInv, Types, CreateSession
<1>6. /\ ControlType' /\ Frame(r)
      /\ pc'[r] = "storeLogin" /\ local'[r] = new /\ reply'[r] = reply[r]
  BY <1>1, <1>4, <1>5, Moves DEF IInv, CreateSession
<1>7. end \in Nat /\ end # None
  BY DurationsAssumption, RequestsAssumption DEF IInv, Types, Locals
<1>8. sessions' = [sessions EXCEPT ![r].expiresAt = end] /\ tokens' = [tokens EXCEPT ![r].session = r]
  BY DEF CreateSession
<1> HIDE DEF new, end
<1>9. /\ sessions' \in [Sessions -> SessionRows] /\ tokens' \in [Pairs -> TokenRows]
      /\ \A p \in Pairs : p # r => tokens'[p] = tokens[p]
      /\ \A s \in Sessions : s # r => sessions'[s] = sessions[s]
      /\ tokens'[r].session = r /\ tokens'[r].requestID = None /\ sessions'[r].expiresAt # None
  BY <1>2, <1>3, <1>7, <1>8 DEF IInv, Types, SessionRows, TokenRows
<1>10. Types'
  BY <1>6, <1>9 DEF IInv, Types, ControlType, CreateSession, world, redis
<1>11. RequestOK(r)'
  <2>1. PathOK(r)' /\ PendingOK(r)'
    BY <1>1, <1>6 DEF IInv, RequestOK, PathOK, PendingOK, LoginLabels, RefreshLabels,
       AuthenticationLabels, Pending
  <2>2. MemoryOK(r)'
    BY <1>2, <1>3, <1>4, <1>6, <1>9 DEF MemoryOK, HoldsIdentity, Issued
  <2>3. LocksOK(r)'
    BY <1>2, <1>6 DEF LocksOK
  <2>4. ReplyOK(r)'
    BY <1>3, <1>6, <1>9 DEF IInv, RequestOK, ReplyOK, Issued
  <2> QED BY <2>1, <2>2, <2>3, <2>4 DEF RequestOK
<1>12. Grows
  BY <1>3, <1>9 DEF Grows, Exists
<1>13. \A q \in Requests : q # r => Respects(q)
  <2>1. ASSUME NEW q \in Requests PROVE tokenLock[r] # q
    BY <1>2, <1>3, <2>1, RequestsAssumption DEF IInv, Rows
  <2> QED BY <1>2, <1>9, <2>1 DEF Respects, CreateSession, Exists, Pairs, Sessions
<1>14. Rows'
  <2>1. ASSUME NEW p \in Pairs, tokens'[p].session # None
        PROVE  sessions'[tokens'[p].session].expiresAt # None
    <3>1. CASE p = r  BY <1>9, <3>1
    <3>2. CASE p # r
      BY <1>9, <2>1, <3>2 DEF IInv, Types, Rows, Exists, TokenRows
    <3> QED BY <3>1, <3>2
  <2>2. ASSUME NEW p \in Pairs, tokens'[p].session = None
        PROVE  tokens'[p].requestID = None
    BY <1>9, <2>2 DEF IInv, Rows
  <2>3. ASSUME NEW p \in Pairs, tokenLock'[p] # None PROVE tokens'[p].session # None
    BY <1>3, <1>9, <2>3 DEF IInv, Rows, CreateSession
  <2> QED BY <2>1, <2>2, <2>3 DEF Rows, Exists
<1>15. OneUnusedToken'
  <2>1. \A p \in Pairs : tokens[p].session # r
    BY <1>3 DEF IInv, Rows
  <2> QED BY <1>2, <1>3, <1>9, <2>1 DEF IInv, OneUnusedToken, Unused, Exists
<1> QED BY <1>6, <1>10, <1>11, <1>12, <1>13, <1>14, <1>15, DatabaseStep DEF CreateSession

\* What the transaction of a refresh relies on when it commits.
LEMMA OpenTransaction ==
    ASSUME IInv, NEW r \in Requests, pc[r] \in LocksSession
    PROVE  /\ r \in Refreshes
           /\ local[r].old \in Pairs /\ tokens[local[r].old].session # None
           /\ local[r].session = tokens[local[r].old].session
           /\ local[r].session \in Sessions /\ Exists(local[r].session)
           /\ tokenLock[local[r].old] = r /\ sessionLock[local[r].session] = r
           /\ local[r].row = tokens[local[r].old].requestID
           /\ local[r].op \in Operations
           /\ local[r].now \in Nat
<1>1. r \in Refreshes /\ pc[r] # "idle"
  BY DEF IInv, RequestOK, PathOK, LoginLabels, AuthenticationLabels, LocksSession, Requests
<1>2. /\ local[r].old \in Pairs /\ tokens[local[r].old].session # None
      /\ local[r].session = tokens[local[r].old].session /\ local[r].op \in Operations
  BY <1>1 DEF IInv, RequestOK, MemoryOK, LocksSession, KnowsSession, Issued
<1>3. local[r].session \in Sessions /\ Exists(local[r].session) /\ local[r].now \in Nat
  BY <1>2 DEF IInv, Types, TokenRows, Rows, Locals
<1>4. /\ tokenLock[local[r].old] = r /\ sessionLock[local[r].session] = r
      /\ local[r].row = tokens[local[r].old].requestID
  BY <1>1 DEF IInv, RequestOK, LocksOK, LocksSession, LocksToken
<1> QED BY <1>1, <1>2, <1>3, <1>4

LEMMA CommitRevokeKeeps ==
    ASSUME IInv, NEW r \in Requests, CommitRevoke(r)
    PROVE  IInv'
<1> DEFINE s == local[r].session
<1>1. pc[r] = "revoke" /\ pc[r] \in LocksSession /\ "cacheRevoked" \in Labels
  BY DEF CommitRevoke, LocksSession, Labels
<1>2. r \in Refreshes /\ s \in Sessions /\ Exists(s) /\ local[r].now \in Nat
  BY <1>1, OpenTransaction
<1>3. /\ ControlType' /\ Frame(r)
      /\ pc'[r] = "cacheRevoked" /\ local'[r] = local[r] /\ reply'[r] = reply[r]
  BY <1>1, GoesOn DEF IInv, CommitRevoke
<1>4. /\ sessions' \in [Sessions -> SessionRows]
      /\ \A t \in Sessions : sessions'[t].expiresAt = sessions[t].expiresAt
  BY <1>2 DEF IInv, Types, SessionRows, CommitRevoke
<1>5. Types'
  BY <1>3, <1>4, EndsTransaction DEF IInv, Types, ControlType, CommitRevoke, world, redis
<1>6. RequestOK(r)'
  <2>1. PathOK(r)' /\ PendingOK(r)'
    BY <1>1, <1>3 DEF IInv, RequestOK, PathOK, PendingOK, LoginLabels, RefreshLabels,
       AuthenticationLabels, Pending
  <2>2. MemoryOK(r)'
    BY <1>1, <1>2, <1>3 DEF IInv, RequestOK, MemoryOK, KnowsSession, HoldsPair, HoldsIdentity,
       Issued, CommitRevoke
  <2>3. LocksOK(r)' /\ ReplyOK(r)'
    BY <1>3 DEF IInv, RequestOK, LocksOK, ReplyOK, Issued, LocksToken, LocksSession, CommitRevoke
  <2> QED BY <2>1, <2>2, <2>3 DEF RequestOK
<1>7. Grows
  BY <1>4 DEF Grows, Exists, CommitRevoke
<1>8. \A q \in Requests : q # r => Respects(q)
  BY <1>4, EndsTransaction DEF IInv, Respects, Exists, CommitRevoke, Pairs, Sessions
<1>9. Rows'
  <2>1. \A p \in Pairs : tokens[p].session # None => tokens[p].session \in Sessions
    BY DEF IInv, Types, TokenRows
  <2> QED BY <1>4, <2>1, EndsTransaction DEF IInv, Rows, Exists, CommitRevoke
<1>10. OneUnusedToken'
  BY <1>4 DEF IInv, OneUnusedToken, Exists, Unused, CommitRevoke
<1> QED BY <1>3, <1>5, <1>6, <1>7, <1>8, <1>9, <1>10, DatabaseStep DEF CommitRevoke

LEMMA CommitExtendKeeps ==
    ASSUME IInv, NEW r \in Requests, CommitExtend(r)
    PROVE  IInv'
<1> DEFINE s == local[r].session
           p == local[r].old
           op == local[r].op
           end == local[r].now + SessionLifetime
           new == [local[r] EXCEPT !.pair = r]
<1>1. pc[r] = "extend" /\ pc[r] \in LocksSession /\ "storeResult" \in Labels
  BY DEF CommitExtend, LocksSession, Labels
<1>2. /\ r \in Refreshes /\ r \in Pairs /\ p \in Pairs /\ op \in Operations
      /\ s \in Sessions /\ s # None /\ Exists(s)
      /\ tokens[p].session = s /\ tokenLock[p] = r
  BY <1>1, OpenTransaction DEF Pairs
<1>3. tokens[p].requestID = None
  BY <1>1, OpenTransaction DEF IInv, RequestOK, LocksOK
<1>4. tokens[r].session = None /\ p # r
  BY <1>1, <1>2 DEF IInv, RequestOK, PendingOK, Pending
<1>5. end \in Nat /\ end # None /\ op # None
  BY <1>1, <1>2, OpenTransaction, DurationsAssumption, RequestsAssumption
<1>6. new \in Locals /\ new.old = p /\ new.session = s /\ new.pair = r /\ new.op = op
  BY <1>2 DEF IInv, Types, Locals
<1>7. local' = [local EXCEPT ![r] = new]
  BY DEF IInv, Types, CommitExtend
<1>8. /\ ControlType' /\ Frame(r)
      /\ pc'[r] = "storeResult" /\ local'[r] = new /\ reply'[r] = reply[r]
  BY <1>1, <1>6, <1>7, Moves DEF IInv, CommitExtend
<1>9. /\ tokens' = [tokens EXCEPT ![p] = [session |-> s, requestID |-> op],
                                  ![r] = [session |-> s, requestID |-> None]]
      /\ sessions' = [sessions EXCEPT ![s].expiresAt = end]
  BY DEF CommitExtend
<1> HIDE DEF new, end, s, p, op
<1>10. /\ tokens' \in [Pairs -> TokenRows] /\ sessions' \in [Sessions -> SessionRows]
       /\ tokens'[p].session = s /\ tokens'[p].requestID = op
       /\ tokens'[r].session = s /\ tokens'[r].requestID = None
       /\ \A t \in Pairs : (t # p /\ t # r) => tokens'[t] = tokens[t]
       /\ \A t \in Sessions : Exists(t) <=> sessions'[t].expiresAt # None
  <2> DEFINE used == [session |-> s, requestID |-> op]
             unused == [session |-> s, requestID |-> None]
  <2>1. /\ used \in TokenRows /\ used.session = s /\ used.requestID = op
        /\ unused \in TokenRows /\ unused.session = s /\ unused.requestID = None
    BY <1>2 DEF TokenRows
  <2> HIDE DEF used, unused
  <2>2. tokens' = [tokens EXCEPT ![p] = used, ![r] = unused]
    BY <1>9 DEF used, unused
  <2>3. /\ tokens' \in [Pairs -> TokenRows] /\ tokens'[p] = used /\ tokens'[r] = unused
        /\ \A t \in Pairs : (t # p /\ t # r) => tokens'[t] = tokens[t]
    BY <1>2, <1>4, <2>1, <2>2 DEF IInv, Types
  <2>4. /\ sessions' \in [Sessions -> SessionRows]
        /\ \A t \in Sessions : Exists(t) <=> sessions'[t].expiresAt # None
    BY <1>2, <1>5, <1>9 DEF IInv, Types, SessionRows, Exists
  <2> QED BY <2>1, <2>3, <2>4
<1>11. Types'
  BY <1>8, <1>10, EndsTransaction DEF IInv, Types, ControlType, CommitExtend, world, redis
<1>12. RequestOK(r)'
  <2>1. PathOK(r)' /\ PendingOK(r)'
    BY <1>1, <1>8 DEF IInv, RequestOK, PathOK, PendingOK, LoginLabels, RefreshLabels,
       AuthenticationLabels, Pending
  <2>2. MemoryOK(r)'
    BY <1>2, <1>5, <1>6, <1>8, <1>10 DEF MemoryOK, HoldsIdentity, Issued
  <2>3. LocksOK(r)'
    BY <1>8 DEF LocksOK, LocksToken, LocksSession
  <2>4. ReplyOK(r)'
    BY <1>2, <1>4, <1>8, <1>10 DEF IInv, RequestOK, ReplyOK, Issued
  <2> QED BY <2>1, <2>2, <2>3, <2>4 DEF RequestOK
<1>13. Grows
  BY <1>2, <1>3, <1>4, <1>10 DEF Grows, Exists
<1>14. \A q \in Requests : q # r => Respects(q)
  <2>1. \A q \in Requests : q # r => tokenLock[p] # q /\ tokenLock[r] # q
    BY <1>2, <1>4, RequestsAssumption DEF IInv, Rows
  <2> QED BY <1>2, <1>10, <2>1, EndsTransaction DEF IInv, Respects, CommitExtend, Exists, Pairs,
             Sessions
<1>15. Rows'
  <2>1. \A t \in Pairs : tokens'[t].session # None =>
           tokens'[t].session \in Sessions /\ Exists(tokens'[t].session)
    BY <1>2, <1>10 DEF IInv, Types, Rows, TokenRows
  <2>2. \A t \in Pairs : tokens'[t].session # None => sessions'[tokens'[t].session].expiresAt # None
    BY <1>10, <2>1
  <2>3. \A t \in Pairs : tokens'[t].session = None => tokens'[t].requestID = None
    BY <1>2, <1>10 DEF IInv, Rows
  <2>4. \A t \in Pairs : tokenLock'[t] # None => tokens'[t].session # None
    BY <1>2, <1>10, EndsTransaction DEF IInv, Rows, CommitExtend
  <2> QED BY <2>2, <2>3, <2>4 DEF Rows, Exists
<1>16. OneUnusedToken'
  <2>1. ASSUME NEW t \in Sessions, sessions'[t].expiresAt # None
        PROVE  \E q \in Pairs : /\ tokens'[q].session # None /\ tokens'[q].requestID = None
                                /\ tokens'[q].session = t
    <3>1. CASE t = s  BY <1>2, <1>10, <3>1
    <3>2. CASE t # s
      <4>1. PICK q \in Pairs : Unused(q) /\ tokens[q].session = t
        BY <1>10, <2>1 DEF IInv, OneUnusedToken
      <4> QED BY <1>2, <1>4, <1>10, <3>2, <4>1 DEF Unused
    <3> QED BY <3>1, <3>2
  <2>2. ASSUME NEW t \in Sessions, NEW q \in Pairs, NEW u \in Pairs,
               tokens'[q].session = t, tokens'[q].requestID = None,
               tokens'[u].session = t, tokens'[u].requestID = None
        PROVE  q = u
    <3>1. q # p /\ u # p
      BY <1>5, <1>10, <2>2
    <3>2. ASSUME NEW v \in Pairs, v # p, v # r, tokens[v].session = s, tokens[v].requestID = None
          PROVE  FALSE
      BY <1>2, <1>3, <3>2 DEF IInv, OneUnusedToken, Unused
    <3>3. t # None
      BY RequestsAssumption DEF Sessions, Requests
    <3> QED BY <1>10, <2>2, <3>1, <3>2, <3>3 DEF IInv, OneUnusedToken, Unused
  <2> QED BY <2>1, <2>2 DEF OneUnusedToken, Unused, Exists
<1> QED BY <1>8, <1>11, <1>12, <1>13, <1>14, <1>15, <1>16, DatabaseStep DEF CommitExtend

-----------------------------------------------------------------------------
(* The theorems.                                                           *)

LEMMA InitIInv == Init => IInv
<1> SUFFICES ASSUME Init PROVE IInv
  OBVIOUS
<1>1. Types
  <2>1. Blank \in Locals
    BY DEF Locals, Blank, NoSessionRow, SessionRows
  <2> QED BY <2>1 DEF Init, Types, NoSessionRow, NoTokenRow, SessionRows, TokenRows, Labels
<1>2. ASSUME NEW r \in Requests PROVE RequestOK(r)
  <2>1. pc[r] = "idle" /\ local[r] = Blank /\ reply[r] = None
    BY DEF Init
  <2>2. PathOK(r) /\ MemoryOK(r) /\ LocksOK(r)
    BY <2>1 DEF PathOK, MemoryOK, LocksOK, LoginLabels, RefreshLabels, AuthenticationLabels,
       LocksToken, LocksSession, KnowsSession, HoldsPair, HoldsIdentity
  <2>3. PendingOK(r)
    BY DEF Init, PendingOK, Exists, NoTokenRow, NoSessionRow, Sessions
  <2>4. ReplyOK(r)
    BY <2>1, RequestsAssumption DEF ReplyOK, Requests, Pairs
  <2> QED BY <2>2, <2>3, <2>4 DEF RequestOK
<1>3. Rows /\ Stores /\ OneUnusedToken
  BY DEF Init, Rows, Stores, OneUnusedToken, Exists, Unused, NoTokenRow, NoSessionRow
<1> QED BY <1>1, <1>2, <1>3 DEF IInv

LEMMA NextIInv == IInv /\ [Next]_vars => IInv'
<1> SUFFICES ASSUME IInv, [Next]_vars PROVE IInv'
  OBVIOUS
<1>1. CASE UNCHANGED vars
  <2>1. Types' /\ Stores'
    BY <1>1 DEF IInv, Types, Stores, Issued, vars
  <2> QED BY <1>1, <2>1, QuietWorld DEF vars, database
<1>2. CASE Arrive
  BY <1>2, StartLoginKeeps, StartRefreshKeeps, StartAuthenticateKeeps DEF Arrive
<1>3. ASSUME NEW r \in Requests, Step(r) PROVE IInv'
  BY <1>3, CreateSessionKeeps, StoreAccessTokenKeeps, RespondKeeps, SelectTokenKeeps,
     SelectSessionKeeps, CommitExtendKeeps, CommitRevokeKeeps, StoreResultKeeps, GetResultKeeps,
     CacheActiveKeeps, CacheRevokedKeeps, GetAccessKeeps, GetSessionKeeps, GetSessionStateKeeps,
     SampleNowKeeps, CacheStateKeeps DEF Step
<1>4. ASSUME NEW r \in Requests, Abort(r) PROVE IInv'
  BY <1>4, AbortKeeps
<1>5. CASE RedisLoss
  BY <1>5, RedisLossKeeps
<1>6. CASE Tick
  BY <1>6, TickKeeps
<1> QED BY <1>1, <1>2, <1>3, <1>4, <1>5, <1>6 DEF Next

THEOREM Invariance == Spec => []IInv
BY InitIInv, NextIInv, PTL DEF Spec

\* ExtendSession never forks the chain of refresh tokens of a session and never ends it.
THEOREM TokenChain == Spec => []OneUnusedToken
<1>1. IInv => OneUnusedToken
  BY DEF IInv
<1> QED BY <1>1, Invariance, PTL

\* An access token or a stored refresh result in Redis never crosses to another session.
THEOREM StoresAgree == Spec => []StoresFollowDatabase
<1>1. IInv => StoresFollowDatabase
  BY DEF IInv, Stores, StoresFollowDatabase
<1> QED BY <1>1, Invariance, PTL

-----------------------------------------------------------------------------
(* Time and revocation: the invariant.                                     *)

\* Labels of a refresh that has not written yet.
BeforeCommit == {"selectToken", "selectSession", "extend"}

\* No request and no session lives ahead of the clock, and the token that a refresh is going
\* to use up was received before the refresh began: what the last refresh computed from its
\* own time is not later than what this one is going to compute.
NowOK(r) ==
    /\ local[r].now <= clock
    /\ (r \in Refreshes /\ pc[r] \in BeforeCommit /\ Issued(local[r].old) /\ Unused(local[r].old))
          => sessions[tokens[local[r].old].session].expiresAt <= local[r].now + SessionLifetime

ExpiryOK(s) == Exists(s) => sessions[s].expiresAt <= clock + SessionLifetime

\* Who holds the row of a session has seen that it is not revoked, and the revoking refresh
\* writes to the cache after its commit.
RevocationOK(r) ==
    /\ (r \in Refreshes /\ pc[r] \in LocksSession) => ~Revoked(local[r].session)
    /\ (r \in Refreshes /\ pc[r] = "cacheRevoked") => Revoked(local[r].session)

TInv ==
    /\ IInv
    /\ \A r \in Requests : NowOK(r) /\ RevocationOK(r)
    /\ \A s \in Sessions : ExpiryOK(s)
    /\ LongRefusalMeansRevoked

-----------------------------------------------------------------------------
(* What a step does to the request that takes it.                          *)

\* What makes the middleware let r in.
LetIn(r) ==
    \/ /\ pc[r] = "getSession"
       /\ Live(sessionCache[local[r].session]) /\ sessionCache[local[r].session].active
    \/ pc[r] = "cacheState" /\ IsActive(local[r].seen, local[r].now)

\* Where r can come from, by the label it comes to, and what it takes along.
Effect(r) ==
    /\ Frame(r)
    /\ local'[r].now \in {local[r].now, 0, clock}
    /\ pc'[r] # "selectToken"
    /\ pc'[r] \in LocksToken =>
          /\ pc[r] \in {"selectToken", "selectSession"}
          /\ local'[r].old = local[r].old /\ local'[r].now = local[r].now
    /\ pc'[r] \in LocksSession =>
          /\ pc[r] = "selectSession" /\ local'[r].session = local[r].session
          /\ IsActive(sessions[local[r].session], local[r].now)
    /\ pc'[r] = "cacheRevoked" => CommitRevoke(r) /\ local'[r].session = local[r].session
    /\ pc'[r] \in {"storeResult", "storeAccess", "cacheActive"} =>
          /\ pc[r] \in {"extend", "storeResult", "storeAccess"}
          /\ pc[r] = "extend" => CommitExtend(r)
          /\ local'[r].session = local[r].session /\ local'[r].now = local[r].now
    /\ pc'[r] \in {"sampleNow", "cacheState"} =>
          /\ local'[r].session = local[r].session
          /\ \/ pc[r] = "readState" /\ local'[r].seen = sessions[local[r].session]
             \/ pc[r] = "sampleNow" /\ local'[r].seen = local[r].seen
    /\ reply'[r] = "accepted" => reply[r] = "accepted" \/ LetIn(r)

LEMMA ReturnEffect ==
    ASSUME IInv, NEW r \in Requests, NEW answer \in Answers, Return(r, answer),
           answer = "accepted" => LetIn(r)
    PROVE  Effect(r)
<1> DEFINE left == [Blank EXCEPT !.old = local[r].old, !.op = local[r].op]
<1>1. Frame(r) /\ pc'[r] = "done" /\ reply'[r] = answer
  BY Returns DEF IInv
<1>2. left.now = 0
  BY DEF Blank
<1>3. local' = [local EXCEPT ![r] = left]
  BY DEF Return
<1> HIDE DEF left
<1>4. local'[r].now = 0
  BY <1>2, <1>3 DEF IInv, Types
<1> QED BY <1>1, <1>4 DEF Effect, LocksToken, LocksSession

LEMMA StartEffect ==
    ASSUME IInv, NEW r \in Requests,
           \/ StartLogin(r) \/ \E p : StartAuthenticate(r, p)
           \/ \E p, o : StartRefresh(r, p, o)
    PROVE  /\ Frame(r) /\ local'[r].now \in {local[r].now, clock}
           /\ pc'[r] \in {"createSession", "selectToken", "getAccess"}
           /\ pc'[r] = "selectToken" => local'[r].now = clock
           /\ reply'[r] = reply[r]
<1>1. local[r] \in Locals
  BY DEF IInv, Types
<1>2. CASE StartLogin(r)
  BY <1>1, <1>2 DEF IInv, Types, StartLogin, Frame, Goto, Locals
<1>3. ASSUME NEW p, StartAuthenticate(r, p)
      PROVE  /\ Frame(r) /\ pc'[r] = "getAccess" /\ local'[r].now = local[r].now
             /\ reply'[r] = reply[r]
  BY <1>1, <1>3 DEF IInv, Types, StartAuthenticate, Frame, Goto, Locals
<1>4. ASSUME NEW p, NEW o, StartRefresh(r, p, o)
      PROVE  /\ Frame(r) /\ pc'[r] = "selectToken" /\ local'[r].now = clock
             /\ reply'[r] = reply[r]
  BY <1>1, <1>4 DEF IInv, Types, StartRefresh, Frame, Goto, Locals
<1> QED BY <1>2, <1>3, <1>4

LEMMA StepEffect ==
    ASSUME IInv, NEW r \in Requests, Step(r) \/ Abort(r)
    PROVE  Effect(r)
<1> USE DEF LocksToken, LocksSession
<1>0. local[r] \in Locals
  BY DEF IInv, Types
<1>1. CASE Abort(r)
  BY <1>1, ReturnEffect, AnswerTypes DEF Abort
<1>2. CASE CreateSession(r)
  <2> DEFINE new == [local[r] EXCEPT !.session = r, !.pair = r]
  <2>1. local' = [local EXCEPT ![r] = new]
    BY <1>2 DEF IInv, Types, CreateSession
  <2>2. new.now = local[r].now
    BY <1>0 DEF Locals
  <2> HIDE DEF new
  <2>3. Frame(r) /\ pc'[r] = "storeLogin" /\ local'[r] = new /\ reply'[r] = reply[r]
    BY <1>2, <2>1 DEF CreateSession, IInv, Types, Goto, Frame
  <2> QED BY <1>2, <2>2, <2>3 DEF CreateSession, Effect
<1>3. CASE StoreAccessToken(r)
  BY <1>3 DEF StoreAccessToken, IInv, Types, Goto, Frame, Effect
<1>4. CASE Respond(r)
  <2>1. local[r].pair \in Pairs
    BY <1>4 DEF Respond, IInv, RequestOK, MemoryOK, HoldsPair, Issued
  <2>2. local[r].pair \in Answers /\ local[r].pair # "accepted"
    BY <2>1, AnswerTypes DEF Answers
  <2> QED BY <1>4, <2>2, ReturnEffect DEF Respond
<1>5. CASE SelectToken(r)
  <2>1. CASE Return(r, "failed")
    BY <2>1, ReturnEffect, AnswerTypes
  <2>2. CASE ~Return(r, "failed")
    <3> DEFINE p == local[r].old
               new == [local[r] EXCEPT !.row = tokens[p].requestID, !.session = tokens[p].session]
    <3>1. /\ pc[r] = "selectToken" /\ Goto(r, "selectSession") /\ UNCHANGED reply
          /\ local' = [local EXCEPT ![r] = new]
      BY <1>5, <2>2 DEF IInv, Types, SelectToken
    <3>2. new.now = local[r].now /\ new.old = local[r].old
      BY <1>0 DEF Locals
    <3> HIDE DEF new
    <3>3. Frame(r) /\ pc'[r] = "selectSession" /\ local'[r] = new /\ reply'[r] = reply[r]
      BY <3>1 DEF IInv, Types, Goto, Frame
    <3> QED BY <3>1, <3>2, <3>3 DEF Effect
  <2> QED BY <2>1, <2>2
<1>6. CASE SelectSession(r)
  <2>1. CASE Return(r, "unauthorized")
    BY <2>1, ReturnEffect, AnswerTypes
  <2>2. CASE ~Return(r, "unauthorized")
    <3>1. /\ pc[r] = "selectSession" /\ IsActive(sessions[local[r].session], local[r].now)
          /\ UNCHANGED reply
      BY <1>6, <2>2 DEF SelectSession
    <3>2. local' = local
      BY <1>6, <2>2 DEF SelectSession, RetryIdentity, IInv, Types, Locals
    <3>3. PICK label \in {"getResult", "revoke", "extend"} : Goto(r, label)
      BY <1>6, <2>2 DEF SelectSession
    <3>4. Frame(r) /\ pc'[r] = label /\ local'[r] = local[r] /\ reply'[r] = reply[r]
      BY <3>1, <3>2, <3>3 DEF IInv, Types, Goto, Frame
    <3> QED BY <3>1, <3>4 DEF Effect
  <2> QED BY <2>1, <2>2
<1>7. CASE CommitExtend(r)
  <2> DEFINE new == [local[r] EXCEPT !.pair = r]
  <2>1. local' = [local EXCEPT ![r] = new]
    BY <1>7 DEF IInv, Types, CommitExtend
  <2>2. new.now = local[r].now /\ new.session = local[r].session
    BY <1>0 DEF Locals
  <2> HIDE DEF new
  <2>3. Frame(r) /\ pc'[r] = "storeResult" /\ local'[r] = new /\ reply'[r] = reply[r]
    BY <1>7, <2>1 DEF CommitExtend, IInv, Types, Goto, Frame
  <2> QED BY <1>7, <2>2, <2>3 DEF CommitExtend, Effect
<1>8. CASE CommitRevoke(r)
  <2>1. Frame(r) /\ pc'[r] = "cacheRevoked" /\ local'[r] = local[r] /\ reply'[r] = reply[r]
    BY <1>8 DEF CommitRevoke, IInv, Types, Goto, Frame
  <2> QED BY <1>8, <2>1 DEF Effect
<1>9. CASE StoreResult(r) \/ CacheActive(r)
  BY <1>9 DEF StoreResult, CacheActive, IInv, Types, Goto, Frame, Effect
<1>10. CASE GetResult(r)
  <2>1. CASE Return(r, "unauthorized")
    BY <2>1, ReturnEffect, AnswerTypes
  <2>2. CASE ~Return(r, "unauthorized")
    <3> DEFINE new == [local[r] EXCEPT !.pair = refreshResults[local[r].old].pair]
    <3>1. /\ Goto(r, "restoreAccess") /\ UNCHANGED reply
          /\ local' = [local EXCEPT ![r] = new]
      BY <1>10, <2>2 DEF IInv, Types, GetResult
    <3>2. new.now = local[r].now
      BY <1>0 DEF Locals
    <3> HIDE DEF new
    <3>3. Frame(r) /\ pc'[r] = "restoreAccess" /\ local'[r] = new /\ reply'[r] = reply[r]
      BY <3>1 DEF IInv, Types, Goto, Frame
    <3> QED BY <3>1, <3>2, <3>3 DEF Effect
  <2> QED BY <2>1, <2>2
<1>11. CASE CacheRevoked(r)
  BY <1>11, ReturnEffect, AnswerTypes DEF CacheRevoked
<1>12. CASE GetAccess(r)
  <2>1. CASE Return(r, "unauthorized")
    BY <2>1, ReturnEffect, AnswerTypes
  <2>2. CASE ~Return(r, "unauthorized")
    <3> DEFINE new == [local[r] EXCEPT !.session = accessTokens[local[r].old].session]
    <3>1. /\ Goto(r, "getSession") /\ UNCHANGED reply
          /\ local' = [local EXCEPT ![r] = new]
      BY <1>12, <2>2 DEF IInv, Types, GetAccess
    <3>2. new.now = local[r].now
      BY <1>0 DEF Locals
    <3> HIDE DEF new
    <3>3. Frame(r) /\ pc'[r] = "getSession" /\ local'[r] = new /\ reply'[r] = reply[r]
      BY <3>1 DEF IInv, Types, Goto, Frame
    <3> QED BY <3>1, <3>2, <3>3 DEF Effect
  <2> QED BY <2>1, <2>2
<1>13. CASE GetSession(r)
  <2>1. CASE Goto(r, "readState") /\ UNCHANGED <<local, reply>>
    BY <2>1 DEF IInv, Types, Goto, Frame, Effect
  <2>2. CASE /\ Live(sessionCache[local[r].session])
             /\ Return(r, IF sessionCache[local[r].session].active
                          THEN "accepted" ELSE "unauthorized")
    <3>1. PICK answer \in {"accepted", "unauthorized"} :
             /\ Return(r, answer)
             /\ answer = "accepted" => sessionCache[local[r].session].active
      BY <2>2
    <3>2. answer = "accepted" => LetIn(r)
      BY <1>13, <2>2, <3>1 DEF LetIn, GetSession
    <3> QED BY <3>1, <3>2, ReturnEffect, AnswerTypes
  <2> QED BY <1>13, <2>1, <2>2 DEF GetSession
<1>14. CASE GetSessionState(r)
  <2> DEFINE new == [local[r] EXCEPT !.seen = sessions[local[r].session]]
  <2>1. local' = [local EXCEPT ![r] = new]
    BY <1>14 DEF IInv, Types, GetSessionState
  <2>2. /\ new.now = local[r].now /\ new.session = local[r].session
        /\ new.seen = sessions[local[r].session]
    BY <1>0 DEF Locals
  <2> HIDE DEF new
  <2>3. Frame(r) /\ pc'[r] = "sampleNow" /\ local'[r] = new /\ reply'[r] = reply[r]
    BY <1>14, <2>1 DEF GetSessionState, IInv, Types, Goto, Frame
  <2> QED BY <1>14, <2>2, <2>3 DEF GetSessionState, Effect
<1>15. CASE SampleNow(r)
  <2> DEFINE new == [local[r] EXCEPT !.now = clock]
  <2>1. local' = [local EXCEPT ![r] = new]
    BY <1>15 DEF IInv, Types, SampleNow
  <2>2. /\ new.now = clock /\ new.session = local[r].session
        /\ new.seen = local[r].seen
    BY <1>0 DEF Locals
  <2> HIDE DEF new
  <2>3. Frame(r) /\ pc'[r] = "cacheState" /\ local'[r] = new /\ reply'[r] = reply[r]
    BY <1>15, <2>1 DEF SampleNow, IInv, Types, Goto, Frame
  <2> QED BY <1>15, <2>2, <2>3 DEF SampleNow, Effect
<1>16. CASE CacheState(r)
  <2>1. PICK answer \in {"accepted", "unauthorized"} :
           Return(r, answer) /\ (answer = "accepted" => IsActive(local[r].seen, local[r].now))
    BY <1>16 DEF CacheState
  <2>2. answer = "accepted" => LetIn(r)
    BY <1>16, <2>1 DEF LetIn, CacheState
  <2> QED BY <2>1, <2>2, ReturnEffect, AnswerTypes
<1> QED BY <1>1, <1>2, <1>3, <1>4, <1>5, <1>6, <1>7, <1>8, <1>9, <1>10, <1>11, <1>12, <1>13, <1>14,
           <1>15, <1>16 DEF Step

-----------------------------------------------------------------------------
(* Who holds a row: nobody but a transaction that is still open.           *)

LockOwners ==
    \A r \in Refreshes :
        /\ \A p \in Pairs : tokenLock[p] = r => local[r].old = p /\ pc[r] \in LocksToken
        /\ \A s \in Sessions : sessionLock[s] = r => local[r].session = s /\ pc[r] \in LocksSession

\* A step of q in which no other request comes to hold a row.
LEMMA OwnersFrame ==
    ASSUME LockOwners, NEW q \in Requests, Frame(q),
           \A r \in Refreshes \ {q} :
              /\ \A p \in Pairs : tokenLock'[p] = r => tokenLock[p] = r
              /\ \A s \in Sessions : sessionLock'[s] = r => sessionLock[s] = r,
           q \in Refreshes =>
              /\ \A p \in Pairs : tokenLock'[p] = q => local'[q].old = p /\ pc'[q] \in LocksToken
              /\ \A s \in Sessions : sessionLock'[s] = q =>
                    local'[q].session = s /\ pc'[q] \in LocksSession
    PROVE  LockOwners'
<1> SUFFICES ASSUME NEW r \in Refreshes
             PROVE  /\ \A p \in Pairs : tokenLock'[p] = r =>
                          local'[r].old = p /\ pc'[r] \in LocksToken
                    /\ \A s \in Sessions : sessionLock'[s] = r =>
                          local'[r].session = s /\ pc'[r] \in LocksSession
  BY DEF LockOwners
<1>1. CASE r = q  BY <1>1
<1>2. CASE r # q  BY <1>2 DEF LockOwners, Frame, Requests
<1> QED BY <1>1, <1>2

\* The end of a transaction.
LEMMA OwnersRelease ==
    ASSUME IInv, LockOwners, NEW q \in Requests, Frame(q), EndTransaction(q)
    PROVE  LockOwners'
<1>1. \A p \in Pairs : tokenLock'[p] = IF tokenLock[p] = q THEN None ELSE tokenLock[p]
  BY DEF IInv, Types, EndTransaction, Without
<1>2. \A s \in Sessions : sessionLock'[s] = IF sessionLock[s] = q THEN None ELSE sessionLock[s]
  BY DEF IInv, Types, EndTransaction, Without
<1>3. q # None /\ None \notin Refreshes
  BY RequestsAssumption DEF Requests
<1> QED BY <1>1, <1>2, <1>3, OwnersFrame

\* The two steps that lock a row.
LEMMA OwnersSelect ==
    ASSUME IInv, LockOwners, NEW q \in Requests, Frame(q), Effect(q),
           SelectToken(q) \/ SelectSession(q)
    PROVE  LockOwners'
<1>1. q \in Refreshes /\ q # None /\ Refreshes \subseteq Requests
  BY RequestsAssumption DEF IInv, RequestOK, PathOK, LoginLabels, AuthenticationLabels, Requests,
     SelectToken, SelectSession
<1>2. CASE SelectToken(q)
  <2>1. \A p \in Pairs : tokenLock[p] # q
    BY <1>1, <1>2 DEF LockOwners, SelectToken, LocksToken
  <2>2. \A s \in Sessions : sessionLock[s] # q /\ sessionLock'[s] = sessionLock[s]
    BY <1>1, <1>2 DEF LockOwners, SelectToken, LocksSession
  <2>3. CASE UNCHANGED tokenLock
    BY <2>1, <2>2, <2>3, OwnersFrame
  <2>4. CASE ~UNCHANGED tokenLock
    <3>1. tokenLock' = [tokenLock EXCEPT ![local[q].old] = q] /\ Goto(q, "selectSession")
      BY <1>2, <2>4 DEF SelectToken
    <3>2. pc'[q] = "selectSession" /\ local'[q].old = local[q].old
      BY <3>1 DEF IInv, Types, Goto, Effect, LocksToken
    <3>3. \A p \in Pairs : tokenLock'[p] = IF p = local[q].old THEN q ELSE tokenLock[p]
      BY <3>1 DEF IInv, Types
    <3> QED BY <2>1, <2>2, <3>2, <3>3, OwnersFrame DEF LocksToken
  <2> QED BY <2>3, <2>4
<1>3. CASE SelectSession(q)
  <2>1. CASE EndTransaction(q)
    BY <2>1, OwnersRelease
  <2>2. CASE ~EndTransaction(q)
    <3>1. /\ sessionLock' = [sessionLock EXCEPT ![local[q].session] = q]
          /\ pc[q] = "selectSession" /\ UNCHANGED <<tokenLock, local>>
          /\ \E label \in LocksSession : Goto(q, label)
      BY <1>3, <2>2 DEF SelectSession, LocksSession
    <3>2. pc'[q] \in LocksSession
      BY <3>1 DEF IInv, Types, Goto
    <3>3. \A s \in Sessions : sessionLock'[s] = IF s = local[q].session THEN q ELSE sessionLock[s]
      BY <3>1 DEF IInv, Types
    <3>4. \A s \in Sessions : sessionLock[s] # q
      BY <1>1, <3>1 DEF LockOwners, LocksSession
    <3>5. \A p \in Pairs : tokenLock[p] = q => local[q].old = p
      BY <1>1 DEF LockOwners
    <3> QED BY <3>1, <3>2, <3>3, <3>4, <3>5, OwnersFrame DEF LocksToken, LocksSession
  <2> QED BY <2>1, <2>2
<1> QED BY <1>2, <1>3

LEMMA OwnersKeep ==
    ASSUME IInv, LockOwners, NEW q \in Requests, Step(q) \/ Abort(q)
    PROVE  LockOwners'
<1>1. Frame(q) /\ Effect(q)
  BY StepEffect DEF Effect
<1>2. CASE EndTransaction(q)
  BY <1>1, <1>2, OwnersRelease
<1>3. CASE SelectToken(q) \/ SelectSession(q)
  BY <1>1, <1>3, OwnersSelect
<1>4. CASE ~EndTransaction(q) /\ ~SelectToken(q) /\ ~SelectSession(q)
  <2>1. UNCHANGED <<tokenLock, sessionLock>> /\ pc[q] \notin LocksToken
    <3>1. \/ CreateSession(q) \/ StoreAccessToken(q) \/ Respond(q) \/ StoreResult(q)
          \/ GetResult(q) \/ CacheActive(q) \/ CacheRevoked(q) \/ GetAccess(q)
          \/ GetSession(q) \/ GetSessionState(q) \/ SampleNow(q) \/ CacheState(q)
      BY <1>4 DEF Step, Abort, CommitExtend, CommitRevoke
    <3>2. CASE CreateSession(q) \/ StoreAccessToken(q) \/ Respond(q) \/ StoreResult(q)
      BY <3>2 DEF CreateSession, StoreAccessToken, Respond, StoreResult, database, LocksToken
    <3>3. CASE GetResult(q) \/ CacheActive(q) \/ CacheRevoked(q) \/ GetAccess(q)
      BY <3>3 DEF GetResult, CacheActive, CacheRevoked, GetAccess, database, LocksToken
    <3>4. CASE GetSession(q) \/ GetSessionState(q) \/ SampleNow(q) \/ CacheState(q)
      BY <3>4 DEF GetSession, GetSessionState, SampleNow, CacheState, database, LocksToken
    <3> QED BY <3>1, <3>2, <3>3, <3>4
  <2> QED BY <1>1, <2>1, OwnersFrame DEF LockOwners, LocksToken, LocksSession
<1> QED BY <1>2, <1>3, <1>4

LEMMA OwnersNext == IInv /\ LockOwners /\ [Next]_vars => LockOwners'
<1> SUFFICES ASSUME IInv, LockOwners, [Next]_vars PROVE LockOwners'
  OBVIOUS
<1>1. ASSUME NEW q \in Requests,
             \/ StartLogin(q) \/ \E p : StartAuthenticate(q, p)
             \/ \E p, o : StartRefresh(q, p, o)
      PROVE  LockOwners'
  <2>1. Frame(q)
    BY <1>1, StartEffect
  <2>2. UNCHANGED <<tokenLock, sessionLock>> /\ pc[q] \notin LocksToken
    BY <1>1 DEF StartLogin, StartAuthenticate, StartRefresh, database, LocksToken
  <2> QED BY <2>1, <2>2, OwnersFrame DEF LockOwners, LocksToken, LocksSession
<1>2. CASE Arrive
  BY <1>1, <1>2 DEF Arrive, Requests
<1>3. ASSUME NEW q \in Requests, Step(q) \/ Abort(q) PROVE LockOwners'
  BY <1>3, OwnersKeep
<1>4. CASE RedisLoss \/ Tick \/ UNCHANGED vars
  BY <1>4 DEF LockOwners, RedisLoss, Tick, vars, database
<1> QED BY <1>2, <1>3, <1>4 DEF Next

\* Every table, store and local variable keeps its type, and a row lock is held exactly by
\* the transaction that is between its SELECT ... FOR UPDATE and its end, for any number
\* of requests.
THEOREM TypeCorrect == Spec => []TypeOK
<1>1. Init => LockOwners
  BY RequestsAssumption DEF Init, LockOwners, Requests
<1>2. Spec => []LockOwners
  BY <1>1, OwnersNext, Invariance, PTL DEF Spec
<1>3. IInv /\ LockOwners => TypeOK
  <2> SUFFICES ASSUME IInv, LockOwners, NEW r \in Refreshes
               PROVE  /\ pc[r] \in LocksToken => tokenLock[local[r].old] = r
                      /\ pc[r] \in LocksSession => sessionLock[local[r].session] = r
    BY DEF IInv, TypeOK, LockOwners, LocksToken, LocksSession
  <2> QED BY DEF IInv, RequestOK, LocksOK, Requests
<1> QED BY <1>2, <1>3, Invariance, PTL

-----------------------------------------------------------------------------
(* What the commits write.                                                 *)

LEMMA CreatedRows ==
    ASSUME IInv, NEW r \in Requests, CreateSession(r)
    PROVE  /\ r \in Logins /\ r \in Pairs /\ r \in Sessions
           /\ tokens[r].session = None /\ ~Exists(r)
           /\ tokens'[r].session = r /\ tokens'[r].requestID = None
           /\ \A p \in Pairs : p # r => tokens'[p] = tokens[p]
           /\ sessions'[r].expiresAt = local[r].now + SessionLifetime
           /\ sessions'[r].revokedAt = sessions[r].revokedAt
           /\ \A s \in Sessions : s # r => sessions'[s] = sessions[s]
<1>1. r \in Logins /\ r \in Pairs /\ r \in Sessions /\ tokens[r].session = None /\ ~Exists(r)
  BY DEF CreateSession, IInv, RequestOK, PathOK, PendingOK, Pending, RefreshLabels,
     AuthenticationLabels, Requests, Pairs, Sessions
<1>2. tokens[r].requestID = None
  BY <1>1 DEF IInv, Rows
<1>3. tokens[r] \in TokenRows /\ sessions[r] \in SessionRows
  BY <1>1 DEF IInv, Types
<1> QED BY <1>1, <1>2, <1>3 DEF CreateSession, IInv, Types, TokenRows, SessionRows

LEMMA ExtendedRows ==
    ASSUME IInv, NEW r \in Requests, CommitExtend(r), NEW p, p = local[r].old,
           NEW s, s = local[r].session
    PROVE  /\ r \in Refreshes /\ r \in Pairs /\ p \in Pairs /\ p # r /\ s \in Sessions
           /\ local[r].op \in Operations /\ local[r].now \in Nat
           /\ tokens[p].session = s /\ Unused(p) /\ tokens[r].session = None
           /\ tokens'[p].session = s /\ tokens'[p].requestID = local[r].op
           /\ tokens'[r].session = s /\ tokens'[r].requestID = None
           /\ \A q \in Pairs : q # p /\ q # r => tokens'[q] = tokens[q]
           /\ sessions'[s].expiresAt = local[r].now + SessionLifetime
           /\ sessions'[s].revokedAt = sessions[s].revokedAt
           /\ \A t \in Sessions : t # s => sessions'[t] = sessions[t]
<1>1. pc[r] = "extend" /\ pc[r] \in LocksSession
  BY DEF CommitExtend, LocksSession
<1>2. /\ r \in Refreshes /\ r \in Pairs /\ p \in Pairs /\ s \in Sessions
      /\ local[r].op \in Operations /\ local[r].now \in Nat
      /\ tokens[p].session = s /\ tokens[p].session # None
      /\ local[r].row = tokens[p].requestID
  BY <1>1, OpenTransaction DEF Pairs
<1>3. tokens[p].requestID = None /\ tokens[r].session = None
  BY <1>1, <1>2 DEF IInv, RequestOK, LocksOK, PendingOK, Pending
<1>4. Unused(p) /\ p # r
  BY <1>2, <1>3 DEF Unused
<1>5. /\ tokens' = [tokens EXCEPT ![p] = [session |-> s, requestID |-> local[r].op],
                                  ![r] = [session |-> s, requestID |-> None]]
      /\ sessions' = [sessions EXCEPT ![s].expiresAt = local[r].now + SessionLifetime]
  BY DEF CommitExtend
<1>6. sessions[s] \in SessionRows
  BY <1>2 DEF IInv, Types
<1>7. /\ sessions'[s].expiresAt = local[r].now + SessionLifetime
      /\ sessions'[s].revokedAt = sessions[s].revokedAt
      /\ \A t \in Sessions : t # s => sessions'[t] = sessions[t]
  BY <1>2, <1>5, <1>6 DEF IInv, Types, SessionRows
<1>8. /\ tokens'[p].session = s /\ tokens'[p].requestID = local[r].op
      /\ tokens'[r].session = s /\ tokens'[r].requestID = None
      /\ \A q \in Pairs : q # p /\ q # r => tokens'[q] = tokens[q]
  BY <1>2, <1>4, <1>5 DEF IInv, Types
<1> QED BY <1>2, <1>3, <1>4, <1>7, <1>8

LEMMA RevokedRows ==
    ASSUME IInv, NEW r \in Requests, CommitRevoke(r), NEW s, s = local[r].session
    PROVE  /\ r \in Refreshes /\ s \in Sessions /\ tokens' = tokens
           /\ sessions'[s].revokedAt = local[r].now /\ local[r].now \in Nat
           /\ \A t \in Sessions : /\ sessions'[t].expiresAt = sessions[t].expiresAt
                                  /\ t # s => sessions'[t] = sessions[t]
<1>1. r \in Refreshes /\ s \in Sessions /\ local[r].now \in Nat
  BY OpenTransaction DEF CommitRevoke, LocksSession
<1>2. sessions[s] \in SessionRows
  BY <1>1 DEF IInv, Types
<1> QED BY <1>1, <1>2 DEF CommitRevoke, IInv, Types, SessionRows

\* Every other step leaves the rows alone.
Commits(r) == CreateSession(r) \/ CommitExtend(r) \/ CommitRevoke(r)

LEMMA OthersWriteNoRows ==
    ASSUME NEW r, Step(r) \/ Abort(r), ~Commits(r)
    PROVE  UNCHANGED <<clock, sessions, tokens>>
  BY DEF Step, Commits, Abort, StoreAccessToken, Respond, SelectToken, SelectSession, StoreResult,
     GetResult, CacheActive, CacheRevoked, GetAccess, GetSession, GetSessionState, SampleNow,
     CacheState, world, database

-----------------------------------------------------------------------------
(* Time.                                                                   *)

Times ==
    /\ \A r \in Requests : NowOK(r)
    /\ \A s \in Sessions : ExpiryOK(s)

\* A refresh that has not written presents a token that was issued.
LEMMA OldIsIssued ==
    ASSUME IInv, NEW r \in Refreshes, pc[r] \in BeforeCommit, local[r].old \in Pairs
    PROVE  Issued(local[r].old)
<1>1. r \in Requests /\ local[r].old # Unknown
  BY RequestsAssumption DEF Requests, Pairs
<1> QED BY <1>1 DEF IInv, RequestOK, MemoryOK, BeforeCommit, KnowsSession

LEMMA TimeTypes ==
    ASSUME IInv
    PROVE  /\ clock \in Nat /\ SessionLifetime \in Nat
           /\ \A r \in Requests : local[r].now \in Nat
           /\ \A s \in Sessions : Exists(s) => sessions[s].expiresAt \in Nat
           /\ \A p \in Pairs : Unused(p) =>
                 tokens[p].session \in Sessions /\ Exists(tokens[p].session)
  BY DurationsAssumption DEF IInv, Types, Locals, SessionRows, TokenRows, Exists, Unused, Rows

\* A step of r that leaves the rows alone.
LEMMA QuietTimes ==
    ASSUME IInv, Times, NEW r \in Requests, Frame(r), UNCHANGED <<clock, sessions, tokens>>,
           NowOK(r)'
    PROVE  Times'
<1>1. ASSUME NEW q \in Requests, q # r PROVE NowOK(q)'
  BY <1>1 DEF Times, Frame, NowOK, Issued, Unused
<1> QED BY <1>1 DEF Times, ExpiryOK, Exists

\* A step of r that goes on to the same token at the same time, or does not go that way.
LEMMA StepNow ==
    ASSUME IInv, Times, NEW r \in Requests, Effect(r), UNCHANGED <<clock, sessions, tokens>>
    PROVE  NowOK(r)'
<1>1. local'[r].now <= clock
  BY TimeTypes DEF Effect, Times, NowOK
<1>2. ASSUME r \in Refreshes, pc'[r] \in BeforeCommit, Issued(local'[r].old), Unused(local'[r].old)
      PROVE  sessions[tokens[local'[r].old].session].expiresAt <= local'[r].now + SessionLifetime
  <2>1. /\ pc[r] \in BeforeCommit /\ local'[r].old = local[r].old /\ local'[r].now = local[r].now
    BY <1>2 DEF BeforeCommit, Effect, LocksToken
  <2> QED BY <1>2, <2>1 DEF Times, NowOK
<1> QED BY <1>1, <1>2 DEF NowOK, Issued, Unused

LEMMA StartTimes ==
    ASSUME IInv, Times, Arrive
    PROVE  Times'
<1>1. PICK r \in Requests : \/ StartLogin(r) \/ \E p : StartAuthenticate(r, p)
                            \/ \E p, o : StartRefresh(r, p, o)
  BY DEF Arrive, Requests
<1>2. UNCHANGED <<clock, sessions, tokens>>
  BY <1>1 DEF StartLogin, StartAuthenticate, StartRefresh, world, database
<1>3. /\ Frame(r) /\ local'[r].now \in {local[r].now, clock}
      /\ pc'[r] \in {"createSession", "selectToken", "getAccess"}
      /\ pc'[r] = "selectToken" => local'[r].now = clock
  BY <1>1, StartEffect
<1>4. local'[r].now <= clock
  BY <1>3, TimeTypes DEF Times, NowOK
<1>5. ASSUME r \in Refreshes, pc'[r] \in BeforeCommit, Issued(local'[r].old), Unused(local'[r].old)
      PROVE  sessions[tokens[local'[r].old].session].expiresAt <= local'[r].now + SessionLifetime
  <2>1. local'[r].now = clock
    BY <1>3, <1>5 DEF BeforeCommit
  <2> QED BY <1>5, <2>1, TimeTypes DEF Times, ExpiryOK, Issued
<1>6. NowOK(r)'
  BY <1>2, <1>4, <1>5 DEF NowOK, Issued, Unused
<1> QED BY <1>2, <1>3, <1>6, QuietTimes

LEMMA CommitTimes ==
    ASSUME IInv, IInv', Times, NEW r \in Requests, Commits(r), Effect(r)
    PROVE  Times'
<1>1. clock' = clock
  BY DEF Commits, CreateSession, CommitExtend, CommitRevoke, world
<1>2. pc'[r] \notin BeforeCommit
  BY DEF Effect, BeforeCommit, LocksToken, Commits, CreateSession, CommitExtend, CommitRevoke
<1>3. NowOK(r)'
  BY <1>1, <1>2, TimeTypes DEF NowOK, Effect, Times
<1>4. CASE CommitRevoke(r)
  <2>1. \A s \in Sessions : sessions'[s].expiresAt = sessions[s].expiresAt
    BY <1>4, RevokedRows
  <2>2. tokens' = tokens
    BY <1>4, RevokedRows
  <2>3. ASSUME NEW q \in Requests, q # r PROVE NowOK(q)'
    <3>1. pc'[q] = pc[q] /\ local'[q] = local[q] /\ NowOK(q)
      BY <2>3 DEF Effect, Frame, Times
    <3> QED BY <1>1, <2>1, <2>2, <3>1, TimeTypes DEF NowOK, Issued, Unused
  <2> QED BY <1>1, <1>3, <2>1, <2>3 DEF Times, ExpiryOK, Exists
<1>5. CASE CreateSession(r)
  <2>1. ASSUME NEW s \in Sessions PROVE ExpiryOK(s)'
    <3>1. CASE s = r
      BY <1>1, <1>5, <3>1, CreatedRows, TimeTypes DEF Times, ExpiryOK, NowOK
    <3>2. CASE s # r
      BY <1>1, <1>5, <3>2, CreatedRows DEF Times, ExpiryOK, Exists
    <3> QED BY <3>1, <3>2
  <2>2. ASSUME NEW q \in Requests, q # r PROVE NowOK(q)'
    <3>1. pc'[q] = pc[q] /\ local'[q] = local[q] /\ NowOK(q)
      BY <2>2 DEF Effect, Frame, Times
    <3>2. ASSUME q \in Refreshes, pc[q] \in BeforeCommit, local[q].old \in Pairs
          PROVE  /\ Issued(local[q].old)
                 /\ tokens'[local[q].old] = tokens[local[q].old]
                 /\ sessions'[tokens[local[q].old].session] = sessions[tokens[local[q].old].session]
      <4>1. Issued(local[q].old)
        BY <3>2, OldIsIssued
      <4>2. tokens[local[q].old].session \in Sessions /\ Exists(tokens[local[q].old].session)
        BY <4>1 DEF IInv, Types, TokenRows, Rows, Issued
      <4> QED BY <1>5, <4>1, <4>2, CreatedRows DEF Issued
    <3> QED BY <1>1, <3>1, <3>2 DEF NowOK, Issued, Unused
  <2> QED BY <1>3, <2>1, <2>2 DEF Times
<1>6. CASE CommitExtend(r)
  <2> DEFINE p == local[r].old
             s == local[r].session
  <2>1. /\ r \in Refreshes /\ p \in Pairs /\ s \in Sessions
        /\ tokens[p].session = s /\ Unused(p) /\ tokens[r].session = None
        /\ tokens'[p].requestID # None
        /\ \A q \in Pairs : q # p /\ q # r => tokens'[q] = tokens[q]
        /\ sessions'[s].expiresAt = local[r].now + SessionLifetime
        /\ \A t \in Sessions : t # s => sessions'[t] = sessions[t]
    <3>1. local[r].op \in Operations => local[r].op # None
      BY RequestsAssumption
    <3> QED BY <1>6, <3>1, ExtendedRows
  <2> HIDE DEF p, s
  <2>2. ASSUME NEW t \in Sessions PROVE ExpiryOK(t)'
    <3>1. CASE t = s
      BY <1>1, <2>1, <3>1, TimeTypes DEF Times, ExpiryOK, NowOK
    <3>2. CASE t # s
      BY <1>1, <2>1, <3>2 DEF Times, ExpiryOK, Exists
    <3> QED BY <3>1, <3>2
  <2>3. ASSUME NEW q \in Requests, q # r PROVE NowOK(q)'
    <3>1. pc'[q] = pc[q] /\ local'[q] = local[q] /\ NowOK(q)
      BY <2>3 DEF Effect, Frame, Times
    <3>2. ASSUME q \in Refreshes, pc[q] \in BeforeCommit, local[q].old \in Pairs,
                 tokens'[local[q].old].requestID = None
          PROVE  /\ Issued(local[q].old) /\ Unused(local[q].old)
                 /\ tokens'[local[q].old] = tokens[local[q].old]
                 /\ sessions'[tokens[local[q].old].session] = sessions[tokens[local[q].old].session]
      <4>1. Issued(local[q].old)
        BY <3>2, OldIsIssued
      <4>2. local[q].old # p /\ local[q].old # r
        BY <2>1, <3>2, <4>1 DEF Issued
      <4>3. tokens'[local[q].old] = tokens[local[q].old] /\ Unused(local[q].old)
        BY <2>1, <3>2, <4>1, <4>2 DEF Issued, Unused
      <4>4. tokens[local[q].old].session \in Sessions
        BY <4>1 DEF IInv, Types, TokenRows, Issued
      <4>5. tokens[local[q].old].session # s
        BY <2>1, <3>2, <4>2, <4>3 DEF IInv, OneUnusedToken
      <4> QED BY <2>1, <4>1, <4>3, <4>4, <4>5
    <3> QED BY <1>1, <3>1, <3>2 DEF NowOK, Issued, Unused
  <2> QED BY <1>3, <2>2, <2>3 DEF Times
<1> QED BY <1>4, <1>5, <1>6 DEF Commits

LEMMA TimesKeep ==
    ASSUME IInv, IInv', Times, [Next]_vars
    PROVE  Times'
<1>1. CASE UNCHANGED <<sessions, tokens, pc, local>> /\ clock' >= clock
  <2>1. clock' \in Nat
    BY DEF IInv, Types
  <2>2. ASSUME NEW q \in Requests PROVE NowOK(q)'
    BY <1>1, <2>1, <2>2, TimeTypes DEF Times, NowOK, Issued, Unused
  <2>3. ASSUME NEW s \in Sessions PROVE ExpiryOK(s)'
    BY <1>1, <2>1, <2>3, TimeTypes DEF Times, ExpiryOK, Exists
  <2> QED BY <2>2, <2>3 DEF Times
<1>2. CASE UNCHANGED vars \/ RedisLoss \/ Tick
  BY <1>1, <1>2, TimeTypes DEF vars, RedisLoss, Tick, database
<1>3. CASE Arrive
  BY <1>3, StartTimes
<1>4. ASSUME NEW r \in Requests, Step(r) \/ Abort(r) PROVE Times'
  <2>1. Effect(r)
    BY <1>4, StepEffect
  <2>2. CASE Commits(r)
    BY <2>1, <2>2, CommitTimes
  <2>3. CASE ~Commits(r)
    BY <1>4, <2>1, <2>3, OthersWriteNoRows, StepNow, QuietTimes DEF Effect
  <2> QED BY <2>2, <2>3
<1> QED BY <1>2, <1>3, <1>4 DEF Next

\* Only a commit writes rows, and what it computes the end of the session from is not older
\* than what the row was computed from.
LEMMA ExpiryStep ==
    ASSUME IInv, Times, [Next]_vars, NEW s \in Sessions, Exists(s)
    PROVE  Exists(s)' /\ sessions'[s].expiresAt >= sessions[s].expiresAt
<1>1. CASE sessions' = sessions
  BY <1>1, TimeTypes DEF Exists
<1>2. ASSUME NEW r \in Requests, CreateSession(r)
      PROVE  sessions'[s] = sessions[s]
  BY <1>2, CreatedRows
<1>3. ASSUME NEW r \in Requests, CommitRevoke(r)
      PROVE  sessions'[s].expiresAt = sessions[s].expiresAt
  BY <1>3, RevokedRows
<1>4. ASSUME NEW r \in Requests, CommitExtend(r)
      PROVE  Exists(s)' /\ sessions'[s].expiresAt >= sessions[s].expiresAt
  <2> DEFINE p == local[r].old
  <2>1. CASE s = local[r].session
    <3>1. /\ r \in Refreshes /\ p \in Pairs /\ tokens[p].session = s /\ Unused(p)
          /\ sessions'[s].expiresAt = local[r].now + SessionLifetime
      BY <1>4, <2>1, ExtendedRows
    <3>2. sessions[s].expiresAt <= local[r].now + SessionLifetime
      BY <1>4, <3>1 DEF Times, NowOK, BeforeCommit, CommitExtend, Issued, Unused
    <3>3. local[r].now + SessionLifetime \in Nat /\ sessions[s].expiresAt \in Nat
      BY TimeTypes
    <3> QED BY <3>1, <3>2, <3>3, RequestsAssumption DEF Exists
  <2>2. CASE s # local[r].session
    BY <1>4, <2>2, ExtendedRows, TimeTypes DEF Exists
  <2> QED BY <2>1, <2>2
<1>5. CASE UNCHANGED vars \/ RedisLoss \/ Tick \/ Arrive
  BY <1>1, <1>5 DEF vars, RedisLoss, Tick, Arrive, StartLogin, StartRefresh, StartAuthenticate,
     database
<1>6. ASSUME NEW r \in Requests, Step(r) \/ Abort(r)
      PROVE  Exists(s)' /\ sessions'[s].expiresAt >= sessions[s].expiresAt
  <2>1. CASE Commits(r)
    BY <1>2, <1>3, <1>4, <2>1, TimeTypes DEF Commits, Exists
  <2>2. CASE ~Commits(r)
    BY <1>1, <1>6, <2>2, OthersWriteNoRows
  <2> QED BY <2>1, <2>2
<1> QED BY <1>5, <1>6 DEF Next

-----------------------------------------------------------------------------
(* Revocation.                                                             *)

Revocations == (\A r \in Requests : RevocationOK(r)) /\ LongRefusalMeansRevoked

LEMMA StepRevokedAt ==
    ASSUME IInv, NEW r \in Requests, Step(r) \/ Abort(r), NEW s \in Sessions
    PROVE  /\ clock' = clock
           /\ \/ sessions'[s].revokedAt = sessions[s].revokedAt
              \/ CommitRevoke(r) /\ s = local[r].session /\ Revoked(s)'
<1>1. CASE CreateSession(r)
  BY <1>1, CreatedRows DEF CreateSession, world
<1>2. CASE CommitExtend(r)
  <2>1. CASE s = local[r].session
    BY <1>2, <2>1, ExtendedRows DEF CommitExtend, world
  <2>2. CASE s # local[r].session
    BY <1>2, <2>2, ExtendedRows DEF CommitExtend, world
  <2> QED BY <2>1, <2>2
<1>3. CASE CommitRevoke(r)
  <2>1. clock' = clock
    BY <1>3 DEF CommitRevoke, world
  <2>2. CASE s = local[r].session
    BY <1>3, <2>1, <2>2, RevokedRows, RequestsAssumption DEF Revoked
  <2>3. CASE s # local[r].session
    BY <1>3, <2>1, <2>3, RevokedRows
  <2> QED BY <2>2, <2>3
<1>4. CASE ~Commits(r)
  BY <1>4, OthersWriteNoRows
<1> QED BY <1>1, <1>2, <1>3, <1>4 DEF Commits

LEMMA RevokedStays ==
    ASSUME IInv, [Next]_vars, NEW s \in Sessions, Revoked(s)
    PROVE  Revoked(s)'
<1>1. CASE UNCHANGED vars \/ RedisLoss \/ Tick \/ Arrive
  BY <1>1 DEF vars, RedisLoss, Tick, Arrive, StartLogin, StartRefresh, StartAuthenticate,
     database, Revoked
<1>2. ASSUME NEW r \in Requests, Step(r) \/ Abort(r) PROVE Revoked(s)'
  BY <1>2, StepRevokedAt DEF Revoked
<1> QED BY <1>1, <1>2 DEF Next

\* The sessions that a refresh can read at these labels.
LEMMA SessionTypes ==
    ASSUME IInv, NEW r \in Requests
    PROVE  /\ (r \in Refreshes /\ pc[r] \in KnowsSession) => local[r].session \in Sessions
           /\ pc[r] \in HoldsPair => local[r].session \in Sessions
           /\ pc[r] \in HoldsIdentity => local[r].session \in Sessions
  BY DEF IInv, RequestOK, MemoryOK, Issued, Types, TokenRows

LEMMA RevocationOKKeeps ==
    ASSUME IInv, IInv', Revocations, [Next]_vars, NEW q \in Requests
    PROVE  RevocationOK(q)'
<1>1. RevocationOK(q)
  BY DEF Revocations
<1>2. CASE UNCHANGED vars \/ RedisLoss \/ Tick
  BY <1>1, <1>2 DEF vars, RedisLoss, Tick, database, RevocationOK, Revoked
<1>3. CASE Arrive
  <2>1. PICK r \in Requests : \/ StartLogin(r) \/ \E p : StartAuthenticate(r, p)
                              \/ \E p, o : StartRefresh(r, p, o)
    BY <1>3 DEF Arrive, Requests
  <2>2. Frame(r) /\ pc'[r] \in {"createSession", "selectToken", "getAccess"}
    BY <2>1, StartEffect
  <2>3. sessions' = sessions
    BY <2>1 DEF StartLogin, StartAuthenticate, StartRefresh, database
  <2>4. CASE q = r
    BY <2>2, <2>4 DEF RevocationOK, LocksSession
  <2>5. CASE q # r
    BY <1>1, <2>2, <2>3, <2>5 DEF RevocationOK, Frame, Revoked
  <2> QED BY <2>4, <2>5
<1>4. ASSUME NEW r \in Requests, Step(r) \/ Abort(r) PROVE RevocationOK(q)'
  <2>1. Effect(r)
    BY <1>4, StepEffect
  <2>2. CASE q # r
    <3>1. pc'[q] = pc[q] /\ local'[q] = local[q]
      BY <2>1, <2>2 DEF Effect, Frame
    <3>2. ASSUME q \in Refreshes, pc[q] \in LocksSession
          PROVE  ~Revoked(local[q].session)'
      <4>1. /\ local[q].session \in Sessions /\ sessionLock[local[q].session] = q
            /\ ~Revoked(local[q].session)
        BY <1>1, <3>2, OpenTransaction DEF RevocationOK
      <4>2. CommitRevoke(r) => local[r].session # local[q].session
        BY <2>2, <4>1, OpenTransaction DEF CommitRevoke, LocksSession
      <4> QED BY <1>4, <3>1, <4>1, <4>2, StepRevokedAt DEF Revoked
    <3>3. ASSUME q \in Refreshes, pc[q] = "cacheRevoked"
          PROVE  Revoked(local[q].session)'
      <4>1. local[q].session \in Sessions
        BY <3>3, SessionTypes DEF KnowsSession
      <4> QED BY <1>1, <1>4, <3>1, <3>3, <4>1, StepRevokedAt DEF RevocationOK, Revoked
    <3> QED BY <3>1, <3>2, <3>3 DEF RevocationOK, Revoked
  <2>3. CASE q = r
    <3>1. ASSUME r \in Refreshes, pc'[r] \in LocksSession
          PROVE  sessions'[local'[r].session].revokedAt = None
      <4>1. /\ pc[r] = "selectSession" /\ local'[r].session = local[r].session
            /\ sessions[local[r].session].revokedAt = None
        BY <2>1, <3>1 DEF Effect, IsActive
      <4>2. local[r].session \in Sessions
        BY <3>1, <4>1, SessionTypes DEF KnowsSession
      <4> QED BY <1>4, <4>1, <4>2, StepRevokedAt DEF CommitRevoke
    <3>2. ASSUME r \in Refreshes, pc'[r] = "cacheRevoked"
          PROVE  sessions'[local'[r].session].revokedAt # None
      <4>1. CommitRevoke(r) /\ local'[r].session = local[r].session
        BY <2>1, <3>2 DEF Effect
      <4> QED BY <4>1, RevokedRows, RequestsAssumption
    <3> QED BY <2>3, <3>1, <3>2 DEF RevocationOK, Revoked
  <2> QED BY <2>2, <2>3
<1> QED BY <1>2, <1>3, <1>4 DEF Next

\* The writes to the cache.
LEMMA CacheWrites ==
    ASSUME NEW r, Step(r) \/ Abort(r)
    PROVE  \/ sessionCache' = sessionCache
           \/ CacheActive(r) \/ CacheRevoked(r) \/ CacheState(r)
  BY DEF Step, Abort, CreateSession, CommitExtend, CommitRevoke, StoreAccessToken, Respond,
     SelectToken, SelectSession, StoreResult, GetResult, GetAccess, GetSession, GetSessionState,
     SampleNow, redis

\* What each of them leaves in the entry of s.
LEMMA CacheEntry ==
    ASSUME IInv, NEW r \in Requests, Step(r) \/ Abort(r), NEW s \in Sessions
    PROVE  \/ sessionCache'[s] = sessionCache[s]
           \/ /\ CacheActive(r) /\ s = local[r].session
              /\ sessionCache'[s].active = TRUE
              /\ sessionCache'[s].until = clock + SessionLifetime
           \/ /\ CacheRevoked(r) /\ s = local[r].session
              /\ sessionCache'[s].active = FALSE
           \/ /\ CacheState(r) /\ s = local[r].session
              /\ sessionCache'[s].active = IsActive(local[r].seen, local[r].now)
              /\ sessionCache'[s].until = clock + CacheTTL(local[r].seen, local[r].now)
<1>1. ASSUME NEW isActive, NEW ttl, NEW t,
             sessionCache' \in Written(sessionCache, SessionSet(t, isActive, ttl))
      PROVE  \/ sessionCache'[s] = sessionCache[s]
             \/ /\ s = t /\ sessionCache'[s].active = isActive
                /\ sessionCache'[s].until = clock + ttl
  BY <1>1 DEF Written, SessionSet, IInv, Types
<1>2. CASE sessionCache' = sessionCache
  BY <1>2
<1>3. CASE CacheActive(r)
  <2>1. sessionCache' \in Written(sessionCache, SessionSet(local[r].session, TRUE, SessionLifetime))
    BY <1>3 DEF CacheActive
  <2>2. \/ sessionCache'[s] = sessionCache[s]
        \/ /\ s = local[r].session /\ sessionCache'[s].active = TRUE
           /\ sessionCache'[s].until = clock + SessionLifetime
    BY <1>1, <2>1
  <2> QED BY <1>3, <2>2
<1>4. CASE CacheRevoked(r)
  BY <1>1, <1>4 DEF CacheRevoked
<1>5. CASE CacheState(r)
  <2> DEFINE isActive == IsActive(local[r].seen, local[r].now)
             ttl == CacheTTL(local[r].seen, local[r].now)
  <2>1. sessionCache' \in Written(sessionCache, SessionSet(local[r].session, isActive, ttl))
    BY <1>5 DEF CacheState
  <2> HIDE DEF isActive, ttl
  <2>2. \/ sessionCache'[s] = sessionCache[s]
        \/ /\ s = local[r].session /\ sessionCache'[s].active = isActive
           /\ sessionCache'[s].until = clock + ttl
    BY <1>1, <2>1
  <2> QED BY <1>5, <2>2 DEF isActive, ttl
<1> QED BY <1>2, <1>3, <1>4, <1>5, CacheWrites

LEMMA LongRefusalKeeps ==
    ASSUME IInv, IInv', Revocations, [Next]_vars
    PROVE  LongRefusalMeansRevoked'
<1> SUFFICES ASSUME NEW s \in Sessions, sessionCache'[s] # None, ~sessionCache'[s].active,
                    sessionCache'[s].until > clock' + InactiveTTL
             PROVE  Revoked(s)'
  BY DEF LongRefusalMeansRevoked, Revoked
<1>1. clock \in Nat /\ clock' \in Nat /\ InactiveTTL \in Nat
  BY DurationsAssumption DEF IInv, Types
<1>2. CASE sessionCache'[s] = sessionCache[s] /\ clock' >= clock
  <2>1. sessionCache[s].until \in Nat
    BY <1>2 DEF IInv, Types
  <2>2. sessionCache[s].until > clock + InactiveTTL
    BY <1>1, <1>2, <2>1
  <2>3. Revoked(s)
    BY <1>2, <2>2 DEF Revocations, LongRefusalMeansRevoked
  <2> QED BY <2>3, RevokedStays
<1>3. CASE UNCHANGED vars \/ Tick \/ Arrive
  <2>1. sessionCache' = sessionCache
    BY <1>3 DEF vars, Tick, Arrive, StartLogin, StartRefresh, StartAuthenticate, redis
  <2>2. clock' = clock \/ clock' = clock + 1
    BY <1>3 DEF vars, Tick, Arrive, StartLogin, StartRefresh, StartAuthenticate, world
  <2> QED BY <1>1, <1>2, <2>1, <2>2
<1>4. CASE RedisLoss
  BY <1>4 DEF RedisLoss
<1>5. ASSUME NEW r \in Requests, Step(r) \/ Abort(r) PROVE Revoked(s)'
  <2>1. clock' = clock
    BY <1>5, StepRevokedAt
  <2>2. CASE sessionCache'[s] = sessionCache[s]
    BY <1>1, <1>2, <2>1, <2>2
  <2>3. CASE CacheRevoked(r) /\ s = local[r].session
    <3>1. r \in Refreshes
      BY <2>3 DEF CacheRevoked, IInv, RequestOK, PathOK, LoginLabels, AuthenticationLabels, Requests
    <3>2. Revoked(s)
      BY <2>3, <3>1 DEF Revocations, RevocationOK, CacheRevoked
    <3> QED BY <3>2, RevokedStays
  <2>4. CASE /\ CacheState(r)
             /\ sessionCache'[s].active = IsActive(local[r].seen, local[r].now)
             /\ sessionCache'[s].until = clock + CacheTTL(local[r].seen, local[r].now)
    BY <1>1, <2>1, <2>4 DEF CacheTTL
  <2> QED BY <1>5, <2>2, <2>3, <2>4, CacheEntry
<1> QED BY <1>3, <1>4, <1>5 DEF Next

\* Nobody comes to believe in a session after it was revoked, and nobody else writes that it
\* is active.
LEMMA BeliefStep ==
    ASSUME IInv, IInv', Revocations, NEW r \in Requests, Step(r) \/ Abort(r), NEW s \in Sessions,
           Sealed(s), NEW q \in Requests
    PROVE  ~BelievesActive(q, s)'
<1>1. Effect(r)
  BY StepEffect
<1>2. CASE q # r
  <2>1. pc'[q] = pc[q] /\ local'[q] = local[q]
    BY <1>1, <1>2 DEF Effect, Frame
  <2> QED BY <2>1 DEF Sealed, BelievesActive
<1>3. CASE q = r
  <2>1. ASSUME pc'[r] \in {"storeResult", "storeAccess", "cacheActive"}, local'[r].session = s
        PROVE  FALSE
    <3>1. pc[r] \in {"extend", "storeResult", "storeAccess"} /\ local[r].session = s
      BY <1>1, <2>1 DEF Effect
    <3>2. pc[r] = "extend"
      BY <3>1 DEF Sealed, BelievesActive
    <3>3. ~Revoked(s)
      BY <3>1, <3>2, OpenTransaction DEF LocksSession, Revocations, RevocationOK
    <3> QED BY <3>3 DEF Sealed
  <2>2. ASSUME pc'[r] \in {"sampleNow", "cacheState"}, local'[r].session = s,
               local'[r].seen.revokedAt = None
        PROVE  FALSE
    <3>1. /\ local[r].session = s
          /\ \/ pc[r] = "readState" /\ local'[r].seen = sessions[local[r].session]
             \/ pc[r] = "sampleNow" /\ local'[r].seen = local[r].seen
      BY <1>1, <2>2 DEF Effect
    <3> QED BY <2>2, <3>1 DEF Sealed, BelievesActive, Revoked
  <2> QED BY <1>3, <2>1, <2>2 DEF BelievesActive
<1> QED BY <1>2, <1>3

LEMMA SealedStep ==
    ASSUME IInv, IInv', Revocations, [Next]_vars, NEW s \in Sessions, Sealed(s)
    PROVE  /\ Sealed(s)'
           /\ \A r \in Requests : (local[r].session = s /\ reply[r] = None) =>
                 reply'[r] # "accepted"
<1>1. Revoked(s)'
  BY RevokedStays DEF Sealed
<1>2. "accepted" # None
  BY RequestsAssumption
<1>3. clock \in Nat /\ clock' \in Nat
  BY DEF IInv, Types
<1>4. CASE UNCHANGED vars \/ Tick
  <2>1. UNCHANGED <<pc, local, reply, sessionCache>> /\ clock' >= clock
    BY <1>3, <1>4 DEF vars, Tick, redis
  <2>2. ~(Live(sessionCache[s]) /\ sessionCache[s].active)'
    <3>1. sessionCache[s] # None => sessionCache[s].until \in Nat
      BY DEF IInv, Types
    <3> QED BY <1>3, <2>1, <3>1 DEF Sealed, Live
  <2> QED BY <1>1, <1>2, <2>1, <2>2 DEF Sealed, BelievesActive
<1>5. CASE RedisLoss
  BY <1>1, <1>2, <1>5 DEF RedisLoss, Sealed, BelievesActive, Live
<1>6. CASE Arrive
  <2>1. PICK r \in Requests : \/ StartLogin(r) \/ \E p : StartAuthenticate(r, p)
                              \/ \E p, o : StartRefresh(r, p, o)
    BY <1>6 DEF Arrive, Requests
  <2>2. /\ Frame(r) /\ pc'[r] \in {"createSession", "selectToken", "getAccess"}
        /\ reply'[r] = reply[r]
    BY <2>1, StartEffect
  <2>3. UNCHANGED <<clock, sessionCache>>
    BY <2>1 DEF StartLogin, StartAuthenticate, StartRefresh, world, redis
  <2>4. ASSUME NEW q \in Requests PROVE ~BelievesActive(q, s)'
    <3>1. CASE q = r
      BY <2>2, <3>1 DEF BelievesActive
    <3>2. CASE q # r
      BY <2>2, <3>2 DEF BelievesActive, Frame, Sealed
    <3> QED BY <3>1, <3>2
  <2>5. \A q \in Requests : reply'[q] = reply[q]
    BY <2>2 DEF Frame
  <2> QED BY <1>1, <1>2, <2>3, <2>4, <2>5 DEF Sealed, Live
<1>7. ASSUME NEW r \in Requests, Step(r) \/ Abort(r)
      PROVE  /\ Sealed(s)'
             /\ \A q \in Requests : (local[q].session = s /\ reply[q] = None) =>
                   reply'[q] # "accepted"
  <2>1. Effect(r)
    BY <1>7, StepEffect
  <2>2. \A q \in Requests : ~BelievesActive(q, s)'
    BY <1>7, BeliefStep
  <2>3. clock' = clock
    BY <1>7, StepRevokedAt
  <2>4. ~(sessionCache'[s] # None /\ clock < sessionCache'[s].until /\ sessionCache'[s].active)
    <3>1. CASE sessionCache'[s] = sessionCache[s]
      BY <3>1 DEF Sealed, Live
    <3>2. CASE CacheActive(r) /\ s = local[r].session
      BY <3>2 DEF Sealed, BelievesActive, CacheActive
    <3>3. CASE CacheState(r) /\ s = local[r].session
               /\ sessionCache'[s].active = IsActive(local[r].seen, local[r].now)
      BY <3>3 DEF Sealed, BelievesActive, CacheState, IsActive
    <3> QED BY <1>7, <3>1, <3>2, <3>3, CacheEntry
  <2>5. ASSUME NEW q \in Requests, local[q].session = s, reply[q] = None
        PROVE  reply'[q] # "accepted"
    <3>1. CASE q # r
      BY <1>2, <2>1, <2>5, <3>1 DEF Effect, Frame
    <3>2. CASE q = r
      <4>1. ~LetIn(r)
        BY <2>5, <3>2 DEF LetIn, Sealed, BelievesActive, IsActive
      <4> QED BY <1>2, <2>1, <2>5, <3>2, <4>1 DEF Effect
    <3> QED BY <3>1, <3>2
  <2> QED BY <1>1, <2>2, <2>3, <2>4, <2>5 DEF Sealed, Live
<1> QED BY <1>4, <1>5, <1>6, <1>7 DEF Next

-----------------------------------------------------------------------------
(* What the cache may say of the end of a session.                         *)

\* The end that a request goes by, the one it wrote or the one it read, is not later than
\* the end in the row.
EndOK(r) ==
    /\ pc[r] \in {"storeResult", "storeAccess", "cacheActive"} =>
          local[r].now + SessionLifetime <= sessions[local[r].session].expiresAt
    /\ pc[r] \in {"sampleNow", "cacheState"} =>
          local[r].seen.expiresAt <= sessions[local[r].session].expiresAt

Ends == \A r \in Requests : EndOK(r)

LEMMA EndTypes ==
    ASSUME IInv, NEW r \in Requests,
           pc[r] \in {"storeResult", "storeAccess", "cacheActive", "readState", "sampleNow", "cacheState"}
    PROVE  /\ local[r].session \in Sessions /\ Exists(local[r].session)
           /\ sessions[local[r].session].expiresAt \in Nat /\ local[r].now \in Nat
           /\ pc[r] \in {"sampleNow", "cacheState"} => local[r].seen.expiresAt \in Nat
<1>1. local[r].session \in Sessions /\ Exists(local[r].session)
  BY DEF IInv, RequestOK, MemoryOK, HoldsPair, HoldsIdentity, Issued, Rows, Types, TokenRows
<1>2. pc[r] \in {"sampleNow", "cacheState"} => local[r].seen.expiresAt \in Nat
  BY DEF IInv, Types, Locals, SessionRows, RequestOK, MemoryOK
<1> QED BY <1>1, <1>2, TimeTypes

LEMMA EndGrows ==
    ASSUME IInv, IInv', Times, [Next]_vars, NEW s \in Sessions, Exists(s)
    PROVE  /\ sessions[s].expiresAt \in Nat /\ sessions'[s].expiresAt \in Nat
           /\ sessions[s].expiresAt <= sessions'[s].expiresAt
<1>1. Exists(s)' /\ sessions'[s].expiresAt >= sessions[s].expiresAt
  BY ExpiryStep
<1>2. sessions'[s].expiresAt \in Nat
  BY <1>1 DEF IInv, Types, SessionRows, Exists
<1> QED BY <1>1, <1>2, TimeTypes

\* A request that stays where it was, while the rows only grow.
LEMMA EndStays ==
    ASSUME IInv, IInv', Times, [Next]_vars, NEW q \in Requests, EndOK(q),
           pc'[q] = pc[q], local'[q] = local[q]
    PROVE  EndOK(q)'
<1> DEFINE labels == {"storeResult", "storeAccess", "cacheActive", "sampleNow", "cacheState"}
           s == local[q].session
<1>1. CASE pc[q] \notin labels
  BY <1>1 DEF EndOK
<1>2. CASE pc[q] \in labels
  <2>1. /\ s \in Sessions /\ Exists(s) /\ sessions[s].expiresAt \in Nat /\ local[q].now \in Nat
        /\ pc[q] \in {"sampleNow", "cacheState"} => local[q].seen.expiresAt \in Nat
    BY <1>2, EndTypes
  <2>2. sessions'[s].expiresAt \in Nat /\ sessions[s].expiresAt <= sessions'[s].expiresAt
    BY <2>1, EndGrows
  <2>3. SessionLifetime \in Nat
    BY TimeTypes
  <2> QED BY <2>1, <2>2, <2>3 DEF EndOK
<1> QED BY <1>1, <1>2

LEMMA EndsKeep ==
    ASSUME IInv, IInv', Times, Ends, [Next]_vars, NEW q \in Requests
    PROVE  EndOK(q)'
<1>1. CASE UNCHANGED vars \/ RedisLoss \/ Tick
  BY <1>1, EndStays DEF vars, RedisLoss, Tick, Ends
<1>2. CASE Arrive
  <2>1. PICK r \in Requests : \/ StartLogin(r) \/ \E p : StartAuthenticate(r, p)
                              \/ \E p, o : StartRefresh(r, p, o)
    BY <1>2 DEF Arrive, Requests
  <2>2. Frame(r) /\ pc'[r] \in {"createSession", "selectToken", "getAccess"}
    BY <2>1, StartEffect
  <2>3. CASE q = r
    BY <2>2, <2>3 DEF EndOK
  <2>4. CASE q # r
    BY <2>2, <2>4, EndStays DEF Frame, Ends
  <2> QED BY <2>3, <2>4
<1>3. ASSUME NEW r \in Requests, Step(r) \/ Abort(r) PROVE EndOK(q)'
  <2>1. Effect(r)
    BY <1>3, StepEffect
  <2>2. CASE q # r
    BY <2>1, <2>2, EndStays DEF Effect, Frame, Ends
  <2>3. CASE q = r
    <3> DEFINE s == local[r].session
    <3>1. ASSUME pc'[r] \in {"storeResult", "storeAccess", "cacheActive"}
          PROVE  local'[r].now + SessionLifetime <= sessions'[local'[r].session].expiresAt
      <4>1. /\ pc[r] \in {"extend", "storeResult", "storeAccess"}
            /\ pc[r] = "extend" => CommitExtend(r)
            /\ local'[r].session = s /\ local'[r].now = local[r].now
        BY <2>1, <3>1 DEF Effect
      <4>2. CASE CommitExtend(r)
        <5>1. sessions'[s].expiresAt = local[r].now + SessionLifetime
          BY <4>2, ExtendedRows
        <5>2. local[r].now + SessionLifetime \in Nat
          BY TimeTypes
        <5> QED BY <4>1, <5>1, <5>2
      <4>3. CASE pc[r] \in {"storeResult", "storeAccess"}
        <5>1. /\ s \in Sessions /\ Exists(s) /\ sessions[s].expiresAt \in Nat
              /\ local[r].now + SessionLifetime <= sessions[s].expiresAt
          BY <4>3, EndTypes DEF Ends, EndOK
        <5>2. sessions'[s].expiresAt \in Nat /\ sessions[s].expiresAt <= sessions'[s].expiresAt
          BY <5>1, EndGrows
        <5>3. local[r].now + SessionLifetime \in Nat
          BY TimeTypes
        <5> QED BY <4>1, <5>1, <5>2, <5>3
      <4> QED BY <4>1, <4>2, <4>3
    <3>2. ASSUME pc'[r] \in {"sampleNow", "cacheState"}
          PROVE  local'[r].seen.expiresAt <= sessions'[local'[r].session].expiresAt
      <4>1. /\ local'[r].session = s
            /\ \/ pc[r] = "readState" /\ local'[r].seen = sessions[s]
               \/ pc[r] = "sampleNow" /\ local'[r].seen = local[r].seen
        BY <2>1, <3>2 DEF Effect
      <4>2. s \in Sessions /\ Exists(s) /\ sessions[s].expiresAt \in Nat
        BY <4>1, EndTypes
      <4>3. sessions'[s].expiresAt \in Nat /\ sessions[s].expiresAt <= sessions'[s].expiresAt
        BY <4>2, EndGrows
      <4>4. local'[r].seen.expiresAt \in Nat /\ local'[r].seen.expiresAt <= sessions[s].expiresAt
        BY <4>1, <4>2, EndTypes DEF Ends, EndOK
      <4> QED BY <4>1, <4>2, <4>3, <4>4
    <3> QED BY <2>3, <3>1, <3>2 DEF EndOK
  <2> QED BY <2>2, <2>3
<1> QED BY <1>1, <1>2, <1>3 DEF Next

LEMMA CacheStep ==
    ASSUME IInv, Ends, [Next]_vars, NEW s \in Sessions,
           sessionCache'[s] # sessionCache[s], sessionCache'[s] # None, sessionCache'[s].active
    PROVE  \E r \in Requests :
              /\ pc[r] \in {"cacheActive", "cacheState"}
              /\ local[r].session = s
              /\ sessionCache'[s].until <= sessions[s].expiresAt + (clock - local[r].now)
<1>1. ~(UNCHANGED vars \/ Tick \/ Arrive)
  BY DEF vars, Tick, Arrive, StartLogin, StartRefresh, StartAuthenticate, redis
<1>2. ~RedisLoss
  BY DEF RedisLoss
<1>3. PICK r \in Requests : Step(r) \/ Abort(r)
  BY <1>1, <1>2 DEF Next
<1>4. SessionLifetime \in Nat /\ clock \in Nat
  BY TimeTypes
<1>5. CASE /\ CacheActive(r) /\ s = local[r].session
           /\ sessionCache'[s].until = clock + SessionLifetime
  <2>1. pc[r] = "cacheActive"
    BY <1>5 DEF CacheActive
  <2>2. sessions[s].expiresAt \in Nat /\ local[r].now \in Nat
    BY <1>5, <2>1, EndTypes
  <2>3. local[r].now + SessionLifetime <= sessions[s].expiresAt
    BY <1>5, <2>1 DEF Ends, EndOK
  <2>4. clock + SessionLifetime <= sessions[s].expiresAt + (clock - local[r].now)
    BY <1>4, <2>2, <2>3
  <2> QED BY <1>5, <2>1, <2>4
<1>6. CASE /\ CacheState(r) /\ s = local[r].session
           /\ IsActive(local[r].seen, local[r].now)
           /\ sessionCache'[s].until = clock + CacheTTL(local[r].seen, local[r].now)
  <2>1. pc[r] = "cacheState"
    BY <1>6 DEF CacheState
  <2>2. /\ sessions[s].expiresAt \in Nat /\ local[r].now \in Nat /\ local[r].seen.expiresAt \in Nat
    BY <1>6, <2>1, EndTypes
  <2>3. local[r].seen.expiresAt <= sessions[s].expiresAt
    BY <1>6, <2>1 DEF Ends, EndOK
  <2>4. sessionCache'[s].until = clock + (local[r].seen.expiresAt - local[r].now)
    BY <1>6 DEF CacheTTL
  <2>5. clock + (local[r].seen.expiresAt - local[r].now)
           <= sessions[s].expiresAt + (clock - local[r].now)
    BY <1>4, <2>2, <2>3
  <2> QED BY <1>6, <2>1, <2>4, <2>5
<1> QED BY <1>3, <1>5, <1>6, CacheEntry

-----------------------------------------------------------------------------
(* The theorems about time and revocation.                                 *)

LEMMA InitTInv == Init => TInv
<1> SUFFICES ASSUME Init PROVE TInv
  OBVIOUS
<1>1. IInv
  BY InitIInv
<1>2. \A r \in Requests : NowOK(r) /\ RevocationOK(r)
  BY DEF Init, NowOK, RevocationOK, Issued, NoTokenRow, LocksSession, Blank
<1>3. \A s \in Sessions : ExpiryOK(s)
  BY DEF Init, ExpiryOK, Exists, NoSessionRow
<1>4. LongRefusalMeansRevoked
  BY DEF Init, LongRefusalMeansRevoked
<1> QED BY <1>1, <1>2, <1>3, <1>4 DEF TInv

LEMMA NextTInv == TInv /\ [Next]_vars => TInv'
<1> SUFFICES ASSUME TInv, [Next]_vars PROVE TInv'
  OBVIOUS
<1>1. IInv /\ Times /\ Revocations
  BY DEF TInv, Times, Revocations
<1>2. IInv'
  BY <1>1, NextIInv
<1>3. Times'
  BY <1>1, <1>2, TimesKeep
<1>4. \A q \in Requests : RevocationOK(q)'
  BY <1>1, <1>2, RevocationOKKeeps
<1>5. LongRefusalMeansRevoked'
  BY <1>1, <1>2, LongRefusalKeeps
<1> QED BY <1>2, <1>3, <1>4, <1>5 DEF TInv, Times

\* Every reachable state satisfies the invariant with its times: no request, no row and no
\* cached refusal of Login, Refresh and Authenticate lies where the clock cannot have put it.
THEOREM TimedInvariance == Spec => []TInv
BY InitTInv, NextTInv, PTL DEF Spec

\* Authenticate and Refresh: a refusal that the cache keeps for longer than InactiveTTL is
\* that of a session revoked in the database.
THEOREM LongRefusals == Spec => []LongRefusalMeansRevoked
<1>1. TInv => LongRefusalMeansRevoked
  BY DEF TInv
<1> QED BY <1>1, TimedInvariance, PTL

\* ExtendSession: however long a refresh waits for its locks, it never shortens the session.
THEOREM ExpiryGrows == Spec => ExpiryNeverShrinks
<1>1. TInv /\ [Next]_vars =>
         [\A s \in Sessions : Exists(s) =>
             Exists(s)' /\ sessions'[s].expiresAt >= sessions[s].expiresAt]_vars
  BY ExpiryStep DEF TInv, Times
<1> QED BY <1>1, TimedInvariance, PTL DEF Spec, ExpiryNeverShrinks

\* Authenticate: once the last request that saw the session before its revocation is gone,
\* nobody is let in for it any more, whatever Redis loses.
THEOREM RevocationIsFinal == Spec => SealedForever
<1>1. TInv /\ TInv' /\ [Next]_vars =>
         [\A s \in Sessions : Sealed(s) =>
             /\ Sealed(s)'
             /\ \A r \in Requests : (local[r].session = s /\ reply[r] = None) =>
                   reply'[r] # "accepted"]_vars
  BY SealedStep DEF TInv, Revocations
<1> QED BY <1>1, TimedInvariance, PTL DEF Spec, SealedForever

LEMMA EndsHold == Spec => []Ends
<1>1. Init => Ends
  BY DEF Init, Ends, EndOK
<1>2. TInv /\ TInv' /\ Ends /\ [Next]_vars => Ends'
  BY EndsKeep DEF TInv, Times, Ends
<1> QED BY <1>1, <1>2, TimedInvariance, PTL DEF Spec

\* Authenticate and Refresh: whichever request writes that a session is active, the entry ends
\* no later than the session does, but for the time that request has been under way.
THEOREM CacheEndsWithSession == Spec => CacheOutlivesByDelay
<1>1. IInv /\ Ends /\ [Next]_vars =>
         [\A s \in Sessions :
             (sessionCache'[s] # sessionCache[s] /\ sessionCache'[s] # None
                 /\ sessionCache'[s].active) =>
                   \E r \in Requests :
                       /\ pc[r] \in {"cacheActive", "cacheState"}
                       /\ local[r].session = s
                       /\ sessionCache'[s].until
                             <= sessions[s].expiresAt + (clock - local[r].now)]_vars
  BY CacheStep
<1> QED BY <1>1, EndsHold, Invariance, PTL DEF Spec, CacheOutlivesByDelay
=============================================================================
