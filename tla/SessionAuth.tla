---------------------------- MODULE SessionAuth ----------------------------
(***************************************************************************)
(* Login, Refresh and Authenticate of internal/service/auth/service.go,    *)
(* running concurrently over the Postgres session repository (row locks,   *)
(* one transaction per call) and the three Redis stores (access tokens,    *)
(* refresh results, session cache).                                        *)
(*                                                                         *)
(* A request is one call of one handler and is used once; each of its      *)
(* storage calls is a step of its own, because every other request may run *)
(* between two of them.  The refresh token and the access token that a     *)
(* request generates always travel together, so the pair is one value, and *)
(* it is named by the request that generated it; a session is named by the *)
(* Login that creates it.                                                  *)
(***************************************************************************)
EXTENDS Naturals

CONSTANTS
    Logins,              \* requests that call Login
    Refreshes,           \* requests that call Refresh
    Authentications,     \* requests that pass the authentication middleware
    Operations,          \* operation IDs a client puts in a refresh request
    None,                \* SQL NULL, a missing Redis key, no lock holder
    Unknown,             \* a token that no request generated
    SessionLifetime,     \* sessionInactivityTimeout
    AccessTokenLifetime, \* accessTokenLifetime
    RefreshRetryTTL,     \* refreshRetryTTL
    InactiveTTL,         \* the 5 minutes of Authenticate
    MaxTime,             \* bound: the clock stops here
    MaxRedisLosses,      \* bound: how often Redis may lose its data
    RedisMayFail         \* whether a Redis command may fail

Requests == Logins \cup Refreshes \cup Authentications
Pairs    == Logins \cup Refreshes
Sessions == Logins

ASSUME RequestsAssumption ==
    /\ Logins \cap Refreshes = {}
    /\ Pairs \cap Authentications = {}
    /\ None \notin Requests \cup Operations \cup Nat
    /\ Unknown \notin Requests \cup {None}
    /\ \A answer \in {"accepted", "unauthorized", "reuse", "failed"} :
          answer \notin Pairs \cup {None}

ASSUME DurationsAssumption ==
    /\ {SessionLifetime, AccessTokenLifetime, RefreshRetryTTL, InactiveTTL} \subseteq Nat \ {0}
    /\ MaxTime \in Nat
    /\ MaxRedisLosses \in Nat
    /\ RedisMayFail \in BOOLEAN

VARIABLES
    clock,           \* what s.now() returns
    sessions,        \* table auth_sessions
    tokens,          \* table refresh_tokens, by pair
    tokenLock,       \* request whose transaction holds the refresh_tokens row
    sessionLock,     \* request whose transaction holds the auth_sessions row
    accessTokens,    \* Redis auth:access:*
    refreshResults,  \* Redis auth:refresh-result:*, by the old pair
    sessionCache,    \* Redis auth:session:*
    pc,              \* the storage call a request makes next
    local,           \* the local variables of a request
    reply,           \* what the client of a finished request has received
    redisLosses      \* how often Redis has lost its data

database == <<sessions, tokens, tokenLock, sessionLock>>
redis    == <<accessTokens, refreshResults, sessionCache>>
world    == <<clock, redisLosses>>
vars     == <<clock, sessions, tokens, tokenLock, sessionLock, accessTokens,
              refreshResults, sessionCache, pc, local, reply, redisLosses>>

-----------------------------------------------------------------------------
(* Rows, entries and the local variables of a request.                     *)

NoSessionRow == [expiresAt |-> None, revokedAt |-> None]
NoTokenRow   == [session |-> None, requestID |-> None]

SessionRows == [expiresAt : Nat \cup {None}, revokedAt : Nat \cup {None}]
TokenRows   == [session : Sessions \cup {None}, requestID : Operations \cup {None}]

Blank == [old     |-> None,   \* the pair the client presents
          op      |-> None,   \* the operation ID it presents
          now     |-> 0,      \* now
          row     |-> None,   \* request_id as the transaction read it
          session |-> None,   \* the session of the identity
          pair    |-> None,   \* the pair to return
          seen    |-> NoSessionRow]  \* sessionState as Authenticate read it

Locals == [old : Pairs \cup {None, Unknown}, op : Operations \cup {None}, now : Nat,
           row : Operations \cup {None}, session : Sessions \cup {None},
           pair : Pairs \cup {None}, seen : SessionRows]

Labels == {"idle", "createSession", "storeLogin", "selectToken", "selectSession",
           "extend", "revoke", "storeResult", "storeAccess", "cacheActive",
           "getResult", "restoreAccess", "cacheRevoked", "respond",
           "getAccess", "getSession", "readState", "sampleNow", "cacheState", "done"}

Answers == Pairs \cup {"accepted", "unauthorized", "reuse", "failed"}

\* The pairs some client holds: it presents only what it has received.
Known == {reply[r] : r \in Requests} \cap Pairs

\* A Redis key with a time to live is there until the clock reaches its deadline.
Live(entry) == entry # None /\ clock < entry.until

\* A Redis write whose error the service only reports to its observer.
Written(store, updated) == IF RedisMayFail THEN {store, updated} ELSE {updated}

\* The session is usable at time now, from a row read earlier.
\* (Faulty variant, for mutation: revoked_at is not looked at.)
IsActiveIgnoringRevocation(row, now) == row.expiresAt > now
IsActive(row, now) == row.revokedAt = None /\ row.expiresAt > now

-----------------------------------------------------------------------------
(* Control.                                                                *)

Goto(r, label) == pc' = [pc EXCEPT ![r] = label]

\* The handler returns: its locals are gone, but for what the client itself sent.
Return(r, answer) ==
    /\ Goto(r, "done")
    /\ reply' = [reply EXCEPT ![r] = answer]
    /\ local' = [local EXCEPT ![r] = [Blank EXCEPT !.old = local[r].old, !.op = local[r].op]]

\* Commit and Rollback give back every row lock of the transaction.
\* (Faulty variant: the deferred Rollback is missing and the locks stay.)
Kept(lock, r) == lock
Without(lock, r) == [row \in DOMAIN lock |-> IF lock[row] = r THEN None ELSE lock[row]]

EndTransaction(r) ==
    /\ tokenLock' = Without(tokenLock, r)
    /\ sessionLock' = Without(sessionLock, r)

\* SELECT ... FOR UPDATE waits until no other transaction holds the row.
\* (Faulty variant: a SELECT without FOR UPDATE does not wait.)
Always(lock, row) == TRUE
RowFree(lock, row) == lock[row] = None

Init ==
    /\ clock = 0
    /\ sessions = [s \in Sessions |-> NoSessionRow]
    /\ tokens = [p \in Pairs |-> NoTokenRow]
    /\ tokenLock = [p \in Pairs |-> None]
    /\ sessionLock = [s \in Sessions |-> None]
    /\ accessTokens = [p \in Pairs |-> None]
    /\ refreshResults = [p \in Pairs |-> None]
    /\ sessionCache = [s \in Sessions |-> None]
    /\ pc = [r \in Requests |-> "idle"]
    /\ local = [r \in Requests |-> Blank]
    /\ reply = [r \in Requests |-> None]
    /\ redisLosses = 0

-----------------------------------------------------------------------------
(* Login.                                                                  *)

StartLogin(r) ==
    /\ pc[r] = "idle"
    /\ Goto(r, "createSession")
    /\ local' = [local EXCEPT ![r].now = clock]
    /\ UNCHANGED <<world, database, redis, reply>>

\* The transaction only inserts new rows, so nobody waits for it.
CreateSession(r) ==
    /\ pc[r] = "createSession"
    /\ sessions' = [sessions EXCEPT ![r].expiresAt = local[r].now + SessionLifetime]
    /\ tokens' = [tokens EXCEPT ![r].session = r]
    /\ local' = [local EXCEPT ![r] = [@ EXCEPT !.session = r, !.pair = r]]
    /\ Goto(r, "storeLogin")
    /\ UNCHANGED <<world, tokenLock, sessionLock, redis, reply>>

\* accessTokens with the access token of pair p stored for session s.
AccessStored(p, s) ==
    [accessTokens EXCEPT ![p] = [session |-> s, until |-> clock + AccessTokenLifetime]]

\* accessTokenStorage.Store, the three calls of it: the pair that is returned is stored.
StoreAccessToken(r) ==
    \E next \in {<<"storeLogin", "respond">>, <<"storeAccess", "cacheActive">>,
                 <<"restoreAccess", "respond">>} :
        /\ pc[r] = next[1]
        /\ accessTokens' \in Written(accessTokens, AccessStored(local[r].pair, local[r].session))
        /\ Goto(r, next[2])
        /\ UNCHANGED <<world, database, refreshResults, sessionCache, local, reply>>

\* The pair reaches the client.
Respond(r) ==
    /\ pc[r] = "respond"
    /\ Return(r, local[r].pair)
    /\ UNCHANGED <<world, database, redis>>

-----------------------------------------------------------------------------
(* Refresh.                                                                *)

StartRefresh(r, p, o) ==
    /\ pc[r] = "idle"
    /\ Goto(r, "selectToken")
    /\ local' = [local EXCEPT ![r] = [@ EXCEPT !.old = p, !.op = o, !.now = clock]]
    /\ UNCHANGED <<world, database, redis, reply>>

\* SELECT of the refresh token, FOR UPDATE; an unknown token is an error of the server.
SelectToken(r) ==
    LET p == local[r].old IN
    /\ pc[r] = "selectToken"
    /\ \/ /\ p = Unknown
          /\ Return(r, "failed")
          /\ UNCHANGED tokenLock
       \/ /\ p \in Pairs
          /\ RowFree(tokenLock, p)
          /\ tokenLock' = [tokenLock EXCEPT ![p] = r]
          /\ local' = [local EXCEPT ![r] = [@ EXCEPT !.row = tokens[p].requestID,
                                                      !.session = tokens[p].session]]
          /\ Goto(r, "selectSession")
          /\ UNCHANGED reply
    /\ UNCHANGED <<world, sessions, tokens, sessionLock, redis>>

\* A used token is presented again by the operation that used it.
\* (Faulty variant: none is.)
NeverRetry(row, op) == FALSE
IsRetry(row, op) == row # None /\ row = op

\* The identity that ExtendSession returns with ErrRefreshRetry.
\* (Faulty variant: the empty Identity of the error paths.)
EmptyIdentity(r) == None
RetryIdentity(r) == local[r].session

\* SELECT of the session, FOR UPDATE, and what the transaction then does.
SelectSession(r) ==
    LET s == local[r].session
        lookup == local[r].row
    IN
    /\ pc[r] = "selectSession"
    /\ RowFree(sessionLock, s)
    /\ \/ /\ ~IsActive(sessions[s], local[r].now)
          /\ Return(r, "unauthorized")
          /\ EndTransaction(r)
       \/ /\ IsActive(sessions[s], local[r].now)
          /\ UNCHANGED reply
          /\ \/ /\ IsRetry(lookup, local[r].op)
                /\ local' = [local EXCEPT ![r].session = RetryIdentity(r)]
                /\ Goto(r, "getResult")
                /\ EndTransaction(r)
             \/ /\ ~IsRetry(lookup, local[r].op)
                /\ Goto(r, IF lookup # None THEN "revoke" ELSE "extend")
                /\ sessionLock' = [sessionLock EXCEPT ![s] = r]
                /\ UNCHANGED <<tokenLock, local>>
    /\ UNCHANGED <<world, sessions, tokens, redis>>

\* The old token is used up by this operation and the new one takes its place.
CommitExtend(r) ==
    LET s == local[r].session IN
    /\ pc[r] = "extend"
    /\ tokens' = [tokens EXCEPT ![local[r].old] = [session |-> s, requestID |-> local[r].op],
                                ![r] = [session |-> s, requestID |-> None]]
    /\ sessions' = [sessions EXCEPT ![s].expiresAt = local[r].now + SessionLifetime]
    /\ EndTransaction(r)
    /\ local' = [local EXCEPT ![r].pair = r]
    /\ Goto(r, "storeResult")
    /\ UNCHANGED <<world, redis, reply>>

\* A second operation on a used token revokes the session.
CommitRevoke(r) ==
    /\ pc[r] = "revoke"
    /\ sessions' = [sessions EXCEPT ![local[r].session].revokedAt = local[r].now]
    /\ EndTransaction(r)
    /\ Goto(r, "cacheRevoked")
    /\ UNCHANGED <<world, tokens, redis, local, reply>>

\* The key of the stored result.
\* (Faulty variant: the new token instead of the old one.)
NewToken(r) == local[r].pair
ResultKey(r) == local[r].old

StoreResult(r) ==
    /\ pc[r] = "storeResult"
    /\ refreshResults' \in Written(refreshResults,
          [refreshResults EXCEPT ![ResultKey(r)] =
              [pair |-> local[r].pair, until |-> clock + RefreshRetryTTL]])
    /\ Goto(r, "storeAccess")
    /\ UNCHANGED <<world, database, accessTokens, sessionCache, local, reply>>

\* The result of the operation that is retried; without it the client must log in again.
GetResult(r) ==
    LET entry == refreshResults[local[r].old] IN
    /\ pc[r] = "getResult"
    /\ \/ /\ Live(entry)
          /\ local' = [local EXCEPT ![r].pair = entry.pair]
          /\ Goto(r, "restoreAccess")
          /\ UNCHANGED reply
       \/ /\ ~Live(entry)
          /\ Return(r, "unauthorized")
    /\ UNCHANGED <<world, database, redis>>

\* sessionCache with the entry of s set to isActive for ttl.
SessionSet(s, isActive, ttl) ==
    [sessionCache EXCEPT ![s] = [active |-> isActive, until |-> clock + ttl]]

CacheActive(r) ==
    /\ pc[r] = "cacheActive"
    /\ sessionCache' \in Written(sessionCache,
                                 SessionSet(local[r].session, TRUE, SessionLifetime))
    /\ Goto(r, "respond")
    /\ UNCHANGED <<world, database, accessTokens, refreshResults, local, reply>>

CacheRevoked(r) ==
    /\ pc[r] = "cacheRevoked"
    /\ sessionCache' \in Written(sessionCache,
                                 SessionSet(local[r].session, FALSE, SessionLifetime))
    /\ Return(r, "reuse")
    /\ UNCHANGED <<world, database, accessTokens, refreshResults>>

-----------------------------------------------------------------------------
(* Authenticate.                                                           *)

StartAuthenticate(r, p) ==
    /\ pc[r] = "idle"
    /\ Goto(r, "getAccess")
    /\ local' = [local EXCEPT ![r].old = p]
    /\ UNCHANGED <<world, database, redis, reply>>

GetAccess(r) ==
    LET p == local[r].old IN
    /\ pc[r] = "getAccess"
    /\ \/ /\ p \in Pairs
          /\ Live(accessTokens[p])
          /\ local' = [local EXCEPT ![r].session = accessTokens[p].session]
          /\ Goto(r, "getSession")
          /\ UNCHANGED reply
       \/ /\ ~(p \in Pairs /\ Live(accessTokens[p]))
          /\ Return(r, "unauthorized")
    /\ UNCHANGED <<world, database, redis>>

\* A hit decides at once; a miss, or an error of Redis, goes to the database.
GetSession(r) ==
    LET entry == sessionCache[local[r].session] IN
    /\ pc[r] = "getSession"
    /\ \/ /\ Live(entry)
          /\ Return(r, IF entry.active THEN "accepted" ELSE "unauthorized")
       \/ /\ ~Live(entry) \/ RedisMayFail
          /\ Goto(r, "readState")
          /\ UNCHANGED <<local, reply>>
    /\ UNCHANGED <<world, database, redis>>

GetSessionState(r) ==
    /\ pc[r] = "readState"
    /\ local' = [local EXCEPT ![r].seen = sessions[local[r].session]]
    /\ Goto(r, "sampleNow")
    /\ UNCHANGED <<world, database, redis, reply>>

SampleNow(r) ==
    /\ pc[r] = "sampleNow"
    /\ local' = [local EXCEPT ![r].now = clock]
    /\ Goto(r, "cacheState")
    /\ UNCHANGED <<world, database, redis, reply>>

\* How long the answer from the database is cached.
\* (Faulty variants: the two lifetimes are swapped; the age of the session is ignored.)
CacheTTLSwapped(row, now) == IF IsActive(row, now) THEN InactiveTTL ELSE SessionLifetime
CacheTTLFull(row, now) == IF IsActive(row, now) THEN SessionLifetime ELSE InactiveTTL
CacheTTL(row, now) == IF IsActive(row, now) THEN row.expiresAt - now ELSE InactiveTTL

CacheState(r) ==
    LET seen == local[r].seen
        now  == local[r].now
    IN
    /\ pc[r] = "cacheState"
    /\ sessionCache' \in Written(sessionCache,
          SessionSet(local[r].session, IsActive(seen, now), CacheTTL(seen, now)))
    /\ Return(r, IF IsActive(seen, now) THEN "accepted" ELSE "unauthorized")
    /\ UNCHANGED <<world, database, accessTokens, refreshResults>>

-----------------------------------------------------------------------------
(* Failures and time.                                                      *)

\* The call under way returns an error that the handler returns, the request's
\* context is cancelled, the answer is lost or the process stops.  An open
\* transaction is rolled back; after a commit this is the call whose result the
\* client never learns.
Abort(r) ==
    /\ pc[r] \notin {"idle", "done"}
    /\ EndTransaction(r)
    /\ Return(r, "failed")
    /\ UNCHANGED <<world, sessions, tokens, redis>>

\* Redis restarts without its data.
RedisLoss ==
    /\ redisLosses < MaxRedisLosses
    /\ redisLosses' = redisLosses + 1
    /\ accessTokens' = [p \in Pairs |-> None]
    /\ refreshResults' = [p \in Pairs |-> None]
    /\ sessionCache' = [s \in Sessions |-> None]
    /\ UNCHANGED <<clock, database, pc, local, reply>>

Tick ==
    /\ clock < MaxTime
    /\ clock' = clock + 1
    /\ UNCHANGED <<database, redis, pc, local, reply, redisLosses>>

-----------------------------------------------------------------------------
\* The calls of a request after it has arrived, when none of them fails.
Step(r) ==
    \/ CreateSession(r) \/ StoreAccessToken(r) \/ Respond(r)
    \/ SelectToken(r) \/ SelectSession(r) \/ CommitExtend(r) \/ CommitRevoke(r)
    \/ StoreResult(r) \/ GetResult(r) \/ CacheActive(r) \/ CacheRevoked(r)
    \/ GetAccess(r) \/ GetSession(r) \/ GetSessionState(r) \/ SampleNow(r) \/ CacheState(r)

Arrive ==
    \/ \E r \in Logins : StartLogin(r)
    \/ \E r \in Refreshes, p \in Known \cup {Unknown}, o \in Operations : StartRefresh(r, p, o)
    \/ \E r \in Authentications, p \in Known \cup {Unknown} : StartAuthenticate(r, p)

Next ==
    \/ Arrive
    \/ \E r \in Requests : Step(r)
    \/ \E r \in Requests : Abort(r)
    \/ RedisLoss
    \/ Tick

Spec == Init /\ [][Next]_vars

\* A request under way keeps running: every call returns, and Postgres grants a
\* row lock to a waiting transaction once the row is free.
Fairness == \A r \in Requests : WF_vars(Step(r))

FairSpec == Spec /\ Fairness

-----------------------------------------------------------------------------
(* Correctness.                                                            *)

\* The types of every table, store and local variable.
Types ==
    /\ clock \in Nat
    /\ sessions \in [Sessions -> SessionRows]
    /\ tokens \in [Pairs -> TokenRows]
    /\ tokenLock \in [Pairs -> Refreshes \cup {None}]
    /\ sessionLock \in [Sessions -> Refreshes \cup {None}]
    /\ accessTokens \in [Pairs -> {None} \cup [session : Sessions, until : Nat]]
    /\ refreshResults \in [Pairs -> {None} \cup [pair : Pairs, until : Nat]]
    /\ sessionCache \in [Sessions -> {None} \cup [active : BOOLEAN, until : Nat]]
    /\ pc \in [Requests -> Labels]
    /\ local \in [Requests -> Locals]
    /\ reply \in [Requests -> Answers \cup {None}]
    /\ redisLosses \in Nat

\* Every variable keeps its type; the row of a token, and that of a session, is locked by
\* the refresh that is between its SELECT ... FOR UPDATE and the end of its transaction,
\* and by no other.
TypeOK ==
    /\ Types
    /\ \A r \in Refreshes :
          /\ \A p \in Pairs : tokenLock[p] = r <=>
                local[r].old = p /\ pc[r] \in {"selectSession", "extend", "revoke"}
          /\ \A s \in Sessions : sessionLock[s] = r <=>
                local[r].session = s /\ pc[r] \in {"extend", "revoke"}

Exists(s)  == sessions[s].expiresAt # None
Revoked(s) == sessions[s].revokedAt # None
Unused(p)  == tokens[p].session # None /\ tokens[p].requestID = None

\* However requests interleave and wherever they stop, a session that exists has
\* exactly one refresh token that can still be used: ExtendSession hands the session
\* from one token to the next, never to two and never to none.
OneUnusedToken ==
    \A s \in Sessions :
        /\ Exists(s) => \E p \in Pairs : Unused(p) /\ tokens[p].session = s
        /\ \A p, q \in Pairs :
              (Unused(p) /\ Unused(q) /\ tokens[p].session = s /\ tokens[q].session = s) => p = q

\* What Redis says of a token agrees with the database: an access token opens the
\* session its pair was issued for, and the stored result of a refresh is the pair
\* that replaced a used token of the same session.
StoresFollowDatabase ==
    /\ \A p \in Pairs : accessTokens[p] # None =>
          tokens[p].session = accessTokens[p].session
    /\ \A p \in Pairs : refreshResults[p] # None =>
          /\ tokens[p].requestID # None
          /\ tokens[refreshResults[p].pair].session = tokens[p].session

\* A session that nobody revoked is refused from the cache for at most InactiveTTL:
\* the long refusal is written only after the revocation is committed.
LongRefusalMeansRevoked ==
    \A s \in Sessions :
        (sessionCache[s] # None /\ ~sessionCache[s].active
            /\ sessionCache[s].until > clock + InactiveTTL) => Revoked(s)

\* The end of a session only ever moves forward, although the time it is computed
\* from was sampled before the transaction waited for its locks.
ExpiryNeverShrinks ==
    [][\A s \in Sessions : Exists(s) =>
          Exists(s)' /\ sessions'[s].expiresAt >= sessions[s].expiresAt]_vars

\* The cache may call a session active past its end, but by no more than the time for which
\* the request that writes the entry has been under way: its lifetime counts from the
\* write, the end of the session from the time sampled before.
CacheOutlivesByDelay ==
    [][\A s \in Sessions :
          (sessionCache'[s] # sessionCache[s] /\ sessionCache'[s] # None
              /\ sessionCache'[s].active) =>
                \E r \in Requests :
                    /\ pc[r] \in {"cacheActive", "cacheState"}
                    /\ local[r].session = s
                    /\ sessionCache'[s].until <= sessions[s].expiresAt + (clock - local[r].now)]_vars

\* r is going to write that s is active, from what it read or wrote earlier.
BelievesActive(r, s) ==
    /\ local[r].session = s
    /\ \/ pc[r] \in {"storeResult", "storeAccess", "cacheActive"}
       \/ pc[r] \in {"sampleNow", "cacheState"} /\ local[r].seen.revokedAt = None

\* s is revoked, the cache does not say it is active, and nobody is about to say so.
Sealed(s) ==
    /\ Revoked(s)
    /\ ~(Live(sessionCache[s]) /\ sessionCache[s].active)
    /\ \A r \in Requests : ~BelievesActive(r, s)

\* Once the requests that saw the session before its revocation are gone and the cache
\* has forgotten it, no request is ever let in for it again, whatever fails later.
SealedForever ==
    [][\A s \in Sessions : Sealed(s) =>
          /\ Sealed(s)'
          /\ \A r \in Requests : (local[r].session = s /\ reply[r] = None) =>
                reply'[r] # "accepted"]_vars

\* The comment of ExtendSession: the second operation on an old token revokes the whole
\* session.  After the refusal of that operation the cache must not call it active.
RevocationTakesEffect ==
    \A r \in Refreshes : reply[r] = "reuse" =>
        LET entry == sessionCache[tokens[local[r].old].session]
        IN ~(Live(entry) /\ entry.active)

\* The session family of TokenFamily, read off the rows and the answers.  The successor of a
\* token is the one generated by the request that presented it and was inserted.
LastToken(s) ==
    IF \E p \in Pairs : Unused(p) /\ tokens[p].session = s
    THEN CHOOSE p \in Pairs : Unused(p) /\ tokens[p].session = s
    ELSE None

Successor(p) ==
    IF \E r \in Refreshes : local[r].old = p /\ tokens[r].session # None
    THEN CHOOSE r \in Refreshes : local[r].old = p /\ tokens[r].session # None
    ELSE None

Family == INSTANCE TokenFamily WITH
    Tokens <- Pairs,
    last   <- [s \in Sessions |-> LastToken(s)],
    family <- [p \in Pairs |-> tokens[p].session],
    usedBy <- [p \in Pairs |-> tokens[p].requestID],
    next   <- [p \in Pairs |-> Successor(p)],
    ended  <- {s \in Sessions : Revoked(s)},
    presented <- {<<local[r].old, local[r].op>> : r \in {q \in Refreshes : local[q].old \in Pairs}},
    given  <- {<<local[r].old, local[r].op, reply[r]>> : r \in {q \in Pairs : reply[q] \in Pairs}}

\* Transactions, locks and the three Redis stores implement the token family: in particular
\* a repeated refresh gets the successor of the token it presents and no other pair, and
\* what was revoked is never rotated.
ImplementsTokenFamily == Family!Spec

\* Every request is answered: no set of row locks makes the requests wait for each other.
EveryRequestAnswered ==
    \A r \in Requests : (pc[r] # "idle") ~> (pc[r] = "done")
=============================================================================
