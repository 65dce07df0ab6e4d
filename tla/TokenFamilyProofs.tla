-------------------------- MODULE TokenFamilyProofs --------------------------
(***************************************************************************)
(* The session module implements TokenFamily, for any number of sessions,  *)
(* requests and operations and for any lifetimes: what a client receives   *)
(* is decided by the tokens alone, whatever the transactions, the locks    *)
(* and Redis do.                                                           *)
(***************************************************************************)
EXTENDS SessionAuthProofs

-----------------------------------------------------------------------------
(* The inductive invariant: the chain of tokens as the requests know it.   *)

\* q is the request that used up the token p and got its own one for it.
IsSuccessor(q, p) == q \in Refreshes /\ tokens[q].session # None /\ local[q].old = p

\* What a request has presented, and what it has received, does not change any more.
PresentsOK(r) ==
    /\ pc[r] = "idle" => local[r].old = None
    /\ reply[r] \in Pairs => pc[r] = "done"
    /\ r \in Logins => local[r].old = None /\ local[r].op = None

\* The operation that used up the old token of r is the one r had presented.
LineageOK(r) ==
    (r \in Refreshes /\ tokens[r].session # None) =>
        local[r].old \in Pairs /\ tokens[local[r].old].requestID = local[r].op

\* The pair that a request returns, and the operations at a used token.
ReturnsOK(r) ==
    /\ (r \in Logins /\ pc[r] \in HoldsPair) => local[r].pair = r
    /\ (r \in Refreshes /\ pc[r] \in HoldsPair \cup {"getResult"}) =>
          local[r].old \in Pairs /\ tokens[local[r].old].requestID = local[r].op
    /\ (r \in Refreshes /\ pc[r] \in HoldsPair) => IsSuccessor(local[r].pair, local[r].old)
    /\ pc[r] = "revoke" => local[r].row \notin {None, local[r].op}

\* A token has a successor when it is used, and never two.
Chain ==
    /\ \A p \in Pairs : tokens[p].requestID # None => \E q \in Refreshes : IsSuccessor(q, p)
    /\ \A p \in Pairs : \A q1, q2 \in Refreshes :
          IsSuccessor(q1, p) /\ IsSuccessor(q2, p) => q1 = q2

Results == \A p \in Pairs : refreshResults[p] # None => IsSuccessor(refreshResults[p].pair, p)

FInv ==
    /\ TInv
    /\ \A r \in Requests : PresentsOK(r) /\ LineageOK(r) /\ ReturnsOK(r)
    /\ Chain
    /\ Results

-----------------------------------------------------------------------------
(* What a step leaves of the chain.                                        *)

LEMMA RefreshFacts ==
    ASSUME NEW r \in Refreshes
    PROVE  r \in Requests /\ r \in Pairs /\ r \notin Logins /\ r # None
  BY RequestsAssumption DEF Requests, Pairs

LEMMA LoginFacts ==
    ASSUME NEW r \in Logins
    PROVE  r \in Requests /\ r \in Pairs /\ r \in Sessions /\ r \notin Refreshes /\ r # None
  BY RequestsAssumption DEF Requests, Pairs, Sessions

\* A request that goes on, or ends, keeps what it presented.
Keeps(r) ==
    /\ local'[r].old = local[r].old /\ local'[r].op = local[r].op
    /\ pc[r] \notin {"idle", "done"} /\ pc'[r] # "idle"
    /\ \/ reply'[r] = reply[r]
       \/ pc'[r] = "done" /\ reply'[r] \notin Pairs
       \/ Respond(r)

LEMMA ReturnKeeps ==
    ASSUME IInv, NEW r \in Requests, pc[r] \notin {"idle", "done"},
           NEW answer \in {"accepted", "unauthorized", "reuse", "failed"}, Return(r, answer)
    PROVE  Keeps(r) /\ pc'[r] = "done"
  BY AnswerTypes, Returns DEF IInv, Keeps

LEMMA MoveKeeps ==
    ASSUME IInv, NEW r \in Requests, pc[r] \notin {"idle", "done"}, NEW label,
           label # "idle", Goto(r, label), UNCHANGED reply,
           NEW new, local' = [local EXCEPT ![r] = new],
           new.old = local[r].old, new.op = local[r].op
    PROVE  Keeps(r)
<1>1. pc'[r] = label
  BY DEF IInv, Types, Goto
<1>2. local'[r] = new
  BY DEF IInv, Types
<1> QED BY <1>1, <1>2 DEF Keeps

LEMMA StayKeeps ==
    ASSUME IInv, NEW r \in Requests, pc[r] \notin {"idle", "done"}, NEW label,
           label # "idle", Goto(r, label), UNCHANGED <<local, reply>>
    PROVE  Keeps(r)
  BY DEF IInv, Types, Goto, Keeps

LEMMA StepKeeps ==
    ASSUME IInv, NEW r \in Requests, Step(r) \/ Abort(r)
    PROVE  Keeps(r)
<1>0. local[r] \in Locals
  BY DEF IInv, Types
<1>1. CASE Abort(r)
  BY <1>1, ReturnKeeps DEF Abort
<1>2. CASE CreateSession(r)
  <2> DEFINE new == [local[r] EXCEPT !.session = r, !.pair = r]
  <2>1. local' = [local EXCEPT ![r] = new]
    BY <1>2 DEF IInv, Types, CreateSession
  <2>2. new.old = local[r].old /\ new.op = local[r].op
    BY <1>0 DEF Locals
  <2> HIDE DEF new
  <2>3. pc[r] = "createSession" /\ Goto(r, "storeLogin") /\ reply' = reply
    BY <1>2 DEF CreateSession
  <2> QED BY <2>1, <2>2, <2>3, MoveKeeps
<1>3. CASE StoreAccessToken(r)
  <2>1. PICK label \in {"respond", "cacheActive"} :
           Goto(r, label) /\ UNCHANGED <<local, reply>> /\ pc[r] \notin {"idle", "done"}
    BY <1>3 DEF StoreAccessToken
  <2> QED BY <2>1, StayKeeps
<1>4. CASE Respond(r)
  <2>1. local[r].pair \in Answers
    BY <1>4 DEF Respond, IInv, RequestOK, MemoryOK, HoldsPair, Issued, Answers
  <2> QED BY <1>4, <2>1, Returns DEF IInv, Respond, Keeps
<1>5. CASE SelectToken(r)
  <2>1. pc[r] = "selectToken"
    BY <1>5 DEF SelectToken
  <2>2. CASE Return(r, "failed")
    BY <2>1, <2>2, ReturnKeeps
  <2>3. CASE ~Return(r, "failed")
    <3> DEFINE p == local[r].old
               new == [local[r] EXCEPT !.row = tokens[p].requestID, !.session = tokens[p].session]
    <3>1. Goto(r, "selectSession") /\ reply' = reply /\ local' = [local EXCEPT ![r] = new]
      BY <1>5, <2>3 DEF IInv, Types, SelectToken
    <3>2. new.old = local[r].old /\ new.op = local[r].op
      BY <1>0 DEF Locals
    <3> HIDE DEF new
    <3> QED BY <2>1, <3>1, <3>2, MoveKeeps
  <2> QED BY <2>2, <2>3
<1>6. CASE SelectSession(r)
  <2>1. pc[r] = "selectSession"
    BY <1>6 DEF SelectSession
  <2>2. CASE Return(r, "unauthorized")
    BY <2>1, <2>2, ReturnKeeps
  <2>3. CASE ~Return(r, "unauthorized")
    <3>1. local' = local /\ reply' = reply
      BY <1>6, <2>3 DEF SelectSession, RetryIdentity, IInv, Types, Locals
    <3>2. PICK label \in {"getResult", "revoke", "extend"} : Goto(r, label)
      BY <1>6, <2>3 DEF SelectSession
    <3> QED BY <2>1, <3>1, <3>2, StayKeeps
  <2> QED BY <2>2, <2>3
<1>7. CASE CommitExtend(r)
  <2> DEFINE new == [local[r] EXCEPT !.pair = r]
  <2>1. local' = [local EXCEPT ![r] = new]
    BY <1>7 DEF IInv, Types, CommitExtend
  <2>2. new.old = local[r].old /\ new.op = local[r].op
    BY <1>0 DEF Locals
  <2> HIDE DEF new
  <2>3. pc[r] = "extend" /\ Goto(r, "storeResult") /\ reply' = reply
    BY <1>7 DEF CommitExtend
  <2> QED BY <2>1, <2>2, <2>3, MoveKeeps
<1>8. CASE CommitRevoke(r)
  BY <1>8, StayKeeps DEF CommitRevoke
<1>9. CASE StoreResult(r)
  BY <1>9, StayKeeps DEF StoreResult
<1>10. CASE GetResult(r)
  <2>1. pc[r] = "getResult"
    BY <1>10 DEF GetResult
  <2>2. CASE Return(r, "unauthorized")
    BY <2>1, <2>2, ReturnKeeps
  <2>3. CASE ~Return(r, "unauthorized")
    <3> DEFINE new == [local[r] EXCEPT !.pair = refreshResults[local[r].old].pair]
    <3>1. Goto(r, "restoreAccess") /\ reply' = reply /\ local' = [local EXCEPT ![r] = new]
      BY <1>10, <2>3 DEF IInv, Types, GetResult
    <3>2. new.old = local[r].old /\ new.op = local[r].op
      BY <1>0 DEF Locals
    <3> HIDE DEF new
    <3> QED BY <2>1, <3>1, <3>2, MoveKeeps
  <2> QED BY <2>2, <2>3
<1>11. CASE CacheActive(r)
  BY <1>11, StayKeeps DEF CacheActive
<1>12. CASE CacheRevoked(r)
  BY <1>12, ReturnKeeps DEF CacheRevoked
<1>13. CASE GetAccess(r)
  <2>1. pc[r] = "getAccess"
    BY <1>13 DEF GetAccess
  <2>2. CASE Return(r, "unauthorized")
    BY <2>1, <2>2, ReturnKeeps
  <2>3. CASE ~Return(r, "unauthorized")
    <3> DEFINE new == [local[r] EXCEPT !.session = accessTokens[local[r].old].session]
    <3>1. Goto(r, "getSession") /\ reply' = reply /\ local' = [local EXCEPT ![r] = new]
      BY <1>13, <2>3 DEF IInv, Types, GetAccess
    <3>2. new.old = local[r].old /\ new.op = local[r].op
      BY <1>0 DEF Locals
    <3> HIDE DEF new
    <3> QED BY <2>1, <3>1, <3>2, MoveKeeps
  <2> QED BY <2>2, <2>3
<1>14. CASE GetSession(r)
  BY <1>14, ReturnKeeps, StayKeeps DEF GetSession
<1>15. CASE GetSessionState(r)
  <2> DEFINE new == [local[r] EXCEPT !.seen = sessions[local[r].session]]
  <2>1. local' = [local EXCEPT ![r] = new]
    BY <1>15 DEF IInv, Types, GetSessionState
  <2>2. new.old = local[r].old /\ new.op = local[r].op
    BY <1>0 DEF Locals
  <2> HIDE DEF new
  <2>3. pc[r] = "readState" /\ Goto(r, "sampleNow") /\ reply' = reply
    BY <1>15 DEF GetSessionState
  <2> QED BY <2>1, <2>2, <2>3, MoveKeeps
<1>16. CASE SampleNow(r)
  <2> DEFINE new == [local[r] EXCEPT !.now = clock]
  <2>1. local' = [local EXCEPT ![r] = new]
    BY <1>16 DEF IInv, Types, SampleNow
  <2>2. new.old = local[r].old /\ new.op = local[r].op
    BY <1>0 DEF Locals
  <2> HIDE DEF new
  <2>3. pc[r] = "sampleNow" /\ Goto(r, "cacheState") /\ reply' = reply
    BY <1>16 DEF SampleNow
  <2> QED BY <2>1, <2>2, <2>3, MoveKeeps
<1>17. CASE CacheState(r)
  <2>1. PICK answer \in {"accepted", "unauthorized"} : Return(r, answer) /\ pc[r] = "cacheState"
    BY <1>17 DEF CacheState
  <2> QED BY <2>1, ReturnKeeps
<1> QED BY <1>1, <1>2, <1>3, <1>4, <1>5, <1>6, <1>7, <1>8, <1>9, <1>10, <1>11, <1>12, <1>13, <1>14,
           <1>15, <1>16, <1>17 DEF Step

LEMMA StartKeeps ==
    ASSUME IInv, NEW r \in Requests,
           \/ StartLogin(r) \/ \E p : StartAuthenticate(r, p)
           \/ \E p, o : StartRefresh(r, p, o)
    PROVE  /\ pc[r] = "idle" /\ pc'[r] \in {"createSession", "selectToken", "getAccess"}
           /\ UNCHANGED <<clock, sessions, tokens, refreshResults, reply>>
           /\ StartLogin(r) => local'[r].old = local[r].old /\ local'[r].op = local[r].op
           /\ \A p, o : StartRefresh(r, p, o) => local'[r].old = p /\ local'[r].op = o
<1>0. local[r] \in Locals
  BY DEF IInv, Types
<1>1. pc[r] = "idle" /\ UNCHANGED <<clock, sessions, tokens, refreshResults, reply>>
  BY DEF StartLogin, StartAuthenticate, StartRefresh, world, database, redis
<1>2. pc'[r] \in {"createSession", "selectToken", "getAccess"}
  BY StartEffect
<1>3. ASSUME StartLogin(r) PROVE local'[r].old = local[r].old /\ local'[r].op = local[r].op
  BY <1>0, <1>3 DEF StartLogin, IInv, Types, Locals
<1>4. ASSUME NEW p, NEW o, StartRefresh(r, p, o) PROVE local'[r].old = p /\ local'[r].op = o
  BY <1>0, <1>4 DEF StartRefresh, IInv, Types, Locals
<1> QED BY <1>1, <1>2, <1>3, <1>4

-----------------------------------------------------------------------------
(* The chain grows at its end.                                             *)

\* Tokens are issued and used up for ever, and only the two inserting commits do it.
Links(r) ==
    \A p \in Pairs :
        /\ tokens[p].session # None => tokens'[p].session = tokens[p].session
        /\ tokens[p].requestID # None => tokens'[p].requestID = tokens[p].requestID
        /\ tokens'[p].session # None =>
              \/ tokens[p].session # None
              \/ p = r /\ (r \in Refreshes => CommitExtend(r))
        /\ tokens'[p].requestID # None =>
              \/ tokens[p].requestID # None
              \/ /\ CommitExtend(r) /\ p = local[r].old
                 /\ tokens'[p].requestID = local[r].op

LEMMA StepLinks ==
    ASSUME IInv, NEW r \in Requests, Step(r) \/ Abort(r)
    PROVE  Links(r)
<1>1. CASE CreateSession(r)
  <2>1. \A p \in Pairs : tokens[p].session = None => tokens[p].requestID = None
    BY DEF IInv, Rows
  <2>2. r \notin Refreshes
    BY <1>1, CreatedRows, LoginFacts
  <2> QED BY <1>1, <2>1, <2>2, CreatedRows DEF Links
<1>2. CASE CommitExtend(r)
  <2> DEFINE p == local[r].old
             s == local[r].session
  <2>1. /\ r \in Pairs /\ p \in Pairs /\ p # r
        /\ tokens[p].session = s /\ Unused(p) /\ tokens[r].session = None
        /\ tokens'[p].session = s /\ tokens'[p].requestID = local[r].op
        /\ tokens'[r].session = s /\ tokens'[r].requestID = None
        /\ \A q \in Pairs : q # p /\ q # r => tokens'[q] = tokens[q]
    BY <1>2, ExtendedRows
  <2>2. tokens[r].requestID = None
    BY <2>1 DEF IInv, Rows
  <2> HIDE DEF p, s
  <2>3. ASSUME NEW q \in Pairs
        PROVE  /\ tokens[q].session # None => tokens'[q].session = tokens[q].session
               /\ tokens[q].requestID # None => tokens'[q].requestID = tokens[q].requestID
               /\ tokens'[q].session # None => tokens[q].session # None \/ q = r
               /\ tokens'[q].requestID # None =>
                     \/ tokens[q].requestID # None
                     \/ q = p /\ tokens'[q].requestID = local[r].op
    <3>1. CASE q = p  BY <2>1, <3>1 DEF Unused
    <3>2. CASE q = r  BY <2>1, <2>2, <3>2
    <3>3. CASE q # p /\ q # r  BY <2>1, <3>3
    <3> QED BY <3>1, <3>2, <3>3
  <2> QED BY <1>2, <2>3 DEF Links, p
<1>3. CASE CommitRevoke(r)
  BY <1>3 DEF CommitRevoke, Links
<1>4. CASE ~Commits(r)
  BY <1>4, OthersWriteNoRows DEF Links
<1> QED BY <1>1, <1>2, <1>3, <1>4 DEF Commits

\* A refresh that has a token of its own has presented an operation.
LEMMA IssuedHasStarted ==
    ASSUME IInv, NEW r \in Refreshes, tokens[r].session # None
    PROVE  pc[r] # "idle" /\ local[r].op \in Operations /\ local[r].op # None
<1>1. r \in Requests /\ r \in Pairs
  BY RefreshFacts
<1>2. pc[r] # "idle"
  BY <1>1 DEF IInv, RequestOK, PendingOK, Pending
<1> QED BY <1>1, <1>2, RequestsAssumption DEF IInv, RequestOK, MemoryOK

\* Requests that have begun keep what they presented.
LEMMA OldStays ==
    ASSUME IInv, NEW r \in Requests, Step(r) \/ Abort(r), NEW q \in Requests
    PROVE  local'[q].old = local[q].old /\ local'[q].op = local[q].op
<1>1. CASE q = r
  BY <1>1, StepKeeps DEF Keeps
<1>2. CASE q # r
  BY <1>2, StepEffect DEF Effect, Frame
<1> QED BY <1>1, <1>2

LEMMA SuccessorStays ==
    ASSUME IInv, NEW r \in Requests, Step(r) \/ Abort(r), NEW q, NEW p
    PROVE  /\ IsSuccessor(q, p) => IsSuccessor(q, p)'
           /\ IsSuccessor(q, p)' =>
                 IsSuccessor(q, p) \/ (q = r /\ CommitExtend(r) /\ p = local[r].old)
<1>1. SUFFICES ASSUME q \in Refreshes
               PROVE  /\ IsSuccessor(q, p) => IsSuccessor(q, p)'
                      /\ IsSuccessor(q, p)' =>
                            IsSuccessor(q, p) \/ (q = r /\ CommitExtend(r) /\ p = local[r].old)
  BY DEF IsSuccessor
<1>2. q \in Requests /\ q \in Pairs
  BY <1>1, RefreshFacts
<1>3. local'[q].old = local[q].old
  BY <1>2, OldStays
<1> QED BY <1>1, <1>2, <1>3, StepLinks DEF IsSuccessor, Links

LEMMA ChainGrows ==
    ASSUME FInv, NEW r \in Requests, Step(r) \/ Abort(r)
    PROVE  Chain'
<1>0. IInv
  BY DEF FInv, TInv
<1>1. ASSUME NEW p \in Pairs, tokens'[p].requestID # None
      PROVE  \E q \in Refreshes : IsSuccessor(q, p)'
  <2>1. CASE tokens[p].requestID # None
    <3>1. PICK q \in Refreshes : IsSuccessor(q, p)
      BY <2>1 DEF FInv, Chain
    <3> QED BY <1>0, <3>1, SuccessorStays
  <2>2. CASE CommitExtend(r) /\ p = local[r].old
    <3>1. r \in Refreshes /\ tokens'[r].session # None
      BY <1>0, <2>2, ExtendedRows, RequestsAssumption DEF Sessions, Requests
    <3>2. local'[r].old = p
      BY <1>0, <2>2, OldStays
    <3> QED BY <3>1, <3>2 DEF IsSuccessor
  <2> QED BY <1>0, <1>1, <2>1, <2>2, StepLinks DEF Links
<1>2. ASSUME NEW p \in Pairs, NEW q1 \in Refreshes, NEW q2 \in Refreshes,
             IsSuccessor(q1, p)', IsSuccessor(q2, p)'
      PROVE  q1 = q2
  <2>1. ASSUME NEW q \in Refreshes, IsSuccessor(q, p), CommitExtend(r), p = local[r].old
        PROVE  FALSE
    <3>1. q \in Requests /\ LineageOK(q) /\ tokens[p].requestID # None
      BY <1>0, <2>1, RefreshFacts, IssuedHasStarted DEF FInv, LineageOK, IsSuccessor
    <3>2. tokens[p].requestID = None
      BY <1>0, <2>1, ExtendedRows DEF Unused
    <3> QED BY <3>1, <3>2
  <2>2. /\ IsSuccessor(q1, p) \/ (q1 = r /\ CommitExtend(r) /\ p = local[r].old)
        /\ IsSuccessor(q2, p) \/ (q2 = r /\ CommitExtend(r) /\ p = local[r].old)
    BY <1>0, <1>2, SuccessorStays
  <2> QED BY <2>1, <2>2 DEF FInv, Chain
<1> QED BY <1>1, <1>2 DEF Chain

LEMMA ResultsKeep ==
    ASSUME FInv, NEW r \in Requests, Step(r) \/ Abort(r)
    PROVE  Results'
<1>0. IInv
  BY DEF FInv, TInv
<1>1. CASE refreshResults' = refreshResults
  BY <1>0, <1>1, SuccessorStays DEF FInv, Results
<1>2. CASE StoreResult(r)
  <2>1. r \in Refreshes
    BY <1>0, <1>2 DEF StoreResult, IInv, RequestOK, PathOK, LoginLabels, AuthenticationLabels,
       Requests
  <2>2. IsSuccessor(local[r].pair, local[r].old) /\ local[r].old \in Pairs
    BY <1>2, <2>1 DEF StoreResult, FInv, ReturnsOK, HoldsPair
  <2>3. ASSUME NEW p \in Pairs, refreshResults'[p] # None
        PROVE  IsSuccessor(refreshResults'[p].pair, p)
    <3>1. CASE refreshResults'[p] = refreshResults[p]
      BY <2>3, <3>1 DEF FInv, Results
    <3>2. CASE p = local[r].old /\ refreshResults'[p].pair = local[r].pair
      BY <2>2, <3>2
    <3> QED BY <1>0, <1>2, <2>2, <2>3, <3>1, <3>2
            DEF StoreResult, Written, ResultKey, IInv, Types
  <2> QED BY <1>0, <2>3, SuccessorStays DEF Results
<1>3. CASE ~StoreResult(r)
  <2>1. refreshResults' = refreshResults
    BY <1>3 DEF Step, Abort, CreateSession, CommitExtend, CommitRevoke, StoreAccessToken, Respond,
       SelectToken, SelectSession, GetResult, GetAccess, GetSession, GetSessionState, SampleNow,
       CacheActive, CacheRevoked, CacheState, redis
  <2> QED BY <1>1, <2>1
<1> QED BY <1>2, <1>3

-----------------------------------------------------------------------------
(* What the requests know of the chain.                                    *)

\* A token used up by the operation of r stays so.
LEMMA UsedByStays ==
    ASSUME IInv, NEW r \in Requests, Step(r) \/ Abort(r), NEW q \in Refreshes, pc[q] # "idle",
           local[q].old \in Pairs, tokens[local[q].old].requestID = local[q].op
    PROVE  tokens'[local[q].old].requestID = local[q].op
<1>1. local[q].op # None
  BY RefreshFacts, RequestsAssumption DEF IInv, RequestOK, MemoryOK
<1> QED BY <1>1, StepLinks DEF Links

LEMMA StepLineage ==
    ASSUME FInv, NEW r \in Requests, Step(r) \/ Abort(r), NEW q \in Requests
    PROVE  PresentsOK(q)' /\ LineageOK(q)'
<1>0. IInv /\ PresentsOK(q) /\ LineageOK(q)
  BY DEF FInv, TInv
<1>1. local'[q].old = local[q].old /\ local'[q].op = local[q].op
  BY <1>0, OldStays
<1>2. PresentsOK(q)'
  <2>1. CASE q = r
    <3>1. Respond(r) => pc'[r] = "done"
      BY <1>0 DEF Respond, Return, Goto, IInv, Types
    <3> QED BY <1>0, <1>1, <2>1, <3>1, StepKeeps DEF Keeps, PresentsOK
  <2>2. CASE q # r
    <3>1. pc'[q] = pc[q] /\ reply'[q] = reply[q]
      BY <1>0, <2>2, StepEffect DEF Effect, Frame
    <3> QED BY <1>0, <1>1, <3>1 DEF PresentsOK
  <2> QED BY <2>1, <2>2
<1>3. ASSUME q \in Refreshes, tokens'[q].session # None
      PROVE  local[q].old \in Pairs /\ tokens'[local[q].old].requestID = local[q].op
  <2>1. q \in Pairs
    BY <1>3, RefreshFacts
  <2>2. CASE tokens[q].session # None
    BY <1>0, <1>3, <2>2, IssuedHasStarted, UsedByStays DEF LineageOK
  <2>3. CASE q = r /\ CommitExtend(r)
    BY <1>0, <2>3, ExtendedRows
  <2> QED BY <1>0, <1>3, <2>1, <2>2, <2>3, StepLinks DEF Links
<1> QED BY <1>1, <1>2, <1>3 DEF LineageOK

LEMMA OtherReturns ==
    ASSUME FInv, NEW r \in Requests, Step(r) \/ Abort(r), NEW q \in Requests, q # r
    PROVE  ReturnsOK(q)'
<1>0. IInv /\ ReturnsOK(q)
  BY DEF FInv, TInv
<1>1. pc'[q] = pc[q] /\ local'[q] = local[q]
  BY <1>0, StepEffect DEF Effect, Frame
<1>2. ASSUME q \in Refreshes, pc[q] \in HoldsPair \cup {"getResult"}
      PROVE  tokens'[local[q].old].requestID = local[q].op
  BY <1>0, <1>2, UsedByStays DEF ReturnsOK, HoldsPair
<1>3. ASSUME q \in Refreshes, pc[q] \in HoldsPair
      PROVE  IsSuccessor(local[q].pair, local[q].old)'
  <2>1. IsSuccessor(local[q].pair, local[q].old)
    BY <1>0, <1>3 DEF ReturnsOK
  <2>2. local'[local[q].pair].old = local[local[q].pair].old
    BY <1>0, <2>1, OldStays, RefreshFacts DEF IsSuccessor
  <2>3. tokens'[local[q].pair].session # None
    BY <1>0, <2>1, StepLinks, RefreshFacts DEF IsSuccessor, Links
  <2> QED BY <1>1, <2>1, <2>2, <2>3 DEF IsSuccessor
<1> QED BY <1>0, <1>1, <1>2, <1>3 DEF ReturnsOK

LEMMA OwnReturns ==
    ASSUME FInv, NEW r \in Requests, Step(r) \/ Abort(r)
    PROVE  ReturnsOK(r)'
<1>0. IInv /\ ReturnsOK(r)
  BY DEF FInv, TInv
<1>1. local'[r].old = local[r].old /\ local'[r].op = local[r].op
  BY <1>0, OldStays
\* A step within the labels at which the pair is known.
<1>2. ASSUME pc[r] \in HoldsPair, local' = local, pc'[r] \in HoldsPair
      PROVE  ReturnsOK(r)'
  <2>1. ASSUME r \in Refreshes
        PROVE  /\ local[r].old \in Pairs /\ tokens'[local[r].old].requestID = local[r].op
               /\ IsSuccessor(local[r].pair, local[r].old)'
    <3>1. local[r].old \in Pairs /\ tokens'[local[r].old].requestID = local[r].op
      BY <1>0, <1>2, <2>1, UsedByStays DEF ReturnsOK, HoldsPair
    <3>2. IsSuccessor(local[r].pair, local[r].old)
      BY <1>0, <1>2, <2>1 DEF ReturnsOK
    <3>3. tokens'[local[r].pair].session # None
      BY <1>0, <3>2, StepLinks, RefreshFacts DEF IsSuccessor, Links
    <3> QED BY <1>2, <3>1, <3>2, <3>3 DEF IsSuccessor
  <2> QED BY <1>0, <1>2, <2>1 DEF ReturnsOK, HoldsPair
<1>3. ASSUME pc'[r] \notin HoldsPair \cup {"getResult", "revoke"}
      PROVE  ReturnsOK(r)'
  BY <1>3 DEF ReturnsOK
<1>4. CASE CreateSession(r)
  <2>1. r \notin Refreshes /\ pc'[r] = "storeLogin" /\ local'[r].pair = r
    <3>1. r \notin Refreshes
      BY <1>0, <1>4, CreatedRows, LoginFacts
    <3>2. pc'[r] = "storeLogin" /\ local'[r].pair = r
      BY <1>0, <1>4 DEF CreateSession, Goto, IInv, Types, Locals
    <3> QED BY <3>1, <3>2
  <2> QED BY <2>1 DEF ReturnsOK
<1>5. CASE StoreAccessToken(r) \/ StoreResult(r) \/ CacheActive(r)
  <2>1. CASE StoreAccessToken(r)
    <3>1. pc[r] \in HoldsPair /\ local' = local
      BY <2>1 DEF StoreAccessToken, HoldsPair
    <3>2. PICK label \in {"respond", "cacheActive"} : Goto(r, label)
      BY <2>1 DEF StoreAccessToken
    <3> QED BY <1>0, <1>2, <3>1, <3>2 DEF Goto, IInv, Types, HoldsPair
  <2>2. CASE StoreResult(r) \/ CacheActive(r)
    <3>1. pc[r] \in HoldsPair /\ local' = local
      BY <2>2 DEF StoreResult, CacheActive, HoldsPair
    <3>2. PICK label \in {"respond", "storeAccess"} : Goto(r, label)
      BY <2>2 DEF StoreResult, CacheActive
    <3> QED BY <1>0, <1>2, <3>1, <3>2 DEF Goto, IInv, Types, HoldsPair
  <2> QED BY <1>5, <2>1, <2>2
<1>6. CASE SelectSession(r)
  <2>1. CASE Return(r, "unauthorized")
    BY <1>0, <1>3, <2>1, Returns, AnswerTypes DEF IInv, HoldsPair
  <2>2. CASE ~Return(r, "unauthorized")
    <3>1. local' = local
      BY <1>0, <1>6, <2>2 DEF SelectSession, RetryIdentity, IInv, Types, Locals
    <3>2. PICK label \in {"getResult", "revoke", "extend"} :
             /\ Goto(r, label)
             /\ label = "getResult" => IsRetry(local[r].row, local[r].op)
             /\ label = "revoke" => local[r].row # None /\ ~IsRetry(local[r].row, local[r].op)
      <4>1. CASE IsRetry(local[r].row, local[r].op)
        BY <1>6, <2>2, <4>1 DEF SelectSession
      <4>2. CASE ~IsRetry(local[r].row, local[r].op) /\ local[r].row # None
        BY <1>6, <2>2, <4>2 DEF SelectSession
      <4>3. CASE local[r].row = None
        BY <1>6, <2>2, <4>3 DEF SelectSession, IsRetry
      <4> QED BY <4>1, <4>2, <4>3
    <3>3. pc'[r] = label
      BY <1>0, <3>2 DEF Goto, IInv, Types
    <3>4. /\ r \in Refreshes /\ local[r].old \in Pairs
          /\ local[r].row = tokens[local[r].old].requestID
      BY <1>0, <1>6 DEF SelectSession, IInv, RequestOK, PathOK, MemoryOK, LocksOK, KnowsSession,
         LocksToken, Issued, LoginLabels, AuthenticationLabels, Requests
    <3>5. tokens' = tokens
      BY <1>6 DEF SelectSession
    <3> QED BY <3>1, <3>2, <3>3, <3>4, <3>5 DEF ReturnsOK, HoldsPair, IsRetry
  <2> QED BY <2>1, <2>2
<1>7. CASE CommitExtend(r)
  <2>1. /\ r \in Refreshes /\ local[r].old \in Pairs
        /\ tokens'[local[r].old].requestID = local[r].op
        /\ tokens'[r].session \in Sessions
    BY <1>0, <1>7, ExtendedRows
  <2>2. r \notin Logins /\ tokens'[r].session # None
    BY <2>1, RefreshFacts, RequestsAssumption DEF Sessions, Requests
  <2>3. pc'[r] = "storeResult" /\ local'[r].pair = r
    BY <1>0, <1>7 DEF CommitExtend, Goto, IInv, Types, Locals
  <2> QED BY <1>1, <2>1, <2>2, <2>3 DEF ReturnsOK, IsSuccessor, HoldsPair
<1>8. CASE GetResult(r)
  <2>1. CASE Return(r, "unauthorized")
    BY <1>0, <1>3, <2>1, Returns, AnswerTypes DEF IInv, HoldsPair
  <2>2. CASE ~Return(r, "unauthorized")
    <3> DEFINE entry == refreshResults[local[r].old]
               new == [local[r] EXCEPT !.pair = entry.pair]
    <3>1. /\ pc[r] = "getResult" /\ entry # None /\ Goto(r, "restoreAccess")
          /\ local' = [local EXCEPT ![r] = new] /\ tokens' = tokens
      BY <1>0, <1>8, <2>2 DEF GetResult, IInv, Types, Live, database
    <3>2. new.pair = entry.pair
      BY <1>0 DEF IInv, Types, Locals
    <3>3. r \in Refreshes
      BY <1>0, <3>1 DEF IInv, RequestOK, PathOK, LoginLabels, AuthenticationLabels, Requests
    <3>4. local[r].old \in Pairs /\ tokens[local[r].old].requestID = local[r].op
      BY <1>0, <3>1, <3>3 DEF ReturnsOK
    <3>5. IsSuccessor(entry.pair, local[r].old)
      BY <3>1, <3>4 DEF FInv, Results
    <3> HIDE DEF new, entry
    <3>6. pc'[r] = "restoreAccess" /\ local'[r] = new
      BY <1>0, <3>1 DEF Goto, IInv, Types
    <3>7. local'[entry.pair].old = local[entry.pair].old
      BY <1>0, <3>5, OldStays, RefreshFacts DEF IsSuccessor
    <3>8. r \notin Logins
      BY <3>3, RefreshFacts
    <3> QED BY <1>1, <3>1, <3>2, <3>4, <3>5, <3>6, <3>7, <3>8 DEF ReturnsOK, IsSuccessor, HoldsPair
  <2> QED BY <2>1, <2>2
<1>9. CASE \/ Abort(r) \/ Respond(r) \/ SelectToken(r) \/ CommitRevoke(r) \/ CacheRevoked(r)
           \/ GetAccess(r) \/ GetSession(r) \/ GetSessionState(r) \/ SampleNow(r) \/ CacheState(r)
  <2>1. PICK label \in {"done", "selectSession", "cacheRevoked", "getSession", "readState",
                        "sampleNow", "cacheState"} : Goto(r, label)
    BY <1>9 DEF Abort, Respond, SelectToken, CommitRevoke, CacheRevoked, GetAccess, GetSession,
       GetSessionState, SampleNow, CacheState, Return
  <2>2. pc'[r] = label
    BY <1>0, <2>1 DEF Goto, IInv, Types
  <2> QED BY <1>3, <2>2 DEF HoldsPair
<1> QED BY <1>4, <1>5, <1>6, <1>7, <1>8, <1>9 DEF Step

LEMMA StepFInv ==
    ASSUME FInv, TInv', NEW r \in Requests, Step(r) \/ Abort(r)
    PROVE  FInv'
<1>1. ASSUME NEW q \in Requests PROVE PresentsOK(q)' /\ LineageOK(q)' /\ ReturnsOK(q)'
  BY StepLineage, OwnReturns, OtherReturns
<1> QED BY <1>1, ChainGrows, ResultsKeep DEF FInv

LEMMA ArriveFInv ==
    ASSUME FInv, TInv', Arrive
    PROVE  FInv'
<1>0. IInv
  BY DEF FInv, TInv
<1>1. PICK r \in Requests : \/ r \in Logins /\ StartLogin(r)
                            \/ r \in Authentications /\ \E p : StartAuthenticate(r, p)
                            \/ r \in Refreshes /\ \E p, o : StartRefresh(r, p, o)
  BY DEF Arrive, Requests
<1>2. /\ pc[r] = "idle" /\ pc'[r] \in {"createSession", "selectToken", "getAccess"}
      /\ UNCHANGED <<tokens, refreshResults, reply>>
      /\ StartLogin(r) => local'[r].old = local[r].old /\ local'[r].op = local[r].op
  BY <1>0, <1>1, StartKeeps
<1>3. Frame(r)
  BY <1>0, <1>1, StartEffect
<1>4. r \in Pairs => tokens[r].session = None
  BY <1>0, <1>2 DEF IInv, RequestOK, PendingOK, Pending
<1>5. ASSUME NEW q, NEW p PROVE IsSuccessor(q, p)' <=> IsSuccessor(q, p)
  <2>1. CASE q = r
    BY <1>2, <1>4, <2>1, RefreshFacts DEF IsSuccessor
  <2>2. CASE q # r
    BY <1>2, <1>3, <2>2, RefreshFacts DEF IsSuccessor, Frame
  <2> QED BY <2>1, <2>2
<1>6. Chain' /\ Results'
  BY <1>2, <1>5 DEF FInv, Chain, Results
<1>7. ASSUME NEW q \in Requests, q # r PROVE PresentsOK(q)' /\ LineageOK(q)' /\ ReturnsOK(q)'
  <2>1. pc'[q] = pc[q] /\ local'[q] = local[q] /\ reply'[q] = reply[q]
    BY <1>3, <1>7 DEF Frame
  <2>2. IsSuccessor(local[q].pair, local[q].old) => IsSuccessor(local[q].pair, local[q].old)'
    <3>1. ASSUME NEW u, u = local[q].pair, NEW v, v = local[q].old, IsSuccessor(u, v)
          PROVE  IsSuccessor(u, v)'
      BY <1>5, <3>1
    <3> QED BY <2>1, <3>1 DEF IsSuccessor
  <2> QED BY <1>2, <1>7, <2>1, <2>2 DEF FInv, PresentsOK, LineageOK, ReturnsOK
<1>8. PresentsOK(r)' /\ LineageOK(r)' /\ ReturnsOK(r)'
  <2>1. r \in Logins => local'[r].old = None /\ local'[r].op = None
    BY <1>1, <1>2, LoginFacts, RequestsAssumption DEF FInv, PresentsOK, Pairs
  <2>2. reply'[r] \notin Pairs
    BY <1>2 DEF FInv, PresentsOK
  <2>3. PresentsOK(r)' /\ ReturnsOK(r)'
    BY <1>2, <2>1, <2>2 DEF PresentsOK, ReturnsOK, HoldsPair
  <2>4. LineageOK(r)'
    BY <1>2, <1>4, RefreshFacts DEF LineageOK
  <2> QED BY <2>3, <2>4
<1> QED BY <1>6, <1>7, <1>8 DEF FInv

LEMMA QuietFInv ==
    ASSUME FInv, TInv', UNCHANGED <<tokens, pc, local, reply>>,
           refreshResults' = refreshResults \/ RedisLoss
    PROVE  FInv'
<1>1. \A r \in Requests : PresentsOK(r)' /\ LineageOK(r)' /\ ReturnsOK(r)'
  BY DEF FInv, PresentsOK, LineageOK, ReturnsOK, IsSuccessor
<1>2. Chain'
  BY DEF FInv, Chain, IsSuccessor
<1>3. Results'
  BY DEF FInv, Results, IsSuccessor, RedisLoss
<1> QED BY <1>1, <1>2, <1>3 DEF FInv

LEMMA InitFInv == Init => FInv
<1> SUFFICES ASSUME Init PROVE FInv
  OBVIOUS
<1>1. \A r \in Requests : PresentsOK(r) /\ LineageOK(r) /\ ReturnsOK(r)
  <2>1. ASSUME NEW r \in Requests PROVE PresentsOK(r) /\ ReturnsOK(r)
    BY RequestsAssumption DEF Init, Blank, PresentsOK, ReturnsOK, HoldsPair, Requests, Pairs
  <2>2. ASSUME NEW r \in Requests PROVE LineageOK(r)
    BY RefreshFacts DEF Init, NoTokenRow, LineageOK
  <2> QED BY <2>1, <2>2
<1>2. Chain
  BY RefreshFacts DEF Init, Chain, NoTokenRow, IsSuccessor
<1>3. Results
  BY DEF Init, Results
<1> QED BY <1>1, <1>2, <1>3, InitTInv DEF FInv

LEMMA NextFInv == FInv /\ [Next]_vars => FInv'
<1> SUFFICES ASSUME FInv, [Next]_vars PROVE FInv'
  OBVIOUS
<1>1. TInv'
  BY NextTInv DEF FInv
<1>2. CASE UNCHANGED vars \/ RedisLoss \/ Tick
  BY <1>1, <1>2, QuietFInv DEF vars, RedisLoss, Tick, database, redis
<1>3. CASE Arrive
  BY <1>1, <1>3, ArriveFInv
<1>4. ASSUME NEW r \in Requests, Step(r) \/ Abort(r) PROVE FInv'
  BY <1>1, <1>4, StepFInv
<1> QED BY <1>2, <1>3, <1>4 DEF Next

\* Every reachable state satisfies the invariant of the chain: the pair that Refresh is about
\* to return, or finds in Redis, is the successor of the token it was presented with.
THEOREM FamilyInvariance == Spec => []FInv
BY InitFInv, NextFInv, PTL DEF Spec

-----------------------------------------------------------------------------
(* The mapped variables of TokenFamily.                                    *)

Presented == {<<local[r].old, local[r].op>> : r \in {q \in Refreshes : local[q].old \in Pairs}}
Given     == {<<local[r].old, local[r].op, reply[r]>> : r \in {q \in Pairs : reply[q] \in Pairs}}
Ended     == {s \in Sessions : Revoked(s)}

\* LastToken and Successor name the tokens that the invariant speaks of.
Names ==
    /\ \A s \in Sessions, p \in Pairs :
          Unused(p) /\ tokens[p].session = s => LastToken(s) = p
    /\ \A s \in Sessions :
          (\A p \in Pairs : Unused(p) => tokens[p].session # s) => LastToken(s) = None
    /\ \A p \in Pairs, q \in Refreshes : IsSuccessor(q, p) => Successor(p) = q
    /\ \A p \in Pairs : (\A q \in Refreshes : ~IsSuccessor(q, p)) => Successor(p) = None

LEMMA NamesHold == FInv => Names
<1> SUFFICES ASSUME FInv PROVE Names
  OBVIOUS
<1>1. ASSUME NEW s \in Sessions, NEW p \in Pairs, Unused(p), tokens[p].session = s
      PROVE  LastToken(s) = p
  <2>1. \A q \in Pairs : (Unused(q) /\ tokens[q].session = s) <=> q = p
    BY <1>1 DEF FInv, TInv, IInv, OneUnusedToken
  <2> QED BY <2>1 DEF LastToken
<1>2. ASSUME NEW s \in Sessions, \A p \in Pairs : Unused(p) => tokens[p].session # s
      PROVE  LastToken(s) = None
  BY <1>2 DEF LastToken
<1>3. ASSUME NEW p \in Pairs, NEW q \in Refreshes, IsSuccessor(q, p)
      PROVE  Successor(p) = q
  <2>1. \A u \in Refreshes : (local[u].old = p /\ tokens[u].session # None) <=> u = q
    BY <1>3 DEF FInv, Chain, IsSuccessor
  <2> QED BY <2>1 DEF Successor
<1>4. ASSUME NEW p \in Pairs, \A q \in Refreshes : ~IsSuccessor(q, p)
      PROVE  Successor(p) = None
  BY <1>4 DEF Successor, IsSuccessor
<1> QED BY <1>1, <1>2, <1>3, <1>4 DEF Names

LEMMA PrimedNamesHold ==
    ASSUME FInv'
    PROVE  Names'
BY NamesHold, PTL

\* What clients have sent and received, seen from a step of a request.
LEMMA StepPresented ==
    ASSUME FInv, NEW r \in Requests, Step(r) \/ Abort(r)
    PROVE  Presented' = Presented
<1>1. \A q \in Refreshes : local'[q].old = local[q].old /\ local'[q].op = local[q].op
  BY OldStays, RefreshFacts DEF FInv, TInv
<1> QED BY <1>1 DEF Presented

LEMMA StepGiven ==
    ASSUME FInv, NEW r \in Requests, Step(r) \/ Abort(r), ~Respond(r)
    PROVE  Given' = Given
<1>0. IInv
  BY DEF FInv, TInv
<1>1. ASSUME NEW q \in Pairs
      PROVE  /\ local'[q].old = local[q].old /\ local'[q].op = local[q].op
             /\ reply'[q] \in Pairs <=> reply[q] \in Pairs
             /\ reply[q] \in Pairs => reply'[q] = reply[q]
  <2>1. q \in Requests
    BY DEF Requests, Pairs
  <2>2. local'[q].old = local[q].old /\ local'[q].op = local[q].op
    BY <1>0, <2>1, OldStays
  <2>3. CASE q = r
    <3>1. reply[r] \notin Pairs
      BY <1>0, StepKeeps DEF Keeps, FInv, PresentsOK
    <3> QED BY <1>0, <2>2, <2>3, <3>1, StepKeeps DEF Keeps
  <2>4. CASE q # r
    BY <1>0, <2>1, <2>2, <2>4, StepEffect DEF Effect, Frame
  <2> QED BY <2>3, <2>4
<1> QED BY <1>1 DEF Given

LEMMA RespondGiven ==
    ASSUME FInv, NEW r \in Requests, Respond(r)
    PROVE  /\ r \in Pairs /\ local[r].pair \in Pairs
           /\ Given' = Given \cup {<<local[r].old, local[r].op, local[r].pair>>}
<1>0. IInv /\ pc[r] = "respond" /\ Return(r, local[r].pair)
  BY DEF FInv, TInv, Respond
<1>1. r \in Pairs
  BY <1>0 DEF IInv, RequestOK, PathOK, AuthenticationLabels, Requests, Pairs
<1>2. local[r].pair \in Pairs /\ local[r].pair \in Answers
  BY <1>0 DEF IInv, RequestOK, MemoryOK, HoldsPair, Issued, Answers
<1>3. reply[r] \notin Pairs
  BY <1>0 DEF FInv, PresentsOK
<1>4. /\ reply'[r] = local[r].pair
      /\ \A q \in Requests : q # r => reply'[q] = reply[q]
  BY <1>0, <1>2, Returns DEF IInv, Frame
<1>5. \A q \in Pairs : q \in Requests /\ local'[q].old = local[q].old /\ local'[q].op = local[q].op
  <2>1. Step(r)
    BY DEF Step
  <2> QED BY <1>0, <2>1, OldStays DEF Requests, Pairs
<1>6. Given' \subseteq Given \cup {<<local[r].old, local[r].op, local[r].pair>>}
  <2> SUFFICES ASSUME NEW q \in Pairs, reply'[q] \in Pairs
               PROVE  <<local'[q].old, local'[q].op, reply'[q]>>
                         \in Given \cup {<<local[r].old, local[r].op, local[r].pair>>}
    BY DEF Given
  <2>1. CASE q = r  BY <1>4, <1>5, <2>1
  <2>2. CASE q # r  BY <1>4, <1>5, <2>2 DEF Given
  <2> QED BY <2>1, <2>2
<1>7. Given \subseteq Given'
  <2> SUFFICES ASSUME NEW q \in Pairs, reply[q] \in Pairs
               PROVE  <<local[q].old, local[q].op, reply[q]>> \in Given'
    BY DEF Given
  <2>1. q # r
    BY <1>3
  <2>2. reply'[q] = reply[q] /\ local'[q].old = local[q].old /\ local'[q].op = local[q].op
    BY <1>4, <1>5, <2>1
  <2> QED BY <2>2 DEF Given
<1>8. <<local[r].old, local[r].op, local[r].pair>> \in Given'
  BY <1>1, <1>2, <1>4, <1>5 DEF Given
<1> QED BY <1>1, <1>2, <1>6, <1>7, <1>8

-----------------------------------------------------------------------------
(* The steps of the family.                                                *)

Last     == [s \in Sessions |-> LastToken(s)]
FamilyOf == [p \in Pairs |-> tokens[p].session]
UsedBy   == [p \in Pairs |-> tokens[p].requestID]
NextOf   == [p \in Pairs |-> Successor(p)]

\* p is the token of s that can be used.
EndsWith(s, p) == Unused(p) /\ tokens[p].session = s

LEMMA LastStays ==
    ASSUME FInv, FInv', NEW s \in Sessions,
           \A p \in Pairs : EndsWith(s, p)' <=> EndsWith(s, p)
    PROVE  LastToken(s)' = LastToken(s)
<1>0. Names /\ Names'
  BY NamesHold, PrimedNamesHold
<1>1. CASE \E p \in Pairs : EndsWith(s, p)
  <2>1. PICK p \in Pairs : EndsWith(s, p) /\ EndsWith(s, p)'
    BY <1>1
  <2> QED BY <1>0, <2>1 DEF Names, EndsWith
<1>2. CASE \A p \in Pairs : ~EndsWith(s, p)
  <2>1. \A p \in Pairs : ~EndsWith(s, p)'
    BY <1>2
  <2> QED BY <1>0, <1>2, <2>1 DEF Names, EndsWith
<1> QED BY <1>1, <1>2

LEMMA NextStays ==
    ASSUME FInv, FInv', NEW p \in Pairs,
           \A q \in Refreshes : IsSuccessor(q, p)' <=> IsSuccessor(q, p)
    PROVE  Successor(p)' = Successor(p)
<1>0. Names /\ Names'
  BY NamesHold, PrimedNamesHold
<1>1. CASE \E q \in Refreshes : IsSuccessor(q, p)
  <2>1. PICK q \in Refreshes : IsSuccessor(q, p) /\ IsSuccessor(q, p)'
    BY <1>1
  <2> QED BY <1>0, <2>1 DEF Names
<1>2. CASE \A q \in Refreshes : ~IsSuccessor(q, p)
  <2>1. \A q \in Refreshes : ~IsSuccessor(q, p)'
    BY <1>2
  <2> QED BY <1>0, <1>2, <2>1 DEF Names
<1> QED BY <1>1, <1>2

\* A step of a request that inserts no token leaves the chain as it is.
LEMMA ChainStays ==
    ASSUME FInv, FInv', NEW r \in Requests, Step(r) \/ Abort(r), tokens' = tokens
    PROVE  UNCHANGED <<Last, FamilyOf, UsedBy, NextOf>>
<1>1. IInv
  BY DEF FInv, TInv
<1>2. ~CommitExtend(r)
  BY <1>1, ExtendedRows, RequestsAssumption DEF Sessions, Requests
<1>3. \A p \in Pairs : Successor(p)' = Successor(p)
  BY <1>1, <1>2, SuccessorStays, NextStays
<1>4. \A s \in Sessions : LastToken(s)' = LastToken(s)
  BY LastStays DEF EndsWith, Unused
<1> QED BY <1>3, <1>4 DEF Last, FamilyOf, UsedBy, NextOf

\* Only the revoking commit ends a session.
LEMMA EndedStays ==
    ASSUME FInv, NEW r \in Requests, Step(r) \/ Abort(r), ~CommitRevoke(r)
    PROVE  Ended' = Ended
  BY StepRevokedAt DEF FInv, TInv, Ended, Revoked

LEMMA BeginStep ==
    ASSUME FInv, FInv', NEW r \in Requests, CreateSession(r)
    PROVE  Family!Begin(r, r) /\ r \in Sessions /\ r \in Pairs
<1>0. IInv /\ Step(r) /\ Names /\ Names'
  BY NamesHold, PrimedNamesHold DEF FInv, TInv, Step
<1>1. /\ r \in Pairs /\ r \in Sessions
      /\ tokens[r].session = None /\ ~Exists(r)
      /\ tokens'[r].session = r /\ tokens'[r].requestID = None
      /\ \A p \in Pairs : p # r => tokens'[p] = tokens[p]
  BY <1>0, CreatedRows
<1>2. tokens[r].requestID = None /\ \A p \in Pairs : tokens[p].session # r
  BY <1>0, <1>1, LoginFacts DEF IInv, Rows, Sessions
<1>3. LastToken(r) = None
  BY <1>0, <1>1, <1>2 DEF Names
<1>4. LastToken(r)' = r
  BY <1>0, <1>1, LoginFacts DEF Names, Unused, Sessions
<1>5. ASSUME NEW s \in Sessions, s # r PROVE LastToken(s)' = LastToken(s)
  <2>1. ASSUME NEW p \in Pairs PROVE EndsWith(s, p)' <=> EndsWith(s, p)
    <3>1. CASE p = r  BY <1>1, <1>5, <3>1, LoginFacts DEF EndsWith, Unused, Sessions
    <3>2. CASE p # r  BY <1>1, <3>2 DEF EndsWith, Unused
    <3> QED BY <3>1, <3>2
  <2> QED BY <2>1, LastStays
<1>6. ~CommitExtend(r) /\ ~CommitRevoke(r) /\ ~Respond(r)
  BY DEF CreateSession, CommitExtend, CommitRevoke, Respond
<1>7. \A p \in Pairs : Successor(p)' = Successor(p)
  BY <1>0, <1>6, SuccessorStays, NextStays
<1>8. Last' = [Last EXCEPT ![r] = r] /\ NextOf' = NextOf
  BY <1>4, <1>5, <1>7 DEF Last, NextOf
<1>9. FamilyOf' = [FamilyOf EXCEPT ![r] = r] /\ UsedBy' = UsedBy
  BY <1>1, <1>2 DEF FamilyOf, UsedBy
<1>10. UNCHANGED <<Ended, Presented, Given>>
  BY <1>0, <1>6, EndedStays, StepPresented, StepGiven
<1>11. Last[r] = None /\ FamilyOf[r] = None
  BY <1>1, <1>3 DEF Last, FamilyOf
<1> QED BY <1>1, <1>8, <1>9, <1>10, <1>11
      DEF Last, FamilyOf, UsedBy, NextOf, Ended, Presented, Given, Family!Begin, Family!Append

LEMMA RotateStep ==
    ASSUME FInv, FInv', NEW r \in Requests, CommitExtend(r), NEW s, s = local[r].session,
           NEW p, p = local[r].old, NEW o, o = local[r].op
    PROVE  Family!Rotate(s, r, o) /\ s \in Sessions /\ r \in Pairs /\ o \in Operations
<1>0. IInv /\ Step(r) /\ Names /\ Names'
  BY NamesHold, PrimedNamesHold DEF FInv, TInv, Step
<1>1. /\ r \in Refreshes /\ r \in Pairs /\ p \in Pairs /\ p # r /\ s \in Sessions
      /\ o \in Operations
      /\ tokens[p].session = s /\ Unused(p) /\ tokens[r].session = None
      /\ tokens'[p].session = s /\ tokens'[p].requestID = o
      /\ tokens'[r].session = s /\ tokens'[r].requestID = None
      /\ \A q \in Pairs : q # p /\ q # r => tokens'[q] = tokens[q]
  BY <1>0, ExtendedRows
<1>2. s # None /\ o # None /\ tokens[r].requestID = None
  BY <1>0, <1>1, LoginFacts, RequestsAssumption DEF IInv, Rows, Sessions
<1>3. IsSuccessor(r, p)'
  <2>1. local'[r].old = p
    BY <1>0, OldStays
  <2> QED BY <1>1, <1>2, <2>1 DEF IsSuccessor
<1>4. s \notin Ended
  BY <1>1 DEF FInv, TInv, RevocationOK, CommitExtend, LocksSession, Ended
<1>5. <<p, o>> \in Presented
  BY <1>1 DEF Presented
<1>6. UNCHANGED <<Ended, Presented, Given>>
  BY <1>0, EndedStays, StepPresented, StepGiven DEF CommitExtend, CommitRevoke, Respond
<1>10. \A q : q \in Refreshes => q # None
  BY RefreshFacts
<1>11. ASSUME NEW q, NEW t, t # p PROVE IsSuccessor(q, t)' <=> IsSuccessor(q, t)
  BY <1>0, <1>11, SuccessorStays
<1>7. Last[s] = p /\ Last' = [Last EXCEPT ![s] = r]
  <2>1. LastToken(s) = p /\ LastToken(s)' = r
    BY <1>0, <1>1, <1>2 DEF Names, Unused
  <2>2. ASSUME NEW t \in Sessions, t # s PROVE LastToken(t)' = LastToken(t)
    <3>1. ASSUME NEW q \in Pairs PROVE EndsWith(t, q)' <=> EndsWith(t, q)
      <4>1. CASE q = p  BY <1>1, <2>2, <4>1 DEF EndsWith
      <4>2. CASE q = r  BY <1>1, <2>2, <4>2 DEF EndsWith, Unused
      <4>3. CASE q # p /\ q # r  BY <1>1, <4>3 DEF EndsWith, Unused
      <4> QED BY <4>1, <4>2, <4>3
    <3> QED BY <3>1, LastStays
  <2> QED BY <1>1, <2>1, <2>2 DEF Last
<1>8. FamilyOf' = [FamilyOf EXCEPT ![r] = s] /\ FamilyOf[r] = None
  <2>1. \A q \in Pairs : q # r => tokens'[q].session = tokens[q].session
    BY <1>1
  <2> QED BY <1>1, <2>1 DEF FamilyOf
<1>9. UsedBy' = [UsedBy EXCEPT ![p] = o]
  <2>1. \A q \in Pairs : q # p => tokens'[q].requestID = tokens[q].requestID
    BY <1>1, <1>2
  <2> QED BY <1>1, <2>1 DEF UsedBy
<1>12. NextOf' = [NextOf EXCEPT ![p] = r]
  <2>1. Successor(p)' = r
    BY <1>0, <1>1, <1>3 DEF Names
  <2>2. ASSUME NEW q \in Pairs, q # p PROVE Successor(q)' = Successor(q)
    BY <1>11, <2>2, NextStays
  <2> QED BY <1>1, <2>1, <2>2 DEF NextOf
<1> QED BY <1>1, <1>4, <1>5, <1>6, <1>7, <1>8, <1>9, <1>12
      DEF Last, FamilyOf, UsedBy, NextOf, Ended, Presented, Given, Family!Rotate, Family!Append

LEMMA RevokeStep ==
    ASSUME FInv, FInv', NEW r \in Requests, CommitRevoke(r), NEW s, s = local[r].session,
           NEW p, p = local[r].old, NEW o, o = local[r].op
    PROVE  Family!Revoke(s, p, o) /\ s \in Sessions /\ p \in Pairs /\ o \in Operations
<1>0. IInv /\ Step(r) /\ pc[r] = "revoke"
  BY DEF FInv, TInv, Step, CommitRevoke
<1>1. /\ r \in Refreshes /\ p \in Pairs /\ s = tokens[p].session /\ s \in Sessions
      /\ local[r].row = tokens[p].requestID /\ o \in Operations
  BY <1>0, OpenTransaction DEF LocksSession
<1>2. s \notin Ended
  BY <1>0, <1>1 DEF FInv, TInv, RevocationOK, LocksSession, Ended
<1>3. tokens[p].requestID \notin {None, o}
  BY <1>0, <1>1 DEF FInv, ReturnsOK
<1>4. <<p, o>> \in Presented
  BY <1>1 DEF Presented
<1>5. Ended' = Ended \cup {s}
  <2>1. sessions'[s].revokedAt # None
    BY <1>0, <1>1, RevokedRows, RequestsAssumption
  <2>2. \A t \in Sessions : t # s => sessions'[t] = sessions[t]
    BY <1>0, RevokedRows
  <2> QED BY <1>1, <2>1, <2>2 DEF Ended, Revoked
<1>6. UNCHANGED <<Last, FamilyOf, UsedBy, NextOf, Presented, Given>>
  <2>1. tokens' = tokens /\ ~Respond(r)
    BY <1>0 DEF CommitRevoke, Respond
  <2> QED BY <1>0, <2>1, ChainStays, StepPresented, StepGiven
<1>7. FamilyOf[p] = s /\ UsedBy[p] \notin {None, o}
  BY <1>1, <1>3 DEF FamilyOf, UsedBy
<1> QED BY <1>1, <1>2, <1>4, <1>5, <1>6, <1>7
      DEF Last, FamilyOf, UsedBy, NextOf, Ended, Presented, Given, Family!Revoke

LEMMA GiveStep ==
    ASSUME FInv, FInv', NEW r \in Requests, Respond(r)
    PROVE  Family!Next
<1>0. IInv /\ Step(r) /\ pc[r] = "respond" /\ Names
  BY NamesHold DEF FInv, TInv, Step, Respond
<1>1. /\ r \in Pairs /\ local[r].pair \in Pairs
      /\ Given' = Given \cup {<<local[r].old, local[r].op, local[r].pair>>}
  BY RespondGiven
<1>2. UNCHANGED <<Last, FamilyOf, UsedBy, NextOf, Ended, Presented>>
  <2>1. tokens' = tokens /\ ~CommitRevoke(r)
    BY <1>0 DEF Respond, CommitRevoke, database
  <2> QED BY <1>0, <2>1, ChainStays, StepPresented, EndedStays
<1>3. CASE r \in Logins
  <2>1. local[r].old = None /\ local[r].op = None /\ local[r].pair = r
    BY <1>0, <1>3 DEF FInv, PresentsOK, ReturnsOK, HoldsPair
  <2>2. PICK s \in Sessions : s = tokens[r].session
    BY <1>0, <1>1, <2>1 DEF IInv, RequestOK, MemoryOK, HoldsPair, Issued, Types, TokenRows
  <2>3. ASSUME NEW u \in Pairs PROVE NextOf[u] # r
    <3>1. Successor(u) \in Refreshes \cup {None}
      BY <1>0, <2>3 DEF Names
    <3> QED BY <1>3, <3>1, LoginFacts DEF NextOf
  <2>4. Family!GiveFirst(s, r)
    BY <1>1, <1>2, <2>1, <2>2, <2>3
       DEF Last, FamilyOf, UsedBy, NextOf, Ended, Presented, Given, Family!GiveFirst
  <2> QED BY <1>1, <2>2, <2>4 DEF Family!Next
<1>4. CASE r \in Refreshes
  <2>1. PICK p \in Pairs : p = local[r].old
    BY <1>0, <1>4 DEF FInv, ReturnsOK, HoldsPair
  <2>2. IsSuccessor(local[r].pair, p) /\ tokens[p].requestID = local[r].op
    BY <1>0, <1>4, <2>1 DEF FInv, ReturnsOK, HoldsPair
  <2>3. NextOf[p] = local[r].pair /\ NextOf[p] # None /\ UsedBy[p] = local[r].op
    BY <1>0, <2>1, <2>2, RefreshFacts DEF Names, IsSuccessor, NextOf, UsedBy
  <2>4. Family!GiveNext(p)
    BY <1>1, <1>2, <2>1, <2>3
       DEF Last, FamilyOf, UsedBy, NextOf, Ended, Presented, Given, Family!GiveNext
  <2> QED BY <2>1, <2>4 DEF Family!Next
<1> QED BY <1>1, <1>3, <1>4 DEF Pairs

\* A step that changes no row and returns no pair is a stutter.
LEMMA QuietFamily ==
    ASSUME FInv, FInv', NEW r \in Requests, Step(r) \/ Abort(r), ~Commits(r), ~Respond(r)
    PROVE  UNCHANGED Family!vars
<1>1. tokens' = tokens /\ ~CommitRevoke(r)
  BY OthersWriteNoRows DEF Commits
<1>2. UNCHANGED <<Last, FamilyOf, UsedBy, NextOf, Ended, Presented, Given>>
  BY <1>1, ChainStays, EndedStays, StepPresented, StepGiven
<1> QED BY <1>2 DEF Last, FamilyOf, UsedBy, NextOf, Ended, Presented, Given, Family!vars

\* What changes when a request arrives is what has been presented.
LEMMA ArriveFamily ==
    ASSUME FInv, FInv', NEW r \in Requests,
           \/ StartLogin(r) \/ \E p : StartAuthenticate(r, p)
           \/ \E p, o : StartRefresh(r, p, o)
    PROVE  UNCHANGED <<Last, FamilyOf, UsedBy, NextOf, Ended, Given>>
<1>0. IInv
  BY DEF FInv, TInv
<1>1. pc[r] = "idle" /\ UNCHANGED <<sessions, tokens, reply>> /\ Frame(r)
  BY <1>0, StartKeeps, StartEffect
<1>2. r \in Pairs => tokens[r].session = None
  BY <1>0, <1>1 DEF IInv, RequestOK, PendingOK, Pending
<1>3. \A q, p : IsSuccessor(q, p)' <=> IsSuccessor(q, p)
  <2> SUFFICES ASSUME NEW q, NEW p PROVE IsSuccessor(q, p)' <=> IsSuccessor(q, p)
    OBVIOUS
  <2>1. CASE q = r
    BY <1>1, <1>2, <2>1, RefreshFacts DEF IsSuccessor
  <2>2. CASE q # r
    BY <1>1, <2>2, RefreshFacts DEF IsSuccessor, Frame
  <2> QED BY <2>1, <2>2
<1>4. \A p \in Pairs : Successor(p)' = Successor(p)
  BY <1>3, NextStays
<1>5. \A s \in Sessions : LastToken(s)' = LastToken(s)
  BY <1>1, LastStays DEF EndsWith, Unused
<1>6. Ended' = Ended
  BY <1>1 DEF Ended, Revoked
<1>7. Given' = Given
  <2>1. ASSUME NEW q \in Pairs, reply[q] \in Pairs
        PROVE  local'[q].old = local[q].old /\ local'[q].op = local[q].op
    <3>1. q \in Requests /\ q # r
      BY <1>1, <2>1 DEF FInv, PresentsOK, Pairs, Requests
    <3> QED BY <1>1, <3>1 DEF Frame
  <2> QED BY <1>1, <2>1 DEF Given
<1> QED BY <1>1, <1>4, <1>5, <1>6, <1>7 DEF Last, FamilyOf, UsedBy, NextOf

LEMMA PresentStep ==
    ASSUME FInv, FInv', NEW r \in Refreshes, NEW p \in Known \cup {Unknown},
           NEW o \in Operations, StartRefresh(r, p, o)
    PROVE  [Family!Next]_(Family!vars)
<1>0. IInv /\ r \in Requests
  BY RefreshFacts DEF FInv, TInv
<1>1. UNCHANGED <<Last, FamilyOf, UsedBy, NextOf, Ended, Given>>
  BY <1>0, ArriveFamily
<1>2. pc[r] = "idle" /\ local'[r].old = p /\ local'[r].op = o /\ Frame(r)
  BY <1>0, StartKeeps, StartEffect
<1>3. local[r].old = None
  BY <1>0, <1>2 DEF FInv, PresentsOK
<1>4. \A q \in Refreshes : q # r => local'[q] = local[q]
  BY <1>2, RefreshFacts DEF Frame
<1>5. None \notin Pairs /\ Unknown \notin Pairs
  BY RequestsAssumption DEF Pairs, Requests
<1>6. CASE p = Unknown
  <2>1. Presented' = Presented
    BY <1>2, <1>3, <1>4, <1>5, <1>6 DEF Presented
  <2> QED BY <1>1, <2>1
        DEF Last, FamilyOf, UsedBy, NextOf, Ended, Presented, Given, Family!vars
<1>7. CASE p # Unknown
  <2>1. p \in Pairs
    BY <1>7 DEF Known
  <2>2. Presented' = Presented \cup {<<p, o>>}
    <3>1. Presented' \subseteq Presented \cup {<<p, o>>}
      <4> SUFFICES ASSUME NEW q \in Refreshes, local'[q].old \in Pairs
                   PROVE  <<local'[q].old, local'[q].op>> \in Presented \cup {<<p, o>>}
        BY DEF Presented
      <4>1. CASE q = r  BY <1>2, <4>1
      <4>2. CASE q # r  BY <1>4, <4>2 DEF Presented
      <4> QED BY <4>1, <4>2
    <3>2. Presented \subseteq Presented'
      <4> SUFFICES ASSUME NEW q \in Refreshes, local[q].old \in Pairs
                   PROVE  <<local[q].old, local[q].op>> \in Presented'
        BY DEF Presented
      <4>1. q # r
        BY <1>3, <1>5
      <4>2. local'[q] = local[q]
        BY <1>4, <4>1
      <4> QED BY <4>2 DEF Presented
    <3>3. <<p, o>> \in Presented'
      BY <1>2, <2>1 DEF Presented
    <3> QED BY <3>1, <3>2, <3>3
  <2>3. Family!Present(p, o)
    BY <1>1, <2>2
       DEF Last, FamilyOf, UsedBy, NextOf, Ended, Presented, Given, Family!Present
  <2> QED BY <2>1, <2>3 DEF Family!Next
<1> QED BY <1>6, <1>7

\* A login and an authentication present no refresh token.
LEMMA OtherArrival ==
    ASSUME FInv, FInv', NEW r \in Requests,
           \/ r \in Logins /\ StartLogin(r)
           \/ r \in Authentications /\ \E p : StartAuthenticate(r, p)
    PROVE  UNCHANGED Family!vars
<1>0. IInv
  BY DEF FInv, TInv
<1>1. UNCHANGED <<Last, FamilyOf, UsedBy, NextOf, Ended, Given>>
  BY ArriveFamily
<1>2. \A q \in Refreshes : local'[q] = local[q]
  <2>1. r \notin Refreshes
    BY RequestsAssumption DEF Pairs
  <2> QED BY <1>0, <2>1, StartEffect, RefreshFacts DEF Frame
<1>3. Presented' = Presented
  BY <1>2 DEF Presented
<1> QED BY <1>1, <1>3
      DEF Last, FamilyOf, UsedBy, NextOf, Ended, Presented, Given, Family!vars

LEMMA StepOfFamily ==
    ASSUME FInv, FInv', [Next]_vars
    PROVE  [Family!Next]_(Family!vars)
<1>1. CASE UNCHANGED vars \/ RedisLoss \/ Tick
  <2>1. UNCHANGED <<sessions, tokens, local, reply>>
    BY <1>1 DEF vars, RedisLoss, Tick, database
  <2>2. UNCHANGED <<Last, FamilyOf, UsedBy, NextOf>>
    BY <2>1 DEF Last, LastToken, FamilyOf, UsedBy, NextOf, Successor, Unused
  <2>3. UNCHANGED <<Ended, Presented, Given>>
    BY <2>1 DEF Ended, Revoked, Presented, Given
  <2> QED BY <2>2, <2>3
        DEF Last, FamilyOf, UsedBy, NextOf, Ended, Presented, Given, Family!vars
<1>2. CASE Arrive
  <2>1. CASE \E r \in Refreshes, p \in Known \cup {Unknown}, o \in Operations : StartRefresh(r, p, o)
    BY <2>1, PresentStep
  <2>2. CASE \/ \E r \in Logins : StartLogin(r)
             \/ \E r \in Authentications, p \in Known \cup {Unknown} : StartAuthenticate(r, p)
    <3>1. ASSUME NEW r \in Logins, StartLogin(r) PROVE UNCHANGED Family!vars
      BY <3>1, OtherArrival DEF Requests
    <3>2. ASSUME NEW r \in Authentications, NEW p, StartAuthenticate(r, p)
          PROVE  UNCHANGED Family!vars
      BY <3>2, OtherArrival DEF Requests
    <3> QED BY <2>2, <3>1, <3>2
  <2> QED BY <1>2, <2>1, <2>2 DEF Arrive
<1>3. ASSUME NEW r \in Requests, Step(r) \/ Abort(r) PROVE [Family!Next]_(Family!vars)
  <2>1. CASE CreateSession(r)
    BY <2>1, BeginStep DEF Family!Next
  <2>2. CASE CommitExtend(r)
    BY <2>2, RotateStep DEF Family!Next
  <2>3. CASE CommitRevoke(r)
    BY <2>3, RevokeStep DEF Family!Next
  <2>4. CASE Respond(r)
    BY <2>4, GiveStep
  <2>5. CASE ~Commits(r) /\ ~Respond(r)
    BY <1>3, <2>5, QuietFamily
  <2> QED BY <2>1, <2>2, <2>3, <2>4, <2>5 DEF Commits
<1> QED BY <1>1, <1>2, <1>3 DEF Next

LEMMA InitOfFamily == Init => Family!Init
<1> SUFFICES ASSUME Init PROVE Family!Init
  OBVIOUS
<1>1. \A s \in Sessions : LastToken(s) = None
  BY DEF Init, NoTokenRow, LastToken, Unused
<1>2. \A p \in Pairs : Successor(p) = None
  BY RefreshFacts DEF Init, NoTokenRow, Successor
<1>3. \A p \in Pairs : tokens[p].session = None /\ tokens[p].requestID = None
  BY DEF Init, NoTokenRow
<1>4. \A s \in Sessions : ~Revoked(s)
  BY DEF Init, NoSessionRow, Revoked
<1>5. \A r \in Requests : local[r].old \notin Pairs /\ reply[r] \notin Pairs
  BY RequestsAssumption DEF Init, Blank, Requests, Pairs
<1>6. \A r \in Pairs : r \in Requests
  BY DEF Requests, Pairs
<1> QED BY <1>1, <1>2, <1>3, <1>4, <1>5, <1>6, RefreshFacts DEF Family!Init

\* Transactions, row locks and the three Redis stores implement the token family: every
\* behaviour of Login, Refresh and Authenticate is, seen by clients, one in which the last
\* token of a session is used by one operation, which gets its successor however often it
\* asks, and a second operation ends the session (ExtendSession of session_repository.go
\* and Refresh of service.go).
THEOREM FamilyRefinement == Spec => ImplementsTokenFamily
<1>1. FInv /\ FInv' /\ [Next]_vars => [Family!Next]_(Family!vars)
  BY StepOfFamily
<1> QED BY InitOfFamily, <1>1, FamilyInvariance, PTL DEF Spec, ImplementsTokenFamily, Family!Spec

-----------------------------------------------------------------------------
(* What a client has received for a token.                                 *)

\* A refresh that was answered with a pair got the successor of the token it presented, for
\* the operation that used this token up.
AnswerOK(r) ==
    reply[r] \in Pairs =>
        /\ local[r].old \in Pairs
        /\ tokens[local[r].old].requestID = local[r].op
        /\ IsSuccessor(reply[r], local[r].old)

AnswersOK == \A r \in Refreshes : AnswerOK(r)

LEMMA StepAnswers ==
    ASSUME FInv, AnswersOK, NEW r \in Requests, Step(r) \/ Abort(r)
    PROVE  AnswersOK'
<1>0. IInv
  BY DEF FInv, TInv
<1>1. SUFFICES ASSUME NEW q \in Refreshes, reply'[q] \in Pairs PROVE AnswerOK(q)'
  BY DEF AnswersOK, AnswerOK
<1>2. /\ q \in Requests /\ q \in Pairs
      /\ local'[q].old = local[q].old /\ local'[q].op = local[q].op
  BY <1>0, RefreshFacts, OldStays
<1>3. ASSUME NEW p, p = reply'[q], pc[q] # "idle", local[q].old \in Pairs,
             tokens[local[q].old].requestID = local[q].op, IsSuccessor(p, local[q].old)
      PROVE  AnswerOK(q)'
  <2>1. tokens'[local[q].old].requestID = local[q].op
    BY <1>0, <1>3, UsedByStays
  <2>2. ASSUME NEW old, old = local[q].old PROVE IsSuccessor(p, old)'
    BY <1>0, <1>3, <2>2, SuccessorStays
  <2>3. p \in Refreshes /\ tokens'[p].session # None /\ local'[p].old = local[q].old
    BY <2>2 DEF IsSuccessor
  <2> QED BY <1>2, <1>3, <2>1, <2>3 DEF AnswerOK, IsSuccessor
<1>4. CASE reply'[q] = reply[q]
  <2>1. pc[q] = "done"
    BY <1>1, <1>2, <1>4 DEF FInv, PresentsOK
  <2>2. AnswerOK(q)
    BY DEF AnswersOK
  <2> QED BY <1>1, <1>3, <1>4, <2>1, <2>2 DEF AnswerOK
<1>5. CASE reply'[q] # reply[q]
  <2>1. q = r
    BY <1>0, <1>2, <1>5, StepEffect DEF Effect, Frame
  <2>2. Respond(r)
    BY <1>0, <1>1, <1>5, <2>1, StepKeeps DEF Keeps
  <2>3. pc[q] = "respond" /\ reply'[q] = local[q].pair
    BY <1>0, <1>2, <2>1, <2>2 DEF Respond, Return, IInv, Types
  <2> QED BY <1>2, <1>3, <2>3 DEF FInv, ReturnsOK, HoldsPair
<1> QED BY <1>4, <1>5

LEMMA ArriveAnswers ==
    ASSUME FInv, AnswersOK, Arrive
    PROVE  AnswersOK'
<1>0. IInv
  BY DEF FInv, TInv
<1>1. PICK r \in Requests : \/ StartLogin(r)
                            \/ \E p : StartAuthenticate(r, p)
                            \/ \E p, o : StartRefresh(r, p, o)
  BY DEF Arrive, Requests
<1>2. pc[r] = "idle" /\ UNCHANGED <<tokens, reply>>
  BY <1>0, <1>1, StartKeeps
<1>3. Frame(r)
  BY <1>0, <1>1, StartEffect
<1>4. r \in Pairs => tokens[r].session = None
  BY <1>0, <1>2 DEF IInv, RequestOK, PendingOK, Pending
<1>5. SUFFICES ASSUME NEW q \in Refreshes, reply[q] \in Pairs PROVE AnswerOK(q)'
  BY <1>2 DEF AnswersOK, AnswerOK
<1>6. pc[q] = "done" /\ AnswerOK(q) /\ q \in Requests
  BY <1>5, RefreshFacts DEF FInv, PresentsOK, AnswersOK
<1>7. q # r /\ reply[q] # r
  BY <1>2, <1>4, <1>5, <1>6 DEF AnswerOK, IsSuccessor
<1>8. reply[q] \in Refreshes /\ reply[q] \in Requests
  BY <1>5, <1>6, RefreshFacts DEF AnswerOK, IsSuccessor
<1>9. local'[q] = local[q] /\ local'[reply[q]] = local[reply[q]]
  BY <1>3, <1>6, <1>7, <1>8 DEF Frame
<1> QED BY <1>2, <1>6, <1>9 DEF AnswerOK, IsSuccessor

LEMMA AnswersInvariance == Spec => [](FInv /\ AnswersOK)
<1>1. Init => AnswersOK
  BY RequestsAssumption DEF Init, AnswersOK, AnswerOK, Requests, Pairs
<1>2. FInv /\ AnswersOK /\ [Next]_vars => AnswersOK'
  <2> SUFFICES ASSUME FInv, AnswersOK, [Next]_vars PROVE AnswersOK'
    OBVIOUS
  <2>1. CASE UNCHANGED vars \/ RedisLoss \/ Tick
    BY <2>1 DEF vars, RedisLoss, Tick, database, redis, AnswersOK, AnswerOK, IsSuccessor
  <2>2. CASE Arrive
    BY <2>2, ArriveAnswers
  <2>3. ASSUME NEW r \in Requests, Step(r) \/ Abort(r) PROVE AnswersOK'
    BY <2>3, StepAnswers
  <2> QED BY <2>1, <2>2, <2>3 DEF Next
<1> QED BY <1>1, <1>2, FamilyInvariance, PTL DEF Spec

\* A refresh token is exchanged once: all refreshes that presented it and were answered
\* with a pair belong to one operation and got the same pair, however they overlapped with
\* each other, with reuse and with what Redis lost (Refresh and ExtendSession).
OneAnswer ==
    \A q, r \in Refreshes :
        reply[q] \in Pairs /\ reply[r] \in Pairs /\ local[q].old = local[r].old =>
            local[q].op = local[r].op /\ reply[q] = reply[r]

THEOREM ExchangedOnce == Spec => []OneAnswer
<1>1. FInv /\ AnswersOK => OneAnswer
  BY DEF OneAnswer, AnswersOK, AnswerOK, FInv, Chain, IsSuccessor
<1> QED BY <1>1, AnswersInvariance, PTL
=============================================================================
