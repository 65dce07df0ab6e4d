------------------------------ MODULE HttpApi ------------------------------
(***************************************************************************)
(* One request on its way through internal/handler/httpapi: the middleware *)
(* chain, the router, the handler, the service and back.  Requests share   *)
(* nothing at this layer.                                                  *)
(*                                                                         *)
(* A result of the service is the error it returns and whether the         *)
(* transaction of the request was committed.  A handler answers by a       *)
(* sequence of calls of its http.ResponseWriter.                           *)
(***************************************************************************)
EXTENDS Naturals, Sequences

VARIABLES
    endpoint,     \* the route of the request, or none
    pc,           \* what is executed next
    calls,        \* calls of the ResponseWriter still to be made
    recorder,     \* status and wroteHeader of the responseWriter
    wire,         \* the status net/http has sent, and the bodies, by the status they tell
    changed,      \* whether the request has changed the database
    error,        \* the error of the service
    inPanic,      \* the panic under way
    layer,        \* the middleware that is returned to next
    logged        \* the status in the request log, NoStatus before it is written

vars == <<endpoint, pc, calls, recorder, wire, changed, error, inPanic, layer, logged>>
rest == <<endpoint, recorder, wire, layer, logged>>

None     == "none"
NoStatus == 0

Endpoints == {"health", "register", "verify", "resend", "login", "refresh", "me"}
Panics    == {"panic", "ErrAbortHandler"}

-----------------------------------------------------------------------------
(* What the service returns.                                               *)

Success         == {[error |-> "nil", changed |-> TRUE]}
Refused(errors) == {[error |-> x, changed |-> FALSE] : x \in errors}
\* Any other error; the answer to a COMMIT may be lost, too.
Fault           == [error : {"other"}, changed : BOOLEAN]

RegisterResults == Success \cup Fault \cup Refused({"ValidationError", "ErrEmailAlreadyExists"})

ConfirmResults ==
    Success \cup Fault \cup Refused({"ErrInvalidToken", "ErrUsedToken", "ErrRevokedToken",
                                     "ErrExpiredToken", "ErrAlreadyVerified"})

ResendResults ==
    Success \cup Fault \cup Refused({"ValidationError", "ErrUserNotFound", "ErrAlreadyVerified",
                                     "ErrResendCooldown", "ErrResendHourlyLimit"})

LoginResults ==
    Success \cup Fault \cup Refused({"ValidationError", "ErrInvalidCredentials",
                                     "ErrEmailNotVerified"})

\* A retry is answered without a change; reuse is an error with a change.
RefreshResults ==
    Success \cup Fault \cup Refused({"nil", "ErrRefreshRetryUnavailable", "ErrSessionInactive",
                                     "ErrRefreshTokenNotFound"})
            \cup {[error |-> "ErrRefreshTokenReuse", changed |-> TRUE]}

AuthenticateResults == Refused({"nil", "ErrAccessTokenInvalid", "ErrSessionInactive", "other"})

UserResults == Refused({"nil", "ErrUserNotFound", "other"})

-----------------------------------------------------------------------------
(* What the handlers answer.                                               *)

\* A switch over errors; what it does not name is an error of the server.
\* (Faulty variant: what it does not name is an error of the client.)
BlameClient(statuses, err) == IF err \in DOMAIN statuses THEN statuses[err] ELSE 400
Switch(statuses, err) == IF err \in DOMAIN statuses THEN statuses[err] ELSE 500

RegisterStatus(err) ==
    Switch([nil |-> 202, ValidationError |-> 400, ErrEmailAlreadyExists |-> 409], err)

VerifyStatus(err) ==
    Switch([nil |-> 200, ErrInvalidToken |-> 400, ErrExpiredToken |-> 400,
            ErrUsedToken |-> 409, ErrRevokedToken |-> 400], err)

ResendStatus(err) ==
    Switch([nil |-> 202, ValidationError |-> 400, ErrUserNotFound |-> 202,
            ErrAlreadyVerified |-> 202, ErrResendCooldown |-> 202,
            ErrResendHourlyLimit |-> 202], err)

LoginStatus(err) ==
    Switch([nil |-> 200, ValidationError |-> 400, ErrInvalidCredentials |-> 401,
            ErrEmailNotVerified |-> 403], err)

RefreshStatus(err) ==
    Switch([nil |-> 200, ErrRefreshRetryUnavailable |-> 401, ErrRefreshTokenReuse |-> 401,
            ErrSessionInactive |-> 401], err)

AuthenticateStatus(err) == Switch([ErrAccessTokenInvalid |-> 401, ErrSessionInactive |-> 401], err)

UserStatus(err) == Switch([nil |-> 200, ErrUserNotFound |-> 401], err)

Header(status) == [op |-> "WriteHeader", status |-> status]
Body(status)   == [op |-> "Write", status |-> status]

\* writeJSON.
Respond(status) == <<Header(status), Body(status)>>

\* The calls of resendVerificationToken: without a body when it accepts, and with a second
\* WriteHeader after a validation error.
\* (Faulty variant: no return after an error of the server either, and the answer of a
\* success after it.)
ResendFallsThrough(err) ==
    IF ResendStatus(err) = 202 THEN <<Header(202)>>
                               ELSE Respond(ResendStatus(err)) \o Respond(202)
ResendCalls(err) ==
    CASE ResendStatus(err) = 202  -> <<Header(202)>>
      [] err = "ValidationError"  -> Respond(400) \o <<Header(202)>>
      [] OTHER                    -> Respond(500)

\* The results of the service a handler may see, and the calls that answer them.
Results == [register |-> RegisterResults, verify |-> ConfirmResults, resend |-> ResendResults,
            login |-> LoginResults, refresh |-> RefreshResults, me |-> UserResults]

CallsFor(err) ==
    [register |-> Respond(RegisterStatus(err)), verify |-> Respond(VerifyStatus(err)),
     resend |-> ResendCalls(err), login |-> Respond(LoginStatus(err)),
     refresh |-> Respond(RefreshStatus(err)), me |-> Respond(UserStatus(err))]

-----------------------------------------------------------------------------
\* The middleware around the router, the outermost first.
\* (Faulty variant: the recovery outside the request log.)
Swapped == <<"RecoveryMiddleware", "RequestLoggingMiddleware">>
Chain == <<"RequestLoggingMiddleware", "RecoveryMiddleware">>

Init ==
    /\ endpoint \in Endpoints \cup {None}
    /\ pc = "route"
    /\ calls = <<>>
    /\ recorder = [status |-> 200, wroteHeader |-> FALSE]
    /\ wire = [status |-> NoStatus, bodies |-> <<>>]
    /\ changed = FALSE
    /\ error = None
    /\ inPanic = None
    /\ layer = Len(Chain)
    /\ logged = NoStatus

Answer(response) == pc' = "write" /\ calls' = response

\* http.ServeMux; a route it does not know, or another method, is answered by itself.
Route ==
    /\ pc = "route"
    /\ \/ endpoint = None /\ \E status \in {404, 405} : Answer(Respond(status))
       \/ endpoint = "health" /\ Answer(Respond(200))
       \/ /\ endpoint \in Endpoints \ {"health"}
          /\ pc' = IF endpoint = "me" THEN "authenticate" ELSE "decode"
          /\ UNCHANGED calls
    /\ UNCHANGED <<rest, changed, error, inPanic>>

\* AuthenticationMiddleware.
Authenticate ==
    /\ pc = "authenticate"
    /\ \/ Answer(Respond(401))                          \* no bearer token
       \/ \E result \in AuthenticateResults :
             \/ result.error = "nil" /\ pc' = "serve" /\ UNCHANGED calls
             \/ result.error # "nil" /\ Answer(Respond(AuthenticateStatus(result.error)))
    /\ UNCHANGED <<rest, changed, error, inPanic>>

\* decodeJSON, or the query parameter of verifyEmail.
Decode ==
    /\ pc = "decode"
    /\ \/ Answer(Respond(400))
       \/ pc' = "serve" /\ UNCHANGED calls
    /\ UNCHANGED <<rest, changed, error, inPanic>>

\* The handler calls the service and chooses its answer.
Serve ==
    /\ pc = "serve"
    /\ \E result \in Results[endpoint] :
          /\ error' = result.error
          /\ changed' = result.changed
          /\ Answer(CallsFor(result.error)[endpoint])
    /\ UNCHANGED <<rest, inPanic>>

\* The service panics, before it has committed or after.
Panic ==
    /\ pc \in {"authenticate", "serve"}
    /\ inPanic' \in Panics
    /\ changed' \in IF pc = "serve" /\ endpoint # "me" THEN BOOLEAN ELSE {FALSE}
    /\ pc' = "return"
    /\ UNCHANGED <<rest, calls, error>>

-----------------------------------------------------------------------------
\* responseWriter.WriteHeader.
\* (Faulty variant: without the check of wroteHeader.)
RecordAgain(status) == [status |-> status, wroteHeader |-> TRUE]
Record(status) ==
    IF recorder.wroteHeader THEN recorder ELSE [status |-> status, wroteHeader |-> TRUE]

\* net/http sends the first status it is given, and every body.
Send(status) == IF wire.status = NoStatus THEN [wire EXCEPT !.status = status] ELSE wire

Write ==
    /\ pc = "write"
    /\ calls # <<>>
    /\ LET call == Head(calls) IN
       \/ /\ call.op = "WriteHeader"
          /\ recorder' = Record(call.status)
          /\ wire' = Send(call.status)
       \/ /\ call.op = "Write"
          /\ recorder' = IF recorder.wroteHeader THEN recorder ELSE Record(200)
          /\ wire' = [Send(200) EXCEPT !.bodies = Append(@, call.status)]
    /\ calls' = Tail(calls)
    /\ UNCHANGED <<endpoint, pc, changed, error, inPanic, layer, logged>>

Written ==
    /\ pc = "write"
    /\ calls = <<>>
    /\ pc' = "return"
    /\ UNCHANGED <<rest, calls, changed, error, inPanic>>

Inner == Chain[layer]

\* The deferred function of RecoveryMiddleware: a panic is answered, but for ErrAbortHandler.
Recover ==
    /\ pc = "return"
    /\ layer > 0
    /\ Inner = "RecoveryMiddleware"
    /\ layer' = layer - 1
    /\ \/ /\ inPanic = "panic"
          /\ inPanic' = None
          /\ Answer(Respond(500))
       \/ /\ inPanic # "panic"
          /\ UNCHANGED <<pc, calls, inPanic>>
    /\ UNCHANGED <<endpoint, recorder, wire, changed, error, logged>>

\* The request log is written when next.ServeHTTP returns, not when it panics.
LogRequest ==
    /\ pc = "return"
    /\ layer > 0
    /\ Inner = "RequestLoggingMiddleware"
    /\ layer' = layer - 1
    /\ logged' = IF inPanic = None THEN recorder.status ELSE logged
    /\ UNCHANGED <<endpoint, pc, calls, recorder, wire, changed, error, inPanic>>

\* net/http: a handler that has written nothing has answered 200, a panic cuts the connection.
Finish ==
    /\ pc = "return"
    /\ layer = 0
    /\ pc' = "done"
    /\ wire' = IF inPanic = None THEN Send(200) ELSE wire
    /\ UNCHANGED <<endpoint, calls, recorder, changed, error, inPanic, layer, logged>>

Next == \/ Route \/ Authenticate \/ Decode \/ Serve \/ Panic
        \/ Write \/ Written \/ Recover \/ LogRequest \/ Finish

Spec == Init /\ [][Next]_vars

-----------------------------------------------------------------------------
(* Properties.                                                             *)

Statuses == {200, 202, 400, 401, 403, 404, 405, 409, 500}
Labels   == {"route", "authenticate", "decode", "serve", "write", "return", "done"}
Errors   == {"nil", "other"} \cup
            {result.error : result \in UNION {Results[e] : e \in DOMAIN Results}}

\* Every variable keeps its type, and the status the logging middleware remembers is the
\* one that was sent, whatever a handler calls after its first WriteHeader.
TypeOK ==
    /\ endpoint \in Endpoints \cup {None}
    /\ pc \in Labels
    /\ calls \in Seq([op : {"WriteHeader", "Write"}, status : Statuses])
    /\ recorder \in [status : Statuses, wroteHeader : BOOLEAN]
    /\ wire \in [status : Statuses \cup {NoStatus}, bodies : Seq(Statuses)]
    /\ changed \in BOOLEAN
    /\ error \in Errors \cup {None}
    /\ inPanic \in Panics \cup {None}
    /\ layer \in 0..Len(Chain)
    /\ logged \in Statuses \cup {NoStatus}
    /\ wire.status # NoStatus => wire.status = recorder.status

\* Every request is answered and logged with the status it was answered with, a panic in
\* the service included; only ErrAbortHandler cuts the connection without either.
AnsweredAndLogged ==
    pc = "done" =>
        IF inPanic = None THEN wire.status # NoStatus /\ logged = wire.status
                          ELSE /\ inPanic = "ErrAbortHandler"
                               /\ wire.status = NoStatus
                               /\ logged = NoStatus

\* A response has one body at most, and it tells what the status tells: no handler goes on
\* to answer after it has answered (resendVerificationToken does go on).
OneBody ==
    /\ Len(wire.bodies) <= 1
    /\ \A i \in DOMAIN wire.bodies : wire.bodies[i] = wire.status

\* What a client may conclude: a refusal (4xx) has changed nothing, but for the refusal of
\* a reuse, which revokes the session; a registration, a confirmation or a login that was
\* accepted is committed.  Only 5xx leaves it open.
StatusTellsEffect ==
    pc = "done" =>
        /\ wire.status \in 400..499 /\ changed => error = "ErrRefreshTokenReuse"
        /\ wire.status \in 200..299 /\ endpoint \in {"register", "verify", "login"} => changed
=============================================================================
