---------------------------- MODULE HttpApiProofs ----------------------------
(***************************************************************************)
(* Proofs about HttpApi.                                                   *)
(*                                                                         *)
(* The inductive invariant says, of the answer under way, which status it  *)
(* has, which of its calls are still to be made and what its status tells; *)
(* and, of the middleware that has been returned to, what it has done.     *)
(***************************************************************************)
EXTENDS HttpApi, SequenceTheorems, TLAPS

Calls == [op : {"WriteHeader", "Write"}, status : Statuses]

\* The calls of a handler that answers with status s: the header alone, the answer of
\* writeJSON, and the header that resendVerificationToken adds to it.
Answers(s) == {<<Header(s)>>, <<Header(s), Body(s)>>, <<Header(s), Body(s), Header(202)>>}

\* Nothing is sent.
Fresh ==
    /\ recorder = [status |-> 200, wroteHeader |-> FALSE]
    /\ wire = [status |-> NoStatus, bodies |-> <<>>]

\* The header is sent, and this is what is sent of the body.
Sent(s, bodies) ==
    /\ recorder = [status |-> s, wroteHeader |-> TRUE]
    /\ wire = [status |-> s, bodies |-> bodies]

\* What is left of an answer with status s.
Answering(s) ==
    \/ Fresh /\ calls \in Answers(s)
    \/ Sent(s, <<>>) /\ calls \in {<<>>, <<Body(s)>>, <<Body(s), Header(202)>>}
    \/ Sent(s, <<s>>) /\ calls \in {<<>>, <<Header(202)>>}

\* What a client may conclude from status s is so, if the request is one of e, has ended
\* with err and has changed the database or not.
Tells(s, e, err, change) ==
    /\ s \in 400..499 /\ change => err = "ErrRefreshTokenReuse"
    /\ s \in 200..299 /\ e \in {"register", "verify", "login"} => change

\* The label of a request says how far it has come.
Untouched == calls = <<>> /\ changed = FALSE /\ error = None /\ inPanic = None /\ layer = 2

LabelOK ==
    /\ pc \in {"route", "authenticate", "decode", "serve"} => Fresh /\ Untouched
    /\ pc = "authenticate" => endpoint = "me"
    /\ pc \in {"decode", "serve"} => endpoint \in DOMAIN Results
    /\ pc = "write" =>
          /\ inPanic = None
          /\ layer > 0
          /\ \E s \in Statuses : Answering(s) /\ Tells(s, endpoint, error, changed)
    /\ pc \in {"return", "done"} /\ inPanic = None =>
          \E s \in Statuses :
             /\ Sent(s, <<>>) \/ Sent(s, <<s>>)
             /\ Tells(s, endpoint, error, changed)
    /\ pc \in {"return", "done"} /\ inPanic # None => Fresh
    /\ pc \in {"return", "done"} => calls = <<>>

\* What the middleware has done that has been returned to.
LayerOK ==
    /\ layer < 2 => inPanic # "panic"
    /\ layer > 0 => pc # "done" /\ logged = NoStatus
    /\ layer = 0 =>
          /\ pc \in {"return", "done"}
          /\ logged = IF inPanic = None THEN recorder.status ELSE NoStatus

HInv == TypeOK /\ LabelOK /\ LayerOK

USE DEF None, NoStatus

-----------------------------------------------------------------------------
(* What is answered.                                                       *)

LEMMA ResendSequence ==
    Respond(400) \o <<Header(202)>> = <<Header(400), Body(400), Header(202)>>
<1> DEFINE u == Respond(400)
           v == <<Header(202)>>
           w == <<Header(400), Body(400), Header(202)>>
<1>1. /\ u \in Seq(Calls) /\ Len(u) = 2 /\ u[1] = w[1] /\ u[2] = w[2]
      /\ v \in Seq(Calls) /\ Len(v) = 1 /\ v[1] = w[3]
      /\ w \in Seq(Calls) /\ Len(w) = 3
  BY DEF Respond, Header, Body, Calls, Statuses
<1> HIDE DEF u, v, w
<1>2. /\ u \o v \in Seq(Calls)
      /\ Len(u \o v) = 3
      /\ \A i \in 1..3 : (u \o v)[i] = IF i <= 2 THEN u[i] ELSE v[i - 2]
  BY <1>1, ConcatProperties
<1>3. \A i \in 1..3 : (u \o v)[i] = w[i]
  BY <1>1, <1>2
<1>4. u \o v = w
  BY <1>1, <1>2, <1>3, SeqEqual
<1> QED BY <1>4 DEF u, v, w

LEMMA ResultsAreTyped ==
    ASSUME NEW e \in DOMAIN Results, NEW result \in Results[e]
    PROVE  result.changed \in BOOLEAN
<1>1. \A r \in Success \cup Fault : r.changed \in BOOLEAN
  <2>1. ASSUME NEW r \in Success PROVE r.changed = TRUE
    BY DEF Success
  <2>2. ASSUME NEW r \in Fault PROVE r.changed \in BOOLEAN
    BY <2>2, Zenon DEF Fault
  <2> QED BY <2>1, <2>2
<1>2. ASSUME NEW errors, NEW r \in Refused(errors) PROVE r.changed \in BOOLEAN
  <2>1. r.changed = FALSE
    BY <1>2 DEF Refused
  <2> QED BY <2>1
<1>3. [error |-> "ErrRefreshTokenReuse", changed |-> TRUE].changed \in BOOLEAN
  OBVIOUS
<1>4. \/ result \in Success \cup Fault
      \/ \E errors : result \in Refused(errors)
      \/ result = [error |-> "ErrRefreshTokenReuse", changed |-> TRUE]
  BY DEF Results, RegisterResults, ConfirmResults, ResendResults, LoginResults, RefreshResults,
         UserResults
<1> QED BY <1>1, <1>2, <1>3, <1>4

\* Every result of the service has an answer, whose status tells the client what it may
\* conclude.
LEMMA AnswerOfResult ==
    ASSUME NEW e \in DOMAIN Results, NEW result \in Results[e]
    PROVE  \E s \in Statuses :
              /\ CallsFor(result.error)[e] \in Answers(s)
              /\ Tells(s, e, result.error, result.changed)
<1> USE DEF CallsFor, Results, Answers, Tells, Statuses, Switch, Success, Refused, Fault, Respond
<1>1. CASE e = "register"
  BY <1>1 DEF RegisterResults, RegisterStatus
<1>2. CASE e = "verify"
  BY <1>2 DEF ConfirmResults, VerifyStatus
<1>3. CASE e = "resend"
  BY <1>3, ResendSequence DEF ResendResults, ResendStatus, ResendCalls
<1>4. CASE e = "login"
  BY <1>4 DEF LoginResults, LoginStatus
<1>5. CASE e = "refresh"
  BY <1>5 DEF RefreshResults, RefreshStatus
<1>6. CASE e = "me"
  BY <1>6 DEF UserResults, UserStatus
<1> QED BY <1>1, <1>2, <1>3, <1>4, <1>5, <1>6

LEMMA AnswersAreCalls ==
    ASSUME NEW s \in Statuses
    PROVE  /\ Answers(s) \subseteq Seq(Calls)
           /\ {<<>>, <<Body(s)>>, <<Body(s), Header(202)>>, <<Header(202)>>} \subseteq Seq(Calls)
BY DEF Answers, Calls, Header, Body, Statuses

\* Writing an answer begins with nothing sent.
LEMMA AnswerStarts ==
    ASSUME HInv, Fresh, layer > 0,
           NEW s \in Statuses, NEW response \in Answers(s), Answer(response),
           UNCHANGED <<endpoint, recorder, wire, logged>>,
           layer' \in 1..2, inPanic' = None,
           changed' \in BOOLEAN, error' \in Errors \cup {None},
           Tells(s, endpoint, error', changed')
    PROVE  HInv'
<1>1. pc' = "write" /\ calls' = response /\ calls' \in Seq(Calls)
  BY AnswersAreCalls DEF Answer
<1>2. TypeOK'
  BY <1>1 DEF HInv, TypeOK, Calls, Labels, Chain
<1>3. Fresh'
  BY DEF Fresh
<1>4. Answering(s)'
  BY <1>1, <1>3 DEF Answering
<1>5. LabelOK'
  BY <1>1, <1>4 DEF LabelOK, HInv
<1>6. LayerOK'
  BY <1>1 DEF LayerOK, HInv
<1> QED BY <1>2, <1>5, <1>6 DEF HInv

-----------------------------------------------------------------------------
(* Steps before the answer.                                                *)

LEMMA RouteStep == ASSUME HInv, Route PROVE HInv'
<1>1. Fresh /\ Untouched
  BY DEF HInv, LabelOK, Route
<1>2. ASSUME NEW status \in {200, 404, 405}, Answer(Respond(status)),
             endpoint \notin {"register", "verify", "login"}
      PROVE  HInv'
  <2>1. Respond(status) \in Answers(status) /\ status \in Statuses
    BY DEF Respond, Answers, Statuses
  <2>2. Tells(status, endpoint, error', changed')
    BY <1>1, <1>2 DEF Tells, Route, Untouched
  <2>3. /\ UNCHANGED <<endpoint, recorder, wire, layer, logged>>
        /\ layer > 0 /\ layer' \in 1..2 /\ inPanic' = None
        /\ changed' \in BOOLEAN /\ error' \in Errors \cup {None}
    BY <1>1 DEF HInv, TypeOK, Untouched, Route, rest
  <2> QED BY <1>1, <1>2, <2>1, <2>2, <2>3, AnswerStarts
<1>3. ASSUME endpoint \in Endpoints \ {"health"}, UNCHANGED calls,
             pc' = IF endpoint = "me" THEN "authenticate" ELSE "decode"
      PROVE  HInv'
  <2>1. UNCHANGED <<endpoint, recorder, wire, layer, logged, calls, changed, error, inPanic>>
    BY <1>3 DEF Route, rest
  <2>2. Fresh' /\ Untouched'
    BY <1>1, <2>1 DEF Fresh, Untouched
  <2>3. TypeOK'
    BY <1>3, <2>1 DEF HInv, TypeOK, Labels
  <2>4. LabelOK'
    BY <1>3, <2>1, <2>2 DEF LabelOK, Endpoints, Results
  <2>5. LayerOK'
    BY <1>1, <1>3, <2>1 DEF HInv, LayerOK, Untouched
  <2> QED BY <2>3, <2>4, <2>5 DEF HInv
<1> QED BY <1>2, <1>3 DEF Route

\* A refusal before the service is called.
LEMMA RefusedEarly ==
    ASSUME HInv, pc \in {"authenticate", "decode"}, NEW status \in {400, 401, 500},
           Answer(Respond(status)), UNCHANGED <<rest, changed, error, inPanic>>
    PROVE  HInv'
<1>1. Fresh /\ Untouched
  BY DEF HInv, LabelOK
<1>2. Respond(status) \in Answers(status) /\ status \in Statuses
  BY DEF Respond, Answers, Statuses
<1>3. Tells(status, endpoint, error', changed')
  BY <1>1 DEF Tells, Untouched
<1>4. /\ UNCHANGED <<endpoint, recorder, wire, layer, logged>>
      /\ layer > 0 /\ layer' \in 1..2 /\ inPanic' = None
      /\ changed' \in BOOLEAN /\ error' \in Errors \cup {None}
  BY <1>1 DEF HInv, TypeOK, Untouched, rest
<1> QED BY <1>1, <1>2, <1>3, <1>4, AnswerStarts

LEMMA Admitted ==
    ASSUME HInv, pc \in {"authenticate", "decode"}, pc' = "serve",
           UNCHANGED <<rest, calls, changed, error, inPanic>>
    PROVE  HInv'
<1>1. Fresh /\ Untouched /\ endpoint \in DOMAIN Results
  BY DEF HInv, LabelOK, Results
<1>2. Fresh' /\ Untouched'
  BY <1>1 DEF Fresh, Untouched, rest
<1>3. TypeOK'
  BY DEF HInv, TypeOK, Labels, rest
<1>4. LabelOK'
  BY <1>1, <1>2 DEF LabelOK, rest
<1>5. LayerOK'
  BY <1>1 DEF HInv, LayerOK, Untouched, rest
<1> QED BY <1>3, <1>4, <1>5 DEF HInv

LEMMA AuthenticateStep == ASSUME HInv, Authenticate PROVE HInv'
<1>1. CASE Answer(Respond(401))
  BY <1>1, RefusedEarly DEF Authenticate
<1>2. ASSUME NEW result \in AuthenticateResults, result.error # "nil",
             Answer(Respond(AuthenticateStatus(result.error)))
      PROVE  HInv'
  <2>1. AuthenticateStatus(result.error) \in {401, 500}
    BY DEF AuthenticateStatus, Switch
  <2> QED BY <1>2, <2>1, RefusedEarly DEF Authenticate
<1>3. CASE pc' = "serve" /\ UNCHANGED calls
  BY <1>3, Admitted DEF Authenticate
<1> QED BY <1>1, <1>2, <1>3 DEF Authenticate

LEMMA DecodeStep == ASSUME HInv, Decode PROVE HInv'
BY RefusedEarly, Admitted DEF Decode

LEMMA ServeStep == ASSUME HInv, Serve PROVE HInv'
<1>1. Fresh /\ Untouched /\ endpoint \in DOMAIN Results
  BY DEF HInv, LabelOK, Serve
<1>2. PICK result \in Results[endpoint] :
         /\ error' = result.error
         /\ changed' = result.changed
         /\ Answer(CallsFor(result.error)[endpoint])
  BY DEF Serve
<1>3. PICK s \in Statuses :
         /\ CallsFor(result.error)[endpoint] \in Answers(s)
         /\ Tells(s, endpoint, result.error, result.changed)
  BY <1>1, AnswerOfResult
<1>4. result.error \in Errors
  BY <1>1 DEF Errors
<1>5. result.changed \in BOOLEAN
  BY <1>1, ResultsAreTyped
<1> QED BY <1>1, <1>2, <1>3, <1>4, <1>5, AnswerStarts DEF Serve, rest, Untouched

LEMMA PanicStep == ASSUME HInv, Panic PROVE HInv'
<1>1. Fresh /\ Untouched
  BY DEF HInv, LabelOK, Panic
<1>2. pc' = "return" /\ inPanic' \in Panics /\ inPanic' # None /\ calls' = <<>>
  BY <1>1 DEF Panic, Panics, Untouched
<1>3. TypeOK'
  BY <1>2 DEF HInv, TypeOK, Panic, Labels, rest
<1>4. Fresh'
  BY <1>1 DEF Fresh, Panic, rest
<1>5. LabelOK'
  BY <1>2, <1>4 DEF LabelOK
<1>6. LayerOK'
  BY <1>1, <1>2 DEF HInv, LayerOK, Untouched, Panic, rest
<1> QED BY <1>3, <1>5, <1>6 DEF HInv

-----------------------------------------------------------------------------
(* The calls of an answer.                                                 *)

\* The first status is sent, by WriteHeader.
LEMMA HeaderSent ==
    ASSUME HInv, Fresh, NEW s \in Statuses, calls \in Answers(s), Write
    PROVE  /\ Sent(s, <<>>)'
           /\ calls' \in {<<>>, <<Body(s)>>, <<Body(s), Header(202)>>}
<1>1. Head(calls) = Header(s)
  BY DEF Answers
<1>2. recorder' = Record(s) /\ wire' = Send(s)
  BY <1>1 DEF Write, Header
<1>3. recorder' = [status |-> s, wroteHeader |-> TRUE]
  BY <1>2 DEF Record, Fresh
<1>4. wire' = [status |-> s, bodies |-> <<>>]
  BY <1>2 DEF Send, Fresh
<1>5. Tail(calls) \in {<<>>, <<Body(s)>>, <<Body(s), Header(202)>>}
  <2>1. CASE calls = <<Header(s)>>
    BY <2>1
  <2>2. CASE calls = <<Header(s), Body(s)>>
    BY <2>2
  <2>3. CASE calls = <<Header(s), Body(s), Header(202)>>
    BY <2>3
  <2> QED BY <2>1, <2>2, <2>3 DEF Answers
<1>6. calls' = Tail(calls)
  BY DEF Write
<1> QED BY <1>3, <1>4, <1>5, <1>6 DEF Sent

\* The body follows, with the status that was sent.
LEMMA BodySent ==
    ASSUME HInv, NEW s \in Statuses, Sent(s, <<>>),
           calls \in {<<Body(s)>>, <<Body(s), Header(202)>>}, Write
    PROVE  Sent(s, <<s>>)' /\ calls' \in {<<>>, <<Header(202)>>}
<1>1. Head(calls) = Body(s) /\ Tail(calls) \in {<<>>, <<Header(202)>>}
  <2>1. CASE calls = <<Body(s)>>
    BY <2>1
  <2>2. CASE calls = <<Body(s), Header(202)>>
    BY <2>2
  <2> QED BY <2>1, <2>2
<1>2. /\ recorder' = recorder
      /\ wire' = [Send(200) EXCEPT !.bodies = Append(@, s)]
  BY <1>1 DEF Write, Body, Sent
<1>3. Send(200) = wire
  BY DEF Send, Sent, Statuses
<1>4. wire' = [status |-> s, bodies |-> <<s>>]
  BY <1>2, <1>3 DEF Sent
<1>5. calls' = Tail(calls)
  BY DEF Write
<1> QED BY <1>1, <1>2, <1>4, <1>5 DEF Sent

\* A second WriteHeader has no effect.
LEMMA HeaderIgnored ==
    ASSUME HInv, NEW s \in Statuses, Sent(s, <<s>>), calls = <<Header(202)>>, Write
    PROVE  Sent(s, <<s>>)' /\ calls' = <<>>
<1>1. Head(calls) = Header(202) /\ calls' = <<>>
  BY DEF Write
<1>2. recorder' = Record(202) /\ wire' = Send(202)
  BY <1>1 DEF Write, Header
<1>3. recorder' = recorder /\ wire' = wire
  BY <1>2 DEF Record, Send, Sent, Statuses
<1> QED BY <1>1, <1>3 DEF Sent

LEMMA WriteStep == ASSUME HInv, Write PROVE HInv'
<1>1. PICK s \in Statuses : Answering(s) /\ Tells(s, endpoint, error, changed)
  BY DEF HInv, LabelOK, Write
<1>2. /\ UNCHANGED <<endpoint, pc, changed, error, inPanic, layer, logged>>
      /\ pc = "write"
      /\ calls # <<>>
  BY DEF Write
<1>3. \/ Sent(s, <<>>)' /\ calls' \in {<<>>, <<Body(s)>>, <<Body(s), Header(202)>>}
      \/ Sent(s, <<s>>)' /\ calls' \in {<<>>, <<Header(202)>>}
  BY <1>1, <1>2, HeaderSent, BodySent, HeaderIgnored DEF Answering
<1>4. calls' \in Seq(Calls)
  BY <1>3, AnswersAreCalls
<1>5. /\ recorder' = [status |-> s, wroteHeader |-> TRUE]
      /\ wire' \in {[status |-> s, bodies |-> <<>>], [status |-> s, bodies |-> <<s>>]}
  BY <1>3 DEF Sent
<1>6. TypeOK'
  <2>1. recorder' \in [status : Statuses, wroteHeader : BOOLEAN]
    BY <1>5
  <2>2. wire' \in [status : Statuses \cup {NoStatus}, bodies : Seq(Statuses)]
    <3>1. CASE wire' = [status |-> s, bodies |-> <<>>]
      BY <3>1
    <3>2. CASE wire' = [status |-> s, bodies |-> <<s>>]
      BY <3>2
    <3> QED BY <1>5, <3>1, <3>2
  <2>3. wire'.status = recorder'.status
    BY <1>5
  <2> QED BY <1>2, <1>4, <2>1, <2>2, <2>3 DEF HInv, TypeOK, Calls
<1>7. LabelOK'
  BY <1>1, <1>2, <1>3 DEF HInv, LabelOK, Answering
<1>8. LayerOK'
  BY <1>2 DEF HInv, LayerOK
<1> QED BY <1>6, <1>7, <1>8 DEF HInv

LEMMA WrittenStep == ASSUME HInv, Written PROVE HInv'
<1>1. PICK s \in Statuses : Answering(s) /\ Tells(s, endpoint, error, changed)
  BY DEF HInv, LabelOK, Written
<1>2. Sent(s, <<>>) \/ Sent(s, <<s>>)
  BY <1>1 DEF Answering, Answers, Written
<1>3. /\ UNCHANGED <<endpoint, recorder, wire, layer, logged, calls, changed, error, inPanic>>
      /\ pc = "write" /\ calls = <<>> /\ pc' = "return"
  BY DEF Written, rest
<1>4. Sent(s, <<>>)' \/ Sent(s, <<s>>)'
  BY <1>2, <1>3 DEF Sent
<1>5. inPanic = None /\ layer > 0
  BY <1>3 DEF HInv, LabelOK
<1>6. TypeOK'
  BY <1>3 DEF HInv, TypeOK, Labels
<1>7. LabelOK'
  BY <1>1, <1>3, <1>4, <1>5 DEF LabelOK
<1>8. LayerOK'
  BY <1>3, <1>5 DEF HInv, LayerOK
<1> QED BY <1>6, <1>7, <1>8 DEF HInv

-----------------------------------------------------------------------------
(* The return through the middleware.                                      *)

LEMMA Layers ==
    /\ Len(Chain) = 2
    /\ Chain[1] = "RequestLoggingMiddleware"
    /\ Chain[2] = "RecoveryMiddleware"
BY DEF Chain

LEMMA RecoverStep == ASSUME HInv, Recover PROVE HInv'
<1>1. layer = 2 /\ layer' = 1 /\ pc = "return" /\ calls = <<>>
  BY Layers DEF HInv, LabelOK, TypeOK, Recover, Inner
<1>2. UNCHANGED <<endpoint, recorder, wire, changed, error, logged>>
  BY DEF Recover
<1>3. CASE inPanic = "panic" /\ inPanic' = None /\ Answer(Respond(500))
  <2>1. Fresh
    BY <1>1, <1>3 DEF HInv, LabelOK
  <2>2. Respond(500) \in Answers(500) /\ 500 \in Statuses
    BY DEF Respond, Answers, Statuses
  <2>3. Tells(500, endpoint, error', changed')
    BY DEF Tells
  <2>4. changed' \in BOOLEAN /\ error' \in Errors \cup {None}
    BY <1>2 DEF HInv, TypeOK
  <2> QED BY <1>1, <1>2, <1>3, <2>1, <2>2, <2>3, <2>4, AnswerStarts
<1>4. CASE inPanic # "panic" /\ UNCHANGED <<pc, calls, inPanic>>
  <2>1. TypeOK'
    BY <1>1, <1>2, <1>4, Layers DEF HInv, TypeOK
  <2>2. LabelOK'
    BY <1>1, <1>2, <1>4 DEF HInv, LabelOK, Fresh, Sent
  <2>3. LayerOK'
    BY <1>1, <1>2, <1>4 DEF HInv, LayerOK
  <2> QED BY <2>1, <2>2, <2>3 DEF HInv
<1> QED BY <1>3, <1>4 DEF Recover

LEMMA LogRequestStep == ASSUME HInv, LogRequest PROVE HInv'
<1>1. layer = 1 /\ layer' = 0 /\ pc = "return" /\ logged = NoStatus
  BY Layers DEF HInv, TypeOK, LayerOK, LogRequest, Inner
<1>2. /\ UNCHANGED <<endpoint, pc, calls, recorder, wire, changed, error, inPanic>>
      /\ logged' = IF inPanic = None THEN recorder.status ELSE NoStatus
  BY <1>1 DEF LogRequest
<1>3. TypeOK'
  BY <1>1, <1>2, Layers DEF HInv, TypeOK
<1>4. LabelOK'
  BY <1>1, <1>2 DEF HInv, LabelOK, Fresh, Sent
<1>5. LayerOK'
  BY <1>1, <1>2 DEF HInv, LayerOK
<1> QED BY <1>3, <1>4, <1>5 DEF HInv

\* net/http has nothing to add: what has not panicked has answered.
LEMMA FinishStep == ASSUME HInv, Finish PROVE HInv' /\ wire' = wire
<1>1. pc = "return" /\ layer = 0 /\ pc' = "done"
  BY DEF Finish
<1>2. wire' = wire
  BY <1>1 DEF HInv, LabelOK, Finish, Send, Sent, Statuses
<1>3. UNCHANGED <<endpoint, calls, recorder, wire, changed, error, inPanic, layer, logged>>
  BY <1>2 DEF Finish
<1>4. TypeOK'
  BY <1>1, <1>3 DEF HInv, TypeOK, Labels
<1>5. LabelOK'
  BY <1>1, <1>3 DEF HInv, LabelOK, Fresh, Sent
<1>6. LayerOK'
  BY <1>1, <1>3 DEF HInv, LayerOK
<1> QED BY <1>2, <1>4, <1>5, <1>6 DEF HInv

-----------------------------------------------------------------------------
(* The theorems.                                                           *)

LEMMA Initially == Init => HInv
<1> SUFFICES ASSUME Init PROVE HInv
  OBVIOUS
<1>1. Fresh /\ Untouched
  BY DEF Init, Fresh, Untouched, Chain
<1>2. TypeOK
  <2>1. recorder \in [status : Statuses, wroteHeader : BOOLEAN]
    BY DEF Init, Statuses
  <2>2. wire \in [status : Statuses \cup {NoStatus}, bodies : Seq(Statuses)]
    BY DEF Init
  <2>3. calls \in Seq(Calls)
    BY DEF Init
  <2>4. changed \in BOOLEAN
    BY DEF Init
  <2>5. layer \in 0..Len(Chain)
    BY Layers DEF Init
  <2>6. wire.status = NoStatus
    BY DEF Init
  <2> QED BY <2>1, <2>2, <2>3, <2>4, <2>5, <2>6 DEF Init, TypeOK, Labels, Calls
<1>3. LabelOK /\ LayerOK
  BY <1>1 DEF Init, LabelOK, LayerOK, Untouched
<1> QED BY <1>2, <1>3 DEF HInv

LEMMA Invariance == Spec => []HInv
<1>1. HInv /\ [Next]_vars => HInv'
  <2> SUFFICES ASSUME HInv, [Next]_vars PROVE HInv'
    OBVIOUS
  <2>1. CASE Next
    BY <2>1, RouteStep, AuthenticateStep, DecodeStep, ServeStep, PanicStep, WriteStep,
       WrittenStep, RecoverStep, LogRequestStep, FinishStep DEF Next
  <2>2. CASE UNCHANGED vars
    <3>1. TypeOK'
      BY <2>2 DEF HInv, TypeOK, vars
    <3>2. LabelOK'
      BY <2>2 DEF HInv, LabelOK, Fresh, Untouched, Answering, Sent, vars
    <3>3. LayerOK'
      BY <2>2 DEF HInv, LayerOK, vars
    <3> QED BY <3>1, <3>2, <3>3 DEF HInv
  <2> QED BY <2>1, <2>2
<1> QED BY <1>1, Initially, PTL DEF Spec

\* The variables keep their types, and the status that responseWriter (middleware.go)
\* remembers for the log is the one that was sent.
THEOREM TypeCorrect == Spec => []TypeOK
<1>1. HInv => TypeOK
  BY DEF HInv
<1> QED BY <1>1, Invariance, PTL

\* Every request is answered, and logged with the status of the answer, when its handler
\* panics, too; http.ErrAbortHandler alone leaves it without both.
THEOREM EveryRequestAnswered == Spec => []AnsweredAndLogged
<1>1. HInv => AnsweredAndLogged
  <2> SUFFICES ASSUME HInv, pc = "done"
               PROVE  IF inPanic = None THEN wire.status # NoStatus /\ logged = wire.status
                                        ELSE /\ inPanic = "ErrAbortHandler"
                                             /\ wire.status = NoStatus
                                             /\ logged = NoStatus
    BY DEF AnsweredAndLogged
  <2>1. layer = 0
    BY DEF HInv, TypeOK, LayerOK
  <2>2. CASE inPanic = None
    BY <2>1, <2>2 DEF HInv, LabelOK, LayerOK, Sent, Statuses
  <2>3. CASE inPanic # None
    BY <2>1, <2>3 DEF HInv, TypeOK, LabelOK, LayerOK, Fresh, Panics
  <2> QED BY <2>2, <2>3
<1> QED BY <1>1, Invariance, PTL

\* A response has one body at most, and the one that its status announces, whatever
\* resendVerificationToken (resend_verification.go) calls after it has answered.
THEOREM OneBodySent == Spec => []OneBody
<1>1. HInv => OneBody
  <2> SUFFICES ASSUME HInv PROVE OneBody
    OBVIOUS
  <2>1. \/ wire.bodies = <<>>
        \/ \E s \in Statuses : wire.status = s /\ wire.bodies = <<s>>
    BY DEF HInv, TypeOK, Labels, LabelOK, Answering, Fresh, Sent
  <2>2. CASE wire.bodies = <<>>
    BY <2>2 DEF OneBody
  <2>3. ASSUME NEW s \in Statuses, wire.status = s, wire.bodies = <<s>> PROVE OneBody
    BY <2>3 DEF OneBody
  <2> QED BY <2>1, <2>2, <2>3
<1> QED BY <1>1, Invariance, PTL

\* A refusal has changed nothing, but for the refusal of a reuse, and a registration, a
\* confirmation or a login that was accepted is committed.
THEOREM StatusTells == Spec => []StatusTellsEffect
<1>1. HInv => StatusTellsEffect
  <2> SUFFICES ASSUME HInv, pc = "done"
               PROVE  Tells(wire.status, endpoint, error, changed)
    BY DEF StatusTellsEffect, Tells
  <2>1. CASE inPanic = None
    BY <2>1 DEF HInv, LabelOK, Sent
  <2>2. CASE inPanic # None
    <3>1. wire.status = 0
      BY <2>2 DEF HInv, LabelOK, Fresh
    <3> QED BY <3>1 DEF Tells
  <2> QED BY <2>1, <2>2
<1> QED BY <1>1, Invariance, PTL
=============================================================================
