--------------------- MODULE VerificationDeliveryProofs ---------------------
(***************************************************************************)
(* Proofs about VerificationDelivery, for any number of requests, workers  *)
(* and faults.  The server's part of the invariant is that of              *)
(* EmailVerificationProofs; what is added here ties the queue, the workers *)
(* and the mails to it.                                                    *)
(***************************************************************************)
EXTENDS VerificationDelivery, EmailVerificationProofs

-----------------------------------------------------------------------------
(* The inductive invariant.                                                *)

\* The call of the handler by a worker: which rows it has read, and what its answer means.
HandlerOK(d) ==
    /\ pc[d] \in {"idle", "getForDelivery", "send", "done"}
    /\ pc[d] # "idle" => local[d].token \in events
    /\ pc[d] = "send" => local[d].expiresAt = verifications[local[d].token].expiresAt
    /\ pc[d] = "done" /\ reply[d] = "ok" =>
          local[d].token \in mailed \/ Dead(local[d].token)

\* The workers that may still send the mail of v although the event is not theirs any more.
Late(v) ==
    {d \in Deliveries : /\ pc[d] \in {"getForDelivery", "send"}
                        /\ local[d].token = v
                        /\ holder[v] # d}

\* The last attempt at the event of v is over, and v may have been mailed by it.
Settled(v) ==
    \/ status[v] \in {"processed", "failed"}
    \/ holder[v] # None /\ pc[holder[v]] = "done" /\ reply[holder[v]] = "ok"

\* Every mail sent by a worker that was overtaken, and every one it may still send, is paid
\* for by a fault; the attempt that settles the event adds one.
MailsOK(v) ==
    /\ IsFiniteSet(Late(v))
    /\ mails[v] + Cardinality(Late(v)) <= faults + (IF Settled(v) THEN 1 ELSE 0)

JInv ==
    /\ IInv
    /\ JoinedTypeOK
    /\ \A d \in Deliveries : HandlerOK(d)
    /\ ProcessedIsDelivered
    /\ \A v \in Verifications : MailsOK(v)

-----------------------------------------------------------------------------
(* Steps of EmailVerification seen by the queue and the workers.           *)

\* No request but r moves.
Elsewhere(r) ==
    \A q \in Requests : q # r => pc'[q] = pc[q] /\ local'[q] = local[q] /\ reply'[q] = reply[q]

LEMMA StepElsewhere ==
    ASSUME TypeOK, NEW r \in Requests, Step(r) \/ Abort(r)
    PROVE  Elsewhere(r)
<1>1. ASSUME NEW answer, Return(r, answer) PROVE Elsewhere(r)
  BY <1>1 DEF TypeOK, Return, Goto, Elsewhere
<1>2. ASSUME NEW label, Goto(r, label), UNCHANGED reply,
             \/ UNCHANGED local
             \/ \E new : local' = [local EXCEPT ![r] = new]
      PROVE  Elsewhere(r)
  BY <1>2 DEF TypeOK, Goto, Elsewhere
<1>3. CASE CreateUser(r) \/ Confirm(r) \/ Issue(r) \/ SendVerification(r) \/ Abort(r)
  BY <1>1, <1>3 DEF CreateUser, Confirm, Issue, SendVerification, Abort
<1>4. CASE LookupToken(r)  BY <1>1, <1>2, <1>4 DEF LookupToken
<1>5. CASE LockUser(r)  BY <1>1, <1>2, <1>5 DEF LockUser
<1>6. CASE LockEmail(r)  BY <1>1, <1>2, <1>6 DEF LockEmail
<1>7. CASE CheckLimits(r)  BY <1>1, <1>2, <1>7 DEF CheckLimits
<1>8. CASE GetForDelivery(r)  BY <1>1, <1>2, <1>8 DEF GetForDelivery
<1> QED BY <1>3, <1>4, <1>5, <1>6, <1>7, <1>8 DEF Step

\* A step that writes no table.
Reads(r) == LookupToken(r) \/ LockUser(r) \/ LockEmail(r) \/ CheckLimits(r)
            \/ GetForDelivery(r) \/ SendVerification(r) \/ Abort(r)

LEMMA ReadersWriteNothing ==
    ASSUME NEW r, Reads(r)
    PROVE  UNCHANGED <<clock, tables>>
  BY DEF Reads, LookupToken, LockUser, LockEmail, CheckLimits, GetForDelivery, SendVerification,
     Abort, tables

\* Time passes, events are added one at a time, and what a verification went through stays.
Ages ==
    /\ clock \in Nat /\ clock' \in Nat /\ clock <= clock'
    /\ events' = events \/ \E r \in Verifications \ events : events' = events \cup {r}
    /\ \A v \in events :
          /\ verifications[v].usedAt # None => verifications'[v].usedAt # None
          /\ verifications[v].revokedAt # None => verifications'[v].revokedAt # None
          /\ verifications'[v].createdAt = verifications[v].createdAt
          /\ verifications'[v].expiresAt = verifications[v].expiresAt

LEMMA NothingWritten ==
    ASSUME IInv, IInv', UNCHANGED tables, clock' = clock \/ clock' = clock + 1
    PROVE  Ages
  BY DEF IInv, TypeOK, Ages, tables

LEMMA CreateUserAges ==
    ASSUME IInv, IInv', NEW r \in Requests, CreateUser(r)
    PROVE  Ages
<1>1. r \in Verifications /\ r \notin events
  BY SetFacts DEF CreateUser, IInv, RequestOK, PathOK, PendingOK
<1>2. clock' = clock /\ clock \in Nat
  BY DEF CreateUser, IInv, TypeOK
<1>3. CASE UNCHANGED tables
  BY <1>2, <1>3, NothingWritten
<1>4. CASE /\ verifications' = [verifications EXCEPT ![r] = NewVerification(r, local[r].now)]
           /\ events' = events \cup {r}
  <2>1. \A v \in events : verifications'[v] = verifications[v]
    BY <1>1, <1>4 DEF IInv, TypeOK
  <2> QED BY <1>1, <1>2, <1>4, <2>1 DEF Ages
<1> QED BY <1>3, <1>4 DEF CreateUser

LEMMA ConfirmAges ==
    ASSUME IInv, IInv', NEW r \in Requests, Confirm(r)
    PROVE  Ages
<1>1. clock' = clock /\ clock \in Nat
  BY DEF Confirm, IInv, TypeOK
<1>2. CASE UNCHANGED tables
  BY <1>1, <1>2, NothingWritten
<1>3. CASE /\ verifications' = [verifications EXCEPT ![local[r].token].usedAt = local[r].now]
           /\ UNCHANGED events
  <2>1. local[r].now # None /\ local[r].token \in Verifications
    BY SetFacts DEF Confirm, IInv, RequestOK, MemoryOK, TypeOK
  <2>2. ASSUME NEW v \in Verifications
        PROVE  /\ verifications[v].usedAt # None => verifications'[v].usedAt # None
               /\ verifications'[v].revokedAt = verifications[v].revokedAt
               /\ verifications'[v].createdAt = verifications[v].createdAt
               /\ verifications'[v].expiresAt = verifications[v].expiresAt
    BY <1>3, <2>1 DEF IInv, TypeOK
  <2> QED BY <1>1, <1>3, <2>2 DEF Ages, IInv, TypeOK
<1> QED BY <1>2, <1>3 DEF Confirm

LEMMA IssueAges ==
    ASSUME IInv, IInv', NEW r \in Requests, Issue(r)
    PROVE  Ages
<1>1. r \in Verifications /\ r \notin events /\ local[r].now # None
  BY SetFacts DEF Issue, IInv, RequestOK, PathOK, PendingOK, TypeOK, Verifications
<1>2. clock' = clock /\ clock \in Nat /\ events' = events \cup {r}
  BY DEF Issue, IInv, TypeOK
<1>3. ASSUME NEW v \in events
      PROVE  /\ verifications[v].usedAt # None => verifications'[v].usedAt # None
             /\ verifications[v].revokedAt # None => verifications'[v].revokedAt # None
             /\ verifications'[v].createdAt = verifications[v].createdAt
             /\ verifications'[v].expiresAt = verifications[v].expiresAt
  <2>1. v \in Verifications /\ v # r
    BY <1>1 DEF IInv, TypeOK
  <2>2. verifications[v] \in [user : Users \cup {None}, createdAt : Time, expiresAt : Time,
                              usedAt : Time, revokedAt : Time]
    BY <2>1 DEF IInv, TypeOK
  <2>3. \/ verifications'[v] = verifications[v]
        \/ verifications'[v] = [verifications[v] EXCEPT !.revokedAt = local[r].now]
    BY <2>1 DEF Issue
  <2> QED BY <1>1, <2>2, <2>3
<1> QED BY <1>1, <1>2, <1>3 DEF Ages

LEMMA StepAges ==
    ASSUME IInv, IInv', NEW r \in Requests, Step(r) \/ Abort(r)
    PROVE  Ages
<1>1. ASSUME Reads(r) PROVE Ages
  BY <1>1, ReadersWriteNothing, NothingWritten
<1> QED BY <1>1, CreateUserAges, ConfirmAges, IssueAges DEF Step, Reads

\* A link that is dead stays dead.
LEMMA DeadStays ==
    ASSUME IInv, IInv', Ages, NEW v \in Verifications, Dead(v)
    PROVE  v \in events /\ Dead(v)'
<1>1. v \in events
  BY DEF Dead, IInv, Rows, NoVerification
<1>2. verifications[v].createdAt # None /\ verifications[v].expiresAt \in Nat
  BY <1>1, VerificationAssumption DEF IInv, Rows
<1> QED BY <1>1, <1>2 DEF Ages, Dead

LEMMA CreatedIsInserted ==
    ASSUME IInv, NEW v \in Verifications
    PROVE  verifications[v].createdAt # None <=> v \in events
  BY SetFacts DEF IInv, Rows, NoVerification

LEMMA CreatedIsInsertedNext ==
    ASSUME IInv', NEW v \in Verifications
    PROVE  verifications'[v].createdAt # None <=> v \in events'
  BY SetFacts DEF IInv, Rows, NoVerification

-----------------------------------------------------------------------------
(* The queue and the count of mails.                                       *)

Statuses == {"absent", "waiting", "running", "processed", "failed"}

QueueType ==
    /\ status \in [Verifications -> Statuses]
    /\ attempts \in [Verifications -> Nat]

LEMMA QueueMoves ==
    ASSUME QueueType, NEW v \in Verifications, NEW from \in Statuses, NEW to \in Statuses,
           Queue!Become(v, from, to), Queue!CountAttempt(v) \/ UNCHANGED attempts
    PROVE  /\ QueueType'
           /\ status[v] = from /\ status'[v] = to
           /\ \A w \in Verifications : w # v => status'[w] = status[w]
  BY DEF QueueType, Queue!Become, Queue!CountAttempt

\* The bound on the mails of v survives a step that sends none and lets no other worker be
\* late, unless it unsettles the event without a fault.
LEMMA MailsKept ==
    ASSUME NEW v \in Verifications, JoinedTypeOK, MailsOK(v), Late(v)' \subseteq Late(v),
           mails'[v] = mails[v], faults' \in Nat, faults <= faults',
           (Settled(v) /\ ~Settled(v)') => faults < faults'
    PROVE  MailsOK(v)'
<1>1. IsFiniteSet(Late(v))
  BY DEF MailsOK
<1>2. IsFiniteSet(Late(v)') /\ Cardinality(Late(v)') <= Cardinality(Late(v))
  BY <1>1, FS_Subset
<1>3. Cardinality(Late(v)') \in Nat /\ Cardinality(Late(v)) \in Nat
  BY <1>1, <1>2, FS_CardinalityType
<1>4. mails[v] \in Nat /\ faults \in Nat
  BY DeliveryAssumption DEF JoinedTypeOK
<1>5. mails[v] + Cardinality(Late(v)) <= faults + (IF Settled(v) THEN 1 ELSE 0)
  BY DEF MailsOK
<1>6. mails'[v] + Cardinality(Late(v)') <= faults' + (IF Settled(v)' THEN 1 ELSE 0)
  BY <1>2, <1>3, <1>4, <1>5
<1> QED BY <1>2, <1>6 DEF MailsOK

\* A worker that is not late any more has paid for a mail or gives its turn back.
LEMMA OneLess ==
    ASSUME NEW v \in Verifications, JoinedTypeOK, MailsOK(v),
           NEW d \in Late(v), Late(v)' = Late(v) \ {d},
           mails'[v] \in Nat, mails'[v] <= mails[v] + 1, faults' = faults, Settled(v) => Settled(v)'
    PROVE  MailsOK(v)'
<1>1. IsFiniteSet(Late(v))
  BY DEF MailsOK
<1>2. IsFiniteSet(Late(v)') /\ Cardinality(Late(v)') = Cardinality(Late(v)) - 1
  BY <1>1, FS_RemoveElement
<1>3. Cardinality(Late(v)') \in Nat /\ Cardinality(Late(v)) \in Nat
  BY <1>1, <1>2, FS_CardinalityType
<1>4. mails[v] \in Nat /\ faults \in Nat
  BY DeliveryAssumption DEF JoinedTypeOK
<1>5. mails[v] + Cardinality(Late(v)) <= faults + (IF Settled(v) THEN 1 ELSE 0)
  BY DEF MailsOK
<1>6. mails'[v] + Cardinality(Late(v)') <= faults' + (IF Settled(v)' THEN 1 ELSE 0)
  BY <1>2, <1>3, <1>4, <1>5
<1> QED BY <1>2, <1>6 DEF MailsOK

\* The worker that is overtaken becomes late, by a fault.
LEMMA OneMore ==
    ASSUME NEW v \in Verifications, JoinedTypeOK, MailsOK(v),
           NEW d, Late(v)' \subseteq Late(v) \cup {d},
           mails'[v] = mails[v], faults' = faults + 1, ~Settled(v)
    PROVE  MailsOK(v)'
<1>1. IsFiniteSet(Late(v))
  BY DEF MailsOK
<1>2. Cardinality(Late(v)) \in Nat
  BY <1>1, FS_CardinalityType
<1>3. /\ IsFiniteSet(Late(v) \cup {d})
      /\ Cardinality(Late(v) \cup {d}) =
            IF d \in Late(v) THEN Cardinality(Late(v)) ELSE Cardinality(Late(v)) + 1
  BY <1>1, FS_AddElement
<1>4. IsFiniteSet(Late(v)') /\ Cardinality(Late(v)') <= Cardinality(Late(v) \cup {d})
  BY <1>3, FS_Subset
<1>5. Cardinality(Late(v)') \in Nat /\ Cardinality(Late(v)') <= Cardinality(Late(v)) + 1
  BY <1>2, <1>3, <1>4, FS_CardinalityType
<1>6. mails[v] \in Nat /\ faults \in Nat
  BY DeliveryAssumption DEF JoinedTypeOK
<1>7. mails[v] + Cardinality(Late(v)) <= faults
  BY <1>2, <1>6 DEF MailsOK
<1>8. mails'[v] + Cardinality(Late(v)') <= faults' + (IF Settled(v)' THEN 1 ELSE 0)
  BY <1>2, <1>5, <1>6, <1>7
<1> QED BY <1>4, <1>8 DEF MailsOK

-----------------------------------------------------------------------------
(* The server.                                                             *)

LEMMA ServeQuiet ==
    ASSUME JInv, Serve
    PROVE  /\ IInv' /\ Ages /\ mailed' = mailed
           /\ \A d \in Deliveries : pc'[d] = pc[d] /\ local'[d] = local[d] /\ reply'[d] = reply[d]
<1>1. CASE ArriveAtServer
  <2>1. IInv'
    BY <1>1, StartRegisterKeeps, StartResendKeeps, StartConfirmKeeps
       DEF JInv, ArriveAtServer
  <2>2. UNCHANGED <<clock, tables, mailed, reply>>
    BY <1>1 DEF ArriveAtServer, StartRegister, StartResend, StartConfirm
  <2>3. Ages
    BY <2>1, <2>2, NothingWritten DEF JInv
  <2>4. ASSUME NEW r \in Verifications \cup Confirmations, NEW label, NEW new, Goto(r, label),
               local' = [local EXCEPT ![r] = new]
        PROVE  \A d \in Deliveries : pc'[d] = pc[d] /\ local'[d] = local[d]
    BY <2>4, VerificationAssumption DEF Goto, JInv, IInv, TypeOK, Requests
  <2>5. \A d \in Deliveries : pc'[d] = pc[d] /\ local'[d] = local[d]
    BY <1>1, <2>4 DEF ArriveAtServer, StartRegister, StartResend, StartConfirm, Verifications
  <2> QED BY <2>1, <2>2, <2>3, <2>5
<1>2. ASSUME NEW r \in Requests \ Deliveries, Step(r) \/ Abort(r)
      PROVE  /\ IInv' /\ Ages /\ mailed' = mailed
             /\ \A d \in Deliveries :
                   pc'[d] = pc[d] /\ local'[d] = local[d] /\ reply'[d] = reply[d]
  <2>1. IInv'
    BY <1>2, NextIInv DEF JInv, Next
  <2>2. Ages
    BY <1>2, <2>1, StepAges DEF JInv
  <2>3. Elsewhere(r)
    BY <1>2, StepElsewhere DEF JInv, IInv
  <2>4. ~SendVerification(r)
    BY <1>2 DEF SendVerification, JInv, IInv, RequestOK, PathOK
  <2>5. mailed' = mailed
    BY <1>2, <2>4 DEF Step, CreateUser, LookupToken, LockUser, Confirm, LockEmail, CheckLimits,
       Issue, GetForDelivery, Abort
  <2> QED BY <1>2, <2>1, <2>2, <2>3, <2>5, SetFacts DEF Elsewhere
<1>3. CASE Tick
  BY <1>3, TickKeeps, NothingWritten DEF JInv, Tick
<1> QED BY <1>1, <1>2, <1>3 DEF Serve

LEMMA ServeKeeps ==
    ASSUME JInv, Serve
    PROVE  JInv'
<1>1. /\ IInv' /\ Ages /\ mailed' = mailed
      /\ \A d \in Deliveries : pc'[d] = pc[d] /\ local'[d] = local[d] /\ reply'[d] = reply[d]
  BY ServeQuiet
<1>2. UNCHANGED <<holder, mails, faults>> /\ AddEvent
  BY DEF Serve, delivery
<1>3. /\ QueueType'
      /\ \A v \in Verifications :
            \/ status'[v] = status[v] /\ (v \in events' <=> v \in events)
            \/ status[v] = "absent" /\ status'[v] = "waiting" /\ v \in events'
  <2>1. QueueType
    BY DEF JInv, JoinedTypeOK, QueueType, Statuses
  <2>2. CASE events' = events
    BY <1>2, <2>1, <2>2 DEF AddEvent, queue, QueueType
  <2>3. CASE events' # events
    <3>1. PICK r \in Verifications : r \notin events /\ events' = events \cup {r}
      BY <1>1, <2>3 DEF Ages
    <3>2. Queue!Become(r, "absent", "waiting") /\ UNCHANGED attempts
      BY <1>2, <2>3, <3>1 DEF AddEvent, Queue!Add
    <3>3. /\ QueueType' /\ status[r] = "absent" /\ status'[r] = "waiting"
          /\ \A w \in Verifications : w # r => status'[w] = status[w]
      BY <2>1, <3>2, QueueMoves DEF Statuses
    <3> QED BY <3>1, <3>3
  <2> QED BY <2>2, <2>3
<1>4. JoinedTypeOK'
  <2>1. \A v \in Verifications : status'[v] # "absent" <=> verifications'[v].createdAt # None
    BY <1>1, <1>3, CreatedIsInserted, CreatedIsInsertedNext DEF JInv, JoinedTypeOK
  <2>2. ASSUME NEW v \in Verifications, holder'[v] # None
        PROVE  /\ status'[v] = "running" /\ local'[holder'[v]].token = v
               /\ pc'[holder'[v]] # "idle"
    <3>1. holder[v] \in Deliveries
      BY <1>2, <2>2 DEF JInv, JoinedTypeOK
    <3> QED BY <1>1, <1>2, <1>3, <2>2, <3>1 DEF JInv, JoinedTypeOK
  <2> QED BY <1>2, <1>3, <2>1, <2>2 DEF JInv, JoinedTypeOK, QueueType, Statuses
<1>5. ASSUME NEW d \in Deliveries PROVE HandlerOK(d)'
  <2>1. /\ HandlerOK(d) /\ d \in Requests
        /\ pc[d] # "idle" => local[d].token \in events /\ local[d].token \in Verifications
    BY SetFacts DEF JInv, HandlerOK, IInv, TypeOK
  <2>2. pc[d] # "idle" => local[d].token \in events'
    BY <1>1, <2>1 DEF Ages
  <2>3. pc[d] = "send" => local[d].expiresAt = verifications'[local[d].token].expiresAt
    BY <1>1, <2>1 DEF Ages, HandlerOK
  <2>4. (pc[d] = "done" /\ reply[d] = "ok") =>
           local[d].token \in mailed' \/ Dead(local[d].token)'
    BY <1>1, <2>1, DeadStays DEF HandlerOK, JInv
  <2>5. (pc'[d] = "done" /\ reply'[d] = "ok") =>
           local'[d].token \in mailed' \/ Dead(local[d].token)'
    BY <1>1, <2>4
  <2>6. local'[d] = local[d] /\ pc'[d] = pc[d]
    BY <1>1
  <2> QED BY <1>1, <2>1, <2>2, <2>3, <2>5, <2>6 DEF HandlerOK, Dead
<1>6. ProcessedIsDelivered'
  <2> SUFFICES ASSUME NEW v \in Verifications, status'[v] = "processed"
               PROVE  v \in mailed' \/ Dead(v)'
    BY DEF ProcessedIsDelivered
  <2>1. v \in mailed \/ Dead(v)
    BY <1>3 DEF JInv, ProcessedIsDelivered
  <2> QED BY <1>1, <2>1, DeadStays DEF JInv
<1>7. ASSUME NEW v \in Verifications PROVE MailsOK(v)'
  <2>1. Late(v)' = Late(v)
    BY <1>1, <1>2 DEF Late
  <2>2. Settled(v) => Settled(v)'
    <3>1. holder[v] # None => holder[v] \in Deliveries
      BY DEF JInv, JoinedTypeOK
    <3> QED BY <1>1, <1>2, <1>3, <3>1 DEF Settled
  <2>3. faults \in Nat
    BY DeliveryAssumption DEF JInv, JoinedTypeOK
  <2> QED BY <1>2, <2>1, <2>2, <2>3, MailsKept DEF JInv
<1> QED BY <1>1, <1>4, <1>5, <1>6, <1>7 DEF JInv

-----------------------------------------------------------------------------
(* The workers.                                                            *)

\* A worker that has nothing to do with an event is neither its holder nor late.
LEMMA IdleIsNeither ==
    ASSUME JInv, NEW d \in Deliveries, pc[d] = "idle", NEW v \in Verifications
    PROVE  holder[v] # d /\ d \notin Late(v)
  BY SetFacts DEF JInv, JoinedTypeOK, Late

LEMMA HolderIsAtWork ==
    ASSUME JInv, NEW v \in Verifications, holder[v] # None
    PROVE  /\ holder[v] \in Deliveries /\ status[v] = "running"
           /\ local[holder[v]].token = v /\ pc[holder[v]] # "idle"
  BY DEF JInv, JoinedTypeOK

\* What an attempt does to the worker that makes it.
LEMMA Starts ==
    ASSUME JInv, NEW d \in Deliveries, NEW v \in events, StartDelivery(d, v)
    PROVE  /\ IInv' /\ UNCHANGED <<clock, tables, mailed>>
           /\ pc[d] = "idle" /\ pc'[d] = "getForDelivery" /\ local'[d].token = v
           /\ \A q \in Deliveries : q # d =>
                 pc'[q] = pc[q] /\ local'[q] = local[q] /\ reply'[q] = reply[q]
           /\ \A q \in Deliveries : HandlerOK(q)'
<1>1. IInv'
  BY StartDeliveryKeeps DEF JInv
<1>2. UNCHANGED <<clock, tables, mailed, reply>> /\ pc[d] = "idle"
  BY DEF StartDelivery
<1>3. /\ pc' = [pc EXCEPT ![d] = "getForDelivery"]
      /\ local' = [local EXCEPT ![d].token = v]
      /\ pc \in [Requests -> Labels] /\ d \in Requests
      /\ local \in [Requests -> Locals]
  BY SetFacts, TypeParts DEF StartDelivery, Goto, JInv, IInv, ControlType
<1>4. pc'[d] = "getForDelivery" /\ local'[d].token = v
  BY <1>3 DEF Locals
<1>5. \A q \in Deliveries : q # d =>
         pc'[q] = pc[q] /\ local'[q] = local[q] /\ reply'[q] = reply[q]
  BY <1>2, <1>3, SetFacts
<1>6. ASSUME NEW q \in Deliveries PROVE HandlerOK(q)'
  <2>1. CASE q = d  BY <1>2, <1>4, <2>1 DEF HandlerOK, tables
  <2>2. CASE q # d  BY <1>2, <1>5, <2>2 DEF JInv, HandlerOK, Dead, tables
  <2> QED BY <2>1, <2>2
<1> QED BY <1>1, <1>2, <1>4, <1>5, <1>6

LEMMA AttemptType ==
    ASSUME JInv, NEW v \in Verifications, AttemptOrTakeOver(v) \/ Queue!TakeOver(v)
    PROVE  /\ QueueType' /\ status'[v] = "running" /\ status[v] \in {"waiting", "running"}
           /\ \A w \in Verifications : w # v => status'[w] = status[w]
<1>1. QueueType
  BY DEF JInv, JoinedTypeOK, QueueType, Statuses
<1>2. CASE Queue!Attempt(v)
  <2>1. Queue!Become(v, "waiting", "running") /\ Queue!CountAttempt(v)
    BY <1>2 DEF Queue!Attempt
  <2> QED BY <1>1, <2>1, QueueMoves DEF Statuses
<1>3. CASE Queue!TakeOver(v)
  <2>1. Queue!Become(v, "running", "running") /\ Queue!CountAttempt(v)
    BY <1>3 DEF Queue!TakeOver
  <2> QED BY <1>1, <2>1, QueueMoves DEF Statuses
<1> QED BY <1>2, <1>3 DEF AttemptOrTakeOver

\* What every attempt keeps, the one that begins and the one that takes over.
LEMMA AttemptKeeps ==
    ASSUME JInv, NEW d \in Deliveries, NEW v \in events, v \in Verifications,
           StartDelivery(d, v), AttemptOrTakeOver(v) \/ Queue!TakeOver(v), Hold(d, v),
           mails' = mails, faults' \in 0..MaxFaults, faults <= faults',
           MailsOK(v)'
    PROVE  JInv'
<1>1. /\ IInv' /\ UNCHANGED <<clock, tables, mailed>>
      /\ pc[d] = "idle" /\ pc'[d] = "getForDelivery" /\ local'[d].token = v
      /\ \A q \in Deliveries : q # d =>
            pc'[q] = pc[q] /\ local'[q] = local[q] /\ reply'[q] = reply[q]
      /\ \A q \in Deliveries : HandlerOK(q)'
  BY Starts
<1>2. /\ QueueType' /\ status'[v] = "running" /\ status[v] \in {"waiting", "running"}
      /\ \A w \in Verifications : w # v => status'[w] = status[w]
  BY AttemptType
<1>3. /\ holder' \in [Verifications -> Deliveries \cup {None}] /\ holder'[v] = d
      /\ \A w \in Verifications : w # v => holder'[w] = holder[w]
  BY DEF JInv, JoinedTypeOK, Hold
<1>4. JoinedTypeOK'
  <2>1. \A w \in Verifications : status'[w] # "absent" <=> verifications'[w].createdAt # None
    <3>1. verifications' = verifications
      BY <1>1 DEF tables
    <3> QED BY <1>2, <3>1 DEF JInv, JoinedTypeOK
  <2>2. ASSUME NEW w \in Verifications, holder'[w] # None
        PROVE  /\ status'[w] = "running" /\ local'[holder'[w]].token = w
               /\ pc'[holder'[w]] # "idle"
    <3>1. CASE w = v  BY <1>1, <1>2, <1>3, <3>1
    <3>2. CASE w # v
      <4>1. holder'[w] = holder[w] /\ holder[w] # d
        BY <1>1, <1>3, <3>2, IdleIsNeither
      <4> QED BY <1>1, <1>2, <2>2, <3>2, <4>1, HolderIsAtWork
    <3> QED BY <3>1, <3>2
  <2> QED BY <1>2, <1>3, <2>1, <2>2 DEF JInv, JoinedTypeOK, QueueType, Statuses
<1>5. ProcessedIsDelivered'
  BY <1>1, <1>2 DEF JInv, ProcessedIsDelivered, Dead, tables
<1>6. ASSUME NEW w \in Verifications PROVE MailsOK(w)'
  <2>1. CASE w = v  BY <2>1
  <2>2. CASE w # v
    <3>1. d \notin Late(w) /\ holder[w] # d
      BY <1>1, IdleIsNeither
    <3>2. Late(w)' = Late(w)
      BY <1>1, <1>3, <2>2, <3>1 DEF Late
    <3>3. Settled(w) => Settled(w)'
      BY <1>1, <1>2, <1>3, <2>2, <3>1, HolderIsAtWork DEF Settled
    <3>4. faults' \in Nat
      BY DeliveryAssumption
    <3> QED BY <3>2, <3>3, <3>4, MailsKept DEF JInv
  <2> QED BY <2>1, <2>2
<1> QED BY <1>1, <1>4, <1>5, <1>6 DEF JInv

LEMMA BeginKeeps ==
    ASSUME JInv, NEW d \in Deliveries, NEW v \in events, Begin(d, v)
    PROVE  JInv'
<1>1. v \in Verifications
  BY DEF JInv, IInv, TypeOK
<1>2. /\ StartDelivery(d, v) /\ AttemptOrTakeOver(v) /\ Hold(d, v)
      /\ UNCHANGED <<mails, faults>>
  BY DEF Begin
<1>3. MailsOK(v)'
  <2>1. /\ pc[d] = "idle" /\ pc'[d] = "getForDelivery"
        /\ \A q \in Deliveries : q # d =>
              pc'[q] = pc[q] /\ local'[q] = local[q] /\ reply'[q] = reply[q]
    BY <1>2, Starts
  <2>2. holder[v] = None /\ status[v] \in {"waiting", "running"}
    <3>1. CASE Queue!Attempt(v)
      <4>1. status[v] = "waiting"
        BY <3>1 DEF Queue!Attempt, Queue!Become
      <4> QED BY <1>1, <4>1, HolderIsAtWork
    <3>2. CASE Orphaned(v)
      BY <3>2 DEF Orphaned
    <3> QED BY <1>2, <3>1, <3>2 DEF AttemptOrTakeOver
  <2>3. holder'[v] = d
    BY <1>1, <1>2 DEF JInv, JoinedTypeOK, Hold
  <2>4. Late(v)' \subseteq Late(v)
    BY <2>1, <2>2, <2>3, SetFacts DEF Late
  <2>5. ~Settled(v)
    BY <2>2 DEF Settled
  <2>6. faults \in Nat
    BY DeliveryAssumption DEF JInv, JoinedTypeOK
  <2> QED BY <1>1, <1>2, <2>4, <2>5, <2>6, MailsKept DEF JInv
<1>4. faults' \in 0..MaxFaults /\ faults <= faults'
  BY <1>2, DeliveryAssumption DEF JInv, JoinedTypeOK
<1> QED BY <1>1, <1>2, <1>3, <1>4, AttemptKeeps

LEMMA OverrunKeeps ==
    ASSUME JInv, NEW d \in Deliveries, NEW v \in events, Overrun(d, v)
    PROVE  JInv'
<1>1. v \in Verifications
  BY DEF JInv, IInv, TypeOK
<1>2. /\ StartDelivery(d, v) /\ Queue!TakeOver(v) /\ Hold(d, v) /\ mails' = mails
      /\ faults' = faults + 1 /\ holder[v] # None /\ faults < MaxFaults /\ faults \in Nat
  BY DeliveryAssumption DEF Overrun, JInv, JoinedTypeOK
<1>3. MailsOK(v)'
  <2> DEFINE old == holder[v]
  <2>1. /\ pc[d] = "idle" /\ pc'[d] = "getForDelivery"
        /\ \A q \in Deliveries : q # d =>
              pc'[q] = pc[q] /\ local'[q] = local[q] /\ reply'[q] = reply[q]
    BY <1>2, Starts
  <2>2. /\ old \in Deliveries /\ old # d /\ status[v] = "running"
    BY <1>1, <1>2, <2>1, HolderIsAtWork
  <2>3. holder'[v] = d
    BY <1>1, <1>2 DEF JInv, JoinedTypeOK, Hold
  <2>4. Late(v)' \subseteq Late(v) \cup {old}
    BY <2>1, <2>3 DEF Late
  <2>5. CASE Settled(v)
    <3>1. pc[old] = "done"
      BY <2>2, <2>5 DEF Settled
    <3>2. Late(v)' \subseteq Late(v)
      BY <2>1, <2>2, <2>4, <3>1 DEF Late
    <3> QED BY <1>1, <1>2, <3>2, MailsKept DEF JInv
  <2>6. CASE ~Settled(v)
    BY <1>1, <1>2, <2>4, <2>6, OneMore DEF JInv
  <2> QED BY <2>5, <2>6
<1>4. faults' \in 0..MaxFaults /\ faults <= faults'
  BY <1>2, DeliveryAssumption
<1> QED BY <1>1, <1>2, <1>3, <1>4, AttemptKeeps

\* What a call of the handler does to the rest.
LEMMA HandlerStep ==
    ASSUME JInv, NEW d \in Deliveries, GetForDelivery(d) \/ SendVerification(d) \/ Abort(d)
    PROVE  /\ IInv' /\ UNCHANGED <<clock, tables>> /\ mailed \subseteq mailed'
           /\ \A q \in Deliveries : q # d =>
                 pc'[q] = pc[q] /\ local'[q] = local[q] /\ reply'[q] = reply[q]
           /\ local'[d].token = local[d].token /\ local[d].token \in events
           /\ pc[d] # "idle" /\ pc'[d] # "idle"
<1>1. d \in Requests /\ (Step(d) \/ Abort(d))
  BY SetFacts DEF Step
<1>2. IInv'
  BY <1>1, NextIInv, SetFacts DEF JInv, Next
<1>3. UNCHANGED <<clock, tables>> /\ mailed \subseteq mailed'
  BY DEF GetForDelivery, SendVerification, Abort, tables
<1>4. Elsewhere(d)
  BY <1>1, StepElsewhere, SetFacts DEF JInv, IInv
<1>5. pc[d] # "idle"
  BY DEF GetForDelivery, SendVerification, Abort
<1>6. local \in [Requests -> Locals] /\ pc \in [Requests -> Labels] /\ d \in Requests
  BY SetFacts, TypeParts DEF JInv, IInv, ControlType
<1>7. local'[d].token = local[d].token /\ pc'[d] # "idle"
  <2>1. ASSUME NEW answer, Return(d, answer)
        PROVE  local'[d].token = local[d].token /\ pc'[d] # "idle"
    <3>1. [Blank EXCEPT !.token = local[d].token].token = local[d].token
      BY DEF Blank
    <3> QED BY <1>6, <2>1, <3>1 DEF Return, Goto
  <2>2. ASSUME NEW x, local' = [local EXCEPT ![d].expiresAt = x], Goto(d, "send")
        PROVE  local'[d].token = local[d].token /\ pc'[d] # "idle"
    BY <1>6, <2>2 DEF Goto, Locals
  <2> QED BY <2>1, <2>2 DEF GetForDelivery, SendVerification, Abort
<1> QED BY <1>2, <1>3, <1>4, <1>5, <1>7, SetFacts DEF Elsewhere, JInv, HandlerOK

\* What a call of the handler keeps, given what its answer means and what it mailed.
LEMMA HandlerKeeps ==
    ASSUME JInv, NEW d \in Deliveries, GetForDelivery(d) \/ SendVerification(d) \/ Abort(d),
           UNCHANGED <<queue, holder, faults>>,
           HandlerOK(d)', mails' \in [Verifications -> Nat],
           \A v \in Verifications : v # local[d].token => mails'[v] = mails[v],
           \A v \in Verifications : v = local[d].token => MailsOK(v)'
    PROVE  JInv'
<1>1. /\ IInv' /\ UNCHANGED <<clock, tables>> /\ mailed \subseteq mailed'
      /\ \A q \in Deliveries : q # d =>
            pc'[q] = pc[q] /\ local'[q] = local[q] /\ reply'[q] = reply[q]
      /\ local'[d].token = local[d].token /\ local[d].token \in Verifications
      /\ pc[d] # "idle" /\ pc'[d] # "idle"
  BY HandlerStep DEF JInv, IInv, TypeOK
<1>2. UNCHANGED <<status, attempts, holder, faults, clock, verifications, events>>
  BY <1>1 DEF queue, tables
<1>3. JoinedTypeOK'
  <2>1. ASSUME NEW w \in Verifications, holder[w] # None
        PROVE  status[w] = "running" /\ local'[holder[w]].token = w /\ pc'[holder[w]] # "idle"
    BY <1>1, <2>1, HolderIsAtWork
  <2> QED BY <1>2, <2>1 DEF JInv, JoinedTypeOK
<1>4. ASSUME NEW q \in Deliveries PROVE HandlerOK(q)'
  <2>1. CASE q = d  BY <2>1
  <2>2. CASE q # d
    BY <1>1, <1>2, <2>2 DEF JInv, HandlerOK, Dead
  <2> QED BY <2>1, <2>2
<1>5. ProcessedIsDelivered'
  BY <1>1, <1>2 DEF JInv, ProcessedIsDelivered, Dead
<1>6. ASSUME NEW w \in Verifications PROVE MailsOK(w)'
  <2>1. CASE w = local[d].token  BY <2>1
  <2>2. CASE w # local[d].token
    <3>1. Late(w)' = Late(w)
      BY <1>1, <1>2, <2>2 DEF Late
    <3>2. Settled(w) => Settled(w)'
      BY <1>1, <1>2, <2>2, HolderIsAtWork DEF Settled
    <3>3. faults' \in Nat /\ faults <= faults'
      BY <1>2, DeliveryAssumption DEF JInv, JoinedTypeOK
    <3> QED BY <2>2, <3>1, <3>2, <3>3, MailsKept DEF JInv
  <2> QED BY <2>1, <2>2
<1> QED BY <1>1, <1>3, <1>4, <1>5, <1>6 DEF JInv

\* A worker that leaves the handler: the holder settles the event when it succeeds, another
\* one is not late any more.  Either may have sent the mail.
LEMMA LeavesKeeps ==
    ASSUME JInv, NEW d \in Deliveries, NEW v \in Verifications, local[d].token = v,
           pc[d] \in {"getForDelivery", "send"}, pc'[d] = "done",
           \A q \in Deliveries : q # d =>
              pc'[q] = pc[q] /\ local'[q] = local[q] /\ reply'[q] = reply[q],
           UNCHANGED <<queue, holder, faults>>,
           mails'[v] = mails[v] \/ (mails'[v] = mails[v] + 1 /\ reply'[d] = "ok")
    PROVE  MailsOK(v)'
<1>1. faults \in Nat /\ mails[v] \in Nat /\ MailsOK(v)
  BY DeliveryAssumption DEF JInv, JoinedTypeOK
<1>2. CASE holder[v] = d
  <2>1. ~Settled(v) /\ Late(v)' \subseteq Late(v)
    <3>1. holder[v] # None
      BY <1>2, SetFacts
    <3>2. status[v] = "running"
      BY <3>1, HolderIsAtWork
    <3> QED BY <1>2, <3>2 DEF Settled, Late
  <2>2. CASE mails'[v] = mails[v]
    BY <1>1, <2>1, <2>2, MailsKept DEF JInv
  <2>3. CASE mails'[v] = mails[v] + 1 /\ reply'[d] = "ok"
    <3>1. Settled(v)'
      BY <1>2, <2>3, SetFacts DEF Settled
    <3>2. IsFiniteSet(Late(v)) /\ mails[v] + Cardinality(Late(v)) <= faults
      BY <1>1, <2>1, FS_CardinalityType DEF MailsOK
    <3>3. IsFiniteSet(Late(v)') /\ Cardinality(Late(v)') <= Cardinality(Late(v))
      BY <2>1, <3>2, FS_Subset
    <3>4. Cardinality(Late(v)') \in Nat /\ Cardinality(Late(v)) \in Nat
      BY <3>2, <3>3, FS_CardinalityType
    <3>5. mails'[v] + Cardinality(Late(v)') <= faults' + 1
      BY <1>1, <2>3, <3>2, <3>3, <3>4
    <3> QED BY <3>1, <3>3, <3>5 DEF MailsOK
  <2> QED BY <2>2, <2>3
<1>3. CASE holder[v] # d
  <2>1. d \in Late(v) /\ Late(v)' = Late(v) \ {d}
    BY <1>3 DEF Late
  <2>2. Settled(v) => Settled(v)'
    BY <1>3, HolderIsAtWork DEF Settled, queue
  <2> QED BY <1>1, <2>1, <2>2, OneLess DEF JInv
<1> QED BY <1>2, <1>3

LEMMA HandlerFailsKeeps ==
    ASSUME JInv, NEW d \in Deliveries, HandlerFails(d)
    PROVE  JInv'
<1>1. Abort(d) /\ UNCHANGED <<queue, holder, mails, faults>> /\ d \in Requests
  BY SetFacts DEF HandlerFails, delivery
<1>2. /\ UNCHANGED <<clock, tables>>
      /\ \A q \in Deliveries : q # d =>
            pc'[q] = pc[q] /\ local'[q] = local[q] /\ reply'[q] = reply[q]
      /\ local'[d].token = local[d].token /\ local[d].token \in events
      /\ local[d].token \in Verifications
  BY <1>1, HandlerStep DEF JInv, IInv, TypeOK
<1>3. pc'[d] = "done" /\ reply'[d] = "failed" /\ pc[d] \in {"getForDelivery", "send"}
  BY <1>1 DEF Abort, Return, Goto, JInv, IInv, TypeOK, HandlerOK
<1>4. HandlerOK(d)'
  BY <1>2, <1>3 DEF HandlerOK, tables
<1>5. \A v \in Verifications : v = local[d].token => MailsOK(v)'
  BY <1>1, <1>2, <1>3, LeavesKeeps
<1>6. mails' \in [Verifications -> Nat]
  BY <1>1 DEF JInv, JoinedTypeOK
<1> QED BY <1>1, <1>4, <1>5, <1>6, HandlerKeeps

LEMMA HandleKeeps ==
    ASSUME JInv, NEW d \in Deliveries, Handle(d)
    PROVE  JInv'
<1> DEFINE v == local[d].token
<1>1. /\ d \in Requests /\ UNCHANGED <<queue, holder, faults>>
      /\ mails' = IF Sends(d) THEN [mails EXCEPT ![v] = @ + 1] ELSE mails
  BY SetFacts DEF Handle
<1>2. GetForDelivery(d) \/ SendVerification(d)
  BY DEF Handle, Step, CreateUser, LookupToken, LockUser, Confirm, LockEmail, CheckLimits,
     Issue, JInv, HandlerOK
<1>3. /\ UNCHANGED <<clock, tables>>
      /\ \A q \in Deliveries : q # d =>
            pc'[q] = pc[q] /\ local'[q] = local[q] /\ reply'[q] = reply[q]
      /\ local'[d].token = v /\ v \in events /\ v \in Verifications
  BY <1>2, HandlerStep DEF JInv, IInv, TypeOK
<1>4. mails \in [Verifications -> Nat] /\ faults \in Nat
  BY DeliveryAssumption DEF JInv, JoinedTypeOK
<1>5. mails' \in [Verifications -> Nat] /\ \A w \in Verifications : w # v => mails'[w] = mails[w]
  BY <1>1, <1>3, <1>4
<1>6. UNCHANGED verifications /\ UNCHANGED events /\ UNCHANGED clock
  BY <1>3 DEF tables
<1>7. TypeOK
  BY DEF JInv, IInv
<1>8. ASSUME Return(d, "ok") PROVE pc'[d] = "done" /\ reply'[d] = "ok"
  BY <1>1, <1>7, <1>8 DEF Return, Goto, TypeOK
<1>9. CASE GetForDelivery(d)
  <2>1. pc[d] = "getForDelivery" /\ mails' = mails
    BY <1>1, <1>9 DEF GetForDelivery, Sends
  <2>2. CASE /\ verifications[v].usedAt # None \/ verifications[v].revokedAt # None
             /\ Return(d, "ok")
    <3>1. pc'[d] = "done" /\ reply'[d] = "ok"
      BY <1>8, <2>2
    <3>2. HandlerOK(d)'
      BY <1>3, <1>6, <2>2, <3>1 DEF HandlerOK, Dead
    <3>3. \A w \in Verifications : w = v => MailsOK(w)'
      BY <1>1, <1>3, <2>1, <3>1, LeavesKeeps
    <3> QED BY <1>1, <1>5, <1>9, <3>2, <3>3, HandlerKeeps
  <2>3. CASE /\ local' = [local EXCEPT ![d].expiresAt = verifications[v].expiresAt]
             /\ Goto(d, "send") /\ UNCHANGED reply
    <3>1. pc'[d] = "send" /\ local'[d].expiresAt = verifications[v].expiresAt
      BY <1>1, <1>7, <2>3 DEF Goto, TypeOK
    <3>2. HandlerOK(d)'
      BY <1>3, <1>6, <3>1 DEF HandlerOK
    <3>3. ASSUME NEW w \in Verifications, w = v PROVE MailsOK(w)'
      <4>1. Late(w)' = Late(w)
        BY <1>1, <1>3, <2>1, <3>1, <3>3 DEF Late
      <4>2. Settled(w) => Settled(w)'
        BY <1>1, <1>3, <2>1, <3>1, HolderIsAtWork DEF Settled, queue
      <4> QED BY <1>1, <1>4, <2>1, <4>1, <4>2, MailsKept DEF JInv
    <3> QED BY <1>1, <1>5, <1>9, <3>2, <3>3, HandlerKeeps
  <2> QED BY <1>9, <2>2, <2>3 DEF GetForDelivery
<1>10. CASE SendVerification(d)
  <2>1. /\ pc[d] = "send" /\ Return(d, "ok") /\ HandlerOK(d)
        /\ mailed' = IF Sends(d) THEN mailed \cup {v} ELSE mailed
    BY <1>10 DEF SendVerification, JInv
  <2>2. pc'[d] = "done" /\ reply'[d] = "ok"
    BY <1>8, <2>1
  <2>3. v \in mailed' \/ (verifications[v].createdAt # None /\ clock >= verifications[v].expiresAt)
    <3>1. /\ verifications[v].createdAt # None /\ verifications[v].expiresAt \in Nat
          /\ clock \in Nat
      BY <1>3, VerificationAssumption DEF JInv, IInv, Rows, TypeOK
    <3>2. local[d].expiresAt = verifications[v].expiresAt
      BY <2>1 DEF HandlerOK
    <3> QED BY <2>1, <3>1, <3>2 DEF Sends
  <2>4. HandlerOK(d)'
    BY <1>3, <1>6, <2>2, <2>3 DEF HandlerOK, Dead
  <2>5. mails'[v] = mails[v] \/ mails'[v] = mails[v] + 1
    BY <1>1, <1>3, <1>4
  <2>6. \A w \in Verifications : w = v => MailsOK(w)'
    BY <1>1, <1>3, <2>1, <2>2, <2>5, LeavesKeeps
  <2> QED BY <1>1, <1>5, <1>10, <2>4, <2>6, HandlerKeeps
<1> QED BY <1>2, <1>9, <1>10

\* A worker begins anew, after its attempt or after its death.
LEMMA BeginsAnew ==
    ASSUME JInv, NEW d \in Deliveries, Goto(d, "idle"), local' = Begun(d),
           reply' = [reply EXCEPT ![d] = None], UNCHANGED <<clock, tables, userLock, mailed>>
    PROVE  /\ IInv' /\ pc'[d] = "idle"
           /\ \A q \in Deliveries : q # d =>
                 pc'[q] = pc[q] /\ local'[q] = local[q] /\ reply'[q] = reply[q]
           /\ \A q \in Deliveries : HandlerOK(q)'
<1>1. /\ d \in Requests /\ pc \in [Requests -> Labels] /\ local \in [Requests -> Locals]
      /\ reply \in [Requests -> Answers \cup {None}] /\ TypeOK
  BY SetFacts, TypeParts DEF JInv, IInv, ControlType
<1>2. Blank \in Locals /\ Blank.now = 0
  BY DEF Blank, Locals, Time
<1>3. ControlType' /\ Frame(d) /\ pc'[d] = "idle" /\ local'[d] = Blank
  BY <1>1, <1>2 DEF Goto, Begun, ControlType, Frame, Labels
<1>4. pc[d] \notin Holding /\ pc'[d] \notin Holding
  BY <1>3 DEF Holding, JInv, HandlerOK
<1>5. LockType' /\ LockOK'
  BY <1>1, <1>3, <1>4, LockStays
<1>6. RequestOK(d)'
  <2>1. d \notin Registrations /\ d \notin events
    BY VerificationAssumption DEF JInv, IInv, TypeOK, Verifications
  <2> QED BY <1>1, <1>2, <1>3, <2>1 DEF RequestOK, PathOK, PendingOK, MemoryOK, LocksOK, TypeOK, tables
<1>7. IInv'
  BY <1>1, <1>3, <1>5, <1>6, QuietMove DEF JInv
<1>8. \A q \in Deliveries : q # d =>
         pc'[q] = pc[q] /\ local'[q] = local[q] /\ reply'[q] = reply[q]
  BY <1>1, <1>3, SetFacts DEF Frame
<1>9. ASSUME NEW q \in Deliveries PROVE HandlerOK(q)'
  <2>1. CASE q = d  BY <1>3, <2>1 DEF HandlerOK
  <2>2. CASE q # d  BY <1>8, <2>2 DEF JInv, HandlerOK, Dead, tables
  <2> QED BY <2>1, <2>2
<1> QED BY <1>3, <1>7, <1>8, <1>9

\* The verdict on an event: it counts as processed when the handler said it was, it is put
\* back only when the handler said it was not.
LEMMA RecordKeeps ==
    ASSUME JInv, NEW d \in Deliveries, Record(d)
    PROVE  JInv'
<1> SUFFICES ASSUME NEW v, v = local[d].token PROVE JInv'
  OBVIOUS
<1>1. /\ pc[d] = "done" /\ Goto(d, "idle") /\ local' = Begun(d)
      /\ reply' = [reply EXCEPT ![d] = None]
      /\ UNCHANGED <<clock, tables, userLock, mailed, mails, faults>>
  BY DEF Record
<1>2. /\ IInv' /\ pc'[d] = "idle"
      /\ \A q \in Deliveries : q # d =>
            pc'[q] = pc[q] /\ local'[q] = local[q] /\ reply'[q] = reply[q]
      /\ \A q \in Deliveries : HandlerOK(q)'
  BY <1>1, BeginsAnew
<1>3. v \in events /\ v \in Verifications /\ HandlerOK(d)
  BY <1>1 DEF JInv, HandlerOK, IInv, TypeOK
<1>4. \A w \in Verifications : holder[w] = d => w = v
  BY SetFacts DEF JInv, JoinedTypeOK
<1>5. UNCHANGED <<verifications, clock, events>>
  BY <1>1 DEF tables
<1>6. QueueType /\ holder \in [Verifications -> Deliveries \cup {None}]
  BY DEF JInv, JoinedTypeOK, QueueType, Statuses
<1>7. /\ QueueType'
      /\ holder' \in [Verifications -> Deliveries \cup {None}]
      /\ \A w \in Verifications : holder'[w] = IF holder[w] = d THEN None ELSE holder[w]
      /\ \A w \in Verifications : w # v \/ holder[v] # d => status'[w] = status[w]
      /\ holder[v] = d =>
            /\ status[v] = "running"
            /\ \/ status'[v] = "processed" /\ reply[d] = "ok"
               \/ status'[v] = "failed"
               \/ status'[v] = "waiting" /\ reply[d] # "ok"
  <2>1. CASE holder[v] # d /\ UNCHANGED <<queue, holder>>
    BY <1>4, <1>6, <2>1 DEF queue, QueueType
  <2>2. CASE /\ holder[v] = d
             /\ holder' = [holder EXCEPT ![v] = None]
             /\ \/ Verdict(d) = "Finish" /\ Queue!Finish(v)
                \/ Verdict(d) = "Fail" /\ Queue!Fail(v)
                \/ Verdict(d) = "PutBack" /\ Queue!PutBack(v)
    <3>1. /\ holder' \in [Verifications -> Deliveries \cup {None}]
          /\ \A w \in Verifications : holder'[w] = IF holder[w] = d THEN None ELSE holder[w]
      BY <1>3, <1>4, <1>6, <2>2
    <3>2. CASE Verdict(d) = "Finish" /\ Queue!Finish(v)
      <4>1. reply[d] = "ok"
        BY <3>2 DEF Verdict
      <4>2. Queue!Become(v, "running", "processed") /\ UNCHANGED attempts
        BY <3>2 DEF Queue!Finish
      <4>3. /\ QueueType' /\ status[v] = "running" /\ status'[v] = "processed"
            /\ \A w \in Verifications : w # v => status'[w] = status[w]
        BY <1>3, <1>6, <4>2, QueueMoves DEF Statuses
      <4> QED BY <2>2, <3>1, <4>1, <4>3
    <3>3. CASE Verdict(d) = "Fail" /\ Queue!Fail(v)
      <4>1. Queue!Become(v, "running", "failed") /\ UNCHANGED attempts
        BY <3>3 DEF Queue!Fail
      <4>2. /\ QueueType' /\ status[v] = "running" /\ status'[v] = "failed"
            /\ \A w \in Verifications : w # v => status'[w] = status[w]
        BY <1>3, <1>6, <4>1, QueueMoves DEF Statuses
      <4> QED BY <2>2, <3>1, <4>2
    <3>4. CASE Verdict(d) = "PutBack" /\ Queue!PutBack(v)
      <4>1. reply[d] # "ok"
        BY <3>4 DEF Verdict
      <4>2. Queue!Become(v, "running", "waiting") /\ UNCHANGED attempts
        BY <3>4 DEF Queue!PutBack
      <4>3. /\ QueueType' /\ status[v] = "running" /\ status'[v] = "waiting"
            /\ \A w \in Verifications : w # v => status'[w] = status[w]
        BY <1>3, <1>6, <4>2, QueueMoves DEF Statuses
      <4> QED BY <2>2, <3>1, <4>1, <4>3
    <3> QED BY <2>2, <3>2, <3>3, <3>4
  <2> QED BY <2>1, <2>2 DEF Record
<1>8. JoinedTypeOK'
  <2>1. \A w \in Verifications : status'[w] # "absent" <=> verifications'[w].createdAt # None
    BY <1>5, <1>7 DEF JInv, JoinedTypeOK
  <2>2. ASSUME NEW w \in Verifications, holder'[w] # None
        PROVE  /\ status'[w] = "running" /\ local'[holder'[w]].token = w
               /\ pc'[holder'[w]] # "idle"
    <3>1. holder'[w] = holder[w] /\ holder[w] # d /\ holder[w] # None
      BY <1>7, <2>2
    <3>2. status'[w] = status[w]
      BY <1>7, <3>1
    <3> QED BY <1>2, <3>1, <3>2, HolderIsAtWork
  <2> QED BY <1>1, <1>7, <2>1, <2>2 DEF JInv, JoinedTypeOK, QueueType, Statuses
<1>9. ProcessedIsDelivered'
  <2> SUFFICES ASSUME NEW w \in Verifications, status'[w] = "processed"
               PROVE  w \in mailed \/ Dead(w)
    BY <1>1, <1>5 DEF ProcessedIsDelivered, Dead
  <2>1. CASE status[w] = "processed"
    BY <2>1 DEF JInv, ProcessedIsDelivered
  <2>2. CASE status[w] # "processed"
    <3>1. w = v /\ reply[d] = "ok"
      BY <1>7, <2>2
    <3> QED BY <1>1, <1>3, <3>1 DEF HandlerOK
  <2> QED BY <2>1, <2>2
<1>10. ASSUME NEW w \in Verifications PROVE MailsOK(w)'
  <2>1. Late(w)' \subseteq Late(w)
    BY <1>1, <1>2, <1>7 DEF Late
  <2>2. Settled(w) => Settled(w)'
    <3>1. CASE holder[w] = d
      BY <1>1, <1>4, <1>7, <3>1, SetFacts DEF Settled
    <3>2. CASE holder[w] # d
      <4>1. status'[w] = status[w] /\ holder'[w] = holder[w]
        BY <1>7, <3>2
      <4> QED BY <1>2, <3>2, <4>1, HolderIsAtWork DEF Settled
    <3> QED BY <3>1, <3>2
  <2>3. faults \in Nat
    BY DeliveryAssumption DEF JInv, JoinedTypeOK
  <2> QED BY <1>1, <2>1, <2>2, <2>3, MailsKept DEF JInv
<1> QED BY <1>2, <1>8, <1>9, <1>10 DEF JInv

LEMMA DieKeeps ==
    ASSUME JInv, NEW d \in Deliveries, Die(d)
    PROVE  JInv'
<1>1. /\ faults < MaxFaults /\ faults' = faults + 1
      /\ Goto(d, "idle") /\ local' = Begun(d) /\ reply' = [reply EXCEPT ![d] = None]
      /\ holder' = [v \in Verifications |-> IF holder[v] = d THEN None ELSE holder[v]]
      /\ UNCHANGED <<clock, tables, userLock, mailed, queue, mails>>
  BY DEF Die
<1>2. /\ IInv' /\ pc'[d] = "idle"
      /\ \A q \in Deliveries : q # d =>
            pc'[q] = pc[q] /\ local'[q] = local[q] /\ reply'[q] = reply[q]
      /\ \A q \in Deliveries : HandlerOK(q)'
  BY <1>1, BeginsAnew
<1>3. UNCHANGED <<verifications, clock, events, status, attempts, mails, mailed>>
  BY <1>1 DEF tables, queue
<1>4. faults \in Nat /\ faults' \in 0..MaxFaults
  BY <1>1, DeliveryAssumption DEF JInv, JoinedTypeOK
<1>5. holder' \in [Verifications -> Deliveries \cup {None}]
  BY <1>1 DEF JInv, JoinedTypeOK
<1>6. JoinedTypeOK'
  <2>1. ASSUME NEW w \in Verifications, holder'[w] # None
        PROVE  /\ status'[w] = "running" /\ local'[holder'[w]].token = w
               /\ pc'[holder'[w]] # "idle"
    <3>1. holder'[w] = holder[w] /\ holder[w] # d /\ holder[w] # None
      BY <1>1, <2>1
    <3> QED BY <1>2, <1>3, <3>1, HolderIsAtWork
  <2> QED BY <1>3, <1>4, <1>5, <2>1 DEF JInv, JoinedTypeOK
<1>7. ProcessedIsDelivered'
  BY <1>3 DEF JInv, ProcessedIsDelivered, Dead
<1>8. ASSUME NEW w \in Verifications PROVE MailsOK(w)'
  <2>1. Late(w)' \subseteq Late(w)
    BY <1>1, <1>2, SetFacts DEF Late
  <2> QED BY <1>1, <1>3, <1>4, <2>1, MailsKept DEF JInv
<1> QED BY <1>2, <1>6, <1>7, <1>8 DEF JInv

-----------------------------------------------------------------------------
(* The theorems.                                                           *)

LEMMA InitJInv == JoinedInit => JInv
<1> SUFFICES ASSUME JoinedInit PROVE JInv
  OBVIOUS
<1>1. IInv
  BY InitIInv DEF JoinedInit
<1>2. /\ \A v \in Verifications :
            /\ status[v] = "absent" /\ attempts[v] = 0 /\ holder[v] = None /\ mails[v] = 0
            /\ verifications[v].createdAt = None
      /\ \A d \in Deliveries : pc[d] = "idle"
  BY SetFacts DEF JoinedInit, Init, Queue!Init, NoVerification
<1>3. JoinedTypeOK
  BY <1>2, DeliveryAssumption DEF JoinedInit, Queue!Init, JoinedTypeOK
<1>4. ASSUME NEW v \in Verifications PROVE MailsOK(v)
  <2>1. Late(v) = {}
    BY <1>2 DEF Late
  <2>2. IsFiniteSet(Late(v)) /\ Cardinality(Late(v)) = 0
    BY <2>1, FS_EmptySet
  <2> QED BY <1>2, <2>2 DEF MailsOK, JoinedInit
<1> QED BY <1>1, <1>2, <1>3, <1>4 DEF JInv, HandlerOK, ProcessedIsDelivered

LEMMA NextJInv == JInv /\ [JoinedNext]_joinedVars => JInv'
<1> SUFFICES ASSUME JInv, [JoinedNext]_joinedVars PROVE JInv'
  OBVIOUS
<1>1. CASE Serve
  BY <1>1, ServeKeeps
<1>2. CASE Deliver
  BY <1>2, BeginKeeps, OverrunKeeps, HandleKeeps, HandlerFailsKeeps, RecordKeeps, DieKeeps
     DEF Deliver
<1>3. CASE UNCHANGED joinedVars
  <2>1. IInv'
    BY <1>3, NextIInv DEF JInv, joinedVars
  <2>2. UNCHANGED <<clock, users, verifications, events, userLock, mailed, pc, local, reply,
                    status, attempts, holder, mails, faults>>
    BY <1>3 DEF joinedVars, vars, queue, delivery
  <2>3. JoinedTypeOK' /\ ProcessedIsDelivered'
    BY <2>2 DEF JInv, JoinedTypeOK, ProcessedIsDelivered, Dead
  <2>4. \A d \in Deliveries : HandlerOK(d)'
    BY <2>2 DEF JInv, HandlerOK, Dead
  <2>5. ASSUME NEW v \in Verifications PROVE MailsOK(v)'
    <3>1. Late(v)' = Late(v) /\ (Settled(v)' <=> Settled(v))
      BY <2>2 DEF Late, Settled
    <3> QED BY <2>2, <3>1 DEF JInv, MailsOK
  <2> QED BY <2>1, <2>3, <2>4, <2>5 DEF JInv
<1> QED BY <1>1, <1>2, <1>3 DEF JoinedNext

\* The joined invariant holds in every reachable state, and so does the invariant of the
\* server: workers that die, overrun and begin anew take nothing from it.
THEOREM JoinedInvariance == JoinedSpec => []JInv
<1>1. JoinedInit => JInv
  BY InitJInv
<1>2. JInv /\ [JoinedNext]_joinedVars => JInv'
  BY NextJInv
<1> QED BY <1>1, <1>2, PTL DEF JoinedSpec

\* An event is in the queue exactly when its verification is in the table, and only a
\* worker that is at work on it holds it.
THEOREM JoinedTypeCorrect == JoinedSpec => []JoinedTypeOK
<1>1. JInv => JoinedTypeOK
  BY DEF JInv
<1> QED BY <1>1, JoinedInvariance, PTL

\* No event is processed while the user still waits for a link that would work: a nil of
\* the handler means that the mail was sent or was pointless.
THEOREM ProcessedMeansDelivered == JoinedSpec => []ProcessedIsDelivered
<1>1. JInv => ProcessedIsDelivered
  BY DEF JInv
<1> QED BY <1>1, JoinedInvariance, PTL

\* Each mail of a verification after the first is owed to a worker that died or overran its
\* lease, for any number of workers and of attempts.
THEOREM MailsAreBounded == JoinedSpec => []OneMailPerFault
<1>1. JInv => OneMailPerFault
  <2> SUFFICES ASSUME JInv, NEW v \in Verifications PROVE mails[v] <= 1 + faults
    BY DEF OneMailPerFault
  <2>1. mails[v] \in Nat /\ faults \in Nat /\ MailsOK(v)
    BY DeliveryAssumption DEF JInv, JoinedTypeOK
  <2>2. Cardinality(Late(v)) \in Nat
    BY <2>1, FS_CardinalityType DEF MailsOK
  <2>3. mails[v] + Cardinality(Late(v)) <= faults + (IF Settled(v) THEN 1 ELSE 0)
    BY <2>1 DEF MailsOK
  <2> QED BY <2>1, <2>2, <2>3
<1> QED BY <1>1, JoinedInvariance, PTL
=============================================================================
