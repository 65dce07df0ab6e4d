------------------------ MODULE VerificationDelivery ------------------------
(***************************************************************************)
(* From the request to the mail: the server of EmailVerification and the   *)
(* queue of OutboxQueue, joined where the code joins them.  The            *)
(* transaction that stores a verification adds its event; a worker's       *)
(* attempt is a call of the event handler; the end of the call is the      *)
(* verdict on the event.                                                   *)
(*                                                                         *)
(* The workers are the Deliveries of EmailVerification, which begin anew   *)
(* after each attempt.  What workers and statements do to the queue is the *)
(* business of Outbox, which implements it.                                *)
(***************************************************************************)
EXTENDS EmailVerification

CONSTANTS
    MaxAttempts,    \* attempts after which an event is not put back
    MaxFaults       \* bound: how often a worker dies or overruns its lease

ASSUME DeliveryAssumption == MaxAttempts \in Nat \ {0} /\ MaxFaults \in Nat

VARIABLES
    status,         \* of each event, as in OutboxQueue
    attempts,       \* how often it was attempted
    holder,         \* the worker of its latest attempt, while that is alive
    mails,          \* how often the mail of a verification was sent
    faults          \* deaths and overruns so far

queue      == <<status, attempts>>
delivery   == <<holder, mails, faults>>
joinedVars == <<vars, queue, delivery>>

Queue == INSTANCE OutboxQueue WITH Events <- Verifications

JoinedInit ==
    /\ Init
    /\ Queue!Init
    /\ holder = [v \in Verifications |-> None]
    /\ mails = [v \in Verifications |-> 0]
    /\ faults = 0

-----------------------------------------------------------------------------
(* The server.                                                             *)

\* The event is inserted by the transaction that inserts the verification.
\* (Faulty variant: in a transaction of its own, which fails.)
NeverAdded == UNCHANGED queue
AddEvent ==
    IF events' = events THEN UNCHANGED queue
    ELSE \E v \in events' \ events : Queue!Add(v)

Serve ==
    /\ \/ ArriveAtServer
       \/ \E r \in Requests \ Deliveries : Step(r) \/ Abort(r)
       \/ Tick
    /\ AddEvent
    /\ UNCHANGED delivery

-----------------------------------------------------------------------------
(* The workers.                                                            *)

Orphaned(v) == status[v] = "running" /\ holder[v] = None

Hold(d, v) == holder' = [holder EXCEPT ![v] = d]

\* An attempt at an event that is waiting, or whose worker is gone.
\* (Faulty variant: an event whose worker is gone is left alone.)
OnlyWaiting(v) == Queue!Attempt(v)
AttemptOrTakeOver(v) == Queue!Attempt(v) \/ (Orphaned(v) /\ Queue!TakeOver(v))

Begin(d, v) ==
    /\ StartDelivery(d, v)
    /\ AttemptOrTakeOver(v)
    /\ Hold(d, v)
    /\ UNCHANGED <<mails, faults>>

\* The lease runs out although its worker is still at the event.
Overrun(d, v) ==
    /\ faults < MaxFaults
    /\ faults' = faults + 1
    /\ holder[v] # None
    /\ StartDelivery(d, v)
    /\ Queue!TakeOver(v)
    /\ Hold(d, v)
    /\ UNCHANGED mails

\* The handler of the event; a call of it may fail.
Handle(d) ==
    /\ mails' = IF Sends(d) THEN [mails EXCEPT ![local[d].token] = @ + 1] ELSE mails
    /\ Step(d)
    /\ UNCHANGED <<queue, holder, faults>>

HandlerFails(d) ==
    /\ Abort(d)
    /\ UNCHANGED <<queue, delivery>>

Begun(d) == [local EXCEPT ![d] = Blank]

\* What the queue is told of an attempt.
\* (Faulty variants: an error of the handler is dropped; a success is not recorded.)
ErrorDropped(d) == "Finish"
SuccessDropped(d) == "PutBack"
Verdict(d) ==
    IF reply[d] = "ok" THEN "Finish"
    ELSE IF attempts[local[d].token] >= MaxAttempts THEN "Fail" ELSE "PutBack"

\* The outcome is recorded, unless the event has been taken over.
Record(d) ==
    LET v == local[d].token IN
    /\ d \in Deliveries
    /\ pc[d] = "done"
    /\ \/ /\ holder[v] = d
          /\ \/ Verdict(d) = "Finish" /\ Queue!Finish(v)
             \/ Verdict(d) = "Fail" /\ Queue!Fail(v)
             \/ Verdict(d) = "PutBack" /\ Queue!PutBack(v)
          /\ holder' = [holder EXCEPT ![v] = None]
       \/ /\ holder[v] # d
          /\ UNCHANGED <<queue, holder>>
    /\ Goto(d, "idle")
    /\ local' = Begun(d)
    /\ reply' = [reply EXCEPT ![d] = None]
    /\ UNCHANGED <<clock, tables, userLock, mailed, mails, faults>>

\* The worker dies, or the statement that records the outcome fails.
Die(d) ==
    /\ faults < MaxFaults
    /\ faults' = faults + 1
    /\ pc[d] # "idle"
    /\ Goto(d, "idle")
    /\ local' = Begun(d)
    /\ reply' = [reply EXCEPT ![d] = None]
    /\ holder' = [v \in Verifications |-> IF holder[v] = d THEN None ELSE holder[v]]
    /\ UNCHANGED <<clock, tables, userLock, mailed, queue, mails>>

-----------------------------------------------------------------------------
Deliver ==
    \/ \E d \in Deliveries, v \in events : Begin(d, v) \/ Overrun(d, v)
    \/ \E d \in Deliveries : Handle(d) \/ HandlerFails(d) \/ Record(d) \/ Die(d)

JoinedNext == Serve \/ Deliver

JoinedSpec == JoinedInit /\ [][JoinedNext]_joinedVars

\* Workers poll and their calls return; the lease of a dead worker runs out (see
\* OutboxProgress).
Fairness ==
    /\ \A v \in Verifications : SF_joinedVars(\E d \in Deliveries : Begin(d, v))
    /\ \A d \in Deliveries : WF_joinedVars(Handle(d) \/ Record(d))

FairJoinedSpec == JoinedSpec /\ Fairness

-----------------------------------------------------------------------------
(* Properties.                                                             *)

Dead(v) ==
    \/ verifications[v].usedAt # None
    \/ verifications[v].revokedAt # None
    \/ verifications[v].createdAt # None /\ clock >= verifications[v].expiresAt

\* The types, and the tie of the two components: an event is in the queue exactly when its
\* verification is in the table, and only a worker at work on an event holds it.
JoinedTypeOK ==
    /\ status \in [Verifications -> {"absent", "waiting", "running", "processed", "failed"}]
    /\ attempts \in [Verifications -> Nat]
    /\ holder \in [Verifications -> Deliveries \cup {None}]
    /\ mails \in [Verifications -> Nat]
    /\ faults \in 0..MaxFaults
    /\ \A v \in Verifications :
          /\ status[v] # "absent" <=> verifications[v].createdAt # None
          /\ holder[v] # None =>
                status[v] = "running" /\ local[holder[v]].token = v /\ pc[holder[v]] # "idle"

\* An event counts as processed only when the user has the mail, or the link in it would
\* not work any more.
ProcessedIsDelivered ==
    \A v \in Verifications : status[v] = "processed" => v \in mailed \/ Dead(v)

\* The mail of a verification is sent again only after a fault: however often the handler
\* is tried, a try that reports a failure has sent nothing.
OneMailPerFault == \A v \in Verifications : mails[v] <= 1 + faults

\* A verification that was requested reaches the user, unless it is used, revoked or
\* expires before, or every attempt at its event has failed.
EveryVerificationDelivered ==
    \A v \in Verifications :
        (verifications[v].createdAt # None) ~> (v \in mailed \/ Dead(v) \/ status[v] = "failed")
=============================================================================
