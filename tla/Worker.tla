------------------------------- MODULE Worker -------------------------------
(***************************************************************************)
(* The life of worker processes: main of cmd/worker/main.go around         *)
(* Processor.Run, with the attempts of module Outbox inside.               *)
(*                                                                         *)
(* A signal ends the context of Run: a ClaimNext under way is cancelled,   *)
(* and may have locked its event all the same.  The handler and the record *)
(* of its outcome run under a context of their own, so an attempt that has *)
(* begun is finished first.                                                *)
(***************************************************************************)
EXTENDS Outbox

VARIABLES
    life,           \* where main of a worker is, and how it has ended
    signalledAt,    \* when its rootContext ended
    claimant,       \* of each event: the worker of its latest attempt
    unrecorded      \* attempts, as <<event, number>>, whose outcome got lost

lives   == <<life, signalledAt, claimant, unrecorded>>
allVars == <<vars, lives>>

Ended == {"orderly", "fatal", "killed"}

WorkerInit ==
    /\ Init
    /\ life = [w \in Workers |-> "starting"]
    /\ signalledAt = [w \in Workers |-> None]
    /\ claimant = [e \in Events |-> None]
    /\ unrecorded = {}

Signalled(w) == signalledAt[w] # None

Become(w, stage) == life' = [life EXCEPT ![w] = stage]

\* The attempt a worker is at, when it goes without a record.
Lost(w) == IF Working(w) THEN unrecorded \cup {<<local[w].event, local[w].attempts>>}
                         ELSE unrecorded

-----------------------------------------------------------------------------
(* main.                                                                   *)

\* The configuration is loaded and the database opened, unless rootContext has ended.
Start(w) ==
    /\ life[w] = "starting"
    /\ \/ ~Signalled(w) /\ Become(w, "running")
       \/ Become(w, "fatal")
    /\ UNCHANGED <<vars, signalledAt, claimant, unrecorded>>

\* A signal before signal.NotifyContext ends the process.
Signal(w) ==
    /\ life[w] \in {"starting", "running"}
    /\ ~Signalled(w)
    /\ \/ signalledAt' = [signalledAt EXCEPT ![w] = clock] /\ UNCHANGED life
       \/ life[w] = "starting" /\ Become(w, "killed") /\ UNCHANGED signalledAt
    /\ UNCHANGED <<vars, claimant, unrecorded>>

\* Run returns from its select; main closes the pool, which nobody uses, and returns.
\* (Faulty variant: main does not wait for the attempt under way.)
AtAnyTime(w) == TRUE
BetweenAttempts(w) == pc[w] = "idle"

RunReturns(w) ==
    /\ life[w] = "running"
    /\ Signalled(w)
    /\ BetweenAttempts(w)
    /\ Become(w, "orderly")
    /\ UNCHANGED <<vars, signalledAt, claimant, unrecorded>>

\* ClaimNext returns context.Canceled, before or after the event was locked.
ClaimCancelled(w) ==
    /\ life[w] = "running"
    /\ Signalled(w)
    /\ pc[w] \in {"claim", "begin"}
    /\ Return(w)
    /\ Become(w, "orderly")
    /\ unrecorded' = Lost(w)
    /\ UNCHANGED <<clock, rows, handled, signalledAt, claimant>>

-----------------------------------------------------------------------------
(* Run.                                                                    *)

\* The select of Run may still prefer the timer; then the context stops ClaimNext before it
\* sends anything, which leaves nothing but the return of Run.
\* (Faulty variant, with AtAnyTime: ClaimNext is called without that context.)
MayPoll(w) == ~Signalled(w)

\* A step of processOne.
Work(w) ==
    /\ life[w] = "running"
    /\ pc[w] = "idle" => MayPoll(w)
    /\ Step(w)
    /\ claimant' = IF pc[w] = "claim" /\ pc'[w] = "begin"
                   THEN [claimant EXCEPT ![local'[w].event] = w] ELSE claimant
    /\ unrecorded' = IF pc[w] = "handle" /\ pc'[w] = "idle" THEN Lost(w) ELSE unrecorded
    /\ UNCHANGED <<life, signalledAt>>

\* A statement fails: processOne returns the error, and Run goes on.
StatementFails(w) ==
    /\ life[w] = "running"
    /\ pc[w] \in {"claim", "begin", "mark"}
    /\ GiveUp(w)
    /\ unrecorded' = Lost(w)
    /\ UNCHANGED <<life, signalledAt, claimant>>

Kill(w) ==
    /\ life[w] = "running"
    /\ Return(w)
    /\ Become(w, "killed")
    /\ unrecorded' = Lost(w)
    /\ UNCHANGED <<clock, rows, handled, signalledAt, claimant>>

-----------------------------------------------------------------------------
\* What happens at once: a call whose context has ended returns, and so does Run.
Due(w) ==
    \/ life[w] \in {"starting", "running"} /\ Signalled(w) /\ pc[w] \in {"idle", "claim", "begin"}
    \/ life[w] = "running" /\ pc[w] \in {"handle", "mark"} /\ clock >= local[w].deadline

Wait ==
    /\ \A w \in Workers : ~Due(w)
    /\ Tick
    /\ UNCHANGED lives

Add == (\E e \in Events : Insert(e)) /\ UNCHANGED lives

WorkerNext ==
    \/ Add
    \/ \E w \in Workers : Start(w) \/ Signal(w) \/ RunReturns(w) \/ ClaimCancelled(w)
    \/ \E w \in Workers : Work(w) \/ StatementFails(w) \/ Kill(w)
    \/ Wait

WorkerSpec == WorkerInit /\ [][WorkerNext]_allVars

-----------------------------------------------------------------------------
(* Properties.                                                             *)

\* An orderly stop costs no event its attempt: what a stopped worker leaves locked, until
\* the lease runs out, is an attempt whose outcome was lost before, by a failed statement,
\* a handler that was too late, or the ClaimNext that the signal broke off.
StopRecordsAttempt ==
    \A e \in Events :
        /\ rows[e].lockId # None
        /\ claimant[e] # None
        /\ life[claimant[e]] = "orderly"
        => <<e, rows[e].lockId>> \in unrecorded

\* A worker is gone at most workTimeout after the signal: it finishes the attempt it is at
\* and begins no other.
StopsInTime ==
    \A w \in Workers :
        life[w] = "running" /\ Signalled(w) => clock <= signalledAt[w] + WorkTimeout
=============================================================================
