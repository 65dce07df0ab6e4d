------------------------------- MODULE Outbox -------------------------------
(***************************************************************************)
(* The workers of internal/outbox/processor.go over the statements of      *)
(* postgres/outbox_repository.go.                                          *)
(*                                                                         *)
(* A worker claims an event for the length of a lease, hands it to the     *)
(* handler and records the outcome; the record is refused when another     *)
(* worker has taken the event over in between.  Workers stop, statements   *)
(* fail and answers are lost at every point.                               *)
(*                                                                         *)
(* A lock ID is fresh for every claim.  Every claim of an event counts one *)
(* attempt, so a claim's lock ID is named by the number of its attempt.    *)
(***************************************************************************)
EXTENDS Integers

CONSTANTS
    Events,         \* events that transactions may insert
    Workers,        \* processes that run a Processor
    None,           \* SQL NULL, no event
    LockLease,      \* lockLease
    WorkTimeout,    \* workTimeout
    MaxAttempts,    \* maxAttempts
    RetryDelays,    \* what retryDelay may return, for each number of attempts
    MaxTime         \* bound: the clock stops here

ASSUME OutboxAssumption ==
    /\ None \notin Events \cup Nat
    /\ LockLease \in Nat \ {0}
    /\ WorkTimeout \in Nat \ {0}
    /\ MaxAttempts \in Nat \ {0}
    /\ RetryDelays \in [1..MaxAttempts -> SUBSET Nat]
    /\ MaxTime \in Nat

VARIABLES
    clock,      \* what now() returns in every process
    rows,       \* table outbox_events
    handled,    \* attempts, as <<event, number>>, whose handler returned nil
    pc,         \* what a worker executes next
    local       \* the local variables of its processOne

vars == <<clock, rows, handled, pc, local>>

-----------------------------------------------------------------------------
NoRow == [createdAt |-> None, availableAt |-> None, lockedAt |-> None, lockId |-> None,
          processed |-> FALSE, failed |-> FALSE, attempts |-> 0]

Blank == [now      |-> 0,        \* now when ClaimNext was called
          event    |-> None,     \* event.ID
          attempts |-> 0,        \* event.Attempts, and the name of lockID
          deadline |-> 0,        \* when workCtx expires
          mark     |-> None,     \* the repository call that records the outcome
          retryAt  |-> 0]        \* retryAt

Rows   == [createdAt : Nat \cup {None}, availableAt : Nat \cup {None},
           lockedAt : Nat \cup {None}, lockId : Nat \cup {None},
           processed : BOOLEAN, failed : BOOLEAN, attempts : Nat]

Labels   == {"idle", "claim", "begin", "handle", "mark"}
Outcomes == {"nil", "retryable", "nonRetryable"}
Marks    == {"MarkProcessed", "ScheduleRetry", "MarkFailed"}

Locals == [now : Nat, event : Events \cup {None}, attempts : Nat, deadline : Nat,
           mark : Marks \cup {None}, retryAt : Nat]

Init ==
    /\ clock = 0
    /\ rows = [e \in Events |-> NoRow]
    /\ handled = {}
    /\ pc = [w \in Workers |-> "idle"]
    /\ local = [w \in Workers |-> Blank]

Goto(w, label) == pc' = [pc EXCEPT ![w] = label]

\* processOne returns; Run calls it again when its timer fires.
Return(w) ==
    /\ Goto(w, "idle")
    /\ local' = [local EXCEPT ![w] = Blank]

Inserted(e) == rows[e].createdAt # None

\* A transaction inserts an event; its time was sampled before the transaction began.
Insert(e) ==
    /\ ~Inserted(e)
    /\ \E t \in 0..clock :
          rows' = [rows EXCEPT ![e] = [NoRow EXCEPT !.createdAt = t, !.availableAt = t]]
    /\ UNCHANGED <<clock, handled, pc, local>>

-----------------------------------------------------------------------------
(* processOne.                                                             *)

StartPoll(w) ==
    /\ pc[w] = "idle"
    /\ Goto(w, "claim")
    /\ local' = [local EXCEPT ![w].now = clock]
    /\ UNCHANGED <<clock, rows, handled>>

\* Not (locked_at IS NULL OR locked_at < now - lockLease).
\* (Faulty variants: the lock is ignored; a lock lasts until it is released.)
NeverLeased(row, now) == FALSE
LeasedForever(row, now) == row.lockedAt # None
Leased(row, now) == row.lockedAt # None /\ row.lockedAt >= now - LockLease

Claimable(e, now) ==
    /\ Inserted(e)
    /\ ~rows[e].processed
    /\ ~rows[e].failed
    /\ rows[e].availableAt <= now
    /\ ~Leased(rows[e], now)

\* ORDER BY available_at, created_at.
Before(e, f) ==
    \/ rows[e].availableAt < rows[f].availableAt
    \/ /\ rows[e].availableAt = rows[f].availableAt
       /\ rows[e].createdAt < rows[f].createdAt

\* SKIP LOCKED: a statement of another worker may hold the row at that moment.
MayBeSkipped(e, w) ==
    \E v \in Workers \ {w} : \/ pc[v] = "claim" /\ Claimable(e, local[v].now)
                             \/ pc[v] = "mark" /\ local[v].event = e

\* ClaimNext, with a time that may be old when the statement is executed.
Claim(w) ==
    LET now == local[w].now
        candidates == {e \in Events : Claimable(e, now)}
    IN
    /\ pc[w] = "claim"
    /\ \/ /\ \A e \in candidates : MayBeSkipped(e, w)
          /\ Return(w)
          /\ UNCHANGED rows
       \/ \E e \in candidates :
             LET attempt == rows[e].attempts + 1 IN
             /\ \A f \in candidates : Before(f, e) => MayBeSkipped(f, w)
             /\ rows' = [rows EXCEPT ![e] = [@ EXCEPT !.lockedAt = now, !.lockId = attempt,
                                                      !.attempts = attempt]]
             /\ local' = [local EXCEPT ![w] = [@ EXCEPT !.event = e, !.attempts = attempt]]
             /\ Goto(w, "begin")
    /\ UNCHANGED <<clock, handled>>

\* The time of workCtx begins when the answer of ClaimNext is there.
Begin(w) ==
    /\ pc[w] = "begin"
    /\ local' = [local EXCEPT ![w].deadline = clock + WorkTimeout]
    /\ Goto(w, "handle")
    /\ UNCHANGED <<clock, rows, handled>>

\* event.Attempts >= p.maxAttempts.
\* (Faulty variant: one attempt more.)
PastLimit(attempts) == attempts > MaxAttempts
AtLimit(attempts) == attempts >= MaxAttempts

\* Which call records the outcome of an attempt.
MarkOf(outcome, attempts) ==
    IF outcome = "nil" THEN "MarkProcessed" ELSE
    IF outcome = "nonRetryable" \/ AtLimit(attempts) THEN "MarkFailed" ELSE "ScheduleRetry"

\* The handler returns.  The call that records the outcome fails at once when workCtx has
\* expired: then the event stays locked until the lease runs out.
Handle(w) ==
    LET e == local[w].event
        n == local[w].attempts
    IN
    /\ pc[w] = "handle"
    /\ \E outcome \in Outcomes :
          LET mark == MarkOf(outcome, n) IN
          /\ handled' = IF outcome = "nil" THEN handled \cup {<<e, n>>} ELSE handled
          /\ \/ /\ clock >= local[w].deadline
                /\ Return(w)
             \/ /\ clock < local[w].deadline
                /\ \E t \in IF mark = "ScheduleRetry"
                            THEN {clock + d : d \in RetryDelays[n]} ELSE {clock} :
                      local' = [local EXCEPT ![w] = [@ EXCEPT !.mark = mark, !.retryAt = t]]
                /\ Goto(w, "mark")
    /\ UNCHANGED <<clock, rows>>

\* lock_id = $2.
\* (Faulty variant: the row is found by its id alone.)
AnyLease(row, attempt) == TRUE
HoldsLease(row, attempt) == row.lockId = attempt

\* locked_at = NULL, lock_id = NULL.
\* (Faulty variant: locked_at is not reset.)
HalfFreed(row) == [row EXCEPT !.lockId = None]
Freed(row) == [row EXCEPT !.lockedAt = None, !.lockId = None]

\* The UPDATE of the three calls; no row matches when the lease is lost.
Mark(w) ==
    LET e == local[w].event
        row == rows[e]
        mine == HoldsLease(row, local[w].attempts) /\ ~row.processed
    IN
    /\ pc[w] = "mark"
    /\ \/ /\ mine
          /\ \/ /\ local[w].mark = "MarkProcessed"
                /\ rows' = [rows EXCEPT ![e] = [Freed(row) EXCEPT !.processed = TRUE]]
             \/ /\ local[w].mark = "MarkFailed"
                /\ rows' = [rows EXCEPT ![e] = [Freed(row) EXCEPT !.failed = TRUE]]
             \/ /\ local[w].mark = "ScheduleRetry"
                /\ ~row.failed
                /\ rows' = [rows EXCEPT ![e] =
                               [Freed(row) EXCEPT !.availableAt = local[w].retryAt]]
       \/ /\ ~mine \/ (local[w].mark = "ScheduleRetry" /\ row.failed)
          /\ UNCHANGED rows
    /\ Return(w)
    /\ UNCHANGED <<clock, handled>>

\* The process stops, a statement fails, or workCtx expires while it is executed.
GiveUp(w) ==
    /\ pc[w] # "idle"
    /\ Return(w)
    /\ UNCHANGED <<clock, rows, handled>>

-----------------------------------------------------------------------------
Tick ==
    /\ clock < MaxTime
    /\ clock' = clock + 1
    /\ UNCHANGED <<rows, handled, pc, local>>

Step(w) == StartPoll(w) \/ Claim(w) \/ Begin(w) \/ Handle(w) \/ Mark(w)

Next ==
    \/ \E e \in Events : Insert(e)
    \/ \E w \in Workers : Step(w)
    \/ \E w \in Workers : GiveUp(w)
    \/ Tick

Spec == Init /\ [][Next]_vars

-----------------------------------------------------------------------------
(* Properties.                                                             *)

\* Every variable keeps its type; the two columns of a lock are set together (constraint
\* outbox_events_lock_consistency), and a lock is the one of the latest claim.
TypeOK ==
    /\ clock \in Nat
    /\ rows \in [Events -> Rows]
    /\ \A e \in Events :
          /\ rows[e].lockedAt = None <=> rows[e].lockId = None
          /\ rows[e].lockId \in {None, rows[e].attempts}
    /\ handled \subseteq Events \X Nat
    /\ pc \in [Workers -> Labels]
    /\ local \in [Workers -> Locals]

Working(w) == pc[w] \in {"begin", "handle", "mark"}

\* Two workers are at work on one event only when the claim of the second came more than
\* a lease after the first: by the times the two sampled, so also when ClaimNext is
\* executed late.
OverlapOnlyAfterLease ==
    \A v, w \in Workers :
        /\ Working(v)
        /\ Working(w)
        /\ local[v].event = local[w].event
        /\ local[v].attempts < local[w].attempts
        => local[v].now + LockLease < local[w].now

\* What the table says of an event is what its last attempt came to: a processed event was
\* handled by the attempt the row counts, a failed one was not, and no event is both.  The
\* verdict of an attempt that was taken over is refused.
VerdictOfLastAttempt ==
    \A e \in Events :
        LET handledLast == <<e, rows[e].attempts>> \in handled IN
        /\ rows[e].processed => handledLast
        /\ rows[e].failed => ~handledLast

\* A lease is ended by the worker that holds it: no other worker, however late it comes
\* back, frees the event or replaces its outcome.
HolderReleases(e) ==
    rows[e].lockId # None /\ rows'[e].lockId = None =>
        \E w \in Workers : /\ pc[w] = "mark" /\ pc'[w] = "idle"
                           /\ local[w].event = e
                           /\ local[w].attempts = rows[e].lockId

\* No step ends a lease otherwise.
OnlyHolderReleases == [][\A e \in Events : HolderReleases(e)]_vars

\* The abstract queue, with the state of an event read off its row.
StatusOf(row) ==
    IF row.createdAt = None THEN "absent" ELSE
    IF row.processed        THEN "processed" ELSE
    IF row.failed           THEN "failed" ELSE
    IF row.lockId = None    THEN "waiting" ELSE "running"

Queue == INSTANCE OutboxQueue WITH
            status   <- [e \in Events |-> StatusOf(rows[e])],
            attempts <- [e \in Events |-> rows[e].attempts]

\* The workers and the statements implement the queue.  In particular a processed event is
\* never selected again (comment of MarkProcessed in processor.go), and an attempt beyond
\* maxAttempts can only take over from a worker whose lease ran out.
ImplementsQueue == Queue!Spec
=============================================================================
