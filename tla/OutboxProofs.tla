---------------------------- MODULE OutboxProofs ----------------------------
(***************************************************************************)
(* Proofs about Outbox and Worker, for any number of events and workers.   *)
(*                                                                         *)
(* The inductive invariant of Outbox ties each worker at work to the row   *)
(* of its event: no two workers make the same attempt, the latest attempt  *)
(* holds the lock as long as its worker has not come back, and every older *)
(* attempt was claimed more than a lease before the row became what it is. *)
(*                                                                         *)
(* Every step of a worker's life is a step of Outbox or none of its steps, *)
(* so whatever is proved of Outbox holds for Worker.  Added to its         *)
(* invariant is who holds each lock, and how far the clock may be from the *)
(* signal.                                                                 *)
(***************************************************************************)
EXTENDS Worker, TLAPS

\* An event before it is inserted, between two attempts, and at work.
RowOK(e) ==
    LET row == rows[e] IN
    /\ ~Inserted(e) => row = NoRow
    /\ Inserted(e) => row.availableAt \in Nat
    /\ row.lockId # None => ~row.processed /\ ~row.failed
    /\ Inserted(e) /\ row.lockId = None /\ ~row.processed /\ ~row.failed
          => row.attempts < MaxAttempts

\* Since when the row is what it is.
Since(row) == IF row.lockId # None THEN row.lockedAt ELSE row.availableAt

\* A worker and the row it works on.
WorkerOK(w) ==
    LET e == local[w].event
        n == local[w].attempts
        row == rows[e]
    IN
    /\ local[w].now <= clock
    /\ Working(w) =>
          /\ e \in Events
          /\ Inserted(e)
          /\ n > 0
          /\ n <= row.attempts
          /\ n = row.attempts => row.lockId = n /\ row.lockedAt = local[w].now
          /\ n < row.attempts /\ ~row.processed /\ ~row.failed
                => local[w].now + LockLease < Since(row)
    /\ pc[w] \in {"begin", "handle"} => <<e, n>> \notin handled
    /\ pc[w] = "mark" =>
          /\ local[w].mark \in Marks
          /\ local[w].mark = "MarkProcessed" <=> <<e, n>> \in handled
          /\ local[w].mark = "ScheduleRetry" => n < MaxAttempts
          /\ local[w].retryAt >= local[w].now

\* Every attempt is made by one worker.
OneWorkerPerAttempt ==
    \A v, w \in Workers :
        /\ Working(v)
        /\ Working(w)
        /\ local[v].event = local[w].event
        /\ local[v].attempts = local[w].attempts
        => v = w

\* Only attempts that were counted have been handled.
HandledWereCounted ==
    \A h \in handled : h[2] > 0 /\ h[2] <= rows[h[1]].attempts

IInv ==
    /\ TypeOK
    /\ \A e \in Events : RowOK(e)
    /\ \A w \in Workers : WorkerOK(w)
    /\ OneWorkerPerAttempt
    /\ HandledWereCounted
    /\ VerdictOfLastAttempt
    /\ OverlapOnlyAfterLease

-----------------------------------------------------------------------------
(* Steps of one worker.                                                    *)

\* Only w moves.
Frame(w) == \A v \in Workers : v # w => pc'[v] = pc[v] /\ local'[v] = local[v]

LEMMA Moves ==
    ASSUME TypeOK, NEW w \in Workers, NEW label \in Labels, Goto(w, label),
           NEW new \in Locals, local' = [local EXCEPT ![w] = new]
    PROVE  /\ pc' \in [Workers -> Labels]
           /\ local' \in [Workers -> Locals]
           /\ Frame(w)
           /\ pc'[w] = label
           /\ local'[w] = new
  BY DEF TypeOK, Goto, Frame

LEMMA BlankType == Blank \in Locals
  BY DEF Blank, Locals

\* The variables of a worker that is not at work are all right whatever the rows are.
LEMMA IdleOK ==
    ASSUME TypeOK, NEW w \in Workers, Return(w), clock' = clock
    PROVE  /\ pc' \in [Workers -> Labels]
           /\ local' \in [Workers -> Locals]
           /\ Frame(w)
           /\ ~Working(w)'
           /\ WorkerOK(w)'
<1>1. /\ pc' \in [Workers -> Labels]
      /\ local' \in [Workers -> Locals]
      /\ Frame(w)
      /\ pc'[w] = "idle"
      /\ local'[w] = Blank
  BY BlankType, Moves DEF Return, Labels
<1>2. clock \in Nat
  BY DEF TypeOK
<1> QED BY <1>1, <1>2 DEF WorkerOK, Working, Blank

\* A step that leaves the rows alone: the worker goes on with its attempt or is done with
\* it, and at most records that it was handled.
LEMMA QuietStep ==
    ASSUME IInv, NEW w \in Workers, Frame(w), UNCHANGED <<clock, rows>>,
           TypeOK', WorkerOK(w)',
           \/ handled' = handled
           \/ /\ pc[w] = "handle"
              /\ handled' = handled \cup {<<local[w].event, local[w].attempts>>},
           Working(w)' => /\ Working(w)
                          /\ local'[w].event = local[w].event
                          /\ local'[w].attempts = local[w].attempts
                          /\ local'[w].now = local[w].now
    PROVE  IInv'
<1> DEFINE own == <<local[w].event, local[w].attempts>>
<1>1. ASSUME NEW h \in handled', h \notin handled
      PROVE  pc[w] = "handle" /\ h = own
  BY <1>1
<1>2. handled \subseteq handled'
  OBVIOUS
<1>3. \A v \in Workers : WorkerOK(v)
  BY DEF IInv
<1>4. pc[w] = "handle" => /\ local[w].event \in Events
                          /\ local[w].attempts > 0
                          /\ local[w].attempts <= rows[local[w].event].attempts
                          /\ own \notin handled
  BY <1>3 DEF WorkerOK, Working
<1>5. ASSUME NEW v \in Workers, v # w, Working(v)
      PROVE  <<local[v].event, local[v].attempts>> \in handled'
                <=> <<local[v].event, local[v].attempts>> \in handled
  <2>1. ASSUME pc[w] = "handle" PROVE <<local[v].event, local[v].attempts>> # own
    <3>1. Working(w)
      BY <2>1 DEF Working
    <3> QED BY <3>1, <1>5 DEF IInv, OneWorkerPerAttempt
  <2> QED BY <2>1, <1>1, <1>2
<1>6. ASSUME NEW v \in Workers PROVE WorkerOK(v)'
  <2>1. CASE v = w  BY <2>1
  <2>2. CASE v # w
    <3>1. pc'[v] = pc[v] /\ local'[v] = local[v] /\ WorkerOK(v)
      BY <2>2, <1>3 DEF Frame
    <3> QED BY <3>1, <2>2, <1>5 DEF WorkerOK, Working, Inserted
  <2> QED BY <2>1, <2>2
<1>7. \A v \in Workers : Working(v)' =>
         /\ Working(v)
         /\ local'[v].event = local[v].event
         /\ local'[v].attempts = local[v].attempts
         /\ local'[v].now = local[v].now
  BY DEF Frame, Working
<1>8. OneWorkerPerAttempt'
  BY <1>7 DEF IInv, OneWorkerPerAttempt
<1>9. OverlapOnlyAfterLease'
  BY <1>7 DEF IInv, OverlapOnlyAfterLease
<1>10. HandledWereCounted'
  BY <1>1, <1>4 DEF IInv, HandledWereCounted
<1>11. VerdictOfLastAttempt'
  <2> SUFFICES ASSUME NEW e \in Events
               PROVE  /\ rows[e].processed => <<e, rows[e].attempts>> \in handled'
                      /\ rows[e].failed => <<e, rows[e].attempts>> \notin handled'
    BY DEF VerdictOfLastAttempt
  <2>1. /\ rows[e].processed => <<e, rows[e].attempts>> \in handled
        /\ rows[e].failed => <<e, rows[e].attempts>> \notin handled
    BY DEF IInv, VerdictOfLastAttempt
  <2>2. ASSUME pc[w] = "handle", <<e, rows[e].attempts>> = own
        PROVE  ~rows[e].failed
    <3>1. local[w].event = e /\ local[w].attempts = rows[e].attempts
      BY <2>2
    <3>2. rows[e].lockId = rows[e].attempts
      BY <3>1, <2>2, <1>3 DEF WorkerOK, Working
    <3>3. rows[e].attempts \in Nat
      BY DEF IInv, TypeOK, Rows
    <3> QED BY <3>2, <3>3, OutboxAssumption DEF IInv, RowOK
  <2> QED BY <2>1, <2>2, <1>1, <1>2
<1>12. \A e \in Events : RowOK(e)'
  BY DEF IInv, RowOK, Inserted
<1> QED BY <1>6, <1>8, <1>9, <1>10, <1>11, <1>12 DEF IInv

-----------------------------------------------------------------------------
(* Each action preserves the invariant.                                    *)

LEMMA StartPollKeeps ==
    ASSUME IInv, NEW w \in Workers, StartPoll(w)
    PROVE  IInv'
<1> DEFINE new == [local[w] EXCEPT !.now = clock]
<1>1. new \in Locals
  BY DEF IInv, TypeOK, Locals
<1>2. local' = [local EXCEPT ![w] = new]
  BY DEF StartPoll, IInv, TypeOK, Locals
<1>3. /\ pc' \in [Workers -> Labels]
      /\ local' \in [Workers -> Locals]
      /\ Frame(w)
      /\ pc'[w] = "claim"
      /\ local'[w] = new
  <2> HIDE DEF new
  <2> QED BY <1>1, <1>2, Moves DEF StartPoll, IInv, Labels
<1>4. UNCHANGED <<clock, rows, handled>>
  BY DEF StartPoll
<1>5. TypeOK'
  BY <1>3, <1>4 DEF IInv, TypeOK
<1>6. ~Working(w)'
  BY <1>3 DEF Working
<1>7. WorkerOK(w)'
  <2>1. local'[w].now = clock' /\ clock' \in Nat
    BY <1>3, <1>4 DEF IInv, TypeOK, Locals
  <2> QED BY <2>1, <1>6, <1>3 DEF WorkerOK, Working
<1> HIDE DEF new
<1> QED BY <1>3, <1>4, <1>5, <1>6, <1>7, QuietStep

\* A worker that returns without a word.
LEMMA ReturnKeeps ==
    ASSUME IInv, NEW w \in Workers, Return(w), UNCHANGED <<clock, rows, handled>>
    PROVE  IInv'
<1>1. /\ pc' \in [Workers -> Labels]
      /\ local' \in [Workers -> Locals]
      /\ Frame(w)
      /\ ~Working(w)'
      /\ WorkerOK(w)'
  BY IdleOK DEF IInv
<1>2. TypeOK'
  BY <1>1 DEF IInv, TypeOK
<1> QED BY <1>1, <1>2, QuietStep

LEMMA GiveUpKeeps ==
    ASSUME IInv, NEW w \in Workers, GiveUp(w)
    PROVE  IInv'
  BY ReturnKeeps DEF GiveUp

LEMMA BeginKeeps ==
    ASSUME IInv, NEW w \in Workers, Begin(w)
    PROVE  IInv'
<1> DEFINE new == [local[w] EXCEPT !.deadline = clock + WorkTimeout]
<1>1. new \in Locals
  <2>1. clock + WorkTimeout \in Nat
    BY OutboxAssumption DEF IInv, TypeOK
  <2> QED BY <2>1 DEF IInv, TypeOK, Locals
<1>2. local' = [local EXCEPT ![w] = new]
  BY DEF Begin, IInv, TypeOK, Locals
<1>3. /\ pc' \in [Workers -> Labels]
      /\ local' \in [Workers -> Locals]
      /\ Frame(w)
      /\ pc'[w] = "handle"
      /\ local'[w] = new
  <2> HIDE DEF new
  <2> QED BY <1>1, <1>2, Moves DEF Begin, IInv, Labels
<1>4. UNCHANGED <<clock, rows, handled>> /\ pc[w] = "begin"
  BY DEF Begin
<1>5. TypeOK'
  BY <1>3, <1>4 DEF IInv, TypeOK
<1>6. /\ local'[w].event = local[w].event
      /\ local'[w].attempts = local[w].attempts
      /\ local'[w].now = local[w].now
  BY <1>3 DEF IInv, TypeOK, Locals
<1>7. WorkerOK(w)'
  <2>1. WorkerOK(w)
    BY DEF IInv
  <2> QED BY <2>1, <1>3, <1>4, <1>6 DEF WorkerOK, Working, Inserted
<1>8. Working(w)
  BY <1>4 DEF Working
<1> HIDE DEF new
<1> QED BY <1>3, <1>4, <1>5, <1>6, <1>7, <1>8, QuietStep

LEMMA HandleKeeps ==
    ASSUME IInv, NEW w \in Workers, Handle(w)
    PROVE  IInv'
<1> DEFINE e == local[w].event
           n == local[w].attempts
<1>1. PICK outcome \in Outcomes :
         /\ handled' = IF outcome = "nil" THEN handled \cup {<<e, n>>} ELSE handled
         /\ \/ /\ clock >= local[w].deadline
               /\ Return(w)
            \/ /\ clock < local[w].deadline
               /\ \E t \in IF MarkOf(outcome, n) = "ScheduleRetry"
                           THEN {clock + d : d \in RetryDelays[n]} ELSE {clock} :
                     local' = [local EXCEPT ![w] =
                                 [@ EXCEPT !.mark = MarkOf(outcome, n), !.retryAt = t]]
               /\ Goto(w, "mark")
  BY DEF Handle
<1>2. pc[w] = "handle" /\ UNCHANGED <<clock, rows>>
  BY DEF Handle
<1>3. WorkerOK(w) /\ Working(w)
  BY <1>2 DEF IInv, Working
<1>4. /\ e \in Events /\ n \in Nat /\ n > 0 /\ n <= rows[e].attempts
      /\ local[w].now \in Nat /\ clock \in Nat /\ local[w].now <= clock
      /\ <<e, n>> \notin handled
  BY <1>2, <1>3 DEF WorkerOK, IInv, TypeOK, Locals
<1>5. handled' \subseteq Events \X Nat
  <2>1. <<e, n>> \in Events \X Nat
    BY <1>4
  <2>2. handled \subseteq Events \X Nat
    BY DEF IInv, TypeOK
  <2> QED BY <2>1, <2>2, <1>1
<1>6. handled' = handled \/ handled' = handled \cup {<<e, n>>}
  BY <1>1
<1>7. CASE Return(w)
  <2>1. /\ pc' \in [Workers -> Labels]
        /\ local' \in [Workers -> Locals]
        /\ Frame(w)
        /\ ~Working(w)'
        /\ WorkerOK(w)'
    BY <1>2, <1>7, IdleOK DEF IInv
  <2>2. TypeOK'
    BY <2>1, <1>2, <1>5 DEF IInv, TypeOK
  <2> QED BY <2>1, <2>2, <1>2, <1>6, QuietStep
<1>8. CASE ~Return(w)
  <2> DEFINE mark == MarkOf(outcome, n)
  <2>1. PICK t \in IF mark = "ScheduleRetry" THEN {clock + d : d \in RetryDelays[n]} ELSE {clock} :
           local' = [local EXCEPT ![w] = [@ EXCEPT !.mark = mark, !.retryAt = t]]
    BY <1>1, <1>8
  <2>2. /\ mark \in Marks
        /\ mark = "MarkProcessed" <=> outcome = "nil"
        /\ mark = "ScheduleRetry" => n < MaxAttempts
    BY <1>4, OutboxAssumption DEF MarkOf, Marks, AtLimit
  <2>3. t \in Nat /\ t >= clock
    <3>1. ASSUME mark = "ScheduleRetry" PROVE RetryDelays[n] \subseteq Nat
      BY <3>1, <2>2, <1>4, OutboxAssumption
    <3> QED BY <2>1, <3>1, <1>4
  <2> DEFINE new == [local[w] EXCEPT !.mark = mark, !.retryAt = t]
  <2>4. new \in Locals
    BY <2>2, <2>3 DEF IInv, TypeOK, Locals
  <2>5. /\ new.event = e /\ new.attempts = n /\ new.now = local[w].now
        /\ new.mark = mark /\ new.retryAt = t
    BY DEF IInv, TypeOK, Locals
  <2>6. local' = [local EXCEPT ![w] = new]
    BY <2>1 DEF IInv, TypeOK
  <2> HIDE DEF new, mark
  <2>7. /\ pc' \in [Workers -> Labels]
        /\ local' \in [Workers -> Locals]
        /\ Frame(w)
        /\ pc'[w] = "mark"
        /\ local'[w] = new
    BY <2>4, <2>6, <1>1, <1>8, Moves DEF IInv, Labels
  <2>8. TypeOK'
    BY <2>7, <1>2, <1>5 DEF IInv, TypeOK
  <2>9. mark = "MarkProcessed" <=> <<e, n>> \in handled'
    BY <2>2, <1>1, <1>4
  <2>10. WorkerOK(w)'
    BY <2>2, <2>3, <2>5, <2>7, <2>9, <1>2, <1>3, <1>4 DEF WorkerOK, Working, Inserted
  <2> QED BY <2>5, <2>7, <2>8, <2>10, <1>2, <1>3, <1>6, QuietStep
<1> QED BY <1>7, <1>8

\* A worker finds no event, or claims one.
LEMMA ClaimKeeps ==
    ASSUME IInv, NEW w \in Workers, Claim(w)
    PROVE  IInv'
<1> DEFINE now == local[w].now
<1>1. CASE Return(w) /\ UNCHANGED rows
  BY <1>1, ReturnKeeps DEF Claim
<1>2. CASE ~(Return(w) /\ UNCHANGED rows)
  <2> DEFINE attempt(e) == rows[e].attempts + 1
  <2>1. PICK e \in Events :
           /\ Claimable(e, now)
           /\ rows' = [rows EXCEPT ![e] = [@ EXCEPT !.lockedAt = now, !.lockId = attempt(e),
                                                    !.attempts = attempt(e)]]
           /\ local' = [local EXCEPT ![w] = [@ EXCEPT !.event = e, !.attempts = attempt(e)]]
           /\ Goto(w, "begin")
    BY <1>2 DEF Claim
  <2> DEFINE n == rows[e].attempts + 1
             old == rows[e]
             row == [old EXCEPT !.lockedAt = now, !.lockId = n, !.attempts = n]
             new == [local[w] EXCEPT !.event = e, !.attempts = n]
  <2>2. /\ old \in Rows /\ old.attempts \in Nat /\ n \in Nat /\ n > 0
        /\ now \in Nat /\ clock \in Nat /\ LockLease \in Nat
        /\ local[w] \in Locals
    BY OutboxAssumption DEF IInv, TypeOK, Rows, Locals
  <2>3. row \in Rows /\ new \in Locals
    BY <2>2 DEF Rows, Locals
  <2>4. /\ row.lockedAt = now /\ row.lockId = n /\ row.attempts = n
        /\ row.createdAt = old.createdAt /\ row.availableAt = old.availableAt
        /\ row.processed = old.processed /\ row.failed = old.failed
        /\ new.event = e /\ new.attempts = n /\ new.now = now
    BY <2>2 DEF Rows, Locals
  <2>5. rows' = [rows EXCEPT ![e] = row] /\ local' = [local EXCEPT ![w] = new]
    BY <2>1, <2>2 DEF IInv, TypeOK
  <2>6. /\ Inserted(e) /\ ~old.processed /\ ~old.failed
        /\ old.availableAt <= now
        /\ old.lockedAt # None => ~(old.lockedAt >= now - LockLease)
    BY <2>1 DEF Claimable, Leased
  <2>7. /\ old.availableAt \in Nat
        /\ old.lockedAt = None <=> old.lockId = None
        /\ old.lockId \in {None, old.attempts}
        /\ old.lockedAt # None => old.lockedAt \in Nat
    BY <2>2, <2>6 DEF IInv, RowOK, TypeOK, Rows
  <2>8. UNCHANGED <<clock, handled>>
    BY DEF Claim
  <2> HIDE DEF row, new, n, old, now
  <2>9. /\ rows' \in [Events -> Rows]
        /\ rows'[e] = row
        /\ \A f \in Events : f # e => rows'[f] = rows[f]
    BY <2>3, <2>5 DEF IInv, TypeOK
  <2>10. /\ pc' \in [Workers -> Labels]
         /\ local' \in [Workers -> Locals]
         /\ Frame(w)
         /\ pc'[w] = "begin"
         /\ local'[w] = new
    BY <2>1, <2>3, <2>5, Moves DEF IInv, Labels
  <2>11. n = old.attempts + 1
    BY DEF n, old
  <2>12. n # None /\ now # None
    BY <2>2, OutboxAssumption
  <2>13. TypeOK'
    <3>1. \A f \in Events : /\ rows'[f].lockedAt = None <=> rows'[f].lockId = None
                            /\ rows'[f].lockId \in {None, rows'[f].attempts}
      BY <2>4, <2>9, <2>12 DEF IInv, TypeOK
    <3> QED BY <3>1, <2>8, <2>9, <2>10 DEF IInv, TypeOK
  <2>14. ASSUME NEW v \in Workers, Working(v)', v # w
         PROVE  /\ Working(v) /\ WorkerOK(v)
                /\ pc'[v] = pc[v] /\ local'[v] = local[v]
                /\ local[v].now \in Nat /\ local[v].attempts \in Nat
    BY <2>10, <2>14 DEF Frame, Working, IInv, TypeOK, Locals
  <2>15. ASSUME NEW v \in Workers, Working(v), v # w, local[v].event = e
         PROVE  /\ local[v].attempts < n
                /\ local[v].now + LockLease < now
    <3>1. /\ WorkerOK(v) /\ local[v].now \in Nat /\ local[v].attempts \in Nat
          /\ local[v].attempts <= old.attempts
      BY <2>15 DEF IInv, TypeOK, Locals, WorkerOK, old
    <3>2. CASE local[v].attempts = old.attempts
      <4>1. old.lockId = local[v].attempts /\ old.lockedAt = local[v].now
        BY <3>1, <3>2, <2>15 DEF WorkerOK, old
      <4>2. local[v].now # None
        BY <3>1, OutboxAssumption
      <4> QED BY <4>1, <4>2, <3>1, <3>2, <2>2, <2>6, <2>11
    <3>3. CASE local[v].attempts # old.attempts
      <4>1. local[v].attempts < old.attempts
        BY <3>1, <3>3, <2>2
      <4>2. local[v].now + LockLease < Since(old)
        BY <4>1, <3>1, <2>6, <2>15 DEF WorkerOK, old
      <4> QED BY <4>1, <4>2, <3>1, <2>2, <2>6, <2>7, <2>11 DEF Since
    <3> QED BY <3>2, <3>3
  <2>16. \A f \in Events : RowOK(f)'
    <3> SUFFICES ASSUME NEW f \in Events PROVE RowOK(f)'
      OBVIOUS
    <3>1. CASE f = e
      BY <3>1, <2>4, <2>6, <2>7, <2>9, <2>12 DEF RowOK, Inserted, old
    <3>2. CASE f # e
      BY <3>2, <2>9 DEF IInv, RowOK, Inserted
    <3> QED BY <3>1, <3>2
  <2>17. \A v \in Workers : WorkerOK(v)'
    <3> SUFFICES ASSUME NEW v \in Workers PROVE WorkerOK(v)'
      OBVIOUS
    <3>1. CASE v = w
      <4>1. now <= clock
        BY DEF IInv, WorkerOK, now
      <4>2. <<e, n>> \notin handled
        BY <2>2, <2>11 DEF IInv, HandledWereCounted, old
      <4> QED BY <3>1, <4>1, <4>2, <2>2, <2>4, <2>6, <2>8, <2>9, <2>10
              DEF WorkerOK, Working, Inserted, old
    <3>2. CASE v # w
      <4>1. pc'[v] = pc[v] /\ local'[v] = local[v] /\ WorkerOK(v)
        BY <3>2, <2>10 DEF Frame, IInv
      <4>2. CASE Working(v) /\ local[v].event = e
        <5>1. /\ local[v].attempts < n /\ local[v].now + LockLease < now
              /\ local[v].now \in Nat /\ local[v].attempts \in Nat
          BY <4>2, <3>2, <2>15 DEF IInv, TypeOK, Locals
        <5>2. Since(row) = now
          BY <2>4, <2>12 DEF Since
        <5> QED BY <4>1, <4>2, <5>1, <5>2, <2>2, <2>4, <2>6, <2>8, <2>9
                DEF WorkerOK, Working, Inserted, old
      <4>3. CASE ~(Working(v) /\ local[v].event = e)
        BY <4>1, <4>3, <2>8, <2>9 DEF WorkerOK, Working, Inserted
      <4> QED BY <4>2, <4>3
    <3> QED BY <3>1, <3>2
  <2>18. OneWorkerPerAttempt'
    <3> SUFFICES ASSUME NEW u \in Workers, NEW v \in Workers,
                        Working(u)', Working(v)',
                        local'[u].event = local'[v].event,
                        local'[u].attempts = local'[v].attempts,
                        u # v
                 PROVE  FALSE
      BY DEF OneWorkerPerAttempt
    <3>1. CASE u # w /\ v # w
      BY <3>1, <2>14 DEF IInv, OneWorkerPerAttempt
    <3>2. CASE u = w
      BY <3>2, <2>4, <2>10, <2>14, <2>15, <2>2
    <3>3. CASE v = w
      BY <3>3, <2>4, <2>10, <2>14, <2>15, <2>2
    <3> QED BY <3>1, <3>2, <3>3
  <2>19. HandledWereCounted'
    <3> SUFFICES ASSUME NEW h \in handled
                 PROVE  h[2] > 0 /\ h[2] <= rows'[h[1]].attempts
      BY <2>8 DEF HandledWereCounted
    <3>1. h[1] \in Events /\ h[2] \in Nat /\ h[2] > 0 /\ h[2] <= rows[h[1]].attempts
      BY DEF IInv, TypeOK, HandledWereCounted
    <3> QED BY <3>1, <2>2, <2>4, <2>9, <2>11 DEF old
  <2>20. VerdictOfLastAttempt'
    BY <2>4, <2>6, <2>8, <2>9 DEF IInv, VerdictOfLastAttempt
  <2>21. OverlapOnlyAfterLease'
    <3> SUFFICES ASSUME NEW u \in Workers, NEW v \in Workers,
                        Working(u)', Working(v)',
                        local'[u].event = local'[v].event,
                        local'[u].attempts < local'[v].attempts
                 PROVE  local'[u].now + LockLease < local'[v].now
      BY DEF OverlapOnlyAfterLease
    <3>1. CASE u # w /\ v # w
      BY <3>1, <2>14 DEF IInv, OverlapOnlyAfterLease
    <3>2. CASE u = w
      <4>1. v # w
        BY <3>2, <2>2, <2>4, <2>10
      <4> QED BY <3>2, <4>1, <2>2, <2>4, <2>10, <2>14, <2>15
    <3>3. CASE v = w /\ u # w
      BY <3>3, <2>4, <2>10, <2>14, <2>15
    <3> QED BY <3>1, <3>2, <3>3
  <2> QED BY <2>13, <2>16, <2>17, <2>18, <2>19, <2>20, <2>21 DEF IInv
<1> QED BY <1>1, <1>2

\* A worker records the outcome of its attempt, or has lost its lease.
LEMMA MarkKeeps ==
    ASSUME IInv, NEW w \in Workers, Mark(w)
    PROVE  IInv'
<1> DEFINE e == local[w].event
           n == local[w].attempts
           old == rows[e]
           row == rows'[e]
<1>1. pc[w] = "mark" /\ Return(w) /\ UNCHANGED <<clock, handled>>
  BY DEF Mark
<1>2. CASE UNCHANGED rows
  BY <1>1, <1>2, ReturnKeeps
<1>3. CASE ~(UNCHANGED rows)
  <2>1. Working(w) /\ WorkerOK(w)
    BY <1>1 DEF Working, IInv
  <2>2. /\ e \in Events /\ Inserted(e) /\ n > 0 /\ n \in Nat /\ local[w].now \in Nat
        /\ old \in Rows /\ old.attempts \in Nat
        /\ local[w].retryAt \in Nat /\ local[w].retryAt >= local[w].now
        /\ clock \in Nat /\ LockLease \in Nat
    BY <1>1, <2>1, OutboxAssumption DEF WorkerOK, IInv, TypeOK, Locals, Rows
  <2>3. /\ old.lockId = n /\ ~old.processed
        /\ \/ /\ local[w].mark = "MarkProcessed"
              /\ rows' = [rows EXCEPT ![e] = [Freed(old) EXCEPT !.processed = TRUE]]
           \/ /\ local[w].mark = "MarkFailed"
              /\ rows' = [rows EXCEPT ![e] = [Freed(old) EXCEPT !.failed = TRUE]]
           \/ /\ local[w].mark = "ScheduleRetry"
              /\ ~old.failed
              /\ rows' = [rows EXCEPT ![e] = [Freed(old) EXCEPT !.availableAt = local[w].retryAt]]
    BY <1>3 DEF Mark, HoldsLease
  <2>4. n # None
    BY <2>2, OutboxAssumption
  <2>5. n = old.attempts
    BY <2>2, <2>3, <2>4 DEF IInv, TypeOK
  <2>6. ~old.failed
    BY <2>2, <2>3, <2>4 DEF IInv, RowOK
  <2>7. /\ row \in Rows
        /\ row.lockedAt = None /\ row.lockId = None /\ row.attempts = n
        /\ row.createdAt = old.createdAt
        /\ row.processed <=> local[w].mark = "MarkProcessed"
        /\ row.failed <=> local[w].mark = "MarkFailed"
        /\ row.availableAt = IF local[w].mark = "ScheduleRetry" THEN local[w].retryAt
                                                                ELSE old.availableAt
        /\ \A f \in Events : f # e => rows'[f] = rows[f]
        /\ rows' \in [Events -> Rows]
    <3> DEFINE free == Freed(old)
    <3>1. /\ free \in Rows
          /\ free.lockedAt = None /\ free.lockId = None /\ free.attempts = n
          /\ free.createdAt = old.createdAt /\ free.availableAt = old.availableAt
          /\ ~free.processed /\ ~free.failed
      BY <2>2, <2>3, <2>5, <2>6 DEF Freed, Rows
    <3>2. rows \in [Events -> Rows]
      BY DEF IInv, TypeOK
    <3> HIDE DEF free
    <3>3. CASE local[w].mark = "MarkProcessed"
      <4> DEFINE new == [free EXCEPT !.processed = TRUE]
      <4>1. /\ new \in Rows
            /\ new.lockedAt = None /\ new.lockId = None /\ new.attempts = n
            /\ new.createdAt = old.createdAt /\ new.availableAt = old.availableAt
            /\ new.processed /\ ~new.failed
        BY <3>1 DEF Rows
      <4>2. rows' = [rows EXCEPT ![e] = new]
        BY <2>3, <3>3 DEF free
      <4> HIDE DEF new
      <4> QED BY <4>1, <4>2, <3>2, <3>3, <2>2
    <3>4. CASE local[w].mark = "MarkFailed"
      <4> DEFINE new == [free EXCEPT !.failed = TRUE]
      <4>1. /\ new \in Rows
            /\ new.lockedAt = None /\ new.lockId = None /\ new.attempts = n
            /\ new.createdAt = old.createdAt /\ new.availableAt = old.availableAt
            /\ ~new.processed /\ new.failed
        BY <3>1 DEF Rows
      <4>2. rows' = [rows EXCEPT ![e] = new]
        BY <2>3, <3>4 DEF free
      <4> HIDE DEF new
      <4> QED BY <4>1, <4>2, <3>2, <3>4, <2>2
    <3>5. CASE local[w].mark = "ScheduleRetry"
      <4> DEFINE new == [free EXCEPT !.availableAt = local[w].retryAt]
      <4>1. /\ new \in Rows
            /\ new.lockedAt = None /\ new.lockId = None /\ new.attempts = n
            /\ new.createdAt = old.createdAt /\ new.availableAt = local[w].retryAt
            /\ ~new.processed /\ ~new.failed
        BY <3>1, <2>2 DEF Rows
      <4>2. rows' = [rows EXCEPT ![e] = new]
        BY <2>3, <3>5 DEF free
      <4> HIDE DEF new
      <4> QED BY <4>1, <4>2, <3>2, <3>5, <2>2
    <3> QED BY <3>3, <3>4, <3>5, <2>3
  <2>8. /\ pc' \in [Workers -> Labels]
        /\ local' \in [Workers -> Locals]
        /\ Frame(w)
        /\ ~Working(w)'
        /\ WorkerOK(w)'
    BY <1>1, IdleOK DEF IInv
  <2>9. /\ local[w].mark \in Marks
        /\ local[w].mark = "MarkProcessed" <=> <<e, n>> \in handled
        /\ local[w].mark = "ScheduleRetry" => n < MaxAttempts
        /\ local[w].now = old.lockedAt
    BY <1>1, <2>1, <2>5 DEF WorkerOK
  <2>10. \A v \in Workers : Working(v)' =>
            v # w /\ Working(v) /\ local'[v] = local[v] /\ pc'[v] = pc[v]
    BY <2>8 DEF Frame, Working
  <2>11. ASSUME NEW v \in Workers, Working(v), v # w, local[v].event = e
         PROVE  /\ local[v].attempts \in Nat /\ local[v].now \in Nat
                /\ local[v].attempts < n
                /\ local[v].now + LockLease < old.lockedAt
    <3>1. local[v].attempts \in Nat /\ local[v].now \in Nat /\ WorkerOK(v)
      BY DEF IInv, TypeOK, Locals
    <3>2. local[v].attempts # n
      BY <2>1, <2>11 DEF IInv, OneWorkerPerAttempt
    <3>3. local[v].attempts < n
      BY <2>2, <2>5, <2>11, <3>1, <3>2 DEF WorkerOK
    <3>4. local[v].now + LockLease < Since(old)
      BY <2>3, <2>5, <2>6, <2>11, <3>1, <3>3 DEF WorkerOK
    <3> QED BY <3>1, <3>3, <3>4, <2>3, <2>4 DEF Since
  <2> HIDE DEF row, old, n, e
  <2>12. TypeOK'
    <3>1. \A f \in Events : /\ rows'[f].lockedAt = None <=> rows'[f].lockId = None
                            /\ rows'[f].lockId \in {None, rows'[f].attempts}
      BY <2>7 DEF IInv, TypeOK, row
    <3> QED BY <3>1, <1>1, <2>7, <2>8 DEF IInv, TypeOK
  <2>13. \A f \in Events : RowOK(f)'
    <3> SUFFICES ASSUME NEW f \in Events PROVE RowOK(f)'
      OBVIOUS
    <3>1. CASE f = e
      <4>1. row.availableAt \in Nat
        BY <2>2, <2>7 DEF IInv, RowOK, old
      <4>2. ~row.processed /\ ~row.failed => row.attempts < MaxAttempts
        BY <2>7, <2>9 DEF Marks
      <4> QED BY <3>1, <4>1, <4>2, <2>2, <2>7 DEF RowOK, Inserted, row, old
    <3>2. CASE f # e
      BY <3>2, <2>7 DEF IInv, RowOK, Inserted
    <3> QED BY <3>1, <3>2
  <2>14. \A v \in Workers : WorkerOK(v)'
    <3> SUFFICES ASSUME NEW v \in Workers PROVE WorkerOK(v)'
      OBVIOUS
    <3>1. CASE v = w
      BY <3>1, <2>8
    <3>2. CASE v # w
      <4>1. pc'[v] = pc[v] /\ local'[v] = local[v] /\ WorkerOK(v)
        BY <3>2, <2>8 DEF Frame, IInv
      <4>2. CASE Working(v) /\ local[v].event = e
        <5>1. /\ local[v].attempts \in Nat /\ local[v].now \in Nat
              /\ local[v].attempts < n
              /\ local[v].now + LockLease < old.lockedAt
          BY <4>2, <3>2, <2>11
        <5>2. ~row.processed /\ ~row.failed => local[v].now + LockLease < Since(row)
          <6> SUFFICES ASSUME ~row.processed, ~row.failed
                       PROVE  local[v].now + LockLease < Since(row)
            OBVIOUS
          <6>1. Since(row) = local[w].retryAt
            BY <2>7, <2>9 DEF Since, Marks
          <6> QED BY <5>1, <6>1, <2>2, <2>9
        <5> QED BY <4>1, <4>2, <5>1, <5>2, <1>1, <2>2, <2>7
                DEF WorkerOK, Working, Inserted, row, old
      <4>3. CASE ~(Working(v) /\ local[v].event = e)
        BY <4>1, <4>3, <1>1, <2>7 DEF WorkerOK, Working, Inserted
      <4> QED BY <4>2, <4>3
    <3> QED BY <3>1, <3>2
  <2>15. OneWorkerPerAttempt' /\ OverlapOnlyAfterLease'
    BY <2>10 DEF IInv, OneWorkerPerAttempt, OverlapOnlyAfterLease
  <2>16. HandledWereCounted'
    <3> SUFFICES ASSUME NEW h \in handled
                 PROVE  h[2] > 0 /\ h[2] <= rows'[h[1]].attempts
      BY <1>1 DEF HandledWereCounted
    <3>1. h[1] \in Events /\ h[2] > 0 /\ h[2] <= rows[h[1]].attempts
      BY DEF IInv, TypeOK, HandledWereCounted
    <3>2. rows'[h[1]].attempts = rows[h[1]].attempts
      BY <3>1, <2>5, <2>7 DEF row, old
    <3> QED BY <3>1, <3>2
  <2>17. VerdictOfLastAttempt'
    <3> SUFFICES ASSUME NEW f \in Events
                 PROVE  /\ rows'[f].processed => <<f, rows'[f].attempts>> \in handled
                        /\ rows'[f].failed => <<f, rows'[f].attempts>> \notin handled
      BY <1>1 DEF VerdictOfLastAttempt
    <3>1. CASE f = e
      BY <3>1, <2>7, <2>9 DEF row
    <3>2. CASE f # e
      BY <3>2, <2>7 DEF IInv, VerdictOfLastAttempt
    <3> QED BY <3>1, <3>2
  <2> QED BY <2>12, <2>13, <2>14, <2>15, <2>16, <2>17 DEF IInv
<1> QED BY <1>2, <1>3

LEMMA InsertKeeps ==
    ASSUME IInv, NEW e \in Events, Insert(e)
    PROVE  IInv'
<1>1. PICK t \in 0..clock :
         rows' = [rows EXCEPT ![e] = [NoRow EXCEPT !.createdAt = t, !.availableAt = t]]
  BY DEF Insert
<1>2. UNCHANGED <<clock, handled, pc, local>> /\ ~Inserted(e)
  BY DEF Insert
<1>3. t \in Nat /\ t # None
  BY OutboxAssumption DEF IInv, TypeOK
<1> DEFINE row == [NoRow EXCEPT !.createdAt = t, !.availableAt = t]
<1>4. /\ row \in Rows
      /\ row.createdAt = t /\ row.availableAt = t
      /\ row.lockedAt = None /\ row.lockId = None
      /\ row.processed = FALSE /\ row.failed = FALSE /\ row.attempts = 0
  BY <1>3 DEF NoRow, Rows
<1>5. rows[e].attempts = 0 /\ rows[e].processed = FALSE /\ rows[e].failed = FALSE
  BY <1>2 DEF IInv, RowOK, NoRow
<1> HIDE DEF row
<1>6. /\ rows' \in [Events -> Rows]
      /\ rows'[e] = row
      /\ \A f \in Events : f # e => rows'[f] = rows[f]
  BY <1>1, <1>4 DEF IInv, TypeOK, row
<1>7. TypeOK'
  <2>1. \A f \in Events : /\ rows'[f].lockedAt = None <=> rows'[f].lockId = None
                          /\ rows'[f].lockId \in {None, rows'[f].attempts}
    BY <1>4, <1>6 DEF IInv, TypeOK
  <2> QED BY <2>1, <1>2, <1>6 DEF IInv, TypeOK
<1>8. \A f \in Events : RowOK(f)'
  <2> SUFFICES ASSUME NEW f \in Events PROVE RowOK(f)'
    OBVIOUS
  <2>1. CASE f = e
    BY <2>1, <1>3, <1>4, <1>6, OutboxAssumption DEF RowOK, Inserted
  <2>2. CASE f # e
    BY <2>2, <1>6 DEF IInv, RowOK, Inserted
  <2> QED BY <2>1, <2>2
<1>9. \A v \in Workers : Working(v) => local[v].event \in Events /\ local[v].event # e
  BY <1>2 DEF IInv, WorkerOK
<1>10. \A v \in Workers : WorkerOK(v)'
  <2> SUFFICES ASSUME NEW v \in Workers PROVE WorkerOK(v)'
    OBVIOUS
  <2>1. WorkerOK(v)
    BY DEF IInv
  <2>2. Working(v) => rows'[local[v].event] = rows[local[v].event]
    BY <1>6, <1>9
  <2> QED BY <2>1, <2>2, <1>2 DEF WorkerOK, Working, Inserted
<1>11. OneWorkerPerAttempt' /\ OverlapOnlyAfterLease'
  BY <1>2 DEF IInv, OneWorkerPerAttempt, OverlapOnlyAfterLease, Working
<1>12. HandledWereCounted'
  <2> SUFFICES ASSUME NEW h \in handled
               PROVE  h[2] > 0 /\ h[2] <= rows'[h[1]].attempts
    BY <1>2 DEF HandledWereCounted
  <2>1. h[1] \in Events /\ h[2] \in Nat /\ h[2] > 0 /\ h[2] <= rows[h[1]].attempts
    BY DEF IInv, TypeOK, HandledWereCounted
  <2>2. h[1] # e
    BY <2>1, <1>5
  <2> QED BY <2>1, <2>2, <1>6
<1>13. VerdictOfLastAttempt'
  BY <1>2, <1>4, <1>6 DEF IInv, VerdictOfLastAttempt
<1> QED BY <1>7, <1>8, <1>10, <1>11, <1>12, <1>13 DEF IInv

LEMMA TickKeeps ==
    ASSUME IInv, Tick
    PROVE  IInv'
<1>1. /\ clock' = clock + 1 /\ clock \in Nat
      /\ UNCHANGED <<rows, handled, pc, local>>
  BY DEF Tick, IInv, TypeOK
<1>2. TypeOK'
  BY <1>1 DEF IInv, TypeOK
<1>3. \A e \in Events : RowOK(e)'
  BY <1>1 DEF IInv, RowOK, Inserted
<1>4. ASSUME NEW v \in Workers PROVE WorkerOK(v)'
  <2>1. WorkerOK(v) /\ local[v].now \in Nat
    BY DEF IInv, TypeOK, Locals
  <2> QED BY <2>1, <1>1 DEF WorkerOK, Working, Inserted
<1>5. OneWorkerPerAttempt' /\ OverlapOnlyAfterLease' /\ HandledWereCounted'
      /\ VerdictOfLastAttempt'
  BY <1>1 DEF IInv, OneWorkerPerAttempt, OverlapOnlyAfterLease, HandledWereCounted,
              VerdictOfLastAttempt, Working
<1> QED BY <1>2, <1>3, <1>4, <1>5 DEF IInv

-----------------------------------------------------------------------------
(* Every behaviour.                                                        *)

LEMMA InitIInv == Init => IInv
<1> SUFFICES ASSUME Init PROVE IInv
  OBVIOUS
<1>1. TypeOK
  <2>1. NoRow \in Rows /\ NoRow.lockedAt = None /\ NoRow.lockId = None
    BY DEF NoRow, Rows
  <2> QED BY <2>1, BlankType DEF Init, TypeOK, Labels
<1>2. ASSUME NEW e \in Events PROVE RowOK(e) /\ rows[e] = NoRow
  BY DEF Init, RowOK, Inserted, NoRow
<1>3. ASSUME NEW w \in Workers PROVE WorkerOK(w) /\ ~Working(w)
  BY DEF Init, WorkerOK, Working, Blank
<1>4. VerdictOfLastAttempt
  <2>1. ~NoRow.processed /\ ~NoRow.failed
    BY DEF NoRow
  <2> QED BY <2>1, <1>2 DEF VerdictOfLastAttempt
<1> QED BY <1>1, <1>2, <1>3, <1>4
        DEF IInv, OneWorkerPerAttempt, HandledWereCounted, OverlapOnlyAfterLease, Init

LEMMA NextIInv == IInv /\ [Next]_vars => IInv'
<1> SUFFICES ASSUME IInv, [Next]_vars PROVE IInv'
  OBVIOUS
<1>1. ASSUME NEW e \in Events, Insert(e) PROVE IInv'
  BY <1>1, InsertKeeps
<1>2. ASSUME NEW w \in Workers, Step(w) PROVE IInv'
  <2>1. CASE StartPoll(w)  BY <2>1, StartPollKeeps
  <2>2. CASE Claim(w)      BY <2>2, ClaimKeeps
  <2>3. CASE Begin(w)      BY <2>3, BeginKeeps
  <2>4. CASE Handle(w)     BY <2>4, HandleKeeps
  <2>5. CASE Mark(w)       BY <2>5, MarkKeeps
  <2> QED BY <1>2, <2>1, <2>2, <2>3, <2>4, <2>5 DEF Step
<1>3. ASSUME NEW w \in Workers, GiveUp(w) PROVE IInv'
  BY <1>3, GiveUpKeeps
<1>4. CASE Tick
  BY <1>4, TickKeeps
<1>5. CASE UNCHANGED vars
  BY <1>5 DEF vars, IInv, TypeOK, RowOK, Inserted, WorkerOK, Working, OneWorkerPerAttempt,
              HandledWereCounted, VerdictOfLastAttempt, OverlapOnlyAfterLease
<1> QED BY <1>1, <1>2, <1>3, <1>4, <1>5 DEF Next

\* The inductive invariant holds in every behaviour of processor.go over the statements of
\* outbox_repository.go.
THEOREM Invariance == Spec => []IInv
  BY InitIInv, NextIInv, PTL DEF Spec

\* Every variable keeps its type, the columns of a lock are set together, and a lock is the
\* one of the latest claim (constraint outbox_events_lock_consistency).
THEOREM TypeCorrect == Spec => []TypeOK
<1>1. IInv => TypeOK
  BY DEF IInv
<1> QED BY <1>1, Invariance, PTL

\* A processed event was handled by the attempt its row counts, a failed one was not
\* (MarkProcessed and MarkFailed with their lock_id).
THEOREM VerdictCorrect == Spec => []VerdictOfLastAttempt
<1>1. IInv => VerdictOfLastAttempt
  BY DEF IInv
<1> QED BY <1>1, Invariance, PTL

\* Two workers work on one event only when their claims are more than a lease apart
\* (ClaimNext).
THEOREM LeaseSeparation == Spec => []OverlapOnlyAfterLease
<1>1. IInv => OverlapOnlyAfterLease
  BY DEF IInv
<1> QED BY <1>1, Invariance, PTL

-----------------------------------------------------------------------------
(* What a step may do to a row.                                            *)

\* Only Insert, Claim and Mark write rows.
LEMMA Writers ==
    ASSUME [Next]_vars
    PROVE  \/ UNCHANGED rows
           \/ \E e \in Events : Insert(e)
           \/ \E w \in Workers : Claim(w) \/ Mark(w)
  BY DEF Next, Step, vars, StartPoll, Begin, Handle, GiveUp, Tick

\* A row that is claimed.
LEMMA ClaimWrites ==
    ASSUME IInv, NEW w \in Workers, Claim(w), ~(UNCHANGED rows)
    PROVE  \E e \in Events, row \in Rows :
              /\ rows' = [rows EXCEPT ![e] = row]
              /\ Inserted(e)
              /\ ~rows[e].processed /\ ~rows[e].failed
              /\ row.createdAt = rows[e].createdAt
              /\ ~row.processed /\ ~row.failed
              /\ row.lockId # None
              /\ row.attempts = rows[e].attempts + 1
<1>1. PICK e \in Events :
         /\ Inserted(e) /\ ~rows[e].processed /\ ~rows[e].failed
         /\ rows' = [rows EXCEPT ![e] =
                        [@ EXCEPT !.lockedAt = local[w].now,
                                  !.lockId = rows[e].attempts + 1,
                                  !.attempts = rows[e].attempts + 1]]
  BY DEF Claim, Claimable
<1> DEFINE row == [rows[e] EXCEPT !.lockedAt = local[w].now,
                                  !.lockId = rows[e].attempts + 1,
                                  !.attempts = rows[e].attempts + 1]
<1>2. rows \in [Events -> Rows] /\ rows[e] \in Rows /\ local[w].now \in Nat
      /\ rows[e].attempts + 1 \in Nat
  BY DEF IInv, TypeOK, Rows, Locals
<1>3. rows[e].attempts + 1 # None
  BY <1>2, OutboxAssumption
<1>4. /\ row \in Rows
      /\ row.createdAt = rows[e].createdAt
      /\ ~row.processed /\ ~row.failed
      /\ row.lockId # None
      /\ row.attempts = rows[e].attempts + 1
  BY <1>1, <1>2, <1>3 DEF Rows
<1>5. rows' = [rows EXCEPT ![e] = row]
  BY <1>1, <1>2
<1> HIDE DEF row
<1> QED BY <1>1, <1>4, <1>5

\* A row whose outcome is recorded.
LEMMA MarkWrites ==
    ASSUME IInv, NEW w \in Workers, Mark(w), ~(UNCHANGED rows)
    PROVE  \E e \in Events, row \in Rows :
              /\ rows' = [rows EXCEPT ![e] = row]
              /\ local[w].event = e
              /\ pc[w] = "mark" /\ pc'[w] = "idle"
              /\ rows[e].lockId = local[w].attempts
              /\ Inserted(e) /\ rows[e].lockId # None
              /\ ~rows[e].processed /\ ~rows[e].failed
              /\ row.createdAt = rows[e].createdAt
              /\ row.lockId = None
              /\ row.attempts = rows[e].attempts
              /\ ~(row.processed /\ row.failed)
              /\ ~row.processed /\ ~row.failed => row.attempts < MaxAttempts
<1> DEFINE e == local[w].event
           n == local[w].attempts
           free == Freed(rows[e])
<1>1. pc[w] = "mark" /\ Return(w)
  BY DEF Mark
<1>2. Working(w) /\ WorkerOK(w)
  BY <1>1 DEF Working, IInv
<1>3. /\ e \in Events /\ Inserted(e) /\ n \in Nat /\ n # None
      /\ local[w].retryAt \in Nat
  BY <1>2, OutboxAssumption DEF WorkerOK, IInv, TypeOK, Locals
<1>4. /\ rows[e].lockId = n /\ ~rows[e].processed
      /\ \/ rows' = [rows EXCEPT ![e] = [free EXCEPT !.processed = TRUE]]
         \/ rows' = [rows EXCEPT ![e] = [free EXCEPT !.failed = TRUE]]
         \/ /\ local[w].mark = "ScheduleRetry"
            /\ rows' = [rows EXCEPT ![e] = [free EXCEPT !.availableAt = local[w].retryAt]]
  BY DEF Mark, HoldsLease
<1>5. n = rows[e].attempts /\ ~rows[e].failed /\ pc'[w] = "idle" /\ rows[e] \in Rows
  BY <1>1, <1>3, <1>4 DEF IInv, TypeOK, RowOK, Return, Goto
<1>6. local[w].mark = "ScheduleRetry" => n < MaxAttempts
  BY <1>1, <1>2 DEF WorkerOK
<1>7. /\ free \in Rows
      /\ free.createdAt = rows[e].createdAt /\ free.lockId = None
      /\ free.attempts = n /\ ~free.processed /\ ~free.failed
  BY <1>3, <1>4, <1>5 DEF Freed, Rows
<1> HIDE DEF free
<1>8. CASE rows' = [rows EXCEPT ![e] = [free EXCEPT !.processed = TRUE]]
  <2> DEFINE row == [free EXCEPT !.processed = TRUE]
  <2>1. /\ row \in Rows /\ row.createdAt = rows[e].createdAt /\ row.lockId = None
        /\ row.attempts = n /\ row.processed /\ ~row.failed
    BY <1>7 DEF Rows
  <2>2. rows' = [rows EXCEPT ![e] = row]
    BY <1>8
  <2> HIDE DEF row, e, n
  <2> QED BY <2>1, <2>2, <1>1, <1>3, <1>4, <1>5 DEF e, n
<1>9. CASE rows' = [rows EXCEPT ![e] = [free EXCEPT !.failed = TRUE]]
  <2> DEFINE row == [free EXCEPT !.failed = TRUE]
  <2>1. /\ row \in Rows /\ row.createdAt = rows[e].createdAt /\ row.lockId = None
        /\ row.attempts = n /\ ~row.processed /\ row.failed
    BY <1>7 DEF Rows
  <2>2. rows' = [rows EXCEPT ![e] = row]
    BY <1>9
  <2> HIDE DEF row, e, n
  <2> QED BY <2>1, <2>2, <1>1, <1>3, <1>4, <1>5 DEF e, n
<1>10. CASE /\ local[w].mark = "ScheduleRetry"
            /\ rows' = [rows EXCEPT ![e] = [free EXCEPT !.availableAt = local[w].retryAt]]
  <2> DEFINE row == [free EXCEPT !.availableAt = local[w].retryAt]
  <2>1. /\ row \in Rows /\ row.createdAt = rows[e].createdAt /\ row.lockId = None
        /\ row.attempts = n /\ ~row.processed /\ ~row.failed
    BY <1>3, <1>7 DEF Rows
  <2>2. rows' = [rows EXCEPT ![e] = row]
    BY <1>10
  <2> HIDE DEF row, e, n
  <2> QED BY <2>1, <2>2, <1>1, <1>3, <1>4, <1>5, <1>6, <1>10 DEF e, n
<1> QED BY <1>4, <1>8, <1>9, <1>10

\* A lease is ended by the worker that holds it (lock_id in the WHERE clauses of
\* MarkProcessed, ScheduleRetry and MarkFailed).
THEOREM HolderCorrect == Spec => OnlyHolderReleases
<1>1. ASSUME IInv, [Next]_vars, NEW e \in Events
      PROVE  HolderReleases(e)
  <2>1. CASE UNCHANGED rows
    BY <2>1 DEF HolderReleases
  <2>2. ASSUME NEW f \in Events, Insert(f) PROVE HolderReleases(e)
    <3>1. rows \in [Events -> Rows]
      BY <1>1 DEF IInv, TypeOK
    <3>2. f = e => rows[e].lockId = None
      BY <1>1, <2>2 DEF Insert, IInv, RowOK, NoRow
    <3>3. f # e => rows'[e] = rows[e]
      BY <2>2, <3>1 DEF Insert
    <3> QED BY <3>2, <3>3 DEF HolderReleases
  <2>3. ASSUME NEW w \in Workers, Claim(w), ~(UNCHANGED rows) PROVE HolderReleases(e)
    <3>1. rows \in [Events -> Rows]
      BY <1>1 DEF IInv, TypeOK
    <3> QED BY <1>1, <2>3, <3>1, ClaimWrites DEF HolderReleases
  <2>4. ASSUME NEW w \in Workers, Mark(w), ~(UNCHANGED rows) PROVE HolderReleases(e)
    <3>1. rows \in [Events -> Rows]
      BY <1>1 DEF IInv, TypeOK
    <3> QED BY <1>1, <2>4, <3>1, MarkWrites DEF HolderReleases
  <2> QED BY <1>1, <2>1, <2>2, <2>3, <2>4, Writers
<1>2. IInv /\ [Next]_vars => [\A e \in Events : HolderReleases(e)]_vars
  BY <1>1
<1> QED BY <1>2, Invariance, PTL DEF Spec, OnlyHolderReleases

-----------------------------------------------------------------------------
(* The queue.                                                              *)

\* The state of the queue that a table stands for.
Status == [e \in Events |-> StatusOf(rows[e])]
Counts == [e \in Events |-> rows[e].attempts]

LEMMA OneRowMoves ==
    ASSUME rows \in [Events -> Rows], NEW e \in Events, NEW row \in Rows,
           rows' = [rows EXCEPT ![e] = row]
    PROVE  /\ Status' = [Status EXCEPT ![e] = StatusOf(row)]
           /\ Counts' = [Counts EXCEPT ![e] = row.attempts]
  BY DEF Status, Counts

\* A step that writes no row, and a step that writes one, are steps of the queue.
LEMMA StepOfQueue ==
    ASSUME IInv, [Next]_vars
    PROVE  [Queue!Next]_(Queue!vars)
<1>1. rows \in [Events -> Rows]
  BY DEF IInv, TypeOK
<1>2. CASE UNCHANGED rows
  BY <1>2 DEF Queue!vars
<1>3. ASSUME NEW e \in Events, Insert(e) PROVE Queue!Next
  <2>1. PICK t \in 0..clock :
           rows' = [rows EXCEPT ![e] = [NoRow EXCEPT !.createdAt = t, !.availableAt = t]]
    BY <1>3 DEF Insert
  <2> DEFINE row == [NoRow EXCEPT !.createdAt = t, !.availableAt = t]
  <2>2. t \in Nat /\ t # None
    BY OutboxAssumption DEF IInv, TypeOK
  <2>3. row \in Rows /\ StatusOf(row) = "waiting" /\ row.attempts = 0
    BY <2>2 DEF Rows, NoRow, StatusOf
  <2>4. rows[e] = NoRow
    BY <1>3 DEF Insert, IInv, RowOK
  <2>5. Status[e] = "absent" /\ Counts[e] = 0 /\ Counts = [Counts EXCEPT ![e] = 0]
    BY <2>4 DEF Status, Counts, StatusOf, NoRow
  <2>6. Status' = [Status EXCEPT ![e] = "waiting"] /\ Counts' = Counts
    <3>1. rows' = [rows EXCEPT ![e] = row]
      BY <2>1
    <3> HIDE DEF row
    <3>2. /\ Status' = [Status EXCEPT ![e] = StatusOf(row)]
          /\ Counts' = [Counts EXCEPT ![e] = row.attempts]
      BY <1>1, <2>3, <3>1, OneRowMoves
    <3> QED BY <2>3, <2>5, <3>2
  <2>7. Queue!Add(e)
    BY <2>5, <2>6 DEF Queue!Add, Queue!Become, Status, Counts
  <2> QED BY <2>7 DEF Queue!Next
<1>4. ASSUME NEW w \in Workers, Claim(w), ~(UNCHANGED rows) PROVE Queue!Next
  <2>1. PICK e \in Events, row \in Rows :
           /\ rows' = [rows EXCEPT ![e] = row]
           /\ Inserted(e)
           /\ ~rows[e].processed /\ ~rows[e].failed
           /\ row.createdAt = rows[e].createdAt
           /\ ~row.processed /\ ~row.failed
           /\ row.lockId # None
           /\ row.attempts = rows[e].attempts + 1
    BY <1>4, ClaimWrites
  <2>2. Status' = [Status EXCEPT ![e] = "running"]
        /\ Counts' = [Counts EXCEPT ![e] = Counts[e] + 1]
    BY <1>1, <2>1, OneRowMoves DEF StatusOf, Inserted, Counts
  <2>3. CASE rows[e].lockId = None
    <3>1. Status[e] = "waiting" /\ Counts[e] < MaxAttempts
      BY <2>1, <2>3 DEF Status, Counts, StatusOf, Inserted, IInv, RowOK
    <3>2. Queue!Attempt(e)
      BY <2>2, <3>1 DEF Queue!Attempt, Queue!Become, Queue!CountAttempt, Status, Counts
    <3> QED BY <3>2 DEF Queue!Next
  <2>4. CASE rows[e].lockId # None
    <3>1. Status[e] = "running"
      BY <2>1, <2>4 DEF Status, StatusOf, Inserted
    <3>2. Queue!TakeOver(e)
      BY <2>2, <3>1 DEF Queue!TakeOver, Queue!Become, Queue!CountAttempt, Status, Counts
    <3> QED BY <3>2 DEF Queue!Next
  <2> QED BY <2>3, <2>4
<1>5. ASSUME NEW w \in Workers, Mark(w), ~(UNCHANGED rows) PROVE Queue!Next
  <2>1. PICK e \in Events, row \in Rows :
           /\ rows' = [rows EXCEPT ![e] = row]
           /\ Inserted(e) /\ rows[e].lockId # None
           /\ ~rows[e].processed /\ ~rows[e].failed
           /\ row.createdAt = rows[e].createdAt
           /\ row.lockId = None
           /\ row.attempts = rows[e].attempts
           /\ ~(row.processed /\ row.failed)
           /\ ~row.processed /\ ~row.failed => row.attempts < MaxAttempts
    BY <1>5, MarkWrites
  <2>2. Status[e] = "running"
    BY <2>1 DEF Status, StatusOf, Inserted
  <2>3. Status' = [Status EXCEPT ![e] = StatusOf(row)] /\ Counts' = Counts
    BY <1>1, <2>1, OneRowMoves DEF Counts
  <2>4. StatusOf(row) = IF row.processed THEN "processed" ELSE
                        IF row.failed THEN "failed" ELSE "waiting"
    BY <2>1 DEF StatusOf, Inserted
  <2>5. CASE row.processed
    <3>1. Queue!Finish(e)
      BY <2>2, <2>3, <2>4, <2>5 DEF Queue!Finish, Queue!Become, Status, Counts
    <3> QED BY <3>1 DEF Queue!Next
  <2>6. CASE ~row.processed /\ row.failed
    <3>1. Queue!Fail(e)
      BY <2>2, <2>3, <2>4, <2>6 DEF Queue!Fail, Queue!Become, Status, Counts
    <3> QED BY <3>1 DEF Queue!Next
  <2>7. CASE ~row.processed /\ ~row.failed
    <3>1. Counts[e] < MaxAttempts
      BY <2>1, <2>7 DEF Counts
    <3>2. Queue!PutBack(e)
      BY <2>2, <2>3, <2>4, <2>7, <3>1 DEF Queue!PutBack, Queue!Become, Status, Counts
    <3> QED BY <3>2 DEF Queue!Next
  <2> QED BY <2>5, <2>6, <2>7
<1> QED BY <1>2, <1>3, <1>4, <1>5, Writers

\* The workers and the statements implement the queue: an event is never selected again
\* once it is processed (comment of MarkProcessed in processor.go) or has failed, and is
\* put back only below maxAttempts.
THEOREM Refinement == Spec => ImplementsQueue
<1>1. Init => Queue!Init
  BY DEF Init, Queue!Init, StatusOf, NoRow
<1>2. IInv /\ [Next]_vars => [Queue!Next]_(Queue!vars)
  BY StepOfQueue
<1> QED BY <1>1, <1>2, Invariance, PTL DEF Spec, ImplementsQueue, Queue!Spec

-----------------------------------------------------------------------------
(* The life of a worker.                                                   *)

Stages == {"starting", "running"} \cup Ended

\* The variables of Worker and how a life goes with a processOne.
LifeOK(w) ==
    /\ life[w] # "running" => pc[w] = "idle"
    /\ pc[w] = "idle" => local[w] = Blank

\* A lock whose attempt is not lost is the one of a worker that is at this attempt.
LeaseOwned(e) ==
    LET w == claimant[e] IN
    rows[e].lockId # None /\ <<e, rows[e].lockId>> \notin unrecorded =>
        /\ w \in Workers
        /\ Working(w)
        /\ local[w].event = e
        /\ local[w].attempts = rows[e].lockId

\* What is left of the time of an attempt, and of a worker that was told to stop.
TimeOK(w) ==
    /\ pc[w] \in {"handle", "mark"} => /\ clock <= local[w].deadline
                                       /\ local[w].deadline <= clock + WorkTimeout
    /\ Signalled(w) =>
          /\ life[w] = "starting" => clock = signalledAt[w]
          /\ pc[w] \in {"claim", "begin"} => clock = signalledAt[w]
          /\ pc[w] \in {"handle", "mark"} => local[w].deadline <= signalledAt[w] + WorkTimeout
          /\ life[w] = "running" /\ pc[w] = "idle" => clock <= signalledAt[w] + WorkTimeout

LivesOK ==
    /\ life \in [Workers -> Stages]
    /\ signalledAt \in [Workers -> Nat \cup {None}]
    /\ claimant \in [Events -> Workers \cup {None}]
    /\ unrecorded \subseteq Events \X Nat

WInv ==
    /\ IInv
    /\ LivesOK
    /\ \A w \in Workers : LifeOK(w)
    /\ \A e \in Events : LeaseOwned(e)
    /\ \A w \in Workers : TimeOK(w)

-----------------------------------------------------------------------------
(* Steps of Outbox.                                                        *)

\* A step of a life is a step of Outbox or leaves its variables alone: a worker that is
\* killed between two attempts has no variables to lose.
LEMMA StepOfOutbox ==
    ASSUME WInv, WorkerNext
    PROVE  [Next]_vars
<1>1. CASE Add  BY <1>1 DEF Add, Next
<1>2. CASE Wait  BY <1>2 DEF Wait, Next
<1>3. ASSUME NEW w \in Workers, Start(w) \/ Signal(w) \/ RunReturns(w)
      PROVE  UNCHANGED vars
  BY <1>3 DEF Start, Signal, RunReturns
<1>4. ASSUME NEW w \in Workers, Work(w) PROVE Next
  BY <1>4 DEF Work, Next
<1>5. ASSUME NEW w \in Workers, StatementFails(w) PROVE Next
  BY <1>5 DEF StatementFails, Next
<1>6. ASSUME NEW w \in Workers, ClaimCancelled(w) \/ Kill(w)
      PROVE  Next \/ UNCHANGED vars
  <2>1. Return(w) /\ UNCHANGED <<clock, rows, handled>>
    BY <1>6 DEF ClaimCancelled, Kill
  <2>2. CASE pc[w] = "idle"
    <3>1. local[w] = Blank
      BY <2>2 DEF WInv, LifeOK
    <3>2. pc' = pc /\ local' = local
      BY <2>1, <2>2, <3>1 DEF Return, Goto, WInv, IInv, TypeOK
    <3> QED BY <2>1, <3>2 DEF vars
  <2>3. CASE pc[w] # "idle"  BY <2>1, <2>3 DEF GiveUp, Next
  <2> QED BY <2>2, <2>3
<1> QED BY <1>1, <1>2, <1>3, <1>4, <1>5, <1>6 DEF WorkerNext

\* The invariant of Outbox is kept.
LEMMA OutboxKept ==
    ASSUME WInv, WorkerNext
    PROVE  IInv'
  BY StepOfOutbox, NextIInv DEF WInv

\* A worker that returns.
LEMMA Returned ==
    ASSUME TypeOK, NEW w \in Workers, Return(w)
    PROVE  Frame(w) /\ pc'[w] = "idle" /\ local'[w] = Blank
  BY BlankType, Moves DEF Return, Labels

\* The worker stays at its attempt.
SameAttempt(w) ==
    /\ local'[w].event = local[w].event
    /\ local'[w].attempts = local[w].attempts

\* The worker locks an event.
Locks(w, e) ==
    /\ rows'[e].lockId = local'[w].attempts
    /\ local'[w].event = e
    /\ \A f \in Events : f # e => rows'[f] = rows[f]

\* The worker has recorded its attempt, or it held no lock.
Settled(w) ==
    \A f \in Events : rows'[f].lockId # None =>
        /\ rows'[f].lockId = rows[f].lockId
        /\ ~(f = local[w].event /\ rows[f].lockId = local[w].attempts)

LEMMA MarkSettles ==
    ASSUME IInv, NEW w \in Workers, Mark(w)
    PROVE  Settled(w)
<1> DEFINE e == local[w].event
           n == local[w].attempts
<1>1. pc[w] = "mark" /\ Working(w) /\ WorkerOK(w)
  BY DEF Mark, IInv, Working
<1>2. e \in Events /\ local[w].mark \in Marks
  BY <1>1 DEF WorkerOK
<1>3. RowOK(e) /\ rows \in [Events -> Rows]
  BY <1>2 DEF IInv, TypeOK
<1>4. CASE rows' = rows /\ ~(HoldsLease(rows[e], n) /\ ~rows[e].processed)
  BY <1>4, <1>3 DEF Settled, HoldsLease, RowOK
<1>5. CASE rows' = rows /\ rows[e].failed
  BY <1>5, <1>3 DEF Settled, RowOK
<1>6. ASSUME NEW row \in {[Freed(rows[e]) EXCEPT !.processed = TRUE],
                          [Freed(rows[e]) EXCEPT !.failed = TRUE],
                          [Freed(rows[e]) EXCEPT !.availableAt = local[w].retryAt]},
             rows' = [rows EXCEPT ![e] = row]
      PROVE  Settled(w)
  <2>1. row.lockId = None
    BY <1>2, <1>3 DEF Freed, Rows
  <2>2. \A f \in Events : rows'[f] = IF f = e THEN row ELSE rows[f]
    BY <1>6, <1>3
  <2> QED BY <2>1, <2>2 DEF Settled
<1> QED BY <1>4, <1>5, <1>6 DEF Mark

\* What a step of processOne does to its worker and to the locks.
LEMMA StepFacts ==
    ASSUME IInv, NEW w \in Workers, Step(w)
    PROVE  /\ Frame(w) /\ clock' = clock
           /\ \/ pc[w] = "idle" /\ pc'[w] = "claim" /\ rows' = rows
              \/ pc[w] = "claim" /\ pc'[w] = "idle" /\ local'[w] = Blank /\ rows' = rows
              \/ /\ pc[w] = "claim" /\ pc'[w] = "begin"
                 /\ \E e \in Events : Locks(w, e)
              \/ /\ pc[w] = "begin" /\ pc'[w] = "handle" /\ rows' = rows
                 /\ SameAttempt(w) /\ local'[w].deadline = clock + WorkTimeout
              \/ /\ pc[w] = "handle" /\ pc'[w] = "mark" /\ rows' = rows
                 /\ SameAttempt(w) /\ local'[w].deadline = local[w].deadline
              \/ pc[w] = "handle" /\ pc'[w] = "idle" /\ local'[w] = Blank /\ rows' = rows
              \/ pc[w] = "mark" /\ pc'[w] = "idle" /\ local'[w] = Blank /\ Settled(w)
<1> USE DEF IInv
<1>1. CASE StartPoll(w)
  BY <1>1 DEF StartPoll, Goto, Frame, TypeOK
<1>2. CASE Begin(w)
  <2>1. /\ pc[w] = "begin" /\ rows' = rows /\ clock' = clock
        /\ Frame(w) /\ pc'[w] = "handle"
        /\ local'[w] = [local[w] EXCEPT !.deadline = clock + WorkTimeout]
    BY <1>2 DEF Begin, Goto, Frame, TypeOK
  <2> QED BY <2>1 DEF SameAttempt, TypeOK, Locals
<1>3. CASE Claim(w)
  <2>1. CASE Return(w) /\ UNCHANGED rows
    BY <2>1, <1>3, Returned DEF Claim
  <2>2. CASE ~(Return(w) /\ UNCHANGED rows)
    <3>1. PICK e \in Events :
             /\ rows' = [rows EXCEPT ![e] = [@ EXCEPT !.lockedAt = local[w].now,
                                                      !.lockId = rows[e].attempts + 1,
                                                      !.attempts = rows[e].attempts + 1]]
             /\ local' = [local EXCEPT ![w] = [@ EXCEPT !.event = e,
                                                        !.attempts = rows[e].attempts + 1]]
             /\ Goto(w, "begin")
      BY <1>3, <2>2 DEF Claim
    <3>2. pc[w] = "claim" /\ clock' = clock
      BY <1>3 DEF Claim
    <3>3. Frame(w) /\ pc'[w] = "begin"
      BY <3>1 DEF Goto, Frame, TypeOK
    <3>4. local'[w].event = e /\ local'[w].attempts = rows[e].attempts + 1
      BY <3>1 DEF TypeOK, Locals
    <3>5. rows'[e].lockId = rows[e].attempts + 1
      BY <3>1 DEF TypeOK, Rows
    <3>6. \A f \in Events : f # e => rows'[f] = rows[f]
      BY <3>1 DEF TypeOK
    <3> QED BY <3>2, <3>3, <3>4, <3>5, <3>6 DEF Locks
  <2> QED BY <2>1, <2>2
<1>4. CASE Handle(w)
  <2>1. CASE Return(w)
    BY <2>1, <1>4, Returned DEF Handle
  <2>2. CASE ~Return(w)
    <3>1. PICK mark, t : local' = [local EXCEPT ![w] = [@ EXCEPT !.mark = mark, !.retryAt = t]]
      <4>1. PICK outcome \in Outcomes :
               \E t \in IF MarkOf(outcome, local[w].attempts) = "ScheduleRetry"
                       THEN {clock + d : d \in RetryDelays[local[w].attempts]} ELSE {clock} :
                  local' = [local EXCEPT ![w] =
                     [@ EXCEPT !.mark = MarkOf(outcome, local[w].attempts), !.retryAt = t]]
        BY <1>4, <2>2 DEF Handle
      <4> QED BY <4>1
    <3>2. pc[w] = "handle" /\ Goto(w, "mark") /\ rows' = rows /\ clock' = clock
      BY <1>4, <2>2 DEF Handle
    <3>3. Frame(w) /\ pc'[w] = "mark"
      BY <3>1, <3>2 DEF Goto, Frame, TypeOK
    <3>4. SameAttempt(w) /\ local'[w].deadline = local[w].deadline
      BY <3>1 DEF SameAttempt, TypeOK, Locals
    <3> QED BY <3>2, <3>3, <3>4
  <2> QED BY <2>1, <2>2
<1>5. CASE Mark(w)
  <2>1. pc[w] = "mark" /\ Return(w) /\ clock' = clock
    BY <1>5 DEF Mark
  <2> QED BY <1>5, <2>1, Returned, MarkSettles
<1> QED BY <1>1, <1>2, <1>3, <1>4, <1>5 DEF Step

-----------------------------------------------------------------------------
(* The conjuncts of the invariant, one by one.                             *)

\* An attempt is a pair of an event and a number.
LEMMA LostType ==
    ASSUME WInv, NEW w \in Workers
    PROVE  unrecorded \subseteq Lost(w) /\ Lost(w) \subseteq Events \X Nat
<1>1. CASE Working(w)
  <2>1. local[w].event \in Events /\ local[w].attempts \in Nat
    BY <1>1 DEF WInv, IInv, WorkerOK, TypeOK, Locals
  <2> QED BY <1>1, <2>1 DEF Lost, WInv, LivesOK
<1>2. CASE ~Working(w)
  BY <1>2 DEF Lost, WInv, LivesOK
<1> QED BY <1>1, <1>2

\* The steps in which w returns from processOne without having finished it.
Breaks(w) == StatementFails(w) \/ ClaimCancelled(w) \/ Kill(w)

LEMMA BreakFacts ==
    ASSUME WInv, NEW w \in Workers, Breaks(w)
    PROVE  /\ Frame(w) /\ pc'[w] = "idle" /\ local'[w] = Blank
           /\ UNCHANGED <<clock, rows, signalledAt, claimant>>
           /\ unrecorded' = Lost(w)
           /\ life[w] = "running"
           /\ \/ life' = life /\ pc[w] \in {"claim", "begin", "mark"}
              \/ \E end \in Ended : life' = [life EXCEPT ![w] = end]
  BY Returned DEF Breaks, StatementFails, GiveUp, ClaimCancelled, Kill, Become, Ended, WInv, IInv

\* What happens to main alone.
Turns(w) == Start(w) \/ Signal(w) \/ RunReturns(w)

LEMMA TurnFacts ==
    ASSUME NEW w \in Workers, Turns(w)
    PROVE  UNCHANGED <<clock, rows, handled, pc, local, claimant, unrecorded>>
  BY DEF Turns, Start, Signal, RunReturns, vars

LEMMA WorkFacts ==
    ASSUME WInv, NEW w \in Workers, Work(w)
    PROVE  /\ Step(w)
           /\ unrecorded \subseteq unrecorded' /\ unrecorded' \subseteq Events \X Nat
           /\ claimant' \in [Events -> Workers \cup {None}]
           /\ life' = life /\ signalledAt' = signalledAt
           /\ life[w] = "running"
           /\ pc[w] = "handle" /\ pc'[w] = "idle" => unrecorded' = Lost(w)
<1>1. Step(w)
  BY DEF Work
<1>2. pc[w] = "claim" /\ pc'[w] = "begin" => local'[w].event \in Events
  BY <1>1, StepFacts DEF Locks, WInv
<1>3. claimant' \in [Events -> Workers \cup {None}]
  BY <1>2 DEF Work, WInv, LivesOK
<1>4. unrecorded' = unrecorded \/ unrecorded' = Lost(w)
  BY DEF Work
<1>5. unrecorded \subseteq Events \X Nat
  BY DEF WInv, LivesOK
<1> QED BY <1>1, <1>3, <1>4, <1>5, LostType DEF Work

LEMMA WorkerSteps ==
    ASSUME WorkerNext
    PROVE  \/ Add
           \/ \E w \in Workers : Turns(w) \/ Work(w) \/ Breaks(w)
           \/ Wait
  BY DEF WorkerNext, Turns, Breaks

LEMMA LivesKept ==
    ASSUME WInv, WorkerNext
    PROVE  LivesOK'
<1>1. CASE Add \/ Wait
  BY <1>1 DEF Add, Wait, lives, WInv, LivesOK
<1>2. ASSUME NEW w \in Workers, Turns(w) PROVE LivesOK'
  <2>1. clock \in Nat
    BY DEF WInv, IInv, TypeOK
  <2> QED BY <1>2, <2>1, TurnFacts DEF Turns, Start, Signal, RunReturns, Become, Stages, Ended,
                WInv, LivesOK
<1>3. ASSUME NEW w \in Workers, Work(w) PROVE LivesOK'
  BY <1>3, WorkFacts DEF WInv, LivesOK
<1>4. ASSUME NEW w \in Workers, Breaks(w) PROVE LivesOK'
  BY <1>4, BreakFacts, LostType DEF WInv, LivesOK, Stages
<1> QED BY <1>1, <1>2, <1>3, <1>4, WorkerSteps

LEMMA LifeKept ==
    ASSUME WInv, WorkerNext, NEW v \in Workers
    PROVE  LifeOK(v)'
<1>1. LifeOK(v) /\ life \in [Workers -> Stages]
  BY DEF WInv, LivesOK
<1>2. CASE Add \/ Wait
  BY <1>1, <1>2 DEF Add, Insert, Wait, Tick, lives, LifeOK
<1>3. ASSUME NEW w \in Workers, Turns(w) PROVE LifeOK(v)'
  BY <1>1, <1>3 DEF Turns, Start, Signal, RunReturns, BetweenAttempts, Become, vars, LifeOK, WInv
<1>4. ASSUME NEW w \in Workers, Work(w) PROVE LifeOK(v)'
  <2>1. Frame(w) /\ life' = life /\ life[w] = "running"
    BY <1>4, WorkFacts, StepFacts DEF WInv
  <2>2. pc'[w] = "idle" => local'[w] = Blank
    BY <1>4, WorkFacts, StepFacts DEF WInv
  <2> QED BY <1>1, <2>1, <2>2 DEF Frame, LifeOK
<1>5. ASSUME NEW w \in Workers, Breaks(w) PROVE LifeOK(v)'
  <2>1. /\ Frame(w) /\ pc'[w] = "idle" /\ local'[w] = Blank
        /\ v # w => life'[v] = life[v]
    BY <1>1, <1>5, BreakFacts
  <2> QED BY <1>1, <2>1 DEF Frame, LifeOK
<1> QED BY <1>2, <1>3, <1>4, <1>5, WorkerSteps

\* A step of w keeps a lock owned if it changes no lock, and takes w off the attempt that
\* the lock belongs to only when it notes this attempt as lost.
LEMMA LeaseStep ==
    ASSUME WInv, NEW w \in Workers, Frame(w), NEW e \in Events,
           unrecorded \subseteq unrecorded', claimant'[e] = claimant[e],
           rows'[e].lockId # None => rows'[e].lockId = rows[e].lockId,
           /\ rows'[e].lockId # None
           /\ Working(w)
           /\ local[w].event = e
           /\ local[w].attempts = rows[e].lockId
           => \/ Working(w)' /\ SameAttempt(w)
              \/ <<e, rows[e].lockId>> \in unrecorded'
    PROVE  LeaseOwned(e)'
<1> SUFFICES ASSUME rows'[e].lockId # None, <<e, rows'[e].lockId>> \notin unrecorded'
             PROVE  /\ claimant'[e] \in Workers
                    /\ Working(claimant[e])'
                    /\ local'[claimant[e]].event = e
                    /\ local'[claimant[e]].attempts = rows'[e].lockId
  BY DEF LeaseOwned, Working
<1> DEFINE v == claimant[e]
<1>1. /\ v \in Workers
      /\ Working(v)
      /\ local[v].event = e
      /\ local[v].attempts = rows[e].lockId
  BY DEF WInv, LeaseOwned
<1>2. CASE v = w
  BY <1>1, <1>2 DEF SameAttempt
<1>3. CASE v # w
  BY <1>1, <1>3 DEF Frame, Working
<1> QED BY <1>2, <1>3

LEMMA LeaseKept ==
    ASSUME WInv, WorkerNext, NEW e \in Events
    PROVE  LeaseOwned(e)'
<1>1. LeaseOwned(e) /\ rows \in [Events -> Rows]
  BY DEF WInv, IInv, TypeOK
<1>2. CASE Wait
  BY <1>1, <1>2 DEF Wait, Tick, lives, LeaseOwned, Working
<1>3. CASE Add
  <2>1. PICK f \in Events : Insert(f)
    BY <1>3 DEF Add
  <2>2. UNCHANGED <<pc, local, claimant, unrecorded>>
    BY <1>3 DEF Add, Insert, lives
  <2>3. rows'[e] = rows[e] \/ rows'[e].lockId = None
    BY <1>1, <2>1 DEF Insert, NoRow
  <2> QED BY <1>1, <2>2, <2>3 DEF LeaseOwned, Working
<1>4. ASSUME NEW w \in Workers, Turns(w) PROVE LeaseOwned(e)'
  <2>1. UNCHANGED <<rows, pc, local, claimant, unrecorded>>
    BY <1>4, TurnFacts
  <2> QED BY <1>1, <2>1 DEF LeaseOwned, Working
<1>5. ASSUME NEW w \in Workers, Breaks(w) PROVE LeaseOwned(e)'
  <2>1. /\ Frame(w) /\ rows' = rows /\ claimant' = claimant
        /\ unrecorded \subseteq unrecorded' /\ unrecorded' = Lost(w)
    BY <1>5, BreakFacts, LostType
  <2>2. Working(w) => <<local[w].event, local[w].attempts>> \in unrecorded'
    BY <2>1 DEF Lost
  <2> QED BY <2>1, <2>2, LeaseStep
<1>6. ASSUME NEW w \in Workers, Work(w) PROVE LeaseOwned(e)'
  <2>1. /\ Frame(w) /\ unrecorded \subseteq unrecorded'
        /\ claimant' = IF pc[w] = "claim" /\ pc'[w] = "begin"
                       THEN [claimant EXCEPT ![local'[w].event] = w] ELSE claimant
        /\ claimant \in [Events -> Workers \cup {None}]
    BY <1>6, WorkFacts, StepFacts DEF Work, WInv, LivesOK
  <2>2. CASE rows' = rows /\ ~Working(w) /\ pc'[w] # "begin"
    BY <2>1, <2>2, LeaseStep
  <2>3. CASE pc[w] = "claim" /\ pc'[w] = "begin" /\ \E f \in Events : Locks(w, f)
    <3>1. PICK f \in Events : Locks(w, f)
      BY <2>3
    <3>2. claimant' = [claimant EXCEPT ![f] = w]
      BY <2>1, <2>3, <3>1 DEF Locks
    <3>3. CASE e = f
      BY <2>1, <2>3, <3>1, <3>2, <3>3 DEF Locks, LeaseOwned, Working
    <3>4. CASE e # f
      BY <2>1, <2>3, <3>1, <3>2, <3>4, LeaseStep DEF Locks, Working
    <3> QED BY <3>3, <3>4
  <2>4. CASE /\ pc[w] \in {"begin", "handle"} /\ pc'[w] \in {"handle", "mark"}
             /\ rows' = rows /\ SameAttempt(w)
    <3>1. Working(w)' /\ claimant' = claimant
      BY <2>1, <2>4 DEF Working
    <3> QED BY <2>1, <2>4, <3>1, LeaseStep
  <2>5. CASE pc[w] = "handle" /\ pc'[w] = "idle" /\ rows' = rows
    <3>1. Working(w) => <<local[w].event, local[w].attempts>> \in unrecorded'
      BY <1>6, <2>5, WorkFacts DEF Lost
    <3> QED BY <2>1, <2>5, <3>1, LeaseStep
  <2>6. CASE pc[w] = "mark" /\ pc'[w] = "idle" /\ Settled(w)
    BY <2>1, <2>6, LeaseStep DEF Settled
  <2> QED BY <1>6, <2>2, <2>3, <2>4, <2>5, <2>6, WorkFacts, StepFacts DEF WInv, Working
<1> QED BY <1>2, <1>3, <1>4, <1>5, <1>6, WorkerSteps

\* The numbers that the times of a worker are.
LEMMA Times ==
    ASSUME WInv, NEW w \in Workers
    PROVE  /\ clock \in Nat /\ WorkTimeout \in Nat
           /\ local[w].deadline \in Nat
           /\ pc[w] \in Labels
           /\ Signalled(w) => signalledAt[w] \in Nat
  BY OutboxAssumption DEF WInv, LivesOK, IInv, TypeOK, Locals, Signalled

LEMMA TimeKept ==
    ASSUME WInv, WorkerNext, NEW v \in Workers
    PROVE  TimeOK(v)'
<1>1. TimeOK(v) /\ LifeOK(v) /\ signalledAt \in [Workers -> Nat \cup {None}]
      /\ life \in [Workers -> Stages]
  BY DEF WInv, LivesOK
<1>2. CASE Add
  BY <1>1, <1>2 DEF Add, Insert, lives, TimeOK, Signalled
<1>3. CASE Wait
  <2>1. clock' = clock + 1 /\ UNCHANGED <<pc, local, life, signalledAt>> /\ ~Due(v)
    BY <1>3 DEF Wait, Tick, lives
  <2>2. /\ life[v] \in {"starting", "running"} /\ Signalled(v) => pc[v] \in {"handle", "mark"}
        /\ pc[v] \in {"handle", "mark"} => life[v] = "running" /\ clock < local[v].deadline
        /\ pc[v] # "idle" => life[v] = "running"
    BY <1>1, <2>1, Times DEF Due, Labels, LifeOK
  <2> QED BY <1>1, <2>1, <2>2, Times DEF TimeOK, Signalled
<1>4. ASSUME NEW w \in Workers, Turns(w) PROVE TimeOK(v)'
  <2>1. UNCHANGED <<clock, pc, local>>
    BY <1>4, TurnFacts
  <2>2. CASE signalledAt'[v] = signalledAt[v] /\ (life'[v] = life[v] \/ life'[v] \in Ended)
    BY <1>1, <2>1, <2>2 DEF TimeOK, Signalled, Ended
  <2>3. CASE /\ signalledAt'[v] = signalledAt[v]
             /\ life[v] = "starting" /\ life'[v] = "running" /\ ~Signalled(v)
    BY <1>1, <2>1, <2>3 DEF TimeOK, Signalled
  <2>4. CASE signalledAt'[v] = clock /\ life' = life
    BY <1>1, <2>1, <2>4, Times DEF TimeOK
  <2>5. CASE Start(w)
    BY <1>1, <2>2, <2>3, <2>5 DEF Start, Become, Ended
  <2>6. CASE Signal(w)
    BY <1>1, <2>2, <2>4, <2>6 DEF Signal, Become, Ended
  <2>7. CASE RunReturns(w)
    BY <1>1, <2>2, <2>7 DEF RunReturns, Become, Ended
  <2> QED BY <1>4, <2>5, <2>6, <2>7 DEF Turns
<1>5. ASSUME NEW w \in Workers, Breaks(w) PROVE TimeOK(v)'
  <2>1. /\ Frame(w) /\ pc'[w] = "idle" /\ clock' = clock /\ signalledAt' = signalledAt
        /\ life[w] = "running"
        /\ \/ life' = life /\ pc[w] \in {"claim", "begin", "mark"}
           \/ \E end \in Ended : life' = [life EXCEPT ![w] = end]
    BY <1>5, BreakFacts
  <2>2. CASE v = w /\ life' = life
    BY <1>1, <2>1, <2>2, Times DEF TimeOK, Signalled, Ended
  <2>3. CASE v = w /\ life'[w] \in Ended
    BY <1>1, <2>1, <2>3 DEF TimeOK, Ended
  <2>4. CASE v # w
    <3>1. pc'[v] = pc[v] /\ local'[v] = local[v] /\ life'[v] = life[v]
      BY <1>1, <2>1, <2>4 DEF Frame
    <3> QED BY <1>1, <2>1, <3>1 DEF TimeOK, Signalled
  <2> QED BY <1>1, <2>1, <2>2, <2>3, <2>4
<1>6. ASSUME NEW w \in Workers, Work(w) PROVE TimeOK(v)'
  <2>1. Frame(w) /\ clock' = clock /\ life' = life /\ signalledAt' = signalledAt
    BY <1>6, WorkFacts, StepFacts DEF WInv
  <2>2. CASE v # w
    BY <1>1, <2>1, <2>2 DEF Frame, TimeOK, Signalled
  <2>3. CASE v = w
    <3>1. pc[w] = "idle" => ~Signalled(w)
      BY <1>6 DEF Work, MayPoll
    <3>2. \/ pc[w] = "idle" /\ pc'[w] = "claim"
          \/ pc[w] = "claim" /\ pc'[w] = "idle"
          \/ pc[w] = "claim" /\ pc'[w] = "begin"
          \/ pc[w] = "begin" /\ pc'[w] = "handle" /\ local'[w].deadline = clock + WorkTimeout
          \/ pc[w] = "handle" /\ pc'[w] = "mark" /\ local'[w].deadline = local[w].deadline
          \/ pc[w] \in {"handle", "mark"} /\ pc'[w] = "idle"
      BY <1>6, WorkFacts, StepFacts DEF WInv
    <3>3. life[w] = "running"
      BY <1>6, WorkFacts
    <3> QED BY <1>1, <2>1, <2>3, <3>1, <3>2, <3>3, Times DEF TimeOK, Signalled
  <2> QED BY <2>2, <2>3
<1> QED BY <1>2, <1>3, <1>4, <1>5, <1>6, WorkerSteps

-----------------------------------------------------------------------------
(* Theorems.                                                               *)

LEMMA InitWInv == WorkerInit => WInv
<1> SUFFICES ASSUME WorkerInit PROVE WInv
  OBVIOUS
<1>1. IInv
  BY InitIInv DEF WorkerInit
<1>2. LivesOK
  BY DEF WorkerInit, LivesOK, Stages
<1>3. \A w \in Workers : LifeOK(w) /\ TimeOK(w)
  BY DEF WorkerInit, Init, LifeOK, TimeOK, Signalled
<1>4. \A e \in Events : LeaseOwned(e)
  BY DEF WorkerInit, Init, NoRow, LeaseOwned
<1> QED BY <1>1, <1>2, <1>3, <1>4 DEF WInv

LEMMA NextWInv == WInv /\ [WorkerNext]_allVars => WInv'
<1> SUFFICES ASSUME WInv, [WorkerNext]_allVars PROVE WInv'
  OBVIOUS
<1>1. CASE WorkerNext
  BY <1>1, OutboxKept, LivesKept, LifeKept, LeaseKept, TimeKept DEF WInv
<1>2. CASE UNCHANGED allVars
  <2>1. UNCHANGED vars /\ UNCHANGED lives
    BY <1>2 DEF allVars
  <2>2. IInv'
    BY <2>1, NextIInv DEF WInv
  <2> QED BY <2>1, <2>2 DEF WInv, vars, lives, LivesOK, LifeOK, LeaseOwned, TimeOK,
             Working, Signalled
<1> QED BY <1>1, <1>2

\* The inductive invariant holds in every reachable state.
THEOREM WorkerInvariance == WorkerSpec => []WInv
  BY InitWInv, NextWInv, PTL DEF WorkerSpec

\* Workers that are started, told to stop and killed as in cmd/worker/main.go take no step
\* that Outbox does not know: what is proved of Outbox holds of them.
THEOREM LivesImplementOutbox == WorkerSpec => Spec
<1>1. WorkerInit => Init
  BY DEF WorkerInit
<1>2. WInv /\ [WorkerNext]_allVars => [Next]_vars
  BY StepOfOutbox DEF allVars
<1> QED BY <1>1, <1>2, WorkerInvariance, PTL DEF WorkerSpec, Spec

\* A worker that ends in good order leaves no event locked but by attempts whose record was
\* lost: Run returns only between two calls of processOne, or out of ClaimNext.
THEOREM StopIsClean == WorkerSpec => []StopRecordsAttempt
<1>1. WInv => StopRecordsAttempt
  <2> SUFFICES ASSUME WInv, NEW e \in Events,
                      rows[e].lockId # None,
                      claimant[e] # None,
                      life[claimant[e]] = "orderly",
                      <<e, rows[e].lockId>> \notin unrecorded
               PROVE  FALSE
    BY DEF StopRecordsAttempt
  <2>1. claimant[e] \in Workers /\ Working(claimant[e])
    BY DEF WInv, LeaseOwned
  <2>2. pc[claimant[e]] = "idle"
    BY <2>1 DEF WInv, LifeOK
  <2> QED BY <2>1, <2>2 DEF Working
<1> QED BY <1>1, WorkerInvariance, PTL

\* A worker is gone workTimeout after the signal: ClaimNext runs under the context that the
\* signal ends, and the attempt under way under a timeout that began before it.
THEOREM StopIsPrompt == WorkerSpec => []StopsInTime
<1>1. WInv => StopsInTime
  <2> SUFFICES ASSUME WInv, NEW w \in Workers, life[w] = "running", Signalled(w)
               PROVE  clock <= signalledAt[w] + WorkTimeout
    BY DEF StopsInTime
  <2>1. TimeOK(w)
    BY DEF WInv
  <2> QED BY <2>1, Times DEF TimeOK, Labels
<1> QED BY <1>1, WorkerInvariance, PTL
=============================================================================
