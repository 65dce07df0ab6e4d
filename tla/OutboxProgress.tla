--------------------------- MODULE OutboxProgress ---------------------------
(***************************************************************************)
(* That the outbox of module Outbox gets its events done.                  *)
(*                                                                         *)
(* Retries and leases need time to go on, so the clock cannot stop at      *)
(* MaxTime.  Instead of the clock going on, the stored times fall behind:  *)
(* the code compares times only with each other, so moving all of them     *)
(* back by one tick is one tick of time.  A time that has fallen behind by *)
(* more than every lease and delay need not fall further.                  *)
(*                                                                         *)
(* The processes may stop, lose answers and be late, but not for ever: the *)
(* first MaxTrouble - 1 attempts of an event meet any trouble, a later one *)
(* meets none.                                                             *)
(***************************************************************************)
EXTENDS Outbox

CONSTANT MaxTrouble    \* bound: from this attempt on an event meets no trouble

ASSUME ProgressAssumption ==
    /\ MaxTrouble \in Nat \ {0}
    /\ MaxTime > LockLease

\* The attempt of worker w meets no trouble.
Smooth(w) == Working(w) /\ local[w].attempts >= MaxTrouble

-----------------------------------------------------------------------------
(* Time.                                                                   *)

Earlier(t) == IF t \in {0, None} THEN t ELSE t - 1

\* No attempt that meets no trouble is waiting for its next step, and no ClaimNext takes
\* longer than MaxTime - LockLease.
MayPass ==
    \A w \in Workers : /\ ~Smooth(w)
                       /\ pc[w] = "claim" => local[w].now > LockLease

\* A tick of time at the bound of the clock.
Pass ==
    /\ clock = MaxTime
    /\ MayPass
    /\ rows' = [e \in Events |->
          [rows[e] EXCEPT !.createdAt = Earlier(@), !.availableAt = Earlier(@),
                          !.lockedAt = Earlier(@)]]
    /\ local' = [w \in Workers |->
          [local[w] EXCEPT !.now = Earlier(@), !.deadline = Earlier(@), !.retryAt = Earlier(@)]]
    /\ UNCHANGED <<clock, handled, pc>>

TimePasses == (Tick /\ \A w \in Workers : ~Smooth(w)) \/ Pass

-----------------------------------------------------------------------------
Trouble(w) == GiveUp(w) /\ ~Smooth(w)

ProgressNext ==
    \/ \E e \in Events : Insert(e)
    \/ \E w \in Workers : Step(w)
    \/ \E w \in Workers : Trouble(w)
    \/ TimePasses

\* ClaimNext returns an event.
ClaimSome(w) == Claim(w) /\ pc'[w] = "begin"

\* Processes run and time passes.  A poll may fail or come too early any number of times,
\* but one that could succeed again and again does succeed.
Fairness ==
    /\ WF_vars(TimePasses)
    /\ \A w \in Workers : WF_vars(Step(w)) /\ SF_vars(ClaimSome(w))

ProgressSpec == Init /\ [][ProgressNext]_vars /\ Fairness

-----------------------------------------------------------------------------
(* Properties.                                                             *)

\* An event that was inserted is in the end processed or failed: a stopped worker's lease
\* runs out, a retry becomes available, and the last attempt is final.
EveryEventFinished ==
    \A e \in Events : Inserted(e) ~> (rows[e].processed \/ rows[e].failed)
=============================================================================
