---------------------------- MODULE OutboxQueue ----------------------------
(***************************************************************************)
(* What the outbox promises, without workers, leases and time: an event    *)
(* that was added is attempted until it is processed or has failed, and    *)
(* then never again.  It is put back for another attempt only below the    *)
(* limit of attempts; beyond the limit an attempt can only take over from  *)
(* one that ended without a word.                                          *)
(***************************************************************************)
EXTENDS Naturals

CONSTANTS
    Events,        \* events that may be added
    MaxAttempts    \* attempts after which an event is not put back

VARIABLES
    status,        \* of each event: absent, waiting, running, processed or failed
    attempts       \* how often it was attempted

vars == <<status, attempts>>

Init ==
    /\ status = [e \in Events |-> "absent"]
    /\ attempts = [e \in Events |-> 0]

Become(e, from, to) ==
    /\ status[e] = from
    /\ status' = [status EXCEPT ![e] = to]

CountAttempt(e) == attempts' = [attempts EXCEPT ![e] = @ + 1]

Add(e)      == Become(e, "absent", "waiting") /\ UNCHANGED attempts
Attempt(e)  == attempts[e] < MaxAttempts /\ Become(e, "waiting", "running") /\ CountAttempt(e)
TakeOver(e) == Become(e, "running", "running") /\ CountAttempt(e)
PutBack(e)  == attempts[e] < MaxAttempts /\ Become(e, "running", "waiting") /\ UNCHANGED attempts
Finish(e)   == Become(e, "running", "processed") /\ UNCHANGED attempts
Fail(e)     == Become(e, "running", "failed") /\ UNCHANGED attempts

Next == \E e \in Events : \/ Add(e) \/ Attempt(e) \/ TakeOver(e)
                          \/ PutBack(e) \/ Finish(e) \/ Fail(e)

Spec == Init /\ [][Next]_vars
=============================================================================
