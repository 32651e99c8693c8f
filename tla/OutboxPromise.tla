--------------------------- MODULE OutboxPromise ---------------------------
(***************************************************************************)
(* What the durable outbox promises the services that write to it, with    *)
(* no leases, workers or clocks: an accepted event is owed until it is     *)
(* either delivered or, after MaxAttempts recorded failures, dead; every   *)
(* attempt that counts is counted once; an outcome is final.               *)
(* OutboxLease, the leased queue of the code, implements it.               *)
(***************************************************************************)
EXTENDS Naturals

CONSTANTS
    Events,       \* outbox events
    MaxAttempts   \* outbox_max_attempts

VARIABLES
    phase,   \* phase[e] \in {"none", "owed", "delivered", "dead"}
    tries    \* tries[e] = attempts recorded against e

promise == <<phase, tries>>

PromiseInit ==
    /\ phase = [e \in Events |-> "none"]
    /\ tries = [e \in Events |-> 0]

Accept(e) ==
    /\ phase[e] = "none"
    /\ phase' = [phase EXCEPT ![e] = "owed"]
    /\ UNCHANGED tries

Deliver(e) ==
    /\ phase[e] = "owed"
    /\ phase' = [phase EXCEPT ![e] = "delivered"]
    /\ tries' = [tries EXCEPT ![e] = @ + 1]

Postpone(e) ==
    /\ phase[e] = "owed"
    /\ tries[e] + 1 < MaxAttempts
    /\ tries' = [tries EXCEPT ![e] = @ + 1]
    /\ UNCHANGED phase

Bury(e) ==
    /\ phase[e] = "owed"
    /\ tries[e] + 1 = MaxAttempts
    /\ phase' = [phase EXCEPT ![e] = "dead"]
    /\ tries' = [tries EXCEPT ![e] = @ + 1]

PromiseNext ==
    \E e \in Events : Accept(e) \/ Deliver(e) \/ Postpone(e) \/ Bury(e)

PromiseSpec == PromiseInit /\ [][PromiseNext]_promise
=============================================================================
