---------------------------- MODULE OutboxTuning ----------------------------
(***************************************************************************)
(* OutboxLease with a stopwatch per worker, to ask how the lease has to be *)
(* sized: against the slowest provider call, as ADR-073 tells operators,   *)
(* or against the batch, since run_once reads the clock once and every     *)
(* event of the batch expires at the same moment.                          *)
(***************************************************************************)
EXTENDS OutboxLease

VARIABLES
    running,   \* running[w]: ticks the delivery at hand has taken so far
    slowest    \* the longest any delivery has taken, up to LeaseTicks

Longer(w) ==
    IF batch[w] # {} /\ running[w] < LeaseTicks THEN running[w] + 1 ELSE running[w]

TimedInit ==
    /\ Init
    /\ running = [w \in Workers |-> 0]
    /\ slowest = 0

TimedTick ==
    /\ Tick
    /\ running' = [w \in Workers |-> Longer(w)]
    /\ slowest' = CHOOSE n \in {slowest} \cup {running'[w] : w \in Workers} :
                     \A w \in Workers : slowest <= n /\ running'[w] <= n

\* A step of one worker or of a service; the next delivery starts from zero.
TimedStep ==
    /\ \/ \E e \in Events : Enqueue(e)
       \/ \E w \in Workers :
             Claim(w) \/ SettleDelivered(w) \/ SettleRetry(w) \/ SettleDead(w) \/ Crash(w)
    /\ running' = [w \in Workers |-> IF batch'[w] = batch[w] THEN running[w] ELSE 0]
    /\ UNCHANGED slowest

TimedSpec ==
    TimedInit /\ [][TimedTick \/ TimedStep]_<<vars, running, slowest>>

\* ADR-073 sizes the lease by one call ("must exceed the slowest expected
\* projection call"): while no call has reached the lease, no claim is lost.
CallsWithinLeaseKeepIt ==
    slowest < LeaseTicks => \A w \in Workers : \A c \in batch[w] : Holds(c)
=============================================================================
