---------------------------- MODULE OutboxLease ----------------------------
(***************************************************************************)
(* The leased outbox: claim_outbox and update_outbox of the record stores  *)
(* and the batch loop of OutboxWorker around them.  What a delivery does   *)
(* to the provider is abstracted to "succeeded" or "raised"; the module    *)
(* ProjectionDelivery opens it up.                                         *)
(*                                                                         *)
(* Time is relative: next_attempt_at and lease_expires_at are kept as the  *)
(* number of ticks left until them, and a batch keeps the number of ticks  *)
(* since its single clock reading.  All three saturate, so no clock value  *)
(* is bounded artificially.                                                *)
(***************************************************************************)
EXTENDS Integers, FiniteSets

CONSTANTS
    Events,       \* outbox events; a number is the rank of created_at
    Workers,      \* worker processes
    Leases,       \* lease ids in circulation (uuid4 in the code)
    NoLease,      \* lease_id IS NULL
    MaxAttempts,  \* outbox_max_attempts
    LeaseTicks,   \* outbox_lease_seconds
    BaseDelay,    \* outbox_base_delay_seconds
    BatchSize,    \* outbox_batch_size
    MaxCrashes,   \* bound: how often a worker process dies
    MaxOverruns   \* bound: ticks by which a batch may outlive its lease

ASSUME EventsAssumption == Events \subseteq Nat /\ IsFiniteSet(Events)
ASSUME LeasesAssumption == NoLease \notin Leases
ASSUME LimitsAssumption ==
    /\ MaxAttempts \in Nat \ {0}
    /\ LeaseTicks \in Nat \ {0}
    /\ BaseDelay \in Nat
    /\ BatchSize \in Nat \ {0}
    /\ MaxCrashes \in Nat
    /\ MaxOverruns \in Nat

VARIABLES
    outbox,    \* the rows of outbox_events
    batch,     \* batch[w]: claims w has not settled yet (the list run_once iterates)
    elapsed,   \* elapsed[w]: ticks since the clock reading of w's batch
    crashes,   \* worker deaths so far
    overruns   \* late ticks so far

vars == <<outbox, batch, elapsed, crashes, overruns>>

Pow2 == <<1, 2, 4, 8, 16, 32, 64, 128, 256, 512, 1024>>

\* outbox_base_delay_seconds * (2 ** min(attempts - 1, 10))
Backoff(attempts) ==
    BaseDelay * Pow2[IF attempts <= 11 THEN attempts ELSE 11]

\* elapsed is only ever compared with a backoff, so it may saturate here.
LongestDelay == Backoff(MaxAttempts)

\* MemoryService reaches the terminal statuses only through a settlement.
Open    == {"PENDING", "RETRY", "PROCESSING"}
Settled == {"DELIVERED", "DEAD"}

Row == [status : {"ABSENT"} \cup Open \cup Settled, attempts : Nat,
        wait : Nat, lease : Leases \cup {NoLease}, left : Nat]

\* What the worker keeps of a claimed event: the copy claim_outbox returned.
Claimed == [event : Events, lease : Leases, attempts : Nat]

NewRow ==
    [status |-> "PENDING", attempts |-> 0, wait |-> 0, lease |-> NoLease, left |-> 0]

Init ==
    /\ outbox = [e \in Events |-> [NewRow EXCEPT !.status = "ABSENT"]]
    /\ batch = [w \in Workers |-> {}]
    /\ elapsed = [w \in Workers |-> 0]
    /\ crashes = 0
    /\ overruns = 0

---------------------------------------------------------------------------
\* A service commits an event with the record it is about.
Enqueue(e) ==
    /\ outbox[e].status = "ABSENT"
    /\ outbox' = [outbox EXCEPT ![e] = NewRow]
    /\ UNCHANGED <<batch, elapsed, crashes, overruns>>

\* Mutation: a lease is taken over while it is live.
ClaimableEarly(e) ==
    \/ outbox[e].status \in {"PENDING", "RETRY"} /\ outbox[e].wait = 0
    \/ outbox[e].status = "PROCESSING"

\* Mutation: a PROCESSING row is never looked at again (the code before ADR-073).
ClaimableOnce(e) ==
    outbox[e].status \in {"PENDING", "RETRY"} /\ outbox[e].wait = 0

Claimable(e) ==
    \/ outbox[e].status \in {"PENDING", "RETRY"} /\ outbox[e].wait = 0
    \/ outbox[e].status = "PROCESSING" /\ outbox[e].left = 0

\* ORDER BY created_at ASC LIMIT batch size
Selected ==
    {e \in Events :
        /\ Claimable(e)
        /\ Cardinality({d \in Events : d < e /\ Claimable(d)}) < BatchSize}

LeasesInUse ==
    {outbox[e].lease : e \in Events}
        \cup {c.lease : c \in UNION {batch[w] : w \in Workers}}

\* Mutation: leases are not fresh, as if a worker stamped its own name.
ReusedLease == CHOOSE l \in Leases : TRUE

\* uuid4(), one for each row a claim selects; the rows of one claim share an id
\* here, for leases are only ever compared per event.
FreshLease == CHOOSE l \in Leases : l \notin LeasesInUse

\* What claim_outbox writes to a selected row, and the copy it returns.
Leased(row, l) ==
    [row EXCEPT !.status = "PROCESSING", !.lease = l, !.left = LeaseTicks]

ClaimOf(e, l) == [event |-> e, lease |-> l, attempts |-> outbox[e].attempts]

\* claim_outbox
Claim(w) ==
    /\ batch[w] = {}
    /\ Selected # {}
    /\ ~ Leases \subseteq LeasesInUse
    /\ outbox' = [e \in Events |->
          IF e \in Selected THEN Leased(outbox[e], FreshLease) ELSE outbox[e]]
    /\ batch' = [batch EXCEPT ![w] = {ClaimOf(e, FreshLease) : e \in Selected}]
    /\ elapsed' = [elapsed EXCEPT ![w] = 0]
    /\ UNCHANGED <<crashes, overruns>>

---------------------------------------------------------------------------
\* run_once works through its batch in the order it was claimed.
IsNext(w, c) == c \in batch[w] /\ \A d \in batch[w] : c.event <= d.event

\* Mutation: update_outbox does not compare lease ids.
HoldsUnchecked(c) == outbox[c.event].status # "ABSENT"

\* update_outbox's guard: the row still carries the caller's lease.
Holds(c) == outbox[c.event].lease = c.lease

Outcome(c, status, wait) ==
    [status |-> status, attempts |-> c.attempts + 1, wait |-> wait,
     lease |-> NoLease, left |-> 0]

\* update_outbox: write the outcome and clear the lease, or (lease lost) drop it.
Settle(w, c, status, wait) ==
    /\ outbox' =
         IF Holds(c)
         THEN [outbox EXCEPT ![c.event] = Outcome(c, status, wait)]
         ELSE outbox
    /\ batch' = [batch EXCEPT ![w] = @ \ {c}]
    /\ UNCHANGED <<elapsed, crashes, overruns>>

\* The delivery of the event at hand returned.
SettleDelivered(w) ==
    \E c \in batch[w] : IsNext(w, c) /\ Settle(w, c, "DELIVERED", 0)

\* The delivery raised, and an attempt is left: back off from the batch's
\* own clock reading, which is elapsed[w] ticks old by now.
SettleRetry(w) ==
    \E c \in batch[w] :
        /\ IsNext(w, c)
        /\ c.attempts + 1 < MaxAttempts
        /\ LET delay == Backoff(c.attempts + 1) IN
            Settle(w, c, "RETRY", IF delay > elapsed[w] THEN delay - elapsed[w] ELSE 0)

\* The delivery raised for the last time.
SettleDead(w) ==
    \E c \in batch[w] :
        /\ IsNext(w, c)
        /\ c.attempts + 1 >= MaxAttempts
        /\ Settle(w, c, "DEAD", 0)

---------------------------------------------------------------------------
\* The worker process dies; its claims stay PROCESSING.  run_once also ends
\* this way when the store fails with anything but a StoreError.
Crash(w) ==
    /\ batch[w] # {}
    /\ crashes < MaxCrashes
    /\ crashes' = crashes + 1
    /\ batch' = [batch EXCEPT ![w] = {}]
    /\ UNCHANGED <<outbox, elapsed, overruns>>

\* No batch holds a lease that this tick would let expire.
Punctual ==
    \A w \in Workers : \A c \in batch[w] : Holds(c) => outbox[c.event].left > 1

Decrement(n) == IF n > 0 THEN n - 1 ELSE 0

Aged(row) == [row EXCEPT !.wait = Decrement(@), !.left = Decrement(@)]

Older(w) ==
    IF batch[w] # {} /\ elapsed[w] < LongestDelay THEN elapsed[w] + 1 ELSE elapsed[w]

\* One unit of time.
Tick ==
    /\ \/ Punctual /\ UNCHANGED overruns
       \/ ~Punctual /\ overruns < MaxOverruns /\ overruns' = overruns + 1
    /\ outbox' = [e \in Events |-> Aged(outbox[e])]
    /\ elapsed' = [w \in Workers |-> Older(w)]
    /\ UNCHANGED <<batch, crashes>>

Next ==
    \/ \E e \in Events : Enqueue(e)
    \/ \E w \in Workers :
          Claim(w) \/ SettleDelivered(w) \/ SettleRetry(w) \/ SettleDead(w) \/ Crash(w)
    \/ Tick

Spec == Init /\ [][Next]_vars

\* The worker loop polls for ever, a provider call returns or raises, and
\* time passes.  Which of the two a call does is not assumed.
Fairness ==
    /\ \A w \in Workers :
         /\ WF_vars(Claim(w))
         /\ WF_vars(SettleDelivered(w) \/ SettleRetry(w) \/ SettleDead(w))
    /\ WF_vars(Tick)

FairSpec == Spec /\ Fairness
---------------------------------------------------------------------------
TypeOK ==
    /\ outbox \in [Events -> Row]
    /\ batch \in [Workers -> SUBSET Claimed]
    /\ elapsed \in [Workers -> 0..LongestDelay]
    /\ crashes \in 0..MaxCrashes
    /\ overruns \in 0..MaxOverruns

\* However claims, expiries, crashes and late settlements interleave, at most
\* one unsettled claim holds the lease of an event (ADR-073: a claim is
\* exclusive), and what that claim remembers of the row is what the row says:
\* the settlement it will write counts the attempt from the right number.
HolderIsCurrent ==
    \A w \in Workers : \A c \in batch[w] : Holds(c) =>
        /\ outbox[c.event].status = "PROCESSING"
        /\ outbox[c.event].attempts = c.attempts
        /\ \A v \in Workers : \A d \in batch[v] :
              d.event = c.event /\ Holds(d) => v = w /\ d = c

\* While every batch has been finished within the lease it was claimed with,
\* no worker ever works on an event somebody else may claim: a claim is lost
\* only to a batch that outran its lease, or to a crash.
PunctualWorkersKeepLeases ==
    overruns = 0 => \A w \in Workers : \A c \in batch[w] : Holds(c)

\* A lease that has not expired ends only by a settlement (ADR-073: "An event
\* with a live lease is not claimable by another worker").
LiveLeaseIsKept ==
    [][\A e \in Events :
         outbox[e].status = "PROCESSING" /\ outbox[e].left > 0
             /\ outbox'[e].lease # outbox[e].lease
         => outbox'[e].lease = NoLease]_vars

\* Every committed event is settled in the end: failures run out of attempts,
\* crashed claims expire, late settlements are dropped but somebody settles
\* (ADR-073: no event is stranded).
EverySettled ==
    \A e \in Events :
        outbox[e].status = "PENDING" ~> outbox[e].status \in Settled

\* The leased queue keeps the promise of OutboxPromise: an event leaves the
\* queue once, with the number of attempts that were really made, and dies
\* only when MaxAttempts of them have failed.
phaseBar ==
    [e \in Events |->
        CASE outbox[e].status = "ABSENT"    -> "none"
          [] outbox[e].status = "DELIVERED" -> "delivered"
          [] outbox[e].status = "DEAD"      -> "dead"
          [] OTHER                          -> "owed"]

triesBar == [e \in Events |-> outbox[e].attempts]

Promise == INSTANCE OutboxPromise WITH phase <- phaseBar, tries <- triesBar

KeepsPromise == Promise!PromiseSpec
=============================================================================
