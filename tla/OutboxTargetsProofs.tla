------------------------- MODULE OutboxTargetsProofs ------------------------
(***************************************************************************)
(* Proofs about what the worker delivers: OutboxLease (the queue it claims *)
(* events from), then ProjectionTargets (the stores it delivers them to,   *)
(* while a namespace moves from one to the next).                          *)
(***************************************************************************)
EXTENDS OutboxLease, ProjectionTargets, FiniteSetTheorems, TLAPS

---------------------------------------------------------------------------
(***************************************************************************)
(* Theorems about OutboxLease for any number of events, workers, leases    *)
(* and attempts.  The inductive invariant says why a lease id is enough:   *)
(* ids are fresh when stamped, so of all claims of an event in circulation *)
(* at most one carries the id the row carries, and that one was made from  *)
(* the row as it still is.                                                 *)
(***************************************************************************)
\* A row carries a lease id exactly while it is PROCESSING.
LeasedRows ==
    \A e \in Events : outbox[e].lease # NoLease <=> outbox[e].status = "PROCESSING"

\* A lease id and an event determine the claim.
ClaimsDistinct ==
    \A v, w \in Workers : \A c \in batch[v], d \in batch[w] :
        c.event = d.event /\ c.lease = d.lease => v = w /\ c = d

\* The holder remembers the attempts the row has.
ClaimsCurrent ==
    \A w \in Workers : \A c \in batch[w] :
        Holds(c) => outbox[c.event].attempts = c.attempts

\* An event on its way has attempts left, a dead one has none.
AttemptsInBounds ==
    \A e \in Events :
        /\ outbox[e].status = "ABSENT" => outbox[e].attempts = 0
        /\ outbox[e].status \in Open => outbox[e].attempts < MaxAttempts

\* Before the first overrun every claim is held, with time left.
ClaimsInTime ==
    overruns = 0 =>
        \A w \in Workers : \A c \in batch[w] : Holds(c) /\ outbox[c.event].left > 0

IInv ==
    /\ TypeOK
    /\ LeasedRows
    /\ ClaimsDistinct
    /\ ClaimsCurrent
    /\ AttemptsInBounds
    /\ ClaimsInTime

---------------------------------------------------------------------------
\* A backoff delay is a natural number: at least one attempt was made.
LEMMA BackoffNat == \A n \in Nat \ {0} : Backoff(n) \in Nat
<1>1. TAKE n \in Nat \ {0}
<1> DEFINE i == IF n <= 11 THEN n ELSE 11
<1>2. i \in 1..11
  OBVIOUS
<1>3. Pow2[i] \in Nat
  BY <1>2 DEF Pow2
<1>4. QED
  BY <1>3, LimitsAssumption DEF Backoff

\* The saturation point of elapsed is a number.
LEMMA LongestDelayNat == LongestDelay \in Nat
BY BackoffNat, LimitsAssumption DEF LongestDelay

\* The lease stamped by a claim is in nobody's hands.
LEMMA FreshLeaseIsFresh ==
    ASSUME ~ Leases \subseteq LeasesInUse
    PROVE  /\ FreshLease \in Leases
           /\ FreshLease # NoLease
           /\ \A e \in Events : outbox[e].lease # FreshLease
           /\ \A w \in Workers : \A c \in batch[w] : c.lease # FreshLease
<1>1. FreshLease \in Leases /\ FreshLease \notin LeasesInUse
  BY DEF FreshLease
<1>2. QED
  BY <1>1, LeasesAssumption DEF LeasesInUse

\* The fields of the rows and claims the actions build.
LEMMA LeasedFields ==
    ASSUME NEW row \in Row, NEW l \in Leases
    PROVE  /\ Leased(row, l) \in Row
           /\ Leased(row, l).status = "PROCESSING"
           /\ Leased(row, l).attempts = row.attempts
           /\ Leased(row, l).lease = l
           /\ Leased(row, l).left = LeaseTicks
BY LimitsAssumption DEF Leased, Row, Open

\* What a batch remembers of the row it claims.
LEMMA ClaimFields ==
    ASSUME NEW e \in Events, NEW l
    PROVE  /\ ClaimOf(e, l).event = e
           /\ ClaimOf(e, l).lease = l
           /\ ClaimOf(e, l).attempts = outbox[e].attempts
BY DEF ClaimOf

\* A tick changes nothing but the times of a row.
LEMMA AgedFields ==
    ASSUME NEW row \in Row
    PROVE  /\ Aged(row) \in Row
           /\ Aged(row).status = row.status
           /\ Aged(row).attempts = row.attempts
           /\ Aged(row).lease = row.lease
           /\ Aged(row).left = Decrement(row.left)
<1>1. Decrement(row.wait) \in Nat /\ Decrement(row.left) \in Nat
  BY DEF Row, Decrement
<1>2. QED
  BY <1>1 DEF Aged, Row

\* The row a settlement writes.
LEMMA OutcomeFields ==
    ASSUME NEW c \in Claimed, NEW wait \in Nat,
           NEW status \in {"RETRY", "DELIVERED", "DEAD"}
    PROVE  /\ Outcome(c, status, wait) \in Row
           /\ Outcome(c, status, wait).status = status
           /\ Outcome(c, status, wait).attempts = c.attempts + 1
           /\ Outcome(c, status, wait).lease = NoLease
BY DEF Outcome, Row, Claimed, Open, Settled

\* The inductive invariant holds of an empty table.
THEOREM InitIInv == Init => IInv
<1> SUFFICES ASSUME Init PROVE IInv
  OBVIOUS
<1>1. TypeOK
  <2>1. LongestDelay \in Nat
    BY LongestDelayNat
  <2>2. outbox \in [Events -> Row]
    BY DEF Init, NewRow, Row, Open, Settled
  <2>3. QED
    BY <2>1, <2>2, LimitsAssumption DEF Init, TypeOK
<1>2. LeasedRows /\ AttemptsInBounds
  BY DEF Init, NewRow, LeasedRows, AttemptsInBounds, Open
<1>3. QED
  BY <1>1, <1>2 DEF Init, IInv, ClaimsDistinct, ClaimsCurrent, ClaimsInTime
---------------------------------------------------------------------------
\* Every settlement, effective or dropped, keeps the types.
LEMMA SettleTyped ==
    ASSUME TypeOK, NEW w \in Workers, NEW c \in batch[w], NEW wait \in Nat,
           NEW status \in {"RETRY", "DELIVERED", "DEAD"},
           Settle(w, c, status, wait)
    PROVE  TypeOK'
<1>1. c \in Claimed
  BY DEF TypeOK
<1>2. outbox' \in [Events -> Row]
  BY <1>1, OutcomeFields DEF TypeOK, Settle
<1>3. batch' \in [Workers -> SUBSET Claimed]
  BY DEF TypeOK, Settle
<1>4. QED
  BY <1>2, <1>3 DEF TypeOK, Settle

\* The wait left of a backoff computed from a clock reading elapsed[w] ago.
LEMMA RetryWait ==
    ASSUME TypeOK, NEW w \in Workers, NEW n \in Nat
    PROVE  LET delay == Backoff(n + 1) IN
           (IF delay > elapsed[w] THEN delay - elapsed[w] ELSE 0) \in Nat
<1>1. Backoff(n + 1) \in Nat
  BY BackoffNat
<1>2. elapsed[w] \in Nat
  BY LongestDelayNat DEF TypeOK
<1>3. QED
  BY <1>1, <1>2

\* Every step keeps the types.
THEOREM TypeStep == TypeOK /\ [Next]_vars => TypeOK'
<1> SUFFICES ASSUME TypeOK, [Next]_vars PROVE TypeOK'
  OBVIOUS
<1>1. ASSUME NEW e \in Events, Enqueue(e) PROVE TypeOK'
  <2>1. NewRow \in Row
    BY DEF NewRow, Row, Open
  <2>2. QED
    BY <1>1, <2>1 DEF TypeOK, Enqueue
<1>2. ASSUME NEW w \in Workers, Claim(w) PROVE TypeOK'
  <2>1. FreshLease \in Leases
    BY <1>2, FreshLeaseIsFresh DEF Claim
  <2>2. outbox' \in [Events -> Row]
    BY <1>2, <2>1, LeasedFields DEF TypeOK, Claim
  <2>3. \A e \in Selected : ClaimOf(e, FreshLease) \in Claimed
    BY <2>1 DEF TypeOK, Row, Claimed, ClaimOf, Selected
  <2>4. batch' \in [Workers -> SUBSET Claimed]
    BY <1>2, <2>3 DEF TypeOK, Claim
  <2>5. elapsed' \in [Workers -> 0..LongestDelay]
    <3>1. 0 \in 0..LongestDelay
      BY LongestDelayNat
    <3>2. QED
      BY <1>2, <3>1 DEF TypeOK, Claim
  <2>6. QED
    BY <1>2, <2>2, <2>4, <2>5 DEF TypeOK, Claim
<1>3. ASSUME NEW w \in Workers, SettleDelivered(w) PROVE TypeOK'
  BY <1>3, SettleTyped DEF SettleDelivered
<1>4. ASSUME NEW w \in Workers, SettleRetry(w) PROVE TypeOK'
  <2>1. PICK c \in batch[w] :
          LET delay == Backoff(c.attempts + 1) IN
          Settle(w, c, "RETRY", IF delay > elapsed[w] THEN delay - elapsed[w] ELSE 0)
    BY <1>4 DEF SettleRetry
  <2>2. c.attempts \in Nat
    BY DEF TypeOK, Claimed
  <2>3. QED
    BY <2>1, <2>2, RetryWait, SettleTyped
<1>5. ASSUME NEW w \in Workers, SettleDead(w) PROVE TypeOK'
  BY <1>5, SettleTyped DEF SettleDead
<1>6. ASSUME NEW w \in Workers, Crash(w) PROVE TypeOK'
  BY <1>6, LimitsAssumption DEF TypeOK, Crash
<1>7. CASE Tick
  <2>1. outbox' \in [Events -> Row]
    BY <1>7, AgedFields DEF TypeOK, Tick
  <2>2. elapsed' \in [Workers -> 0..LongestDelay]
    <3>1. \A w \in Workers : Older(w) \in 0..LongestDelay
      BY LongestDelayNat DEF TypeOK, Older
    <3>2. QED
      BY <1>7, <3>1 DEF Tick
  <2>3. overruns' \in 0..MaxOverruns
    BY <1>7, LimitsAssumption DEF TypeOK, Tick
  <2>4. QED
    BY <1>7, <2>1, <2>2, <2>3 DEF TypeOK, Tick
<1>8. CASE UNCHANGED vars
  BY <1>8 DEF TypeOK, vars
<1>9. QED
  BY <1>1, <1>2, <1>3, <1>4, <1>5, <1>6, <1>7, <1>8 DEF Next
---------------------------------------------------------------------------
\* A settlement touches the row of one event, and only as its holder; every
\* other row and claim stays as it was.
LEMMA SettleIInv ==
    ASSUME IInv, TypeOK', NEW w \in Workers, NEW c \in batch[w], NEW wait \in Nat,
           NEW status \in {"RETRY", "DELIVERED", "DEAD"},
           status = "RETRY" => c.attempts + 1 < MaxAttempts,
           Settle(w, c, status, wait)
    PROVE  IInv'
<1> USE DEF IInv
<1>1. c \in Claimed /\ c.event \in Events
  BY DEF TypeOK, Claimed
<1>2. /\ Outcome(c, status, wait).status = status
      /\ Outcome(c, status, wait).attempts = c.attempts + 1
      /\ Outcome(c, status, wait).lease = NoLease
  BY <1>1, OutcomeFields
<1>3. \A v \in Workers : batch'[v] = IF v = w THEN batch[v] \ {c} ELSE batch[v]
  BY DEF Settle, TypeOK
<1>4. \A e \in Events : outbox'[e] =
        IF e = c.event /\ Holds(c) THEN Outcome(c, status, wait) ELSE outbox[e]
  BY <1>1 DEF Settle, TypeOK
<1>5. LeasedRows'
  BY <1>2, <1>4 DEF LeasedRows
<1>6. ClaimsDistinct'
  <2>1. \A v \in Workers : \A d \in batch'[v] : d \in batch[v]
    BY <1>3
  <2>2. QED
    BY <2>1 DEF ClaimsDistinct
<1>7. \A v \in Workers : \A d \in batch'[v] :
        /\ d \in batch[v]
        /\ d \in Claimed
        /\ d.event \in Events
        /\ d.lease # NoLease
  BY <1>3, LeasesAssumption DEF TypeOK, Claimed
<1>8. ClaimsCurrent'
  BY <1>2, <1>4, <1>7 DEF ClaimsCurrent, Holds
<1>9. AttemptsInBounds'
  BY <1>2, <1>4 DEF AttemptsInBounds, Open
<1>10. ClaimsInTime'
  <2> SUFFICES ASSUME overruns' = 0, NEW v \in Workers, NEW d \in batch'[v]
               PROVE  Holds(d)' /\ outbox'[d.event].left > 0
    BY DEF ClaimsInTime
  <2>1. d \in batch[v] /\ d.event \in Events /\ overruns = 0
    BY <1>7 DEF Settle
  <2>2. Holds(d) /\ outbox[d.event].left > 0 /\ Holds(c)
    BY <2>1 DEF ClaimsInTime
  <2>3. d.event # c.event
    <3>1. ASSUME d.event = c.event PROVE FALSE
      <4>1. d.lease = c.lease
        BY <2>2, <3>1 DEF Holds
      <4>2. v = w /\ d = c
        BY <2>1, <3>1, <4>1 DEF ClaimsDistinct
      <4>3. QED
        BY <1>3, <4>2
    <3>2. QED
      BY <3>1
  <2>4. outbox'[d.event] = outbox[d.event]
    BY <1>4, <2>1, <2>3
  <2>5. QED
    BY <2>2, <2>4 DEF Holds
<1>11. QED
  BY <1>5, <1>6, <1>8, <1>9, <1>10

\* A claim stamps rows nobody holds in time with an id nobody has.
LEMMA ClaimIInv ==
    ASSUME IInv, TypeOK', NEW w \in Workers, Claim(w)
    PROVE  IInv'
<1> USE DEF IInv
<1> DEFINE l == FreshLease
<1>1. /\ l \in Leases
      /\ l # NoLease
      /\ \A e \in Events : outbox[e].lease # l
      /\ \A v \in Workers : \A c \in batch[v] : c.lease # l
  BY FreshLeaseIsFresh DEF Claim
<1> HIDE DEF l
<1>2. \A e \in Events : outbox[e] \in Row
  BY DEF TypeOK
<1>3. \A e \in Events : outbox'[e] =
        IF e \in Selected THEN Leased(outbox[e], l) ELSE outbox[e]
  BY DEF Claim, l
<1>4. \A e \in Selected :
        /\ e \in Events
        /\ Claimable(e)
        /\ outbox'[e].status = "PROCESSING"
        /\ outbox'[e].attempts = outbox[e].attempts
        /\ outbox'[e].lease = l
        /\ outbox'[e].left = LeaseTicks
  <2>1. \A e \in Selected : e \in Events /\ Claimable(e)
    BY DEF Selected
  <2>2. QED
    BY <1>1, <1>2, <1>3, <2>1, LeasedFields
<1>5. \A v \in Workers :
        batch'[v] = IF v = w THEN {ClaimOf(e, l) : e \in Selected} ELSE batch[v]
  BY DEF Claim, TypeOK, l
<1>6. batch[w] = {}
  BY DEF Claim
<1>7. \A v \in Workers : \A c \in batch'[v] :
        \/ v # w /\ c \in batch[v] /\ c.lease # l
        \/ /\ v = w
           /\ \E e \in Selected :
                 c = ClaimOf(e, l) /\ c.event = e /\ c.lease = l
                   /\ c.attempts = outbox[e].attempts
  <2>1. ASSUME NEW e \in Selected
        PROVE  /\ ClaimOf(e, l).event = e
               /\ ClaimOf(e, l).lease = l
               /\ ClaimOf(e, l).attempts = outbox[e].attempts
    BY <1>4, ClaimFields
  <2>2. ASSUME NEW c \in batch'[w]
        PROVE  \E e \in Selected : c = ClaimOf(e, l)
    BY <1>5
  <2>3. \A v \in Workers : v # w => batch'[v] = batch[v]
    BY <1>5
  <2>4. QED
    BY <1>1, <2>1, <2>2, <2>3
<1>8. \A v \in Workers : \A c \in batch[v] : c.event \in Events
  BY DEF TypeOK, Claimed
<1>9. LeasedRows'
  BY <1>1, <1>3, <1>4 DEF LeasedRows
<1>10. ClaimsDistinct'
  BY <1>7 DEF ClaimsDistinct
<1>11. ClaimsCurrent'
  BY <1>3, <1>4, <1>7, <1>8 DEF ClaimsCurrent, Holds
<1>12. AttemptsInBounds'
  BY <1>3, <1>4 DEF AttemptsInBounds, Open, Claimable
<1>13. ClaimsInTime'
  <2> SUFFICES ASSUME overruns' = 0, NEW v \in Workers, NEW c \in batch'[v]
               PROVE  Holds(c)' /\ outbox'[c.event].left > 0
    BY DEF ClaimsInTime
  <2>1. overruns = 0
    BY DEF Claim
  <2>2. CASE c.lease = l
    BY <1>4, <1>7, <2>2, LimitsAssumption DEF Holds
  <2>3. CASE c.lease # l
    <3>1. c \in batch[v] /\ c.event \in Events
      BY <1>7, <1>8, <2>3
    <3>2. Holds(c) /\ outbox[c.event].left > 0
      BY <2>1, <3>1 DEF ClaimsInTime
    <3>3. outbox[c.event].status = "PROCESSING"
      BY <3>1, <3>2, LeasesAssumption DEF LeasedRows, Holds, TypeOK, Claimed
    <3>4. c.event \notin Selected
      BY <1>4, <3>2, <3>3 DEF Claimable
    <3>5. QED
      BY <1>3, <3>1, <3>2, <3>4 DEF Holds
  <2>4. QED
    BY <2>2, <2>3
<1>14. QED
  BY <1>9, <1>10, <1>11, <1>12, <1>13

\* A tick changes no lease; an event in time stays in time unless the tick is
\* an overrun.
LEMMA TickIInv ==
    ASSUME IInv, TypeOK', Tick
    PROVE  IInv'
<1> USE DEF IInv
<1>1. \A e \in Events :
        /\ outbox'[e].status = outbox[e].status
        /\ outbox'[e].attempts = outbox[e].attempts
        /\ outbox'[e].lease = outbox[e].lease
        /\ outbox'[e].left = Decrement(outbox[e].left)
        /\ outbox[e].left \in Nat
  <2>1. \A e \in Events : outbox[e] \in Row /\ outbox'[e] = Aged(outbox[e])
    BY DEF TypeOK, Tick
  <2>2. QED
    BY <2>1, AgedFields DEF Row
<1>2. batch' = batch
  BY DEF Tick
<1>3. \A w \in Workers : \A c \in batch[w] : c.event \in Events
  BY DEF TypeOK, Claimed
<1>4. LeasedRows' /\ AttemptsInBounds'
  BY <1>1 DEF LeasedRows, AttemptsInBounds
<1>5. ClaimsDistinct'
  BY <1>2 DEF ClaimsDistinct
<1>6. ClaimsCurrent'
  BY <1>1, <1>2, <1>3 DEF ClaimsCurrent, Holds
<1>7. ClaimsInTime'
  <2> SUFFICES ASSUME overruns' = 0, NEW w \in Workers, NEW c \in batch[w]
               PROVE  Holds(c)' /\ outbox'[c.event].left > 0
    BY <1>2 DEF ClaimsInTime
  <2>1. Punctual /\ overruns = 0
    BY DEF Tick, TypeOK
  <2>2. Holds(c) /\ outbox[c.event].left > 1
    BY <2>1 DEF ClaimsInTime, Punctual
  <2>3. QED
    BY <1>1, <1>3, <2>2 DEF Holds, Decrement
<1>8. QED
  BY <1>4, <1>5, <1>6, <1>7

\* Every step keeps the inductive invariant: claims by fresh leases, settlements
\* by the comparison of the lease, ticks by the count of late ones.
THEOREM IInvStep == IInv /\ [Next]_vars => IInv'
<1> SUFFICES ASSUME IInv, [Next]_vars PROVE IInv'
  OBVIOUS
<1>1. TypeOK'
  BY TypeStep DEF IInv
<1>2. ASSUME NEW e \in Events, Enqueue(e) PROVE IInv'
  <2>1. \A d \in Events : outbox'[d] = IF d = e THEN NewRow ELSE outbox[d]
    BY <1>2 DEF Enqueue, IInv, TypeOK
  <2>2. outbox[e].status = "ABSENT" /\ outbox[e].lease = NoLease
    BY <1>2 DEF Enqueue, IInv, LeasedRows
  <2>3. /\ NewRow.status = "PENDING" /\ NewRow.attempts = 0
        /\ NewRow.lease = NoLease
    BY DEF NewRow
  <2>4. \A w \in Workers : \A c \in batch[w] : c.event \in Events /\ c.lease # NoLease
    BY LeasesAssumption DEF IInv, TypeOK, Claimed
  <2>5. LeasedRows' /\ AttemptsInBounds'
    BY <2>1, <2>3, LimitsAssumption DEF IInv, LeasedRows, AttemptsInBounds
  <2>6. batch' = batch /\ overruns' = overruns
    BY <1>2 DEF Enqueue
  <2>7. ClaimsDistinct'
    BY <2>6 DEF IInv, ClaimsDistinct
  <2>8. ClaimsCurrent'
    BY <2>1, <2>3, <2>4, <2>6 DEF IInv, ClaimsCurrent, Holds
  <2>9. ClaimsInTime'
    BY <2>1, <2>2, <2>4, <2>6 DEF IInv, ClaimsInTime, Holds
  <2>10. QED
    BY <1>1, <2>5, <2>7, <2>8, <2>9 DEF IInv
<1>3. ASSUME NEW w \in Workers, Claim(w) PROVE IInv'
  BY <1>1, <1>3, ClaimIInv
<1>4. ASSUME NEW w \in Workers, SettleDelivered(w) PROVE IInv'
  BY <1>1, <1>4, SettleIInv DEF SettleDelivered
<1>5. ASSUME NEW w \in Workers, SettleRetry(w) PROVE IInv'
  <2>1. PICK c \in batch[w] :
          /\ c.attempts + 1 < MaxAttempts
          /\ LET delay == Backoff(c.attempts + 1) IN
             Settle(w, c, "RETRY", IF delay > elapsed[w] THEN delay - elapsed[w] ELSE 0)
    BY <1>5 DEF SettleRetry
  <2>2. c.attempts \in Nat
    BY DEF IInv, TypeOK, Claimed
  <2>3. QED
    BY <1>1, <2>1, <2>2, RetryWait, SettleIInv DEF IInv
<1>6. ASSUME NEW w \in Workers, SettleDead(w) PROVE IInv'
  BY <1>1, <1>6, SettleIInv DEF SettleDead
<1>7. ASSUME NEW w \in Workers, Crash(w) PROVE IInv'
  <2>1. \A v \in Workers : batch'[v] = IF v = w THEN {} ELSE batch[v]
    BY <1>7 DEF Crash, IInv, TypeOK
  <2>2. outbox' = outbox /\ overruns' = overruns
    BY <1>7 DEF Crash
  <2>3. QED
    BY <1>1, <2>1, <2>2 DEF IInv, LeasedRows, ClaimsDistinct, ClaimsCurrent,
                            AttemptsInBounds, ClaimsInTime, Holds
<1>8. CASE Tick
  BY <1>1, <1>8, TickIInv
<1>9. CASE UNCHANGED vars
  BY <1>1, <1>9 DEF vars, IInv, LeasedRows, ClaimsDistinct, ClaimsCurrent,
                    AttemptsInBounds, ClaimsInTime, Holds
<1>10. QED
  BY <1>2, <1>3, <1>4, <1>5, <1>6, <1>7, <1>8, <1>9 DEF Next
---------------------------------------------------------------------------
\* The inductive invariant holds in every reachable state.
THEOREM Invariance == Spec => []IInv
BY InitIInv, IInvStep, PTL DEF Spec

\* Every row, claim and counter stays in its type, for any number of events,
\* workers and attempts.
THEOREM TypeCorrect == Spec => []TypeOK
<1>1. IInv => TypeOK
  BY DEF IInv
<1>2. QED
  BY <1>1, Invariance, PTL

\* At most one unsettled claim holds an event, and it remembers the row as it
\* is: claim_outbox's fresh ids and update_outbox's comparison suffice, with
\* no lock held across the delivery.
THEOREM OneCurrentHolder == Spec => []HolderIsCurrent
<1>1. ASSUME IInv PROVE HolderIsCurrent
  <2> SUFFICES ASSUME NEW w \in Workers, NEW c \in batch[w], Holds(c)
               PROVE  /\ outbox[c.event].status = "PROCESSING"
                      /\ outbox[c.event].attempts = c.attempts
                      /\ \A v \in Workers : \A d \in batch[v] :
                           d.event = c.event /\ Holds(d) => v = w /\ d = c
    BY DEF HolderIsCurrent
  <2>1. c.event \in Events /\ c.lease # NoLease
    BY <1>1, LeasesAssumption DEF IInv, TypeOK, Claimed
  <2>2. outbox[c.event].status = "PROCESSING"
    BY <1>1, <2>1 DEF IInv, LeasedRows, Holds
  <2>3. outbox[c.event].attempts = c.attempts
    BY <1>1 DEF IInv, ClaimsCurrent
  <2>4. ASSUME NEW v \in Workers, NEW d \in batch[v], d.event = c.event, Holds(d)
        PROVE  v = w /\ d = c
    BY <1>1, <2>4 DEF IInv, ClaimsDistinct, Holds
  <2>5. QED
    BY <2>2, <2>3, <2>4
<1>2. QED
  BY <1>1, Invariance, PTL

\* A worker loses a lease only after some batch has outrun its own: the single
\* clock reading of run_once is safe as long as batches end in time.
THEOREM LeasesKeptInTime == Spec => []PunctualWorkersKeepLeases
<1>1. IInv => PunctualWorkersKeepLeases
  BY DEF IInv, ClaimsInTime, PunctualWorkersKeepLeases
<1>2. QED
  BY <1>1, Invariance, PTL

\* What one step may do to a live lease.
LEMMA LiveLeaseStep ==
    ASSUME IInv, [Next]_vars, NEW e \in Events,
           outbox[e].status = "PROCESSING", outbox[e].left > 0,
           outbox'[e].lease # outbox[e].lease
    PROVE  outbox'[e].lease = NoLease
<1> DEFINE Freed == outbox'[e].lease = NoLease
<1>1. ASSUME NEW d \in Events, Enqueue(d) PROVE Freed
  BY <1>1 DEF Enqueue, NewRow, IInv, TypeOK
<1>2. ASSUME NEW w \in Workers, Claim(w) PROVE Freed
  <2>1. e \notin Selected
    BY DEF Selected, Claimable
  <2>2. QED
    BY <1>2, <2>1 DEF Claim
<1>3. ASSUME NEW w \in Workers, NEW c \in batch[w], NEW status, NEW wait,
             Settle(w, c, status, wait)
      PROVE  Freed
  BY <1>3 DEF Settle, Outcome, IInv, TypeOK
<1>4. ASSUME NEW w \in Workers, SettleDelivered(w) \/ SettleRetry(w) \/ SettleDead(w)
      PROVE  Freed
  <2>1. CASE SettleDelivered(w)
    BY <1>3, <2>1 DEF SettleDelivered
  <2>2. CASE SettleRetry(w)
    BY <1>3, <2>2 DEF SettleRetry
  <2>3. CASE SettleDead(w)
    BY <1>3, <2>3 DEF SettleDead
  <2>4. QED
    BY <1>4, <2>1, <2>2, <2>3
<1>5. ASSUME NEW w \in Workers, Crash(w) PROVE Freed
  BY <1>5 DEF Crash
<1>6. CASE Tick
  <2>1. outbox[e] \in Row /\ outbox'[e] = Aged(outbox[e])
    BY <1>6 DEF Tick, IInv, TypeOK
  <2>2. QED
    BY <2>1, AgedFields
<1>7. CASE UNCHANGED vars
  BY <1>7 DEF vars
<1>8. QED
  BY <1>1, <1>2, <1>4, <1>5, <1>6, <1>7 DEF Next

\* A lease that has not expired ends by a settlement and in no other way.
THEOREM LiveLeaseKept == Spec => LiveLeaseIsKept
<1>1. IInv /\ [Next]_vars =>
        [\A e \in Events :
           outbox[e].status = "PROCESSING" /\ outbox[e].left > 0
               /\ outbox'[e].lease # outbox[e].lease
           => outbox'[e].lease = NoLease]_vars
  BY LiveLeaseStep
<1>2. QED
  BY <1>1, Invariance, PTL DEF Spec, LiveLeaseIsKept
---------------------------------------------------------------------------
\* The refinement mapping, one event at a time.
LEMMA PhaseBar ==
    /\ phaseBar = [e \in Events |-> phaseBar[e]]
    /\ triesBar = [e \in Events |-> outbox[e].attempts]
    /\ \A e \in Events :
         /\ outbox[e].status = "ABSENT"    => phaseBar[e] = "none"
         /\ outbox[e].status = "DELIVERED" => phaseBar[e] = "delivered"
         /\ outbox[e].status = "DEAD"      => phaseBar[e] = "dead"
         /\ outbox[e].status \in Open      => phaseBar[e] = "owed"
BY DEF phaseBar, triesBar, Open

\* The abstract phase of an event after a step, by the status of its row.
LEMMA PhaseBarNext ==
    /\ phaseBar' = [e \in Events |-> phaseBar'[e]]
    /\ triesBar' = [e \in Events |-> outbox'[e].attempts]
    /\ \A e \in Events :
         /\ outbox'[e].status = "ABSENT"    => phaseBar'[e] = "none"
         /\ outbox'[e].status = "DELIVERED" => phaseBar'[e] = "delivered"
         /\ outbox'[e].status = "DEAD"      => phaseBar'[e] = "dead"
         /\ outbox'[e].status \in Open      => phaseBar'[e] = "owed"
BY DEF phaseBar, triesBar, Open

\* A step that keeps every row's attempts, and its status up to being open, is
\* invisible to the promise.
LEMMA InvisibleStep ==
    ASSUME TypeOK,
           \A e \in Events :
             /\ outbox'[e].attempts = outbox[e].attempts
             /\ \/ outbox'[e].status = outbox[e].status
                \/ outbox[e].status \in Open /\ outbox'[e].status \in Open
    PROVE  UNCHANGED Promise!promise
<1>1. \A e \in Events : outbox[e].status \in {"ABSENT"} \cup Open \cup Settled
  BY DEF TypeOK, Row
<1>2. \A e \in Events : phaseBar'[e] = phaseBar[e]
  BY <1>1, PhaseBar, PhaseBarNext DEF Settled
<1>3. phaseBar' = phaseBar
  BY <1>2, PhaseBar, PhaseBarNext
<1>4. triesBar' = triesBar
  BY PhaseBar, PhaseBarNext
<1>5. QED
  BY <1>3, <1>4 DEF Promise!promise

\* What a settlement is to the promise: an outcome of the event if its claim
\* still holds the lease, and nothing otherwise.
LEMMA SettleIsOutcome ==
    ASSUME IInv, NEW w \in Workers, NEW c \in batch[w], NEW wait \in Nat,
           NEW status \in {"RETRY", "DELIVERED", "DEAD"},
           status = "RETRY" => c.attempts + 1 < MaxAttempts,
           status = "DEAD" => c.attempts + 1 >= MaxAttempts,
           Settle(w, c, status, wait)
    PROVE  [Promise!PromiseNext]_(Promise!promise)
<1>1. c \in Claimed /\ c.event \in Events /\ c.lease # NoLease /\ c.attempts \in Nat
  BY LeasesAssumption DEF IInv, TypeOK, Claimed
<1>2. CASE ~Holds(c)
  BY <1>2, InvisibleStep DEF Settle, IInv
<1>3. CASE Holds(c)
  <2> DEFINE e == c.event
  <2>1. /\ outbox[e].status = "PROCESSING"
        /\ outbox[e].attempts = c.attempts
        /\ c.attempts < MaxAttempts
    BY <1>1, <1>3 DEF IInv, LeasedRows, ClaimsCurrent, AttemptsInBounds, Holds, Open
  <2>2. \A d \in Events : outbox'[d] = IF d = e THEN Outcome(c, status, wait) ELSE outbox[d]
    BY <1>1, <1>3 DEF Settle, IInv, TypeOK
  <2>3. outbox'[e].status = status /\ outbox'[e].attempts = c.attempts + 1
    BY <1>1, <2>2, OutcomeFields
  <2>4. \A d \in Events : d # e => phaseBar'[d] = phaseBar[d]
    <3>1. \A d \in Events : outbox[d].status \in {"ABSENT"} \cup Open \cup Settled
      BY DEF IInv, TypeOK, Row
    <3>2. \A d \in Events : d # e => outbox'[d].status = outbox[d].status
      BY <2>2
    <3>3. QED
      BY <3>1, <3>2, PhaseBar, PhaseBarNext DEF Settled
  <2>5. phaseBar[e] = "owed" /\ triesBar[e] = c.attempts
    BY <1>1, <2>1, PhaseBar DEF Open
  <2>6. triesBar' = [triesBar EXCEPT ![e] = @ + 1]
    <3>1. \A d \in Events :
            outbox'[d].attempts = IF d = e THEN outbox[d].attempts + 1 ELSE outbox[d].attempts
      BY <2>1, <2>2, <2>3
    <3>2. QED
      BY <3>1, PhaseBar, PhaseBarNext
  <2>7. ASSUME NEW p, phaseBar'[e] = p PROVE phaseBar' = [phaseBar EXCEPT ![e] = p]
    BY <2>4, <2>7, PhaseBar, PhaseBarNext
  <2>8. CASE status = "RETRY"
    <3>1. phaseBar'[e] = "owed"
      BY <1>1, <2>3, <2>8, PhaseBarNext DEF Open
    <3>2. phaseBar' = phaseBar
      BY <2>4, <2>5, <3>1, PhaseBar, PhaseBarNext
    <3>3. Promise!Postpone(e)
      BY <2>5, <2>6, <2>8, <3>2 DEF Promise!Postpone
    <3>4. QED
      BY <1>1, <3>3 DEF Promise!PromiseNext
  <2>9. CASE status = "DELIVERED"
    <3>1. phaseBar' = [phaseBar EXCEPT ![e] = "delivered"]
      BY <1>1, <2>3, <2>7, <2>9, PhaseBarNext
    <3>2. Promise!Deliver(e)
      BY <2>5, <2>6, <3>1 DEF Promise!Deliver
    <3>3. QED
      BY <1>1, <3>2 DEF Promise!PromiseNext
  <2>10. CASE status = "DEAD"
    <3>1. phaseBar' = [phaseBar EXCEPT ![e] = "dead"]
      BY <1>1, <2>3, <2>7, <2>10, PhaseBarNext
    <3>2. c.attempts + 1 = MaxAttempts
      BY <1>1, <2>1, <2>10, LimitsAssumption
    <3>3. Promise!Bury(e)
      BY <2>5, <2>6, <3>1, <3>2 DEF Promise!Bury
    <3>4. QED
      BY <1>1, <3>3 DEF Promise!PromiseNext
  <2>11. QED
    BY <2>8, <2>9, <2>10
<1>4. QED
  BY <1>2, <1>3

\* Every step of the leased queue is a step of the promise or none of its
\* business.
THEOREM PromiseStep == IInv /\ [Next]_vars => [Promise!PromiseNext]_(Promise!promise)
<1> SUFFICES ASSUME IInv, [Next]_vars PROVE [Promise!PromiseNext]_(Promise!promise)
  OBVIOUS
<1>1. ASSUME NEW e \in Events, Enqueue(e) PROVE Promise!Accept(e)
  <2>1. \A d \in Events : outbox'[d] = IF d = e THEN NewRow ELSE outbox[d]
    BY <1>1 DEF Enqueue, IInv, TypeOK
  <2>2. outbox[e].status = "ABSENT" /\ outbox[e].attempts = 0
    BY <1>1 DEF Enqueue, IInv, AttemptsInBounds
  <2>3. NewRow.status = "PENDING" /\ NewRow.attempts = 0
    BY DEF NewRow
  <2>4. phaseBar[e] = "none" /\ phaseBar'[e] = "owed"
    BY <2>1, <2>2, <2>3, PhaseBar, PhaseBarNext DEF Open
  <2>5. \A d \in Events : d # e => phaseBar'[d] = phaseBar[d]
    <3>1. \A d \in Events : outbox[d].status \in {"ABSENT"} \cup Open \cup Settled
      BY DEF IInv, TypeOK, Row
    <3>2. QED
      BY <2>1, <3>1, PhaseBar, PhaseBarNext DEF Settled
  <2>6. phaseBar' = [phaseBar EXCEPT ![e] = "owed"]
    BY <2>4, <2>5, PhaseBar, PhaseBarNext
  <2>7. triesBar' = triesBar
    BY <2>1, <2>2, <2>3, PhaseBar, PhaseBarNext
  <2>8. QED
    BY <2>4, <2>6, <2>7 DEF Promise!Accept
<1>2. ASSUME NEW w \in Workers, Claim(w) PROVE UNCHANGED Promise!promise
  <2>1. FreshLease \in Leases
    BY <1>2, FreshLeaseIsFresh DEF Claim
  <2>2. \A e \in Selected : e \in Events /\ outbox[e].status \in Open
    BY DEF Selected, Claimable, Open
  <2>3. \A e \in Selected :
          outbox'[e].status = "PROCESSING" /\ outbox'[e].attempts = outbox[e].attempts
    BY <1>2, <2>1, <2>2, LeasedFields DEF Claim, IInv, TypeOK
  <2>4. \A e \in Events : e \notin Selected => outbox'[e] = outbox[e]
    BY <1>2 DEF Claim
  <2>5. QED
    BY <2>2, <2>3, <2>4, InvisibleStep DEF IInv, Open
<1>3. ASSUME NEW w \in Workers, SettleDelivered(w)
      PROVE  [Promise!PromiseNext]_(Promise!promise)
  BY <1>3, SettleIsOutcome DEF SettleDelivered
<1>4. ASSUME NEW w \in Workers, SettleRetry(w)
      PROVE  [Promise!PromiseNext]_(Promise!promise)
  <2>1. PICK c \in batch[w] :
          /\ c.attempts + 1 < MaxAttempts
          /\ LET delay == Backoff(c.attempts + 1) IN
             Settle(w, c, "RETRY", IF delay > elapsed[w] THEN delay - elapsed[w] ELSE 0)
    BY <1>4 DEF SettleRetry
  <2>2. c.attempts \in Nat
    BY DEF IInv, TypeOK, Claimed
  <2>3. QED
    BY <2>1, <2>2, RetryWait, SettleIsOutcome DEF IInv
<1>5. ASSUME NEW w \in Workers, SettleDead(w)
      PROVE  [Promise!PromiseNext]_(Promise!promise)
  BY <1>5, SettleIsOutcome DEF SettleDead
<1>6. ASSUME NEW w \in Workers, Crash(w) PROVE UNCHANGED Promise!promise
  BY <1>6, InvisibleStep DEF Crash, IInv
<1>7. ASSUME Tick PROVE UNCHANGED Promise!promise
  <2>1. \A e \in Events : outbox[e] \in Row /\ outbox'[e] = Aged(outbox[e])
    BY <1>7 DEF Tick, IInv, TypeOK
  <2>2. QED
    BY <2>1, AgedFields, InvisibleStep DEF IInv
<1>8. CASE UNCHANGED vars
  BY <1>8, InvisibleStep DEF vars, IInv
<1>9. QED
  BY <1>1, <1>2, <1>3, <1>4, <1>5, <1>6, <1>7, <1>8 DEF Next, Promise!PromiseNext

\* The leased queue implements the promise made to the services: settled once,
\* attempts counted once each, dead only after MaxAttempts of them.
THEOREM Refinement == Spec => KeepsPromise
<1>1. Init => Promise!PromiseInit
  <2> SUFFICES ASSUME Init PROVE Promise!PromiseInit
    OBVIOUS
  <2>1. \A e \in Events : outbox[e].status = "ABSENT" /\ outbox[e].attempts = 0
    BY DEF Init, NewRow
  <2>2. phaseBar = [e \in Events |-> "none"]
    BY <2>1, PhaseBar
  <2>3. triesBar = [e \in Events |-> 0]
    BY <2>1, PhaseBar
  <2>4. QED
    BY <2>2, <2>3 DEF Promise!PromiseInit
<1>2. QED
  BY <1>1, PromiseStep, Invariance, PTL
     DEF Spec, KeepsPromise, Promise!PromiseSpec

---------------------------------------------------------------------------
(***************************************************************************)
(* Proofs about ProjectionTargets, for every set of records and targets,   *)
(* every sequence of runtimes that goes forward, and every bound.          *)
(*                                                                         *)
(* A step that forgets a named copy reads the link first and writes later, *)
(* so the invariant says what a worker still knows of the link when it     *)
(* writes (WorkerKnows) and what a release may rely on when it commits     *)
(* (PlanHolds, with SoundIn for the age of a copy and StoresSound for the  *)
(* stores that are gone).  A cutover checks records one by one while the   *)
(* worker and the clients go on: CutoverHolds says what became of each     *)
(* record since it was checked, KindsAgree why a worker that takes a copy  *)
(* away from an active record leaves an event behind.                      *)
(***************************************************************************)
Schemes == {Runtimes[i].scheme : i \in DOMAIN Runtimes}
Stages == {"idle", "project", "derive", "install", "compensate", "retire", "erase", "retain",
           "remove", "unlink", "list"}
LinkValues == [live : Nat, withdrawn : BOOLEAN, pending : BOOLEAN,
               copies : SUBSET [scheme : Nat, stamp : Stamps], is : BOOLEAN]
Kinds == {"project", "retire", "erase"}
DeliveryEvents == [r : Nat, t : Targets, kind : Kinds \cup {"none"}, attempts : Nat]
RecordStates == {"ACTIVE", "RETIRED", "DELETION_PENDING", "DELETED"}

\* An event of a record; the idle worker's is none.
Placed(e) == e.r \in Records /\ e.kind # "none"

TargetsTyped ==
    /\ runtime \in DOMAIN Runtimes
    /\ state \in [Records -> RecordStates]
    /\ link \in [Records -> [Targets -> LinkValues]]
    /\ open \subseteq {e \in DeliveryEvents : Placed(e)} /\ dead \subseteq DeliveryEvents
    /\ worker \in [at : Stages, event : DeliveryEvents, stamp : Stamps, seen : LinkValues]
    /\ worker.at # "idle" => Placed(worker.event)
    /\ operator.at \in {"idle", "rebuilds", "lists", "confirms", "checks", "commits", "plans"}
    /\ operator = [at |-> operator.at, lost |-> operator.lost, left |-> operator.left,
                   confirmed |-> operator.confirmed, listed |-> operator.listed,
                   expected |-> operator.expected, queue |-> operator.queue]
    /\ cutover \in [scheme : Nat, window : {"none", "open", "ended"}]

\* What may be said of a link of target t when the runtime writes under scheme
\* now and the latest cutover went to scheme cut.
SoundIn(l, t, now, cut) ==
    /\ l.copies # {} => l.is
    /\ t # Graph => l.copies = {} /\ l.live = 0
    /\ t = Graph => l.live <= now /\ (l.is => l.live \in Schemes)
    /\ \A c \in l.copies : /\ c.scheme \in Schemes /\ c.scheme < now
                           /\ c.stamp = "past" => c.scheme < cut

LinksSound ==
    /\ \A r \in Records, t \in Targets : SoundIn(link[r][t], t, Runtime.scheme, cutover.scheme)
    /\ SoundIn(worker.seen, tgt, Runtime.scheme, cutover.scheme)

\* A stamp the worker took belongs after the cutover that is to come.
StampsHold ==
    worker.at # "idle" =>
        /\ worker.stamp # "past"
        /\ operator.at = "commits" => worker.stamp = "now"

StoresSound ==
    /\ cutover.scheme <= Runtime.scheme
    /\ \A s \in destroyed : s \in Nat /\ s < cutover.scheme
    /\ \A h \in held : h[2] = Graph => h[3] \notin destroyed

OldCopies(l) == {c.scheme : c \in l.copies}

\* What the worker knows of the link it is about to overwrite.
WorkerKnows ==
    /\ worker.at \in {"retain", "remove"} =>
          /\ worker.seen.is /\ ~worker.seen.withdrawn
          /\ worker.at = "retain" <=> worker.seen.live # Scheme(tgt)
          /\ Names(Current) \subseteq Names(worker.seen)
    /\ worker.at = "unlink" =>
          \A s \in Names(Current) \ OldCopies(worker.seen) : <<rec, tgt, s>> \notin held

\* What a rebuild may queue.
Projections == {e \in DeliveryEvents : Placed(e) /\ e.kind = "project"}

\* What the operator's plan may rely on.
PlanHolds ==
    /\ operator.at = "plans" =>
        /\ \A s \in Schemes : s < cutover.scheme => s \in destroyed
        /\ operator.expected \in [Records -> [Targets -> LinkValues]]
        /\ \A r \in Records, t \in Targets : \A c \in operator.expected[r][t].copies : c.stamp = "past"
    /\ operator.at = "rebuilds" => operator.queue \subseteq Projections

---------------------------------------------------------------------------
\* The projection of r is queued, or was given up.
Waits(r) == \E e \in open \cup dead : e.r = r /\ e.t = Graph /\ e.kind = "project"
At(r, stages) == worker.at \in stages /\ rec = r /\ tgt = Graph
CopyOf(r) == <<r, Graph, Runtime.scheme>>
Secure(r) == CopyOf(r) \in held \cup (dropped \ operator.lost)
Linked(r) == Runtime.scheme \in Names(link[r][Graph])

Gone == {"DELETION_PENDING", "DELETED"}

\* Which events the stages belong to, and what was queued behind the worker's back.
KindsAgree ==
    /\ \A e \in open : e.kind = "erase" => state[e.r] \in Gone
    /\ worker.at # "idle" =>
          /\ worker.event.kind = "erase" => state[rec] \in Gone
          /\ worker.at \in {"project", "derive", "install", "compensate"} <=> worker.event.kind = "project"
          /\ worker.at = "erase" => worker.event.kind = "erase"
    /\ \A r \in Records :
          At(r, {"retain", "remove", "unlink", "compensate"}) /\ state[r] = "ACTIVE" => Waits(r)

Checking == operator.at \in {"confirms", "checks", "commits"}

\* The checks that were made hold while the cutover is not recorded yet.
CutoverHolds ==
    Checking =>
      /\ operator.left \subseteq Records /\ (operator.at = "commits" => operator.left = {})
      /\ \A r \in Active :
          /\ r \notin operator.left =>
                \/ Waits(r) \/ At(r, {"project"})
                \/ At(r, {"derive", "install"}) /\ Secure(r)
                \/ Linked(r) /\ Secure(r)
          /\ operator.at # "confirms" /\ r \in operator.confirmed =>
                Waits(r) \/ At(r, {"project"}) \/ Secure(r)

TargetsInv ==
    TargetsTyped /\ LinksSound /\ StampsHold /\ StoresSound /\ WorkerKnows /\ PlanHolds
        /\ KindsAgree /\ CutoverHolds

---------------------------------------------------------------------------
\* What the variables hold.

LEMMA RuntimeTypes ==
    /\ \A i \in DOMAIN Runtimes : /\ Runtimes[i].scheme \in Nat /\ Runtimes[i].scheme \in Schemes
                                  /\ Runtimes[i].mode[Graph] = "ACTIVE"
    /\ DOMAIN Runtimes = 1..Len(Runtimes) /\ Len(Runtimes) \in Nat /\ Len(Runtimes) >= 2
    /\ Graph \in Targets
<1>1. \A i \in DOMAIN Runtimes : Runtimes[i] \in Deployments
  BY RuntimesAssumption
<1>2. DOMAIN Runtimes = 1..Len(Runtimes) /\ Len(Runtimes) \in Nat /\ Len(Runtimes) >= 2
  BY RuntimesAssumption
<1> QED
  BY <1>1, <1>2, RuntimesAssumption DEF Deployments, Schemes, Valid, Targets

LEMMA Facts ==
    ASSUME TargetsTyped
    PROVE  /\ worker.at \in Stages /\ worker.event \in DeliveryEvents /\ worker.stamp \in Stamps
           /\ worker.seen \in LinkValues /\ rec \in Nat /\ tgt \in Targets /\ Graph \in Targets
           /\ worker.event.kind \in Kinds \cup {"none"} /\ worker.event.attempts \in Nat
           /\ worker.at # "idle" => /\ rec \in Records /\ Current \in LinkValues
                                    /\ worker.event.kind \in Kinds
           /\ Runtime.scheme \in Nat /\ Runtime.scheme \in Schemes /\ Runtime.mode[Graph] = "ACTIVE"
           /\ cutover.scheme \in Nat
  BY RuntimeTypes DEF TargetsTyped, DeliveryEvents, Placed, rec, tgt, Current, Runtime

LEMMA SchemeType ==
    ASSUME TargetsTyped, NEW t \in Targets
    PROVE  Scheme(t) \in Nat /\ (t = Graph => Scheme(t) = Runtime.scheme) /\ (t # Graph => Scheme(t) = 0)
  BY Facts DEF Scheme, SchemeIn

LEMMA LinkFields ==
    ASSUME NEW l \in LinkValues
    PROVE  /\ l.live \in Nat /\ l.withdrawn \in BOOLEAN /\ l.pending \in BOOLEAN /\ l.is \in BOOLEAN
           /\ l.copies \subseteq [scheme : Nat, stamp : Stamps]
           /\ l = [live |-> l.live, withdrawn |-> l.withdrawn, pending |-> l.pending,
                   copies |-> l.copies, is |-> l.is]
  BY DEF LinkValues

LEMMA Bare ==
    /\ NoLink \in LinkValues /\ NoLink.copies = {} /\ ~NoLink.is /\ NoLink.live = 0
    /\ Names(NoLink) = {}
    /\ \A t, now, cut : now \in Nat => SoundIn(NoLink, t, now, cut)
<1>1. NoLink \in LinkValues /\ NoLink.copies = {} /\ ~NoLink.is /\ NoLink.live = 0
  BY DEF NoLink, LinkValues
<1> QED
  BY <1>1 DEF Names, SoundIn

LEMMA EventType ==
    ASSUME NEW r \in Nat, NEW t \in Targets, NEW kind \in Kinds \cup {"none"}
    PROVE  /\ Event(r, t, kind) \in DeliveryEvents
           /\ Event(r, t, kind).r = r /\ Event(r, t, kind).t = t /\ Event(r, t, kind).kind = kind
  BY DEF Event, DeliveryEvents

LEMMA AtRest ==
    /\ Idle \in [at : Stages, event : DeliveryEvents, stamp : Stamps, seen : LinkValues]
    /\ Idle.at = "idle" /\ Idle.event.kind = "none" /\ Idle.event.t = Graph /\ Idle.seen = NoLink
<1>1. Event(0, Graph, "none") \in DeliveryEvents /\ Event(0, Graph, "none").kind = "none"
      /\ Event(0, Graph, "none").t = Graph
  BY EventType, RuntimeTypes
<1> QED
  BY <1>1, Bare DEF Idle, Stages, Stamps

---------------------------------------------------------------------------
\* What the worker's steps do to it.

WorkerType == [at : Stages, event : DeliveryEvents, stamp : Stamps, seen : LinkValues]

LEMMA GoesTo ==
    ASSUME TargetsTyped, NEW at \in Stages, Goes(at)
    PROVE  /\ worker' \in WorkerType /\ worker'.at = at
           /\ worker'.event = worker.event /\ worker'.stamp = worker.stamp /\ worker'.seen = worker.seen
  BY DEF Goes, TargetsTyped, WorkerType

LEMMA SeesAs ==
    ASSUME TargetsTyped, NEW at \in Stages, NEW l \in LinkValues, Sees(at, l)
    PROVE  /\ worker' \in WorkerType /\ worker'.at = at
           /\ worker'.event = worker.event /\ worker'.stamp = worker.stamp /\ worker'.seen = l
  BY DEF Sees, TargetsTyped, WorkerType

LEMMA Rests ==
    ASSUME worker' = Idle
    PROVE  /\ worker' \in WorkerType /\ worker'.at = "idle" /\ worker'.event.kind = "none"
           /\ worker'.event.t = Graph /\ worker'.seen = NoLink
  BY AtRest DEF WorkerType

LEMMA LinksTo ==
    ASSUME TargetsTyped, worker.at # "idle", NEW l \in LinkValues, Links(l)
    PROVE  /\ link' \in [Records -> [Targets -> LinkValues]]
           /\ link'[rec][tgt] = l
           /\ \A r \in Records, t \in Targets : r # rec \/ t # tgt => link'[r][t] = link[r][t]
<1>1. rec \in Records /\ tgt \in Targets /\ link \in [Records -> [Targets -> LinkValues]]
  BY Facts DEF TargetsTyped
<1>2. link' = [link EXCEPT ![rec] = [link[rec] EXCEPT ![tgt] = l]]
  BY DEF Links
<1> QED
  BY <1>1, <1>2

---------------------------------------------------------------------------
\* What a step may leave as it is.

LEMMA LinksStay ==
    ASSUME TargetsTyped, LinksSound, UNCHANGED <<runtime, link>>, cutover'.scheme = cutover.scheme,
           SoundIn(worker'.seen, worker'.event.t, Runtime.scheme, cutover.scheme)
    PROVE  LinksSound'
  BY DEF LinksSound, Runtime, tgt

LEMMA StoresStay ==
    ASSUME StoresSound, UNCHANGED <<runtime, destroyed>>, cutover'.scheme = cutover.scheme, held' \subseteq held
    PROVE  StoresSound'
  BY DEF StoresSound, Runtime

LEMMA PlanStays ==
    ASSUME PlanHolds, UNCHANGED <<destroyed>>, cutover'.scheme = cutover.scheme,
           operator'.at = operator.at, operator'.expected = operator.expected,
           operator'.queue = operator.queue
    PROVE  PlanHolds'
  BY DEF PlanHolds

LEMMA WaitsOn ==
    ASSUME open \subseteq open', dead \subseteq dead', NEW r
    PROVE  Waits(r) => Waits(r)'
  BY DEF Waits

\* How a step may take an active record nearer to its copy in the new store.
Proceeds(r) ==
    \/ Waits(r)'
    \/ /\ state[r] = "ACTIVE"
       /\ Waits(r) => Waits(r)' \/ At(r, {"project"})'
       /\ Secure(r) => Secure(r)'
       /\ Linked(r) => Linked(r)'
       /\ At(r, {"project"}) => At(r, {"project"})' \/ (At(r, {"derive", "install"})' /\ Secure(r)')
       /\ At(r, {"derive", "install"}) => At(r, {"derive", "install"})' \/ Linked(r)'

LEMMA CutoverStays ==
    ASSUME TargetsTyped, CutoverHolds, operator'.at = operator.at, operator'.left = operator.left,
           operator'.confirmed = operator.confirmed,
           \A r \in Records : state'[r] = "ACTIVE" => Proceeds(r)
    PROVE  CutoverHolds'
<1> SUFFICES ASSUME Checking
             PROVE  /\ operator'.left \subseteq Records /\ (operator'.at = "commits" => operator'.left = {})
                    /\ \A r \in Active' :
                          /\ r \notin operator'.left =>
                                \/ Waits(r)' \/ At(r, {"project"})'
                                \/ At(r, {"derive", "install"})' /\ Secure(r)'
                                \/ Linked(r)' /\ Secure(r)'
                          /\ operator'.at # "confirms" /\ r \in operator'.confirmed => Waits(r)' \/ At(r, {"project"})' \/ Secure(r)'
  BY DEF CutoverHolds, Checking
<1>1. operator'.left \subseteq Records /\ (operator'.at = "commits" => operator'.left = {})
  BY DEF CutoverHolds
<1>2. ASSUME NEW r \in Active'
      PROVE  /\ r \notin operator'.left =>
                    \/ Waits(r)' \/ At(r, {"project"})'
                    \/ At(r, {"derive", "install"})' /\ Secure(r)'
                    \/ Linked(r)' /\ Secure(r)'
             /\ operator'.at # "confirms" /\ r \in operator'.confirmed => Waits(r)' \/ At(r, {"project"})' \/ Secure(r)'
  <2>1. r \in Records /\ Proceeds(r)
    BY DEF Active
  <2>2. CASE Waits(r)'
    BY <2>2
  <2>3. CASE ~Waits(r)'
    <3>1. r \in Active
      BY <2>1, <2>3 DEF Proceeds, Active
    <3>2. /\ r \notin operator.left =>
                \/ Waits(r) \/ At(r, {"project"})
                \/ At(r, {"derive", "install"}) /\ Secure(r)
                \/ Linked(r) /\ Secure(r)
          /\ operator.at # "confirms" /\ r \in operator.confirmed => Waits(r) \/ At(r, {"project"}) \/ Secure(r)
      BY <3>1 DEF CutoverHolds
    <3> QED
      BY <2>1, <2>3, <3>2 DEF Proceeds
  <2> QED
    BY <2>2, <2>3
<1> QED
  BY <1>1, <1>2

\* A command that is not at its checks needs nothing of them.
LEMMA CutoverIdle ==
    ASSUME operator'.at \notin {"confirms", "checks", "commits"}
    PROVE  CutoverHolds'
  BY DEF CutoverHolds, Checking

\* Nothing but open and dead events, and those only more, and a worker that
\* rests or stays where it is.
LEMMA StillProceeds ==
    ASSUME UNCHANGED <<runtime, link, held, dropped, operator>>, open \subseteq open', dead \subseteq dead',
           NEW r \in Records, state[r] = "ACTIVE",
           Waits(r)' \/ ~At(r, {"project", "derive", "install"}) \/ worker' = worker
    PROVE  Proceeds(r)
<1>1. Waits(r) => Waits(r)'
  BY WaitsOn
<1>2. (Secure(r) => Secure(r)') /\ (Linked(r) => Linked(r)')
  BY DEF Secure, Linked, CopyOf, Runtime
<1>3. CASE Waits(r)'
  BY <1>3 DEF Proceeds
<1>4. CASE ~At(r, {"project", "derive", "install"})
  BY <1>1, <1>2, <1>4 DEF Proceeds, At
<1>5. CASE worker' = worker
  BY <1>1, <1>2, <1>5 DEF Proceeds, At, rec, tgt
<1> QED
  BY <1>3, <1>4, <1>5

---------------------------------------------------------------------------
\* Lifecycle operations.

LEMMA OperateInv ==
    ASSUME TargetsInv, NEW r \in Records, NEW from \in SUBSET {"ACTIVE", "RETIRED"},
           NEW to \in RecordStates, NEW kind \in Kinds, NEW targets \in SUBSET Targets,
           Operate(r, from, to, kind, targets),
           to = "ACTIVE" => kind = "project" /\ Graph \in targets,
           kind = "erase" => to \in Gone
    PROVE  TargetsInv'
<1>0. /\ UNCHANGED <<runtime, link, dead, held, dropped, destroyed, worker, operator, cutover>>
      /\ state[r] \in from /\ state' = [state EXCEPT ![r] = to]
      /\ open' = open \cup {Event(r, t, kind) : t \in targets}
  BY DEF Operate, stores
<1> DEFINE new == {Event(r, t, kind) : t \in targets}
<1>1. \A e \in new : e \in DeliveryEvents /\ Placed(e) /\ e.r = r /\ e.kind = kind /\ e.t \in targets
  <2>1. r \in Nat
    BY BoundsAssumption
  <2> QED
    BY <2>1, EventType DEF Placed, Kinds
<1>2. to = "ACTIVE" => Waits(r)'
  <2>1. ASSUME to = "ACTIVE" PROVE Event(r, Graph, "project") \in new
    BY <2>1
  <2>2. /\ Event(r, Graph, "project").r = r /\ Event(r, Graph, "project").t = Graph
        /\ Event(r, Graph, "project").kind = "project"
    BY DEF Event
  <2> QED
    BY <1>0, <2>1, <2>2 DEF Waits
<1> HIDE DEF new
<1>3. /\ state' \in [Records -> RecordStates] /\ state'[r] = to
      /\ \A q \in Records : q # r => state'[q] = state[q]
  BY <1>0 DEF TargetsInv, TargetsTyped
<1>4. state[r] \notin Gone
  BY <1>0 DEF Gone
<1>5. TargetsTyped'
  BY <1>0, <1>1, <1>3 DEF TargetsInv, TargetsTyped, new
<1>6. LinksSound' /\ StampsHold' /\ StoresSound' /\ PlanHolds' /\ WorkerKnows'
  BY <1>0 DEF TargetsInv, LinksSound, StampsHold, StoresSound, PlanHolds, WorkerKnows, Runtime, tgt, rec,
              Current, Scheme
<1>7. KindsAgree'
  <2>1. ASSUME NEW e \in open', e.kind = "erase" PROVE state'[e.r] \in Gone
    <3>1. CASE e \in open
      BY <1>3, <1>4, <2>1, <3>1 DEF TargetsInv, KindsAgree, TargetsTyped, Placed
    <3>2. CASE e \in new
      BY <1>1, <1>3, <2>1, <3>2
    <3> QED
      BY <1>0, <2>1, <3>1, <3>2 DEF new
  <2>2. ASSUME worker.at # "idle", worker.event.kind = "erase" PROVE state'[rec] \in Gone
    BY <1>3, <1>4, <2>2, Facts DEF TargetsInv, KindsAgree
  <2>3. ASSUME NEW q \in Records, At(q, {"retain", "remove", "unlink", "compensate"}), state'[q] = "ACTIVE"
        PROVE  Waits(q)'
    <3>1. CASE q = r
      BY <1>2, <1>3, <2>3, <3>1
    <3>2. CASE q # r
      BY <1>0, <1>3, <2>3, <3>2, WaitsOn DEF TargetsInv, KindsAgree
    <3> QED
      BY <3>1, <3>2
  <2> QED
    BY <1>0, <2>1, <2>2, <2>3 DEF TargetsInv, KindsAgree, At, rec, tgt
<1>8. CutoverHolds'
  <2>1. ASSUME NEW q \in Records, state'[q] = "ACTIVE" PROVE Proceeds(q)
    <3>1. CASE q = r
      BY <1>2, <1>3, <2>1, <3>1 DEF Proceeds
    <3>2. CASE q # r
      BY <1>0, <1>3, <2>1, <3>2, StillProceeds
    <3> QED
      BY <3>1, <3>2
  <2> QED
    BY <1>0, <2>1, CutoverStays DEF TargetsInv
<1> QED
  BY <1>5, <1>6, <1>7, <1>8 DEF TargetsInv

LEMMA LifecycleInv ==
    ASSUME TargetsInv, NEW r \in Touched, Retire(r) \/ Restore(r) \/ Delete(r)
    PROVE  TargetsInv'
<1>1. r \in Records
  BY BoundsAssumption
<1>2. Graph \in DeliveryTargets /\ DeliveryTargets \subseteq Targets /\ CopyHolders(r) \subseteq Targets
  BY Facts DEF TargetsInv, DeliveryTargets, CopyHolders, Delivers
<1>3. CASE Retire(r)
  BY <1>1, <1>2, <1>3, OperateInv DEF Retire, RecordStates, Kinds, Gone
<1>4. CASE Restore(r)
  BY <1>1, <1>2, <1>4, OperateInv DEF Restore, RecordStates, Kinds, Gone
<1>5. CASE Delete(r)
  BY <1>1, <1>2, <1>5, OperateInv DEF Delete, RecordStates, Kinds, Gone
<1> QED
  BY <1>3, <1>4, <1>5

---------------------------------------------------------------------------
\* The worker takes an event, gives it back, or is done with it.

LEMMA TakeEventInv ==
    ASSUME TargetsInv, NEW e \in open, TakeEvent(e)
    PROVE  TargetsInv'
<1>0. /\ UNCHANGED <<runtime, state, link, dead, held, dropped, destroyed, operator, cutover>>
      /\ worker.at = "idle" /\ open' = open \ {e}
      /\ worker' = [Idle EXCEPT !.at = e.kind, !.event = e, !.stamp = Now]
  BY DEF TakeEvent, stores, canon, WorkerKeeps
<1>1. e \in DeliveryEvents /\ Placed(e) /\ e.kind \in Kinds /\ Kinds \subseteq Stages
  BY DEF TargetsInv, TargetsTyped, Placed, DeliveryEvents, Kinds, Stages
<1>2. Now \in Stamps /\ Now # "past" /\ (operator.at = "commits" => Now = "now")
  BY DEF Now, Stamps
<1>3. /\ worker' \in WorkerType /\ worker'.at = e.kind /\ worker'.event = e /\ worker'.stamp = Now
      /\ worker'.seen = NoLink
  BY <1>0, <1>1, <1>2, AtRest DEF WorkerType
<1>4. TargetsTyped'
  BY <1>0, <1>1, <1>3 DEF TargetsInv, TargetsTyped, WorkerType
<1>5. LinksSound'
  BY <1>0, <1>3, LinksStay, Bare, Facts DEF TargetsInv
<1>6. StampsHold' /\ StoresSound' /\ PlanHolds'
  BY <1>0, <1>2, <1>3 DEF TargetsInv, StampsHold, StoresSound, PlanHolds, Runtime
<1>7. WorkerKnows'
  BY <1>1, <1>3 DEF WorkerKnows, Kinds
<1>8. KindsAgree'
  BY <1>0, <1>1, <1>3 DEF TargetsInv, KindsAgree, At, rec, Kinds
<1>9. CutoverHolds'
  <2>1. ASSUME NEW r \in Records, state'[r] = "ACTIVE" PROVE Proceeds(r)
    <3>1. Waits(r) => Waits(r)' \/ At(r, {"project"})'
      BY <1>0, <1>3 DEF Waits, At, rec, tgt
    <3>2. (Secure(r) => Secure(r)') /\ (Linked(r) => Linked(r)')
      BY <1>0 DEF Secure, Linked, CopyOf, Runtime
    <3> QED
      BY <1>0, <2>1, <3>1, <3>2 DEF Proceeds, At
  <2> QED
    BY <1>0, <2>1, CutoverStays DEF TargetsInv
<1> QED
  BY <1>4, <1>5, <1>6, <1>7, <1>8, <1>9 DEF TargetsInv

\* The event goes back to the queue, or is given up.
LEMMA GivenBackInv ==
    ASSUME TargetsInv, worker.at # "idle", worker' = Idle, NEW e \in DeliveryEvents,
           e.r = rec, e.t = tgt, e.kind = worker.event.kind,
           \/ open' = open \cup {e} /\ UNCHANGED dead
           \/ dead' = dead \cup {e} /\ UNCHANGED open,
           UNCHANGED <<runtime, state, link, held, dropped, destroyed, operator, cutover>>
    PROVE  TargetsInv'
<1>1. Placed(e) /\ rec \in Records
  BY Facts DEF TargetsInv, Placed, Kinds
<1>2. TargetsTyped'
  BY <1>1, Rests DEF TargetsInv, TargetsTyped, WorkerType
<1>3. LinksSound'
  BY Rests, LinksStay, Bare, Facts DEF TargetsInv
<1>4. StampsHold' /\ StoresSound' /\ PlanHolds' /\ WorkerKnows'
  BY Rests DEF TargetsInv, StampsHold, StoresSound, PlanHolds, WorkerKnows, Runtime
<1>5. KindsAgree'
  BY Rests DEF TargetsInv, KindsAgree, At
<1>6. CutoverHolds'
  <2>1. ASSUME NEW r \in Records, state'[r] = "ACTIVE" PROVE Proceeds(r)
    <3>1. ASSUME At(r, {"project", "derive", "install"}) PROVE Waits(r)'
      BY <3>1 DEF TargetsInv, KindsAgree, At, Waits
    <3>2. Waits(r)' \/ ~At(r, {"project", "derive", "install"})
      BY <3>1
    <3> QED
      BY <2>1, <3>2, StillProceeds
  <2> QED
    BY <2>1, CutoverStays DEF TargetsInv
<1> QED
  BY <1>2, <1>3, <1>4, <1>5, <1>6 DEF TargetsInv

LEMMA FailsInv ==
    ASSUME TargetsInv, worker.at # "idle", Fails,
           UNCHANGED <<runtime, state, link, held, dropped, destroyed, operator, cutover>>
    PROVE  TargetsInv'
<1> DEFINE e == [worker.event EXCEPT !.attempts = @ + 1]
<1>1. worker.event \in DeliveryEvents /\ worker' = Idle
  BY Facts DEF TargetsInv, Fails, Settles
<1>2. e \in DeliveryEvents /\ e.r = rec /\ e.t = tgt /\ e.kind = worker.event.kind
  BY <1>1 DEF DeliveryEvents, rec, tgt
<1>3. \/ open' = open \cup {e} /\ UNCHANGED dead
      \/ dead' = dead \cup {worker.event} /\ UNCHANGED open
  BY DEF Fails
<1> HIDE DEF e
<1>4. worker.event.r = rec /\ worker.event.t = tgt
  BY DEF rec, tgt
<1> QED
  BY <1>1, <1>2, <1>3, <1>4, GivenBackInv

LEMMA CallFailsInv ==
    ASSUME TargetsInv, CallFails
    PROVE  TargetsInv'
  BY FailsInv DEF CallFails, stores, canon, WorkerKeeps

LEMMA WorkerDiesInv ==
    ASSUME TargetsInv, WorkerDies
    PROVE  TargetsInv'
<1>1. worker.event \in DeliveryEvents /\ worker.event.r = rec /\ worker.event.t = tgt
  BY Facts DEF TargetsInv, rec, tgt
<1> QED
  BY <1>1, GivenBackInv DEF WorkerDies, stores, canon, WorkerKeeps

\* The worker is done with an event, whose record is not active if the event was
\* to project it.
LEMMA DoneInv ==
    ASSUME TargetsInv, worker.at # "idle", worker' = Idle,
           worker.at \in {"project", "derive", "install"} => state[rec] # "ACTIVE" \/ tgt # Graph,
           UNCHANGED <<runtime, state, link, open, dead, held, dropped, destroyed, operator, cutover>>
    PROVE  TargetsInv'
<1>1. TargetsTyped'
  BY Rests DEF TargetsInv, TargetsTyped, WorkerType
<1>2. LinksSound'
  BY Rests, LinksStay, Bare, Facts DEF TargetsInv
<1>3. StampsHold' /\ StoresSound' /\ PlanHolds' /\ WorkerKnows' /\ KindsAgree'
  BY Rests DEF TargetsInv, StampsHold, StoresSound, PlanHolds, WorkerKnows, KindsAgree, At, Runtime
<1>4. CutoverHolds'
  <2>1. ASSUME NEW r \in Records, state'[r] = "ACTIVE" PROVE Proceeds(r)
    <3>1. ~At(r, {"project", "derive", "install"})
      BY <2>1 DEF At
    <3> QED
      BY <2>1, <3>1, StillProceeds
  <2> QED
    BY <2>1, CutoverStays DEF TargetsInv
<1> QED
  BY <1>1, <1>2, <1>3, <1>4 DEF TargetsInv

LEMMA ProjectSkipsInv ==
    ASSUME TargetsInv, ProjectSkips
    PROVE  TargetsInv'
<1>1. Delivers(Runtime, Graph)
  BY Facts DEF TargetsInv, Delivers
<1> QED
  BY <1>1, DoneInv DEF ProjectSkips, Settles, stores, canon, WorkerKeeps

---------------------------------------------------------------------------
\* Projecting a record.

LEMMA ProjectCallsInv ==
    ASSUME TargetsInv, ProjectCalls
    PROVE  TargetsInv'
<1>0. /\ UNCHANGED <<runtime, state, link, open, dead, destroyed, cutover>>
      /\ worker.at = "project" /\ Goes("derive")
      /\ \/ held' = held \cup {Copy} /\ dropped' = dropped \ {Copy} /\ UNCHANGED operator
         \/ /\ dropped' = dropped \cup {Copy} /\ UNCHANGED held
            /\ operator' = [operator EXCEPT !.lost = @ \ {Copy}]
  BY DEF ProjectCalls, canon
<1>1. /\ worker' \in WorkerType /\ worker'.at = "derive"
      /\ worker'.event = worker.event /\ worker'.stamp = worker.stamp /\ worker'.seen = worker.seen
  BY <1>0, GoesTo DEF TargetsInv, Stages
<1>2. /\ operator'.at = operator.at /\ operator'.left = operator.left
      /\ operator'.confirmed = operator.confirmed /\ operator'.expected = operator.expected
      /\ operator'.queue = operator.queue
      /\ operator' = [at |-> operator'.at, lost |-> operator'.lost, left |-> operator'.left,
                      confirmed |-> operator'.confirmed, listed |-> operator'.listed,
                      expected |-> operator'.expected, queue |-> operator'.queue]
  BY <1>0 DEF TargetsInv, TargetsTyped
<1>3. /\ operator'.lost = operator.lost \ {Copy} /\ dropped' = dropped \cup {Copy} /\ held' = held
      \/ /\ operator'.lost = operator.lost /\ dropped' = dropped \ {Copy} /\ held' = held \cup {Copy}
  BY <1>0 DEF TargetsInv, TargetsTyped
<1>4. TargetsTyped'
  BY <1>0, <1>1, <1>2, Facts DEF TargetsInv, TargetsTyped, WorkerType
<1>5. LinksSound'
  BY <1>0, <1>1, LinksStay DEF TargetsInv, LinksSound, tgt
<1>6. StampsHold' /\ PlanHolds' /\ WorkerKnows' /\ KindsAgree'
  BY <1>0, <1>1, <1>2 DEF TargetsInv, StampsHold, PlanHolds, WorkerKnows, KindsAgree, At, rec
<1>7. StoresSound'
  <2>1. Copy[2] = tgt /\ Copy[3] = Scheme(tgt)
    BY DEF Copy
  <2>2. tgt = Graph => Copy[3] \notin destroyed
    BY <2>1, SchemeType, Facts DEF TargetsInv, StoresSound
  <2>3. held' \subseteq held \cup {Copy}
    BY <1>3
  <2> QED
    BY <1>0, <2>1, <2>2, <2>3 DEF TargetsInv, StoresSound, Runtime
<1>8. CutoverHolds'
  <2>1. ASSUME NEW r \in Records, state'[r] = "ACTIVE" PROVE Proceeds(r)
    <3>1. Waits(r) => Waits(r)'
      BY <1>0, WaitsOn
    <3>2. Linked(r) => Linked(r)'
      BY <1>0 DEF Linked, Runtime
    <3>3. Secure(r) => Secure(r)'
      BY <1>0, <1>3 DEF Secure, CopyOf, Runtime
    <3>4. At(r, {"project"}) => Secure(r)' /\ At(r, {"derive", "install"})'
      <4>1. At(r, {"project"}) => CopyOf(r) = Copy
        BY Facts, SchemeType DEF TargetsInv, At, CopyOf, Copy
      <4>2. CopyOf(r)' = CopyOf(r)
        BY <1>0 DEF CopyOf, Runtime
      <4> QED
        BY <1>1, <1>3, <4>1, <4>2 DEF Secure, At, rec, tgt
    <3> QED
      BY <1>0, <2>1, <3>1, <3>2, <3>3, <3>4 DEF Proceeds, At
  <2> QED
    BY <1>2, <2>1, CutoverStays DEF TargetsInv
<1> QED
  BY <1>4, <1>5, <1>6, <1>7, <1>8 DEF TargetsInv

\* A step that changes nothing but the stage of a projection, and what the worker read.
LEMMA ProjectionGoesOn ==
    ASSUME TargetsInv, worker.at \in {"derive", "install"}, worker' \in WorkerType,
           worker'.at \in {"derive", "install", "compensate"},
           worker'.event = worker.event, worker'.stamp = worker.stamp,
           worker'.seen \in {worker.seen, Current},
           worker'.at = "compensate" => state[rec] # "ACTIVE",
           UNCHANGED <<runtime, state, link, open, dead, held, dropped, destroyed, operator, cutover>>
    PROVE  TargetsInv'
<1>1. TargetsTyped'
  BY Facts DEF TargetsInv, TargetsTyped, WorkerType
<1>2. LinksSound'
  BY LinksStay, Facts DEF TargetsInv, LinksSound, tgt, rec, Current
<1>3. StampsHold' /\ StoresSound' /\ PlanHolds' /\ WorkerKnows'
  BY DEF TargetsInv, StampsHold, StoresSound, PlanHolds, WorkerKnows, Runtime
<1>4. KindsAgree'
  BY DEF TargetsInv, KindsAgree, At, rec, tgt, Waits
<1>5. CutoverHolds'
  <2>1. ASSUME NEW r \in Records, state'[r] = "ACTIVE" PROVE Proceeds(r)
    <3>1. (Waits(r) => Waits(r)') /\ (Secure(r) => Secure(r)') /\ (Linked(r) => Linked(r)')
      BY WaitsOn DEF Secure, Linked, CopyOf, Runtime
    <3>2. At(r, {"derive", "install"}) => At(r, {"derive", "install"})'
      BY <2>1 DEF At, rec, tgt
    <3>3. ~At(r, {"project"})
      BY DEF At
    <3> QED
      BY <2>1, <3>1, <3>2, <3>3 DEF Proceeds
  <2> QED
    BY <2>1, CutoverStays DEF TargetsInv
<1> QED
  BY <1>1, <1>2, <1>3, <1>4, <1>5 DEF TargetsInv

LEMMA InstallReadsInv ==
    ASSUME TargetsInv, InstallReads
    PROVE  TargetsInv'
<1>1. worker.at = "derive" /\ Current \in LinkValues /\ Sees("install", Current)
  BY Facts DEF TargetsInv, InstallReads
<1>2. /\ worker' \in WorkerType /\ worker'.at = "install"
      /\ worker'.event = worker.event /\ worker'.stamp = worker.stamp /\ worker'.seen = Current
  BY <1>1, SeesAs DEF TargetsInv, Stages
<1> QED
  BY <1>1, <1>2, ProjectionGoesOn DEF InstallReads, stores, canon, WorkerKeeps

\* The copies a link leaves behind lie in stores older than the runtime's, and
\* older than the cutover's if they were left before it.
LEMMA LeftBehindSound ==
    ASSUME TargetsTyped, NEW t \in Targets, NEW l \in LinkValues, NEW stamp \in Stamps, stamp # "past",
           SoundIn(l, t, Runtime.scheme, cutover.scheme)
    PROVE  /\ LeftBehind(l, t, stamp) \subseteq [scheme : Nat, stamp : Stamps]
           /\ \A c \in LeftBehind(l, t, stamp) :
                 /\ c.scheme \in Schemes /\ c.scheme < Runtime.scheme
                 /\ c.stamp = "past" => c.scheme < cutover.scheme
           /\ t # Graph => LeftBehind(l, t, stamp) = {}
           /\ OldCopies(l) \subseteq {c.scheme : c \in LeftBehind(l, t, stamp)}
           /\ Stale(l, t) => l.live \in {c.scheme : c \in LeftBehind(l, t, stamp)}
<1> DEFINE own == [scheme |-> l.live, stamp |-> stamp]
<1>1. own.scheme = l.live /\ own.stamp = stamp /\ own \in [scheme : Nat, stamp : Stamps]
  BY LinkFields
<1>2. Stale(l, t) => t = Graph /\ l.live < Runtime.scheme /\ l.live \in Schemes
  BY SchemeType, LinkFields, Facts DEF Stale, SoundIn
<1>3. LeftBehind(l, t, stamp) = l.copies \cup (IF Stale(l, t) THEN {own} ELSE {})
  BY DEF LeftBehind
<1>4. l.copies \subseteq [scheme : Nat, stamp : Stamps]
  BY LinkFields
<1>5. \A c \in l.copies : /\ c.scheme \in Schemes /\ c.scheme < Runtime.scheme
                          /\ c.stamp = "past" => c.scheme < cutover.scheme
  BY DEF SoundIn
<1>6. t # Graph => l.copies = {}
  BY DEF SoundIn
<1> HIDE DEF own
<1> QED
  BY <1>1, <1>2, <1>3, <1>4, <1>5, <1>6 DEF OldCopies

LEMMA InstallWritesInv ==
    ASSUME TargetsInv, InstallWrites
    PROVE  TargetsInv'
<1>0. UNCHANGED <<runtime, state, open, dead, held, dropped, destroyed, operator, cutover>>
      /\ worker.at = "install" /\ worker.stamp # "past"
  BY DEF InstallWrites, stores, canon, WorkerKeeps, TargetsInv, StampsHold
<1>1. CASE state[rec] # "ACTIVE" /\ Goes("compensate") /\ UNCHANGED link
  <2>1. /\ worker' \in WorkerType /\ worker'.at = "compensate" /\ worker'.event = worker.event
        /\ worker'.stamp = worker.stamp /\ worker'.seen = worker.seen
    BY <1>1, GoesTo DEF TargetsInv, Stages
  <2> QED
    BY <1>0, <1>1, <2>1, ProjectionGoesOn
<1>2. CASE state[rec] = "ACTIVE" /\ Goes("derive") /\ UNCHANGED link
  <2>1. /\ worker' \in WorkerType /\ worker'.at = "derive" /\ worker'.event = worker.event
        /\ worker'.stamp = worker.stamp /\ worker'.seen = worker.seen
    BY <1>2, GoesTo DEF TargetsInv, Stages
  <2> QED
    BY <1>0, <1>2, <2>1, ProjectionGoesOn
<1>3. CASE /\ state[rec] = "ACTIVE"
           /\ Links(Live(Scheme(tgt), LeftBehind(worker.seen, tgt, worker.stamp)))
           /\ Settles
  <2> DEFINE left == LeftBehind(worker.seen, tgt, worker.stamp)
             l == Live(Scheme(tgt), left)
  <2>1. /\ left \subseteq [scheme : Nat, stamp : Stamps]
        /\ \A c \in left : /\ c.scheme \in Schemes /\ c.scheme < Runtime.scheme
                           /\ c.stamp = "past" => c.scheme < cutover.scheme
        /\ tgt # Graph => left = {}
    BY <1>0, LeftBehindSound, Facts DEF TargetsInv, LinksSound
  <2> HIDE DEF left
  <2>2. /\ l.live = Scheme(tgt) /\ ~l.withdrawn /\ l.copies = left /\ l.is /\ l \in LinkValues
    BY <2>1, SchemeType, Facts DEF Live, LinkValues, TargetsInv
  <2>3. SoundIn(l, tgt, Runtime.scheme, cutover.scheme)
    BY <2>1, <2>2, SchemeType, Facts DEF SoundIn, TargetsInv
  <2>4. Scheme(tgt) \in Names(l)
    BY <2>2 DEF Names
  <2>5. Links(l) /\ worker' = Idle
    BY <1>3 DEF Settles, left
  <2> HIDE DEF l
  <2>6. /\ link' \in [Records -> [Targets -> LinkValues]] /\ link'[rec][tgt] = l
        /\ \A r \in Records, t \in Targets : r # rec \/ t # tgt => link'[r][t] = link[r][t]
    BY <1>0, <2>2, <2>5, LinksTo DEF TargetsInv
  <2>7. TargetsTyped'
    BY <1>0, <2>5, <2>6, Rests DEF TargetsInv, TargetsTyped, WorkerType
  <2>8. LinksSound'
    <3>1. ASSUME NEW r \in Records, NEW t \in Targets
          PROVE  SoundIn(link'[r][t], t, Runtime.scheme, cutover.scheme)
      BY <2>3, <2>6 DEF TargetsInv, LinksSound
    <3> QED
      BY <1>0, <2>5, <3>1, Rests, Bare, Facts DEF TargetsInv, LinksSound, Runtime, tgt
  <2>9. StampsHold' /\ StoresSound' /\ PlanHolds' /\ WorkerKnows' /\ KindsAgree'
    BY <1>0, <2>5, Rests DEF TargetsInv, StampsHold, StoresSound, PlanHolds, WorkerKnows, KindsAgree, At, Runtime
  <2>10. CutoverHolds'
    <3>1. ASSUME NEW r \in Records, state'[r] = "ACTIVE" PROVE Proceeds(r)
      <4>1. (Waits(r) => Waits(r)') /\ (Secure(r) => Secure(r)')
        BY <1>0, WaitsOn DEF Secure, CopyOf, Runtime
      <4>2. CASE rec = r /\ tgt = Graph
        <5>1. Linked(r)'
          BY <1>0, <2>4, <2>6, <4>2, SchemeType, Facts DEF Linked, Runtime, TargetsInv
        <5> QED
          BY <1>0, <3>1, <4>1, <5>1 DEF Proceeds, At
      <4>3. CASE ~(rec = r /\ tgt = Graph)
        <5>1. Linked(r) => Linked(r)'
          BY <1>0, <2>6, <4>3, Facts DEF Linked, Runtime, TargetsInv
        <5> QED
          BY <1>0, <3>1, <4>1, <4>3, <5>1 DEF Proceeds, At
      <4> QED
        BY <4>2, <4>3
    <3> QED
      BY <1>0, <3>1, CutoverStays DEF TargetsInv
  <2> QED
    BY <2>7, <2>8, <2>9, <2>10 DEF TargetsInv
<1> QED
  BY <1>0, <1>1, <1>2, <1>3 DEF InstallWrites

---------------------------------------------------------------------------
\* Taking a copy away.

\* While the worker takes a copy of an active record away, another event of the
\* record waits.
LEMMA Guarded ==
    ASSUME TargetsInv, worker.at \in {"retain", "remove", "unlink", "compensate"},
           open \subseteq open', dead \subseteq dead', NEW r \in Records, rec = r, tgt = Graph, state[r] = "ACTIVE"
    PROVE  Waits(r)'
<1>1. Waits(r)
  BY DEF TargetsInv, KindsAgree, At
<1> QED
  BY <1>1, WaitsOn

LEMMA RemovedInv ==
    ASSUME TargetsInv, worker.at \in {"remove", "compensate"}, held' = held \ {Copy},
           IF worker.at = "remove" THEN Goes("unlink") ELSE Settles,
           UNCHANGED <<runtime, state, link, open, dead, dropped, destroyed, operator, cutover>>
    PROVE  TargetsInv'
<1>1. \/ /\ worker.at = "remove"
         /\ worker' \in WorkerType /\ worker'.at = "unlink" /\ worker'.event = worker.event
         /\ worker'.stamp = worker.stamp /\ worker'.seen = worker.seen
      \/ worker' = Idle
  BY GoesTo DEF TargetsInv, Stages, Settles
<1>2. TargetsTyped'
  BY <1>1, Rests, Facts DEF TargetsInv, TargetsTyped, WorkerType
<1>3. LinksSound'
  BY <1>1, Rests, LinksStay, Bare, Facts DEF TargetsInv, LinksSound, tgt
<1>4. StampsHold' /\ PlanHolds'
  BY <1>1, Rests DEF TargetsInv, StampsHold, PlanHolds
<1>5. StoresSound'
  BY StoresStay DEF TargetsInv
<1>6. KindsAgree'
  BY <1>1, Rests DEF TargetsInv, KindsAgree, At, rec, tgt, Waits
<1>7. WorkerKnows'
  <2>1. CASE worker' = Idle
    BY <2>1, Rests DEF WorkerKnows
  <2>2. CASE worker.at = "remove" /\ worker'.at = "unlink" /\ worker'.event = worker.event
             /\ worker'.seen = worker.seen
    <3>1. /\ ~worker.seen.withdrawn /\ worker.seen.live = Scheme(tgt)
          /\ Names(Current) \subseteq Names(worker.seen)
      BY <2>2 DEF TargetsInv, WorkerKnows
    <3>2. ASSUME NEW s \in Names(Current) \ OldCopies(worker.seen)
          PROVE  <<rec, tgt, s>> \notin held'
      <4>1. s = Scheme(tgt)
        BY <3>1 DEF Names, OldCopies
      <4> QED
        BY <4>1 DEF Copy
    <3>3. rec' = rec /\ tgt' = tgt /\ Current' = Current
      BY <2>2 DEF rec, tgt, Current
    <3> QED
      BY <2>2, <3>2, <3>3 DEF WorkerKnows
  <2> QED
    BY <1>1, <2>1, <2>2
<1>8. CutoverHolds'
  <2>1. ASSUME NEW r \in Records, state'[r] = "ACTIVE" PROVE Proceeds(r)
    <3>1. CASE rec = r /\ tgt = Graph
      BY <2>1, <3>1, Guarded DEF Proceeds
    <3>2. CASE ~(rec = r /\ tgt = Graph)
      <4>1. (Waits(r) => Waits(r)') /\ (Linked(r) => Linked(r)')
        BY WaitsOn DEF Linked, Runtime
      <4>2. Copy # CopyOf(r)
        BY <3>2 DEF Copy, CopyOf
      <4>3. Secure(r) => Secure(r)'
        BY <4>2 DEF Secure, CopyOf, Runtime
      <4> QED
        BY <2>1, <3>2, <4>1, <4>3 DEF Proceeds, At
    <3> QED
      BY <3>1, <3>2
  <2> QED
    BY <2>1, CutoverStays DEF TargetsInv
<1> QED
  BY <1>2, <1>3, <1>4, <1>5, <1>6, <1>7, <1>8 DEF TargetsInv

LEMMA RemoveInv ==
    ASSUME TargetsInv, Remove
    PROVE  TargetsInv'
<1>0. worker.at \in {"remove", "compensate"}
      /\ UNCHANGED <<runtime, state, link, dropped, destroyed, operator, cutover>>
  BY DEF Remove, canon, WorkerKeeps
<1>1. CASE Copy \in held /\ UNCHANGED <<open, dead>>
  BY <1>0, <1>1, RemovedInv, FailsInv DEF Remove
<1>2. CASE Fails /\ UNCHANGED held
  BY <1>0, <1>2, FailsInv
<1> QED
  BY <1>1, <1>2 DEF Remove

\* The worker has read the link and goes on to what is to be done about it.
LEMMA ReadsInv ==
    ASSUME TargetsInv, worker.at \in {"retire", "erase"}, NEW at \in {"retain", "remove", "unlink", "list"},
           Sees(at, Current),
           at \in {"retain", "remove"} => Current.is /\ ~Current.withdrawn,
           at \in {"retain", "remove"} => (at = "retain" <=> Current.live # Scheme(tgt)),
           at = "unlink" => Current.withdrawn,
           state[rec] # "ACTIVE",
           UNCHANGED <<runtime, state, link, open, dead, held, dropped, destroyed, operator, cutover>>
    PROVE  TargetsInv'
<1>0. Current \in LinkValues /\ rec \in Records /\ tgt \in Targets
  BY Facts DEF TargetsInv
<1>1. /\ worker' \in WorkerType /\ worker'.at = at /\ worker'.event = worker.event
      /\ worker'.stamp = worker.stamp /\ worker'.seen = Current
  BY <1>0, SeesAs DEF TargetsInv, Stages
<1>2. TargetsTyped'
  BY <1>1, Facts DEF TargetsInv, TargetsTyped, WorkerType
<1>3. LinksSound'
  BY <1>0, <1>1, LinksStay DEF TargetsInv, LinksSound, tgt, Current
<1>4. StampsHold' /\ PlanHolds' /\ StoresSound'
  BY <1>1 DEF TargetsInv, StampsHold, PlanHolds, StoresSound, Runtime
<1>5. KindsAgree'
  BY <1>1 DEF TargetsInv, KindsAgree, At, rec, tgt, Waits
<1>6. WorkerKnows'
  <2>1. rec' = rec /\ tgt' = tgt /\ Current' = Current /\ Scheme(tgt)' = Scheme(tgt)
    BY <1>1 DEF rec, tgt, Current, Scheme, Runtime
  <2>2. at = "unlink" => Names(Current) \subseteq OldCopies(Current)
    BY DEF Names, OldCopies
  <2> QED
    BY <1>1, <2>1, <2>2 DEF WorkerKnows
<1>7. CutoverHolds'
  <2>1. ASSUME NEW r \in Records, state'[r] = "ACTIVE" PROVE Proceeds(r)
    <3>1. ~At(r, {"project", "derive", "install"})
      BY DEF At
    <3> QED
      BY <2>1, <3>1, StillProceeds
  <2> QED
    BY <2>1, CutoverStays DEF TargetsInv
<1> QED
  BY <1>2, <1>3, <1>4, <1>5, <1>6, <1>7 DEF TargetsInv

LEMMA RetireReadsInv ==
    ASSUME TargetsInv, RetireReads
    PROVE  TargetsInv'
<1>0. worker.at = "retire"
      /\ UNCHANGED <<runtime, state, link, open, dead, held, dropped, destroyed, operator, cutover>>
  BY DEF RetireReads, stores, canon, WorkerKeeps
<1>1. CASE Settles
  BY <1>0, <1>1, DoneInv DEF Settles
<1>2. CASE /\ state[rec] # "ACTIVE" /\ Current.is /\ ~Current.withdrawn
           /\ Sees(IF Stale(Current, tgt) THEN "retain" ELSE "remove", Current)
  <2>1. Stale(Current, tgt) <=> Current.live # Scheme(tgt)
    BY <1>2 DEF Stale
  <2> QED
    BY <1>0, <1>2, <2>1, ReadsInv
<1> QED
  BY <1>1, <1>2 DEF RetireReads

LEMMA EraseReadsInv ==
    ASSUME TargetsInv, EraseReads
    PROVE  TargetsInv'
<1>0. worker.at = "erase" /\ state[rec] # "ACTIVE"
      /\ UNCHANGED <<runtime, state, link, open, dead, held, dropped, destroyed, operator, cutover>>
  BY DEF EraseReads, stores, canon, WorkerKeeps, TargetsInv, KindsAgree, Gone
<1>1. CASE ~Current.is
  BY <1>0, <1>1, ReadsInv DEF EraseReads
<1>2. CASE Current.is /\ Current.withdrawn
  BY <1>0, <1>2, ReadsInv DEF EraseReads
<1>3. CASE Current.is /\ ~Current.withdrawn
  <2>1. Stale(Current, tgt) <=> Current.live # Scheme(tgt)
    BY <1>3 DEF Stale
  <2> QED
    BY <1>0, <1>3, <2>1, ReadsInv DEF EraseReads
<1> QED
  BY <1>1, <1>2, <1>3, Facts, LinkFields DEF TargetsInv

\* The worker leaves a link behind that no longer stands for a copy of its own.
LEMMA WithdrawnInv ==
    ASSUME TargetsInv, worker.at \in {"retain", "unlink"}, NEW l \in LinkValues, Links(l),
           SoundIn(l, tgt, Runtime.scheme, cutover.scheme), Names(l) \subseteq OldCopies(l),
           \/ worker' = Idle
           \/ /\ worker' \in WorkerType /\ worker'.event = worker.event /\ worker'.stamp = worker.stamp
              /\ \/ worker'.at = "unlink" /\ worker'.seen = l
                 \/ worker'.at = "list" /\ worker'.seen = worker.seen,
           UNCHANGED <<runtime, state, open, dead, held, dropped, destroyed, operator, cutover>>
    PROVE  TargetsInv'
<1>1. /\ link' \in [Records -> [Targets -> LinkValues]] /\ link'[rec][tgt] = l
      /\ \A r \in Records, t \in Targets : r # rec \/ t # tgt => link'[r][t] = link[r][t]
  BY LinksTo DEF TargetsInv
<1>2. TargetsTyped'
  BY <1>1, Rests, Facts DEF TargetsInv, TargetsTyped, WorkerType
<1>3. LinksSound'
  <2>1. ASSUME NEW r \in Records, NEW t \in Targets
        PROVE  SoundIn(link'[r][t], t, Runtime.scheme, cutover.scheme)
    BY <1>1 DEF TargetsInv, LinksSound
  <2>2. SoundIn(worker'.seen, worker'.event.t, Runtime.scheme, cutover.scheme)
    BY Rests, Bare, Facts DEF TargetsInv, LinksSound, tgt
  <2> QED
    BY <2>1, <2>2 DEF LinksSound, Runtime, tgt
<1>4. StampsHold' /\ PlanHolds' /\ StoresSound'
  BY Rests DEF TargetsInv, StampsHold, PlanHolds, StoresSound, Runtime
<1>5. KindsAgree'
  BY Rests DEF TargetsInv, KindsAgree, At, rec, tgt, Waits
<1>6. WorkerKnows'
  <2>1. CASE worker' = Idle
    BY <2>1, Rests DEF WorkerKnows
  <2>2. CASE worker'.at = "list"
    BY <2>2 DEF WorkerKnows
  <2>3. CASE worker'.at = "unlink" /\ worker'.event = worker.event /\ worker'.seen = l
    <3>1. Current' = l
      BY <1>1, <2>3 DEF Current, rec, tgt
    <3> QED
      BY <2>3, <3>1 DEF WorkerKnows
  <2> QED
    BY <2>1, <2>2, <2>3
<1>7. CutoverHolds'
  <2>1. ASSUME NEW r \in Records, state'[r] = "ACTIVE" PROVE Proceeds(r)
    <3>1. CASE rec = r /\ tgt = Graph
      BY <2>1, <3>1, Guarded DEF Proceeds
    <3>2. CASE ~(rec = r /\ tgt = Graph)
      <4>1. (Waits(r) => Waits(r)') /\ (Secure(r) => Secure(r)')
        BY WaitsOn DEF Secure, CopyOf, Runtime
      <4>2. Linked(r) => Linked(r)'
        BY <1>1, <3>2, Facts DEF Linked, Runtime, TargetsInv
      <4> QED
        BY <2>1, <3>2, <4>1, <4>2 DEF Proceeds, At
    <3> QED
      BY <3>1, <3>2
  <2> QED
    BY <2>1, CutoverStays DEF TargetsInv
<1> QED
  BY <1>2, <1>3, <1>4, <1>5, <1>6, <1>7 DEF TargetsInv

LEMMA RetainInv ==
    ASSUME TargetsInv, Retain
    PROVE  TargetsInv'
<1> DEFINE left == LeftBehind(worker.seen, tgt, worker.stamp)
           kept == [worker.seen EXCEPT !.withdrawn = TRUE, !.copies = left]
<1>0. /\ worker.at = "retain" /\ worker.stamp # "past"
      /\ UNCHANGED <<runtime, state, open, dead, held, dropped, destroyed, operator, cutover>>
      /\ Links(kept) /\ IF worker.event.kind = "retire" THEN Settles ELSE Sees("unlink", kept)
  BY DEF Retain, stores, canon, WorkerKeeps, TargetsInv, StampsHold
<1>1. /\ left \subseteq [scheme : Nat, stamp : Stamps]
      /\ \A c \in left : /\ c.scheme \in Schemes /\ c.scheme < Runtime.scheme
                         /\ c.stamp = "past" => c.scheme < cutover.scheme
      /\ tgt # Graph => left = {}
  BY <1>0, LeftBehindSound, Facts DEF TargetsInv, LinksSound
<1> HIDE DEF left
<1>2. worker.seen \in LinkValues /\ SoundIn(worker.seen, tgt, Runtime.scheme, cutover.scheme)
  BY Facts DEF TargetsInv, LinksSound
<1>3. /\ kept \in LinkValues /\ kept.live = worker.seen.live /\ kept.is = worker.seen.is
      /\ kept.withdrawn /\ kept.copies = left
  BY <1>1, <1>2 DEF LinkValues
<1> HIDE DEF kept
<1>4. SoundIn(kept, tgt, Runtime.scheme, cutover.scheme)
  <2>1. worker.seen.is
    BY <1>0 DEF TargetsInv, WorkerKnows
  <2> QED
    BY <1>1, <1>2, <1>3, <2>1 DEF SoundIn
<1>5. Names(kept) \subseteq OldCopies(kept)
  BY <1>3 DEF Names, OldCopies
<1>6. \/ worker' = Idle
      \/ /\ worker' \in WorkerType /\ worker'.event = worker.event /\ worker'.stamp = worker.stamp
         /\ worker'.at = "unlink" /\ worker'.seen = kept
  BY <1>0, <1>3, SeesAs DEF Settles, TargetsInv, Stages
<1> QED
  BY <1>0, <1>3, <1>4, <1>5, <1>6, WithdrawnInv

LEMMA UnlinkInv ==
    ASSUME TargetsInv, Unlink
    PROVE  TargetsInv'
<1> DEFINE pends == worker.seen.pending \/ worker.event.kind = "erase"
           kept == [worker.seen EXCEPT !.withdrawn = TRUE, !.pending = pends]
           l == IF worker.seen.copies = {} THEN NoLink ELSE kept
<1>0. /\ worker.at = "unlink"
      /\ UNCHANGED <<runtime, state, open, dead, held, dropped, destroyed, operator, cutover>>
      /\ IF worker.event.kind = "erase" THEN Goes("list") ELSE Settles
  BY DEF Unlink, stores, canon, WorkerKeeps
<1>1. worker.seen \in LinkValues /\ SoundIn(worker.seen, tgt, Runtime.scheme, cutover.scheme)
      /\ Runtime.scheme \in Nat
  BY Facts DEF TargetsInv, LinksSound
<1>2. pends \in BOOLEAN
  BY <1>1 DEF LinkValues
<1>3. Links(l)
  BY <1>1, LinkFields DEF Unlink
<1> HIDE DEF pends
<1>4. /\ kept \in LinkValues /\ kept.live = worker.seen.live /\ kept.is = worker.seen.is
      /\ kept.withdrawn /\ kept.copies = worker.seen.copies
  BY <1>1, <1>2 DEF LinkValues
<1> HIDE DEF kept
<1>5. l \in LinkValues /\ SoundIn(l, tgt, Runtime.scheme, cutover.scheme) /\ Names(l) \subseteq OldCopies(l)
  <2>1. SoundIn(kept, tgt, Runtime.scheme, cutover.scheme) /\ Names(kept) \subseteq OldCopies(kept)
    BY <1>1, <1>4 DEF SoundIn, Names, OldCopies
  <2> QED
    BY <1>1, <1>4, <2>1, Bare
<1> HIDE DEF l
<1>6. \/ worker' = Idle
      \/ /\ worker' \in WorkerType /\ worker'.event = worker.event /\ worker'.stamp = worker.stamp
         /\ worker'.at = "list" /\ worker'.seen = worker.seen
  BY <1>0, GoesTo DEF Settles, TargetsInv, Stages
<1> QED
  BY <1>0, <1>3, <1>5, <1>6, WithdrawnInv

\* Records are deleted for good, and nothing else changes but the worker.
LEMMA EraseListsInv ==
    ASSUME TargetsInv, EraseLists
    PROVE  TargetsInv'
<1>0. /\ worker.at = "list" /\ worker' = Idle
      /\ state' \in {state, [state EXCEPT ![rec] = "DELETED"]}
      /\ UNCHANGED <<runtime, link, open, dead, held, dropped, destroyed, operator, cutover>>
  BY DEF EraseLists, Settles, stores
<1>1. /\ state' \in [Records -> RecordStates]
      /\ \A r \in Records : state'[r] \in {state[r], "DELETED"}
  BY <1>0, Facts DEF TargetsInv, TargetsTyped, RecordStates
<1>2. TargetsTyped'
  BY <1>0, <1>1, Rests DEF TargetsInv, TargetsTyped, WorkerType
<1>3. LinksSound'
  BY <1>0, Rests, LinksStay, Bare, Facts DEF TargetsInv
<1>4. StampsHold' /\ StoresSound' /\ PlanHolds' /\ WorkerKnows'
  BY <1>0, Rests DEF TargetsInv, StampsHold, StoresSound, PlanHolds, WorkerKnows, Runtime
<1>5. KindsAgree'
  BY <1>0, <1>1, Rests DEF TargetsInv, TargetsTyped, KindsAgree, At, Gone, Placed
<1>6. CutoverHolds'
  <2>1. ASSUME NEW r \in Records, state'[r] = "ACTIVE" PROVE Proceeds(r)
    <3>1. state[r] = "ACTIVE" /\ ~At(r, {"project", "derive", "install"})
      BY <1>0, <1>1, <2>1 DEF At
    <3> QED
      BY <1>0, <3>1, StillProceeds
  <2> QED
    BY <1>0, <2>1, CutoverStays DEF TargetsInv
<1> QED
  BY <1>2, <1>3, <1>4, <1>5, <1>6 DEF TargetsInv

LEMMA WorkerInv ==
    ASSUME TargetsInv, WorkerStep
    PROVE  TargetsInv'
  BY TakeEventInv, ProjectSkipsInv, ProjectCallsInv, InstallReadsInv, InstallWritesInv, RemoveInv,
     RetireReadsInv, RetainInv, EraseReadsInv, UnlinkInv, EraseListsInv DEF WorkerStep

---------------------------------------------------------------------------
\* A new runtime, and a rebuild.

LEMMA SoundUnderNext ==
    ASSUME NEW l \in LinkValues, NEW t, NEW now \in Nat, NEW next \in Nat, NEW cut \in Nat, now <= next,
           SoundIn(l, t, now, cut)
    PROVE  SoundIn(l, t, next, cut)
<1>1. l.live \in Nat /\ \A c \in l.copies : c.scheme \in Nat
  BY LinkFields
<1> QED
  BY <1>1 DEF SoundIn

LEMMA RestingFacts ==
    ASSUME operator = Resting
    PROVE  operator.at = "idle"
  BY DEF Resting

LEMMA DeployInv ==
    ASSUME TargetsInv, Deploy
    PROVE  TargetsInv'
<1>0. /\ operator.at = "idle" /\ runtime < Len(Runtimes) /\ runtime' = runtime + 1 /\ worker' = Idle
      /\ open' = IF worker.at = "idle" THEN open ELSE open \cup {worker.event}
      /\ UNCHANGED <<state, link, dead, held, dropped, destroyed, operator, cutover>>
  BY RestingFacts DEF Deploy, stores, canon
<1>1. /\ runtime \in DOMAIN Runtimes /\ runtime' \in DOMAIN Runtimes
      /\ Runtime.scheme \in Nat /\ Runtime'.scheme \in Nat /\ Runtime.scheme <= Runtime'.scheme
  BY <1>0, RuntimeTypes, RuntimesAssumption DEF TargetsInv, TargetsTyped, Runtime
<1>2. TargetsTyped'
  BY <1>0, <1>1, Rests, Facts DEF TargetsInv, TargetsTyped, WorkerType
<1>3. LinksSound'
  <2>1. ASSUME NEW r \in Records, NEW t \in Targets
        PROVE  SoundIn(link[r][t], t, Runtime'.scheme, cutover.scheme)
    <3>1. link[r][t] \in LinkValues /\ SoundIn(link[r][t], t, Runtime.scheme, cutover.scheme)
          /\ cutover.scheme \in Nat
      BY Facts DEF TargetsInv, TargetsTyped, LinksSound
    <3> QED
      BY <1>1, <3>1, SoundUnderNext
  <2> QED
    BY <1>0, <1>1, <2>1, Rests, Bare DEF LinksSound, tgt
<1>4. StampsHold' /\ PlanHolds' /\ WorkerKnows' /\ CutoverHolds'
  BY <1>0, Rests, CutoverIdle DEF StampsHold, PlanHolds, WorkerKnows
<1>5. StoresSound'
  BY <1>0, <1>1, Facts DEF TargetsInv, StoresSound
<1>6. KindsAgree'
  BY <1>0, Rests DEF TargetsInv, KindsAgree, At, rec
<1> QED
  BY <1>2, <1>3, <1>4, <1>5, <1>6 DEF TargetsInv

---------------------------------------------------------------------------
\* The operator's commands.  A step of his that moves neither links nor stores
\* has the worker's part of the invariant untouched.

LEMMA CommandInv ==
    ASSUME TargetsInv,
           UNCHANGED <<runtime, state, link, open, dead, held, dropped, destroyed, worker>>,
           TargetsTyped', cutover'.scheme = cutover.scheme,
           operator'.at = "commits" => worker.at = "idle",
           PlanHolds', CutoverHolds'
    PROVE  TargetsInv'
<1>1. LinksSound' /\ StoresSound'
  BY LinksStay, StoresStay DEF TargetsInv, LinksSound, tgt
<1>2. StampsHold' /\ WorkerKnows' /\ KindsAgree'
  BY DEF TargetsInv, StampsHold, WorkerKnows, KindsAgree, Runtime, Scheme, tgt, rec, Current, At, Waits
<1> QED
  BY <1>1, <1>2 DEF TargetsInv

LEMMA RestedType ==
    /\ Resting.at = "idle"
    /\ Resting = [at |-> Resting.at, lost |-> Resting.lost, left |-> Resting.left,
                  confirmed |-> Resting.confirmed, listed |-> Resting.listed, expected |-> Resting.expected, queue |-> Resting.queue]
  BY DEF Resting

\* A rebuild plans and queues projections of records.
LEMMA OwingType ==
    ASSUME NEW t \in DeliveryTargets
    PROVE  Owing(t) \subseteq Projections
<1>1. ASSUME NEW r \in Unprojected(t) \cup Rescope(t)
      PROVE  Event(r, t, "project") \in Projections
  <2>1. r \in Records /\ r \in Nat /\ t \in Targets
    BY BoundsAssumption DEF Unprojected, Rescope, Oldest, Newest, Active, DeliveryTargets
  <2> QED
    BY <2>1, EventType DEF Placed, Kinds, Projections
<1> QED
  BY <1>1 DEF Owing

LEMMA PlansRebuild ==
    ASSUME TargetsInv, NEW left, NEW queue \in SUBSET Projections,
           UNCHANGED <<runtime, state, link, open, dead, held, dropped, destroyed, worker, cutover>>,
           operator' = [at |-> "rebuilds", lost |-> operator.lost, left |-> left,
                        confirmed |-> operator.confirmed, listed |-> operator.listed,
                        expected |-> operator.expected, queue |-> queue]
    PROVE  TargetsInv'
<1>1. /\ operator'.at = "rebuilds" /\ operator'.queue = queue
      /\ operator' = [at |-> operator'.at, lost |-> operator'.lost, left |-> operator'.left,
                      confirmed |-> operator'.confirmed, listed |-> operator'.listed,
                      expected |-> operator'.expected, queue |-> operator'.queue]
  OBVIOUS
<1>2. TargetsTyped'
  BY <1>1 DEF TargetsInv, TargetsTyped
<1>3. CutoverHolds' /\ PlanHolds'
  BY <1>1, CutoverIdle DEF PlanHolds
<1> QED
  BY <1>1, <1>2, <1>3, CommandInv

LEMMA RebuildReadsInv ==
    ASSUME TargetsInv, NEW t \in DeliveryTargets, RebuildReads(t)
    PROVE  TargetsInv'
<1> DEFINE left == IF operator = Resting THEN DeliveryTargets ELSE operator.left
<1>1. /\ UNCHANGED <<runtime, state, link, open, dead, held, dropped, destroyed, worker, cutover>>
      /\ operator = Resting \/ operator.at = "rebuilds"
      /\ operator' = [operator EXCEPT !.at = "rebuilds", !.left = left \ {t},
                                      !.queue = @ \cup Owing(t)]
  BY DEF RebuildReads, RebuildKeeps, stores, canon
<1> HIDE DEF left
<1>2. operator' = [at |-> "rebuilds", lost |-> operator.lost, left |-> left \ {t},
                   confirmed |-> operator.confirmed, listed |-> operator.listed,
                   expected |-> operator.expected, queue |-> operator.queue \cup Owing(t)]
  BY <1>1 DEF TargetsInv, TargetsTyped
<1>3. operator.queue \in SUBSET Projections
  BY <1>1 DEF TargetsInv, PlanHolds, Resting
<1>4. operator.queue \cup Owing(t) \in SUBSET Projections
  BY <1>3, OwingType
<1> QED
  BY <1>1, <1>2, <1>4, PlansRebuild

LEMMA RebuildCommitsInv ==
    ASSUME TargetsInv, RebuildCommits
    PROVE  TargetsInv'
<1> DEFINE new == operator.queue
<1>0. /\ open' = open \cup new /\ operator' = Resting
      /\ UNCHANGED <<runtime, state, link, dead, held, dropped, destroyed, worker, cutover>>
      /\ \A e \in new : e \in DeliveryEvents /\ Placed(e) /\ e.kind = "project"
  BY DEF RebuildCommits, RebuildKeeps, stores, canon, TargetsInv, PlanHolds, Projections
<1>1. operator'.at = "idle"
  BY <1>0, RestedType
<1> HIDE DEF new
<1>2. TargetsTyped'
  BY <1>0, RestedType DEF TargetsInv, TargetsTyped
<1>3. LinksSound' /\ StampsHold' /\ StoresSound' /\ PlanHolds' /\ WorkerKnows'
  BY <1>0, <1>1 DEF TargetsInv, LinksSound, StampsHold, StoresSound, PlanHolds, WorkerKnows, Runtime, tgt, rec,
              Current, Scheme
<1>4. KindsAgree'
  BY <1>0 DEF TargetsInv, KindsAgree, At, rec, tgt, Waits
<1>5. CutoverHolds'
  BY <1>1, CutoverIdle
<1> QED
  BY <1>2, <1>3, <1>4, <1>5 DEF TargetsInv

LEMMA StartCutoverInv ==
    ASSUME TargetsInv, StartCutover
    PROVE  TargetsInv'
<1>0. /\ UNCHANGED <<runtime, state, link, open, dead, held, dropped, destroyed, worker, cutover>>
      /\ operator' = [operator EXCEPT !.at = "lists"]
  BY DEF StartCutover, Command, stores, canon, OperatorKeeps
<1>1. operator' = [at |-> "lists", lost |-> operator.lost, left |-> operator.left,
                   confirmed |-> operator.confirmed, listed |-> operator.listed,
                   expected |-> operator.expected, queue |-> operator.queue]
  BY <1>0 DEF TargetsInv, TargetsTyped
<1>2. TargetsTyped'
  BY <1>0, <1>1 DEF TargetsInv, TargetsTyped
<1>3. CutoverHolds' /\ PlanHolds'
  BY <1>1, CutoverIdle DEF PlanHolds
<1> QED
  BY <1>0, <1>1, <1>2, <1>3, CommandInv

LEMMA CutoverListsInv ==
    ASSUME TargetsInv, CutoverLists
    PROVE  TargetsInv'
<1>0. /\ UNCHANGED <<runtime, state, link, open, dead, held, dropped, destroyed, worker, cutover>>
      /\ operator' = [operator EXCEPT !.at = "confirms", !.left = Active, !.lost = dropped]
  BY DEF CutoverLists, stores, canon, OperatorKeeps
<1>1. operator' = [at |-> "confirms", lost |-> dropped, left |-> Active,
                   confirmed |-> operator.confirmed, listed |-> operator.listed,
                   expected |-> operator.expected, queue |-> operator.queue]
  BY <1>0 DEF TargetsInv, TargetsTyped
<1>2. TargetsTyped'
  BY <1>0, <1>1 DEF TargetsInv, TargetsTyped
<1>3. CutoverHolds'
  <2>1. operator'.at = "confirms" /\ operator'.left = Active
    BY <1>1
  <2>2. Active' = Active /\ Active \subseteq Records
    BY <1>0 DEF Active
  <2> QED
    BY <2>1, <2>2 DEF CutoverHolds
<1>4. PlanHolds'
  BY <1>1 DEF PlanHolds
<1> QED
  BY <1>0, <1>1, <1>2, <1>3, <1>4, CommandInv

LEMMA CutoverConfirmsInv ==
    ASSUME TargetsInv, CutoverConfirms
    PROVE  TargetsInv'
<1> DEFINE copied == {r \in Records : <<r, Graph, Runtime.scheme>> \in held}
<1>0. /\ UNCHANGED <<runtime, state, link, open, dead, held, dropped, destroyed, worker, cutover>>
      /\ operator.at = "confirms"
      /\ operator' = [operator EXCEPT !.at = "checks", !.confirmed = copied]
  BY DEF CutoverConfirms, stores, canon, OperatorKeeps
<1>1. operator' = [at |-> "checks", lost |-> operator.lost, left |-> operator.left,
                   confirmed |-> copied, listed |-> operator.listed,
                   expected |-> operator.expected, queue |-> operator.queue]
  BY <1>0 DEF TargetsInv, TargetsTyped
<1>2. TargetsTyped'
  BY <1>0, <1>1 DEF TargetsInv, TargetsTyped
<1>3. CutoverHolds'
  <2>1. \A r \in copied : Secure(r)
    BY DEF Secure, CopyOf
  <2> HIDE DEF copied
  <2> QED
    BY <1>0, <1>1, <2>1 DEF TargetsInv, CutoverHolds, Checking, Active, Secure, Linked, CopyOf, Runtime,
                             Waits, At, rec, tgt
<1>4. PlanHolds'
  BY <1>1 DEF PlanHolds
<1> QED
  BY <1>0, <1>1, <1>2, <1>3, <1>4, CommandInv

LEMMA CutoverCountsStep ==
    ASSUME TargetsInv, operator.at = "checks", operator.left = {}, ~Backlog, Command("commits"),
           UNCHANGED <<link, worker, stores, cutover>>, OperatorKeeps
    PROVE  TargetsInv'
<1>0. /\ UNCHANGED <<runtime, state, link, open, dead, held, dropped, destroyed, worker, cutover>>
      /\ operator' = [operator EXCEPT !.at = "commits"] /\ worker.at = "idle"
  BY DEF stores, canon, OperatorKeeps, Command, Backlog
<1>1. operator' = [at |-> "commits", lost |-> operator.lost, left |-> operator.left,
                   confirmed |-> operator.confirmed, listed |-> operator.listed,
                   expected |-> operator.expected, queue |-> operator.queue]
  BY <1>0 DEF TargetsInv, TargetsTyped
<1>2. TargetsTyped'
  BY <1>0, <1>1 DEF TargetsInv, TargetsTyped
<1>3. CutoverHolds'
  BY <1>0, <1>1 DEF TargetsInv, CutoverHolds, Checking, Active, Secure, Linked, CopyOf, Runtime, Waits, At, rec, tgt
<1>4. PlanHolds'
  BY <1>1 DEF PlanHolds
<1> QED
  BY <1>0, <1>1, <1>2, <1>3, <1>4, CommandInv

\* A record that was found in order leaves the list.
LEMMA CheckedInv ==
    ASSUME TargetsInv, NEW r \in Records, operator.at = "checks", Projected(r),
           operator' = [operator EXCEPT !.left = @ \ {r}],
           UNCHANGED <<link, worker, stores, cutover>>, OperatorKeeps
    PROVE  TargetsInv'
<1>0. UNCHANGED <<runtime, state, link, open, dead, held, dropped, destroyed, worker, cutover>>
  BY DEF stores, canon, OperatorKeeps
<1>1. operator' = [at |-> operator.at, lost |-> operator.lost, left |-> operator.left \ {r},
                   confirmed |-> operator.confirmed, listed |-> operator.listed,
                   expected |-> operator.expected, queue |-> operator.queue]
  BY DEF TargetsInv, TargetsTyped
<1>2. TargetsTyped'
  BY <1>0, <1>1 DEF TargetsInv, TargetsTyped
<1>3. Linked(r) /\ r \in operator.confirmed
  <2>1. link[r][Graph] \in LinkValues
    BY Facts DEF TargetsInv, TargetsTyped
  <2> QED
    BY <2>1, LinkFields, SchemeType, Facts DEF TargetsInv, Projected, NeedsAgain, Stale, Linked, Names
<1>4. CutoverHolds'
  <2>1. ASSUME NEW q \in Active
        PROVE  /\ q \notin operator.left \ {r} =>
                    \/ Waits(q) \/ At(q, {"project"})
                    \/ At(q, {"derive", "install"}) /\ Secure(q)
                    \/ Linked(q) /\ Secure(q)
               /\ q \in operator.confirmed => Waits(q) \/ At(q, {"project"}) \/ Secure(q)
    BY <1>3 DEF TargetsInv, CutoverHolds, Checking
  <2> QED
    BY <1>0, <1>1, <2>1 DEF TargetsInv, CutoverHolds, Checking, Active, Secure, Linked, CopyOf, Runtime,
                             Waits, At, rec, tgt
<1>5. PlanHolds'
  BY <1>1 DEF PlanHolds
<1> QED
  BY <1>0, <1>1, <1>2, <1>4, <1>5, CommandInv

LEMMA WindowEndsInv ==
    ASSUME TargetsInv, WindowEnds
    PROVE  TargetsInv'
<1>0. /\ UNCHANGED <<runtime, state, link, open, dead, held, dropped, destroyed, worker, operator>>
      /\ cutover' = [cutover EXCEPT !.window = "ended"]
  BY DEF WindowEnds, stores, canon, OperatorKeeps
<1>1. cutover' \in [scheme : Nat, window : {"none", "open", "ended"}] /\ cutover'.scheme = cutover.scheme
  BY <1>0 DEF TargetsInv, TargetsTyped
<1>2. TargetsTyped'
  BY <1>0, <1>1 DEF TargetsInv, TargetsTyped
<1>3. PlanHolds'
  BY <1>0, <1>1, PlanStays DEF TargetsInv
<1>4. CutoverHolds'
  BY <1>0 DEF TargetsInv, CutoverHolds, Checking, Active, Secure, Linked, CopyOf, Runtime, Waits, At, rec, tgt
<1>5. operator'.at = "commits" => operator.at = "commits"
  BY <1>0
<1>6. LinksSound' /\ StoresSound'
  BY <1>0, <1>1, LinksStay, StoresStay DEF TargetsInv, LinksSound, tgt
<1>7. StampsHold' /\ WorkerKnows' /\ KindsAgree'
  BY <1>0 DEF TargetsInv, StampsHold, WorkerKnows, KindsAgree, Runtime, Scheme, tgt, rec, Current, At, Waits
<1> QED
  BY <1>2, <1>3, <1>4, <1>6, <1>7 DEF TargetsInv

LEMMA DestroyInv ==
    ASSUME TargetsInv, Destroy
    PROVE  TargetsInv'
<1> DEFINE old == {s \in {Runtimes[i].scheme : i \in DOMAIN Runtimes} : s < cutover.scheme}
<1>0. /\ UNCHANGED <<runtime, state, link, open, dead, dropped, worker, operator, cutover>>
      /\ operator.at = "idle" /\ destroyed' = destroyed \cup old
      /\ held' = {h \in held : h[2] # Graph \/ h[3] \notin old}
  BY RestingFacts DEF Destroy, canon, OperatorKeeps
<1>1. TargetsTyped'
  BY <1>0 DEF TargetsInv, TargetsTyped
<1>2. LinksSound'
  BY <1>0, LinksStay DEF TargetsInv, LinksSound, tgt
<1>3. StoresSound'
  <2>1. \A s \in old : s \in Nat /\ s < cutover.scheme
    BY RuntimeTypes
  <2> QED
    BY <1>0, <2>1 DEF TargetsInv, StoresSound, Runtime
<1>4. StampsHold' /\ WorkerKnows' /\ KindsAgree'
  BY <1>0 DEF TargetsInv, StampsHold, WorkerKnows, KindsAgree, Runtime, Scheme, tgt, rec, Current, At, Waits
<1>5. PlanHolds' /\ CutoverHolds'
  BY <1>0, CutoverIdle DEF PlanHolds
<1> QED
  BY <1>1, <1>2, <1>3, <1>4, <1>5 DEF TargetsInv

LEMMA StartReleaseInv ==
    ASSUME TargetsInv, StartRelease
    PROVE  TargetsInv'
<1> DEFINE none == [r \in Records |-> [t \in Targets |-> NoLink]]
<1>0. /\ UNCHANGED <<runtime, state, link, open, dead, held, dropped, destroyed, worker, cutover>>
      /\ operator' = [Resting EXCEPT !.at = "plans", !.left = Records, !.listed = state, !.expected = none]
      /\ \A s \in Schemes : s < cutover.scheme => s \in destroyed
  BY DEF StartRelease, stores, canon, OperatorKeeps, Schemes
<1>1. /\ none \in [Records -> [Targets -> LinkValues]]
      /\ \A r \in Records, t \in Targets : \A c \in none[r][t].copies : c.stamp = "past"
  BY Bare
<1> HIDE DEF none
<1>2. operator' = [at |-> "plans", lost |-> Resting.lost, left |-> Records, confirmed |-> Resting.confirmed,
                   listed |-> state, expected |-> none, queue |-> Resting.queue]
  BY <1>0 DEF Resting
<1>3. TargetsTyped'
  BY <1>0, <1>2 DEF TargetsInv, TargetsTyped
<1>4. PlanHolds'
  BY <1>0, <1>1, <1>2 DEF PlanHolds
<1>5. CutoverHolds'
  BY <1>2, CutoverIdle
<1> QED
  BY <1>0, <1>2, <1>3, <1>4, <1>5, CommandInv

LEMMA ReleaseReadsInv ==
    ASSUME TargetsInv, NEW r \in Records, ReleaseReads(r)
    PROVE  TargetsInv'
<1>0. /\ UNCHANGED <<runtime, state, link, open, dead, held, dropped, destroyed, worker, cutover>>
      /\ operator.at = "plans"
  BY DEF ReleaseReads, stores, canon, OperatorKeeps
<1>1. CASE PredatesCutover(r) /\ operator' = [operator EXCEPT !.left = @ \ {r}, !.expected[r] = link[r]]
  <2> DEFINE plan == [operator.expected EXCEPT ![r] = link[r]]
  <2>1. operator' = [at |-> "plans", lost |-> operator.lost, left |-> operator.left \ {r},
                     confirmed |-> operator.confirmed, listed |-> operator.listed, expected |-> plan, queue |-> operator.queue]
    BY <1>0, <1>1 DEF TargetsInv, TargetsTyped
  <2>2. link[r] \in [Targets -> LinkValues] /\ operator.expected \in [Records -> [Targets -> LinkValues]]
    BY <1>0 DEF TargetsInv, TargetsTyped, PlanHolds
  <2>3. plan \in [Records -> [Targets -> LinkValues]]
    BY <2>2
  <2>4. ASSUME NEW q \in Records, NEW t \in Targets, NEW c \in plan[q][t].copies
        PROVE  c.stamp = "past"
    <3>1. CASE q = r
      BY <1>1, <2>2, <2>4, <3>1 DEF PredatesCutover, Late
    <3>2. CASE q # r
      BY <1>0, <2>2, <2>4, <3>2 DEF TargetsInv, PlanHolds
    <3> QED
      BY <3>1, <3>2
  <2> HIDE DEF plan
  <2>5. TargetsTyped'
    BY <1>0, <2>1 DEF TargetsInv, TargetsTyped
  <2>6. PlanHolds'
    BY <1>0, <2>1, <2>3, <2>4 DEF TargetsInv, PlanHolds
  <2>7. CutoverHolds'
    BY <2>1, CutoverIdle
  <2> QED
    BY <1>0, <2>1, <2>5, <2>6, <2>7, CommandInv
<1>2. CASE operator' = Resting
  <2>1. TargetsTyped'
    BY <1>0, <1>2, RestedType DEF TargetsInv, TargetsTyped
  <2>2. PlanHolds' /\ CutoverHolds'
    BY <1>2, RestedType, CutoverIdle DEF PlanHolds
  <2> QED
    BY <1>0, <1>2, <2>1, <2>2, RestedType, CommandInv
<1> QED
  BY <1>1, <1>2 DEF ReleaseReads

---------------------------------------------------------------------------
\* Copies get new stamps: a check ends, with a receipt or without.

LEMMA RestampedFacts ==
    ASSUME NEW l \in LinkValues, NEW f \in [Stamps -> Stamps]
    PROVE  /\ Restamped(l, f) \in LinkValues
           /\ Restamped(l, f).live = l.live /\ Restamped(l, f).is = l.is
           /\ Restamped(l, f).withdrawn = l.withdrawn
           /\ \A d \in Restamped(l, f).copies :
                 \E c \in l.copies : d.scheme = c.scheme /\ d.stamp = f[c.stamp] /\ c.stamp \in Stamps
           /\ l.copies = {} => Restamped(l, f).copies = {}
           /\ OldCopies(Restamped(l, f)) = OldCopies(l) /\ Names(Restamped(l, f)) = Names(l)
<1> DEFINE fresh == {[c EXCEPT !.stamp = f[c.stamp]] : c \in l.copies}
<1>1. ASSUME NEW c \in l.copies
      PROVE  LET d == [c EXCEPT !.stamp = f[c.stamp]]
             IN  /\ d \in [scheme : Nat, stamp : Stamps] /\ c.stamp \in Stamps
                 /\ d.scheme = c.scheme /\ d.stamp = f[c.stamp]
  BY LinkFields
<1>2. fresh \subseteq [scheme : Nat, stamp : Stamps]
  BY <1>1
<1>3. \A d \in fresh : \E c \in l.copies : d.scheme = c.scheme /\ d.stamp = f[c.stamp] /\ c.stamp \in Stamps
  BY <1>1
<1>4. ASSUME NEW c \in l.copies
      PROVE  \E d \in fresh : d.scheme = c.scheme
  <2>1. [c EXCEPT !.stamp = f[c.stamp]] \in fresh
    OBVIOUS
  <2> QED
    BY <1>1, <2>1
<1>5. l.copies = {} => fresh = {}
  OBVIOUS
<1>6. Restamped(l, f) = [l EXCEPT !.copies = fresh]
  BY DEF Restamped
<1> HIDE DEF fresh
<1>7. /\ Restamped(l, f) \in LinkValues
      /\ Restamped(l, f).live = l.live /\ Restamped(l, f).is = l.is
      /\ Restamped(l, f).withdrawn = l.withdrawn /\ Restamped(l, f).copies = fresh
  BY <1>2, <1>6 DEF LinkValues
<1>8. OldCopies(Restamped(l, f)) = OldCopies(l)
  BY <1>3, <1>4, <1>7 DEF OldCopies
<1>9. Names(Restamped(l, f)) = Names(l)
  BY <1>7, <1>8 DEF OldCopies, Names
<1> QED
  BY <1>3, <1>5, <1>7, <1>8, <1>9

LEMMA RestampInv ==
    ASSUME TargetsInv, NEW f \in [Stamps -> Stamps], Restamp(f),
           cutover' \in [scheme : Nat, window : {"none", "open", "ended"}],
           cutover.scheme <= cutover'.scheme, cutover'.scheme <= Runtime.scheme,
           \A st \in Stamps : f[st] = "past" => st = "past" \/ cutover'.scheme = Runtime.scheme,
           worker.at # "idle" => f[worker.stamp] # "past",
           operator' = Resting,
           UNCHANGED <<runtime, state, open, dead, held, dropped, destroyed>>
    PROVE  TargetsInv'
<1>1. /\ link' = [r \in Records |-> [t \in Targets |-> Restamped(link[r][t], f)]]
      /\ worker' = [worker EXCEPT !.stamp = f[worker.stamp], !.seen = Restamped(worker.seen, f)]
  BY Facts DEF Restamp, TargetsInv, TargetsTyped
<1>2. worker.seen \in LinkValues /\ worker.stamp \in Stamps
      /\ \A r \in Records, t \in Targets : link[r][t] \in LinkValues
  BY Facts DEF TargetsInv, TargetsTyped
<1>3. /\ worker' \in WorkerType /\ worker'.at = worker.at /\ worker'.event = worker.event
      /\ worker'.stamp = f[worker.stamp] /\ worker'.seen = Restamped(worker.seen, f)
  BY <1>1, <1>2, RestampedFacts DEF TargetsInv, TargetsTyped, WorkerType
<1>4. \A r \in Records, t \in Targets : link'[r][t] = Restamped(link[r][t], f) /\ link'[r][t] \in LinkValues
  BY <1>1, <1>2, RestampedFacts
<1>5. link' \in [Records -> [Targets -> LinkValues]]
  BY <1>1, <1>2, RestampedFacts
<1>6. operator'.at = "idle"
  BY RestedType
<1>7. TargetsTyped'
  BY <1>3, <1>5, RestedType DEF TargetsInv, TargetsTyped, WorkerType
<1>8. ASSUME NEW l \in LinkValues, NEW t \in Targets, SoundIn(l, t, Runtime.scheme, cutover.scheme)
      PROVE  SoundIn(Restamped(l, f), t, Runtime.scheme, cutover'.scheme)
  <2>1. /\ Restamped(l, f).copies # {} => Restamped(l, f).is
        /\ t # Graph => Restamped(l, f).copies = {} /\ Restamped(l, f).live = 0
        /\ t = Graph => /\ Restamped(l, f).live <= Runtime.scheme
                        /\ Restamped(l, f).is => Restamped(l, f).live \in Schemes
    BY <1>8, RestampedFacts DEF SoundIn
  <2>2. ASSUME NEW d \in Restamped(l, f).copies
        PROVE  /\ d.scheme \in Schemes /\ d.scheme < Runtime.scheme
               /\ d.stamp = "past" => d.scheme < cutover'.scheme
    <3>1. PICK c \in l.copies : d.scheme = c.scheme /\ d.stamp = f[c.stamp] /\ c.stamp \in Stamps
      BY RestampedFacts
    <3>2. /\ c.scheme \in Schemes /\ c.scheme < Runtime.scheme /\ c.scheme \in Nat
          /\ c.stamp = "past" => c.scheme < cutover.scheme
      BY <1>8, LinkFields DEF SoundIn
    <3>3. cutover.scheme \in Nat /\ cutover'.scheme \in Nat /\ Runtime.scheme \in Nat
      BY Facts DEF TargetsInv
    <3> QED
      BY <3>1, <3>2, <3>3
  <2> QED
    BY <2>1, <2>2 DEF SoundIn
<1>9. LinksSound'
  <2>1. \A r \in Records, t \in Targets : SoundIn(link'[r][t], t, Runtime.scheme, cutover'.scheme)
    BY <1>2, <1>4, <1>8 DEF TargetsInv, LinksSound
  <2>2. SoundIn(worker'.seen, tgt, Runtime.scheme, cutover'.scheme)
    BY <1>2, <1>3, <1>8, Facts DEF TargetsInv, LinksSound
  <2> QED
    BY <1>3, <2>1, <2>2 DEF LinksSound, Runtime, tgt
<1>10. StampsHold'
  BY <1>3, <1>6 DEF StampsHold
<1>11. StoresSound'
  <2>1. /\ \A s \in destroyed : s \in Nat /\ s < cutover.scheme
        /\ \A h \in held : h[2] = Graph => h[3] \notin destroyed
    BY DEF TargetsInv, StoresSound
  <2>2. destroyed' = destroyed /\ held' = held /\ Runtime' = Runtime
    BY DEF Runtime
  <2>3. cutover.scheme \in Nat /\ cutover'.scheme \in Nat
    BY Facts DEF TargetsInv
  <2>4. \A s \in destroyed : s \in Nat /\ s < cutover'.scheme
    BY <2>1, <2>3
  <2> QED
    BY <2>1, <2>2, <2>4 DEF StoresSound
<1>12. PlanHolds' /\ CutoverHolds'
  BY <1>6, CutoverIdle DEF PlanHolds
<1>13. KindsAgree'
  BY <1>3 DEF TargetsInv, KindsAgree, At, rec, tgt, Waits
<1>14. WorkerKnows'
  <2>1. CASE worker.at \notin {"retain", "remove", "unlink"}
    BY <1>3, <2>1 DEF WorkerKnows
  <2>2. CASE worker.at \in {"retain", "remove", "unlink"}
    <3>1. rec \in Records /\ tgt \in Targets /\ Current \in LinkValues
      BY <2>2, Facts DEF TargetsInv
    <3>2. Names(Restamped(Current, f)) = Names(Current)
      BY <3>1, RestampedFacts
    <3>3. /\ worker'.seen.is = worker.seen.is /\ worker'.seen.withdrawn = worker.seen.withdrawn
          /\ worker'.seen.live = worker.seen.live /\ Names(worker'.seen) = Names(worker.seen)
          /\ OldCopies(worker'.seen) = OldCopies(worker.seen)
      BY <1>2, <1>3, RestampedFacts
    <3>4. Current' = Restamped(Current, f) /\ rec' = rec /\ tgt' = tgt /\ Scheme(tgt)' = Scheme(tgt)
      BY <1>3, <1>4, <3>1 DEF Current, rec, tgt, Scheme, Runtime
    <3> QED
      BY <1>3, <3>2, <3>3, <3>4 DEF TargetsInv, WorkerKnows
  <2> QED
    BY <2>1, <2>2
<1> QED
  BY <1>7, <1>9, <1>10, <1>11, <1>12, <1>13, <1>14 DEF TargetsInv

LEMMA RefuseInv ==
    ASSUME TargetsInv, Refuse
    PROVE  TargetsInv'
<1>1. /\ operator' = Resting /\ Restamp(Abandon)
      /\ UNCHANGED <<runtime, state, open, dead, held, dropped, destroyed, cutover>>
  BY DEF Refuse, OperatorKeeps, stores, canon
<1>2. /\ Abandon \in [Stamps -> Stamps]
      /\ \A st \in Stamps : Abandon[st] = "past" => st = "past"
  BY DEF Abandon, Stamps
<1>3. worker.at # "idle" => Abandon[worker.stamp] # "past"
  BY <1>2, Facts DEF TargetsInv, StampsHold
<1>4. cutover' \in [scheme : Nat, window : {"none", "open", "ended"}]
      /\ cutover.scheme <= cutover'.scheme /\ cutover'.scheme <= Runtime.scheme
  BY <1>1, Facts DEF TargetsInv, TargetsTyped, StoresSound
<1> HIDE DEF Abandon
<1> QED
  BY <1>1, <1>2, <1>3, <1>4, RestampInv

LEMMA CutoverCommitsInv ==
    ASSUME TargetsInv, CutoverCommits
    PROVE  TargetsInv'
<1>1. /\ operator.at = "commits" /\ operator' = Resting /\ Restamp(Govern)
      /\ cutover' = [scheme |-> Runtime.scheme, window |-> "open"]
      /\ UNCHANGED <<runtime, state, open, dead, held, dropped, destroyed>>
  BY DEF CutoverCommits, OperatorKeeps, stores, canon
<1>2. Govern \in [Stamps -> Stamps] /\ Govern["now"] = "later"
  BY DEF Govern, Stamps
<1>3. worker.at # "idle" => Govern[worker.stamp] # "past"
  BY <1>1, <1>2 DEF TargetsInv, StampsHold
<1>4. /\ cutover' \in [scheme : Nat, window : {"none", "open", "ended"}]
      /\ cutover.scheme <= cutover'.scheme /\ cutover'.scheme = Runtime.scheme
      /\ cutover'.scheme <= Runtime.scheme
  BY <1>1, Facts DEF TargetsInv, StoresSound
<1> QED
  BY <1>1, <1>2, <1>3, <1>4, RestampInv

LEMMA CutoverReadsInv ==
    ASSUME TargetsInv, NEW r \in Records, CutoverReads(r)
    PROVE  TargetsInv'
  BY CheckedInv, RefuseInv DEF CutoverReads

LEMMA CutoverCountsInv ==
    ASSUME TargetsInv, CutoverCounts
    PROVE  TargetsInv'
  BY CutoverCountsStep, RefuseInv DEF CutoverCounts

---------------------------------------------------------------------------
\* A release.

LEMMA ReleasedFacts ==
    ASSUME NEW l \in LinkValues
    PROVE  /\ Released(l) \in LinkValues /\ Names(Released(l)) \subseteq Names(l)
           /\ \A t \in Targets, now \in Nat, cut \in Nat : SoundIn(l, t, now, cut) => SoundIn(Released(l), t, now, cut)
<1>1. CASE ~Releasable(l)
  BY <1>1 DEF Released
<1>2. CASE Releasable(l) /\ l.withdrawn
  BY <1>2, Bare DEF Released
<1>3. CASE Releasable(l) /\ ~l.withdrawn
  <2>1. Released(l) = [l EXCEPT !.copies = {}]
    BY <1>3 DEF Released
  <2>2. /\ Released(l) \in LinkValues /\ Released(l).live = l.live /\ Released(l).is = l.is
        /\ Released(l).withdrawn = l.withdrawn /\ Released(l).copies = {}
    BY <2>1 DEF LinkValues
  <2> QED
    BY <1>3, <2>2 DEF Names, SoundIn
<1> QED
  BY <1>1, <1>2, <1>3, LinkFields

LEMMA ReleaseCommitsInv ==
    ASSUME TargetsInv, ReleaseCommits
    PROVE  TargetsInv'
<1>0. /\ operator' = Resting
      /\ UNCHANGED <<runtime, open, dead, held, dropped, destroyed, worker, cutover>>
  BY DEF ReleaseCommits, stores
<1>1. \A r \in Records, t \in Targets : link[r][t] \in LinkValues
  BY DEF TargetsInv, TargetsTyped
<1>2. /\ link' \in [Records -> [Targets -> LinkValues]]
      /\ \A r \in Records, t \in Targets : link'[r][t] \in {link[r][t], Released(link[r][t])}
  <2>1. CASE AsPlanned
    <3>1. link' = [r \in Records |-> [t \in Targets |->
                      IF Releasable(operator.expected[r][t]) THEN Released(link[r][t]) ELSE link[r][t]]]
      BY <2>1 DEF ReleaseCommits
    <3> QED
      BY <1>1, <3>1, ReleasedFacts
  <2>2. CASE ~AsPlanned
    BY <2>2 DEF ReleaseCommits, TargetsInv, TargetsTyped
  <2> QED
    BY <2>1, <2>2
<1>3. /\ state' \in [Records -> RecordStates]
      /\ \A r \in Records : state'[r] \in {state[r], "DELETED"}
  <2>1. CASE AsPlanned
    <3>1. state' = [r \in Records |-> IF Completes(r) THEN "DELETED" ELSE state[r]]
      BY <2>1 DEF ReleaseCommits
    <3> QED
      BY <3>1 DEF TargetsInv, TargetsTyped, RecordStates
  <2>2. CASE ~AsPlanned
    BY <2>2 DEF ReleaseCommits, TargetsInv, TargetsTyped
  <2> QED
    BY <2>1, <2>2
<1>4. operator'.at = "idle"
  BY <1>0, RestedType
<1>5. TargetsTyped'
  BY <1>0, <1>2, <1>3, RestedType DEF TargetsInv, TargetsTyped
<1>6. \A r \in Records, t \in Targets : /\ SoundIn(link'[r][t], t, Runtime.scheme, cutover.scheme)
                                        /\ Names(link'[r][t]) \subseteq Names(link[r][t])
  BY <1>1, <1>2, ReleasedFacts, Facts DEF TargetsInv, LinksSound
<1>7. LinksSound'
  BY <1>0, <1>6 DEF TargetsInv, LinksSound, Runtime, tgt
<1>8. StampsHold' /\ StoresSound' /\ PlanHolds' /\ CutoverHolds'
  BY <1>0, <1>4, CutoverIdle DEF TargetsInv, StampsHold, StoresSound, PlanHolds, Runtime
<1>9. WorkerKnows'
  <2>1. worker.at # "idle" => Names(Current') \subseteq Names(Current)
    BY <1>0, <1>6, Facts DEF TargetsInv, Current, rec, tgt
  <2>2. rec' = rec /\ tgt' = tgt /\ Scheme(tgt)' = Scheme(tgt)
    BY <1>0 DEF rec, tgt, Scheme, Runtime
  <2> QED
    BY <1>0, <2>1, <2>2 DEF TargetsInv, WorkerKnows
<1>10. KindsAgree'
  BY <1>0, <1>3, Facts DEF TargetsInv, TargetsTyped, KindsAgree, At, rec, tgt, Waits, Gone, Placed
<1> QED
  BY <1>5, <1>7, <1>8, <1>9, <1>10 DEF TargetsInv

---------------------------------------------------------------------------
\* The invariant.

LEMMA TargetsStep ==
    ASSUME TargetsInv, [TargetsNext]_targetsVars
    PROVE  TargetsInv'
<1>1. CASE TargetsNext
  BY <1>1, LifecycleInv, WorkerInv, CallFailsInv, WorkerDiesInv, DeployInv, RebuildReadsInv, RebuildCommitsInv,
     StartCutoverInv, CutoverListsInv, CutoverConfirmsInv,
     WindowEndsInv, DestroyInv, StartReleaseInv, CutoverReadsInv, ReleaseReadsInv, CutoverCountsInv,
     CutoverCommitsInv, ReleaseCommitsInv DEF TargetsNext, OperatorStep
<1>2. CASE UNCHANGED targetsVars
  BY <1>2 DEF targetsVars, TargetsInv, TargetsTyped, LinksSound, StampsHold, StoresSound, WorkerKnows, PlanHolds,
              KindsAgree, CutoverHolds, Checking, Active, Runtime, Scheme, tgt, rec, Current, Waits, At, Secure,
              Linked, CopyOf
<1> QED
  BY <1>1, <1>2

LEMMA TargetsStart ==
    ASSUME TargetsInit
    PROVE  TargetsInv
<1> DEFINE rt == Runtimes[1]
           first(t) == IF Delivers(rt, t) THEN Live(SchemeIn(rt, t), {}) ELSE NoLink
<1>0. /\ rt.scheme \in Nat /\ rt.scheme \in Schemes /\ Runtimes[2].scheme \in Nat /\ rt.scheme <= Runtimes[2].scheme
      /\ 1 \in DOMAIN Runtimes /\ 2 \in DOMAIN Runtimes /\ Graph \in Targets
  BY RuntimeTypes, RuntimesAssumption
<1>1. ASSUME NEW t \in Targets
      PROVE  first(t) \in LinkValues /\ SoundIn(first(t), t, Runtimes[2].scheme, rt.scheme)
  <2>1. SchemeIn(rt, t) \in Nat /\ (t = Graph => SchemeIn(rt, t) = rt.scheme) /\ (t # Graph => SchemeIn(rt, t) = 0)
    BY <1>0 DEF SchemeIn
  <2> DEFINE l == Live(SchemeIn(rt, t), {})
  <2>2. l \in LinkValues /\ l.live = SchemeIn(rt, t) /\ l.copies = {}
    BY <2>1 DEF Live, LinkValues
  <2> HIDE DEF l
  <2>3. SoundIn(l, t, Runtimes[2].scheme, rt.scheme)
    BY <1>0, <2>1, <2>2 DEF SoundIn
  <2> QED
    BY <1>0, <2>2, <2>3, Bare DEF l
<1>2. link = [r \in Records |-> [t \in Targets |-> first(t)]]
  BY DEF TargetsInit
<1> HIDE DEF first
<1>3. /\ link \in [Records -> [Targets -> LinkValues]]
      /\ \A r \in Records, t \in Targets : SoundIn(link[r][t], t, Runtimes[2].scheme, rt.scheme)
  BY <1>1, <1>2
<1>4. /\ runtime = 2 /\ state = [r \in Records |-> "ACTIVE"] /\ open = {} /\ dead = {} /\ destroyed = {}
      /\ worker = Idle /\ operator = Resting /\ cutover = [scheme |-> rt.scheme, window |-> "none"]
  BY DEF TargetsInit
<1> HIDE DEF rt
<1>5. TargetsTyped
  BY <1>0, <1>3, <1>4, AtRest, RestedType DEF TargetsTyped, RecordStates
<1>6. Runtime.scheme = Runtimes[2].scheme /\ cutover.scheme = rt.scheme
  BY <1>4 DEF Runtime
<1>7. LinksSound
  BY <1>0, <1>3, <1>4, <1>6, AtRest, Bare DEF LinksSound, tgt
<1>8. StampsHold /\ StoresSound /\ PlanHolds /\ WorkerKnows /\ KindsAgree /\ CutoverHolds
  BY <1>0, <1>4, <1>6, AtRest, RestedType DEF StampsHold, StoresSound, PlanHolds, WorkerKnows, KindsAgree,
     CutoverHolds, Checking, At
<1> QED
  BY <1>5, <1>7, <1>8 DEF TargetsInv

\* The invariant holds in every reachable state of a migration, with every
\* interleaving of the worker, the operator's commands and the clients.
THEOREM Migrates == TargetsSpec => []TargetsInv
<1>1. TargetsInit => TargetsInv
  BY TargetsStart
<1>2. TargetsInv /\ [TargetsNext]_targetsVars => TargetsInv'
  BY TargetsStep
<1> QED
  BY <1>1, <1>2, PTL DEF TargetsSpec

---------------------------------------------------------------------------
\* No step forgets a copy its store still holds.

Kept ==
    \A r \in Records, t \in Targets :
        \A s \in Names(link[r][t]) \ Names(link'[r][t]) : <<r, t, s>> \notin held'

LEMMA KeptIfNamed ==
    ASSUME \A r \in Records, t \in Targets : Names(link'[r][t]) = Names(link[r][t])
    PROVE  Kept
  BY DEF Kept

LEMMA KeptUnlinked ==
    ASSUME UNCHANGED link
    PROVE  Kept
  BY DEF Kept

LEMMA KeptByRelink ==
    ASSUME TargetsInv, worker.at # "idle", NEW l, Links(l), UNCHANGED held,
           \A s \in Names(Current) \ Names(l) : <<rec, tgt, s>> \notin held
    PROVE  Kept
<1>1. /\ rec \in Records /\ tgt \in Targets
      /\ link' = [link EXCEPT ![rec] = [link[rec] EXCEPT ![tgt] = l]]
      /\ link \in [Records -> [Targets -> LinkValues]]
  BY Facts DEF Links, TargetsInv, TargetsTyped
<1>2. link'[rec][tgt] = l
  BY <1>1
<1>3. ASSUME NEW r \in Records, NEW t \in Targets, r # rec \/ t # tgt
      PROVE  link'[r][t] = link[r][t]
  BY <1>1, <1>3
<1> QED
  BY <1>2, <1>3 DEF Kept, Current

LEMMA InstallKeeps ==
    ASSUME TargetsInv, InstallWrites
    PROVE  Kept
<1> DEFINE left == LeftBehind(worker.seen, tgt, worker.stamp)
           l == Live(Scheme(tgt), left)
<1>0. worker.at = "install" /\ worker.stamp # "past" /\ UNCHANGED held
  BY DEF InstallWrites, stores, TargetsInv, StampsHold
<1>1. CASE UNCHANGED link
  BY <1>1, KeptUnlinked
<1>2. CASE Current = worker.seen /\ Links(l)
  <2>1. /\ OldCopies(worker.seen) \subseteq {c.scheme : c \in left}
        /\ Stale(worker.seen, tgt) => worker.seen.live \in {c.scheme : c \in left}
    BY <1>0, LeftBehindSound, Facts DEF TargetsInv, LinksSound
  <2> HIDE DEF left
  <2>2. Names(l) = {c.scheme : c \in left} \cup {Scheme(tgt)}
    BY DEF Live, Names
  <2>3. Names(worker.seen) \subseteq Names(l)
    BY <2>1, <2>2 DEF Names, Stale, OldCopies
  <2> HIDE DEF l
  <2> QED
    BY <1>0, <1>2, <2>3, KeptByRelink
<1> QED
  BY <1>1, <1>2 DEF InstallWrites

LEMMA RetainKeeps ==
    ASSUME TargetsInv, Retain
    PROVE  Kept
<1> DEFINE left == LeftBehind(worker.seen, tgt, worker.stamp)
           kept == [worker.seen EXCEPT !.withdrawn = TRUE, !.copies = left]
<1>0. worker.at = "retain" /\ worker.stamp # "past" /\ UNCHANGED held /\ Links(kept)
  BY DEF Retain, stores, TargetsInv, StampsHold
<1>1. /\ worker.seen.is /\ ~worker.seen.withdrawn /\ worker.seen.live # Scheme(tgt)
      /\ Names(Current) \subseteq Names(worker.seen)
  BY <1>0 DEF TargetsInv, WorkerKnows
<1>2. /\ OldCopies(worker.seen) \subseteq {c.scheme : c \in left}
      /\ worker.seen.live \in {c.scheme : c \in left}
      /\ left \subseteq [scheme : Nat, stamp : Stamps]
  BY <1>0, <1>1, LeftBehindSound, Facts DEF TargetsInv, LinksSound, Stale
<1> HIDE DEF left
<1>3. kept.is = worker.seen.is /\ kept.withdrawn /\ kept.copies = left
  BY <1>2, Facts DEF TargetsInv, LinkValues
<1> HIDE DEF kept
<1>4. Names(worker.seen) \subseteq Names(kept)
  BY <1>1, <1>2, <1>3 DEF Names, OldCopies
<1> QED
  BY <1>0, <1>1, <1>4, KeptByRelink

LEMMA UnlinkKeeps ==
    ASSUME TargetsInv, Unlink
    PROVE  Kept
<1> DEFINE pends == worker.seen.pending \/ worker.event.kind = "erase"
           kept == [worker.seen EXCEPT !.withdrawn = TRUE, !.pending = pends]
           l == IF worker.seen.copies = {} THEN NoLink ELSE kept
<1>0. worker.at = "unlink" /\ UNCHANGED held
  BY DEF Unlink, stores
<1>1. worker.seen \in LinkValues /\ SoundIn(worker.seen, tgt, Runtime.scheme, cutover.scheme)
  BY Facts DEF TargetsInv, LinksSound
<1>2. Links(l)
  BY <1>1, LinkFields DEF Unlink
<1> HIDE DEF pends
<1>3. kept.is = worker.seen.is /\ kept.withdrawn /\ kept.copies = worker.seen.copies
  BY <1>1 DEF LinkValues
<1> HIDE DEF kept
<1>4. OldCopies(worker.seen) \subseteq Names(l)
  BY <1>1, <1>3 DEF SoundIn, Names, OldCopies
<1> HIDE DEF l
<1>5. \A s \in Names(Current) \ OldCopies(worker.seen) : <<rec, tgt, s>> \notin held
  BY <1>0 DEF TargetsInv, WorkerKnows
<1> QED
  BY <1>0, <1>2, <1>4, <1>5, KeptByRelink

\* A restamped link names the stores it named.
LEMMA RestampKeeps ==
    ASSUME TargetsInv, NEW f \in [Stamps -> Stamps], Restamp(f)
    PROVE  Kept
<1>1. \A r \in Records, t \in Targets : link[r][t] \in LinkValues
  BY DEF TargetsInv, TargetsTyped
<1>2. \A r \in Records, t \in Targets : link'[r][t] = Restamped(link[r][t], f)
  BY DEF Restamp
<1> QED
  BY <1>1, <1>2, RestampedFacts, KeptIfNamed

\* A release forgets copies left behind before the cutover, in stores that are
\* destroyed.
LEMMA ReleaseKeeps ==
    ASSUME TargetsInv, ReleaseCommits
    PROVE  Kept
<1>0. operator.at = "plans" /\ UNCHANGED held
  BY DEF ReleaseCommits, stores
<1>1. CASE UNCHANGED link
  BY <1>1, KeptUnlinked
<1>2. CASE AsPlanned /\ ~UNCHANGED link
  <2>1. link' = [r \in Records |-> [t \in Targets |->
                    IF Releasable(operator.expected[r][t]) THEN Released(link[r][t]) ELSE link[r][t]]]
    BY <1>2 DEF ReleaseCommits
  <2>2. SUFFICES ASSUME NEW r \in Records, NEW t \in Targets,
                        NEW s \in Names(link[r][t]), s \notin Names(link'[r][t])
                 PROVE  <<r, t, s>> \notin held
    BY <1>0 DEF Kept
  <2> DEFINE l == link[r][t]
  <2>3. l \in LinkValues /\ SoundIn(l, t, Runtime.scheme, cutover.scheme)
    BY DEF TargetsInv, TargetsTyped, LinksSound
  <2>4. Releasable(operator.expected[r][t]) /\ l = operator.expected[r][t] /\ link'[r][t] = Released(l)
    BY <1>2, <2>1, <2>2 DEF AsPlanned
  <2>5. /\ \A c \in l.copies : c.stamp = "past"
        /\ \A d \in Schemes : d < cutover.scheme => d \in destroyed
    BY <1>0, <2>4 DEF TargetsInv, PlanHolds
  <2>6. Releasable(l) /\ s \in Names(l) /\ s \notin Names(Released(l))
    BY <2>2, <2>4
  <2> HIDE DEF l
  <2>7. s \in OldCopies(l)
    <3>1. CASE l.withdrawn
      BY <2>6, <3>1 DEF Names, OldCopies
    <3>2. CASE ~l.withdrawn
      <4>1. Released(l) = [l EXCEPT !.copies = {}]
        BY <2>6, <3>2 DEF Released
      <4>2. /\ Released(l).live = l.live /\ Released(l).is = l.is
            /\ Released(l).withdrawn = l.withdrawn
        BY <2>3, <4>1 DEF LinkValues
      <4> QED
        BY <2>6, <3>2, <4>2 DEF Names, OldCopies
    <3> QED
      BY <3>1, <3>2
  <2>8. t = Graph /\ s \in destroyed
    BY <2>3, <2>5, <2>7 DEF SoundIn, OldCopies
  <2>9. <<r, t, s>>[2] = Graph /\ <<r, t, s>>[3] = s
    BY <2>8
  <2> QED
    BY <2>8, <2>9 DEF TargetsInv, StoresSound
<1> QED
  BY <1>1, <1>2 DEF ReleaseCommits

LEMMA StepKeeps ==
    ASSUME TargetsInv, TargetsNext
    PROVE  Kept
<1>1. CASE \E r \in Touched : Retire(r) \/ Restore(r) \/ Delete(r)
  BY <1>1, KeptUnlinked DEF Retire, Restore, Delete, Operate
<1>2. CASE WorkerStep
  <2>1. CASE InstallWrites \/ Retain \/ Unlink
    BY <2>1, InstallKeeps, RetainKeeps, UnlinkKeeps
  <2>2. CASE (\E e \in open : TakeEvent(e)) \/ ProjectSkips \/ ProjectCalls \/ InstallReads \/ Remove
    BY <2>2, KeptUnlinked DEF TakeEvent, ProjectSkips, ProjectCalls, InstallReads, Remove
  <2>3. CASE RetireReads \/ EraseReads \/ EraseLists
    BY <2>3, KeptUnlinked DEF RetireReads, EraseReads, EraseLists
  <2> QED
    BY <1>2, <2>1, <2>2, <2>3 DEF WorkerStep
<1>3. CASE CallFails \/ WorkerDies \/ Deploy \/ StartCutover \/ WindowEnds \/ Destroy \/ StartRelease
  BY <1>3, KeptUnlinked DEF CallFails, WorkerDies, Deploy, StartCutover, WindowEnds, Destroy, StartRelease
<1>4. CASE OperatorStep
  <2>1. Abandon \in [Stamps -> Stamps] /\ Govern \in [Stamps -> Stamps]
    BY DEF Abandon, Govern, Stamps
  <2>2. Refuse => Kept
    BY <2>1, RestampKeeps DEF Refuse
  <2>3. CASE \E r \in Records : CutoverReads(r)
    BY <2>2, <2>3, KeptUnlinked DEF CutoverReads
  <2>4. CASE \E r \in Records : ReleaseReads(r)
    BY <2>4, KeptUnlinked DEF ReleaseReads
  <2>5. CASE CutoverCounts
    BY <2>2, <2>5, KeptUnlinked DEF CutoverCounts
  <2>6. CASE CutoverCommits
    BY <2>1, <2>6, RestampKeeps DEF CutoverCommits
  <2>7. CASE RebuildCommits \/ CutoverLists \/ CutoverConfirms
    BY <2>7, KeptUnlinked DEF RebuildCommits, CutoverLists, CutoverConfirms, RebuildKeeps
  <2> QED
    BY <1>4, <2>3, <2>4, <2>5, <2>6, <2>7, ReleaseKeeps DEF OperatorStep
<1>5. CASE \E t \in DeliveryTargets : RebuildReads(t)
  BY <1>5, KeptUnlinked DEF RebuildReads, RebuildKeeps
<1> QED
  BY <1>1, <1>2, <1>3, <1>4, <1>5 DEF TargetsNext

\* A copy that a link names is never forgotten while its store still holds it,
\* for every sequence of runtimes: neither a re-projection, a retirement, an
\* erasure nor a release loses an erasure obligation (outbox_worker.py
\* _carried_legacy_copies, _retain_stale_link; memory_service.py
\* release_legacy_projection_copies).
THEOREM NamedKept == TargetsSpec => NamedCopiesAreKept
<1>1. TargetsInv /\ [TargetsNext]_targetsVars =>
          [\A r \in Records, t \in Targets :
              \A s \in Names(link[r][t]) \ Names(link'[r][t]) : <<r, t, s>> \notin held']_targetsVars
  BY StepKeeps DEF Kept
<1> QED
  BY <1>1, Migrates, PTL DEF TargetsSpec, NamedCopiesAreKept

---------------------------------------------------------------------------
\* A recorded cutover leaves nothing behind.

CutSafely ==
    cutover' # cutover /\ cutover'.window = "open" =>
        \A r \in Active : Queued(r) \/ (Linked(r) /\ Secure(r))

LEMMA CommitLeavesNothing ==
    ASSUME TargetsInv, CutoverCommits
    PROVE  CutSafely
<1>1. Checking /\ operator.left = {}
  BY DEF CutoverCommits, Checking, TargetsInv, CutoverHolds
<1>2. ASSUME NEW r \in Active
      PROVE  Queued(r) \/ (Linked(r) /\ Secure(r))
  <2>1. \/ Waits(r) \/ At(r, {"project"})
        \/ At(r, {"derive", "install"}) /\ Secure(r)
        \/ Linked(r) /\ Secure(r)
    BY <1>1, <1>2 DEF TargetsInv, CutoverHolds
  <2>2. Waits(r) => Queued(r)
    BY DEF Waits, Queued
  <2>3. At(r, {"project", "derive", "install"}) => Queued(r)
    BY DEF TargetsInv, KindsAgree, At, Queued, rec, tgt
  <2>4. At(r, {"project"}) \/ At(r, {"derive", "install"}) => At(r, {"project", "derive", "install"})
    BY DEF At
  <2> QED
    BY <2>1, <2>2, <2>3, <2>4
<1> QED
  BY <1>2 DEF CutSafely

LEMMA StepLeavesNothing ==
    ASSUME TargetsInv, [TargetsNext]_targetsVars
    PROVE  CutSafely
<1>1. UNCHANGED cutover => CutSafely
  BY DEF CutSafely
<1>2. CASE \E r \in Touched : Retire(r) \/ Restore(r) \/ Delete(r)
  BY <1>1, <1>2 DEF Retire, Restore, Delete, Operate
<1>3. CASE WorkerStep
  <2>1. CASE (\E e \in open : TakeEvent(e)) \/ ProjectSkips \/ ProjectCalls \/ InstallReads \/ InstallWrites
    BY <1>1, <2>1 DEF TakeEvent, ProjectSkips, ProjectCalls, InstallReads, InstallWrites, WorkerKeeps
  <2>2. CASE Remove \/ RetireReads \/ Retain \/ EraseReads \/ Unlink \/ EraseLists
    BY <1>1, <2>2 DEF Remove, RetireReads, Retain, EraseReads, Unlink, EraseLists, WorkerKeeps
  <2> QED
    BY <1>3, <2>1, <2>2 DEF WorkerStep
<1>4. CASE CallFails \/ WorkerDies \/ Deploy \/ StartCutover \/ Destroy \/ StartRelease
  BY <1>1, <1>4 DEF CallFails, WorkerDies, Deploy, StartCutover, Destroy, StartRelease, WorkerKeeps
<1>5. CASE WindowEnds
  <2>1. cutover'.window = "ended"
    BY <1>5 DEF WindowEnds, TargetsInv, TargetsTyped
  <2> QED
    BY <2>1 DEF CutSafely
<1>6. CASE OperatorStep
  BY <1>1, <1>6, CommitLeavesNothing DEF OperatorStep, CutoverReads, ReleaseReads, CutoverCounts,
     ReleaseCommits, Refuse, RebuildCommits, RebuildKeeps, CutoverLists, CutoverConfirms
<1>7. CASE UNCHANGED targetsVars
  BY <1>1, <1>7 DEF targetsVars
<1>8. CASE \E t \in DeliveryTargets : RebuildReads(t)
  BY <1>1, <1>8 DEF RebuildReads, RebuildKeeps
<1> QED
  BY <1>2, <1>3, <1>4, <1>5, <1>6, <1>7, <1>8 DEF TargetsNext

\* When a cutover is recorded every active record is queued for the new store or
\* linked to a copy there that was not lost during the check, whatever the worker
\* and the clients did since the record was checked (memory_service.py
\* record_graph_cutover).
THEOREM CutoverSafe == TargetsSpec => CutoverLeavesNothing
<1>1. TargetsInv /\ [TargetsNext]_targetsVars =>
          [cutover' # cutover /\ cutover'.window = "open" =>
              \A r \in Active :
                  LET copy == <<r, Graph, Runtime.scheme>>
                  IN  \/ Queued(r)
                      \/ /\ Runtime.scheme \in Names(link[r][Graph])
                         /\ copy \in held \cup (dropped \ operator.lost)]_targetsVars
  BY StepLeavesNothing DEF CutSafely, Linked, Secure, CopyOf
<1> QED
  BY <1>1, Migrates, PTL DEF TargetsSpec, CutoverLeavesNothing
=============================================================================
