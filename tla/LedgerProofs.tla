---------------------------- MODULE LedgerProofs ----------------------------
(***************************************************************************)
(* Proofs about the ledger of the memory service: MemoryLedger (what its   *)
(* operations plan and commit), then Maintenance (the runs that tidy it).  *)
(***************************************************************************)
EXTENDS MemoryLedger, Maintenance, TLAPS, FiniteSetTheorems, WellFoundedInduction

---------------------------------------------------------------------------
(***************************************************************************)
(* Theorems about MemoryLedger for any number of records, keys and         *)
(* callers.  A plan is stale the moment it is made; what keeps the ledger  *)
(* right is what a plan says by itself (Shape), that the records it moves  *)
(* without telling the outbox cannot gain a copy meanwhile (NothingUntold),*)
(* and that a record a write is about to insert is nobody else's.          *)
(***************************************************************************)
\* What a plan says of itself, whatever has become of the records since.
Shape(p) ==
    /\ p.op = "write" =>
         /\ p.record \in Records
         /\ p.new \in {"ACTIVE", "QUARANTINED"}
         /\ p.to = "SUPERSEDED"
         /\ \A r \in Records : Moved(p, r) => p.expect[r] \in Supersedable
         /\ \A r \in p.told : Moved(p, r) \/ r = p.record
    /\ p.op = "move" =>
         /\ p.to \in {"SUPERSEDED", "ARCHIVED", "ACTIVE"}
         /\ \A r \in Records : Moved(p, r) => p.expect[r] \in MovableTo(p.to)
         /\ \A r \in p.told : Moved(p, r)
    /\ p.op = "delete" =>
         /\ p.to \in Tombstoned
         /\ \A r \in Records : Moved(p, r) => p.expect[r] \in Stored \ Tombstoned
         /\ \A r \in p.told : Moved(p, r) /\ p.to = "DELETION_PENDING"
         /\ p.to = "DELETION_PENDING" => \A r \in Records : Moved(p, r) => r \in p.told

Shapes == \A c \in Callers : Shape(plan[c])

\* A record about to be inserted is not stored yet, and planned once.
Reservations ==
    /\ \A c \in Callers : plan[c].op = "write" => state[plan[c].record] = "NONE"
    /\ \A c, d \in Callers :
         plan[c].op = "write" /\ plan[d].op = "write" /\ plan[c].record = plan[d].record => c = d

\* A plan that makes a record stale queues an intent for it, or there is no
\* copy and can be none before the plan commits, unless targets change under it.
NothingUntold ==
    Rolling \/ \A c \in Callers, r \in Records :
        Moved(plan[c], r) /\ plan[c].to # "ACTIVE" /\ r \notin plan[c].told => ~Copies(r)

\* Links and intents are of stored records.
NothingOfNone ==
    \A r \in Records : state[r] = "NONE" => ~linked[r] /\ intent[r] = "none"

\* A receipt names the record that holds its key.
AcksNameHolders ==
    \A a \in acks : state[a.record] # "NONE" /\ key[a.record] = a.key

\* A deletion has its receipt, and while it is pending its erase intent.
Receipted ==
    \A r \in Records :
        /\ erasure[r] = "COMPLETE" <=> state[r] = "DELETED"
        /\ erasure[r] = "PENDING" <=> state[r] = "DELETION_PENDING"
        /\ state[r] = "DELETION_PENDING" => intent[r] = "erase"

\* A linked copy is of a record that is not deleted, and if it is stale, owed.
CopiesTold ==
    Rolling \/ \A r \in Records : linked[r] =>
        /\ state[r] # "DELETED"
        /\ state[r] # "ACTIVE" => intent[r] \in {"retire", "erase"}

IInv ==
    /\ TypeOK
    /\ Shapes
    /\ Reservations
    /\ NothingUntold
    /\ NothingOfNone
    /\ AcksNameHolders
    /\ OneRecordPerKey
    /\ Receipted
    /\ CopiesTold

---------------------------------------------------------------------------
\* The fields of a plan.
LEMMA PlanFields ==
    ASSUME NEW p \in Plans
    PROVE  /\ p.op \in {"idle", "write", "move", "delete"}
           /\ p.record \in Records \cup {NoRecord}
           /\ p.new \in {"NONE", "ACTIVE", "QUARANTINED"}
           /\ p.key \in Keys \cup {NoKey}
           /\ p.replaces \in SUBSET Records
           /\ p.expect \in [Records -> Stored \cup {"any"}]
           /\ p.to \in Stored \cup {"NONE"}
           /\ p.told \in SUBSET Records
BY DEF Plans

\* An idle caller's plan moves nothing.
LEMMA NoPlanIs ==
    /\ NoPlan \in Plans
    /\ NoPlan.op = "idle"
    /\ \A r \in Records : ~Moved(NoPlan, r)
BY DEF NoPlan, Plans, Moved

\* What is expected of the records in S.
LEMMA Expected ==
    ASSUME NEW S \in SUBSET Records,
           state \in [Records -> Stored \cup {"NONE"}], \A r \in S : state[r] \in Stored
    PROVE  /\ Expectation(S) \in [Records -> Stored \cup {"any"}]
           /\ \A r \in Records : Expectation(S)[r] = IF r \in S THEN state[r] ELSE "any"
           /\ \A r \in Records : Expectation(S)[r] # "any" <=> r \in S
BY DEF Expectation, Stored

\* The plan of a transition, a retention run or a deletion.
LEMMA MovePlanIs ==
    ASSUME NEW op \in {"move", "delete"}, NEW S \in SUBSET Records, NEW to \in Stored,
           NEW told \in SUBSET Records,
           Expectation(S) \in [Records -> Stored \cup {"any"}]
    PROVE  LET p == MovePlan(op, S, to, told) IN
           /\ p \in Plans
           /\ p.op = op /\ p.to = to /\ p.told = told /\ p.expect = Expectation(S)
BY DEF MovePlan, Plans

\* The plan of a write: a quarantined record takes nothing along.
LEMMA WritePlanIs ==
    ASSUME NEW r \in Records, NEW k \in Keys \cup {NoKey}, NEW new \in {"ACTIVE", "QUARANTINED"},
           NEW S \in SUBSET Records,
           NEW T, T = (IF new = "ACTIVE" THEN S ELSE {}),
           Expectation(T) \in [Records -> Stored \cup {"any"}]
    PROVE  LET p == WritePlan(r, k, new, S) IN
           /\ p \in Plans
           /\ p.op = "write" /\ p.record = r /\ p.new = new /\ p.key = k
           /\ p.to = "SUPERSEDED" /\ p.expect = Expectation(T)
           /\ p.told \subseteq T \cup {r}
           /\ \A s \in T : Copies(s) => s \in p.told
BY DEF WritePlan, Plans, Stored

\* The fields of a receipt.
LEMMA AckIs ==
    ASSUME NEW k \in Keys, NEW r \in Records,
           NEW status \in {"ADMITTED", "SUPERSEDED", "QUARANTINED", "DUPLICATE"}
    PROVE  LET a == Ack(k, status, r) IN
           /\ a \in [key : Keys, status : {"ADMITTED", "SUPERSEDED", "QUARANTINED", "DUPLICATE"},
                     record : Records]
           /\ a.key = k /\ a.status = status /\ a.record = r
BY DEF Ack

---------------------------------------------------------------------------
\* The callers' plans after one of them replaced its own.
LEMMA PlansAfter ==
    ASSUME TypeOK, NEW c \in Callers, NEW q \in Plans, plan' = [plan EXCEPT ![c] = q]
    PROVE  /\ plan' \in [Callers -> Plans]
           /\ \A d \in Callers : plan'[d] = IF d = c THEN q ELSE plan[d]
BY DEF TypeOK

\* Making a plan, or dropping one, changes nothing that is stored.
LEMMA PlannedIInv ==
    ASSUME IInv, NEW c \in Callers, NEW q \in Plans, plan' = [plan EXCEPT ![c] = q],
           UNCHANGED <<state, key, replaces, linked, intent, erasure, acks, delivering>>,
           moves' \in 0..MaxMoves,
           Shape(q),
           q.op = "write" =>
               /\ state[q.record] = "NONE"
               /\ \A d \in Callers : plan[d].op = "write" => plan[d].record # q.record,
           \A r \in Records : Moved(q, r) /\ q.to # "ACTIVE" /\ r \notin q.told => ~Copies(r)
    PROVE  IInv'
<1> USE DEF IInv
<1>1. plan' \in [Callers -> Plans] /\ \A d \in Callers : plan'[d] = IF d = c THEN q ELSE plan[d]
  BY PlansAfter
<1>2. TypeOK'
  BY <1>1 DEF TypeOK
<1>3. Shapes'
  BY <1>1 DEF Shapes, Shape, Moved
<1>4. Reservations'
  BY <1>1 DEF Reservations
<1>5. NothingUntold'
  BY <1>1 DEF NothingUntold, Moved, Copies
<1>6. (/\ NothingOfNone /\ AcksNameHolders /\ OneRecordPerKey
       /\ Receipted /\ CopiesTold)'
  BY DEF NothingOfNone, AcksNameHolders, OneRecordPerKey, Receipted,
         CopiesTold
<1>7. QED
  BY <1>2, <1>3, <1>4, <1>5, <1>6

\* A commit clears the caller's plan; the others keep theirs, and what these
\* have reserved or left untold is not touched.
LEMMA ClearedPlans ==
    ASSUME IInv, NEW c \in Callers, plan' = [plan EXCEPT ![c] = NoPlan],
           UNCHANGED <<linked, delivering>>,
           \A d \in Callers \ {c} : plan[d].op = "write" => state'[plan[d].record] = "NONE"
    PROVE  /\ plan' \in [Callers -> Plans]
           /\ Shapes' /\ Reservations' /\ NothingUntold'
<1> USE DEF IInv
<1>1. plan' \in [Callers -> Plans]
      /\ \A d \in Callers : plan'[d] = IF d = c THEN NoPlan ELSE plan[d]
  BY PlansAfter, NoPlanIs
<1>2. Shapes'
  BY <1>1, NoPlanIs DEF Shapes, Shape, Moved
<1>3. Reservations'
  BY <1>1, NoPlanIs DEF Reservations
<1>4. NothingUntold'
  BY <1>1, NoPlanIs DEF NothingUntold, Moved, Copies
<1>5. QED
  BY <1>1, <1>2, <1>3, <1>4

\* Receipts that call a write a duplicate of the record holding the key agree
\* with all the others.
LEMMA ReplayedAcks ==
    ASSUME IInv, TypeOK', AcksNameHolders', NEW new, acks' = acks \cup new,
           \A a \in new : a.status = "DUPLICATE",
           UNCHANGED <<state, key>>
    PROVE  OneRecordPerKey'
<1> USE DEF IInv
<1>1. ASSUME NEW a \in acks', NEW b \in acks', a.key = b.key
      PROVE  a.record = b.record /\ (a.status = b.status \/ "DUPLICATE" \in {a.status, b.status})
  <2>1. a.record \in Records /\ b.record \in Records /\ a.key \in Keys
    BY DEF TypeOK
  <2>2. a.record = b.record
    BY <1>1, <2>1 DEF AcksNameHolders, OneRecordPerKey
  <2>3. QED
    BY <1>1, <2>2 DEF OneRecordPerKey
<1>2. \A r, s \in Records :
        state'[r] # "NONE" /\ state'[s] # "NONE" /\ key'[r] = key'[s] /\ key'[r] \in Keys => r = s
  BY DEF OneRecordPerKey
<1>3. QED
  BY <1>1, <1>2, Zenon DEF OneRecordPerKey

\* A replayed write hands out receipts and touches nothing else.
LEMMA WriteReplayedStep ==
    ASSUME IInv, NEW c \in Callers, NEW k \in Keys, WriteReplayed(c, k)
    PROVE  IInv'
<1> USE DEF IInv
<1> DEFINE new == {Ack(k, "DUPLICATE", r) : r \in HolderOf(k)}
<1>1. /\ acks' = acks \cup new
      /\ UNCHANGED <<state, key, replaces, linked, intent, erasure, plan, moves, delivering>>
  BY DEF WriteReplayed
<1>2. \A a \in new :
        /\ a \in [key : Keys, status : {"ADMITTED", "SUPERSEDED", "QUARANTINED", "DUPLICATE"},
                  record : Records]
        /\ a.key = k /\ a.status = "DUPLICATE"
        /\ a.record \in Records /\ state[a.record] # "NONE" /\ key[a.record] = k
  BY AckIs DEF HolderOf
<1> HIDE DEF new
<1>3. TypeOK'
  BY <1>1, <1>2 DEF TypeOK
<1>4. AcksNameHolders'
  BY <1>1, <1>2 DEF AcksNameHolders
<1>5. OneRecordPerKey'
  BY <1>1, <1>2, <1>3, <1>4, ReplayedAcks
<1>6. (Shapes /\ Reservations /\ NothingUntold /\ NothingOfNone)'
  BY <1>1 DEF Shapes, Shape, Moved, Reservations, NothingUntold, NothingOfNone, Copies
<1>7. (Receipted /\ CopiesTold)'
  BY <1>1 DEF Receipted, CopiesTold
<1>8. QED
  BY <1>3, <1>4, <1>5, <1>6, <1>7

\* Planning a write reserves a record nobody stores or plans.
LEMMA PlanWriteStep ==
    ASSUME IInv, NEW c \in Callers, NEW k \in Keys \cup {NoKey},
           NEW new \in {"ACTIVE", "QUARANTINED"}, NEW S \in SUBSET Records,
           PlanWrite(c, k, new, S)
    PROVE  IInv'
<1> USE DEF IInv
<1>1. PICK T : T = (IF new = "ACTIVE" THEN S ELSE {})
  OBVIOUS
<1>2. PICK r \in Records \ Reserved :
        state[r] = "NONE" /\ plan' = [plan EXCEPT ![c] = WritePlan(r, k, new, S)]
  BY DEF PlanWrite
<1>3. T \in SUBSET Records /\ \A s \in T : state[s] \in Supersedable
  BY <1>1 DEF PlanWrite
<1>4. /\ Expectation(T) \in [Records -> Stored \cup {"any"}]
      /\ \A s \in Records : Expectation(T)[s] = IF s \in T THEN state[s] ELSE "any"
  <2>1. state \in [Records -> Stored \cup {"NONE"}] /\ \A s \in T : state[s] \in Stored
    BY <1>3 DEF TypeOK, Supersedable, Stored
  <2>2. QED
    BY <1>3, <2>1, Expected
<1> DEFINE q == WritePlan(r, k, new, S)
<1>5. /\ q \in Plans
      /\ q.op = "write" /\ q.record = r /\ q.new = new /\ q.key = k
      /\ q.to = "SUPERSEDED" /\ q.expect = Expectation(T)
      /\ q.told \subseteq T \cup {r}
      /\ \A s \in T : Copies(s) => s \in q.told
  BY <1>1, <1>4, WritePlanIs
<1> HIDE DEF q
<1>6. \A s \in Records : Moved(q, s) <=> s \in T
  BY <1>3, <1>4, <1>5 DEF Moved, Supersedable
<1>7. Shape(q)
  BY <1>3, <1>4, <1>5, <1>6 DEF Shape
<1>8. \A d \in Callers : plan[d].op = "write" => plan[d].record # r
  BY <1>2 DEF Reserved
<1>9. UNCHANGED <<state, key, replaces, linked, intent, erasure, acks, delivering>>
      /\ moves' \in 0..MaxMoves
  BY DEF PlanWrite, TypeOK
<1>10. QED
  BY <1>2, <1>5, <1>6, <1>7, <1>8, <1>9, PlannedIInv DEF q

\* A planned move leaves untold only what has no copy.
LEMMA PlanMoveStep ==
    ASSUME IInv, NEW c \in Callers, NEW S \in SUBSET Records,
           NEW new \in {"SUPERSEDED", "ARCHIVED", "ACTIVE"}, PlanMove(c, S, new)
    PROVE  IInv'
<1> USE DEF IInv
<1>1. PICK told : told = {r \in S : IF new = "ACTIVE" THEN delivering ELSE Copies(r)}
  OBVIOUS
<1>2. plan' = [plan EXCEPT ![c] = MovePlan("move", S, new, told)]
  BY <1>1 DEF PlanMove
<1>3. \A r \in S : state[r] \in MovableTo(new) /\ state[r] \in Stored
  BY DEF PlanMove, MovableTo, Stored
<1>4. /\ Expectation(S) \in [Records -> Stored \cup {"any"}]
      /\ \A r \in Records : Expectation(S)[r] = IF r \in S THEN state[r] ELSE "any"
      /\ \A r \in Records : Expectation(S)[r] # "any" <=> r \in S
  BY <1>3, Expected DEF TypeOK
<1>5. told \in SUBSET Records /\ told \subseteq S /\ new \in Stored
  BY <1>1 DEF Stored
<1> DEFINE q == MovePlan("move", S, new, told)
<1>6. q \in Plans /\ q.op = "move" /\ q.to = new /\ q.told = told /\ q.expect = Expectation(S)
  BY <1>4, <1>5, MovePlanIs
<1> HIDE DEF q
<1>7. \A r \in Records : Moved(q, r) <=> r \in S
  BY <1>4, <1>6 DEF Moved
<1>8. Shape(q)
  BY <1>3, <1>4, <1>5, <1>6, <1>7 DEF Shape
<1>9. \A r \in Records : Moved(q, r) /\ q.to # "ACTIVE" /\ r \notin q.told => ~Copies(r)
  BY <1>1, <1>6, <1>7
<1>10. UNCHANGED <<state, key, replaces, linked, intent, erasure, acks, delivering>>
      /\ moves' \in 0..MaxMoves
  BY MaxMovesAssumption DEF PlanMove, TypeOK
<1>11. QED
  BY <1>2, <1>6, <1>8, <1>9, <1>10, PlannedIInv DEF q

\* So does a planned deletion, which completes at once for want of copies.
LEMMA PlanDeleteStep ==
    ASSUME IInv, NEW c \in Callers, NEW r \in Records, PlanDelete(c, r)
    PROVE  IInv'
<1> USE DEF IInv
<1>1. PICK S \in SUBSET Records : S = {r}
  OBVIOUS
<1>2. PICK to \in Tombstoned, told \in SUBSET Records :
        /\ told = (IF Copies(r) THEN {r} ELSE {})
        /\ to = (IF Copies(r) THEN "DELETION_PENDING" ELSE "DELETED")
        /\ plan' = [plan EXCEPT ![c] = MovePlan("delete", S, to, told)]
  <2>1. CASE Copies(r)
    BY <1>1, <2>1 DEF PlanDelete, Tombstoned
  <2>2. CASE ~Copies(r)
    BY <1>1, <2>2 DEF PlanDelete, Tombstoned
  <2>3. QED
    BY <2>1, <2>2
<1>3. state[r] \in Stored \ Tombstoned
  BY DEF PlanDelete
<1>4. /\ Expectation(S) \in [Records -> Stored \cup {"any"}]
      /\ \A s \in Records : Expectation(S)[s] = IF s \in S THEN state[s] ELSE "any"
      /\ \A s \in Records : Expectation(S)[s] # "any" <=> s \in S
  BY <1>1, <1>3, Expected DEF TypeOK
<1>5. told \in SUBSET Records /\ to \in Stored
  BY <1>2 DEF Stored, Tombstoned
<1> DEFINE q == MovePlan("delete", S, to, told)
<1>6. q \in Plans /\ q.op = "delete" /\ q.to = to /\ q.told = told /\ q.expect = Expectation(S)
  BY <1>4, <1>5, MovePlanIs
<1> HIDE DEF q
<1>7. \A s \in Records : Moved(q, s) <=> s = r
  BY <1>1, <1>4, <1>6 DEF Moved
<1>8. Shape(q)
  BY <1>2, <1>1, <1>3, <1>4, <1>6, <1>7 DEF Shape
<1>9. \A s \in Records : Moved(q, s) /\ q.to # "ACTIVE" /\ s \notin q.told => ~Copies(s)
  BY <1>2, <1>6, <1>7
<1>10. UNCHANGED <<state, key, replaces, linked, intent, erasure, acks, delivering>>
      /\ moves' \in 0..MaxMoves
  BY DEF PlanDelete, TypeOK
<1>11. QED
  BY <1>2, <1>6, <1>8, <1>9, <1>10, PlannedIInv DEF q

\* A request that gives up leaves no plan.
LEMMA GiveUpStep ==
    ASSUME IInv, NEW c \in Callers, GiveUp(c)
    PROVE  IInv'
<1>1. plan' = [plan EXCEPT ![c] = NoPlan] /\ moves' \in 0..MaxMoves
      /\ UNCHANGED <<state, key, replaces, linked, intent, erasure, acks, delivering>>
  BY DEF GiveUp, IInv, TypeOK
<1>2. Shape(NoPlan)
  BY NoPlanIs DEF Shape
<1>3. QED
  BY <1>1, <1>2, NoPlanIs, PlannedIInv

---------------------------------------------------------------------------
\* What committing a move or a deletion does to the records.
LEMMA MoveCommits ==
    ASSUME IInv, NEW c \in Callers, plan[c].op \in {"move", "delete"}, StillAsRead(plan[c]),
           state' = [r \in Records |-> IF Moved(plan[c], r) THEN plan[c].to ELSE state[r]]
    PROVE  /\ state' \in [Records -> Stored \cup {"NONE"}]
           /\ \A r \in Records : state'[r] = IF Moved(plan[c], r) THEN plan[c].to ELSE state[r]
           /\ \A r \in Records :
                 Moved(plan[c], r) => state[r] = plan[c].expect[r] /\ state[r] \in Stored
           /\ \A r \in Records : state'[r] = "NONE" <=> state[r] = "NONE"
<1> DEFINE p == plan[c]
<1>1. p \in Plans /\ Shape(p) /\ state \in [Records -> Stored \cup {"NONE"}]
  BY DEF IInv, TypeOK, Shapes
<1> HIDE DEF p
<1>2. p.to \in Stored /\ p.expect \in [Records -> Stored \cup {"any"}]
  BY <1>1, PlanFields DEF Shape, Stored, Tombstoned, p
<1>3. \A r \in Records : Moved(p, r) => state[r] = p.expect[r] /\ state[r] \in Stored
  BY <1>2 DEF StillAsRead, Moved, p
<1>4. \A r \in Records : state'[r] = IF Moved(p, r) THEN p.to ELSE state[r]
  BY DEF p
<1>5. state' \in [Records -> Stored \cup {"NONE"}]
  BY <1>1, <1>2 DEF p
<1>6. \A r \in Records : state'[r] = "NONE" <=> state[r] = "NONE"
  BY <1>2, <1>3, <1>4 DEF Stored
<1>7. QED
  BY <1>3, <1>4, <1>5, <1>6 DEF p

\* Receipts stay right while the stored records stay stored under their keys.
LEMMA AcksKept ==
    ASSUME IInv, UNCHANGED <<key, acks>>,
           \A r \in Records : state'[r] = "NONE" <=> state[r] = "NONE"
    PROVE  AcksNameHolders' /\ OneRecordPerKey'
<1> USE DEF IInv
<1>1. \A a \in acks : a.record \in Records
  BY DEF TypeOK
<1>2. AcksNameHolders'
  BY <1>1 DEF AcksNameHolders
<1>3. OneRecordPerKey'
  BY DEF OneRecordPerKey
<1>4. QED
  BY <1>2, <1>3

\* A committed move was governed when it was read and is as read now.
LEMMA CommitMoveStep ==
    ASSUME IInv, NEW c \in Callers, CommitMove(c)
    PROVE  IInv'
<1> USE DEF IInv
<1> DEFINE p == plan[c]
<1>1. /\ p.op = "move" /\ StillAsRead(p)
      /\ state' = [r \in Records |-> IF Moved(p, r) THEN p.to ELSE state[r]]
      /\ intent' = [r \in Records |-> IF r \in p.told THEN IntentOf(p.to) ELSE intent[r]]
      /\ plan' = [plan EXCEPT ![c] = NoPlan]
      /\ UNCHANGED <<key, replaces, linked, erasure, acks, moves, delivering>>
  BY DEF CommitMove
<1>2. /\ state' \in [Records -> Stored \cup {"NONE"}]
      /\ \A r \in Records : state'[r] = IF Moved(p, r) THEN p.to ELSE state[r]
      /\ \A r \in Records : Moved(p, r) => state[r] = p.expect[r] /\ state[r] \in Stored
      /\ \A r \in Records : state'[r] = "NONE" <=> state[r] = "NONE"
  BY <1>1, MoveCommits
<1>3. Shape(p) /\ p \in Plans
  BY DEF Shapes, TypeOK
<1>4. Rolling \/ \A r \in Records :
                    Moved(p, r) /\ p.to # "ACTIVE" /\ r \notin p.told => ~linked[r]
  BY DEF NothingUntold, Copies
<1> HIDE DEF p
<1>5. \A r \in Records : Moved(p, r) => state[r] \notin Tombstoned /\ p.to \notin Tombstoned
  BY <1>1, <1>2, <1>3 DEF Shape, MovableTo, Tombstoned
<1>6. \A r \in p.told : r \in Records /\ Moved(p, r)
  BY <1>1, <1>3, PlanFields DEF Shape
<1>7. \A r \in Records : intent'[r] = IF r \in p.told THEN IntentOf(p.to) ELSE intent[r]
  BY <1>1
<1>8. IntentOf(p.to) \in {"project", "retire"} /\ (p.to # "ACTIVE" => IntentOf(p.to) = "retire")
  BY DEF IntentOf
<1>9. plan' \in [Callers -> Plans] /\ Shapes' /\ Reservations' /\ NothingUntold'
  <2>1. \A d \in Callers \ {c} : plan[d].op = "write" => state'[plan[d].record] = "NONE"
    BY <1>2, PlanFields DEF Reservations, Shapes, Shape, TypeOK
  <2>2. QED
    BY <1>1, <2>1, ClearedPlans
<1>10. TypeOK'
  <2>1. intent' \in [Records -> {"none", "project", "retire", "erase"}]
    BY <1>1, <1>8 DEF TypeOK
  <2>2. QED
    BY <1>1, <1>2, <1>9, <2>1 DEF TypeOK
<1>11. NothingOfNone'
  BY <1>1, <1>2, <1>6, <1>7 DEF NothingOfNone, Stored
<1>12. Receipted'
  BY <1>1, <1>2, <1>5, <1>6, <1>7 DEF Receipted, Tombstoned
<1>13. CopiesTold'
  BY <1>1, <1>2, <1>4, <1>5, <1>6, <1>7, <1>8 DEF CopiesTold, Tombstoned
<1>14. AcksNameHolders' /\ OneRecordPerKey'
  BY <1>1, <1>2, AcksKept
<1>15. QED
  BY <1>9, <1>10, <1>11, <1>12, <1>13, <1>14

\* A committed deletion writes tombstone, receipt and intents together.
LEMMA CommitDeleteStep ==
    ASSUME IInv, NEW c \in Callers, CommitDelete(c)
    PROVE  IInv'
<1> USE DEF IInv
<1> DEFINE p == plan[c]
<1>1. /\ p.op = "delete" /\ StillAsRead(p)
      /\ state' = [r \in Records |-> IF Moved(p, r) THEN p.to ELSE state[r]]
      /\ erasure' = [r \in Records |->
            IF Moved(p, r) THEN (IF p.to = "DELETED" THEN "COMPLETE" ELSE "PENDING")
            ELSE erasure[r]]
      /\ intent' = [r \in Records |-> IF r \in p.told THEN "erase" ELSE intent[r]]
      /\ plan' = [plan EXCEPT ![c] = NoPlan]
      /\ UNCHANGED <<key, replaces, linked, acks, moves, delivering>>
  BY DEF CommitDelete
<1>2. /\ state' \in [Records -> Stored \cup {"NONE"}]
      /\ \A r \in Records : state'[r] = IF Moved(p, r) THEN p.to ELSE state[r]
      /\ \A r \in Records : Moved(p, r) => state[r] = p.expect[r] /\ state[r] \in Stored
      /\ \A r \in Records : state'[r] = "NONE" <=> state[r] = "NONE"
  BY <1>1, MoveCommits
<1>3. Shape(p) /\ p \in Plans
  BY DEF Shapes, TypeOK
<1>4. Rolling \/ \A r \in Records :
                    Moved(p, r) /\ p.to # "ACTIVE" /\ r \notin p.told => ~linked[r]
  BY DEF NothingUntold, Copies
<1> HIDE DEF p
<1>5. p.to \in Tombstoned
  BY <1>1, <1>3 DEF Shape
<1>6. \A r \in Records :
        r \in p.told <=> Moved(p, r) /\ p.to = "DELETION_PENDING"
  BY <1>1, <1>3, PlanFields DEF Shape
<1>7. p.told \subseteq Records
  BY <1>3, PlanFields
<1>8. \A r \in Records : intent'[r] = IF r \in p.told THEN "erase" ELSE intent[r]
  BY <1>1
<1>9. plan' \in [Callers -> Plans] /\ Shapes' /\ Reservations' /\ NothingUntold'
  <2>1. \A d \in Callers \ {c} : plan[d].op = "write" => state'[plan[d].record] = "NONE"
    BY <1>2, PlanFields DEF Reservations, Shapes, Shape, TypeOK
  <2>2. QED
    BY <1>1, <2>1, ClearedPlans
<1>10. TypeOK'
  <2>1. intent' \in [Records -> {"none", "project", "retire", "erase"}]
    BY <1>1 DEF TypeOK
  <2>2. erasure' \in [Records -> {"none", "PENDING", "COMPLETE"}]
    BY <1>1 DEF TypeOK
  <2>3. QED
    BY <1>1, <1>2, <1>9, <2>1, <2>2 DEF TypeOK
<1>11. NothingOfNone'
  BY <1>1, <1>2, <1>6, <1>8 DEF NothingOfNone, Stored
<1>12. Receipted'
  <2> SUFFICES ASSUME NEW r \in Records
               PROVE  /\ erasure'[r] = "COMPLETE" <=> state'[r] = "DELETED"
                      /\ erasure'[r] = "PENDING" <=> state'[r] = "DELETION_PENDING"
                      /\ state'[r] = "DELETION_PENDING" => intent'[r] = "erase"
    BY DEF Receipted
  <2>1. CASE Moved(p, r)
    BY <1>1, <1>2, <1>5, <1>6, <1>8, <2>1 DEF Tombstoned
  <2>2. CASE ~Moved(p, r)
    BY <1>1, <1>2, <1>6, <1>8, <2>2 DEF Receipted
  <2>3. QED
    BY <2>1, <2>2
<1>13. CopiesTold'
  <2> SUFFICES ASSUME ~Rolling, NEW r \in Records, linked[r]
               PROVE  /\ state'[r] # "DELETED"
                      /\ state'[r] # "ACTIVE" => intent'[r] \in {"retire", "erase"}
    BY <1>1 DEF CopiesTold
  <2>1. CASE Moved(p, r)
    BY <1>1, <1>2, <1>4, <1>5, <1>6, <1>8, <2>1 DEF Tombstoned
  <2>2. CASE ~Moved(p, r)
    BY <1>1, <1>2, <1>6, <1>8, <2>2 DEF CopiesTold
  <2>3. QED
    BY <2>1, <2>2
<1>14. AcksNameHolders' /\ OneRecordPerKey'
  BY <1>1, <1>2, AcksKept
<1>15. QED
  BY <1>9, <1>10, <1>11, <1>12, <1>13, <1>14

---------------------------------------------------------------------------
\* What committing a write does to the records.
LEMMA WriteCommits ==
    ASSUME IInv, NEW c \in Callers, CommitWrite(c)
    PROVE  /\ plan[c].op = "write"
           /\ plan[c].record \in Records /\ state[plan[c].record] = "NONE"
           /\ plan[c].new \in {"ACTIVE", "QUARANTINED"}
           /\ state' \in [Records -> Stored \cup {"NONE"}]
           /\ state'[plan[c].record] = plan[c].new
           /\ \A r \in Records \ {plan[c].record} :
                 state'[r] = IF Moved(plan[c], r) THEN "SUPERSEDED" ELSE state[r]
           /\ \A r \in Records : Moved(plan[c], r) => state[r] \in Supersedable
           /\ \A r \in plan[c].told \ {plan[c].record} : r \in Records /\ Moved(plan[c], r)
           /\ Rolling \/ \A r \in Records :
                             Moved(plan[c], r) /\ r \notin plan[c].told => ~linked[r]
<1> DEFINE p == plan[c]
<1>1. /\ p.op = "write" /\ StillAsRead(p)
      /\ state' = [r \in Records |->
            IF r = p.record THEN p.new ELSE IF Moved(p, r) THEN p.to ELSE state[r]]
  BY DEF CommitWrite
<1>2. Shape(p) /\ p \in Plans /\ state \in [Records -> Stored \cup {"NONE"}]
  BY DEF IInv, Shapes, TypeOK
<1>3. state[p.record] = "NONE"
  BY <1>1 DEF IInv, Reservations
<1>4. Rolling \/ \A r \in Records :
                    Moved(p, r) /\ p.to # "ACTIVE" /\ r \notin p.told => ~linked[r]
  BY DEF IInv, NothingUntold, Copies
<1> HIDE DEF p
<1>5. p.record \in Records /\ p.new \in {"ACTIVE", "QUARANTINED"} /\ p.to = "SUPERSEDED"
  BY <1>1, <1>2 DEF Shape
<1>6. \A r \in Records : Moved(p, r) => state[r] \in Supersedable
  BY <1>1, <1>2 DEF Shape, StillAsRead
<1>7. \A r \in p.told \ {p.record} : r \in Records /\ Moved(p, r)
  BY <1>1, <1>2, PlanFields DEF Shape
<1>8. state' \in [Records -> Stored \cup {"NONE"}]
  BY <1>1, <1>2, <1>5 DEF Stored
<1>9. \A r \in Records \ {p.record} : state'[r] = IF Moved(p, r) THEN "SUPERSEDED" ELSE state[r]
  BY <1>1, <1>5
<1>10. state'[p.record] = p.new
  BY <1>1, <1>5
<1>11. Rolling \/ \A r \in Records : Moved(p, r) /\ r \notin p.told => ~linked[r]
  BY <1>4, <1>5
<1>12. QED
  BY <1>1, <1>3, <1>5, <1>6, <1>7, <1>8, <1>9, <1>10, <1>11 DEF p

\* A committed write holds its key alone and supersedes what it read.
LEMMA CommitWriteStep ==
    ASSUME IInv, NEW c \in Callers, CommitWrite(c)
    PROVE  IInv'
<1> USE DEF IInv
<1> DEFINE p == plan[c]
<1>1. /\ KeyFree(p)
      /\ key' = [key EXCEPT ![p.record] = p.key]
      /\ replaces' = [replaces EXCEPT ![p.record] = p.replaces]
      /\ intent' = [r \in Records |->
            IF r \notin p.told THEN intent[r]
            ELSE IF r = p.record THEN "project" ELSE "retire"]
      /\ acks' = IF p.key \in Keys
                 THEN acks \cup {Ack(p.key, Verdict(p), p.record)}
                 ELSE acks
      /\ plan' = [plan EXCEPT ![c] = NoPlan]
      /\ UNCHANGED <<linked, erasure, moves, delivering>>
  BY DEF CommitWrite
<1>2. /\ p.op = "write"
      /\ p.record \in Records /\ state[p.record] = "NONE"
      /\ p.new \in {"ACTIVE", "QUARANTINED"}
      /\ state' \in [Records -> Stored \cup {"NONE"}]
      /\ state'[p.record] = p.new
      /\ \A r \in Records \ {p.record} : state'[r] = IF Moved(p, r) THEN "SUPERSEDED" ELSE state[r]
      /\ \A r \in Records : Moved(p, r) => state[r] \in Supersedable
      /\ \A r \in p.told \ {p.record} : r \in Records /\ Moved(p, r)
      /\ Rolling \/ \A r \in Records : Moved(p, r) /\ r \notin p.told => ~linked[r]
  BY WriteCommits
<1>3. p \in Plans
  BY DEF TypeOK
<1>4. \A d \in Callers \ {c} : plan[d].op = "write" => plan[d].record # p.record
  BY <1>2 DEF Reservations
<1> HIDE DEF p
<1>5. p.key \in Keys \cup {NoKey} /\ p.replaces \in SUBSET Records
  BY <1>3, PlanFields
<1>6. \A r \in Records : /\ key'[r] = IF r = p.record THEN p.key ELSE key[r]
                         /\ intent'[r] = IF r \notin p.told THEN intent[r]
                                         ELSE IF r = p.record THEN "project" ELSE "retire"
  BY <1>1 DEF TypeOK
<1>7. \A r \in Records \ {p.record} : state'[r] = "NONE" <=> state[r] = "NONE"
  BY <1>2 DEF Supersedable
<1>8. plan' \in [Callers -> Plans] /\ Shapes' /\ Reservations' /\ NothingUntold'
  <2>1. ASSUME NEW d \in Callers \ {c}, plan[d].op = "write" PROVE state'[plan[d].record] = "NONE"
    <3>1. plan[d].record \in Records /\ state[plan[d].record] = "NONE"
      BY <2>1 DEF Reservations, Shapes, Shape
    <3>2. QED
      BY <1>4, <1>7, <2>1, <3>1
  <2>2. QED
    BY <1>1, <2>1, ClearedPlans
<1>9. Verdict(p) \in {"ADMITTED", "SUPERSEDED", "QUARANTINED"}
  BY DEF Verdict
<1>10. PICK a : a = Ack(p.key, Verdict(p), p.record)
  OBVIOUS
<1>11. p.key \in Keys =>
         /\ a \in [key : Keys, status : {"ADMITTED", "SUPERSEDED", "QUARANTINED", "DUPLICATE"},
                   record : Records]
         /\ a.key = p.key /\ a.record = p.record
  BY <1>2, <1>9, <1>10, AckIs
<1>12. TypeOK'
  <2>1. key' \in [Records -> Keys \cup {NoKey}] /\ replaces' \in [Records -> SUBSET Records]
    BY <1>1, <1>5 DEF TypeOK
  <2>2. intent' \in [Records -> {"none", "project", "retire", "erase"}]
    BY <1>1 DEF TypeOK
  <2>3. acks' \subseteq [key : Keys, status : {"ADMITTED", "SUPERSEDED", "QUARANTINED", "DUPLICATE"},
                         record : Records]
    BY <1>1, <1>10, <1>11 DEF TypeOK
  <2>4. QED
    BY <1>1, <1>2, <1>8, <2>1, <2>2, <2>3 DEF TypeOK
<1>13. NothingOfNone'
  BY <1>1, <1>2, <1>6, <1>7 DEF NothingOfNone
<1>14. \A b \in acks :
         b.record \in Records \ {p.record} /\ state[b.record] # "NONE" /\ key[b.record] = b.key
  BY <1>2 DEF TypeOK, AcksNameHolders
<1>15. AcksNameHolders'
  <2> SUFFICES ASSUME NEW b \in acks' PROVE state'[b.record] # "NONE" /\ key'[b.record] = b.key
    BY DEF AcksNameHolders
  <2>1. CASE b \in acks
    BY <1>6, <1>7, <1>14, <2>1
  <2>2. CASE b \notin acks
    <3>1. b = a /\ p.key \in Keys
      BY <1>1, <1>10, <2>2
    <3>2. QED
      BY <1>2, <1>6, <1>11, <3>1
  <2>3. QED
    BY <2>1, <2>2
<1>16. OneRecordPerKey'
  <2>1. ASSUME NEW r \in Records, NEW s \in Records,
               state'[r] # "NONE", state'[s] # "NONE", key'[r] = key'[s], key'[r] \in Keys
        PROVE  r = s
    <3>1. p.key \in Keys => \A t \in Records : ~(state[t] # "NONE" /\ key[t] = p.key)
      BY <1>1 DEF KeyFree, HolderOf
    <3>2. CASE r = p.record \/ s = p.record
      BY <1>6, <1>7, <2>1, <3>1, <3>2
    <3>3. CASE r # p.record /\ s # p.record
      BY <1>6, <1>7, <2>1, <3>3 DEF OneRecordPerKey
    <3>4. QED
      BY <3>2, <3>3
  <2>2. ASSUME NEW b \in acks', NEW d \in acks', b.key = d.key
        PROVE  b.record = d.record /\ (b.status = d.status \/ "DUPLICATE" \in {b.status, d.status})
    <3>1. p.key \in Keys => \A e \in acks : e.key # p.key
      BY <1>1, <1>14 DEF KeyFree, HolderOf
    <3>2. CASE b \in acks /\ d \in acks
      BY <2>2, <3>2 DEF OneRecordPerKey
    <3>3. CASE ~(b \in acks /\ d \in acks)
      <4>1. p.key \in Keys /\ acks' = acks \cup {a} /\ a.key = p.key
        BY <1>1, <1>10, <1>11, <3>3
      <4>2. b = a /\ d = a
        BY <2>2, <3>1, <3>3, <4>1
      <4>3. QED
        BY <4>2
    <3>4. QED
      BY <3>2, <3>3
  <2>3. QED
    BY <2>1, <2>2 DEF OneRecordPerKey
<1>17. Receipted'
  <2> SUFFICES ASSUME NEW r \in Records
               PROVE  /\ erasure'[r] = "COMPLETE" <=> state'[r] = "DELETED"
                      /\ erasure'[r] = "PENDING" <=> state'[r] = "DELETION_PENDING"
                      /\ state'[r] = "DELETION_PENDING" => intent'[r] = "erase"
    BY DEF Receipted
  <2>1. CASE r = p.record \/ Moved(p, r)
    BY <1>1, <1>2, <1>6, <2>1 DEF Receipted, Supersedable
  <2>2. CASE r # p.record /\ ~Moved(p, r)
    BY <1>1, <1>2, <1>6, <2>2 DEF Receipted
  <2>3. QED
    BY <2>1, <2>2
<1>18. CopiesTold'
  <2> SUFFICES ASSUME ~Rolling, NEW r \in Records, linked[r]
               PROVE  /\ state'[r] # "DELETED"
                      /\ state'[r] # "ACTIVE" => intent'[r] \in {"retire", "erase"}
    BY <1>1 DEF CopiesTold
  <2>1. CASE r = p.record
    BY <1>1, <1>2, <2>1 DEF NothingOfNone
  <2>2. CASE r # p.record /\ Moved(p, r)
    BY <1>1, <1>2, <1>6, <2>2
  <2>3. CASE r # p.record /\ ~Moved(p, r)
    BY <1>1, <1>2, <1>6, <2>3 DEF CopiesTold
  <2>4. QED
    BY <2>1, <2>2, <2>3
<1>19. QED
  BY <1>8, <1>12, <1>13, <1>15, <1>16, <1>17, <1>18

\* The loser of a race for a key replays the winner.
LEMMA CommitReplayedStep ==
    ASSUME IInv, NEW c \in Callers, CommitReplayed(c)
    PROVE  IInv'
<1> USE DEF IInv
<1> DEFINE k == plan[c].key
           new == {Ack(k, "DUPLICATE", r) : r \in HolderOf(k)}
<1>1. /\ k \in Keys
      /\ acks' = acks \cup new
      /\ plan' = [plan EXCEPT ![c] = NoPlan]
      /\ UNCHANGED <<state, key, replaces, linked, intent, erasure, moves, delivering>>
  BY DEF CommitReplayed, KeyFree
<1> HIDE DEF k
<1>2. \A a \in new :
        /\ a \in [key : Keys, status : {"ADMITTED", "SUPERSEDED", "QUARANTINED", "DUPLICATE"},
                  record : Records]
        /\ a.key = k /\ a.status = "DUPLICATE"
        /\ a.record \in Records /\ state[a.record] # "NONE" /\ key[a.record] = k
  BY <1>1, AckIs DEF HolderOf
<1> HIDE DEF new
<1>3. plan' \in [Callers -> Plans] /\ Shapes' /\ Reservations' /\ NothingUntold'
  <2>1. \A d \in Callers \ {c} : plan[d].op = "write" => state'[plan[d].record] = "NONE"
    BY <1>1 DEF Reservations
  <2>2. QED
    BY <1>1, <2>1, ClearedPlans
<1>4. TypeOK'
  BY <1>1, <1>2, <1>3 DEF TypeOK
<1>5. AcksNameHolders'
  BY <1>1, <1>2 DEF AcksNameHolders
<1>6. OneRecordPerKey'
  BY <1>1, <1>2, <1>4, <1>5, ReplayedAcks
<1>7. (NothingOfNone /\ Receipted /\ CopiesTold)'
  BY <1>1 DEF NothingOfNone, Receipted, CopiesTold
<1>8. QED
  BY <1>3, <1>4, <1>5, <1>6, <1>7

---------------------------------------------------------------------------
\* A link is only installed where something delivers, and there no plan leaves
\* a record it moves untold.
LEMMA InstallLinkStep ==
    ASSUME IInv, NEW r \in Records, InstallLink(r)
    PROVE  IInv'
<1> USE DEF IInv
<1>1. /\ delivering /\ state[r] = "ACTIVE"
      /\ linked' \in [Records -> BOOLEAN]
      /\ \A s \in Records \ {r} : linked'[s] = linked[s]
      /\ UNCHANGED <<state, key, replaces, intent, erasure, plan, acks, moves, delivering>>
  BY DEF InstallLink, TypeOK
<1>2. TypeOK' /\ Shapes' /\ Reservations'
  BY <1>1 DEF TypeOK, Shapes, Shape, Moved, Reservations
<1>3. NothingUntold'
  BY <1>1 DEF NothingUntold, Moved, Copies
<1>4. (NothingOfNone /\ AcksNameHolders /\ OneRecordPerKey)'
  BY <1>1 DEF NothingOfNone, AcksNameHolders, OneRecordPerKey
<1>5. (Receipted /\ CopiesTold)'
  BY <1>1 DEF Receipted, CopiesTold
<1>6. QED
  BY <1>2, <1>3, <1>4, <1>5

\* One copy less to account for.
LEMMA DropLinkStep ==
    ASSUME IInv, NEW r \in Records, DropLink(r)
    PROVE  IInv'
<1> USE DEF IInv
<1>1. /\ linked' \in [Records -> BOOLEAN]
      /\ \A s \in Records : linked'[s] => linked[s]
      /\ UNCHANGED <<state, key, replaces, intent, erasure, plan, acks, moves, delivering>>
  BY DEF DropLink, TypeOK
<1>2. TypeOK' /\ Shapes' /\ Reservations'
  BY <1>1 DEF TypeOK, Shapes, Shape, Moved, Reservations
<1>3. NothingUntold'
  BY <1>1 DEF NothingUntold, Moved, Copies
<1>4. (NothingOfNone /\ AcksNameHolders /\ OneRecordPerKey)'
  BY <1>1 DEF NothingOfNone, AcksNameHolders, OneRecordPerKey
<1>5. (Receipted /\ CopiesTold)'
  BY <1>1 DEF Receipted, CopiesTold
<1>6. QED
  BY <1>2, <1>3, <1>4, <1>5

\* What the completion of a deletion does to the records.
LEMMA CompletionIs ==
    ASSUME IInv, NEW r \in Records, CompleteDeletion(r)
    PROVE  /\ state[r] \in Stored \ {"DELETED"} /\ ~linked[r] /\ intent[r] = "erase"
           /\ state' \in [Records -> Stored \cup {"NONE"}]
           /\ state'[r] = "DELETED" /\ erasure'[r] = "COMPLETE"
           /\ \A s \in Records \ {r} : state'[s] = state[s] /\ erasure'[s] = erasure[s]
<1>1. /\ state \in [Records -> Stored \cup {"NONE"}]
      /\ erasure \in [Records -> {"none", "PENDING", "COMPLETE"}]
  BY DEF IInv, TypeOK
<1>2. state[r] # "NONE" /\ state[r] # "DELETED"
  BY DEF IInv, NothingOfNone, Receipted, CompleteDeletion
<1>3. QED
  BY <1>1, <1>2 DEF CompleteDeletion, Stored

\* Completion turns tombstone and receipt over together, no copy being linked.
LEMMA CompleteDeletionStep ==
    ASSUME IInv, NEW r \in Records, CompleteDeletion(r)
    PROVE  IInv'
<1> USE DEF IInv
<1>1. /\ state[r] \in Stored \ {"DELETED"} /\ ~linked[r] /\ intent[r] = "erase"
      /\ state' \in [Records -> Stored \cup {"NONE"}]
      /\ state'[r] = "DELETED" /\ erasure'[r] = "COMPLETE"
      /\ \A s \in Records \ {r} : state'[s] = state[s] /\ erasure'[s] = erasure[s]
  BY CompletionIs
<1>2. /\ erasure' \in [Records -> {"none", "PENDING", "COMPLETE"}]
      /\ UNCHANGED <<key, replaces, linked, intent, plan, acks, moves, delivering>>
  BY DEF CompleteDeletion, TypeOK
<1>3. \A s \in Records : state'[s] = "NONE" <=> state[s] = "NONE"
  BY <1>1 DEF Stored
<1>4. TypeOK' /\ Shapes'
  BY <1>1, <1>2 DEF TypeOK, Shapes, Shape, Moved
<1>5. Reservations'
  BY <1>2, <1>3 DEF Reservations, Shapes, Shape
<1>6. (NothingUntold /\ NothingOfNone)'
  BY <1>2, <1>3 DEF NothingUntold, Moved, Copies, NothingOfNone
<1>7. AcksNameHolders' /\ OneRecordPerKey'
  BY <1>2, <1>3, AcksKept
<1>8. Receipted'
  BY <1>1, <1>2 DEF Receipted
<1>9. CopiesTold'
  BY <1>1, <1>2 DEF CopiesTold
<1>10. QED
  BY <1>4, <1>5, <1>6, <1>7, <1>8, <1>9

\* No request is under way when the targets change, or they are Rolling.
LEMMA ReconfigureStep ==
    ASSUME IInv, Reconfigure
    PROVE  IInv'
<1> USE DEF IInv
<1>1. /\ Rolling \/ \A c \in Callers : plan[c] = NoPlan
      /\ UNCHANGED <<state, key, replaces, linked, intent, erasure, plan, acks, moves>>
      /\ delivering' \in BOOLEAN
  BY DEF Reconfigure
<1>2. TypeOK' /\ Shapes' /\ Reservations'
  BY <1>1 DEF TypeOK, Shapes, Shape, Moved, Reservations
<1>3. NothingUntold'
  BY <1>1, NoPlanIs DEF NothingUntold, Moved
<1>4. (NothingOfNone /\ AcksNameHolders /\ OneRecordPerKey)'
  BY <1>1 DEF NothingOfNone, AcksNameHolders, OneRecordPerKey
<1>5. (Receipted /\ CopiesTold)'
  BY <1>1 DEF Receipted, CopiesTold
<1>6. QED
  BY <1>2, <1>3, <1>4, <1>5

---------------------------------------------------------------------------
\* An empty ledger.
LEMMA InitIInv == Init => IInv
<1> SUFFICES ASSUME Init PROVE IInv
  OBVIOUS
<1> USE DEF Init
<1>1. TypeOK
  BY NoPlanIs, MaxMovesAssumption DEF TypeOK
<1>2. Shapes /\ Reservations /\ NothingUntold
  BY NoPlanIs DEF Shapes, Shape, Reservations, NothingUntold
<1>3. NothingOfNone /\ AcksNameHolders /\ OneRecordPerKey
  BY DEF NothingOfNone, AcksNameHolders, OneRecordPerKey
<1>4. Receipted /\ CopiesTold
  BY DEF Receipted, CopiesTold
<1>5. QED
  BY <1>1, <1>2, <1>3, <1>4 DEF IInv

\* Every step keeps the inductive invariant.
LEMMA IInvStep == IInv /\ [Next]_vars => IInv'
<1> SUFFICES ASSUME IInv, [Next]_vars PROVE IInv'
  OBVIOUS
<1>1. ASSUME NEW c \in Callers, NEW k \in Keys, WriteReplayed(c, k) PROVE IInv'
  BY <1>1, WriteReplayedStep
<1>2. ASSUME NEW c \in Callers, NEW k \in Keys \cup {NoKey}, NEW new \in {"ACTIVE", "QUARANTINED"},
             NEW S \in SUBSET Records, PlanWrite(c, k, new, S)
      PROVE  IInv'
  BY <1>2, PlanWriteStep
<1>3. ASSUME NEW c \in Callers, NEW S \in SUBSET Records,
             NEW new \in {"SUPERSEDED", "ARCHIVED", "ACTIVE"}, PlanMove(c, S, new)
      PROVE  IInv'
  BY <1>3, PlanMoveStep
<1>4. ASSUME NEW c \in Callers, NEW r \in Records, PlanDelete(c, r) PROVE IInv'
  BY <1>4, PlanDeleteStep
<1>5. ASSUME NEW c \in Callers,
             CommitWrite(c) \/ CommitReplayed(c) \/ CommitMove(c) \/ CommitDelete(c) \/ GiveUp(c)
      PROVE  IInv'
  BY <1>5, CommitWriteStep, CommitReplayedStep, CommitMoveStep, CommitDeleteStep, GiveUpStep
<1>6. ASSUME NEW r \in Records, InstallLink(r) \/ DropLink(r) \/ CompleteDeletion(r) PROVE IInv'
  BY <1>6, InstallLinkStep, DropLinkStep, CompleteDeletionStep
<1>7. CASE Reconfigure
  BY <1>7, ReconfigureStep
<1>8. CASE UNCHANGED vars
  <2>1. (TypeOK /\ Shapes /\ Reservations /\ NothingUntold)'
    BY <1>8 DEF IInv, TypeOK, Shapes, Shape, Moved, Reservations, NothingUntold, Copies, vars
  <2>2. (NothingOfNone /\ AcksNameHolders /\ OneRecordPerKey)'
    BY <1>8 DEF IInv, NothingOfNone, AcksNameHolders, OneRecordPerKey, vars
  <2>3. (Receipted /\ CopiesTold)'
    BY <1>8 DEF IInv, Receipted, CopiesTold, vars
  <2>4. QED
    BY <2>1, <2>2, <2>3 DEF IInv
<1>9. QED
  BY <1>1, <1>2, <1>3, <1>4, <1>5, <1>6, <1>7, <1>8 DEF Next

\* The inductive invariant holds in every state the ledger reaches.
LEMMA Invariance == Spec => []IInv
<1>1. Init => IInv
  BY InitIInv
<1>2. IInv /\ [Next]_vars => IInv'
  BY IInvStep
<1>3. QED
  BY <1>1, <1>2, PTL DEF Spec

---------------------------------------------------------------------------
\* Every column, plan and receipt keeps its type.
THEOREM TypeCorrect == Spec => []TypeOK
<1>1. IInv => TypeOK
  BY DEF IInv
<1>2. QED
  BY <1>1, Invariance, PTL

\* Concurrent writes and retries under one explicit key make one record, and
\* every receipt names it: the unique index and the replay of _admit and
\* commit_write (ADR-008, ADR-071).
THEOREM OneRecord == Spec => []OneRecordPerKey
<1>1. IInv => OneRecordPerKey
  BY DEF IInv
<1>2. QED
  BY <1>1, Invariance, PTL

\* A deletion receipt says what is true of its record, and a record called
\* DELETED has no linked copy: delete, commit_deletion and complete_deletion,
\* where no request outlives a change of the targets it was planned under.
THEOREM ReceiptsTrue ==
    ASSUME ~Rolling
    PROVE  Spec => []DeletionReceiptIsTrue
<1>1. IInv => DeletionReceiptIsTrue
  BY DEF IInv, Receipted, CopiesTold, DeletionReceiptIsTrue
<1>2. QED
  BY <1>1, Invariance, PTL

\* A linked copy of a record that is no longer current has an intent queued
\* that withdraws or erases it, whatever plan committed after whatever other, where
\* no request outlives a change of the targets it was planned under.
THEOREM StaleCopiesOwed ==
    ASSUME ~Rolling
    PROVE  Spec => []StaleCopyIsOwed
<1>1. IInv => StaleCopyIsOwed
  BY DEF IInv, Receipted, CopiesTold, StaleCopyIsOwed
<1>2. QED
  BY <1>1, Invariance, PTL

\* No commit of a stale plan makes a move the governed table forbids: the
\* comparison of previous_state in _insert_status_event.
THEOREM GovernedOnly == Spec => OnlyGovernedMoves
<1> DEFINE GovernedStep ==
      \A r \in Records : state'[r] # state[r] => <<state[r], state'[r]>> \in GovernedMoves
<1>1. ASSUME IInv, NEW c \in Callers, CommitWrite(c) PROVE GovernedStep
  <2>1. PICK p : p = plan[c]
    OBVIOUS
  <2>2. /\ p.record \in Records /\ state[p.record] = "NONE"
        /\ p.new \in {"ACTIVE", "QUARANTINED"} /\ state'[p.record] = p.new
        /\ \A r \in Records \ {p.record} :
              state'[r] = IF Moved(p, r) THEN "SUPERSEDED" ELSE state[r]
        /\ \A r \in Records : Moved(p, r) => state[r] \in Supersedable
    BY <1>1, <2>1, WriteCommits
  <2>3. QED
    BY <2>2 DEF GovernedMoves, Supersedable
<1>2. ASSUME IInv, NEW c \in Callers, CommitMove(c) \/ CommitDelete(c) PROVE GovernedStep
  <2>1. PICK p \in Plans : p = plan[c]
    BY <1>2 DEF IInv, TypeOK
  <2>2. /\ Shape(p)
        /\ p.op = "move" \/ p.op = "delete"
        /\ \A r \in Records : state'[r] = IF Moved(p, r) THEN p.to ELSE state[r]
        /\ \A r \in Records : Moved(p, r) => state[r] = p.expect[r]
    BY <1>2, <2>1, MoveCommits DEF IInv, Shapes, CommitMove, CommitDelete
  <2>3. CASE p.op = "move"
    BY <2>2, <2>3 DEF Shape, MovableTo, GovernedMoves
  <2>4. CASE p.op = "delete"
    BY <2>2, <2>4 DEF Shape, GovernedMoves
  <2>5. QED
    BY <2>2, <2>3, <2>4
<1>3. ASSUME IInv, NEW r \in Records, CompleteDeletion(r) PROVE GovernedStep
  <2>1. /\ state[r] \in Stored \ {"DELETED"} /\ state'[r] = "DELETED"
        /\ \A s \in Records \ {r} : state'[s] = state[s]
    BY <1>3, CompletionIs
  <2>2. QED
    BY <2>1 DEF GovernedMoves, Stored, Tombstoned
<1>4. ASSUME UNCHANGED state PROVE GovernedStep
  BY <1>4
<1>5. IInv /\ [Next]_vars => GovernedStep
  <2> SUFFICES ASSUME IInv, [Next]_vars PROVE GovernedStep
    OBVIOUS
  <2> HIDE DEF GovernedStep
  <2>1. ASSUME NEW c \in Callers,
               \/ \E k \in Keys : WriteReplayed(c, k)
               \/ \E k \in Keys \cup {NoKey}, new \in {"ACTIVE", "QUARANTINED"},
                     S \in SUBSET Records :
                     PlanWrite(c, k, new, S)
               \/ \E S \in SUBSET Records, new \in {"SUPERSEDED", "ARCHIVED", "ACTIVE"} :
                     PlanMove(c, S, new)
               \/ \E r \in Records : PlanDelete(c, r)
               \/ CommitReplayed(c) \/ GiveUp(c)
        PROVE  UNCHANGED state
    BY <2>1 DEF WriteReplayed, PlanWrite, PlanMove, PlanDelete, CommitReplayed, GiveUp
  <2>2. ASSUME NEW r \in Records, InstallLink(r) \/ DropLink(r) PROVE UNCHANGED state
    BY <2>2 DEF InstallLink, DropLink
  <2>3. Reconfigure \/ UNCHANGED vars => UNCHANGED state
    BY DEF Reconfigure, vars
  <2>4. QED
    BY <1>1, <1>2, <1>3, <1>4, <2>1, <2>2, <2>3 DEF Next
<1>6. QED
  BY <1>5, Invariance, PTL DEF Spec, OnlyGovernedMoves

---------------------------------------------------------------------------
(***************************************************************************)
(* Proofs about Maintenance, for any workers, topics, bounds and records.  *)
(* First the planner: the clusters it forms are solid, because a record    *)
(* joins a cluster only where it overlaps one of it (JoinSolid), and so a  *)
(* planned consolidation is exact over what was read (PlannedExact).  Then *)
(* the runs: nothing that goes on meanwhile rewrites what a record says.   *)
(***************************************************************************)
---------------------------------------------------------------------------
\* Numbers: a set of them has a first one, and a bounded one has a last.

LEMMA FirstOf ==
    ASSUME NEW T, T \subseteq Nat, T # {}
    PROVE  \E x \in T : \A y \in T : x <= y
<1> DEFINE P == OpToRel(<, Nat)
<1>1. IsWellFoundedOn(P, Nat)
  BY NatLessThanWellFounded
<1>2. \A x, y \in Nat : y < x => <<y, x>> \in P
  BY DEF OpToRel
<1> HIDE DEF P
<1>3. PICK x \in T : \A y \in T : ~ (<<y, x>> \in P)
  BY <1>1, WFMin
<1>4. ASSUME NEW y \in T PROVE x <= y
  <2>1. x \in Nat /\ y \in Nat /\ ~ (y < x)
    BY <1>2, <1>3
  <2> QED
    BY <2>1
<1> QED
  BY <1>4

LEMMA MinIs ==
    ASSUME NEW T, T \subseteq Nat, T # {}
    PROVE  Min(T) \in T /\ \A y \in T : Min(T) <= y
BY FirstOf DEF Min

LEMMA MaxIs ==
    ASSUME NEW n \in Nat, NEW T, T \subseteq 0..n, T # {}
    PROVE  Max(T) \in T /\ \A y \in T : Max(T) >= y
<1> DEFINE U == {n - x : x \in T}
<1>1. U \subseteq Nat /\ U # {}
  <2>1. \A x \in T : x \in Nat /\ x <= n
    OBVIOUS
  <2>2. \A x \in T : n - x \in Nat
    BY <2>1
  <2> QED
    BY <2>2
<1>2. PICK u \in U : \A v \in U : u <= v
  BY <1>1, FirstOf
<1>3. PICK x \in T : u = n - x
  OBVIOUS
<1>4. ASSUME NEW y \in T PROVE x >= y
  <2>1. n - x <= n - y
    BY <1>2, <1>3
  <2> QED
    BY <2>1
<1> QED
  BY <1>4 DEF Max

---------------------------------------------------------------------------
(***************************************************************************)
(* What _overlapping_clusters returns.  A cluster is solid: an instant      *)
(* between two that its records hold at is one a record of it holds at.     *)
(***************************************************************************)

\* R maps the records up to the nth to intervals.
Intervals(R, n) ==
    /\ DOMAIN R \subseteq 1..n
    /\ \A r \in DOMAIN R : R[r].from \in 0..Forever /\ R[r].to \in 0..Forever

Solid(R, c) ==
    \A x \in Nat : (\E s \in c : R[s].from <= x) /\ (\E s \in c : x < R[s].to) =>
        \E s \in c : R[s].from <= x /\ x < R[s].to

Solids(R, S) == {c \in SUBSET S : c # {} /\ Solid(R, c)}

LEMMA FiniteParts ==
    ASSUME NEW n \in Nat, NEW R, Intervals(R, n), NEW T, T \subseteq DOMAIN R
    PROVE  T \subseteq 1..n /\ IsFiniteSet(T) /\ Cardinality(T) \in Nat
<1>1. T \subseteq 1..n
  BY DEF Intervals
<1>2. IsFiniteSet(1..n)
  BY FS_Interval
<1>3. IsFiniteSet(T)
  BY <1>1, <1>2, FS_Subset
<1> QED
  BY <1>1, <1>3, FS_CardinalityType

\* The sort is total: among the records of a set one begins last.
LEMMA LastOfIn ==
    ASSUME NEW n \in Nat, NEW R, Intervals(R, n), NEW T \in SUBSET DOMAIN R, T # {}
    PROVE  LastOf(R, T) \in T /\ \A l \in T \ {LastOf(R, T)} : Before(R, l, LastOf(R, T))
<1> DEFINE F == {R[r].from : r \in T}
           L == {r \in T : R[r].from = Max(F)}
<1>1. F \subseteq 0..Forever /\ F # {}
  BY DEF Intervals
<1>2. Max(F) \in F /\ \A y \in F : Max(F) >= y
  BY <1>1, MaxIs, ForeverAssumption
<1>3. L \subseteq 0..n /\ L # {}
  <2>1. T \subseteq 0..n
    BY DEF Intervals
  <2>2. \E r \in T : R[r].from = Max(F)
    BY <1>2
  <2> QED
    BY <2>1, <2>2
<1>4. Max(L) \in L /\ \A y \in L : Max(L) >= y
  BY <1>3, MaxIs
<1>5. ASSUME NEW l \in T \ {Max(L)} PROVE Before(R, l, Max(L))
  <2>1. R[l].from \in Nat /\ R[l].from <= Max(F) /\ l \in Nat /\ Max(L) \in Nat
    BY <1>1, <1>2, <1>3, <1>4, ForeverAssumption DEF Intervals
  <2>2. R[Max(L)].from = Max(F) /\ Max(F) \in Nat
    BY <1>1, <1>2, <1>4
  <2>3. CASE R[l].from = Max(F)
    <3>1. l \in L /\ l # Max(L)
      BY <2>3
    <3>2. Max(L) >= l
      BY <1>4, <3>1
    <3> HIDE DEF L, F
    <3>3. l < Max(L)
      BY <2>1, <3>1, <3>2
    <3> QED
      BY <2>2, <2>3, <3>3 DEF Before
  <2>4. CASE R[l].from # Max(F)
    BY <2>1, <2>2, <2>4 DEF Before
  <2> QED
    BY <2>3, <2>4
<1> QED
  BY <1>4, <1>5 DEF LastOf

\* A record that overlaps one of a cluster leaves it solid.
LEMMA JoinSolid ==
    ASSUME NEW n \in Nat, NEW R, Intervals(R, n), NEW S \in SUBSET DOMAIN R,
           NEW c \in Solids(R, S), NEW r \in S, \E m \in c : Overlaps(R, r, m)
    PROVE  c \cup {r} \in Solids(R, S)
<1>1. PICK m \in c : R[r].from < R[m].to /\ R[m].from < R[r].to
  BY DEF Overlaps
<1>2. ASSUME NEW x \in Nat,
             NEW a \in c \cup {r}, R[a].from <= x,
             NEW b \in c \cup {r}, x < R[b].to
      PROVE  \E s \in c \cup {r} : R[s].from <= x /\ x < R[s].to
  <2>1. \A s \in c \cup {r} : R[s].from \in Nat /\ R[s].to \in Nat
    BY ForeverAssumption DEF Intervals, Solids
  <2>2. CASE R[r].from <= x /\ x < R[r].to
    BY <2>2
  <2>3. CASE x < R[r].from
    <3>1. x < R[m].to /\ a \in c
      BY <1>1, <1>2, <2>1, <2>3
    <3> QED
      BY <1>2, <3>1 DEF Solids, Solid
  <2>4. CASE R[r].to <= x
    <3>1. R[m].from <= x /\ b \in c
      BY <1>1, <1>2, <2>1, <2>4
    <3> QED
      BY <1>2, <3>1 DEF Solids, Solid
  <2> QED
    BY <2>1, <2>2, <2>3, <2>4
<1>3. Solid(R, c \cup {r})
  BY <1>2 DEF Solid
<1> QED
  BY <1>3 DEF Solids

LEMMA JoinedIs ==
    ASSUME NEW n \in Nat, NEW R, Intervals(R, n), NEW S \in SUBSET DOMAIN R,
           NEW q \in Seq(Solids(R, S)), NEW r \in S
    PROVE  Joined(R, q, r) \in Seq(Solids(R, S))
<1> DEFINE hits == {i \in DOMAIN q : \E m \in q[i] : Overlaps(R, r, m)}
<1>1. CASE hits = {}
  <2>1. {r} \in Solids(R, S)
    BY DEF Solids, Solid
  <2> QED
    BY <1>1, <2>1 DEF Joined
<1>2. CASE hits # {}
  <2>1. hits \subseteq Nat
    OBVIOUS
  <2>2. Min(hits) \in hits
    BY <1>2, <2>1, MinIs
  <2>3. q[Min(hits)] \in Solids(R, S) /\ \E m \in q[Min(hits)] : Overlaps(R, r, m)
    BY <2>2
  <2>4. q[Min(hits)] \cup {r} \in Solids(R, S)
    BY <2>3, JoinSolid
  <2>5. Joined(R, q, r) = [q EXCEPT ![Min(hits)] = @ \cup {r}]
    BY <1>2 DEF Joined
  <2> QED
    BY <2>2, <2>4, <2>5
<1> QED
  BY <1>1, <1>2

---------------------------------------------------------------------------
\* The function behind Placed is well defined: the records are placed one after
\* another, and what was placed of fewer does not change.
Step(R, g, T) == IF T = {} THEN <<>> ELSE Joined(R, g[T \ {LastOf(R, T)}], LastOf(R, T))

UpTo(S, k) == {T \in SUBSET S : Cardinality(T) <= k}

PlacedUpTo(R, S, k) == \E g : g = [T \in UpTo(S, k) |-> Step(R, g, T)]

LEMMA LastLeaves ==
    ASSUME NEW n \in Nat, NEW R, Intervals(R, n), NEW S \in SUBSET DOMAIN R,
           NEW T \in SUBSET S, T # {}
    PROVE  /\ LastOf(R, T) \in T /\ T \ {LastOf(R, T)} \in SUBSET S
           /\ Cardinality(T) \in Nat /\ Cardinality(T \ {LastOf(R, T)}) \in Nat
           /\ Cardinality(T \ {LastOf(R, T)}) = Cardinality(T) - 1
<1>1. LastOf(R, T) \in T
  BY LastOfIn
<1>2. IsFiniteSet(T)
  BY FiniteParts
<1> QED
  BY <1>1, <1>2, FS_RemoveElement, FS_CardinalityType

LEMMA OneMore ==
    ASSUME NEW n \in Nat, NEW R, Intervals(R, n), NEW S \in SUBSET DOMAIN R,
           NEW k \in Nat, PlacedUpTo(R, S, k)
    PROVE  PlacedUpTo(R, S, k + 1)
<1>1. PICK g : g = [T \in UpTo(S, k) |-> Step(R, g, T)]
  BY DEF PlacedUpTo
<1> DEFINE h == [T \in UpTo(S, k + 1) |-> Step(R, g, T)]
<1>2. ASSUME NEW T \in UpTo(S, k + 1) PROVE Step(R, g, T) = Step(R, h, T)
  <2>1. CASE T = {}
    BY <2>1 DEF Step
  <2>2. CASE T # {}
    <3> DEFINE U == T \ {LastOf(R, T)}
    <3>1. U \in UpTo(S, k)
      BY <2>2, LastLeaves DEF UpTo
    <3>2. U \in UpTo(S, k + 1)
      BY <2>2, LastLeaves DEF UpTo
    <3>3. g[U] = Step(R, g, U)
      BY <1>1, <3>1
    <3>4. h[U] = Step(R, g, U)
      BY <3>2
    <3> HIDE DEF h
    <3> QED
      BY <2>2, <3>3, <3>4 DEF Step
  <2> QED
    BY <2>1, <2>2
<1>3. h = [T \in UpTo(S, k + 1) |-> Step(R, h, T)]
  BY <1>2
<1> HIDE DEF h
<1> QED
  BY <1>3 DEF PlacedUpTo

LEMMA PlacedExists ==
    ASSUME NEW n \in Nat, NEW R, Intervals(R, n), NEW S \in SUBSET DOMAIN R
    PROVE  \A k \in Nat : PlacedUpTo(R, S, k)
<1> DEFINE Bad == {k \in Nat : ~PlacedUpTo(R, S, k)}
<1>1. SUFFICES ASSUME Bad # {} PROVE FALSE
  OBVIOUS
<1>2. PICK k \in Bad : \A j \in Bad : k <= j
  BY <1>1, FirstOf
<1>3. CASE k = 0
  <2> DEFINE g == [T \in UpTo(S, 0) |-> <<>>]
  <2>1. ASSUME NEW T \in UpTo(S, 0) PROVE T = {}
    <3>1. IsFiniteSet(T)
      BY FiniteParts DEF UpTo
    <3> QED
      BY <3>1, FS_EmptySet, FS_CardinalityType DEF UpTo
  <2>2. g = [T \in UpTo(S, 0) |-> Step(R, g, T)]
    BY <2>1 DEF Step
  <2> HIDE DEF g
  <2> QED
    BY <1>3, <2>2 DEF PlacedUpTo
<1>4. CASE k # 0
  <2>1. k - 1 \in Nat /\ ~ (k <= k - 1)
    BY <1>4
  <2>2. PlacedUpTo(R, S, k - 1)
    BY <1>2, <2>1
  <2>3. PlacedUpTo(R, S, (k - 1) + 1)
    BY <2>1, <2>2, OneMore
  <2> QED
    BY <2>3
<1> QED
  BY <1>3, <1>4

LEMMA PlacedIs ==
    ASSUME NEW n \in Nat, NEW R, Intervals(R, n), NEW S \in SUBSET DOMAIN R
    PROVE  \A T \in SUBSET S : Placed(R, S)[T] = Step(R, Placed(R, S), T)
<1>1. IsFiniteSet(S)
  BY FiniteParts
<1>2. Cardinality(S) \in Nat
  BY FiniteParts
<1>3. UpTo(S, Cardinality(S)) = SUBSET S
  BY <1>1, FS_Subset DEF UpTo
<1>4. PlacedUpTo(R, S, Cardinality(S))
  BY <1>2, PlacedExists
<1>5. PICK h : h = [T \in SUBSET S |-> Step(R, h, T)]
  BY <1>3, <1>4 DEF PlacedUpTo
<1>6. Placed(R, S) = [T \in SUBSET S |-> Step(R, Placed(R, S), T)]
  BY <1>5 DEF Placed, Step
<1> DEFINE g == Placed(R, S)
<1>7. g = [T \in SUBSET S |-> Step(R, g, T)]
  BY <1>6
<1> HIDE DEF g
<1>8. \A T \in SUBSET S : g[T] = Step(R, g, T)
  BY <1>7
<1> QED
  BY <1>8 DEF g

LEMMA PlacedSolid ==
    ASSUME NEW n \in Nat, NEW R, Intervals(R, n), NEW S \in SUBSET DOMAIN R
    PROVE  Placed(R, S)[S] \in Seq(Solids(R, S))
<1> DEFINE g == Placed(R, S)
           Bad == {T \in SUBSET S : g[T] \notin Seq(Solids(R, S))}
           Sizes == {Cardinality(T) : T \in Bad}
<1>1. \A T \in SUBSET S : g[T] = Step(R, g, T)
  BY PlacedIs
<1> HIDE DEF g
<1>2. SUFFICES ASSUME Bad # {} PROVE FALSE
  BY DEF g
<1>3. Sizes \subseteq Nat /\ Sizes # {}
  <2>1. \A T \in SUBSET S : Cardinality(T) \in Nat
    BY FiniteParts
  <2> QED
    BY <1>2, <2>1
<1>4. PICK T \in Bad : \A U \in Bad : Cardinality(T) <= Cardinality(U)
  <2>1. PICK k \in Sizes : \A j \in Sizes : k <= j
    BY <1>3, FirstOf
  <2> QED
    BY <2>1
<1>5. CASE T = {}
  <2>1. g[T] = <<>>
    BY <1>1, <1>5 DEF Step
  <2> DEFINE X == Solids(R, S)
  <2> HIDE DEF X
  <2>2. <<>> \in Seq(X)
    OBVIOUS
  <2> QED
    BY <2>1, <2>2 DEF X
<1>6. CASE T # {}
  <2> DEFINE r == LastOf(R, T)
             U == T \ {r}
  <2>0. T \in SUBSET S
    OBVIOUS
  <2>1. r \in T /\ U \in SUBSET S /\ ~ (Cardinality(T) <= Cardinality(U))
    <3>1. /\ LastOf(R, T) \in T /\ U \in SUBSET S
          /\ Cardinality(T) \in Nat /\ Cardinality(U) = Cardinality(T) - 1
      BY <1>6, <2>0, LastLeaves
    <3> HIDE DEF U
    <3> QED
      BY <3>1
  <2>2. g[U] \in Seq(Solids(R, S))
    BY <1>4, <2>1
  <2>3. r \in S
    BY <2>1
  <2>4. g[T] = Joined(R, g[U], r)
    BY <1>1, <1>6 DEF Step
  <2> HIDE DEF r, U
  <2>5. g[T] \in Seq(Solids(R, S))
    BY <2>2, <2>3, <2>4, JoinedIs
  <2> QED
    BY <2>5
<1> QED
  BY <1>5, <1>6

LEMMA ClustersSolid ==
    ASSUME NEW n \in Nat, NEW R, Intervals(R, n), NEW S \in SUBSET DOMAIN R
    PROVE  Clusters(R, S) \subseteq Solids(R, S)
BY PlacedSolid DEF Clusters, Range

---------------------------------------------------------------------------
(***************************************************************************)
(* The plan.  A consolidation it holds is of records that assert one thing *)
(* and that form one cluster.                                              *)
(***************************************************************************)
Coherent(R) ==
    \A r, s \in DOMAIN R :
        R[r].content = R[s].content => R[r].fact = R[s].fact /\ R[r].object = R[s].object

ExactAction(R, a) ==
    a.operation \in Consolidating =>
        /\ a.sources \subseteq DOMAIN R /\ a.sources # {} /\ Solid(R, a.sources)
        /\ \A s, t \in a.sources : R[s].fact = R[t].fact /\ R[s].object = R[t].object

Operations == {"DEDUPE", "REFINE", "SUPERSEDE", "ARCHIVE", "RECONCILE", "REVIEW_QUARANTINE"}

PlanActions ==
    [operation : Operations, sources : SUBSET Nat, supersedes : SUBSET Nat,
     archives : SUBSET Nat]

LEMMA ConsolidationsExact ==
    ASSUME NEW n \in Nat, NEW R, Intervals(R, n), NEW operation \in Consolidating,
           NEW groups, \A g \in groups : g \subseteq DOMAIN R,
           \A g \in groups : \A s, t \in g : R[s].fact = R[t].fact /\ R[s].object = R[t].object,
           NEW a \in Consolidations(operation, R, groups)
    PROVE  ExactAction(R, a) /\ a \in PlanActions
<1>0. PICK g \in groups : \E c \in Clusters(R, g) : a = Action(operation, c, c, {})
  BY DEF Consolidations
<1>1. PICK c \in Clusters(R, g) : a = Action(operation, c, c, {})
  BY <1>0
<1>2. g \in SUBSET DOMAIN R
  OBVIOUS
<1>3. c \in Solids(R, g)
  BY <1>2, ClustersSolid
<1>4. c \subseteq g /\ c # {} /\ Solid(R, c)
  BY <1>3 DEF Solids
<1>5. a.operation = operation /\ a.sources = c /\ a.supersedes = c /\ a.archives = {}
  BY <1>1 DEF Action
<1>6. c \subseteq Nat
  BY <1>2, <1>4 DEF Intervals
<1>7. a \in PlanActions
  BY <1>1, <1>6 DEF Action, PlanActions, Consolidating, Operations
<1> QED
  BY <1>4, <1>5, <1>7 DEF ExactAction

LEMMA GroupsAre ==
    ASSUME NEW label, NEW g \in Groups(label)
    PROVE  g \subseteq DOMAIN label /\ \A s, t \in g : label[s] = label[t]
BY DEF Groups

LEMMA DedupeExact ==
    ASSUME NEW n \in Nat, NEW R, Intervals(R, n), Coherent(R), NEW E \in SUBSET DOMAIN R,
           NEW a \in PlanDedupe(R, E)
    PROVE  ExactAction(R, a) /\ a \in PlanActions
<1> DEFINE label == [r \in E |-> <<R[r].class, R[r].content>>]
<1>1. ASSUME NEW g \in Groups(label)
      PROVE  g \subseteq E /\ \A s, t \in g : R[s].content = R[t].content
  <2>1. g \subseteq DOMAIN label /\ \A s, t \in g : label[s] = label[t]
    BY GroupsAre
  <2> QED
    BY <2>1
<1>2. \A g \in Groups(label) : g \subseteq DOMAIN R
  BY <1>1
<1>3. \A g \in Groups(label) : \A s, t \in g : R[s].fact = R[t].fact /\ R[s].object = R[t].object
  BY <1>1 DEF Coherent
<1>4. a \in Consolidations("DEDUPE", R, Groups(label))
  BY DEF PlanDedupe
<1>5. "DEDUPE" \in Consolidating
  BY DEF Consolidating
<1> HIDE DEF label
<1> QED
  BY <1>2, <1>3, <1>4, <1>5, ConsolidationsExact

LEMMA RefineExact ==
    ASSUME NEW n \in Nat, NEW R, Intervals(R, n), NEW E \in SUBSET DOMAIN R,
           NEW a \in PlanRefine(R, E)
    PROVE  ExactAction(R, a) /\ a \in PlanActions
<1> DEFINE label == [r \in Asserting(R, E) |-> <<R[r].fact, R[r].object>>]
           groups == {g \in Groups(label) : Cardinality({R[r].content : r \in g}) > 1}
<1>1. ASSUME NEW g \in groups
      PROVE  g \subseteq E /\ \A s, t \in g : R[s].fact = R[t].fact /\ R[s].object = R[t].object
  <2>1. g \subseteq DOMAIN label /\ \A s, t \in g : label[s] = label[t]
    BY GroupsAre
  <2> QED
    BY <2>1 DEF Asserting
<1>2. \A g \in groups : g \subseteq DOMAIN R
  BY <1>1
<1>3. \A g \in groups : \A s, t \in g : R[s].fact = R[t].fact /\ R[s].object = R[t].object
  BY <1>1
<1>4. a \in Consolidations("REFINE", R, groups)
  BY DEF PlanRefine
<1>5. "REFINE" \in Consolidating
  BY DEF Consolidating
<1> HIDE DEF groups
<1> QED
  BY <1>2, <1>3, <1>4, <1>5, ConsolidationsExact

LEMMA Unexacting ==
    ASSUME NEW R, NEW a \in PlanActions, a.operation \notin Consolidating
    PROVE  ExactAction(R, a)
BY DEF ExactAction

LEMMA SupersedeTyped ==
    ASSUME NEW n \in Nat, NEW R, Intervals(R, n), NEW E \in SUBSET DOMAIN R,
           NEW a \in PlanSupersede(R, E)
    PROVE  ExactAction(R, a) /\ a \in PlanActions
<1> DEFINE label == [r \in Asserting(R, E) |-> R[r].fact]
           Latest(g) == CHOOSE r \in g : \A o \in g :
                           R[o].from < R[r].from \/ (R[o].from = R[r].from /\ o <= r)
<1>1. PICK g \in Groups(label) : \E early \in g :
          a = Action("SUPERSEDE", {early, Latest(g)}, {early}, {})
  BY DEF PlanSupersede
<1>2. PICK early \in g : a = Action("SUPERSEDE", {early, Latest(g)}, {early}, {})
  BY <1>1
<1>3. g \subseteq DOMAIN label
  BY GroupsAre
<1>4. g \in SUBSET DOMAIN R /\ g # {} /\ g \subseteq Nat
  BY <1>3 DEF Asserting, Intervals
<1> DEFINE r == LastOf(R, g)
<1>5. r \in g /\ \A o \in g \ {r} : Before(R, o, r)
  BY <1>4, LastOfIn
<1> HIDE DEF r
<1>6. \A o \in g : R[o].from < R[r].from \/ (R[o].from = R[r].from /\ o <= r)
  <2>1. ASSUME NEW o \in g PROVE R[o].from < R[r].from \/ (R[o].from = R[r].from /\ o <= r)
    <3>1. CASE o = r
      BY <1>4, <3>1
    <3>2. CASE o # r
      BY <1>4, <1>5, <3>2 DEF Before
    <3> QED
      BY <3>1, <3>2
  <2> QED
    BY <2>1
<1>7. Latest(g) \in g
  BY <1>5, <1>6
<1> HIDE DEF Latest
<1>8. a \in PlanActions /\ a.operation = "SUPERSEDE"
  BY <1>2, <1>4, <1>7 DEF Action, PlanActions, Operations
<1> QED
  BY <1>8, Unexacting DEF Consolidating

LEMMA ArchiveTyped ==
    ASSUME NEW n \in Nat, NEW R, Intervals(R, n), NEW E \in SUBSET DOMAIN R, NEW time,
           NEW a \in PlanArchive(R, E, time)
    PROVE  ExactAction(R, a) /\ a \in PlanActions
<1>1. PICK expired \in SUBSET E : a = Action("ARCHIVE", expired, {}, expired)
  BY DEF PlanArchive
<1>2. expired \subseteq Nat
  BY DEF Intervals
<1>3. a \in PlanActions /\ a.operation = "ARCHIVE"
  BY <1>1, <1>2 DEF Action, PlanActions, Operations
<1> QED
  BY <1>3, Unexacting DEF Consolidating

LEMMA ReconcileTyped ==
    ASSUME NEW n \in Nat, NEW R, Intervals(R, n), NEW E \in SUBSET DOMAIN R,
           NEW a \in PlanReconcile(R, E)
    PROVE  ExactAction(R, a) /\ a \in PlanActions
<1>1. PICK l \in E, r \in E : a = Action("RECONCILE", {l, r}, {}, {})
  BY DEF PlanReconcile, Asserting
<1>2. l \in Nat /\ r \in Nat
  BY DEF Intervals
<1>3. a \in PlanActions /\ a.operation = "RECONCILE"
  BY <1>1, <1>2 DEF Action, PlanActions, Operations
<1> QED
  BY <1>3, Unexacting DEF Consolidating

LEMMA ReviewTyped ==
    ASSUME NEW n \in Nat, NEW R, Intervals(R, n), NEW E \in SUBSET DOMAIN R,
           NEW a \in PlanReview(E)
    PROVE  ExactAction(R, a) /\ a \in PlanActions
<1>1. PICK r \in E : a = Action("REVIEW_QUARANTINE", {r}, {}, {})
  BY DEF PlanReview
<1>2. r \in Nat
  BY DEF Intervals
<1>3. a \in PlanActions /\ a.operation = "REVIEW_QUARANTINE"
  BY <1>1, <1>2 DEF Action, PlanActions, Operations
<1> QED
  BY <1>3, Unexacting DEF Consolidating

\* Whatever the earlier operations consumed, each plans over records that were read.
LEMMA PlannedExact ==
    ASSUME NEW n \in Nat, NEW R, Intervals(R, n), Coherent(R), NEW time,
           NEW a \in Planned(R, time)
    PROVE  ExactAction(R, a) /\ a \in PlanActions
<1> DEFINE E == {r \in DOMAIN R : R[r].state = "ACTIVE"}
           Held == {r \in DOMAIN R : R[r].state = "QUARANTINED"}
           dedupe    == PlanDedupe(R, E)
           refine    == UNION {dedupe \cup PlanRefine(R, left) : left \in {E \ Consumed(dedupe)}}
           supersede == UNION {refine \cup PlanSupersede(R, left) : left \in {E \ Consumed(refine)}}
           archive   == UNION {supersede \cup PlanArchive(R, left, time) :
                                  left \in {E \ Consumed(supersede)}}
           all       == UNION {archive \cup PlanReconcile(R, left) :
                                  left \in {E \ Consumed(archive)}}
<1>1. \/ \E S \in SUBSET E : \/ a \in PlanDedupe(R, S) \/ a \in PlanRefine(R, S)
                            \/ a \in PlanSupersede(R, S) \/ a \in PlanArchive(R, S, time)
                            \/ a \in PlanReconcile(R, S)
      \/ a \in PlanReview(Held)
  <2>1. a \in all \/ a \in PlanReview(Held)
    BY DEF Planned
  <2>2. a \in all => a \in archive \/ \E S \in SUBSET E : a \in PlanReconcile(R, S)
    OBVIOUS
  <2>3. a \in archive => a \in supersede \/ \E S \in SUBSET E : a \in PlanArchive(R, S, time)
    OBVIOUS
  <2>4. a \in supersede => a \in refine \/ \E S \in SUBSET E : a \in PlanSupersede(R, S)
    OBVIOUS
  <2>5. a \in refine => a \in dedupe \/ \E S \in SUBSET E : a \in PlanRefine(R, S)
    OBVIOUS
  <2>6. a \in dedupe => \E S \in SUBSET E : a \in PlanDedupe(R, S)
    OBVIOUS
  <2> HIDE DEF E, Held, dedupe, refine, supersede, archive, all
  <2> QED
    BY <2>1, <2>2, <2>3, <2>4, <2>5, <2>6
<1>2. Held \in SUBSET DOMAIN R /\ E \in SUBSET DOMAIN R
  OBVIOUS
<1> HIDE DEF E, Held
<1>3. CASE a \in PlanReview(Held)
  BY <1>2, <1>3, ReviewTyped
<1>4. ASSUME NEW S \in SUBSET E,
             \/ a \in PlanDedupe(R, S) \/ a \in PlanRefine(R, S)
             \/ a \in PlanSupersede(R, S) \/ a \in PlanArchive(R, S, time)
             \/ a \in PlanReconcile(R, S)
      PROVE  ExactAction(R, a) /\ a \in PlanActions
  <2>1. S \in SUBSET DOMAIN R
    BY <1>2
  <2> QED
    BY <1>4, <2>1, DedupeExact, RefineExact, SupersedeTyped, ArchiveTyped, ReconcileTyped
<1> QED
  BY <1>1, <1>3, <1>4

---------------------------------------------------------------------------
(***************************************************************************)
(* The runs.  IInv: what a run has read of a record is what the record      *)
(* still says, whoever closed, released or deleted it since (Follows), what *)
(* it has still to do are exact actions over what it read, and every        *)
(* derived record covers exactly its sources.                              *)
(***************************************************************************)
DerivedKeys == {NoDigest} \cup (Operations \X SUBSET Nat)

Contents == UNION {Digests(o) : o \in Observations}

MemoryRecords ==
    [class : {o.class : o \in Observations}, content : Contents,
     fact : {o.fact : o \in Observations}, object : {o.object : o \in Observations},
     from : 0..Forever, to : 0..Forever, consent : SUBSET (0..Forever),
     evidence : SUBSET Explicit, signs : SUBSET Signs,
     again : {o.again : o \in Observations},
     state : States, links : SUBSET Nat, conflicts : SUBSET Nat, key : DerivedKeys]

Readings == UNION {[D -> MemoryRecords] : D \in SUBSET Nat}

RunTypes ==
    [at : {"idle", "applying"}, read : Readings, todo : SUBSET PlanActions,
     done : SUBSET PlanActions, reviews : Nat]

\* Every variable holds a value of the kind the code keeps there.
MaintenanceTyped ==
    /\ rec \in Seq(MemoryRecords)
    /\ ledger \subseteq Operations \X SUBSET Nat
    /\ run \in [Workers -> RunTypes]
    /\ now \in Nat
    /\ moved \in Nat

\* A record, and its words written again, assert what an observation of them does.
Grounded(m) ==
    \E o \in Observations : /\ {m.content, m.again.content} \subseteq Digests(o)
                            /\ m.fact = o.fact /\ m.object = o.object

\* What is never rewritten of a record
Alike(m, k) ==
    /\ m.content = k.content /\ m.again = k.again
    /\ m.fact = k.fact /\ m.object = k.object /\ m.from = k.from /\ m.to = k.to

Spanned(R, S) == UNION {R[r].from..(R[r].to - 1) : r \in S}

ExactRecord(R, d) ==
    R[d].key # NoDigest =>
        /\ R[d].key[2] \subseteq DOMAIN R
        /\ Spanned(R, {d}) = Spanned(R, R[d].key[2])
        /\ \A s \in R[d].key[2] : R[s].fact = R[d].fact /\ R[s].object = R[d].object

SoundRecords(R) == \A r \in DOMAIN R : Grounded(R[r]) /\ ExactRecord(R, r)

Follows(R, v) ==
    /\ DOMAIN v.read \subseteq DOMAIN R
    /\ \A r \in DOMAIN v.read : Alike(v.read[r], R[r])
    /\ \A a \in v.todo : ExactAction(v.read, a)

MaintenanceInv ==
    /\ MaintenanceTyped
    /\ SoundRecords(rec)
    /\ \A w \in Workers : Follows(rec, run[w])

\* What a step may do to the records: change a state or a link, and add some.
Keeps(R, Q) ==
    /\ DOMAIN R \subseteq DOMAIN Q
    /\ \A r \in DOMAIN R : Alike(Q[r], R[r]) /\ Q[r].key = R[r].key

LEMMA SpannedAlike ==
    ASSUME NEW R, NEW Q, NEW S, \A r \in S : R[r].from = Q[r].from /\ R[r].to = Q[r].to
    PROVE  Spanned(R, S) = Spanned(Q, S)
BY DEF Spanned

LEMMA ExactKept ==
    ASSUME NEW R, NEW Q, Keeps(R, Q), NEW d \in DOMAIN R, ExactRecord(R, d)
    PROVE  ExactRecord(Q, d)
<1>1. Q[d].key = R[d].key /\ Alike(Q[d], R[d])
  BY DEF Keeps
<1>2. ASSUME Q[d].key # NoDigest
      PROVE  /\ Q[d].key[2] \subseteq DOMAIN Q
             /\ Spanned(Q, {d}) = Spanned(Q, Q[d].key[2])
             /\ \A s \in Q[d].key[2] : Q[s].fact = Q[d].fact /\ Q[s].object = Q[d].object
  <2> DEFINE S == R[d].key[2]
  <2>1. /\ S \subseteq DOMAIN R
        /\ Spanned(R, {d}) = Spanned(R, S)
        /\ \A s \in S : R[s].fact = R[d].fact /\ R[s].object = R[d].object
    BY <1>1, <1>2 DEF ExactRecord
  <2> HIDE DEF S
  <2>2. \A s \in S : s \in DOMAIN Q /\ Alike(Q[s], R[s])
    BY <2>1 DEF Keeps
  <2>3. Spanned(R, S) = Spanned(Q, S)
    BY <2>2, SpannedAlike DEF Alike
  <2>4. Spanned(R, {d}) = Spanned(Q, {d})
    BY <1>1, SpannedAlike DEF Alike
  <2>5. S = Q[d].key[2]
    BY <1>1 DEF S
  <2>6. S \subseteq DOMAIN Q
    BY <2>2
  <2>7. Spanned(Q, {d}) = Spanned(Q, S)
    BY <2>1, <2>3, <2>4
  <2>8. \A s \in S : Q[s].fact = Q[d].fact /\ Q[s].object = Q[d].object
    BY <1>1, <2>1, <2>2 DEF Alike
  <2> QED
    BY <2>5, <2>6, <2>7, <2>8
<1> QED
  BY <1>2 DEF ExactRecord

LEMMA FollowsKept ==
    ASSUME NEW R, NEW Q, Keeps(R, Q), NEW v, Follows(R, v)
    PROVE  Follows(Q, v)
BY DEF Follows, Keeps, Alike

LEMMA SoundKept ==
    ASSUME NEW R, NEW Q, Keeps(R, Q), SoundRecords(R),
           \A r \in DOMAIN Q \ DOMAIN R : Grounded(Q[r]) /\ ExactRecord(Q, r)
    PROVE  SoundRecords(Q)
<1>1. ASSUME NEW r \in DOMAIN R PROVE Grounded(Q[r]) /\ ExactRecord(Q, r)
  <2>1. Grounded(R[r]) /\ ExactRecord(R, r) /\ Alike(Q[r], R[r])
    BY DEF SoundRecords, Keeps
  <2> QED
    BY <2>1, ExactKept DEF Grounded, Alike
<1> QED
  BY <1>1 DEF SoundRecords

\* A run gives up what it has done with, or forgets all it read.
LEMMA FollowsLess ==
    ASSUME NEW R, NEW v, Follows(R, v), NEW u,
           u.todo \subseteq v.todo, u.read = v.read \/ (u.todo = {} /\ DOMAIN u.read = {})
    PROVE  Follows(R, u)
BY DEF Follows

LEMMA NoRunFollows ==
    ASSUME NEW R
    PROVE  Follows(R, NoRun) /\ NoRun \in RunTypes
<1>1. <<>> \in [{} -> MemoryRecords]
  OBVIOUS
<1>2. <<>> \in Readings
  BY <1>1 DEF Readings
<1> QED
  BY <1>2 DEF Follows, NoRun, RunTypes

\* The records kept and the runs that follow them: what a step has to show.
LEMMA RecordsChange ==
    ASSUME MaintenanceInv, MaintenanceTyped', Keeps(rec, rec'),
           \A r \in DOMAIN rec' \ DOMAIN rec : Grounded(rec'[r]) /\ ExactRecord(rec', r),
           \A w \in Workers : Follows(rec, run[w]) => Follows(rec, run'[w])
    PROVE  MaintenanceInv'
<1>1. SoundRecords(rec')
  BY SoundKept DEF MaintenanceInv
<1>2. \A w \in Workers : Follows(rec', run'[w])
  BY FollowsKept DEF MaintenanceInv
<1> QED
  BY <1>1, <1>2 DEF MaintenanceInv

---------------------------------------------------------------------------
\* The steps, one lemma each.

\* The records of a namespace are the first so many, and their intervals are sound.
LEMMA RecordsAre ==
    ASSUME MaintenanceTyped
    PROVE  /\ Len(rec) \in Nat /\ DOMAIN rec = 1..Len(rec)
           /\ \A r \in DOMAIN rec : rec[r] \in MemoryRecords
BY DEF MaintenanceTyped

LEMMA ReadingIs ==
    ASSUME MaintenanceInv, NEW w \in Workers
    PROVE  /\ Intervals(run[w].read, Len(rec))
           /\ \A r \in DOMAIN run[w].read : run[w].read[r] \in MemoryRecords
<1> DEFINE R == run[w].read
<1>1. R \in Readings /\ DOMAIN R \subseteq DOMAIN rec
  BY DEF MaintenanceInv, MaintenanceTyped, RunTypes, Follows
<1>2. PICK D \in SUBSET Nat : R \in [D -> MemoryRecords]
  BY <1>1 DEF Readings
<1>3. \A r \in DOMAIN R : R[r] \in MemoryRecords
  BY <1>2
<1>4. DOMAIN rec = 1..Len(rec)
  BY RecordsAre DEF MaintenanceInv
<1> HIDE DEF R
<1>5. Intervals(R, Len(rec))
  BY <1>1, <1>3, <1>4 DEF Intervals, MemoryRecords
<1> QED
  BY <1>3, <1>5 DEF R

\* Reporting an action
LEMMA ReportedIs ==
    ASSUME MaintenanceInv, NEW w \in Workers, NEW a \in run[w].todo,
           NEW applied \in BOOLEAN, Reported(w, a, applied)
    PROVE  /\ run' \in [Workers -> RunTypes]
           /\ \A v \in Workers : Follows(rec, run[v]) => Follows(rec, run'[v])
<1> DEFINE todo == run[w].todo \ {a}
           done == IF applied THEN run[w].done \cup {a} ELSE run[w].done
           read == IF run[w].todo = {a} THEN <<>> ELSE run[w].read
           reviews == IF a.operation = "REVIEW_QUARANTINE"
                      THEN run[w].reviews + 1 ELSE run[w].reviews
           new == [run[w] EXCEPT !.todo = todo, !.done = done, !.read = read,
                                 !.reviews = reviews]
<1>1. run \in [Workers -> RunTypes] /\ run[w] \in RunTypes
  BY DEF MaintenanceInv, MaintenanceTyped
<1>2. run' = [run EXCEPT ![w] = new]
  BY <1>1 DEF Reported, RunTypes
<1>4. new \in RunTypes /\ new.todo = todo /\ new.read = read
  <2>1. a \in PlanActions
    BY <1>1 DEF RunTypes
  <2>2. <<>> \in Readings
    <3>1. NoRun.read = <<>> /\ NoRun.read \in Readings
      BY NoRunFollows DEF NoRun, RunTypes
    <3> QED
      BY <3>1
  <2>3. todo \in SUBSET PlanActions /\ done \in SUBSET PlanActions
    BY <1>1, <2>1 DEF RunTypes
  <2>4. read \in Readings /\ reviews \in Nat
    BY <1>1, <2>2 DEF RunTypes
  <2> HIDE DEF todo, done, read, reviews
  <2>5. new = [at |-> run[w].at, read |-> read, todo |-> todo, done |-> done,
               reviews |-> reviews]
    <3> DEFINE v == run[w]
    <3>1. v \in RunTypes
      BY <1>1
    <3>2. new = [v EXCEPT !.todo = todo, !.done = done, !.read = read, !.reviews = reviews]
      OBVIOUS
    <3> HIDE DEF v, new
    <3>3. new = [at |-> v.at, read |-> read, todo |-> todo, done |-> done,
                 reviews |-> reviews]
      BY <3>1, <3>2 DEF RunTypes
    <3> QED
      BY <3>3 DEF v
  <2>6. run[w].at \in {"idle", "applying"}
    BY <1>1 DEF RunTypes
  <2> HIDE DEF new
  <2> QED
    BY <2>3, <2>4, <2>5, <2>6 DEF RunTypes
<1> HIDE DEF new
<1>5. Follows(rec, run[w]) => Follows(rec, new)
  <2>1. new.todo \subseteq run[w].todo
    BY <1>4
  <2>2. new.read = run[w].read \/ (new.todo = {} /\ DOMAIN new.read = {})
    BY <1>4
  <2> QED
    BY <2>1, <2>2, FollowsLess
<1> QED
  BY <1>1, <1>2, <1>4, <1>5

\* A record of which only the state or the links change
LEMMA Restated ==
    ASSUME NEW m \in MemoryRecords, NEW to \in States,
           NEW links \in SUBSET Nat, NEW conflicts \in SUBSET Nat,
           NEW k, k \in {[m EXCEPT !.state = to],
                         [m EXCEPT !.conflicts = conflicts, !.links = links]}
    PROVE  k \in MemoryRecords /\ Alike(k, m) /\ k.key = m.key
BY DEF MemoryRecords, Alike

\* A step that changes states or links only, or nothing at all
LEMMA StatesChange ==
    ASSUME MaintenanceInv, rec' \in Seq(MemoryRecords), DOMAIN rec' = DOMAIN rec,
           \A r \in DOMAIN rec : Alike(rec'[r], rec[r]) /\ rec'[r].key = rec[r].key,
           run' \in [Workers -> RunTypes],
           \A w \in Workers : Follows(rec, run[w]) => Follows(rec, run'[w]),
           ledger' \subseteq Operations \X SUBSET Nat, now' \in Nat, moved' \in Nat
    PROVE  MaintenanceInv'
<1>1. MaintenanceTyped'
  BY DEF MaintenanceTyped
<1>2. Keeps(rec, rec')
  BY DEF Keeps
<1> QED
  BY <1>1, <1>2, RecordsChange

LEMMA ObserveStep ==
    ASSUME MaintenanceInv, NEW topic \in Topics, NEW o \in topic.says, Observe(topic, o)
    PROVE  MaintenanceInv'
<1> DEFINE m == [class |-> o.class, content |-> o.content, fact |-> o.fact,
                 object |-> o.object, from |-> o.from, to |-> o.to,
                 consent |-> o.consent, evidence |-> o.evidence, signs |-> o.signs,
                 again |-> o.again, state |-> Admitted(o), links |-> {}, conflicts |-> {},
                 key |-> NoDigest]
<1>1. rec' = Append(rec, m) /\ UNCHANGED <<ledger, run, now, moved>>
  BY DEF Observe
<1>2. o \in Observations
  BY DEF Observations
<1>3. m \in MemoryRecords
  <2>1. Admitted(o) \in States
    BY DEF Observe, Admitted, States
  <2>2. o.content \in Contents
    BY <1>2 DEF Contents, Digests
  <2> QED
    BY <1>2, <2>1, <2>2, TopicsAssumption DEF MemoryRecords, DerivedKeys
<1>4. Grounded(m) /\ m.key = NoDigest
  BY <1>2 DEF Grounded, Digests
<1> HIDE DEF m
<1>5. rec \in Seq(MemoryRecords)
  BY DEF MaintenanceInv, MaintenanceTyped
<1>6. /\ rec' \in Seq(MemoryRecords) /\ DOMAIN rec \subseteq DOMAIN rec'
      /\ \A r \in DOMAIN rec : rec'[r] = rec[r]
      /\ \A r \in DOMAIN rec' \ DOMAIN rec : rec'[r] = m
  BY <1>1, <1>3, <1>5
<1>7. MaintenanceTyped'
  BY <1>1, <1>6 DEF MaintenanceInv, MaintenanceTyped
<1>8. Keeps(rec, rec')
  BY <1>6 DEF Keeps, Alike
<1>9. \A r \in DOMAIN rec' \ DOMAIN rec : Grounded(rec'[r]) /\ ExactRecord(rec', r)
  BY <1>4, <1>6 DEF ExactRecord
<1> QED
  BY <1>1, <1>7, <1>8, <1>9, RecordsChange

LEMMA MoveStep ==
    ASSUME MaintenanceInv, NEW r \in DOMAIN rec, NEW new \in States, Move(r, new)
    PROVE  MaintenanceInv'
<1>1. /\ rec' = [rec EXCEPT ![r].state = new]
      /\ moved' = moved + 1 /\ UNCHANGED <<ledger, run, now>>
  BY DEF Move
<1>2. rec \in Seq(MemoryRecords) /\ rec[r] \in MemoryRecords
  BY DEF MaintenanceInv, MaintenanceTyped
<1> DEFINE k == [rec[r] EXCEPT !.state = new]
<1>3. k \in MemoryRecords /\ Alike(k, rec[r]) /\ k.key = rec[r].key
  BY <1>2, Restated
<1>7. rec' = [rec EXCEPT ![r] = k]
  BY <1>1, <1>2
<1> HIDE DEF k
<1>4. rec' \in Seq(MemoryRecords) /\ DOMAIN rec' = DOMAIN rec
  BY <1>2, <1>3, <1>7
<1>5. \A q \in DOMAIN rec : Alike(rec'[q], rec[q]) /\ rec'[q].key = rec[q].key
  BY <1>2, <1>3, <1>7 DEF Alike
<1>6. /\ run \in [Workers -> RunTypes] /\ ledger \subseteq Operations \X SUBSET Nat
      /\ now \in Nat /\ moved' \in Nat
  BY <1>1 DEF MaintenanceInv, MaintenanceTyped
<1> QED
  BY <1>1, <1>4, <1>5, <1>6, StatesChange

LEMMA OthersStand ==
    ASSUME MaintenanceInv
    PROVE  /\ rec \in Seq(MemoryRecords) /\ run \in [Workers -> RunTypes]
           /\ ledger \subseteq Operations \X SUBSET Nat /\ now \in Nat /\ moved \in Nat
           /\ \A r \in DOMAIN rec : Alike(rec[r], rec[r])
BY DEF MaintenanceInv, MaintenanceTyped, Alike

LEMMA TickStep ==
    ASSUME MaintenanceInv, Tick
    PROVE  MaintenanceInv'
<1>1. rec' = rec /\ ledger' = ledger /\ run' = run /\ moved' = moved /\ now' = now + 1
  BY DEF Tick
<1>2. now' \in Nat
  BY <1>1, OthersStand
<1> QED
  BY <1>1, <1>2, OthersStand, StatesChange

LEMMA LoadedIs ==
    ASSUME MaintenanceInv
    PROVE  /\ Loaded \in Readings /\ DOMAIN Loaded \subseteq DOMAIN rec
           /\ \A r \in DOMAIN Loaded : Loaded[r] = rec[r]
           /\ Intervals(Loaded, Len(rec)) /\ Coherent(Loaded)
<1> DEFINE D == {q \in DOMAIN rec : rec[q].state \in {"ACTIVE", "QUARANTINED"}}
<1>1. Loaded = [r \in D |-> rec[r]]
  BY DEF Loaded
<1>2. /\ DOMAIN rec = 1..Len(rec) /\ Len(rec) \in Nat
      /\ \A r \in DOMAIN rec : rec[r] \in MemoryRecords
  BY RecordsAre DEF MaintenanceInv
<1>3. D \subseteq DOMAIN rec /\ D \in SUBSET Nat
  BY <1>2
<1> HIDE DEF D
<1>4. Loaded \in [D -> MemoryRecords] /\ DOMAIN Loaded = D /\ \A r \in D : Loaded[r] = rec[r]
  BY <1>1, <1>2, <1>3
<1>5. Loaded \in Readings
  BY <1>3, <1>4 DEF Readings
<1>6. Intervals(Loaded, Len(rec))
  BY <1>2, <1>3, <1>4 DEF Intervals, MemoryRecords
<1>7. \A r \in DOMAIN rec : Grounded(rec[r])
  BY DEF MaintenanceInv, SoundRecords
<1>8. Coherent(Loaded)
  <2>1. ASSUME NEW r \in D, NEW q \in D, rec[r].content = rec[q].content
        PROVE  rec[r].fact = rec[q].fact /\ rec[r].object = rec[q].object
    <3>1. Grounded(rec[r]) /\ Grounded(rec[q])
      BY <1>3, <1>7
    <3>2. PICK o \in Observations : /\ rec[r].content \in Digests(o)
                                   /\ rec[r].fact = o.fact /\ rec[r].object = o.object
      BY <3>1 DEF Grounded
    <3>3. PICK p \in Observations : /\ rec[q].content \in Digests(p)
                                   /\ rec[q].fact = p.fact /\ rec[q].object = p.object
      BY <3>1 DEF Grounded
    <3>4. Digests(o) \cap Digests(p) # {}
      BY <2>1, <3>2, <3>3
    <3> QED
      BY <3>2, <3>3, <3>4, TopicsAssumption
  <2> QED
    BY <1>4, <2>1 DEF Coherent
<1> QED
  BY <1>3, <1>4, <1>5, <1>6, <1>8

LEMMA StartRunStep ==
    ASSUME MaintenanceInv, NEW w \in Workers, StartRun(w)
    PROVE  MaintenanceInv'
<1> DEFINE todo == Fresh(Loaded, now, ledger)
           v == [NoRun EXCEPT !.at = "applying", !.read = Loaded, !.todo = todo]
<1>1. run' = [run EXCEPT ![w] = v] /\ UNCHANGED <<rec, ledger, now, moved>>
  BY DEF StartRun
<1>2. todo \subseteq PlanActions /\ \A a \in todo : ExactAction(Loaded, a)
  <2>1. Len(rec) \in Nat
    BY RecordsAre DEF MaintenanceInv
  <2> QED
    BY <2>1, LoadedIs, PlannedExact DEF Fresh
<1> HIDE DEF todo
<1>3. v = [at |-> "applying", read |-> Loaded, todo |-> todo, done |-> {}, reviews |-> 0]
  <2> DEFINE n == NoRun
  <2>1. n \in RunTypes /\ n.done = {} /\ n.reviews = 0
    BY NoRunFollows DEF NoRun
  <2>2. v = [n EXCEPT !.at = "applying", !.read = Loaded, !.todo = todo]
    OBVIOUS
  <2> HIDE DEF n, v
  <2> QED
    BY <2>1, <2>2 DEF RunTypes
<1> HIDE DEF v
<1>4. v \in RunTypes
  BY <1>2, <1>3, LoadedIs DEF RunTypes
<1>5. Follows(rec, v)
  BY <1>2, <1>3, LoadedIs, OthersStand DEF Follows
<1>6. run' \in [Workers -> RunTypes] /\ \A u \in Workers : Follows(rec, run[u]) => Follows(rec, run'[u])
  BY <1>1, <1>4, <1>5, OthersStand
<1> QED
  BY <1>1, <1>6, OthersStand, StatesChange

LEMMA EndRun ==
    ASSUME MaintenanceInv, NEW w \in Workers, run' = [run EXCEPT ![w] = NoRun]
    PROVE  /\ run' \in [Workers -> RunTypes]
           /\ \A u \in Workers : Follows(rec, run[u]) => Follows(rec, run'[u])
BY OthersStand, NoRunFollows

LEMMA FinishRunStep ==
    ASSUME MaintenanceInv, NEW w \in Workers, FinishRun(w)
    PROVE  MaintenanceInv'
<1>1. /\ ledger' = ledger \cup {Digest(a) : a \in run[w].done}
      /\ run' = [run EXCEPT ![w] = NoRun] /\ UNCHANGED <<rec, now, moved>>
  BY DEF FinishRun
<1>2. run[w].done \subseteq PlanActions
  BY OthersStand DEF RunTypes
<1>3. ledger' \subseteq Operations \X SUBSET Nat
  BY <1>1, <1>2, OthersStand DEF PlanActions, Digest
<1> QED
  BY <1>1, <1>3, EndRun, OthersStand, StatesChange

LEMMA LoseRunStep ==
    ASSUME MaintenanceInv, NEW w \in Workers, LoseRun(w)
    PROVE  MaintenanceInv'
<1>1. /\ run' = [run EXCEPT ![w] = NoRun] /\ UNCHANGED <<rec, ledger, now>>
      /\ moved' = moved + 1
  BY DEF LoseRun
<1>2. moved' \in Nat
  BY <1>1, OthersStand
<1> QED
  BY <1>1, <1>2, EndRun, OthersStand, StatesChange

LEMMA TransitionStep ==
    ASSUME MaintenanceInv, NEW w \in Workers, NEW a \in run[w].todo, Transition(w, a)
    PROVE  MaintenanceInv'
<1> DEFINE targets == Consumed({a})
           new == IF a.operation = "SUPERSEDE" THEN "SUPERSEDED" ELSE "ARCHIVED"
           allowed == \A r \in targets : <<rec[r].state, new>> \in Governed
           Q == [r \in DOMAIN rec |->
                    IF allowed /\ r \in targets THEN [rec[r] EXCEPT !.state = new] ELSE rec[r]]
<1>1. rec' = Q /\ Reported(w, a, allowed) /\ UNCHANGED <<ledger, now, moved>>
  BY DEF Transition
<1>2. allowed \in BOOLEAN /\ new \in States
  BY DEF States
<1> HIDE DEF allowed, targets, new
<1>3. \A r \in DOMAIN rec : Q[r] \in MemoryRecords /\ Alike(Q[r], rec[r]) /\ Q[r].key = rec[r].key
  <2>1. ASSUME NEW r \in DOMAIN rec
        PROVE  Q[r] \in MemoryRecords /\ Alike(Q[r], rec[r]) /\ Q[r].key = rec[r].key
    <3>1. rec[r] \in MemoryRecords /\ Alike(rec[r], rec[r])
      BY OthersStand
    <3> DEFINE k == [rec[r] EXCEPT !.state = new]
    <3>2. k \in MemoryRecords /\ Alike(k, rec[r]) /\ k.key = rec[r].key
      BY <1>2, <3>1, Restated
    <3>3. Q[r] \in {k, rec[r]}
      OBVIOUS
    <3> HIDE DEF k, Q
    <3> QED
      BY <3>1, <3>2, <3>3
  <2> QED
    BY <2>1
<1>4. Q \in Seq(MemoryRecords) /\ DOMAIN Q = DOMAIN rec
  <2>1. DOMAIN rec = 1..Len(rec) /\ Len(rec) \in Nat
    BY RecordsAre DEF MaintenanceInv
  <2>2. DOMAIN Q = DOMAIN rec /\ Q = [r \in DOMAIN rec |-> Q[r]]
    OBVIOUS
  <2> HIDE DEF Q
  <2> QED
    BY <1>3, <2>1, <2>2
<1> HIDE DEF Q
<1>5. /\ run' \in [Workers -> RunTypes]
      /\ \A u \in Workers : Follows(rec, run[u]) => Follows(rec, run'[u])
  BY <1>1, <1>2, ReportedIs
<1> QED
  BY <1>1, <1>3, <1>4, <1>5, OthersStand, StatesChange

\* The records a step builds from the ones there were
LEMMA Rebuilt ==
    ASSUME MaintenanceInv, NEW Q, Q = [r \in DOMAIN rec |-> Q[r]],
           \A r \in DOMAIN rec : Q[r] \in MemoryRecords
    PROVE  Q \in Seq(MemoryRecords) /\ DOMAIN Q = DOMAIN rec /\ Len(Q) = Len(rec)
<1>1. DOMAIN rec = 1..Len(rec) /\ Len(rec) \in Nat
  BY RecordsAre DEF MaintenanceInv
<1> QED
  BY <1>1

LEMMA ReconcileStep ==
    ASSUME MaintenanceInv, NEW w \in Workers, NEW a \in run[w].todo, Reconcile(w, a)
    PROVE  MaintenanceInv'
<1> DEFINE current == \A r \in a.sources : rec[r].state = "ACTIVE"
           Q == [r \in DOMAIN rec |->
                    IF current /\ r \in a.sources
                    THEN [rec[r] EXCEPT !.conflicts = @ \cup (a.sources \ {r}),
                                        !.links = @ \cup (a.sources \ {r})]
                    ELSE rec[r]]
<1>1. rec' = Q /\ Reported(w, a, current) /\ UNCHANGED <<ledger, now, moved>>
  BY DEF Reconcile
<1>2. current \in BOOLEAN
  OBVIOUS
<1>3. a.sources \in SUBSET Nat
  BY OthersStand DEF RunTypes, PlanActions
<1> HIDE DEF current
<1>4. \A r \in DOMAIN rec : Q[r] \in MemoryRecords /\ Alike(Q[r], rec[r]) /\ Q[r].key = rec[r].key
  <2>1. ASSUME NEW r \in DOMAIN rec
        PROVE  Q[r] \in MemoryRecords /\ Alike(Q[r], rec[r]) /\ Q[r].key = rec[r].key
    <3>1. rec[r] \in MemoryRecords /\ Alike(rec[r], rec[r])
      BY OthersStand
    <3> DEFINE conflicts == rec[r].conflicts \cup (a.sources \ {r})
               links == rec[r].links \cup (a.sources \ {r})
               k == [rec[r] EXCEPT !.conflicts = conflicts, !.links = links]
    <3>2. conflicts \in SUBSET Nat /\ links \in SUBSET Nat
      BY <1>3, <3>1 DEF MemoryRecords
    <3>3. Q[r] \in {k, rec[r]}
      BY <3>1 DEF MemoryRecords
    <3> HIDE DEF conflicts, links
    <3>4. "ACTIVE" \in States
      BY DEF States
    <3>5. k \in MemoryRecords /\ Alike(k, rec[r]) /\ k.key = rec[r].key
      BY <3>1, <3>2, <3>4, Restated
    <3> HIDE DEF k, Q
    <3> QED
      BY <3>1, <3>3, <3>5
  <2> QED
    BY <2>1
<1>5. Q = [r \in DOMAIN rec |-> Q[r]]
  OBVIOUS
<1> HIDE DEF Q
<1>6. Q \in Seq(MemoryRecords) /\ DOMAIN Q = DOMAIN rec
  BY <1>4, <1>5, Rebuilt
<1>7. /\ run' \in [Workers -> RunTypes]
      /\ \A u \in Workers : Follows(rec, run[u]) => Follows(rec, run'[u])
  BY <1>1, <1>2, ReportedIs
<1> QED
  BY <1>1, <1>4, <1>6, <1>7, OthersStand, StatesChange

LEMMA ReviewStep ==
    ASSUME MaintenanceInv, NEW w \in Workers, NEW a \in run[w].todo, NEW opinion \in Opinions,
           Review(w, a, opinion)
    PROVE  MaintenanceInv'
<1> DEFINE r == Max(a.sources)
           outcome == IF run[w].reviews < MaxReviews THEN ApplyPolicy(rec[r], opinion) ELSE "HOLD"
           released == /\ outcome = "RELEASE" /\ ~RequiresHuman(rec[r], opinion)
                       /\ rec[r].state = "QUARANTINED"
           applied == released \/ outcome = "ESCALATE"
<1>1. /\ rec' = IF released THEN [rec EXCEPT ![r].state = "ACTIVE"] ELSE rec
      /\ Reported(w, a, applied) /\ UNCHANGED <<ledger, now, moved>>
  BY DEF Review
<1>2. applied \in BOOLEAN
  OBVIOUS
<1> HIDE DEF r, released, applied, outcome
<1>3. /\ rec' \in Seq(MemoryRecords) /\ DOMAIN rec' = DOMAIN rec
      /\ \A q \in DOMAIN rec : Alike(rec'[q], rec[q]) /\ rec'[q].key = rec[q].key
  <2>1. CASE released /\ r \in DOMAIN rec
    <3> DEFINE k == [rec[r] EXCEPT !.state = "ACTIVE"]
    <3>1. rec[r] \in MemoryRecords /\ "ACTIVE" \in States
      BY <2>1, OthersStand DEF States
    <3>2. k \in MemoryRecords /\ Alike(k, rec[r]) /\ k.key = rec[r].key
      BY <3>1, Restated
    <3>3. rec' = [rec EXCEPT ![r] = k]
      BY <1>1, <2>1
    <3> HIDE DEF k
    <3> QED
      BY <2>1, <3>2, <3>3, OthersStand
  <2>2. CASE ~(released /\ r \in DOMAIN rec)
    <3>1. rec' = rec
      BY <1>1, <2>2, OthersStand
    <3> QED
      BY <3>1, OthersStand
  <2> QED
    BY <2>1, <2>2
<1>4. /\ run' \in [Workers -> RunTypes]
      /\ \A u \in Workers : Follows(rec, run[u]) => Follows(rec, run'[u])
  BY <1>1, <1>2, ReportedIs
<1> QED
  BY <1>1, <1>3, <1>4, OthersStand, StatesChange

\* The interval of a solid set of records: from the first that begins to the last
\* that ends, and every instant between is one a record of it holds at.
LEMMA SolidSpan ==
    ASSUME NEW n \in Nat, NEW R, Intervals(R, n), NEW c, c \subseteq DOMAIN R, c # {},
           Solid(R, c)
    PROVE  /\ Min({R[s].from : s \in c}) \in 0..Forever
           /\ Max({R[s].to : s \in c}) \in 0..Forever
           /\ Spanned(R, c) = Min({R[s].from : s \in c})..(Max({R[s].to : s \in c}) - 1)
<1> DEFINE F == {R[s].from : s \in c}
           T == {R[s].to : s \in c}
           first == Min(F)
           last == Max(T)
<1>1. \A s \in c : R[s].from \in 0..Forever /\ R[s].to \in 0..Forever
  BY DEF Intervals
<1>2. F \subseteq Nat /\ F # {} /\ F \subseteq 0..Forever /\ T \subseteq 0..Forever /\ T # {}
  BY <1>1, ForeverAssumption
<1>3. first \in F /\ \A y \in F : first <= y
  BY <1>2, MinIs
<1>4. last \in T /\ \A y \in T : last >= y
  BY <1>2, MaxIs, ForeverAssumption
<1> HIDE DEF first, last
<1>5. PICK b \in c : first = R[b].from
  BY <1>3
<1>6. PICK e \in c : last = R[e].to
  BY <1>4
<1>7. \A s \in c : first <= R[s].from /\ R[s].to <= last
  <2>1. \A s \in c : R[s].from \in F /\ R[s].to \in T
    OBVIOUS
  <2> QED
    BY <1>1, <1>3, <1>4, <1>6, <2>1, ForeverAssumption
<1>8. first \in 0..Forever /\ last \in 0..Forever
  BY <1>1, <1>5, <1>6
<1>9. ASSUME NEW x PROVE x \in Spanned(R, c) <=> x \in first..(last - 1)
  <2>1. ASSUME x \in Spanned(R, c) PROVE x \in first..(last - 1)
    <3>1. PICK s \in c : x \in R[s].from..(R[s].to - 1)
      BY <2>1 DEF Spanned
    <3> QED
      BY <1>1, <1>7, <1>8, <3>1, ForeverAssumption
  <2>2. ASSUME x \in first..(last - 1) PROVE x \in Spanned(R, c)
    <3>1. x \in Nat /\ R[b].from <= x /\ x < R[e].to
      BY <1>5, <1>6, <1>8, <2>2, ForeverAssumption
    <3>2. PICK s \in c : R[s].from <= x /\ x < R[s].to
      BY <3>1 DEF Solid
    <3>3. x \in R[s].from..(R[s].to - 1)
      BY <1>1, <3>1, <3>2, ForeverAssumption
    <3> QED
      BY <3>3 DEF Spanned
  <2> QED
    BY <2>1, <2>2
<1>10. Spanned(R, c) = first..(last - 1)
  BY <1>9
<1> QED
  BY <1>8, <1>10 DEF first, last

\* The derived record says what the records read said, and carries their names.
LEMMA DerivedIs ==
    ASSUME MaintenanceInv, NEW w \in Workers, NEW a \in run[w].todo,
           a.operation \in Consolidating
    PROVE  LET R == run[w].read
               d == Derived(R, a)
           IN  /\ Outcome(R, a) # "REJECTED" => d \in MemoryRecords
               /\ Grounded(d) /\ d.key = Digest(a)
               /\ a.sources \subseteq DOMAIN rec
               /\ d.from..(d.to - 1) = Spanned(rec, a.sources)
               /\ \A s \in a.sources : rec[s].fact = d.fact /\ rec[s].object = d.object
<1> DEFINE R == run[w].read
           n == Len(rec)
           p == Max(a.sources)
           first == Min({R[s].from : s \in a.sources})
           last == Max({R[s].to : s \in a.sources})
           outcome == Outcome(R, a)
           cited == UNION {R[s].evidence : s \in a.sources}
           d == Derived(R, a)
<1>1. n \in Nat /\ Intervals(R, n) /\ \A r \in DOMAIN R : R[r] \in MemoryRecords
  BY RecordsAre, ReadingIs DEF MaintenanceInv
<1>2. /\ DOMAIN R \subseteq DOMAIN rec /\ \A r \in DOMAIN R : Alike(R[r], rec[r])
      /\ ExactAction(R, a)
  BY DEF MaintenanceInv, Follows
<1>3. /\ a \in PlanActions /\ a.sources \subseteq DOMAIN R /\ a.sources # {}
      /\ Solid(R, a.sources)
      /\ \A s, t \in a.sources : R[s].fact = R[t].fact /\ R[s].object = R[t].object
  BY <1>2, OthersStand DEF ExactAction, RunTypes
<1> HIDE DEF R, n
<1>4. a.sources \subseteq 0..n
  BY <1>1, <1>3 DEF Intervals
<1>5. p \in a.sources
  BY <1>1, <1>3, <1>4, MaxIs
<1>6. /\ first \in 0..Forever /\ last \in 0..Forever
      /\ Spanned(R, a.sources) = first..(last - 1)
  BY <1>1, <1>3, SolidSpan
<1>7. outcome # "REJECTED" => outcome \in States
  BY DEF Outcome, Admitted, States
<1>8. d = [[R[p] EXCEPT !.content = R[p].again.content, !.signs = R[p].again.signs,
                        !.from = first, !.to = last, !.evidence = cited,
                        !.links = a.sources, !.conflicts = {}, !.key = Digest(a)]
              EXCEPT !.state = outcome]
  BY DEF Derived, DerivedRequest
<1>9. Digest(a) \in DerivedKeys /\ a.sources \in SUBSET Nat
  BY <1>3 DEF Digest, DerivedKeys, PlanActions
<1> DEFINE m == R[p]
           k == Digest(a)
<1>10. m \in MemoryRecords
  BY <1>1, <1>3, <1>5
<1>11. d = [[m EXCEPT !.content = m.again.content, !.signs = m.again.signs,
                     !.from = first, !.to = last, !.evidence = cited,
                     !.links = a.sources, !.conflicts = {}, !.key = k]
              EXCEPT !.state = outcome]
  BY <1>8
<1>19. cited \in SUBSET Explicit
  BY <1>1, <1>3 DEF MemoryRecords
<1> HIDE DEF p, first, last, outcome, cited, d, m, k
<1>12. d = [class |-> m.class, content |-> m.again.content, fact |-> m.fact, object |-> m.object,
            from |-> first, to |-> last, consent |-> m.consent, evidence |-> cited,
            signs |-> m.again.signs, again |-> m.again, state |-> outcome,
            links |-> a.sources, conflicts |-> {}, key |-> k]
  BY <1>10, <1>11 DEF MemoryRecords
<1>13. outcome # "REJECTED" => d \in MemoryRecords
  <2>1. k \in DerivedKeys
    BY <1>9 DEF k
  <2>2. m.again.content \in Contents /\ m.again.signs \in SUBSET Signs
    BY <1>10, TopicsAssumption DEF MemoryRecords, Contents, Digests
  <2> QED
    BY <1>6, <1>7, <1>9, <1>10, <1>12, <1>19, <2>1, <2>2 DEF MemoryRecords
<1>14. Grounded(d)
  <2>1. Grounded(rec[p]) /\ Alike(m, rec[p])
    BY <1>2, <1>3, <1>5 DEF MaintenanceInv, SoundRecords, m
  <2> QED
    BY <1>12, <2>1 DEF Grounded, Alike
<1>15. Spanned(R, a.sources) = Spanned(rec, a.sources)
  BY <1>2, <1>3, SpannedAlike DEF Alike
<1>16. d.from..(d.to - 1) = Spanned(rec, a.sources)
  BY <1>6, <1>12, <1>15
<1>17. \A s \in a.sources : rec[s].fact = d.fact /\ rec[s].object = d.object
  BY <1>2, <1>3, <1>5, <1>12 DEF Alike, m
<1>18. d.key = Digest(a) /\ a.sources \subseteq DOMAIN rec
  BY <1>2, <1>3, <1>12 DEF k
<1> QED
  BY <1>13, <1>14, <1>16, <1>17, <1>18 DEF d, outcome, R

LEMMA CommittedKeeps ==
    ASSUME MaintenanceInv, NEW w \in Workers, NEW a \in run[w].todo,
           a.operation \in Consolidating, Committed(w, a),
           Outcome(run[w].read, a) # "REJECTED"
    PROVE  /\ rec' \in Seq(MemoryRecords) /\ Keeps(rec, rec')
           /\ \A r \in DOMAIN rec' \ DOMAIN rec : Grounded(rec'[r]) /\ ExactRecord(rec', r)
<1> DEFINE d == Derived(run[w].read, a)
           Q == [r \in DOMAIN rec |->
                    IF r \in a.sources /\ d.state = "ACTIVE"
                    THEN [rec[r] EXCEPT !.state = "SUPERSEDED"] ELSE rec[r]]
<1>1. rec' = Append(Q, d)
  BY DEF Committed
<1>2. /\ d \in MemoryRecords /\ Grounded(d) /\ d.key = Digest(a)
      /\ a.sources \subseteq DOMAIN rec
      /\ d.from..(d.to - 1) = Spanned(rec, a.sources)
      /\ \A s \in a.sources : rec[s].fact = d.fact /\ rec[s].object = d.object
  BY DerivedIs
<1> HIDE DEF d
<1>3. \A r \in DOMAIN rec : Q[r] \in MemoryRecords /\ Alike(Q[r], rec[r]) /\ Q[r].key = rec[r].key
  <2>1. ASSUME NEW r \in DOMAIN rec
        PROVE  Q[r] \in MemoryRecords /\ Alike(Q[r], rec[r]) /\ Q[r].key = rec[r].key
    <3>1. rec[r] \in MemoryRecords /\ Alike(rec[r], rec[r]) /\ "SUPERSEDED" \in States
      BY OthersStand DEF States
    <3> DEFINE k == [rec[r] EXCEPT !.state = "SUPERSEDED"]
    <3>2. k \in MemoryRecords /\ Alike(k, rec[r]) /\ k.key = rec[r].key
      BY <3>1, Restated
    <3>3. Q[r] \in {k, rec[r]}
      OBVIOUS
    <3> HIDE DEF k, Q
    <3> QED
      BY <3>1, <3>2, <3>3
  <2> QED
    BY <2>1
<1>4. Q = [r \in DOMAIN rec |-> Q[r]]
  OBVIOUS
<1> HIDE DEF Q
<1>5. Q \in Seq(MemoryRecords) /\ DOMAIN Q = DOMAIN rec
  BY <1>3, <1>4, Rebuilt
<1>6. /\ rec' \in Seq(MemoryRecords) /\ DOMAIN rec \subseteq DOMAIN rec'
      /\ \A r \in DOMAIN rec : rec'[r] = Q[r]
      /\ \A r \in DOMAIN rec' \ DOMAIN rec : rec'[r] = d
  BY <1>1, <1>2, <1>5
<1>7. Keeps(rec, rec')
  BY <1>3, <1>6 DEF Keeps
<1>8. ASSUME NEW r \in DOMAIN rec' \ DOMAIN rec PROVE Grounded(rec'[r]) /\ ExactRecord(rec', r)
  <2>1. rec'[r] = d
    BY <1>6
  <2>2. d.key[2] = a.sources
    BY <1>2 DEF Digest
  <2>3. a.sources \subseteq DOMAIN rec' /\ \A s \in a.sources : Alike(rec'[s], rec[s])
    BY <1>2, <1>7 DEF Keeps
  <2>4. Spanned(rec', {r}) = d.from..(d.to - 1)
    BY <2>1 DEF Spanned
  <2>5. Spanned(rec', a.sources) = Spanned(rec, a.sources)
    BY <2>3, SpannedAlike DEF Alike
  <2>6. \A s \in a.sources : rec'[s].fact = d.fact /\ rec'[s].object = d.object
    BY <1>2, <2>3 DEF Alike
  <2>7. ExactRecord(rec', r)
    BY <1>2, <2>1, <2>2, <2>3, <2>4, <2>5, <2>6 DEF ExactRecord
  <2> QED
    BY <1>2, <2>1, <2>7
<1> QED
  BY <1>6, <1>7, <1>8

LEMMA ConsolidateStep ==
    ASSUME MaintenanceInv, NEW w \in Workers, NEW a \in run[w].todo, Consolidate(w, a)
    PROVE  MaintenanceInv'
<1>1. /\ a.operation \in Consolidating
      /\ UNCHANGED <<ledger, now, moved>>
      /\ \/ rec' = rec
         \/ Committed(w, a) /\ Outcome(run[w].read, a) # "REJECTED"
      /\ Reported(w, a, TRUE) \/ Reported(w, a, FALSE)
  BY DEF Consolidate
<1>2. /\ run' \in [Workers -> RunTypes]
      /\ \A u \in Workers : Follows(rec, run[u]) => Follows(rec, run'[u])
  <2>1. CASE Reported(w, a, TRUE)
    BY <2>1, ReportedIs
  <2>2. CASE Reported(w, a, FALSE)
    BY <2>2, ReportedIs
  <2> QED
    BY <1>1, <2>1, <2>2
<1>3. CASE rec' = rec
  BY <1>1, <1>2, <1>3, OthersStand, StatesChange
<1>4. CASE Committed(w, a) /\ Outcome(run[w].read, a) # "REJECTED"
  <2>1. /\ rec' \in Seq(MemoryRecords) /\ Keeps(rec, rec')
        /\ \A r \in DOMAIN rec' \ DOMAIN rec : Grounded(rec'[r]) /\ ExactRecord(rec', r)
    BY <1>1, <1>4, CommittedKeeps
  <2>2. MaintenanceTyped'
    BY <1>1, <1>2, <2>1, OthersStand DEF MaintenanceTyped
  <2> QED
    BY <1>2, <2>1, <2>2, RecordsChange
<1> QED
  BY <1>1, <1>3, <1>4

---------------------------------------------------------------------------
LEMMA MaintenanceStarts == MaintenanceInit => MaintenanceInv
<1>1. ASSUME MaintenanceInit PROVE MaintenanceTyped
  BY <1>1, NoRunFollows DEF MaintenanceInit, MaintenanceTyped
<1>2. ASSUME MaintenanceInit PROVE SoundRecords(rec) /\ \A w \in Workers : Follows(rec, run[w])
  BY <1>2, NoRunFollows DEF MaintenanceInit, SoundRecords
<1> QED
  BY <1>1, <1>2 DEF MaintenanceInv

LEMMA MaintenanceSteps == MaintenanceInv /\ [MaintenanceNext]_maintenanceVars => MaintenanceInv'
<1> SUFFICES ASSUME MaintenanceInv, [MaintenanceNext]_maintenanceVars PROVE MaintenanceInv'
  OBVIOUS
<1>1. CASE UNCHANGED maintenanceVars
  <2>1. rec' = rec /\ ledger' = ledger /\ run' = run /\ now' = now /\ moved' = moved
    BY <1>1 DEF maintenanceVars
  <2> QED
    BY <2>1, OthersStand, StatesChange
<1>2. ASSUME NEW topic \in Topics, NEW o \in topic.says, Observe(topic, o) PROVE MaintenanceInv'
  BY <1>2, ObserveStep
<1>3. ASSUME NEW r \in DOMAIN rec, NEW new \in States, Move(r, new) PROVE MaintenanceInv'
  BY <1>3, MoveStep
<1>4. CASE Tick
  BY <1>4, TickStep
<1>5. ASSUME NEW w \in Workers, Works(w) \/ LoseRun(w) PROVE MaintenanceInv'
  <2>1. CASE StartRun(w) \/ FinishRun(w) \/ LoseRun(w)
    BY <2>1, StartRunStep, FinishRunStep, LoseRunStep
  <2>2. ASSUME NEW a \in run[w].todo,
               Consolidate(w, a) \/ Transition(w, a) \/ Reconcile(w, a)
        PROVE  MaintenanceInv'
    BY <2>2, ConsolidateStep, TransitionStep, ReconcileStep
  <2>3. ASSUME NEW a \in run[w].todo, NEW opinion \in Opinions, Review(w, a, opinion)
        PROVE  MaintenanceInv'
    BY <2>3, ReviewStep
  <2> QED
    BY <1>5, <2>1, <2>2, <2>3 DEF Works
<1> QED
  BY <1>1, <1>2, <1>3, <1>4, <1>5 DEF MaintenanceNext

LEMMA MaintenanceInvariance == MaintenanceSpec => []MaintenanceInv
<1> QED
  BY MaintenanceStarts, MaintenanceSteps, PTL DEF MaintenanceSpec

\* Every variable of the maintenance job holds a value of the kind the code keeps
\* there: a reading maps numbers of records to records, a plan is of known operations.
THEOREM MaintenanceTypeCorrect == MaintenanceSpec => []MaintenanceTyped
<1>1. MaintenanceInv => MaintenanceTyped
  BY DEF MaintenanceInv
<1> QED
  BY <1>1, MaintenanceInvariance, PTL

\* A derived memory (_derived_request) is valid at exactly the instants one of its
\* sources was, and asserts what they assert, whatever reading it was planned from
\* and whatever happened to the sources before it was committed.
THEOREM ConsolidationsAreExact == MaintenanceSpec => []ConsolidationIsExact
<1>1. MaintenanceInv => ConsolidationIsExact
  BY DEF MaintenanceInv, SoundRecords, ExactRecord, ConsolidationIsExact, Covered, Spanned
<1> QED
  BY <1>1, MaintenanceInvariance, PTL
=============================================================================
