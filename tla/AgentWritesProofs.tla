-------------------------- MODULE AgentWritesProofs -------------------------
(***************************************************************************)
(* Proofs about the doors to memory for agents: GovernedWrite (the write   *)
(* path of an agent's session), then RemoteCommand (the agent CLI and its  *)
(* signed remote commands).                                                *)
(***************************************************************************)
EXTENDS GovernedWrite, RemoteCommand, TLAPS

---------------------------------------------------------------------------
(***************************************************************************)
(* Proofs about GovernedWrite, for every set of callers, tasks and records *)
(* and for both kinds of store.                                            *)
(*                                                                         *)
(* AuthorityIsGranted is not inductive: it needs to know where the lock a  *)
(* verification holds came from.  IInv adds that every granted lock, saved *)
(* or read, is one of the grants, that a caller saves only locks of its    *)
(* own, and that nobody intrudes while nobody is committing.               *)
(***************************************************************************)
IsGranted(l, t) == l.granted => <<l.owner, t, l.snapshot>> \in grants

Provenance ==
    /\ \A t \in Tasks : IsGranted(lock[t], t)
    /\ \A c \in Callers :
          /\ op[c].at = "locking" => op[c].lock.owner = c
          /\ op[c].at = "verifying" => IsGranted(op[c].lock, op[c].task)
    /\ holder = NoCaller => intruded = {}

IInv == TypeOK /\ OnlyOthersIntrude /\ AuthorityIsGranted /\ Provenance

\* A lock is put together from an owner, a verdict and the ACTIVE records.
LEMMA LockType ==
    ASSUME NEW c \in Callers \cup {NoCaller}, NEW g \in BOOLEAN, NEW S \in SUBSET Records,
           NEW b \in BOOLEAN
    PROVE  [owner |-> c, granted |-> g, snapshot |-> S, live |-> b] \in Locks
BY DEF Locks

\* The idle operation is an operation.
LEMMA IdleType == Idle \in Ops /\ Idle.at = "idle"
<1>1. (CHOOSE s \in Tasks : TRUE) \in Tasks
  BY TasksAssumption
<1>2. NoLock \in Locks
  BY DEF NoLock, Locks
<1> QED
  BY <1>1, <1>2 DEF Idle, Ops

\* The invariant holds initially.
LEMMA InitInv == Init => IInv
<1> SUFFICES ASSUME Init PROVE IInv
  OBVIOUS
<1>1. NoLock \in Locks /\ NoLock.granted = FALSE
  BY DEF NoLock, Locks
<1>2. NoCaller \notin Callers
  BY AdminsAssumption
<1> QED
  BY <1>1, <1>2, IdleType
  DEF Init, IInv, TypeOK, OnlyOthersIntrude, AuthorityIsGranted, Provenance, IsGranted, States, Pairs

\* What a write stores is well typed.
LEMMA WrittenType ==
    ASSUME TypeOK, NEW r \in Records, NEW new \in {"ACTIVE", "QUARANTINED"}, NEW S
    PROVE  Written(r, new, S) \in [Records -> States]
BY DEF Written, TypeOK, States

Authority(c, t, S) == \E p \in MayUse(c) : <<p, t, S>> \in grants

\* A step that only moves caller c, which is not committing, to operation v.
LEMMA OpStep ==
    ASSUME IInv, NEW c \in Callers, NEW v \in Ops,
           op' = [op EXCEPT ![c] = v], op[c].at # "verified",
           UNCHANGED <<state, linked, linking, lock, holder, intruded, grants, moves>>,
           v.at = "locking" => v.lock.owner = c,
           v.at = "verifying" => IsGranted(v.lock, v.task),
           v.at = "verified" => Authority(c, v.task, v.lock.snapshot)
    PROVE  IInv'
<1> USE DEF IInv
<1>1. holder # c
  BY DEF OnlyOthersIntrude
<1>2. TypeOK'
  BY DEF TypeOK
<1>3. op'[c] = v /\ \A d \in Callers \ {c} : op'[d] = op[d]
  BY DEF TypeOK
<1>4. OnlyOthersIntrude'
  BY <1>1, <1>3 DEF OnlyOthersIntrude, Active
<1>5. AuthorityIsGranted'
  <2> SUFFICES ASSUME NEW d \in Callers, op'[d].at = "verified"
               PROVE  Authority(d, op'[d].task, op'[d].lock.snapshot)
    BY DEF AuthorityIsGranted, Authority
  <2>1. CASE d = c
    BY <1>3, <2>1
  <2>2. CASE d # c
    BY <1>3, <2>2 DEF AuthorityIsGranted, Authority
  <2> QED
    BY <2>1, <2>2
<1>6. Provenance'
  BY <1>3 DEF Provenance, IsGranted
<1> QED
  BY <1>2, <1>4, <1>5, <1>6

\* A caller starts by reading: a report for a lock of its own, or a saved lock.
LEMMA ReadSteps ==
    ASSUME IInv, NEW c \in Callers, NEW t \in Tasks, StartLock(c, t) \/ ReadLock(c, t)
    PROVE  IInv'
<1>1. op[c].at = "idle"
  BY IdleType DEF StartLock, ReadLock
<1>2. CASE StartLock(c, t)
  <2> DEFINE l == [owner |-> c, granted |-> ~HasConflicts, snapshot |-> Active, live |-> TRUE]
             v == [at |-> "locking", task |-> t, lock |-> l]
  <2>1. l \in Locks /\ l.owner = c
    BY LockType DEF Active, HasConflicts
  <2>2. op' = [op EXCEPT ![c] = v]
    BY <1>2 DEF StartLock
  <2> HIDE DEF l
  <2>3. v \in Ops /\ v.at = "locking" /\ v.lock.owner = c
    BY <2>1 DEF Ops
  <2> HIDE DEF v
  <2> QED
    BY <1>1, <1>2, <2>2, <2>3, OpStep DEF StartLock
<1>3. CASE ReadLock(c, t)
  <2> DEFINE v == [at |-> "verifying", task |-> t, lock |-> lock[t]]
  <2>1. op' = [op EXCEPT ![c] = v]
    BY <1>3 DEF ReadLock
  <2>2. v \in Ops /\ v.at = "verifying" /\ IsGranted(v.lock, v.task)
    BY DEF IInv, TypeOK, Ops, Provenance
  <2> HIDE DEF v
  <2> QED
    BY <1>1, <1>3, <2>1, <2>2, OpStep DEF ReadLock
<1> QED
  BY <1>2, <1>3

\* phase_lock saves the lock under the caller's own name.
LEMMA SaveStep ==
    ASSUME IInv, NEW c \in Callers, SaveLock(c)
    PROVE  IInv'
<1> USE DEF IInv, Provenance, IsGranted
<1>1. op[c] \in Ops /\ op[c].lock \in Locks /\ op[c].task \in Tasks /\ op[c].lock.owner = c
  BY DEF SaveLock, TypeOK, Ops
<1>2. grants \subseteq grants' /\ (op[c].lock.granted => <<c, op[c].task, op[c].lock.snapshot>> \in grants')
  BY DEF SaveLock
<1>3. TypeOK'
  BY <1>1, IdleType DEF SaveLock, TypeOK, Locks
<1>4. OnlyOthersIntrude'
  BY <1>1, IdleType DEF SaveLock, TypeOK, OnlyOthersIntrude, Active
<1>5. AuthorityIsGranted'
  BY <1>2, IdleType DEF SaveLock, TypeOK, AuthorityIsGranted, MayUse
<1>6. Provenance'
  BY <1>1, <1>2, IdleType DEF SaveLock, TypeOK
<1> QED
  BY <1>3, <1>4, <1>5, <1>6

\* A lock that expires keeps its owner, its verdict and its snapshot.
LEMMA ExpireStep ==
    ASSUME IInv, NEW t \in Tasks, ExpireLock(t)
    PROVE  IInv'
<1>1. lock[t] \in Locks
  BY DEF IInv, TypeOK
<1>2. [lock[t] EXCEPT !.live = FALSE] \in Locks
  BY <1>1 DEF Locks
<1>3. /\ lock' = [lock EXCEPT ![t] = [lock[t] EXCEPT !.live = FALSE]]
      /\ UNCHANGED <<state, linked, linking, op, holder, intruded, grants, moves>>
  BY DEF ExpireLock
<1>4. TypeOK'
  BY <1>2, <1>3 DEF IInv, TypeOK
<1>5. Provenance'
  BY <1>1, <1>3 DEF IInv, Provenance, IsGranted, TypeOK, Locks
<1> QED
  BY <1>3, <1>4, <1>5 DEF IInv, OnlyOthersIntrude, AuthorityIsGranted, Active

\* A verification grants nothing the lock it read did not.
LEMMA VerifyStep ==
    ASSUME IInv, NEW c \in Callers, Verify(c)
    PROVE  IInv'
<1>1. op[c] \in Ops /\ op[c].at = "verifying" /\ IsGranted(op[c].lock, op[c].task)
  BY DEF Verify, IInv, TypeOK, Provenance
<1>2. CASE Authorises(c, op[c].lock)
  <2> DEFINE v == [op[c] EXCEPT !.at = "verified"]
  <2>1. op' = [op EXCEPT ![c] = v]
    BY <1>2 DEF Verify
  <2>2. v \in Ops /\ v.at = "verified" /\ v.task = op[c].task /\ v.lock = op[c].lock
    BY <1>1 DEF Ops
  <2>3. <<op[c].lock.owner, op[c].task, op[c].lock.snapshot>> \in grants
    BY <1>1, <1>2 DEF Authorises, IsGranted
  <2>4. op[c].lock.owner \in MayUse(c)
    BY <1>2, <2>3 DEF Authorises, MayUse, IInv, TypeOK
  <2>5. Authority(c, v.task, v.lock.snapshot)
    BY <2>2, <2>3, <2>4 DEF Authority
  <2> HIDE DEF v
  <2> QED
    BY <1>1, <2>1, <2>2, <2>5, OpStep DEF Verify
<1>3. CASE ~Authorises(c, op[c].lock)
  BY <1>1, <1>3, IdleType, OpStep DEF Verify
<1> QED
  BY <1>2, <1>3

\* The committing transaction of a governed write.
LEMMA CommitSteps ==
    ASSUME IInv, NEW c \in Callers, EnterCommit(c) \/ GiveUp(c) \/ CommitGoverned(c)
    PROVE  IInv'
<1> USE DEF IInv, Provenance, IsGranted
<1>1. CASE EnterCommit(c)
  BY <1>1, AdminsAssumption
  DEF EnterCommit, SnapshotStands, TypeOK, OnlyOthersIntrude, AuthorityIsGranted, Active
<1>2. CASE GiveUp(c)
  BY <1>2, IdleType, AdminsAssumption
  DEF GiveUp, TypeOK, OnlyOthersIntrude, AuthorityIsGranted, Active, MayUse
<1>3. CASE CommitGoverned(c)
  <2>1. state' \in [Records -> States]
    BY <1>3, WrittenType DEF CommitGoverned
  <2> QED
    BY <1>3, <2>1, IdleType, AdminsAssumption
    DEF CommitGoverned, TypeOK, OnlyOthersIntrude, AuthorityIsGranted, MayUse
<1> QED
  BY <1>1, <1>2, <1>3

\* Callers without a lock change the namespace under a governed writer only
\* where the store lets them, and leave their mark when they do.
LEMMA OtherStep ==
    ASSUME IInv, NEW new \in [Records -> States], OtherCommit(new)
    PROVE  IInv'
<1> USE DEF IInv, Provenance, IsGranted
<1>1. TypeOK'
  BY DEF OtherCommit, TypeOK
<1>2. ASSUME NEW c \in Callers, holder = c
      PROVE  Active' \ intruded' = op[c].lock.snapshot \ intruded'
  <2>1. Active \ intruded = op[c].lock.snapshot \ intruded /\ op[c].lock.snapshot \subseteq Records
    BY <1>2 DEF OnlyOthersIntrude, TypeOK, Ops, Locks
  <2>2. intruded' = intruded \cup {r \in Records : new[r] # state[r]} /\ state' = new
    BY <1>2, AdminsAssumption DEF OtherCommit
  <2>3. \A r \in Records \ intruded' : state'[r] = state[r]
    BY <2>2
  <2> QED
    BY <2>1, <2>2, <2>3 DEF Active
<1> QED
  BY <1>1, <1>2 DEF OtherCommit, OnlyOthersIntrude, AuthorityIsGranted

\* Every step keeps the invariant.
LEMMA NextInv == IInv /\ [Next]_vars => IInv'
<1> SUFFICES ASSUME IInv, [Next]_vars PROVE IInv'
  OBVIOUS
<1>1. CASE UNCHANGED vars
  BY <1>1 DEF vars, IInv, TypeOK, OnlyOthersIntrude, AuthorityIsGranted, Provenance, IsGranted, Active
<1>2. CASE \E c \in Callers, t \in Tasks : StartLock(c, t) \/ ReadLock(c, t)
  BY <1>2, ReadSteps
<1>3. CASE \E c \in Callers :
              SaveLock(c) \/ Verify(c) \/ EnterCommit(c) \/ GiveUp(c) \/ CommitGoverned(c)
  BY <1>3, SaveStep, VerifyStep, CommitSteps
<1>4. CASE \E t \in Tasks : ExpireLock(t)
  BY <1>4, ExpireStep
<1>5. CASE (\E p \in Pairs : CheckLinks(p)) \/ CommitLinks
  BY <1>5 DEF CheckLinks, CommitLinks, IInv, TypeOK, OnlyOthersIntrude, AuthorityIsGranted,
              Provenance, IsGranted, Active
<1>6. CASE OtherWrite
  BY <1>6, OtherStep, WrittenType DEF OtherWrite, IInv
<1>7. CASE OtherMove
  <2>1. PICK r \in Records : OtherCommit([state EXCEPT ![r] = "ARCHIVED"])
                             \/ OtherCommit([state EXCEPT ![r] = "ACTIVE"])
    BY <1>7 DEF OtherMove
  <2>2. \A s \in {"ARCHIVED", "ACTIVE"} : [state EXCEPT ![r] = s] \in [Records -> States]
    BY DEF IInv, TypeOK, States
  <2> QED
    BY <2>1, <2>2, OtherStep
<1> QED
  BY <1>1, <1>2, <1>3, <1>4, <1>5, <1>6, <1>7 DEF Next

\* The strengthened invariant holds in every reachable state.
LEMMA Inductive == Spec => []IInv
BY InitInv, NextInv, PTL DEF Spec

\* Every reachable state is well typed.
THEOREM TypeCorrect == Spec => []TypeOK
BY Inductive, PTL DEF IInv

\* A governed writer commits over the snapshot of its lock, but for what callers
\* without a lock move under it; where one transaction writes at a time they
\* move nothing.
THEOREM GovernedOverSnapshot == Spec => []OnlyOthersIntrude
BY Inductive, PTL DEF IInv

\* No governed write rests on another caller's grant, unless by an administrator.
THEOREM AuthorityNeverBorrowed == Spec => []AuthorityIsGranted
BY Inductive, PTL DEF IInv

---------------------------------------------------------------------------
(***************************************************************************)
(* Proofs about RemoteCommand, for any agents, keys, deployments, commands *)
(* and restarts.                                                           *)
(*                                                                         *)
(* Account follows the one request a command may have under way, from the  *)
(* wire over the tool pool to the store and back: there is never a second  *)
(* (OneRequest), none is left where the client has been refused (Underway),*)
(* and an answer on the wire is true of a store that only grows            *)
(* (AnswerIsTrue).  Signed follows the principal from the header to the    *)
(* record.                                                                 *)
(***************************************************************************)
Ids   == [call : Nat, attempt : {0, 1, 2}]
Codes == Statuses \cup {"401", "400", "-32601", "-32602", "AuthorizationError", "StoreError"}

CallTypes ==
    [phase : {"idle", "connecting", "sending", "waiting", "done"}, attempt : {1, 2},
     provider : BOOLEAN, holds : Credentials \cup {NoCredentials}, ask : Operations \cup {NoAsk},
     kind : Kinds, exit : {0, 1, 2, 3}, named : Ids]

\* What a command that ends with it has not done
Denials == Refusals \cup {"REJECTED"}

Typed ==
    /\ now \in Nat
    /\ conf \in Deployments /\ MayStart(conf)
    /\ wallet \in Credentials
    /\ call \in [Calls -> CallTypes]
    /\ \A n \in Calls :
          /\ call[n].phase # "done" => call[n].kind = "none"
          /\ call[n].phase \notin {"idle", "done"} =>
                call[n].ask \in Operations /\ call[n].ask.op \in Remote
    /\ \A r \in flight : r.call \in Calls /\ r.attempt \in {1, 2}
    /\ \A e \in pool : e.request.call \in Calls /\ e.request.attempt \in {1, 2}
    /\ \A a \in answers : a.call \in Calls /\ a.code \in Codes /\ a.named \in Ids
    /\ \A s \in store : s.id \in Ids

\* A request of command n is on the wire or in the pool; a record of n is stored.
Sent(n)     == (\E r \in flight : r.call = n) \/ (\E e \in pool : e.request.call = n)
Kept(n)     == \E s \in store : s.id.call = n
Answered(n) == \E a \in answers : a.call = n

\* A command has one request under way.
OneRequest ==
    /\ \A r, s \in flight : r.call = s.call => r = s
    /\ \A e, f \in pool : e.request.call = f.request.call => e = f
    /\ \A r \in flight, e \in pool : r.call # e.request.call
    /\ \A a, b \in answers : a.call = b.call => a = b

\* It is under way while nothing is answered or stored, of a command that was sent
\* and has not been refused.
Underway(n) ==
    /\ Sent(n) => ~Kept(n) /\ ~Answered(n)
    /\ Sent(n) \/ Kept(n) => call[n].phase \in {"waiting", "done"} /\ call[n].kind \notin Denials

OneRecord ==
    /\ \A r, s \in store : r.id.call = s.id.call => r = s
    /\ \A r, s \in store : r.keyed /\ s.keyed /\ r.namespace = s.namespace => r = s

\* What a command may be told, given the records S: an exit code of 0 after a write or
\* a close, and a name, are those of a record.
Truthful(ask, exit, named, S) ==
    /\ exit = 0 /\ (ask.op = "close" \/ (ask.op = "write" /\ ~ask.dry)) => \E r \in S : r.id = named
    /\ named # NoId /\ ~ask.dry =>
          \E r \in S : r.id = named /\ (ask.keyed => r.keyed /\ r.namespace = ask.namespace)

\* An answer that says so
Undone(code) == code \notin Statuses \cup {"StoreError"} \/ code = "REJECTED"

AnswerIsTrue(a) ==
    /\ call[a.call].phase = "waiting"
    /\ Undone(a.code) => ~Kept(a.call)
    /\ a.code \in Statuses => Truthful(call[a.call].ask, ExitOf(call[a.call].ask, a.code), a.named, store)

DoneIsTrue(n) ==
    call[n].phase = "done" => Truthful(call[n].ask, call[n].exit, call[n].named, store)

\* A principal in the pool is the agent whose key signed the request, or the local
\* operator, and none is an administrator; so are those that records name.
SignedBy(principal, key) ==
    /\ ~principal.admin
    /\ principal.agent # Local => principal.agent = Owner[key]

Account ==
    /\ OneRequest
    /\ \A n \in Calls : Underway(n) /\ DoneIsTrue(n)
    /\ \A a \in answers : AnswerIsTrue(a)
    /\ OneRecord

Signed ==
    /\ \A e \in pool : SignedBy(e.principal, e.request.cred.key)
    /\ \A s \in store : SignedBy(s.by, s.key)

CommandInv == Typed /\ Account /\ Signed

---------------------------------------------------------------------------
\* What is stored stays, and stays named.
LEMMA TruthfulGrows ==
    ASSUME NEW ask, NEW exit, NEW named, NEW S, NEW T, S \subseteq T, Truthful(ask, exit, named, S)
    PROVE  Truthful(ask, exit, named, T)
BY DEF Truthful

\* A client's step about command n: it leaves the service alone, takes away the
\* answers it has seen, and calls nothing refused or unsent that is under way.
LEMMA CallMoves ==
    ASSUME CommandInv, NEW n \in Calls, NEW e \in CallTypes, call' = [call EXCEPT ![n] = e],
           UNCHANGED <<now, conf, wallet, flight, pool, store>>,
           answers' \subseteq answers, \A a \in answers' : a.call # n,
           e.phase \notin {"waiting", "done"} \/ e.kind \in Denials => ~Sent(n) /\ ~Kept(n),
           e.phase = "done" => Truthful(e.ask, e.exit, e.named, store),
           e.phase # "done" => e.kind = "none",
           e.phase \notin {"idle", "done"} => e.ask \in Operations /\ e.ask.op \in Remote
    PROVE  CommandInv'
<1>1. call'[n] = e /\ \A m \in Calls : m # n => call'[m] = call[m]
  BY DEF CommandInv, Typed
<1>2. call' \in [Calls -> CallTypes]
  BY DEF CommandInv, Typed
<1>3. \A m \in Calls :
         /\ call'[m].phase # "done" => call'[m].kind = "none"
         /\ call'[m].phase \notin {"idle", "done"} =>
               call'[m].ask \in Operations /\ call'[m].ask.op \in Remote
  BY <1>1 DEF CommandInv, Typed
<1>4. Typed'
  BY <1>2, <1>3 DEF CommandInv, Typed
<1>5. OneRequest' /\ OneRecord' /\ Signed'
  BY DEF CommandInv, Account, OneRequest, OneRecord, Signed
<1>6. ASSUME NEW m \in Calls PROVE Underway(m)' /\ DoneIsTrue(m)'
  <2>1. (Sent(m) <=> Sent(m)') /\ (Kept(m) <=> Kept(m)')
    BY DEF Sent, Kept
  <2>2. Answered(m)' => Answered(m)
    BY DEF Answered
  <2>3. Underway(m) /\ DoneIsTrue(m)
    BY DEF CommandInv, Account
  <2>4. CASE m = n
    BY <1>1, <2>1, <2>2, <2>3, <2>4 DEF Underway, DoneIsTrue
  <2>5. CASE m # n
    BY <1>1, <2>1, <2>2, <2>3, <2>5 DEF Underway, DoneIsTrue
  <2> QED
    BY <2>4, <2>5
<1>7. ASSUME NEW a \in answers' PROVE AnswerIsTrue(a)'
  <2>1. a \in answers /\ a.call \in Calls /\ a.call # n
    BY DEF CommandInv, Typed
  <2>2. AnswerIsTrue(a) /\ call'[a.call] = call[a.call]
    BY <1>1, <2>1 DEF CommandInv, Account
  <2> QED
    BY <2>2 DEF AnswerIsTrue, Kept
<1> QED
  BY <1>4, <1>5, <1>6, <1>7 DEF CommandInv, Account

\* Before it is sent, and once it is answered with a refusal, nothing of a command is
\* under way.
LEMMA NotSent ==
    ASSUME CommandInv, NEW n \in Calls, call[n].phase \notin {"waiting", "done"}
    PROVE  /\ ~Sent(n) /\ ~Kept(n)
           /\ \A a \in answers : a.call # n
BY DEF CommandInv, Account, Underway, AnswerIsTrue

LEMMA NotDone ==
    ASSUME CommandInv, NEW a \in answers, Undone(a.code)
    PROVE  ~Sent(a.call) /\ ~Kept(a.call)
BY DEF CommandInv, Typed, Account, Underway, AnswerIsTrue, Answered

LEMMA UnmadeType ==
    /\ Unmade \in CallTypes
    /\ Unmade.phase = "idle" /\ Unmade.kind = "none"
BY DEF Unmade, CallTypes, Kinds, NoId, Ids

LEMMA DoneInv ==
    ASSUME CommandInv, NEW n \in Calls, NEW kind \in Kinds, NEW exit \in {0, 1, 2, 3}, NEW named \in Ids,
           Done(n, kind, exit, named), UNCHANGED <<now, conf, wallet, flight, pool, store>>,
           kind \in Denials => ~Sent(n) /\ ~Kept(n),
           Truthful(call[n].ask, exit, named, store)
    PROVE  CommandInv'
<1> DEFINE e == [Unmade EXCEPT !.phase = "done", !.ask = call[n].ask, !.kind = kind, !.exit = exit,
                               !.named = named]
<1>1. call[n].ask \in Operations \cup {NoAsk}
  BY DEF CommandInv, Typed, CallTypes
<1>2. /\ e.phase = "done" /\ e.ask = call[n].ask /\ e.kind = kind /\ e.exit = exit
      /\ e.named = named
  BY DEF Unmade
<1>4. e \in CallTypes
  BY <1>1, UnmadeType DEF CallTypes
<1>5. call' = [call EXCEPT ![n] = e] /\ answers' = {a \in answers : a.call # n}
  BY DEF Done
<1> HIDE DEF e
<1> QED
  BY <1>2, <1>4, <1>5, CallMoves

LEMMA FailsInv ==
    ASSUME CommandInv, NEW n \in Calls, NEW kind \in Kinds, Fails(n, kind),
           UNCHANGED <<now, conf, wallet, flight, pool, store>>,
           kind \in Denials => ~Sent(n) /\ ~Kept(n)
    PROVE  CommandInv'
<1>1. NoId \in Ids
  BY DEF NoId, Ids
<1>2. Truthful(call[n].ask, 1, NoId, store)
  BY DEF Truthful
<1> QED
  BY <1>1, <1>2, DoneInv DEF Fails

---------------------------------------------------------------------------
LEMMA LaunchInv ==
    ASSUME CommandInv, NEW n \in Calls, NEW ask \in Operations, NEW provider \in BOOLEAN,
           Launch(n, ask, provider)
    PROVE  CommandInv'
<1> DEFINE e == [Unmade EXCEPT !.phase = IF provider /\ bound THEN "sending" ELSE "connecting",
                               !.ask = ask, !.provider = provider,
                               !.holds = IF provider THEN NoCredentials ELSE wallet]
<1>1. wallet \in Credentials
  BY DEF CommandInv, Typed
<1>2. e \in CallTypes
  BY <1>1, UnmadeType DEF CallTypes
<1>3. e.phase \in {"sending", "connecting"} /\ e.ask = ask /\ e.kind = "none"
  BY UnmadeType DEF Unmade
<1>4. call' = [call EXCEPT ![n] = e]
  BY DEF Launch
<1>5. ask.op \in Remote
  BY DEF Launch
<1>6. /\ ~Sent(n) /\ ~Kept(n) /\ \A a \in answers : a.call # n
  BY NotSent DEF Launch, Due
<1>7. UNCHANGED <<now, conf, wallet, flight, pool, store, answers>>
  BY DEF Launch, serverVars
<1> HIDE DEF e
<1> QED
  BY <1>2, <1>3, <1>4, <1>5, <1>6, <1>7, CallMoves

\* The refusals a client makes of its own: nothing has been sent.
LEMMA FailsUnsent ==
    ASSUME CommandInv, NEW n \in Calls, NEW kind \in Kinds, Fails(n, kind),
           call[n].phase \notin {"waiting", "done"},
           UNCHANGED <<now, wallet, bound, flight, serverVars>>
    PROVE  CommandInv'
BY NotSent, FailsInv DEF serverVars

LEMMA RefuseLaunchInv ==
    ASSUME CommandInv, NEW n \in Calls, NEW ask, RefuseLaunch(n, ask)
    PROVE  CommandInv'
BY FailsUnsent DEF RefuseLaunch, Due, Kinds, Refusals

LEMMA RefuseSendInv ==
    ASSUME CommandInv, NEW n \in Calls, RefuseSend(n)
    PROVE  CommandInv'
BY FailsUnsent DEF RefuseSend, Kinds, Refusals

LEMMA ConnectFailsInv ==
    ASSUME CommandInv, NEW n \in Calls, ConnectFails(n)
    PROVE  CommandInv'
<1>1. PICK kind \in {"unreachable", "timeout", "protocol", "authentication",
                   "contract_mismatch"} : Fails(n, kind)
  BY DEF ConnectFails
<1> QED
  BY <1>1, FailsUnsent DEF ConnectFails, Kinds, Refusals

LEMMA ConnectInv ==
    ASSUME CommandInv, NEW n \in Calls, Connect(n)
    PROVE  CommandInv'
<1> DEFINE old == call[n]
           e == [old EXCEPT !.phase = "sending"]
<1>1. old \in CallTypes /\ old.phase = "connecting" /\ old.kind = "none"
      /\ old.ask \in Operations /\ old.ask.op \in Remote
  BY DEF CommandInv, Typed, Connect
<1>2. e \in CallTypes /\ e.phase = "sending" /\ e.ask = old.ask /\ e.kind = "none"
  BY <1>1 DEF CallTypes
<1>3. call' = [call EXCEPT ![n] = e]
  BY DEF Connect, CommandInv, Typed
<1>4. ~Sent(n) /\ ~Kept(n) /\ \A a \in answers : a.call # n
  BY NotSent DEF Connect
<1>5. UNCHANGED <<now, conf, wallet, flight, pool, store, answers>>
  BY DEF Connect, serverVars
<1> HIDE DEF e
<1> QED
  BY <1>1, <1>2, <1>3, <1>4, <1>5, CallMoves

LEMMA RetryInv ==
    ASSUME CommandInv, NEW n \in Calls, NEW a \in answers, Retry(n, a)
    PROVE  CommandInv'
<1> DEFINE old == call[n]
           e == [old EXCEPT !.phase = "sending", !.attempt = 2]
<1>1. old \in CallTypes /\ old.phase = "waiting" /\ old.kind = "none"
      /\ old.ask \in Operations /\ old.ask.op \in Remote
  BY DEF CommandInv, Typed, Retry, Waits
<1>2. e \in CallTypes /\ e.phase = "sending" /\ e.ask = old.ask /\ e.kind = "none"
  BY <1>1 DEF CallTypes
<1>3. call' = [call EXCEPT ![n] = e]
  BY DEF Retry, CommandInv, Typed
<1>4. a.call = n /\ a.code = "401"
  BY DEF Retry, Retryable
<1>5. ~Sent(n) /\ ~Kept(n)
  BY <1>4, NotDone DEF Undone, Statuses
<1>6. answers' \subseteq answers /\ \A b \in answers' : b.call # n
  BY <1>4 DEF Retry, CommandInv, Account, OneRequest
<1>7. UNCHANGED <<now, conf, wallet, flight, pool, store>>
  BY DEF Retry, serverVars
<1> HIDE DEF e
<1> QED
  BY <1>1, <1>2, <1>3, <1>5, <1>6, <1>7, CallMoves

LEMMA FailInv ==
    ASSUME CommandInv, NEW n \in Calls, NEW a \in answers, Fail(n, a)
    PROVE  CommandInv'
<1>1. a.call = n /\ a.code \in Codes /\ a.code \notin Statuses /\ Fails(n, KindOf(a.code))
  BY DEF Fail, CommandInv, Typed
<1>2. /\ KindOf(a.code) \in Kinds
      /\ a.code = "StoreError" => KindOf(a.code) \notin Denials
  BY <1>1 DEF Codes, KindOf, Kinds, Refusals, Denials
<1>3. KindOf(a.code) \in Denials => ~Sent(n) /\ ~Kept(n)
  BY <1>1, <1>2, NotDone DEF Undone
<1> QED
  BY <1>1, <1>2, <1>3, FailsInv DEF Fail, serverVars

LEMMA FinishInv ==
    ASSUME CommandInv, NEW n \in Calls, NEW a \in answers, Finish(n, a)
    PROVE  CommandInv'
<1> DEFINE exit == ExitOf(call[n].ask, a.code)
<1>1. a.call = n /\ a.code \in Statuses /\ Done(n, a.code, exit, a.named) /\ a.named \in Ids
  BY DEF Finish, CommandInv, Typed
<1>2. call[n].ask.op \in Remote
  BY DEF Finish, Waits, CommandInv, Typed
<1>3. exit \in {0, 1, 2, 3}
  BY <1>2 DEF Remote, Reads, Writes, ExitOf, WriteExit, CloseExit, SearchExit, GetExit
<1>4. a.code \in Kinds /\ (a.code \in Denials => a.code = "REJECTED")
  BY <1>1 DEF Kinds, Statuses, Refusals, Denials
<1>5. Truthful(call[n].ask, exit, a.named, store)
  BY <1>1 DEF CommandInv, Account, AnswerIsTrue
<1>6. a.code \in Denials => ~Sent(n) /\ ~Kept(n)
  BY <1>1, <1>4, NotDone DEF Undone
<1> HIDE DEF exit
<1> QED
  BY <1>1, <1>3, <1>4, <1>5, <1>6, DoneInv DEF Finish, serverVars

LEMMA GivesUpInv ==
    ASSUME CommandInv, NEW n \in Calls, TimesOut(n) \/ Unreachable(n)
    PROVE  CommandInv'
<1>1. PICK kind \in {"timeout", "unreachable"} : Fails(n, kind)
  BY DEF TimesOut, Unreachable
<1>2. kind \in Kinds /\ kind \notin Denials
  BY DEF Kinds, Refusals, Denials, Statuses
<1> QED
  BY <1>1, <1>2, FailsInv DEF TimesOut, Unreachable, serverVars

LEMMA NoneRefused == "none" \notin Denials
BY DEF Refusals, Denials

\* One request more: of a command nothing of which is under way.
LEMMA SendInv ==
    ASSUME CommandInv, NEW n \in Calls, Send(n)
    PROVE  CommandInv'
<1> DEFINE old == call[n]
           e == [old EXCEPT !.phase = "waiting"]
           new == Request(n)
<1>1. old \in CallTypes /\ old.phase = "sending" /\ old.kind = "none"
      /\ old.ask \in Operations /\ old.ask.op \in Remote
  BY DEF CommandInv, Typed, Send
<1>2. /\ e \in CallTypes /\ e.phase = "waiting" /\ e.ask = old.ask /\ e.kind = "none"
  BY <1>1 DEF CallTypes
<1>3. call' = [call EXCEPT ![n] = e]
  BY DEF Send, CommandInv, Typed
<1>4. ~Sent(n) /\ ~Kept(n) /\ \A a \in answers : a.call # n
  BY NotSent DEF Send
<1>5. flight' = flight \cup {new} /\ UNCHANGED <<now, conf, wallet, pool, store, answers>>
  BY DEF Send, serverVars
<1>6. new.call = n /\ new.attempt \in {1, 2}
  BY <1>1 DEF Request, CallTypes
<1> HIDE DEF e, new
<1>7. call'[n] = e /\ \A m \in Calls : m # n => call'[m] = call[m]
  BY <1>3 DEF CommandInv, Typed
<1>8. ASSUME NEW m \in Calls, m # n PROVE (Sent(m)' <=> Sent(m)) /\ (Kept(m)' <=> Kept(m))
  BY <1>5, <1>6, <1>8 DEF Sent, Kept
<1>9. ~Kept(n)' /\ ~Answered(n)'
  BY <1>4, <1>5 DEF Kept, Answered
<1>10. ASSUME NEW m \in Calls PROVE Underway(m)' /\ DoneIsTrue(m)'
  <2>1. CASE m = n
    BY <1>2, <1>7, <1>9, <2>1, NoneRefused DEF Underway, DoneIsTrue
  <2>2. CASE m # n
    <3>1. Underway(m) /\ DoneIsTrue(m)
      BY DEF CommandInv, Account
    <3>2. Answered(m)' <=> Answered(m)
      BY <1>5 DEF Answered
    <3> QED
      BY <1>5, <1>7, <1>8, <2>2, <3>1, <3>2 DEF Underway, DoneIsTrue
  <2> QED
    BY <2>1, <2>2
<1>11. ASSUME NEW a \in answers' PROVE AnswerIsTrue(a)'
  <2>1. a \in answers /\ a.call \in Calls /\ a.call # n
    BY <1>4, <1>5 DEF CommandInv, Typed
  <2> QED
    BY <1>5, <1>7, <2>1 DEF CommandInv, Account, AnswerIsTrue, Kept
<1>12. OneRequest'
  BY <1>4, <1>5, <1>6 DEF CommandInv, Account, OneRequest, Sent
<1>13. OneRecord' /\ Signed'
  BY <1>5 DEF CommandInv, Account, OneRecord, Signed
<1>14. Typed'
  BY <1>1, <1>2, <1>3, <1>5, <1>6, <1>7 DEF CommandInv, Typed
<1> QED
  BY <1>10, <1>11, <1>12, <1>13, <1>14 DEF CommandInv, Account

---------------------------------------------------------------------------
\* The service is done with the request of command m: it may have stored a record,
\* and the client, if it still waits, is told so.
Told(m, code, named) ==
    \/ answers' = answers
    \/ call[m].phase = "waiting" /\ answers' = answers \cup {[call |-> m, code |-> code, named |-> named]}

LEMMA AnswerTells ==
    ASSUME NEW r, NEW code, NEW named, Answer(r, code, named)
    PROVE  Told(r.call, code, named)
BY DEF Answer, Awaited, Told

LEMMA ServerMoves ==
    ASSUME CommandInv, NEW m \in Calls, Sent(m), flight' \subseteq flight, pool' \subseteq pool,
           \A r \in flight' : r.call # m, \A e \in pool' : e.request.call # m,
           UNCHANGED <<now, conf, wallet, call>>, store \subseteq store',
           \A s \in store' : s \in store \/ (s.id \in Ids /\ s.id.call = m /\ SignedBy(s.by, s.key)),
           OneRecord', NEW code \in Codes, NEW named \in Ids, Told(m, code, named),
           Undone(code) => store' = store,
           code \in Statuses => Truthful(call[m].ask, ExitOf(call[m].ask, code), named, store')
    PROVE  CommandInv'
<1> DEFINE new == [call |-> m, code |-> code, named |-> named]
<1>1. new.call = m /\ new.code = code /\ new.named = named
  OBVIOUS
<1>2. answers' = answers \/ (call[m].phase = "waiting" /\ answers' = answers \cup {new})
  BY DEF Told
<1> HIDE DEF new
<1>3. /\ ~Kept(m) /\ ~Answered(m)
      /\ call[m].phase \in {"waiting", "done"} /\ call[m].kind \notin Denials
  BY DEF CommandInv, Account, Underway
<1>4. Typed'
  BY <1>1, <1>2 DEF CommandInv, Typed
<1>5. OneRequest'
  BY <1>1, <1>2, <1>3 DEF CommandInv, Account, OneRequest, Answered
<1>6. Signed'
  BY DEF CommandInv, Signed
<1>7. ASSUME NEW n \in Calls PROVE Underway(n)' /\ DoneIsTrue(n)'
  <2>1. Underway(n) /\ DoneIsTrue(n)
    BY DEF CommandInv, Account
  <2>2. DoneIsTrue(n)'
    BY <2>1, TruthfulGrows DEF DoneIsTrue
  <2>3. CASE n = m
    <3>1. ~Sent(m)'
      BY DEF Sent
    <3> QED
      BY <1>3, <2>2, <2>3, <3>1 DEF Underway
  <2>4. CASE n # m
    <3>1. Sent(n)' => Sent(n)
      BY DEF Sent
    <3>2. Kept(n)' <=> Kept(n)
      BY <2>4 DEF Kept
    <3>3. Answered(n)' <=> Answered(n)
      BY <1>1, <1>2, <2>4 DEF Answered
    <3> QED
      BY <2>1, <2>2, <3>1, <3>2, <3>3 DEF Underway
  <2> QED
    BY <2>3, <2>4
<1>8. ASSUME NEW a \in answers' PROVE AnswerIsTrue(a)'
  <2>1. CASE a \in answers
    <3>1. AnswerIsTrue(a) /\ a.call # m
      BY <1>3, <2>1 DEF CommandInv, Account, Answered
    <3>2. Kept(a.call)' => Kept(a.call)
      BY <3>1 DEF Kept
    <3> QED
      BY <3>1, <3>2, TruthfulGrows DEF AnswerIsTrue
  <2>2. CASE a = new /\ call[m].phase = "waiting"
    <3>1. Undone(code) => ~Kept(m)'
      BY <1>3 DEF Kept
    <3> QED
      BY <1>1, <2>2, <3>1 DEF AnswerIsTrue, Kept
  <2> QED
    BY <1>2, <2>1, <2>2
<1> QED
  BY <1>4, <1>5, <1>6, <1>7, <1>8 DEF CommandInv, Account

\* A refusal, or a read: nothing is stored.
LEMMA ServerTells ==
    ASSUME CommandInv, NEW m \in Calls, Sent(m), flight' \subseteq flight, pool' \subseteq pool,
           \A r \in flight' : r.call # m, \A e \in pool' : e.request.call # m,
           UNCHANGED <<now, conf, wallet, call, store>>,
           NEW code \in Codes, NEW named \in Ids, Told(m, code, named),
           code \in Statuses => Truthful(call[m].ask, ExitOf(call[m].ask, code), named, store)
    PROVE  CommandInv'
<1>1. OneRecord'
  BY DEF CommandInv, Account, OneRecord
<1> QED
  BY <1>1, ServerMoves

LEMMA TurnInv ==
    ASSUME CommandInv, NEW r \in flight, Turn(r)
    PROVE  CommandInv'
<1>1. r.call \in Calls /\ Sent(r.call)
  BY DEF CommandInv, Typed, Sent
<1>2. PICK code \in {"401", "400"} : Answer(r, code, NoId)
  BY DEF Turn, DoorStatus
<1>3. code \in Codes /\ code \notin Statuses /\ NoId \in Ids
  BY DEF Codes, Statuses, NoId, Ids
<1>4. flight' = flight \ {r} /\ UNCHANGED <<now, conf, wallet, call, pool, store>>
  BY DEF Turn, serverVars
<1>5. /\ \A s \in flight' : s.call # r.call
      /\ \A e \in pool' : e.request.call # r.call
  BY <1>4 DEF CommandInv, Account, OneRequest
<1>6. Told(r.call, code, NoId)
  BY <1>2, AnswerTells
<1> QED
  BY <1>1, <1>3, <1>4, <1>5, <1>6, ServerTells

\* Whoever is served is the agent of the key he signed with: keys are registered for
\* the agents they were issued to, and a server starts with no administrators.
LEMMA ServedIsSigned ==
    ASSUME CommandInv, NEW cred, Served(conf, cred, now)
    PROVE  SignedBy(PrincipalFor(conf, cred), cred.key)
<1>1. conf \in Deployments /\ MayStart(conf) /\ conf \in Configurations
  BY DeploymentsAssumption DEF CommandInv, Typed
<1>2. CASE conf.mode = "disabled"
  BY <1>2 DEF PrincipalFor, LocalPrincipal, SignedBy
<1>3. CASE conf.mode # "disabled"
  <2>1. conf.mode = "signed-agent"
    BY <1>1, <1>3 DEF Configurations
  <2>2. cred.agent \in Registered(conf) /\ cred.key = conf.keys[cred.agent]
    BY <1>3 DEF Served, Authenticates, VerifyAssertion
  <2>3. Owner[cred.key] = cred.agent
    BY <1>1, <2>2, DeploymentsAssumption
  <2>4. ~conf.grants[cred.agent].admin
    BY <1>1, <2>1, <2>2 DEF MayStart, RegistryIsServable
  <2> QED
    BY <1>3, <2>3, <2>4 DEF PrincipalFor, AgentPrincipal, SignedBy
<1> QED
  BY <1>2, <1>3

LEMMA AdmitInv ==
    ASSUME CommandInv, NEW r \in flight, Admit(r)
    PROVE  CommandInv'
<1> DEFINE p == PrincipalFor(conf, r.cred)
           new == [request |-> r, principal |-> p]
<1>1. r.call \in Calls /\ r.attempt \in {1, 2}
  BY DEF CommandInv, Typed
<1>2. SignedBy(p, r.cred.key)
  BY ServedIsSigned DEF Admit, DoorStatus
<1>3. new.request = r /\ new.principal = p
  OBVIOUS
<1>4. /\ flight' = flight \ {r} /\ pool' = pool \cup {new}
      /\ UNCHANGED <<now, conf, wallet, call, answers, store>>
  BY DEF Admit
<1> HIDE DEF new, p
<1>5. Typed'
  BY <1>1, <1>3, <1>4 DEF CommandInv, Typed
<1>6. OneRequest'
  BY <1>3, <1>4 DEF CommandInv, Account, OneRequest
<1>7. Signed'
  BY <1>2, <1>3, <1>4 DEF CommandInv, Signed
<1>8. OneRecord'
  BY <1>4 DEF CommandInv, Account, OneRecord
<1>9. ASSUME NEW n \in Calls PROVE Underway(n)' /\ DoneIsTrue(n)'
  <2>1. Sent(n)' => Sent(n)
    BY <1>3, <1>4 DEF Sent
  <2> QED
    BY <1>4, <2>1 DEF CommandInv, Account, Underway, DoneIsTrue, Kept, Answered
<1>10. ASSUME NEW a \in answers' PROVE AnswerIsTrue(a)'
  BY <1>4 DEF CommandInv, Account, AnswerIsTrue, Kept
<1> QED
  BY <1>5, <1>6, <1>7, <1>8, <1>9, <1>10 DEF CommandInv, Account

\* A request in the pool that is taken out is the only one of its command.
LEMMA TakenOut ==
    ASSUME CommandInv, NEW e \in pool, pool' = pool \ {e}, flight' = flight
    PROVE  /\ e.request.call \in Calls /\ Sent(e.request.call)
           /\ \A r \in flight' : r.call # e.request.call
           /\ \A f \in pool' : f.request.call # e.request.call
<1>1. e.request.call \in Calls /\ Sent(e.request.call)
  BY DEF CommandInv, Typed, Sent
<1>2. /\ \A r \in flight' : r.call # e.request.call
      /\ \A f \in pool' : f.request.call # e.request.call
  BY DEF CommandInv, Account, OneRequest
<1> QED
  BY <1>1, <1>2

LEMMA RefuseToolInv ==
    ASSUME CommandInv, NEW e \in pool, RefuseTool(e)
    PROVE  CommandInv'
<1>1. PICK code \in {"-32601", "-32602", "AuthorizationError"} : Answer(e.request, code, NoId)
  BY DEF RefuseTool, ToolError
<1>2. code \in Codes /\ code \notin Statuses /\ NoId \in Ids
  BY DEF Codes, Statuses, NoId, Ids
<1>3. Told(e.request.call, code, NoId)
  BY <1>1, AnswerTells
<1>4. /\ pool' = pool \ {e} /\ flight' = flight
      /\ UNCHANGED <<now, conf, wallet, call, store>>
  BY DEF RefuseTool
<1> QED
  BY <1>2, <1>3, <1>4, TakenOut, ServerTells

LEMMA ServeReadInv ==
    ASSUME CommandInv, NEW e \in pool, NEW code \in Statuses, ServeRead(e, code)
    PROVE  CommandInv'
<1>1. code \in Codes /\ NoId \in Ids
  BY DEF Codes, NoId, Ids
<1>2. Told(e.request.call, code, NoId)
  BY AnswerTells DEF ServeRead
<1>3. /\ pool' = pool \ {e} /\ flight' = flight
      /\ UNCHANGED <<now, conf, wallet, call, store>>
  BY DEF ServeRead
<1>4. call[e.request.call].ask.op \in {"search", "get"}
  BY DEF ServeRead
<1>5. Truthful(call[e.request.call].ask, ExitOf(call[e.request.call].ask, code), NoId, store)
  BY <1>4 DEF Truthful
<1> QED
  BY <1>1, <1>2, <1>3, <1>5, TakenOut, ServerTells

LEMMA ServeReplayInv ==
    ASSUME CommandInv, NEW e \in pool, ServeReplay(e)
    PROVE  CommandInv'
<1> DEFINE m == e.request.call
           ask == call[m].ask
           code == Status(ask, "DUPLICATE")
<1>1. PICK r \in Holders(ask) : Answer(e.request, code, r.id)
  BY DEF ServeReplay
<1>2. r \in store /\ r.id \in Ids /\ ask.keyed /\ r.keyed /\ r.namespace = ask.namespace
  BY <1>1 DEF Holders, CommandInv, Typed
<1>3. code \in Codes
  BY DEF Status, CloseStatus, Codes, Statuses
<1>4. Told(m, code, r.id)
  BY <1>1, AnswerTells
<1>5. Truthful(ask, ExitOf(ask, code), r.id, store)
  BY <1>2 DEF Truthful
<1>6. /\ pool' = pool \ {e} /\ flight' = flight
      /\ UNCHANGED <<now, conf, wallet, call, store>>
  BY DEF ServeReplay
<1> HIDE DEF code
<1> QED
  BY <1>2, <1>3, <1>4, <1>5, <1>6, TakenOut, ServerTells

\* The answer to a write, and the record, if it took.
LEMMA WriteIsTold ==
    ASSUME NEW ask, NEW status \in {"ADMITTED", "QUARANTINED", "REJECTED"}, ask.op \in Writes,
           ask.dry \in BOOLEAN, NEW named, NEW S,
           \/ \E r \in S : r.id = named /\ r.keyed = ask.keyed /\ r.namespace = ask.namespace
           \/ status = "REJECTED" /\ named = NoId
           \/ ask.dry
    PROVE  /\ Status(ask, status) \in Statuses
           /\ Status(ask, status) = "REJECTED" => status = "REJECTED"
           /\ Truthful(ask, ExitOf(ask, Status(ask, status)), named, S)
<1>1. /\ Status(ask, status) \in Statuses
      /\ Status(ask, status) = "REJECTED" => status = "REJECTED"
  BY DEF Status, CloseStatus, Statuses
<1>2. CASE \E r \in S : r.id = named /\ r.keyed = ask.keyed /\ r.namespace = ask.namespace
  BY <1>1, <1>2 DEF Truthful
<1>3. CASE ask.dry \/ (status = "REJECTED" /\ named = NoId)
  <2>1. CASE ask.op = "write"
    <3>1. status = "REJECTED" => ExitOf(ask, Status(ask, status)) = 2
      BY <2>1 DEF ExitOf, WriteExit, Status
    <3> QED
      BY <1>1, <1>3, <2>1, <3>1 DEF Truthful
  <2>2. CASE ask.op = "close"
    <3>1. Status(ask, status) \in {"FAILED", "PARTIAL"}
      BY <1>3, <2>2 DEF Status, CloseStatus
    <3>2. ExitOf(ask, Status(ask, status)) # 0
      BY <2>2, <3>1 DEF ExitOf, CloseExit
    <3> QED
      BY <1>1, <1>3, <2>2, <3>2 DEF Truthful
  <2> QED
    BY <2>1, <2>2 DEF Writes
<1> QED
  BY <1>1, <1>2, <1>3

LEMMA ServeWriteInv ==
    ASSUME CommandInv, NEW e \in pool, NEW status \in {"ADMITTED", "QUARANTINED", "REJECTED"},
           NEW fault \in {"none", "before", "after"}, ServeWrite(e, status, fault)
    PROVE  CommandInv'
<1> DEFINE m == e.request.call
           ask == call[m].ask
           took == status # "REJECTED" /\ ~ask.dry /\ fault # "before"
           id == Id(e.request)
           new == [id |-> id, keyed |-> ask.keyed, namespace |-> ask.namespace,
                   by |-> e.principal, key |-> e.request.cred.key]
<1>1. /\ new.id = id /\ new.keyed = ask.keyed /\ new.namespace = ask.namespace
      /\ new.by = e.principal /\ new.key = e.request.cred.key
  OBVIOUS
<1>2. id \in Ids /\ id.call = m /\ NoId \in Ids
  BY CallsAssumption DEF Id, Ids, NoId, CommandInv, Typed
<1>3. /\ store' = IF took THEN store \cup {new} ELSE store
      /\ pool' = pool \ {e} /\ flight' = flight
      /\ UNCHANGED <<now, conf, wallet, call>>
  BY DEF ServeWrite
<1>4. ask.op \in Writes /\ (took => Holders(ask) = {})
  BY DEF ServeWrite
<1>5. SignedBy(new.by, new.key)
  BY <1>1 DEF CommandInv, Signed
<1>11. ask.dry \in BOOLEAN
  <2>1. ask \in Operations \cup {NoAsk}
    BY DEF CommandInv, Typed, CallTypes
  <2> QED
    BY <1>4, <2>1, OperationsAssumption DEF NoAsk, Writes
<1>6. ~Kept(m)
  BY <1>3, TakenOut DEF CommandInv, Account, Underway
<1> HIDE DEF new, id
<1>7. OneRecord'
  <2>1. CASE took
    <3>1. \A r \in store : r.id.call # m /\ ~(ask.keyed /\ r.keyed /\ r.namespace = ask.namespace)
      BY <1>4, <1>6, <2>1 DEF Kept, Holders
    <3>2. store' = store \cup {new}
      BY <1>3, <2>1
    <3> HIDE DEF m, ask, took
    <3> QED
      BY <1>1, <1>2, <3>1, <3>2 DEF CommandInv, Account, OneRecord
  <2>2. CASE ~took
    BY <1>3, <2>2 DEF CommandInv, Account, OneRecord
  <2> QED
    BY <2>1, <2>2
<1>8. /\ store \subseteq store'
      /\ \A s \in store' : s \in store \/ (s.id \in Ids /\ s.id.call = m /\ SignedBy(s.by, s.key))
  BY <1>1, <1>2, <1>3, <1>5
<1>9. CASE fault = "none"
  <2> DEFINE code == Status(ask, status)
             named == IF Names(ask, status) THEN new.id ELSE NoId
  <2>1. Answer(e.request, code, named)
    BY <1>1, <1>9 DEF ServeWrite, id
  <2>2. /\ code \in Statuses /\ Truthful(ask, ExitOf(ask, code), named, store')
        /\ code = "REJECTED" => status = "REJECTED"
    <3>1. CASE took
      BY <1>1, <1>3, <1>4, <1>11, <3>1, WriteIsTold DEF Names
    <3>2. CASE ~took
      BY <1>4, <1>9, <1>11, <3>2, WriteIsTold DEF Names
    <3> QED
      BY <3>1, <3>2
  <2>3. code \in Codes /\ named \in Ids /\ (Undone(code) => store' = store)
    BY <1>1, <1>2, <1>3, <2>2 DEF Codes, Undone
  <2> HIDE DEF code, named
  <2>4. Told(m, code, named)
    BY <2>1, AnswerTells
  <2> QED
    BY <1>3, <1>7, <1>8, <2>2, <2>3, <2>4, TakenOut, ServerMoves
<1>10. CASE fault # "none"
  <2>1. Answer(e.request, "StoreError", NoId)
    BY <1>10 DEF ServeWrite
  <2>2. Told(m, "StoreError", NoId)
    BY <2>1, AnswerTells
  <2>3. "StoreError" \in Codes /\ "StoreError" \notin Statuses /\ ~Undone("StoreError")
    BY DEF Codes, Statuses, Undone
  <2> QED
    BY <1>2, <1>3, <1>7, <1>8, <2>2, <2>3, TakenOut, ServerMoves
<1> QED
  BY <1>9, <1>10

---------------------------------------------------------------------------
\* A step that leaves commands, wire, answers and records alone, and takes at most
\* work out of the pool.
LEMMA WorldMoves ==
    ASSUME CommandInv, UNCHANGED <<call, flight, answers, store>>, pool' \subseteq pool,
           now' \in Nat, wallet' \in Credentials, conf' \in Deployments, MayStart(conf')
    PROVE  CommandInv'
<1>1. Typed'
  BY DEF CommandInv, Typed
<1>2. OneRequest' /\ OneRecord' /\ Signed'
  BY DEF CommandInv, Account, OneRequest, OneRecord, Signed
<1>3. ASSUME NEW n \in Calls PROVE Underway(n)' /\ DoneIsTrue(n)'
  <2>1. Sent(n)' => Sent(n)
    BY DEF Sent
  <2> QED
    BY <2>1 DEF CommandInv, Account, Underway, DoneIsTrue, Kept, Answered
<1>4. ASSUME NEW a \in answers' PROVE AnswerIsTrue(a)'
  BY DEF CommandInv, Account, AnswerIsTrue, Kept
<1> QED
  BY <1>1, <1>2, <1>3, <1>4 DEF CommandInv, Account

LEMMA CrashInv == ASSUME CommandInv, Crash PROVE CommandInv'
BY WorldMoves DEF Crash, CommandInv, Typed

LEMMA DeployInv ==
    ASSUME CommandInv, NEW c \in Deployments, Deploy(c)
    PROVE  CommandInv'
BY WorldMoves DEF Deploy, counters, CommandInv, Typed

LEMMA TickInv == ASSUME CommandInv, Tick PROVE CommandInv'
BY WorldMoves DEF Tick, serverVars, CommandInv, Typed

LEMMA MintInv ==
    ASSUME CommandInv, NEW w \in Wallets, Mint(w)
    PROVE  CommandInv'
<1>1. wallet' \in Credentials
  BY WalletsAssumption DEF Mint, Credentials, CommandInv, Typed
<1> QED
  BY <1>1, WorldMoves DEF Mint, CommandInv, Typed

LEMMA CommandInitInv == CommandInit => CommandInv
<1> SUFFICES ASSUME CommandInit PROVE CommandInv
  OBVIOUS
<1>1. Typed
  BY WalletsAssumption, UnmadeType DEF CommandInit, Typed
<1>2. Account
  BY UnmadeType DEF CommandInit, Account, OneRequest, Underway, Sent, Kept, DoneIsTrue, OneRecord
<1>3. Signed
  BY DEF CommandInit, Signed
<1> QED
  BY <1>1, <1>2, <1>3 DEF CommandInv

LEMMA ConsumerInv ==
    ASSUME CommandInv, NEW n \in Calls, Consumer(n)
    PROVE  CommandInv'
BY LaunchInv, RefuseLaunchInv, ConnectInv, ConnectFailsInv, SendInv, RefuseSendInv, RetryInv, FailInv,
   FinishInv, GivesUpInv DEF Consumer

LEMMA ServerInv ==
    ASSUME CommandInv, Server
    PROVE  CommandInv'
<1>1. ASSUME NEW e \in pool, Serve(e) PROVE CommandInv'
  BY <1>1, RefuseToolInv, ServeReplayInv, ServeReadInv, ServeWriteInv DEF Serve
<1>2. ASSUME NEW r \in flight, Turn(r) \/ Admit(r) PROVE CommandInv'
  BY <1>2, TurnInv, AdmitInv
<1> QED
  BY <1>1, <1>2, CrashInv, DeployInv DEF Server

LEMMA CommandStep ==
    ASSUME CommandInv, [CommandNext]_commandVars
    PROVE  CommandInv'
<1>1. CASE UNCHANGED commandVars
  BY <1>1, WorldMoves DEF commandVars, CommandInv, Typed
<1> QED
  BY <1>1, ConsumerInv, ServerInv, TickInv, MintInv DEF CommandNext

LEMMA CommandAlways == CommandSpec => []CommandInv
BY CommandInitInv, CommandStep, PTL DEF CommandSpec

---------------------------------------------------------------------------
\* A failure that names a refusal is the whole outcome: the one request of the
\* command is neither under way nor stored.
THEOREM Refused == CommandSpec => []RefusedMeansNothingDone
<1>1. CommandInv => RefusedMeansNothingDone
  BY DEF CommandInv, Account, Underway, Sent, Kept, Denials, RefusedMeansNothingDone
<1> QED
  BY <1>1, CommandAlways, PTL

\* A command that exits with 0 after a write or a session close names a record that
\* is stored.
THEOREM Zero == CommandSpec => []ZeroMeansStored
<1>1. CommandInv => ZeroMeansStored
  BY DEF CommandInv, Account, DoneIsTrue, Truthful, ZeroMeansStored
<1> QED
  BY <1>1, CommandAlways, PTL

\* A command stores at most one record, commands under one key one between them, and
\* each that reports a record, and was no dry run, names that one.
THEOREM Converges == CommandSpec => []RetriesConverge
<1>1. CommandInv => RetriesConverge
  <2> SUFFICES ASSUME CommandInv PROVE RetriesConverge
    OBVIOUS
  <2>1. OneRecord
    BY DEF CommandInv, Account
  <2>2. ASSUME NEW n \in Calls, NEW r \in store,
               call[n].phase = "done", call[n].named # NoId,
               r.keyed, call[n].ask.keyed, ~call[n].ask.dry, call[n].ask.namespace = r.namespace
        PROVE  call[n].named = r.id
    <3>1. PICK s \in store : s.id = call[n].named /\ s.keyed /\ s.namespace = call[n].ask.namespace
      BY <2>2 DEF CommandInv, Account, DoneIsTrue, Truthful
    <3>2. s = r
      BY <2>1, <2>2, <3>1 DEF OneRecord
    <3> QED
      BY <3>1, <3>2
  <2> QED
    BY <2>1, <2>2 DEF RetriesConverge, OneRecord
<1> QED
  BY <1>1, CommandAlways, PTL

\* Every record of a signed agent is attributed to the agent whose key signed the
\* request, and no administrator is ever served.
THEOREM Attributed == CommandSpec => []AttributedToSigner
<1>1. CommandInv => AttributedToSigner
  BY DEF CommandInv, Signed, SignedBy, AttributedToSigner
<1> QED
  BY <1>1, CommandAlways, PTL
=============================================================================
