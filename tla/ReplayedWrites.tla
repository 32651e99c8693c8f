--------------------------- MODULE ReplayedWrites ---------------------------
(***************************************************************************)
(* Two commands that replay writes through MemoryService.write, die where  *)
(* they please and are run again: ingest-topology-plan, which publishes a  *)
(* plan bundle (ingestion/topology_publication.py, publication_identity.py)*)
(* and drain-legacy-write-queue (migration/legacy_write_queue.py).  Neither*)
(* keeps a log: a plan relies on the idempotency keys of its candidates,   *)
(* the drain on its files.  They share no state, so that a behaviour is    *)
(* about one of them.                                                      *)
(*                                                                         *)
(* A hash is the value hashed.  A write is one step here: whichever way a  *)
(* keyed write loses a race, it is told DUPLICATE (see MemoryLedger).      *)
(***************************************************************************)
EXTENDS Naturals, Sequences, FiniteSets

CONSTANTS
    Editions,    \* the plans the producer emits one after the other
    Edits,       \* Edits[p]: what damage or an editor may make of plan p
    Meaning,     \* Meaning[e]: evidence semantics of the bound packet's evidence e
    Ceiling,     \* maximum_evidence_refs_per_candidate
    Verdict,     \* Verdict[x]: what admission makes of fact x, or of queue file x
    Publishers,  \* processes that run ingest-topology-plan
    Files,       \* Files: names of queue files, in sorted order
    Unreadable,  \* those that do not parse
    Keyed,       \* those whose request carries an idempotency key
    Drainers,    \* processes that run drain-legacy-write-queue
    Limit,       \* --limit
    MaxFaults    \* bound: edits, failed operations and killed processes

Plans     == {Editions[n] : n \in DOMAIN Editions} \cup UNION {Edits[n] : n \in DOMAIN Editions}
FileNames == {Files[i] : i \in DOMAIN Files}

ASSUME MaxFaultsAssumption == MaxFaults \in Nat
ASSUME LimitAssumption == Limit \in Nat \ {0}
ASSUME FilesAssumption == DOMAIN Files \subseteq Nat
ASSUME EditionsAssumption == Editions \in Seq(Plans) /\ Editions # <<>>
ASSUME PlansAssumption ==
    \A p \in Plans :
        p \in Seq({p[i] : i \in DOMAIN p}) /\ \A i \in DOMAIN p : p[i].fact \in DOMAIN Verdict
ASSUME VerdictAssumption ==
    /\ FileNames \subseteq DOMAIN Verdict
    /\ \A x \in DOMAIN Verdict : Verdict[x] \in {"admitted", "quarantined", "memory_rejected"}

VARIABLES
    command,   \* the command this behaviour is about
    bundle,    \* the plan bundle on disk: its manifest and its plan document
    emitted,   \* editions written so far
    rows,      \* published records: key and write
    run,       \* run[r]: how far publisher r has come
    pending,   \* queue files in pending/
    drained,   \* drained[f]: status of the receipt in drained/, or "none"
    copies,    \* copies[f]: records stored for queue file f
    drain,     \* drain[d]: how far drainer d has come
    faults     \* faults so far

publication == <<bundle, emitted, rows, run>>
queue       == <<pending, drained, copies, drain>>
replayVars  == <<command, publication, queue, faults>>

---------------------------------------------------------------------------
\* Publication identity.

\* candidate_id: the fact alone.
CandidateId(c) == c.fact

\* The semantics of the evidence that survives the ceiling, as a bag.
KeptEvidence(c) ==
    LET n == IF Len(c.cites) < Ceiling THEN Len(c.cites) ELSE Ceiling IN
    [m \in {Meaning[c.cites[i]] : i \in 1 .. n} |->
        Cardinality({i \in 1 .. n : Meaning[c.cites[i]] = m})]

\* idempotency_key: the durable write, as far as its identity goes.
EffectKey(c) == [id |-> CandidateId(c), evidence |-> KeptEvidence(c), score |-> c.score]

Cited(c) == {c.cites[i] : i \in DOMAIN c.cites}

\* Mutation: identities are taken on trust.
ValidUnverified(p) == \A i, j \in DOMAIN p : i # j => p[i].id # p[j].id

\* validate_publication_inputs: structure, then binding, then identities.
Valid(p) ==
    /\ \A i, j \in DOMAIN p : i # j => p[i].id # p[j].id
    /\ \A i \in DOMAIN p :
        /\ Cited(p[i]) \subseteq DOMAIN Meaning
        /\ p[i].id = CandidateId(p[i])
        /\ p[i].key = EffectKey(p[i])

---------------------------------------------------------------------------
Idle   == [pc |-> "idle", mode |-> "none", manifest |-> <<>>, plan |-> <<>>, results |-> <<>>]
Asleep == [pc |-> "idle", apply |-> FALSE, todo |-> {}, receipt |-> "none", clean |-> TRUE]

ReplayInit ==
    /\ command \in {"publish", "drain"}
    /\ bundle = [manifest |-> Editions[1], plan |-> Editions[1]]
    /\ emitted = 1
    /\ rows = {}
    /\ run = [r \in Publishers |-> Idle]
    /\ pending = FileNames
    /\ drained = [f \in FileNames |-> "none"]
    /\ copies = [f \in FileNames |-> 0]
    /\ drain = [d \in Drainers |-> Asleep]
    /\ faults = 0

\* The producer writes its next edition, one file after the other.
EmitPlan ==
    /\ emitted < Len(Editions) /\ bundle.plan = bundle.manifest
    /\ bundle' = [bundle EXCEPT !.plan = Editions[emitted + 1]]
    /\ emitted' = emitted + 1
    /\ UNCHANGED <<rows, run, faults>>

EmitManifest ==
    /\ bundle.plan = Editions[emitted] /\ bundle.manifest # bundle.plan
    /\ bundle' = [bundle EXCEPT !.manifest = bundle.plan]
    /\ UNCHANGED <<emitted, rows, run, faults>>

\* The plan document is damaged, or edited and its file hash repaired.
Edit ==
    /\ faults < MaxFaults
    /\ \E p \in Edits[emitted], repaired \in BOOLEAN :
        bundle' = [manifest |-> IF repaired THEN p ELSE bundle.manifest, plan |-> p]
    /\ faults' = faults + 1
    /\ UNCHANGED <<emitted, rows, run>>

\* load_verified_bundle reads the manifest first ...
ReadManifest(r, mode) ==
    /\ run[r].pc = "idle"
    /\ run' = [run EXCEPT ![r] = [Idle EXCEPT !.pc = "loading", !.mode = mode, !.manifest = bundle.manifest]]
    /\ UNCHANGED <<bundle, emitted, rows, faults>>

\* ... then the documents it lists; what it loads is validated as a whole.
LoadPlan(r) ==
    /\ run[r].pc = "loading"
    /\ run' = [run EXCEPT ![r] =
          IF bundle.plan = run[r].manifest /\ Valid(bundle.plan)
          THEN [@ EXCEPT !.pc = "executing", !.plan = bundle.plan]
          ELSE [Idle EXCEPT !.mode = "refused"]]
    /\ UNCHANGED <<bundle, emitted, rows, faults>>

Holders(k) == {w \in rows : w.key = k}
Result(r, status) == [run EXCEPT ![r].results = Append(@, status)]
Upcoming(r) == run[r].plan[Len(run[r].results) + 1]
HasUpcoming(r) == run[r].pc = "executing" /\ Len(run[r].results) < Len(run[r].plan)

\* execute_topology_publication: one candidate through MemoryService.write.
Skip(r) ==
    /\ HasUpcoming(r) /\ Upcoming(r).status # "eligible"
    /\ run' = Result(r, "not_attempted")
    /\ UNCHANGED <<bundle, emitted, rows, faults>>

\* Mutation: what is known already ends the batch.
SubmitUnlessKnown(r) ==
    LET c == Upcoming(r) IN
    /\ HasUpcoming(r) /\ c.status = "eligible" /\ Holders(c.key) = {}
    /\ run' = Result(r, Verdict[c.fact])
    /\ rows' = rows \cup (IF run[r].mode = "apply" /\ Verdict[c.fact] # "memory_rejected"
                          THEN {[key |-> c.key, write |-> c]} ELSE {})
    /\ UNCHANGED <<bundle, emitted, faults>>

\* One whose key is taken is a duplicate; otherwise it is what admission says, and
\* is stored if that is not a refusal and this is not a preflight.
Submit(r) ==
    LET c == Upcoming(r) IN
    /\ HasUpcoming(r) /\ c.status = "eligible"
    /\ \/ /\ Holders(c.key) # {}
          /\ run' = Result(r, "duplicate")
          /\ UNCHANGED rows
       \/ /\ Holders(c.key) = {}
          /\ run' = Result(r, Verdict[c.fact])
          /\ rows' = rows \cup (IF run[r].mode = "apply" /\ Verdict[c.fact] # "memory_rejected"
                                THEN {[key |-> c.key, write |-> c]} ELSE {})
    /\ UNCHANGED <<bundle, emitted, faults>>

\* An L9MemoryError: the candidate failed, the batch goes on.
Fail(r) ==
    /\ faults < MaxFaults
    /\ HasUpcoming(r) /\ Upcoming(r).status = "eligible"
    /\ run' = Result(r, "failed")
    /\ faults' = faults + 1
    /\ UNCHANGED <<bundle, emitted, rows>>

\* The batch receipt is returned; the command may be run again.
Return(r) ==
    /\ run[r].pc = "executing" /\ ~HasUpcoming(r)
    /\ run' = [run EXCEPT ![r].pc = "idle"]
    /\ UNCHANGED <<bundle, emitted, rows, faults>>

KillPublisher(r) ==
    /\ faults < MaxFaults
    /\ run[r].pc # "idle"
    /\ run' = [run EXCEPT ![r] = Idle]
    /\ faults' = faults + 1
    /\ UNCHANGED <<bundle, emitted, rows>>

---------------------------------------------------------------------------
\* The drain of the legacy write queue.

\* inventory()[:limit]: the first pending files, by their place in the sorted order.
Inventory ==
    LET left == {i \in DOMAIN Files : Files[i] \in pending} IN
    {i \in left : Cardinality({j \in left : j <= i}) <= Limit}

StartDrain(d, apply) ==
    /\ drain[d].pc = "idle" \/ drain[d].pc = "exited"
    /\ drain' = [drain EXCEPT ![d] =
          [pc |-> "draining", apply |-> apply, todo |-> Inventory, receipt |-> "none", clean |-> TRUE]]
    /\ UNCHANGED <<pending, drained, copies, faults>>

Draining(d) == drain[d].pc = "draining" /\ drain[d].todo # {}
Foremost(d) == CHOOSE i \in drain[d].todo : \A j \in drain[d].todo : i <= j
File(d) == Files[Foremost(d)]
Leave(d, clean) ==
    LET now == drain[d] IN
    [drain EXCEPT ![d] = [now EXCEPT !.todo = now.todo \ {Foremost(d)}, !.receipt = "none",
                                     !.clean = now.clean /\ clean]]

\* A file that does not parse is retained and reported; a dry run moves on.
PassOver(d) ==
    /\ Draining(d) /\ drain[d].receipt = "none"
    /\ File(d) \in Unreadable \/ ~drain[d].apply
    /\ drain' = Leave(d, File(d) \notin Unreadable)
    /\ UNCHANGED <<pending, drained, copies, faults>>

\* service.write: a receipt, whatever it says.
Deliver(d) ==
    LET f == File(d) IN
    /\ Draining(d) /\ drain[d].receipt = "none"
    /\ f \notin Unreadable /\ drain[d].apply
    /\ \/ /\ f \in Keyed /\ copies[f] > 0
          /\ drain' = [drain EXCEPT ![d].receipt = "duplicate"]
          /\ UNCHANGED copies
       \/ /\ f \notin Keyed \/ copies[f] = 0
          /\ drain' = [drain EXCEPT ![d].receipt = Verdict[f]]
          /\ copies' = IF Verdict[f] = "memory_rejected" THEN copies ELSE [copies EXCEPT ![f] = @ + 1]
    /\ UNCHANGED <<pending, drained, faults>>

\* Mutation: the file is gone before its receipt is recorded.
UnlinkFirst(d) ==
    /\ Draining(d) /\ drain[d].receipt # "none" /\ File(d) \in pending
    /\ pending' = pending \ {File(d)}
    /\ UNCHANGED <<drained, copies, drain, faults>>

\* _record_drain: the receipt is recorded, over what another drain recorded ...
RecordReceipt(d) ==
    /\ Draining(d) /\ drain[d].receipt \notin {"none", "recorded"}
    /\ drained' = [drained EXCEPT ![File(d)] = drain[d].receipt]
    /\ drain' = [drain EXCEPT ![d].receipt = "recorded"]
    /\ UNCHANGED <<pending, copies, faults>>

\* ... then the file is removed, if it is still there.
Unlink(d) ==
    /\ Draining(d) /\ drain[d].receipt = "recorded"
    /\ pending' = pending \ {File(d)}
    /\ drain' = Leave(d, TRUE)
    /\ UNCHANGED <<drained, copies, faults>>

\* The write or the recording raises: the file is retained and reported.
Retain(d) ==
    /\ faults < MaxFaults
    /\ Draining(d) /\ File(d) \notin Unreadable /\ drain[d].apply
    /\ drain' = Leave(d, FALSE)
    /\ faults' = faults + 1
    /\ UNCHANGED <<pending, drained, copies>>

Exit(d) ==
    /\ drain[d].pc = "draining" /\ drain[d].todo = {}
    /\ drain' = [drain EXCEPT ![d].pc = "exited"]
    /\ UNCHANGED <<pending, drained, copies, faults>>

KillDrainer(d) ==
    /\ faults < MaxFaults
    /\ drain[d].pc = "draining"
    /\ drain' = [drain EXCEPT ![d] = Asleep]
    /\ faults' = faults + 1
    /\ UNCHANGED <<pending, drained, copies>>

---------------------------------------------------------------------------
Publish(r) == LoadPlan(r) \/ Skip(r) \/ Submit(r) \/ Return(r)
Handle(d)  == PassOver(d) \/ Deliver(d) \/ RecordReceipt(d) \/ Unlink(d) \/ Exit(d)

PublicationNext ==
    \/ EmitPlan \/ EmitManifest \/ Edit
    \/ \E r \in Publishers :
        (\E mode \in {"preflight", "apply"} : ReadManifest(r, mode)) \/ Publish(r) \/ Fail(r) \/ KillPublisher(r)

QueueNext ==
    \E d \in Drainers :
        (\E apply \in BOOLEAN : StartDrain(d, apply)) \/ Handle(d) \/ Retain(d) \/ KillDrainer(d)

ReplayNext ==
    /\ UNCHANGED command
    /\ \/ command = "publish" /\ PublicationNext /\ UNCHANGED queue
       \/ command = "drain" /\ QueueNext /\ UNCHANGED publication

\* A process that is not killed goes on, and the command is applied again and again.
Goes(A) == A /\ command = "publish" /\ UNCHANGED <<command, queue>>
ReplayFairness == \A r \in Publishers : WF_replayVars(Goes(Publish(r))) /\ SF_replayVars(Goes(ReadManifest(r, "apply")))
ReplaySpec == ReplayInit /\ [][ReplayNext]_replayVars /\ ReplayFairness

---------------------------------------------------------------------------
\* A record is stored once per effect and carries the effect its key describes,
\* whatever editions, damaged bundles, concurrent and killed runs led to it, and a
\* run that applies tells the truth about it: what it lists as admitted, quarantined
\* or duplicate is stored (publication_identity.py, "refuses the whole plan on any
\* mismatch").
PublishedAsDescribed ==
    /\ \A w \in rows : w.key = EffectKey(w.write) /\ Holders(w.key) = {w}
    /\ \A r \in Publishers : \A i \in DOMAIN run[r].results :
        run[r].mode = "apply" /\ run[r].results[i] \in {"admitted", "quarantined", "duplicate"} =>
            Holders(run[r].plan[i].key) # {}

\* "Recovery is rerunning the same plan" (execute_topology_publication): once the
\* bundle stays what the producer emitted, rerunning publishes every eligible
\* candidate that admission lets through, in spite of what failed or was killed.
SoundBundle == bundle.plan = bundle.manifest /\ bundle.plan = Editions[Len(Editions)]
RerunPublishes ==
    command = "publish" /\ <>[]SoundBundle =>
        \A i \in DOMAIN Editions[Len(Editions)] :
            LET c == Editions[Len(Editions)][i] IN
            c.status = "eligible" /\ Verdict[c.fact] # "memory_rejected" => <>(Holders(c.key) # {})

\* No queued write disappears: a file that is gone has its receipt in drained/, a
\* receipt that says it is stored is right, and a write with a key is stored once,
\* wherever drains were killed and however many ran (ADR-070).
QueueIsAccounted ==
    \A f \in FileNames :
        /\ f \in pending \/ drained[f] # "none"
        /\ f \in Unreadable => f \in pending
        /\ drained[f] \in {"admitted", "quarantined", "duplicate"} => copies[f] >= 1
        /\ f \in Keyed => copies[f] <= 1

\* ADR-070: "The command exits non-zero while any pending item remains unreadable or
\* undeliverable".
CleanExitMeansNoneLeft ==
    \A d \in Drainers :
        drain[d].pc = "exited" /\ drain[d].apply /\ drain[d].clean => Unreadable \cap pending = {}
=============================================================================
