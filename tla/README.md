# l9-graphiti-memory in TLA+

This directory specifies the parts of `l9_graphite_memory` whose correctness
depends on interleavings, failures, restarts and repetition. TLC checks the
specifications on small instances; TLAPS proves the theorems of the `*Proofs`
modules for every value of the constants.

All paths below are relative to `src/src/l9_graphite_memory/` unless they start
with `docs/`, `tests/`, `tools/` or `.github/`, which are relative to `src/`.

## 1. Inventory

| Component (code) | State | Operations | What is hard | What makes it correct | Status |
|---|---|---|---|---|---|
| Transactional outbox (`services/outbox_worker.py`, `claim_outbox`/`update_outbox` of `adapters/*_store.py`) | rows: status, attempts, next attempt, lease, expiry | enqueue, claim a batch, settle, retry, bury | several worker processes, deaths, leases that run out under a slow batch | one holder per live lease; nothing is lost or counted twice; every event is settled | modelled, proved |
| Projection delivery (`OutboxWorker.run_once`, `adapters/graphiti_projection.py`, `adapters/zep_projection.py`) | links per record and target, copies at the provider | project, retire, erase, compensate, complete a deletion | provider calls between store reads; answers that are lost; asynchronous ingestion; out-of-order events | no stale link unattended, no copy after deletion, a reactivation is not undone, deletions complete | modelled, safety proved |
| Memory service and ledger (`services/memory_service.py`) | records, status events, idempotency keys, deletion receipts | write, close, promote, transition, retention, delete | plan and commit are apart; concurrent retries under one key | governed moves only, one record per key, receipts agree with records | modelled, proved |
| Graph-store migration (`rebuild_projection`, `record_graph_cutover`, `release_legacy_projection_copies`, `projections/runtime.py`) | links by scope scheme, cutovers, release receipts | redeploy, rebuild, cut over, destroy, release | an operator's commands interleave with deliveries and writers | no link forgets a copy its store holds; a cutover leaves nothing behind; migrations complete | modelled, safety proved |
| Governed writes (`ports/phase_lock.py`, `write_governed`, `link_conflicts`) | phase locks, snapshots of verified evidence, conflict links | lock, verify, write, link | verification and commit are apart; PostgreSQL lets others commit in between | a governed write commits over the snapshot it was granted | modelled, proved |
| Record stores (`adapters/sqlite_store.py`, `postgres_store.py`, `in_memory_store.py`) | the tables of the above | one transaction per operation | three implementations of the same comparisons | all or nothing; comparisons inside the transaction; the three agree | commits and reads modelled, agreement proved |
| Active sessions (`active/client.py`, `active/lifecycle.py`) | lifecycle state, instance, lease, failures | start, heartbeat, resynchronise, re-register, write, drain, close | three tasks interleave at every await; outages; cancellation | heartbeat survives, own lease only, one incarnation, recovery, shutdown | modelled but for reads, safety proved |
| Active backends (`active/redis_adapters.py`, `active/inmemory.py`) | presences, leases, contexts, events | register, renew, put, get, list, subscribe | expiry of several keys; version comparison in a script | the two behave alike, as a session sees them | modelled but for the null adapters, agreement proved |
| Circuit breaker, rate limiter (`circuit_breaker.py`, `rate_limiter.py`) | breaker state, failure window, call windows | can_execute, record, check | an admitted call that never reports | the provider is spared; the circuit closes again | modelled |
| Provider transports (`transport.py`, `zep_transport.py`) | streamable session id, last connectivity | handshake, call, re-handshake, fallback | concurrent calls share one session | as above, under concurrent handshakes | modelled, safety proved |
| Maintenance (`maintenance/`) | runs, action digests | plan, apply, report | a run plans from one reading and applies to another; runs repeat | consolidations stay exact; the namespace comes to rest | modelled, safety proved |
| Source invalidation (`invalidate_by_source`, `services/generated_data.py`) | source selectors, invalidation events | ingest, invalidate, replay | a sender repeats; reads and commit are apart | a change archives exactly what it concerns, whole and once | modelled, proved |
| Topology publication, legacy drain (`ingestion/`, `migration/legacy_write_queue.py`) | a plan bundle; queue files | publish, verify; drain | killed anywhere, run twice at once | published as described; no queue file is lost | modelled, safety proved |
| Remote operation (`remote_client.py`, `server.py`, `authz/`, `cli.py`) | configuration, credentials, requests on the wire | initialise, bind, call, serve, answer | lost and late requests, restarts with another registry, expiry | exit codes and failure kinds are true of the store | partly, safety proved |
| Retrieval and graph intelligence (`retrieval/`, `graph/`, `adapters/neo4j_graph_intelligence.py`) | bounded pools, GDS catalog, cached health | search, expand, find paths, analyse | abandoned work, deadlines, providers that lag behind | answers rest on current records; COMPLETE leaves nothing out; no slot or catalog graph is lost | partly, safety proved |
| Deployment evidence (`tools/phase6/scripts/phase6ctl.py`, `build_evidence_record.py`) | run directory: records, proof files, ledger of signed events, decision, report | init, add evidence, derive, report, validate | no lock and no transaction; commands overlap, are killed in the middle of a line; files change | a GO rests on what was accepted; no integrity error of its own making | partly, safety proved |
| Curation, admission (`curation/`, `admission/`) | none of their own | retention, review, verdicts | evaluated apart from the commit | through the ledger and the maintenance planner | partly |
| Authorization, signed assertions (`authz/`) | nonce-free assertions, registries | grant, verify | evaluated where a request is served | through `AgentDoor` | partly |
| CLI, MCP tools, SDK | none of their own | parsing, dispatch | exit codes | agreement with the operation behind them | partly |
| Lineage, integrity, schema, integrations, client configuration, observability, configuration, secrets, extraction, TypeScript client, deployment | none over time | | | | not modelled |

How they interact. A request enters through a door of the server (or in process),
is given a principal, and reaches the service, which reads the store, plans, and
commits a record, its status events and its outbox events in one transaction.
Workers claim outbox events under leases and call the projection targets; what a
delivery leaves behind is a projection link in the store, and the last erasure
completes a deletion there. The service never calls a target, and a worker never
changes a record except to complete a deletion. Reads go to the store, the
projections and the graph backend, and re-read in the store whatever the others
name. Maintenance, publication, invalidation and the migration commands are
clients of the service which read, decide and then call it many times. Active
memory shares nothing with the above: a session and its heartbeat task talk to
Redis (or to the in-memory store) only.

## 2. Modules

| Module | Models | Composes |
|---|---|---|
| `OutboxPromise` | what the outbox promises, without leases, workers or time | |
| `OutboxLease` | rows, claims, leases, back-off, deaths, late batches | implements `OutboxPromise` |
| `OutboxTuning` | `OutboxLease` with a stopwatch per delivery | extends `OutboxLease` |
| `MemoryLedger` | records, plans, commits, receipts, links as seen by the service | |
| `ProjectionDelivery` | one record's events, links and copies, `run_once` step by step | |
| `ProjectionTargets` | several records, targets and graph stores; the migration commands beside the worker | |
| `OutboxTargetsProofs` | proofs about `OutboxLease` and `ProjectionTargets` | extends both |
| `RecordStores`, `StoreReads` | commits and reads of the three stores, side by side | |
| `GovernedWrite` | locks, verification, governed and other writers | |
| `ActiveSession` | a session, its heartbeat task, a writer, the store's keys | |
| `ActiveStores` | the two adapters of the active store and of the bus, side by side | |
| `ActiveMemoryProofs` | proofs about the two | extends both |
| `ProviderGuard` | breaker and limiter as values | |
| `ProviderTransport` | threads, session, handshake lock, provider | extends `ProviderGuard` |
| `AdapterProofs` | that the three stores answer alike, commit by commit and read by read; that an open circuit spares the provider | extends `StoreReads`, `ProviderTransport` |
| `MaintenancePlan` | planner, retention and review policy as operators | |
| `Maintenance` | runs against writers and governance | extends `MaintenancePlan` |
| `LedgerProofs` | proofs about `MemoryLedger` and `Maintenance` | extends both |
| `SourceInvalidation` | selectors, ingestion, invalidation requests | |
| `ReplayedWrites` | publication of a bundle; drain of the legacy queue | |
| `IngestionProofs` | proofs about the two | extends both |
| `AgentDoor` | credentials, configurations, namespace policy as operators | |
| `RemoteCommand` | client, network, server, tool pool, store, exit codes | extends `AgentDoor` |
| `AgentWritesProofs` | proofs about `GovernedWrite` and `RemoteCommand` | extends both |
| `EvidenceLedger` | commands, run directory, ledger and decision of the release's control program | |
| `DeliveryProofs` | proofs about `ProjectionDelivery` and `EvidenceLedger` | extends both |
| `MemoryReads`, `MemoryReadsProofs` | search, graph operations and analytics with their pools | |

`MC…` modules give constants their values and define symmetry sets; a module whose
constants are plain values needs none.

### OutboxLease

`outbox` is the table `outbox_events`; `batch[w]` is the list `run_once` iterates,
which remembers the row's attempts and lease as of the claim. `Claim` is
`claim_outbox` with its order, limit and both branches of the filter; `Settle` is
`update_outbox`, whose outcome is dropped if the row no longer carries the
lease. `SettleDelivered`, `SettleRetry` and `SettleDead` are the three ends of
the loop body; what happens before them is opened up in `ProjectionDelivery`.
`Crash` loses a batch and nothing else.

Time is kept as ticks *left* until `next_attempt_at` and `lease_expires_at` and as
ticks *since* a batch read the clock, so no clock runs away and no bound on time is
needed. A retry is scheduled from the batch's own reading of the clock, which may
be old: `SettleRetry` subtracts its age.

### ProjectionDelivery

One record is enough, because links, events and copies of different records
never meet. Each program point of `run_once` between two store or provider
calls is a value of `worker[w].at`, so other workers and the service may act
between any two of them. A behaviour is about one of `Deployments`: how many
workers run, whether copies are addressed by the name all episodes of a record
share (`byName`, the Graphiti server, which also queues deliveries) or by an id
(the Zep transport), and whether removing a copy that is gone is an error
(`missingRaises`). The lease is reduced to who holds an event; that this is sound
is what `OutboxLease` shows.

### ProjectionTargets

`runtime` is what the service, the worker and the CLI were last deployed with: the
enabled targets and the scope scheme of the graph target, which names a store.
`held` says which store holds a copy of which record, `link` what the canonical
store believes. `operator` is the command under way and its program point between
two transactions: `rebuild_projection`, `record_graph_cutover` and
`release_legacy_projection_copies` read and commit apart. `worker` delivers
events as in `ProjectionDelivery`, but of several records, and to legacy,
disabled and shadow targets. Times are compared with `cut_over_at` only, so a
time is the side of it that it lies on (`Stamps`). Runtimes go forward: none
returns to an earlier scheme. `operator.lost` is a history for the property alone:
the copies that were lost before the check began and not lost again since.

### MemoryLedger

`plan[c]` is what a request has read and decided: the row it inserts, the
`previous_state` of every status event, the target state and the records it
queues intents for. Committing compares the previous states and the unique index
on keys, as `_insert_status_event` and `_insert_record` do, or rolls back
(`GiveUp`). `linked` and `intent` are the service's view of projection; who
installs and drops links, and when, is `ProjectionDelivery`.

### RecordStores and StoreReads

Each action is one commit, made on `lite`, `pg` and `mem` at once; `told` holds the
three answers. A SQL commit rolls back what it did before a failing statement; the
in-memory store checks first and applies then, in the order of its code. Each store
keeps the shapes its code keeps: a unique index and a table of maintenance actions in
SQL, a dictionary of keys and the runs alone in memory. Commits of one store do not
interleave (`BEGIN IMMEDIATE`, row and advisory locks, the write lock). `StoreReads`
has the reads: windows, orders and ties, instants as ISO text or as values.

### GovernedWrite

`lock[t]` is the row of `phase_locks`, `op[c]` the call a caller is in, `holder` the
governed writer inside its committing transaction. The snapshot digest covers
fields a stored record never changes and its state, for ACTIVE records only: it
*is* the set of ACTIVE records. `OneWriter` is TRUE for SQLite and the in-memory
store, whose write lock excludes everyone from the re-read on, and FALSE for
PostgreSQL, where the advisory lock excludes governed writers only. A
contradiction linked or a lock that expires after the verification does not stop
the commit, in the code as in the model.

### ActiveSession

`app` and `beat` are the program points of the application's task and of the
heartbeat task between two awaits, `writer` the lease under which a
`replace_context` is in flight. A store call takes effect when it is answered;
one that fails or is cancelled may have taken effect. `Move` is a sequence of
`transition_to` calls: an edge missing from `_ALLOWED_TRANSITIONS` raises, which
ends the heartbeat task. Every registration has its own instance id, so an
instance also names its lease. The in-memory store holds a lock over each
operation; Redis does not, and its reads and writes of one call are taken as one
step here. Registration is the exception: it may stop after the presence.

### ActiveStores

Each action is one call made on the in-memory reference (`mem`) and on Redis (`red`)
at the same instant: register, renew, unregister, `put_context`, and time. `red` has a
key per presence, lease and context, each with a lifetime of its own, and the index;
`parted` collects the instances about which the two are known to differ. Listings,
the two buses and the health probes are operators over the two.

### ProviderGuard and ProviderTransport

The breaker and the limiter are values, their methods operators on values, each
applied in one step because each holds a lock. Instants are kept as distances
that stop growing at the window they are compared with. `op[c]` is where a thread
stands in `_call`, `_ensure_session` and `_parse`; the handshake holds `lock`, but
`session` is read when a request is built and cleared wherever a step fails,
outside the lock. A write lists the provider's tools and calls one, a search lists
them and tries two; the Zep transport makes one call and keeps no session.

### MaintenancePlan and Maintenance

`MaintenancePlan` is the planner: exact duplicates, supersessions of one fact,
contradictions, expiries, releases of held records, with the order and the class
policies of the code, over records reduced to class, content, fact, interval,
state, links, consent, evidence and the signs admission found in their words.
Admission of a candidate (`Admitted`) rejects, holds or takes it. `Maintenance` reads once, then applies its actions one by
one through the service, which judges each against the store as it is by then;
digests enter the ledger with the run's receipt at its end. A consolidation writes
`DerivedRequest`: the latest source's words as stored and its consent, over the
interval of all sources and on the evidence of all; what `again` says is what those
words come to when they are normalised a second time, without the declarations that
came with them. Admission may reject it, hold it or take it. The loop of
`_overlapping_clusters` is a function over the records placed so far (`Placed`).
`moved` counts what governance does, up to `MaxMoved`.

### SourceInvalidation

`request[q]` is the serving of an invalidation: the established event is looked up,
then one query per selector, then every matched record is read again, and one
transaction compares the previous state of each. `ingest[c]` is the keyed write of
a generated candidate which may supersede its elder, `selectors[c]` its rows.
A behaviour is about one member of `Worlds`: which event and sources each request
carries (two requests may share an event, a replay, or dispute it). An
invalidation may archive a SUPERSEDED record that an earlier query found ACTIVE,
as the code does. `standing[q]` is a history variable.

### ReplayedWrites

`ingest-topology-plan` verifies a bundle in two passes (manifest, then plan
document) and writes its candidates under effect identities;
`drain-legacy-write-queue` writes a file's request and then unlinks it. Both die
anywhere, run twice at once and are run again. A hash is the value hashed, and a
write is one step: whichever way a keyed write loses a race it is told DUPLICATE.

### AgentDoor and RemoteCommand

`AgentDoor` has no state: which configurations a server may start with (`MayStart`),
what a request's three headers prove, and what the resulting principal may do.
`RemoteCommand` is one operation from a consumer's process to the store and back:
`initialize`, its notification, the capability receipt, the call; requests and
answers are sets, so the network may delay and lose; the server stops and returns
with another registry; credentials expire and are minted again; and a command is
repeated by its operator under the same key.

### MemoryReads

`call[c]` is a request and the program point of its work, `slots` the bounded
pool's semaphore, `fetch[c]` a search call on the search pool, whose deadline
abandons it without stopping it. `catalog` holds the projected graphs of GDS. Time
is not counted: a budget may turn out to be spent wherever the code looks.

### EvidenceLedger

`cmd[w]` is the command a shell runs and its program point: `add-evidence` looks at the
ledger and the record (`CheckRecord`), tests and copies one proof file after the other,
writes the record, reads the end of the ledger and appends a line; between any two of
these others act, a kill ends it, half a line stays. A check's or an evaluation's reads
are one look, and so are the hash of the record and the end of the ledger; the proofs
of a record are imported in any order. A digest is the thing digested, a signature is
membership in `attested`, and keys are those of the run. `accepted` and `disturbed` are
history variables: what PASS was printed for, and whether anything happened that
the commands do not guard against.
## 3. Runs

All runs finish within five minutes with two workers.

| Run | Checks | Bounds | Distinct states |
|---|---|---|---|
| `outbox_lease` | `HolderIsCurrent`, `PunctualWorkersKeepLeases`, `KeepsPromise`, `EverySettled` | 2 events, 2 workers, batch of 2, 3 attempts, 2 deaths, 1 late tick | 100,000s |
| `memory_ledger` | `OneRecordPerKey`, `DeletionReceiptIsTrue`, `StaleCopyIsOwed`, `OnlyGovernedMoves` | 2 records, 2 callers, 1 key, 3 moves | 100,000s |
| `delivery_faults` | `DeletedHoldsNoLink`, `StaleLinkIsOwed`, `ReactivationSticks`, `DeletionCompletes` | 2 deployments, 1 target, 3 operations, 1 fault of four kinds, 3 copies | 753,186 |
| `active_session` | `HeartbeatSurvives`, `SpeaksForItself`, `OneInstanceListed`, `ClosedLeavesNothing`, `Recovers` | threshold 2, 4 failing calls, 2 lapses | 544,413 |
| `governed_write` | `OnlyOthersIntrude`, `AuthorityIsGranted` | 2 records, 2 callers, 1 task, 2 moves, PostgreSQL | 1,500,000 |
| `remote_command` | `RefusedMeansNothingDone`, `ZeroMeansStored`, `RetriesConverge`, `AttributedToSigner`, `CommandsEnd` | a command and its repetition, 2 ticks, 1 new credential, 1 restart, 4 configurations | 522,960 |
| `provider_transport` | `SparesTheProvider`, `CircuitRecovers` | 2 threads, both transports, threshold 2, recovery 2, 2 faults | 705,487 |
| `maintenance` | `ConsolidationIsExact`, `ComesToRest` | 1 worker, all topics, 1 move, 1 tick, 1 review | 46,119 |
| `source_invalidation` | `InvalidationIsExact`, `ChangeTakesEffect` | 3 candidates, 2 requests, 4 worlds, 1 move, 1 loss | 659,586 |
| `replayed_writes` | `PublishedAsDescribed`, `QueueIsAccounted`, `RerunPublishes` | 2 publishers, 2 drainers, 3 files, limit 2, 2 faults | 374,740 |
| `projection_targets` | `NamedCopiesAreKept`, `CutoverLeavesNothing`, `MigrationCompletes` | 2 records, 2 targets, 2 migrations, batches of 1, rebuilds and cutovers started on an empty queue, 2 moves, 1 fault | 459,426 |
| `memory_reads` | `ServedIsSupported`, `CompleteMeansAll`, `CatalogIsSwept`, `SlotsComeBack` | 2 callers, 1 request and 1 search worker, no backlog, 1 move, 1 fault | 977,619 |

What they show.

* `outbox_lease`: leases are exclusive while live, the queue implements the promise,
  and every event is delivered or dead in the end.
* `memory_ledger`: stale plans never commit, one key has one record whichever way
  retries race, receipts agree with records, and no linked stale copy is without
  an intent.
* `delivery_faults`: canonical links are right under every interleaving; one worker
  never undoes a reactivation; deletions complete where removing twice is no error.
* `active_session`: the heartbeat task survives, an ACTIVE session speaks under its
  own lease, no earlier incarnation stays listed, and a degraded session recovers.
* `governed_write`: what a governed writer commits over differs from its lock's
  snapshot at most by what unlocked callers moved under its transaction.
* `remote_command`: exit code 0 means stored, a failure that claims a refusal means that nothing
  was done (a REJECTED write is an answer with a receipt, not such a failure),
  repetitions under one key converge, records are attributed to who signed, and
  every command ends.
* `provider_transport`: while the provider is in trouble it gets at most one probe per
  recovery timeout, and the circuit closes when it is well.
* `maintenance`: what a consolidation replaces is what it read, and a namespace
  nobody disturbs is one in which maintenance finds nothing to do after finitely many
  runs, but for held reviews and consolidations that no consent covers.
* `source_invalidation`: an applied change archived everything that matched ever since
  it arrived, nothing else, as a whole and once; a resent change takes effect.
* `replayed_writes`: a published plan is what its document describes, a queue file is
  pending or accounted for, and a repetition finishes what a killed run began.
* `projection_targets`: no link forgets a copy its store still holds, a recorded
  cutover leaves no ACTIVE record behind, and every migration reaches its cutover.
* `memory_reads`: what is served rests on records that were current while the caller
  waited, COMPLETE leaves nothing out, and no slot or catalog graph is lost.

Why the bounds are enough. Two workers are needed for a lease to change hands; a
third could only do what the second does. Two events make a batch with an order.
In the ledger two overlapping plans are what a stale plan needs, and a
supersession needs two records. In a delivery a record can be written, retired,
restored and deleted in three operations. In a session, two failures reach the
threshold, a third and fourth make the resynchronisation fail too, and two lapses
allow one during the recovery from the other. A governed write needs one writer to
commit and one to intrude. A repeated command is one retry; one restart puts any two
configurations before and after it. Two threads suffice for a session cleared
under another's request. Two migrations let a copy be two schemes old, and
batches of one make a rebuild stop with work left. One slot and no backlog make
both pools full with the second caller. A rebuild or a cutover is started when no
event is queued (`MaxQueued` 0); the worker may hold one then, and clients add events
before the command commits. In `projection_targets` an event is given up
at its first failure (`OutboxMaxAttempts` 1): a retry would repeat the delivery, as a
death after an external effect already does.

Symmetry is used where all properties are invariants or action properties that
name no element (`memory_ledger`), never with liveness.
Deadlock is checked in `provider_transport`, `replayed_writes` and `memory_reads`. The
other systems really stop: an outbox with nothing left to do, a bounded number of
operations, a closed session.

Unreached branches. In `ActiveSession` the heartbeat's death is excluded by the very
property it is there for; in `ProjectionDelivery` an erasure that is not the last
needs a second target.

### Fairness

* `OutboxLease`: workers poll for ever, a provider call returns or raises (all
  transports have timeouts), time passes. Which of success and failure happens is
  open; deaths are bounded in number. The code does not promise more: a reclaim
  does not count as an attempt, so an event that kills its worker each time never
  becomes `DEAD`.
* `ProjectionDelivery`: a live worker continues and looks for work, an abandoned
  lease is taken over in time, and a queueing provider works its queue off.
* `ProjectionTargets`: the worker and the operator's command in progress continue;
  a call that hangs fails; an operator who keeps trying to rebuild and to cut over
  eventually does (strong fairness, because writers disable both for a while).
* `ActiveSession`: the heartbeat task runs whenever it can. Nothing obliges the
  application to open, drain or close; failures and lapses are optional.
* `RemoteCommand`: the client's process runs and its timeout fires. Nothing is
  assumed of the network or of the server.
* `ProviderTransport`: a thread's own steps and ticks happen. A thread's own steps
  and a healthy provider's answers take no time against the windows; without that,
  the wipe of the session id at transport.py:257, outside the lock, lets two threads
  break each other's handshakes for ever.
* `Maintenance`: a run continues, and the schedule (`.github/workflows/`
  `nightly-maintenance.yml`, one concurrency group, hence one worker) starts another.
  `ComesToRest` speaks of behaviours in which no derived record is held for review,
  and allows for reviews on hold and for consolidations that admission rejects: with
  either the plan of the code never empties (see the divergences).
* `SourceInvalidation`: a sender resends until told "applied", a served request proceeds.
* `ReplayedWrites`: a started run proceeds, and an operator who keeps trying starts
  an applying run.
* `MemoryReads`: work that has a thread proceeds and abandoned provider calls end.
* `GovernedWrite` has none: two principals locking one task can refuse each other for
  ever, and nothing in the code prevents it.

### Divergences

Sentences of the repository that its code does not keep. Each configuration checks
the sentence as a property, and TLC refutes it: `tlc -config X.cfg Module`.

| Configuration (module) | The sentence | What the code does |
|---|---|---|
| `OutboxTuningBatch` (`OutboxTuning`) | ADR-073:63-64: the lease "must exceed the slowest expected projection call" | a lease covers a batch of sequential calls; with more than one event it runs out although each call is shorter |
| `LedgerDeferred` (`MCMemoryLedger`) | memory_service.py:430 "supersession deferred until the quarantined candidate is approved" | approval never reads `supersedes`; both records stay `ACTIVE` |
| `LedgerClose` (`MCMemoryLedger`) | ADR-082:58-60: `0` only when a close record is committed | a retry of a quarantined close is a `DUPLICATE`, reported `COMPLETE` (memory_service.py:1045) |
| `ActiveDrain` (`ActiveSession`) | client.py:583 "stop writes, keep lease until close()" | a drain during a re-registration is forgotten, and the session returns to `ACTIVE` |
| `TransportRestart` (`ProviderTransport`) | transport.py:300 "re-handshake once and retry this exact call" | another thread clears the session id meanwhile; the retry fails and counts against the circuit |
| `MaintenanceHeld` (`MCMaintenance`) | maintenance/service.py:229 "Report it rather than claiming a consolidation that did not happen" | the next run finds the held record, is told `DUPLICATE`, and reports the consolidation applied |
| `SourceRestored` (`MCSourceInvalidation`) | ADR-095:147: a changed source leaves retrieval | selectors are switched off for good; a record restored after an invalidation matches no later change |
| `DrainLimit` (`MCReplayedWrites`) | ADR-070:103: a clean exit means the queue is drained | the drain looks at the first `--limit` files only |
| `ReleaseStrands` (`MCProjectionTargets`) | memory_service.py:1791 "those deletions complete" | a record deleted between the listing and the reading of its links loses its link without completing |

Further ones, met in the models and stated here without a configuration:

* A record written, archived and restored before its first delivery is projected
  twice, and one copy survives its deletion (outbox_worker.py:535).
* With two workers, a retirement that read the record before its reactivation deletes
  the new link (`docs/ARCHITECTURE.md`:176); hence the condition of
  `ReactivationSticks`. A worker that dies after a removal and before the unlinking
  leaves an erase that always fails where removing a missing copy is an error
  (ADR-073:95-96); hence the condition of `DeletionCompletes`.
* Targets enabled in one process while another still plans without them: with
  `Rolling = TRUE` in `MemoryLedger.cfg` TLC refutes `StaleCopyIsOwed` and
  `DeletionReceiptIsTrue`. `_copy_holders` is read before the commit, with the modes of
  the process that plans (memory_service.py:248-264), so a supersession or a deletion
  planned before a link exists queues nothing, and one committed as `DELETED` keeps its
  copy. `OneRecordPerKey` and `OnlyGovernedMoves` hold there too.
* A batch that outruns its lease leaves two copies when both holders deliver; a
  queueing provider ingests a copy after the erase removed nothing.
* A `close` that meets `REGISTERING`, `RE_REGISTERING` or `RESYNCHRONIZING` never
  reaches `CLOSED`; a cancelled register leaves a presence without a lease.
* A REJECTED receipt makes the drain unlink the pending file and report "drained"
  (ADR-070:81); unkeyed queue files killed between write and unlink are stored
  twice; the effect identity of a publication leaves out supersedes, evidence,
  tags, metadata and eligibility, although it "closes every edit".
* Migrations: a copy a provider lost blocks the cutover for ever, since a rebuild
  does not queue a linked record again; a move to a new store under the same
  scope scheme is not seen by a rebuild; a retirement saves its link blindly, so a
  release in between is undone; events given up are not in the backlog a cutover
  checks.
* ADR-075 would report reconciliation findings only; ADR-081 and the code link them
  and mark them applied. Two staggered maintenance runs keep consolidating each
  other's stale sources.
* A consolidation of identity or preference records asks under the consent of its
  latest source from the earliest `valid_from` on (maintenance/service.py:155-192).
  Where that consent begins later, admission rejects it, the run reports a failure
  (236-240), its digest never enters the ledger, and every later run plans it and
  fails it again; since the plan counts its sources as consumed, they are neither
  superseded nor archived meanwhile. The words of a record with a declared number
  are held when they are written again, since `numeric_declarations` is not kept.
* Reads: a cancelled request releases its slot while its work item stays in the
  executor's queue, so the queue grows although service.py:110-117 says it cannot;
  a provider's own TimeoutError is reported as an exhausted budget; nothing calls
  `cleanup_stale_catalog`.

The three record stores, apart from what is proved about them:

* A commit that names a record in two status events is rolled back by SQL and half
  applied in memory (against in_memory_store.py:123-125). The service makes one only
  if a request names a record twice in `supersedes`, which nothing excludes
  (contracts/requests.py:49, memory_service.py:433). Hence `~Repeats`; with it TRUE, TLC refutes `StoresMirror`.
* The foreign key of SQL refuses a link of an unknown record, and the release of a
  link that is gone is nothing in SQL and an insertion in memory.
* "Oldest first" is by `created_at` in SQL and by commit in memory, for cutovers and
  releases; a search reads 20 records in SQL and 10 in memory for each one asked
  for; the receipts of `stats` differ.
* `commit_deletion` writes the redacted record from an earlier read
  (memory_service.py:1573-1596), so a conflict linked meanwhile is missing from the
  tombstone. `list_projection_target_identities` reads links and outbox without a
  snapshot. SQLite's `_transaction` issues `ROLLBACK` although `BEGIN` failed. The
  backfill of schema 9 is skipped once the version is recorded.

The two active backends:

* After a context's key lapsed, its version starts again at 1 in Redis, although the
  contract says "Monotonically increasing"; a lapsed lease lets a stranger unregister
  an instance in Redis and does nothing in memory. With a lease that outlives its
  presence (config/models.py:131-134 does not compare the two lifetimes) the reference
  takes a `put_context` that Redis refuses. These are `parted`.
* A get without an instance differs.
* Redis filters a listing after it was paged (redis_adapters.py:453-456), and offsets
  shift when an instance leaves; the reference starts a listing over whose cursor
  left. An in-memory subscriber of the whole deployment hears every group's copy of
  an announcement (redis_adapters.py:574-576 says that adapters answer alike).

Deployment evidence:

* "records_are_append_once" (`tools/phase6/references/EVIDENCE_CONTRACT.yaml`:49) is
  an `exists()` before a write: two overlapping `add-evidence` may both pass it, and
  the later record stays. If the first then hashes the record of the second for its
  line, and the second is killed before it appends one, a GO rests on a record other
  than the one accepted, of the same proofs: hence the conclusion of `AcceptedIsDecided`. A torn last line makes every
  command that reads it before it appends raise; one that had read the ledger
  before ends the torn line and appends after it (phase6ctl.py:198-201), and the line
  stays broken. The run is given up, as `RUNBOOK.md` says. All immediate NO-GO
  conditions of the shipped policy are about records; `Triggers` has no others.

`RecordStores`, `StoreReads`, `ActiveStores` and `EvidenceLedger` are in no run. `EvidenceLedger`
was explored breadth first over eight million states before it was proved. The claims of
the others are equalities of two or three implementations, which the proofs cover for
all constants. TLC explored them before they were proved, `ActiveStores` breadth first
over four million states and `RecordStores` by simulation.

Every property of a passing run has a mutated definition in the module it is about
(marked "Mutation:" and used by no action) under which the run's instance violates it.
## 4. Proofs

`tlapm` checks every leaf. In each module the inductive invariant (`IInv`, or one named after its
component) is a conjunction of named parts, there is one lemma per action, and a temporal theorem
combines "initially", "preserved by each step" and "implies the property".

### OutboxTargetsProofs

`OutboxLease`. Assumptions: `EventsAssumption` (events are a finite set of numbers, the ranks
of `created_at`), `LeasesAssumption` (`NoLease` is no lease), `LimitsAssumption`
(the settings are positive, as the configuration model requires). Workers, the
number of events and all bounds are arbitrary.
Theorems: `TypeCorrect`, `OneCurrentHolder`, `LeasesKeptInTime`, `LiveLeaseKept` and
`Refinement` (`Spec => KeepsPromise`).

`HolderIsCurrent` is not inductive: it says nothing of claims whose lease was
taken over, so a fresh lease could collide with one of them, and nothing of the
leases of different batches. `IInv` adds that each lease in a batch was given to
one batch only and to an event once, that a row carries a lease exactly while it
is `PROCESSING`, that a claim which still holds its row remembers the row's
attempts, that attempts of unfinished rows stay below `MaxAttempts`, and that
without a late tick every claim holds its row with time left.

`ProjectionTargets`: records, targets, batches, bounds and the sequence of runtimes are
arbitrary, except that each runtime is one the constructor accepts (`Valid`), there are
at least two, and their schemes never decrease: the theorems say nothing of a roll-back
to an older store. Theorems: `NamedKept` (`NamedCopiesAreKept`), `CutoverSafe`
(`CutoverLeavesNothing`). Both are action properties, and the steps they judge act on
what was read several steps before. `TargetsInv` therefore says what the worker still
knows of the link it will overwrite (`WorkerKnows`), that every copy a release will
forget lies in a store that is destroyed (`PlanHolds` with `SoundIn`, which bounds the
scheme of a copy by the side of the cutover it was left on, and `StoresSound`), and
what has become of each record that a cutover check has passed (`CutoverHolds`): it is
queued, on the worker's way to the new store, or linked to a copy there. That a worker
taking a copy away from an ACTIVE record has an event queued behind it (`KindsAgree`)
keeps the last one inductive. A copy lost, restored and lost again during the check is
one lost during the check: without that, `operator.lost` would count it among those
lost before, and the property would be false.

### LedgerProofs

`MemoryLedger`. Assumptions: `NoValuesAssumption`, `MaxMovesAssumption` and
`RollingAssumption`. Records, keys and callers are arbitrary sets. Theorems:
`TypeCorrect`, `OneRecord`, `GovernedOnly`, and where `Rolling` is FALSE `ReceiptsTrue`
and `StaleCopiesOwed`.

A plan is about states that may be gone when it commits, so nothing can be said
of the records it names except through the comparison at the commit. `IInv`
states what a plan says of itself (`Shape`: each state it expects may legally move
to its target); that the record of a planned write is not stored and is planned
by one caller only (`Reservations`, which is what fresh identifiers give); and
that a record a plan makes stale without queueing an intent has no copy and can
gain none while the plan is pending (`NothingUntold`: it holds where targets change
only across a restart that no plan survives).

`Maintenance`. What is observed, governance, runs and bounds are arbitrary. Assumptions:
`BoundsAssumption`, `ForeverAssumption`, and `TopicsAssumption`: observations of one
content assert the same, because the digest a DEDUPE groups by covers the assertion.
Theorems: `MaintenanceTypeCorrect`, `ConsolidationsAreExact` (`ConsolidationIsExact`).
The argument has two halves. Of the planner: a cluster is *solid* (no instant between
two at which its records hold is one at which none of them does), because the records
are placed in the order their intervals begin and a record joins a cluster it overlaps
(`JoinSolid`, `PlacedSolid`, by the least set of placed records that would break it),
so one interval from the earliest beginning to the latest end covers exactly what the
cluster did (`SolidSpan`). Of the runs: a consolidation is committed against records
that may have moved since they were read, so `MaintenanceInv` says that what a run
still has to do was exact for its reading, and that no step rewrites the content,
assertion or interval of a record read (`Follows`, `Keeps`).

### DeliveryProofs

`ProjectionDelivery`: targets, attempts, operations, faults and deployments are arbitrary, workers a
finite set (`WorkersAssumption`). Theorems: `TypeCorrect`, `DeletedIsUnlinked`,
`StaleLinksOwed`, `Reactivated`. `IInv` adds `Intents` (which events a lifecycle
state leaves behind) and, for each worker, what it still owes the link it is about
to install or has just withdrawn (`Placed`, `Withdrawn`): a worker between its
provider call and its link transaction is the reason why the first two properties
are not inductive. `Reactivated` (`ReactivationSticks`) needs a second invariant,
`SoloInv`, about the deployments with one worker: the copy it carries is with the
provider, what it saw of the link is still so, and once the event of the last
operation is delivered, the worker is not on a way that would take the copy or the
link away again.

`EvidenceLedger`: the constants are arbitrary within `EvidenceParameters`, a hypothesis of
the theorems. Theorems: `EvidenceTypeCorrect`, `AcceptedAreDecided` (`AcceptedIsDecided`),
`BrokenForGood` (`BreaksStay`), `UndisturbedIsIntact` (`UndisturbedRunIsIntact`). The
first speaks of what was accepted, the code decides on lines: `EvidenceSound` says that
a line in hand is about the record its command was given (`LineFits`) and that every
accepted record has a line naming its proofs, unless its check is named twice or a
line is torn (`Backed`); both refuse every later GO, because no line is ever mended.
The last one needs the middle of every command: in a run nobody disturbed at most
one check is half recorded, in the way its command's program point says (`Whole`).

### AdapterProofs

`StoreReads`. The constants are arbitrary within `StoreParameters` and `ReadParameters`, which are
hypotheses of the theorems; commits that name a record in two status events are
excluded (`~Repeats`; section 3 says why). `ThreeMirrors`: after any sequence of
commits SQLite, PostgreSQL and the in-memory store hold the same facts, although
one keeps a unique index and a table where the other keeps a dictionary and a list.
`SameAnswers`: each such commit gets the same answer from all three. `NothingHalf`: a
refused commit leaves nothing behind, in the store without rollback too.
`StoresTyped`: under such commits the tables keep their shape. `CommitsAgree`: one step of it, for
every such commit. `TextOrder`, `SearchesAgree`, `LookupsAgree`: ISO text orders as
instants do; a search finds the same records; key, action, selector and link look-ups
agree.

`ProviderTransport`: callers, transports, thresholds, windows and limits are arbitrary
positive numbers or sets, as the constructors demand. Theorem: `Spared`
(`SparesTheProvider`). The property counts the ticks since the latest failure or probe,
which the breaker does not keep as such: `CircuitInv` says that while the circuit is
open it is the age of the failure, and while it is half open that of the probe,
whatever late report came in between.

### ActiveMemoryProofs

`ActiveSession`: the only assumption is `BoundsAssumption`; the theorems hold for
outages of any length. Theorems: `TypeCorrect`, `HeartbeatLives`, `HoldsOwnLease`,
`ListedOnce`, `LeavesNothing`. That the heartbeat meets no illegal edge needs the
lifecycle state at each of its awaits (`Places`). `SpeaksForItself` needs
`LeaseMatches`: a lease that is not the current instance's is no longer valid, so a
renewal that succeeds was of the session's own lease. The properties about what is
left behind need `Clean`: as long as no call failed, the store holds nothing but the
session's lease, and nothing at all between clean-up and registration.

`ActiveStores`: under `Parameters` (kinds of the constants, a hypothesis of the
theorems; the lifetimes are arbitrary and not compared, as in config/models.py) the
Redis adapter answers as the in-memory reference does (`AnswersAgree`, `ReadsAgree`,
`PeersAgree`), except about an instance whose context lapsed before its next version,
whose lease outlived its presence when it put a context, or whose lapsed lease a
stranger released (`parted`). `StoresInv` says what is stored alike for every other
instance. What the two buses deliver and the probes report is stated as lemmas.

### AgentWritesProofs

`GovernedWrite`: records, callers, administrators and tasks are arbitrary. Theorems:
`TypeCorrect`, `GovernedOverSnapshot`, `AuthorityNeverBorrowed`. `IInv` adds that every
lock in the table is one that was granted, that a caller saves only its own locks,
and that nobody is recorded as an intruder while nobody commits (`Provenance`).

`RemoteCommand`: agents, keys, deployments, commands, lost and late messages and
restarts are arbitrary. Assumptions: a deployment registers a key for the agent it
was issued to only (`DeploymentsAssumption`: issuing keys is the operator's business,
outside the program), and well-formed constants. Theorems: `Refused`, `Zero`,
`Converges`, `Attributed`. None of the four is inductive, for they speak of what a
client was told, and the answer that will tell it is still on the wire, in the
tool pool or not yet decided. `CommandInv` follows the one request a command has
under way (`OneRequest`, `Underway`), says what each answer in flight is true of
(`AnswerIsTrue`), and carries the principal of a request to the record (`Signed`).

### IngestionProofs

`SourceInvalidation`: candidates, requests, sources, worlds and bounds are arbitrary.
Theorems: `TypeCorrect`, `OperationIsExact`. `IInv` adds `Tracked` (what a change
concerns, has been ACTIVE ever since and still has a live selector was found, or its
query is still to come) and `Unborn` (a planned candidate is not stored); the type
says that plans hold only states they may start from.

`ReplayedWrites`: editions of a plan, what may damage a bundle, evidence, verdicts,
queue files and processes are arbitrary; the assumptions say only that plan documents
are finite sequences and that every candidate and file has a verdict. Theorems:
`Published` (`PublishedAsDescribed`), `Drained` (`QueueIsAccounted`). `PublicationInv`
adds that a run which executes holds a validated plan and that every stored write is
the one its key describes; `QueueInv` that the receipt a drain holds between its
write and its unlinking is about the file it is at, and right.

### MemoryReadsProofs

Callers, requests, records, namespaces, pools and answers of the providers are
arbitrary. `ObservationsAssumption`: a backend whose answer is not truncated and
stays in scope names all the nodes it has. Theorems: `Served`, `Complete`, `Swept`.
`IInv` follows each request while it is worked on: what it has kept or admitted
was admissible at some time since it was asked (`Sound`), and, as long as the
request is not flawed, what was admissible all the time is kept or still to be read,
at every place the work can be at (`Account`).

### Only model-checked

Every invariant that a run checks is proved. Liveness stays with TLC (`EverySettled`,
`DeletionCompletes`, `Recovers`, `CommandsEnd`, `CircuitRecovers`, `ComesToRest`,
`ChangeTakesEffect`, `RerunPublishes`, `MigrationCompletes`, `SlotsComeBack`): it is
out of reach of this prover. That the three stores agree, that the two active
backends do, and what is said of `EvidenceLedger` is proved and in no run.

## 5. What the models leave out

* Content: text, embeddings, scores, tenants. Admission's verdict, the choice of
  records by retention, and a reviewer's decision are inputs, chosen in every
  possible way.
* `ProjectionTargets`: one operator, one command at a time; service, worker and CLI
  are redeployed together; a rebuild reads one target's records and links at once; the
  graph store is addressed by name and synchronous;
  previews; migrations backwards.
* `ActiveSession`: reads by peers, the awareness bus, health (in `ActiveStores`).
* `ActiveStores`: presence versions, the null adapters, interleavings within a call.
* `RecordStores`: schema migrations, row encoding, failures of the disk.
* `MemoryReads`: caps on nodes and edges, rank limits and relevance cut-offs (the
  query is fixed; with the caps a path may be served one of whose hops was cut from
  the list of edges), an analytic over a scope without relationships, which returns
  before it projects (neo4j_graph_intelligence.py:678), the release of a slot just after its result is set, shadow
  targets, link prediction, crashes of the process. A caller asks again only after
  its own abandoned call ended.
* `SourceInvalidation`: grants are never empty.
* `RemoteCommand`: transports other than HTTP, and tools other than write, close,
  search and get.

## 6. Not modelled

Lineage and schema are pure functions over stored documents. Integrations map
requests and responses of other services. Client configuration reads and writes a
file of another program. Observability, configuration and secrets have no state the
system's correctness depends on; extraction is text processing; the TypeScript
client is a typed wrapper; other deployment scripts and the assurance tools
(packaging, collectors of evidence, the canary scan) are not part of the running program.

