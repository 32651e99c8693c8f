------------------------------ MODULE ActiveStores ------------------------------
(***************************************************************************)
(* The two backends of active memory side by side: InMemoryActiveStore,    *)
(* the reference, and RedisActiveStore, which keeps every agent instance   *)
(* under three keys with a lifetime of their own and one index.  Each      *)
(* action is one call made on both at the same instant; told holds what    *)
(* the two answered.  The module also has what changes neither of them:    *)
(* reads, listings, the two awareness buses and the health probes.         *)
(*                                                                         *)
(* Presence versions are left out: the reference counts them over all      *)
(* instances, Redis for each.  A call is one step, although Redis answers  *)
(* put_context in several round trips: ActiveSession interleaves them.     *)
(***************************************************************************)
EXTENDS Integers, FiniteSets, Sequences

CONSTANTS
    Incarnations, \* of processes, each with an instance id of its own
    Rank,         \* Rank[i]: the place of <<agent_id, instance_id>> in their order
    AgentOf,      \* AgentOf[i]: the agent_id it runs as
    RoleOf,       \* RoleOf[i]: the role i registers under
    GroupsOf,     \* GroupsOf[i]: its memory_group_ids
    LeaseIds,     \* lease ids; a caller may present one that was never issued
    Drafts,       \* contents of a context
    None,         \* no key, no filter, no expected version
    LeaseTtl, PresenceTtl, ContextTtl,
    PageSize,     \* presences a session asks for at once
    MaxQueue      \* events a subscriber of the in-memory bus may lag behind

VARIABLES
    now,       \* the clock both adapters read
    mem,       \* the dictionaries of InMemoryActiveStore
    red,       \* the keys of RedisActiveStore
    used,      \* instances that registered
    parted,    \* history: instances that the two treat differently from now on
    told       \* the last call's instance and the two answers

storesVars == <<now, mem, red, used, parted, told>>

Groups   == UNION {GroupsOf[i] : i \in Incarnations}
Roles    == {RoleOf[i] : i \in Incarnations}
Presence == [expires : Nat]
Lease    == [id : LeaseIds, expires : Nat]
Context  == [version : Nat \ {0}, draft : Drafts, expires : Nat]
Table(S) == [Incarnations -> S \cup {None}]

StoresTyped ==
    /\ now \in Nat
    /\ mem \in [presence : Table(Presence), lease : Table(Lease),
                context : Table(Context), version : [Incarnations -> Nat]]
    /\ red \in [presence : Table(Presence), lease : Table(Lease),
                context : Table(Context), index : Table(Nat)]
    /\ used \subseteq Incarnations
    /\ parted \subseteq Incarnations
    /\ told.of \in Incarnations \cup {None}

StoresInit ==
    /\ now = 0
    /\ LET empty == [i \in Incarnations |-> None] IN
          /\ mem = [presence |-> empty, lease |-> empty, context |-> empty,
                    version |-> [i \in Incarnations |-> 0]]
          /\ red = [presence |-> empty, lease |-> empty, context |-> empty, index |-> empty]
    /\ used = {}
    /\ parted = {}
    /\ told = [of |-> None, mem |-> "none", red |-> "none"]

-----------------------------------------------------------------------------
(* What counts as there.  The reference keeps what lapsed and compares its *)
(* expiry; a Redis key past its lifetime reads as absent (and the adapter  *)
(* compares the recorded expiry once more, with the same clock here).      *)

Live(k) == k # None /\ now < k.expires
Get(k)  == IF Live(k) THEN k ELSE None

MHolds(i, id) == Live(mem.lease[i]) /\ mem.lease[i].id = id
RHolds(i, id) == Get(red.lease[i]) # None /\ red.lease[i].id = id

Given(i, id) == [id |-> id, expires |-> now + LeaseTtl]
Fresh        == [expires |-> now + PresenceTtl]
Written(v, d) == [version |-> v, draft |-> d, expires |-> now + ContextTtl]

Answered(i, m, r) == told' = [of |-> i, mem |-> m, red |-> r]

-----------------------------------------------------------------------------
(* register: a session registers every incarnation under a new instance id *)

MRegistered(i, id) ==
    [mem EXCEPT !.presence[i] = Fresh, !.lease[i] = Given(i, id)]

RRegistered(i, id) ==
    [red EXCEPT !.presence[i] = Fresh, !.lease[i] = Given(i, id),
                !.index[i] = now + PresenceTtl]

Register(i, id) ==
    /\ i \notin used
    /\ used' = used \cup {i}
    /\ mem' = MRegistered(i, id)
    /\ red' = RRegistered(i, id)
    /\ Answered(i, "registered", "registered")
    /\ UNCHANGED <<now, parted>>

-----------------------------------------------------------------------------
(* renew: a live lease and a live presence, both prolonged                 *)

MRenews(i, id) == MHolds(i, id) /\ Live(mem.presence[i])
RRenews(i, id) == RHolds(i, id) /\ Get(red.presence[i]) # None

MRenewed(i)     == [mem EXCEPT !.lease[i].expires = now + LeaseTtl, !.presence[i] = Fresh]
RRenewed(i, id) == [red EXCEPT !.lease[i] = Given(i, id), !.presence[i] = Fresh,
                               !.index[i] = now + PresenceTtl]

Renew(i, id) ==
    /\ mem' = IF MRenews(i, id) THEN MRenewed(i) ELSE mem
    /\ red' = IF RRenews(i, id) THEN RRenewed(i, id) ELSE red
    /\ Answered(i, IF MRenews(i, id) THEN "renewed" ELSE "LeaseExpired",
                   IF RRenews(i, id) THEN "renewed" ELSE "LeaseExpired")
    /\ UNCHANGED <<now, used, parted>>

-----------------------------------------------------------------------------
(* unregister: inert for anyone but the holder.  The reference remembers a *)
(* lapsed lease and still refuses a stranger; in Redis the key is gone.    *)

MYields(i, id) == mem.lease[i] = None \/ mem.lease[i].id = id
RYields(i, id) == Get(red.lease[i]) = None \/ red.lease[i].id = id

MUnregistered(i) == [mem EXCEPT !.presence[i] = None, !.context[i] = None,
                                !.lease[i] = None, !.version[i] = 0]
RUnregistered(i) == [red EXCEPT !.presence[i] = None, !.context[i] = None,
                                !.lease[i] = None, !.index[i] = None]

Unregister(i, id) ==
    /\ mem' = IF MYields(i, id) THEN MUnregistered(i) ELSE mem
    /\ red' = IF RYields(i, id) THEN RUnregistered(i) ELSE red
    /\ parted' = IF MYields(i, id) # RYields(i, id) THEN parted \cup {i} ELSE parted
    /\ Answered(i, "unregistered", "unregistered")
    /\ UNCHANGED <<now, used>>

-----------------------------------------------------------------------------
(* put_context: compare-and-set on the context's version.  The reference   *)
(* counts versions as long as the registration lasts; the script of Redis  *)
(* reads the version from the context's own key, which lapses.  And the    *)
(* reference accepts a presence that lapsed under a lease that did not,    *)
(* which the settings allow: nothing compares the two lifetimes.           *)

MVersion(i) == mem.version[i]
RVersion(i) == IF Get(red.context[i]) = None THEN 0 ELSE red.context[i].version

Conflicts(expected, version) == expected # None /\ expected # version

MPut(i, id, expected) ==
    IF ~MHolds(i, id) \/ mem.presence[i] = None THEN "LeaseExpired"
    ELSE IF Conflicts(expected, MVersion(i)) THEN "Conflict" ELSE "committed"

RPut(i, id, expected) ==
    IF ~RHolds(i, id) \/ Get(red.presence[i]) = None THEN "LeaseExpired"
    ELSE IF Conflicts(expected, RVersion(i)) THEN "Conflict" ELSE "committed"

Outlived(i, id) == MHolds(i, id) /\ mem.presence[i] # None /\ Get(red.presence[i]) = None

PutContext(i, id, expected, d) ==
    /\ mem' = IF MPut(i, id, expected) = "committed"
              THEN [mem EXCEPT !.version[i] = MVersion(i) + 1,
                               !.context[i] = Written(MVersion(i) + 1, d)]
              ELSE mem
    /\ red' = IF RPut(i, id, expected) = "committed"
              THEN [red EXCEPT !.context[i] = Written(RVersion(i) + 1, d)]
              ELSE red
    /\ parted' = IF MVersion(i) # RVersion(i) \/ Outlived(i, id) THEN parted \cup {i} ELSE parted
    /\ Answered(i, <<MPut(i, id, expected), MVersion(i)>>, <<RPut(i, id, expected), RVersion(i)>>)
    /\ UNCHANGED <<now, used>>

Tick ==
    /\ now' = now + 1
    /\ UNCHANGED <<mem, red, used, parted, told>>

StoresNext ==
    \/ Tick
    \/ \E i \in Incarnations, id \in LeaseIds :
          \/ Register(i, id)
          \/ Renew(i, id)
          \/ Unregister(i, id)
          \/ \E expected \in Nat \cup {None}, d \in Drafts : PutContext(i, id, expected, d)

StoresSpec == StoresInit /\ [][StoresNext]_storesVars

-----------------------------------------------------------------------------
(* Reads.  get_context and get_presence take an agent and, if the caller   *)
(* knows it, an instance: without one the reference answers with what the  *)
(* agent wrote last, and Redis with nothing.                               *)

Latest(table, agent) ==
    LET own == {j \in Incarnations : AgentOf[j] = agent /\ Live(table[j])} IN
    IF own = {} THEN None
    ELSE table[CHOOSE j \in own : \A k \in own : table[k].expires <= table[j].expires]

MRead(table, agent, i) == IF i = None THEN Latest(table, agent) ELSE Get(table[i])
RRead(table, i)        == IF i = None THEN None ELSE Get(table[i])

MContext(i)  == MRead(mem.context, AgentOf[i], i)
RContext(i)  == RRead(red.context, i)
MPresence(i) == MRead(mem.presence, AgentOf[i], i)
RPresence(i) == RRead(red.presence, i)

InScope(i, scope) ==
    /\ scope.role = None \/ RoleOf[i] = scope.role
    /\ scope.group = None \/ scope.group \in GroupsOf[i]

(* list_active.  The reference filters, orders by id and pages by the last *)
(* id it gave out; one that left meanwhile starts the listing over.        *)
MMatches(scope) == {i \in Incarnations : MPresence(i) # None /\ InScope(i, scope)}
MPlace(i, scope) == Cardinality({j \in MMatches(scope) : Rank[j] < Rank[i]})
MStart(cursor, scope) == IF cursor \in MMatches(scope) THEN MPlace(cursor, scope) + 1 ELSE 0
MPage(scope, cursor, limit) ==
    {i \in MMatches(scope) : MPlace(i, scope) \in MStart(cursor, scope) .. MStart(cursor, scope) + limit - 1}

(* Redis takes a window of the index, ordered by expiry, and filters it.   *)
RIndexed == {i \in Incarnations : red.index[i] # None /\ now < red.index[i]}
RPlace(i) ==
    Cardinality({j \in RIndexed :
        red.index[j] < red.index[i] \/ (red.index[j] = red.index[i] /\ Rank[j] < Rank[i])})
RPage(scope, start, limit) ==
    {i \in RIndexed : /\ RPlace(i) \in start .. start + limit - 1
                      /\ RPresence(i) # None
                      /\ InScope(i, scope)}

(* ActiveAgentSession.list_active: the first page, filtered by the roles.  *)
Asked(group, roles) ==
    [group |-> group,
     role |-> IF \E r \in roles : roles = {r} THEN CHOOSE r \in roles : roles = {r} ELSE None]
Filtered(page, roles) ==
    IF Cardinality(roles) \in {0, 1} THEN page ELSE {i \in page : RoleOf[i] \in roles}
MPeers(group, roles) == Filtered(MPage(Asked(group, roles), None, PageSize), roles)
RPeers(group, roles) == Filtered(RPage(Asked(group, roles), 0, PageSize), roles)

-----------------------------------------------------------------------------
(* The awareness buses.  An event names the group it is announced to.  The *)
(* in-memory bus offers every event to every subscriber whose scope it     *)
(* matches, and drops it for one whose queue is full; Redis has a channel  *)
(* for each group and one for events without a group.                      *)

MHears(scope, event) ==
    /\ scope.role = None \/ event.role = scope.role
    /\ scope.group = None \/ event.group = scope.group
Queued(queue, event) == IF Len(queue) >= MaxQueue THEN queue ELSE Append(queue, event)

Channel(group) == IF group = None THEN "global" ELSE <<"group", group>>
RHears(scope, event) ==
    /\ Channel(event.group) = Channel(scope.group)
    /\ scope.role = None \/ event.role = scope.role
    /\ scope.group = None \/ event.group = scope.group

(* _announce: one event for each group of the session, and one without.    *)
Channels(i) == {[group |-> g, role |-> RoleOf[i]] : g \in GroupsOf[i] \cup {None}}

-----------------------------------------------------------------------------
(* Health.  A probe runs its steps until one fails: refused[s] is why step *)
(* s fails, if it does.  An unreachable server is an error, a refusal a    *)
(* report; a binding is healthy if it is enabled and neither adapter       *)
(* reports an error.                                                       *)

Probe(steps, refused) ==
    LET failing == {n \in DOMAIN steps : refused[steps[n]] # "no"}
        first   == CHOOSE n \in failing : \A k \in failing : n <= k
        reason  == refused[steps[first]] IN
    IF failing = {} THEN [connectivity |-> "healthy", completed |-> steps]
    ELSE [connectivity |-> CASE reason = "authentication" -> "unavailable"
                             [] reason = "permission" -> "degraded"
                             [] OTHER -> "unreachable",
          completed |-> SubSeq(steps, 1, first - 1)]

StoreProbe(refused) == Probe(<<"ping", "scalar", "sorted_set">>, refused)
BusProbe(refused)   == Probe(<<"ping", "publish">>, refused)

ReportsError(report) == report.connectivity # "healthy"

Healthy(enabled, refused) ==
    enabled /\ ~ReportsError(StoreProbe(refused)) /\ ~ReportsError(BusProbe(refused))

-----------------------------------------------------------------------------
(* As long as no context of a registered instance lapsed before its next   *)
(* version, no context was put under a lease that outlived the presence,   *)
(* and no stranger unregistered a lapsed lease, both backends answer every *)
(* call alike: a test against the reference speaks for Redis.              *)
SameAnswers == told.of \in parted \/ told.mem = told.red

(* So do reads.                                                            *)
SameReads ==
    \A i \in Incarnations \ parted :
        /\ (MPresence(i) = None) = (RPresence(i) = None)
        /\ MContext(i) = RContext(i)

(* A session discovers the same peers on both, as long as the index fits   *)
(* into one page.                                                          *)
SamePeers ==
    Cardinality(RIndexed) <= PageSize /\ parted = {}
        => \A group \in Groups \cup {None}, roles \in SUBSET Roles :
              MPeers(group, roles) = RPeers(group, roles)
=============================================================================
