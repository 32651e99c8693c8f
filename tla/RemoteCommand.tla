---------------------------- MODULE RemoteCommand ----------------------------
(***************************************************************************)
(* One memory operation from a consumer's process to the hosted service    *)
(* and back: the exchanges RemoteMemoryClient makes (initialize, its       *)
(* notification, the capability receipt, the call), the HTTP endpoint that *)
(* authenticates each of them on its own evidence, the pool that runs the  *)
(* tool, and the exit code the command ends with.                          *)
(*                                                                         *)
(* Requests and answers are sets: the network may delay or lose any of     *)
(* them.  The client stops waiting at its timeout, whatever the server     *)
(* still does with the request; the server may stop at any time and come   *)
(* back with another configuration; credentials expire and are minted      *)
(* again.  A command is made once, or again by its operator with the same  *)
(* idempotency key.                                                        *)
(*                                                                         *)
(* The service is reduced to what the answer depends on: the grant, the    *)
(* unique key and the admission verdict.  It is one step here: a replay    *)
(* that loses the race of two commits gets the receipt the lookup would    *)
(* have produced (MemoryLedger has both steps).                            *)
(***************************************************************************)
EXTENDS AgentDoor, FiniteSets

CONSTANTS
    Calls,           \* the tries of a command, in the order of their numbers
    Operations,      \* what they may ask for
    Deployments,     \* the environments an operator tries to start a server with
    Owner,           \* Owner[k]: the agent a signing key was issued to
    Wallets,         \* what a minting host may issue; exp is the lifetime it gives
    MaxTime,         \* bound: clock ticks
    MaxMints,        \* bound: credentials issued
    MaxRestarts      \* bound: times the server stops

ASSUME CallsAssumption == Calls \subseteq Nat /\ {MaxTime, MaxMints, MaxRestarts} \subseteq Nat
ASSUME DeploymentsAssumption ==
    /\ Deployments \subseteq Configurations
    /\ \A c \in Deployments : \A agent \in Registered(c) : Owner[c.keys[agent]] = agent
ASSUME WalletsAssumption == Wallets \subseteq Credentials
ASSUME OperationsAssumption == \A ask \in Operations : {ask.keyed, ask.dry} \subseteq BOOLEAN

VARIABLES
    now,       \* the wall clock
    up,        \* the server accepts connections
    conf,      \* what it loaded when it started
    wallet,    \* the credentials the consumer's environment holds
    bound,     \* the library client has bound the server's receipt
    call,      \* call[n]: where command n is
    flight,    \* requests on the wire
    pool,      \* requests admitted to the tool pool, with their principal
    answers,   \* answers on the wire
    store,     \* canonical records
    mints,     \* credentials issued so far
    restarts   \* times the server stopped

commandVars == <<now, up, conf, wallet, bound, call, flight, pool, answers, store, mints, restarts>>

\* REMOTE_COMMANDS, by what their exit code depends on.  Any other operation
\* is refused before a request is sent.
Reads  == {"search", "get"}
Writes == {"write", "close"}
Remote == Reads \cup Writes

\* What a command may report of the service, and the failures that are not
\* receipts (RemoteFailureKind).
Statuses == {"COMPLETE", "FAILED", "PARTIAL", "ADMITTED", "QUARANTINED", "REJECTED",
             "DUPLICATE", "FOUND", "ABSENT"}

\* The failures that say nothing was done.
Refusals == {"credential_expired", "authentication", "authorization",
             "invalid_request", "unsupported_remotely"}

Kinds == Refusals \cup Statuses \cup
         {"unreachable", "timeout", "protocol", "contract_mismatch", "tool_failure", "none"}

NoCredentials == [agent |-> Human]
NoId          == [call |-> 0, attempt |-> 0]
NoAsk         == [op |-> "none"]

\* holds: the credentials read from the environment once; a provider is asked
\* again on every request.  named: the record the receipt names.
Unmade == [phase |-> "idle", attempt |-> 1, provider |-> FALSE, holds |-> NoCredentials,
         ask |-> NoAsk, kind |-> "none", exit |-> 0, named |-> NoId]

CommandInit ==
    /\ now = 0
    /\ up = TRUE
    /\ conf \in {c \in Deployments : MayStart(c) /\ c.build = "current"}
    /\ wallet \in {w \in Wallets : Authenticates(conf, w, 0)}
    /\ bound = FALSE
    /\ call = [n \in Calls |-> Unmade]
    /\ flight = {}
    /\ pool = {}
    /\ answers = {}
    /\ store = {}
    /\ mints = 0
    /\ restarts = 0

counters   == <<mints, restarts>>
serverVars == <<up, conf, pool, store, counters>>

---------------------------------------------------------------------------
\* The consumer: starting a command and sending its requests.

\* What a command that stops here leaves behind: nothing it waits for.
Done(n, kind, exit, named) ==
    /\ call' = [call EXCEPT ![n] =
          [Unmade EXCEPT !.phase = "done", !.ask = call[n].ask, !.kind = kind, !.exit = exit,
                       !.named = named]]
    /\ answers' = {a \in answers : a.call # n}

\* main of the CLI: a failure that is not a receipt exits with 1
Fails(n, kind) == Done(n, kind, 1, NoId)

\* The operator makes one command, and the same one again when the last try
\* has ended, whatever the server still does with its requests.
Due(n, ask) ==
    /\ call[n].phase = "idle"
    /\ \A m \in Calls : m < n => call[m].phase = "done" /\ call[m].ask \in {ask, NoAsk}

\* _run_remote and RemoteMemoryClient.call.  The CLI makes a client with the
\* credentials of its environment for every command; a library keeps one, with
\* what it has bound and a provider of credentials.
Launch(n, ask, provider) ==
    /\ Due(n, ask)
    /\ ask.op \in Remote
    /\ call' = [call EXCEPT ![n] =
          [Unmade EXCEPT !.phase = IF provider /\ bound THEN "sending" ELSE "connecting",
                       !.ask = ask, !.provider = provider,
                       !.holds = IF provider THEN NoCredentials ELSE wallet]]
    /\ UNCHANGED <<now, wallet, bound, flight, answers, serverVars>>

\* A command the remote control plane does not serve is refused, never run
\* against a local store.
RefuseLaunch(n, ask) ==
    /\ Due(n, ask)
    /\ ask.op \notin Remote
    /\ Fails(n, "unsupported_remotely")
    /\ UNCHANGED <<now, wallet, bound, flight, serverVars>>

\* _current_credentials
Presents(n) == IF call[n].provider THEN wallet ELSE call[n].holds

\* AgentCredentials.headers: a spent assertion is not sent at all.
Unusable(n) == Spent(Presents(n), now)

RefuseSend(n) ==
    /\ call[n].phase \in {"connecting", "sending"}
    /\ Unusable(n)
    /\ Fails(n, "credential_expired")
    /\ UNCHANGED <<now, wallet, bound, flight, serverVars>>

\* connect: three exchanges (initialize, its notification, the capability
\* receipt) which persist nothing, taken as one.  The client binds a revision
\* it speaks and a receipt that names the contract and every tool it calls.
Connect(n) ==
    /\ call[n].phase = "connecting"
    /\ ~Unusable(n)
    /\ up /\ Served(conf, Presents(n), now) /\ conf.build = "current"
    /\ call' = [call EXCEPT ![n].phase = "sending"]
    /\ bound' = (bound \/ call[n].provider)
    /\ UNCHANGED <<now, wallet, flight, answers, serverVars>>

\* A handshake is refused, or cut off or garbled on the way.  (An exchange that is
\* refused and tried once more, as _exchange does for a provider, leaves nothing
\* behind: it is taken when it is tried again.)
ConnectFails(n) ==
    /\ call[n].phase = "connecting"
    /\ ~Unusable(n)
    /\ \/ \E kind \in {"unreachable", "timeout", "protocol"} : Fails(n, kind)
       \/ up /\ ~Served(conf, Presents(n), now) /\ Fails(n, "authentication")
       \/ /\ up /\ Served(conf, Presents(n), now) /\ conf.build # "current"
          /\ Fails(n, "contract_mismatch")
    /\ UNCHANGED <<now, wallet, bound, flight, serverVars>>

Request(n) == [call |-> n, attempt |-> call[n].attempt, cred |-> Presents(n)]

\* _send
Send(n) ==
    /\ call[n].phase = "sending"
    /\ ~Unusable(n)
    /\ flight' = flight \cup {Request(n)}
    /\ call' = [call EXCEPT ![n].phase = "waiting"]
    /\ UNCHANGED <<now, wallet, bound, answers, serverVars>>

---------------------------------------------------------------------------
\* The server.

\* The client still has the connection of this request open.
Awaited(r) == call[r.call].phase = "waiting" /\ call[r.call].attempt = r.attempt

\* An answer to a connection its client has closed goes nowhere.
Answer(r, code, named) ==
    answers' = IF Awaited(r)
               THEN answers \cup {[call |-> r.call, code |-> code, named |-> named]}
               ELSE answers

\* mcp_endpoint: each request is authenticated on its own evidence, before
\* anything of its body is read, and must carry a revision the server speaks.
DoorStatus(r) ==
    CASE ~Served(conf, r.cred, now)  -> "401"
      [] conf.build = "unspoken"     -> "400"
      [] OTHER                       -> "dispatched"

Turn(r) ==
    /\ up
    /\ DoorStatus(r) # "dispatched"
    /\ flight' = flight \ {r}
    /\ Answer(r, DoorStatus(r), NoId)
    /\ UNCHANGED <<now, wallet, bound, call, serverVars>>

Admit(r) ==
    /\ up
    /\ DoorStatus(r) = "dispatched"
    /\ flight' = flight \ {r}
    /\ pool' = pool \cup {[request |-> r, principal |-> PrincipalFor(conf, r.cred)]}
    /\ UNCHANGED <<now, up, conf, wallet, bound, call, answers, store, counters>>

Action(op) == IF op \in Reads THEN "read" ELSE "write"

\* What NamespacePolicy makes of a request
Granted(e) ==
    LET ask == call[e.request.call].ask IN Allowed(e.principal, Action(ask.op), ask.namespace)

\* MCPToolApplication.call up to the service, and the errors handle makes of
\* what it raises; a read without a grant is one, a write is not.
ToolError(e) ==
    LET ask == call[e.request.call].ask IN
    CASE conf.build = "partial"              -> "-32601"
      [] ~ask.wellFormed                     -> "-32602"
      [] ask.op \in Reads /\ ~Granted(e)     -> "AuthorizationError"
      [] OTHER                               -> "none"

RefuseTool(e) ==
    /\ ToolError(e) # "none"
    /\ pool' = pool \ {e}
    /\ Answer(e.request, ToolError(e), NoId)
    /\ UNCHANGED <<now, up, conf, wallet, bound, call, flight, store, counters>>

ServeRead(e, code) ==
    LET ask == call[e.request.call].ask IN
    /\ ToolError(e) = "none"
    /\ \/ ask.op = "search" /\ code \in {"COMPLETE", "FAILED"}
       \/ ask.op = "get" /\ code \in {"FOUND", "ABSENT"}
    /\ pool' = pool \ {e}
    /\ Answer(e.request, code, NoId)
    /\ UNCHANGED <<now, up, conf, wallet, bound, call, flight, store, counters>>

\* Mutation: a dry run of a close reports what a committed one does.
CloseStatusOfDryRun(status, dry) ==
    CASE status \in {"DUPLICATE", "ADMITTED"}   -> "COMPLETE"
      [] status \in {"QUARANTINED", "REJECTED"} -> "FAILED"

\* close: the status of a session close, from that of its write
CloseStatus(status, dry) ==
    CASE status = "DUPLICATE"      -> "COMPLETE"
      [] status \in {"QUARANTINED", "REJECTED"} -> "FAILED"
      [] status = "ADMITTED"       -> IF dry THEN "PARTIAL" ELSE "COMPLETE"

Status(ask, status) == IF ask.op = "close" THEN CloseStatus(status, ask.dry) ELSE status

\* Mutation: no record is looked up under the key.
HoldersForgotten(ask) == {}

Holders(ask) == {r \in store : ask.keyed /\ r.keyed /\ r.namespace = ask.namespace}

\* _admit: the explicit key is taken, so the receipt names its record.
ServeReplay(e) ==
    LET ask == call[e.request.call].ask IN
    /\ ToolError(e) = "none" /\ ask.op \in Writes /\ Granted(e)
    /\ \E r \in Holders(ask) : Answer(e.request, Status(ask, "DUPLICATE"), r.id)
    /\ pool' = pool \ {e}
    /\ UNCHANGED <<now, up, conf, wallet, bound, call, flight, store, counters>>

Id(r) == [call |-> r.call, attempt |-> r.attempt]

\* A receipt names a record unless the write is rejected or the close dry: a dry
\* write names the record it would have made.
Names(ask, status) ==
    ~(status = "REJECTED" \/ (ask.op = "close" /\ ask.dry /\ status = "ADMITTED"))

\* A write that no grant covers is rejected.  A first write is admitted, held or
\* rejected, and what is not rejected is committed unless the run is dry.
\* fault: the store fails at the commit, before or after it took.
ServeWrite(e, status, fault) ==
    LET ask  == call[e.request.call].ask
        took == status # "REJECTED" /\ ~ask.dry /\ fault # "before" IN
    /\ ToolError(e) = "none" /\ ask.op \in Writes
    /\ IF Granted(e) THEN Holders(ask) = {} ELSE status = "REJECTED"
    /\ fault # "none" => status = "ADMITTED" /\ ~ask.dry
    /\ store' = IF took
                THEN store \cup {[id |-> Id(e.request), keyed |-> ask.keyed,
                                  namespace |-> ask.namespace, by |-> e.principal,
                                  key |-> e.request.cred.key]}
                ELSE store
    /\ pool' = pool \ {e}
    /\ IF fault = "none"
       THEN Answer(e.request, Status(ask, status),
                   IF Names(ask, status) THEN Id(e.request) ELSE NoId)
       ELSE Answer(e.request, "StoreError", NoId)
    /\ UNCHANGED <<now, up, conf, wallet, bound, call, flight, counters>>

\* The process stops: what the pool had not finished is gone, and so are the
\* open connections.
Crash ==
    /\ up /\ restarts < MaxRestarts
    /\ up' = FALSE
    /\ pool' = {}
    /\ restarts' = restarts + 1
    /\ UNCHANGED <<now, conf, wallet, bound, call, flight, answers, store, mints>>

Deploy(c) ==
    /\ ~up
    /\ MayStart(c)
    /\ up' = TRUE
    /\ conf' = c
    /\ UNCHANGED <<now, wallet, bound, call, flight, pool, answers, store, counters>>

---------------------------------------------------------------------------
\* The consumer: what it makes of an answer, or of none.

Waits(n) == call[n].phase = "waiting"

\* _exchange: one retry, after an authentication refusal, with what the
\* provider gives now.
Retryable(n, code) == code = "401" /\ call[n].provider /\ call[n].attempt = 1

Retry(n, a) ==
    /\ Waits(n) /\ a.call = n
    /\ Retryable(n, a.code)
    /\ call' = [call EXCEPT ![n].phase = "sending", ![n].attempt = 2]
    /\ answers' = answers \ {a}
    /\ UNCHANGED <<now, wallet, bound, flight, serverVars>>

\* Mutation: every error a tool reports passes for a refusal of the grant.
KindOfAnyToolError(code) ==
    CASE code = "401"                                -> "authentication"
      [] code = "400"                                -> "protocol"
      [] code = "-32601"                             -> "contract_mismatch"
      [] code = "-32602"                             -> "invalid_request"
      [] code \in {"AuthorizationError", "StoreError"} -> "authorization"

\* _http_refusal and _rpc_failure
KindOf(code) ==
    CASE code = "401"                       -> "authentication"
      [] code = "400"                                   -> "protocol"
      [] code = "-32601"                         -> "contract_mismatch"
      [] code = "-32602"                                -> "invalid_request"
      [] code = "AuthorizationError"                    -> "authorization"
      [] code = "StoreError"                            -> "tool_failure"

Fail(n, a) ==
    /\ Waits(n) /\ a.call = n
    /\ a.code \notin Statuses
    /\ ~Retryable(n, a.code)
    /\ Fails(n, KindOf(a.code))
    /\ UNCHANGED <<now, wallet, bound, flight, serverVars>>

\* cmd_write: only a rejection fails the command.
WriteExit(status) == IF status = "REJECTED" THEN 2 ELSE 0

\* cmd_close: a committed close, a dry run that would commit, anything else
CloseExit(status, dry) ==
    CASE status = "COMPLETE"         -> 0
      [] status = "PARTIAL" /\ dry   -> 3
      [] OTHER                       -> 2

\* cmd_search
SearchExit(status) == IF status = "FAILED" THEN 1 ELSE 0

\* cmd_get
GetExit(status) == IF status = "ABSENT" THEN 2 ELSE 0

\* The remote form of each command ends with the exit code of the local one.
ExitOf(ask, status) ==
    CASE ask.op = "write"  -> WriteExit(status)
      [] ask.op = "close"  -> CloseExit(status, ask.dry)
      [] ask.op = "search" -> SearchExit(status)
      [] ask.op = "get"    -> GetExit(status)

Finish(n, a) ==
    /\ Waits(n) /\ a.call = n
    /\ a.code \in Statuses
    /\ Done(n, a.code, ExitOf(call[n].ask, a.code), a.named)
    /\ UNCHANGED <<now, wallet, bound, flight, serverVars>>

\* Mutation: the timeout covers only the connection.
ConnectTimesOut(n) ==
    /\ Waits(n) /\ ~up
    /\ Fails(n, "timeout")
    /\ UNCHANGED <<now, wallet, bound, flight, serverVars>>

\* The timeout: the client gives up whatever the request is at.
TimesOut(n) ==
    /\ Waits(n)
    /\ Fails(n, "timeout")
    /\ UNCHANGED <<now, wallet, bound, flight, serverVars>>

\* A stopped server refuses the connection or breaks it.
Unreachable(n) ==
    /\ Waits(n) /\ ~up
    /\ Fails(n, "unreachable")
    /\ UNCHANGED <<now, wallet, bound, flight, serverVars>>

---------------------------------------------------------------------------
\* Time, and the host that mints credentials.

Tick ==
    /\ now < MaxTime
    /\ now' = now + 1
    /\ UNCHANGED <<wallet, bound, call, flight, answers, serverVars>>

Mint(w) ==
    /\ mints < MaxMints
    /\ wallet' = [w EXCEPT !.exp = now + w.exp]
    /\ mints' = mints + 1
    /\ UNCHANGED <<now, bound, call, flight, answers, up, conf, pool, store, restarts>>

Consumer(n) ==
    \/ \E ask \in Operations, provider \in BOOLEAN : Launch(n, ask, provider)
    \/ \E ask \in Operations : RefuseLaunch(n, ask)
    \/ Connect(n) \/ ConnectFails(n) \/ Send(n) \/ RefuseSend(n)
    \/ \E a \in answers : Retry(n, a) \/ Fail(n, a) \/ Finish(n, a)
    \/ TimesOut(n) \/ Unreachable(n)

Serve(e) ==
    \/ RefuseTool(e) \/ ServeReplay(e)
    \/ \E code \in Statuses : ServeRead(e, code)
    \/ \E status \in {"ADMITTED", "QUARANTINED", "REJECTED"}, fault \in {"none", "before", "after"} :
          ServeWrite(e, status, fault)

Server ==
    \/ \E r \in flight : Turn(r) \/ Admit(r)
    \/ \E e \in pool : Serve(e)
    \/ Crash
    \/ \E c \in Deployments : Deploy(c)

CommandNext ==
    \/ \E n \in Calls : Consumer(n)
    \/ Server
    \/ Tick
    \/ \E w \in Wallets : Mint(w)

\* The client process runs and its timeout fires.
Fairness ==
    \A n \in Calls : /\ WF_commandVars(Connect(n) \/ ConnectFails(n) \/ Send(n) \/ RefuseSend(n))
                     /\ WF_commandVars(TimesOut(n))

CommandSpec == CommandInit /\ [][CommandNext]_commandVars /\ Fairness

---------------------------------------------------------------------------
\* Properties.

\* A failure that names a refusal (credentials, grant, arguments, an operation
\* the remote control plane does not serve), or a receipt that says REJECTED, is
\* the whole outcome: nothing of the command is stored, nor will be by a request
\* still on its way.
RefusedMeansNothingDone ==
    \A n \in Calls : call[n].kind \in Refusals \cup {"REJECTED"} =>
        /\ ~\E r \in store : r.id.call = n
        /\ ~\E r \in flight \cup {e.request : e \in pool} : r.call = n

\* A command that exits with 0 names a stored record: a write, unless it was a
\* dry run (which exits with 0 too), and a session close even then.
ZeroMeansStored ==
    \A n \in Calls :
        /\ call[n].phase = "done" /\ call[n].exit = 0
        /\ call[n].ask.op = "close" \/ (call[n].ask.op = "write" /\ ~call[n].ask.dry)
        => \E r \in store : r.id = call[n].named

\* One command stores at most one record, with or without a key, whatever is
\* retried or lost on the way; commands under one idempotency key store one
\* between them, and each that reports a record, and was no dry run, names that one.
RetriesConverge ==
    /\ \A r, s \in store : r.id.call = s.id.call => r = s
    /\ \A r, s \in store : r.keyed /\ s.keyed /\ r.namespace = s.namespace => r = s
    /\ \A n \in Calls, r \in store :
          /\ call[n].phase = "done" /\ call[n].named # NoId
          /\ r.keyed /\ call[n].ask.keyed /\ ~call[n].ask.dry /\ call[n].ask.namespace = r.namespace
          => call[n].named = r.id

\* Whatever configuration is deployed and whichever credentials are around, a
\* record a signed agent stored is attributed to the agent whose key signed
\* the request, and no administrator is ever served.
AttributedToSigner ==
    \A r \in store :
        /\ ~r.by.admin
        /\ r.by.agent # Local => r.by.agent = Owner[r.key]

\* A command that was started ends, with a receipt or a failure: the client
\* waits for no server longer than its timeout.
CommandsEnd == \A n \in Calls : call[n].phase # "idle" ~> call[n].phase = "done"
=============================================================================
