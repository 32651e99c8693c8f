------------------------- MODULE ProviderTransport -------------------------
(***************************************************************************)
(* The threads of one process that share a transport to the projection     *)
(* provider: HttpMcpTransport, which keeps a session with a Graphiti MCP   *)
(* server, or ZepCloudTransport, which keeps none.                         *)
(*                                                                         *)
(* The breaker and the limiter are atomic, the handshake holds a lock, and *)
(* nothing else is protected: the session id is read when a request is     *)
(* built, and cleared wherever a step fails.  The provider, modelled from  *)
(* what the transports expect of it, may be down, misbehave or restart,    *)
(* which makes every session it had issued unknown.                        *)
(*                                                                         *)
(* An operation is a list of remote calls: a write lists the provider's    *)
(* tools and calls one of them, a search lists them and tries up to two.   *)
(***************************************************************************)
EXTENDS ProviderGuard, FiniteSets

CONSTANTS
    Callers,      \* threads of the process
    Transports,   \* what the process may be configured with: "mcp", "zep"
    NoCaller,     \* nobody holds the session lock
    MaxFaults     \* bound: times the provider's condition changes

ASSUME CallersAssumption == NoCaller \notin Callers /\ Transports \subseteq {"mcp", "zep"}
ASSUME FaultsAssumption == MaxFaults \in Nat

VARIABLES
    transport,  \* the one this process was configured with
    breaker,    \* its CircuitBreaker
    limiter,    \* its RateLimiter
    session,    \* _session_id: none, or one the provider knows, or no longer
    lock,       \* the thread inside _ensure_session
    op,         \* op[c]: where caller c is
    lastOk,     \* Zep: _last_connectivity_ok
    provider,   \* the provider's condition
    faults,     \* changes of it so far
    calm        \* history: ticks since the last failure that opened the
                \* circuit or probe it let through, unless a success came after

transportVars == <<transport, breaker, limiter, session, lock, op, lastOk, provider, faults, calm>>

Sessions == {"none", "live", "stale"}

\* at: the step the caller takes next.  left: the remote calls its operation
\* still has after this one.  header: the session id its request carries.
\* again: a session error may still be answered with another handshake.
Stations == {"idle", "out", "enter", "limit", "session", "initialize", "notify", "broken",
             "post", "sent", "report"}
Verdicts == {"none", "success", "failure", "neutral"}
Ops == [at : Stations, do : {"none", "write", "search", "call"}, left : 0..2,
        header : Sessions, again : BOOLEAN, verdict : Verdicts, passed : BOOLEAN]

Idle == [at |-> "idle", do |-> "none", left |-> 0, header |-> "none", again |-> TRUE,
         verdict |-> "none", passed |-> FALSE]

TransportInit ==
    /\ transport \in Transports
    /\ breaker = Closed
    /\ limiter = Unused
    /\ session = "none"
    /\ lock = NoCaller
    /\ op = [c \in Callers |-> Idle]
    /\ lastOk = "unknown"
    /\ provider = "healthy"
    /\ faults = 0
    /\ calm = Recovery

sessionVars == <<session, lock>>
worldVars   == <<transport, provider, faults>>

---------------------------------------------------------------------------
\* The end of one remote call, and what the operation does next.

Goto(c, station) == op' = [op EXCEPT ![c].at = station]

\* (the last remote call of an operation is like a call of its own)
Next1(o) == [Idle EXCEPT !.at = "enter", !.left = o.left - 1,
                         !.do = IF o.left = 1 THEN "call" ELSE o.do]

\* A search goes on with its second tool when the first failed or found
\* nothing; everything else ends at the first failure.
Passed(o) == IF o.left = 0 THEN {Idle}
             ELSE IF o.do = "search" /\ o.left = 1 THEN {Idle, Next1(o)} ELSE {Next1(o)}
Failed(o) == IF o.do = "search" /\ o.left = 1 THEN {Next1(o)} ELSE {Idle}

CallFails(c)  == \E next \in Failed(op[c]) : op' = [op EXCEPT ![c] = next]
CallPasses(c) == \E next \in Passed(op[c]) : op' = [op EXCEPT ![c] = next]

\* record_failure, with the history of the provider's troubles
Blame ==
    /\ breaker' = RecordFailure(breaker)
    /\ calm' = IF breaker'.state = "open" THEN 0 ELSE calm

Praise ==
    /\ breaker' = RecordSuccess(breaker)
    /\ calm' = Recovery

---------------------------------------------------------------------------
\* Starting an operation.

\* HttpMcpTransport.write takes its slot in the window before anything else,
\* whatever the circuit says.  A full window raises, and nothing was done.
StartWrite(c) ==
    /\ op[c].at = "idle"
    /\ IF transport = "zep"
       THEN op' = [op EXCEPT ![c].at = "enter", ![c].do = "write"] /\ UNCHANGED limiter
       ELSE /\ Allow(limiter)
            /\ limiter' = Recorded(limiter)
            /\ op' = [op EXCEPT ![c].at = "enter", ![c].do = "call", ![c].left = 1]
    /\ UNCHANGED <<worldVars, sessionVars, breaker, lastOk, calm>>

StartSearch(c) ==
    /\ op[c].at = "idle"
    /\ op' = [op EXCEPT ![c].at = "enter", ![c].do = "search",
                        ![c].left = IF transport = "zep" THEN 0 ELSE 2]
    /\ UNCHANGED <<worldVars, sessionVars, breaker, limiter, lastOk, calm>>

\* health, list_tools, and the tools a deletion calls by name
StartCall(c) ==
    /\ op[c].at = "idle"
    /\ op' = [op EXCEPT ![c].at = "enter", ![c].do = "call"]
    /\ UNCHANGED <<worldVars, sessionVars, breaker, limiter, lastOk, calm>>

---------------------------------------------------------------------------
\* One remote call.

\* can_execute: a call the circuit keeps out fails without being reported, and
\* its caller tries nothing more before the next tick
KeptOut(c) == \E next \in Failed(op[c]) :
    op' = [op EXCEPT ![c] = IF next = Idle THEN [Idle EXCEPT !.at = "out"] ELSE next]

Enter(c) ==
    /\ op[c].at = "enter"
    /\ IF CanExecute(breaker)
       THEN /\ breaker' = Executed(breaker)
            /\ calm' = IF breaker.state = "closed" THEN calm ELSE 0
            /\ Goto(c, CASE transport = "mcp" -> "session"
                         [] transport = "zep" /\ op[c].do = "search" -> "sent"
                         [] OTHER -> "limit")
       ELSE KeptOut(c) /\ UNCHANGED <<breaker, calm>>
    /\ UNCHANGED <<worldVars, sessionVars, limiter, lastOk>>

\* Zep asks the limiter after the circuit let the call in.  A full window
\* raises past the report: a probe is spent and nobody learns how it went.
Limit(c) ==
    /\ op[c].at = "limit"
    /\ IF Allow(limiter)
       THEN limiter' = Recorded(limiter) /\ Goto(c, "sent")
       ELSE CallFails(c) /\ UNCHANGED limiter
    /\ UNCHANGED <<worldVars, sessionVars, breaker, lastOk, calm>>

\* _ensure_session: wait for the lock, and go on when somebody has a session
EnsureSession(c) ==
    /\ op[c].at = "session" /\ lock = NoCaller
    /\ IF session # "none" THEN Goto(c, "post") /\ UNCHANGED lock
       ELSE Goto(c, "initialize") /\ lock' = c
    /\ UNCHANGED <<worldVars, session, breaker, limiter, lastOk, calm>>

\* initialize: the provider issues a session, or the handshake is broken off
Initialize(c) ==
    /\ op[c].at = "initialize"
    /\ \/ /\ provider # "down"
          /\ session' = "live" /\ UNCHANGED lock
          /\ Goto(c, "notify")
       \/ /\ provider # "healthy"
          /\ lock' = NoCaller /\ UNCHANGED session
          /\ Goto(c, "broken")
    /\ UNCHANGED <<worldVars, breaker, limiter, lastOk, calm>>

\* notifications/initialized, which carries the session like any request
Notify(c) ==
    /\ op[c].at = "notify"
    /\ \/ /\ provider # "down" /\ session = "live"
          /\ UNCHANGED session
          /\ Goto(c, "post")
       \/ /\ provider # "healthy" \/ session # "live"
          /\ session' = "none"
          /\ Goto(c, "broken")
    /\ lock' = NoCaller
    /\ UNCHANGED <<worldVars, breaker, limiter, lastOk, calm>>

\* The lock is free again when _rpc clears the session, whoever has made one
\* since (the second handshake of a call leaves that to _ensure_session), and
\* reports the failure.
HandshakeFails(c) ==
    /\ op[c].at = "broken"
    /\ session' = IF op[c].again THEN "none" ELSE session
    /\ op' = [op EXCEPT ![c].at = "report", ![c].verdict = "failure"]
    /\ UNCHANGED <<worldVars, lock, breaker, limiter, lastOk, calm>>

\* _post: the headers take whatever session there is now
Post(c) ==
    /\ op[c].at = "post"
    /\ op' = [op EXCEPT ![c].at = "sent", ![c].header = session]
    /\ UNCHANGED <<worldVars, sessionVars, breaker, limiter, lastOk, calm>>

\* The provider answers 400 without a session and 404 to one it does not know.
SessionError(c) == transport = "mcp" /\ provider # "down" /\ op[c].header # "live"

\* What a provider may answer, and what an erring one does: nothing, an HTTP or
\* JSON-RPC error, a body nobody can read, a tool's error as such or inside its
\* result, or the result.
Outages  == {"unreachable", "http_error"}
Replies  == {"result", "tool_error", "error_inside", "invalid_params", "server_error"}
Garbled  == {"not_json", "media_type"}

Answers ==
    CASE provider = "healthy" -> {"result"}
      [] provider = "down"    -> {"unreachable"}
      [] provider = "erring" /\ transport = "mcp" -> Outages \cup Replies \cup Garbled
      [] provider = "erring" /\ transport = "zep" -> {"result", "http_error", "no_such_api"}

\* _parse_body: a media type or a shape nobody expects says nothing of the
\* provider's availability; text that is not JSON does
Readable(answer) == answer \notin Garbled

\* rpc_error_is_availability, of the codes that describe the request
RpcErrorIsAvailability(answer) == answer # "invalid_params"

\* What is reported of an answer.  A tool's own error is no failure of the
\* provider and no success; one inside its result was a success to _rpc.
Verdict(answer) ==
    CASE answer \in {"result", "error_inside"} -> "success"
      [] answer \in Outages \cup {"not_json"} -> "failure"
      [] answer \in {"server_error", "invalid_params"} ->
            IF RpcErrorIsAvailability(answer) THEN "failure" ELSE "neutral"
      [] answer \in {"tool_error", "no_such_api"} \/ ~Readable(answer) -> "neutral"

\* Zep keeps the last outcome for its health report before it reports to the
\* breaker; an operation its client lacks is not an outcome.
KeepsOutcome(verdict) ==
    lastOk' = IF transport = "mcp" \/ verdict = "neutral" THEN lastOk
              ELSE IF verdict = "success" THEN "yes" ELSE "no"

Answer(c) ==
    /\ op[c].at = "sent" /\ ~SessionError(c)
    /\ \E answer \in Answers :
          /\ op' = [op EXCEPT ![c].at = "report", ![c].header = "none",
                              ![c].verdict = Verdict(answer), ![c].passed = answer = "result"]
          /\ KeepsOutcome(Verdict(answer))
    /\ UNCHANGED <<worldVars, sessionVars, breaker, limiter, calm>>

\* A session error is answered with one more handshake, for this very call;
\* the second one is a failure of the provider.
Rehandshake(c) ==
    /\ op[c].at = "sent" /\ SessionError(c)
    /\ IF op[c].again
       THEN /\ session' = "none"
            /\ op' = [op EXCEPT ![c].at = "session", ![c].header = "none", ![c].again = FALSE]
       ELSE /\ op' = [op EXCEPT ![c].at = "report", ![c].verdict = "failure",
                                ![c].header = "none"]
            /\ UNCHANGED session
    /\ UNCHANGED <<worldVars, lock, breaker, limiter, lastOk, calm>>

\* Reports outside every lock but the breaker's own.  An error inside an
\* answer that was a success for the breaker fails the call all the same.
Report(c) ==
    /\ op[c].at = "report"
    /\ CASE op[c].verdict = "failure" -> Blame
         [] op[c].verdict = "success" -> Praise
         [] OTHER -> UNCHANGED <<breaker, calm>>
    /\ IF op[c].passed THEN CallPasses(c) ELSE CallFails(c)
    /\ UNCHANGED <<worldVars, sessionVars, limiter, lastOk>>

---------------------------------------------------------------------------
\* The world

Forgotten(s) == IF s = "live" THEN "stale" ELSE s

\* The provider's condition changes; when it restarts it forgets its sessions.
Change(condition, restarted) ==
    /\ faults < MaxFaults
    /\ condition # provider \/ restarted
    /\ provider' = condition
    /\ faults' = faults + 1
    /\ session' = IF restarted THEN Forgotten(session) ELSE session
    /\ op' = IF restarted THEN [c \in Callers |-> [op[c] EXCEPT !.header = Forgotten(@)]] ELSE op
    /\ UNCHANGED <<transport, breaker, limiter, lock, lastOk, calm>>

\* A thread's own steps take no time against the windows, and neither do the
\* answers of a healthy provider; a provider in trouble may be late with them.
Busy(c) == \/ op[c].at \in {"enter", "limit", "broken", "post", "report"}
           \/ op[c].at = "session" /\ lock = NoCaller
           \/ op[c].at \in {"initialize", "notify", "sent"} /\ provider = "healthy"

Tick ==
    /\ \A c \in Callers : ~Busy(c)
    /\ breaker' = AgedBreaker(breaker)
    /\ limiter' = AgedLimiter(limiter)
    /\ calm' = OneTickOn(calm)
    /\ op' = [c \in Callers |-> IF op[c].at = "out" THEN Idle ELSE op[c]]
    /\ UNCHANGED <<worldVars, sessionVars, lastOk>>

Works(c) ==
    \/ Enter(c) \/ Limit(c) \/ EnsureSession(c) \/ Initialize(c) \/ Notify(c)
    \/ HandshakeFails(c) \/ Post(c) \/ Answer(c) \/ Rehandshake(c) \/ Report(c)

Starts(c) == StartWrite(c) \/ StartSearch(c) \/ StartCall(c)

TransportNext ==
    \/ \E c \in Callers : Works(c) \/ Starts(c)
    \/ \E condition \in {"healthy", "erring", "down"}, restarted \in BOOLEAN :
          Change(condition, restarted)
    \/ Tick

\* A thread inside an operation runs on, urlopen has a timeout, the workers
\* poll again, and time passes.
Fairness ==
    /\ \A c \in Callers : WF_transportVars(Works(c)) /\ WF_transportVars(Starts(c))
    /\ WF_transportVars(Tick)

TransportSpec == TransportInit /\ [][TransportNext]_transportVars /\ Fairness

---------------------------------------------------------------------------
\* Properties

\* A provider whose circuit is not closed is left alone: between a failure or
\* a probe and the next probe lies a whole recovery window, however late the
\* answers to older calls come, unless one of them was a success.
SparesTheProvider ==
    [][\A c \in Callers :
          op[c].at = "enter" /\ op'[c].at \in {"session", "limit", "sent"}
             /\ breaker.state # "closed"
          => calm = Recovery]_transportVars

\* A provider that is well again gets its circuit closed, whatever happened to
\* the probes sent out while it was not (F-002: an unreported probe may not
\* keep the circuit half open for ever).
CircuitRecovers == <>[](provider = "healthy") => <>[](breaker.state = "closed")

\* What _rpc_once says of a session the provider forgot: re-handshake once and
\* retry this exact call.  A provider that only restarts is blamed for nothing.
RestartIsForgiven ==
    [][provider = "healthy" => \A c \in Callers :
          op[c].at = "sent" /\ op'[c].at = "report" => op'[c].verdict # "failure"]_transportVars
=============================================================================
