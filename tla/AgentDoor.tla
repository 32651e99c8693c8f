------------------------------ MODULE AgentDoor ------------------------------
(***************************************************************************)
(* Who a request is served as: the configuration a server may start with,  *)
(* the credentials a signed agent sends, and the namespace policy that     *)
(* decides what the resulting principal may do.  There is no state here:   *)
(* RemoteCommand evaluates these operators where the code calls them.      *)
(*                                                                         *)
(* A credential stands for the three headers of a signed agent.  Of the    *)
(* minted assertion it keeps the agent, the key that signed it and its     *)
(* expiry; of the sealed identity evidence the actor it names, the key its *)
(* HMAC was made with and whether it is resolved evidence of the pinned    *)
(* provenance.                                                             *)
(***************************************************************************)
EXTENDS Naturals

CONSTANTS
    Agents,      \* agent ids
    Human,       \* the reserved id of the human door
    Local,       \* the operator a server without authentication serves
    Signatures,  \* signing keys
    NoKey,       \* no key is registered for the agent
    Namespaces,
    MaxTtl,      \* http_agent_assertion_max_ttl_seconds and the tolerated skew
    Margin       \* EXPIRY_MARGIN_SECONDS of the client

ASSUME AgentsAssumption == Human \in Agents /\ Local \notin Agents
ASSUME NoKeyAssumption == NoKey \notin Signatures
ASSUME TimesAssumption == MaxTtl \in Nat /\ Margin \in Nat

Grants ==
    [read : SUBSET Namespaces, write : SUBSET Namespaces, admin : BOOLEAN, wellFormed : BOOLEAN]

Credentials ==
    [agent : Agents, key : Signatures, exp : Nat,
     actor : Agents, sealedWith : Signatures, evidence : {"pinned", "unresolved", "foreign"}]

\* The environment a server starts from.  build stands for its version: one
\* that speaks none of the client's MCP revisions, one that lacks tools the
\* client needs, or the current one.
Configurations ==
    [mode : {"signed-agent", "disabled"}, keys : [Agents -> Signatures \cup {NoKey}],
     grants : [Agents -> Grants], loopback : BOOLEAN,
     build : {"current", "unspoken", "partial"}]

Registered(conf) == {a \in Agents : conf.keys[a] # NoKey}

\* agent_grant_from_config, for an agent that has one
GrantIsValid(grant) == grant.wellFormed

\* SignedAgentAuthenticator.__init__: the whole registry is validated before
\* the server accepts a connection.
RegistryIsServable(conf) ==
    /\ Registered(conf) # {}
    /\ Human \notin Registered(conf)
    /\ \A a \in Registered(conf) : GrantIsValid(conf.grants[a]) /\ ~conf.grants[a].admin

\* run_http: authentication may be disabled on a loopback address only.
MayListen(conf) == conf.mode = "disabled" => conf.loopback

\* Mutation: administrator grants are not looked at when the server starts.
MayStartWithAdministrators(conf) ==
    /\ conf.mode = "signed-agent" => Human \notin Registered(conf)
    /\ MayListen(conf)

\* create_http_app: a registry it cannot serve stops the server at startup.
MayStart(conf) ==
    /\ conf.mode = "signed-agent" => RegistryIsServable(conf)
    /\ MayListen(conf)

---------------------------------------------------------------------------
\* verify_assertion: not expired, of a registered agent, signed with its key
VerifyAssertion(conf, cred, now) ==
    /\ now <= cred.exp
    /\ cred.agent \in Registered(conf)
    /\ cred.key = conf.keys[cred.agent]

\* _verify_assertion_provenance, and the result the resolver reports
ProvenanceIsPinned(cred) == cred.evidence = "pinned"

\* verify_canonical_identity_assertion: integrity under the agent's own key,
\* then that the evidence names this very agent.
VerifyIdentity(conf, cred) ==
    /\ cred.sealedWith = conf.keys[cred.agent]
    /\ cred.actor = cred.agent
    /\ ProvenanceIsPinned(cred)

\* SignedAgentAuthenticator.authenticate
Authenticates(conf, cred, now) ==
    /\ VerifyAssertion(conf, cred, now)
    /\ cred.exp <= now + MaxTtl
    /\ VerifyIdentity(conf, cred)

\* agent_principal: every claim comes from the grant the server loaded
AgentPrincipal(conf, agent) ==
    [agent |-> agent, read |-> conf.grants[agent].read, write |-> conf.grants[agent].write,
     admin |-> conf.grants[agent].admin]

\* _http_local_principal without a signed agent: the local operator, who owns
\* the namespaces of the checkout the server runs in.
LocalPrincipal == [agent |-> Local, read |-> Namespaces, write |-> Namespaces, admin |-> FALSE]

\* principal_for of create_http_app
Served(conf, cred, now) == conf.mode = "disabled" \/ Authenticates(conf, cred, now)

PrincipalFor(conf, cred) ==
    IF conf.mode = "disabled" THEN LocalPrincipal ELSE AgentPrincipal(conf, cred.agent)

\* NamespacePolicy.evaluate
Allowed(principal, action, namespace) ==
    \/ principal.admin
    \/ action = "read" /\ namespace \in principal.read
    \/ action = "write" /\ namespace \in principal.write

\* AgentCredentials.headers: the client refuses to send a spent assertion.
Spent(cred, now) == cred.exp <= now + Margin
=============================================================================
