----------------------------- MODULE RuntimeBuilder -----------------------------
(***************************************************************************)
(* What the runtime makes of the catalog tables (runtime/builder.rs and    *)
(* the registry of domain/catalog.rs): the rows `db` of one read-only      *)
(* transaction are compiled to a snapshot, or the capture fails.           *)
(*                                                                         *)
(* A table is a function from the ids of its rows.  A row without          *)
(* organization belongs to the deployment (a "system" resource).  A        *)
(* capability, model or version is a small value; the numbers of policies  *)
(* are kept where one bounds another.                                      *)
(***************************************************************************)
EXTENDS Integers, FiniteSets, FiniteSetsExt

CONSTANT None     \* an absent organization, pricing version or bound

(***************************************************************************)
(* The compatibility registry.                                             *)
(***************************************************************************)

Entries(ingress, endpoint, kinds, transport) ==
    {[ingress |-> ingress, endpoint |-> endpoint, credential |-> k, transport |-> transport] :
        k \in kinds}

Google == {"google_application_default", "google_service_account"}
Azure == {"azure_api_key", "azure_workload_identity"}

COMPATIBILITY_REGISTRY == UNION {
    Entries("anthropic", "anthropic_api", {"static_api_key"}, "messages_native"),
    Entries("anthropic", "aws_bedrock", {"aws_default_chain", "aws_assume_role"}, "messages_bedrock"),
    Entries("anthropic", "google_vertex", Google, "messages_vertex"),
    Entries("chat", "openai_api", {"static_api_key"}, "chat_completions"),
    Entries("chat", "azure_openai", Azure, "azure_chat_completions"),
    Entries("responses", "openai_api", {"static_api_key"}, "responses_http"),
    Entries("responses", "openai_api", {"static_api_key"}, "responses_websocket"),
    Entries("responses", "openai_codex", {"oauth_openai_codex"}, "codex_responses"),
    Entries("responses", "azure_openai", Azure, "azure_responses"),
    Entries("gemini", "google_gemini", Google \cup {"static_api_key"}, "generate_content"),
    Entries("gemini", "google_vertex", Google, "vertex_generate_content")}

\* The response modes of an entry: only one transport is a WebSocket.
Supports(entry, mode) ==
    (mode = "websocket") = (entry.transport = "responses_websocket")

Compatibility(ingress, endpoint, credential, transport) ==
    {t \in COMPATIBILITY_REGISTRY :
        /\ t.ingress = ingress /\ t.endpoint = endpoint
        /\ t.credential = credential /\ t.transport = transport}

CompatibleTransport(endpoint, credential, transport) ==
    \E i \in {"anthropic", "chat", "responses", "gemini"} :
        Compatibility(i, endpoint, credential, transport) # {}

(***************************************************************************)
(* Validity of stored values.                                              *)
(***************************************************************************)

\* Dedicated upstream state needs an owner.
IsolationValid(isolation, org) == isolation = "dedicated" => org # None

\* "safe": names are resolved again, certificates are verified, nothing is redirected.
NetworkValid(n) == n.safe /\ ~n.proxy

\* Which literal addresses a policy lets through: denied networks first, then
\* allowed ones, then the class of the address.
ClassAllowed(n, class) == class = "public" \/ class \in n.classes \ {"prohibited"}

ResolverAllows(n, class) == class \notin n.denied /\ (class \in n.allowed \/ ClassAllowed(n, class))

\* A host is a name, resolved when a connection is made, or the class of a literal address.
EndpointAllowed(n, host) == host = "name" \/ (host # "localhost" /\ ResolverAllows(n, host))

\* A Codex endpoint has one fixed address.
EndpointUrlValid(e) == e.url # "http" /\ (e.adapter = "openai_codex" => e.url = "codex")

CeilingValid(c) == c.output # None => c.output > 0

PolicyValid(p) ==
    /\ p.attempts > 0 /\ p.retries < p.attempts /\ p.failovers < p.attempts
    /\ p.timeout > 0 /\ p.timeout <= p.overall
    /\ p.backoff <= p.maxBackoff /\ p.open <= p.maxOpen
    /\ p.probeTimeout < p.probeInterval

RequestPolicyValid(r) == r.output > 0

TargetValid(t) == t.output # None => t.output > 0

EnabledTargets(r) == {t \in r.targets : t.enabled}

\* The weights of one priority do not exceed 256.
TiersValid(targets) ==
    \A q \in {t.priority : t \in targets} :
        MapThenSumSet(LAMBDA t : t.weight, {t \in targets : t.priority = q}) <= 256

(***************************************************************************)
(* Rows as loaded.                                                         *)
(***************************************************************************)

Active(row) == row.status = "active"

NetworkOf(db, e) == db.networks[db.endpoints[e].network]

\* The sealed certificate bundle must be the one the policy's generation names.
CustomCaMatches(n) == n.ca = 0 \/ n.sealed = n.ca

Selected(c) == c.selected > 0

CredentialReady(c) == c.admin /\ c.ready /\ Selected(c)

CredentialFault(c) == Selected(c) /\ c.selectedIdentity # c.identity

DeploymentFault(db, d) ==
    LET w == db.deployments[d]
        c == db.credentials[w.credential] IN
    \/ w.org # c.org
    \/ ~CompatibleTransport(db.endpoints[w.endpoint].adapter, c.kind, w.transport)
    \/ w.pricing # None /\ w.org # None /\ ~db.versions[w.pricing].usable
    \/ ~IsolationValid(w.isolation, w.org)
    \/ w.unpriced = (w.pricing # None)

ClientKey(db, d) ==
    LET w == db.deployments[d] IN
    <<w.credential, db.credentials[w.credential].selected, w.endpoint,
      db.endpoints[w.endpoint].version, w.transport>>

NetworkConfiguration(n) ==
    [safe |-> n.safe, proxy |-> n.proxy, classes |-> n.classes, allowed |-> n.allowed,
     denied |-> n.denied, ca |-> n.ca, sealed |-> n.sealed, version |-> n.version]

\* What a client is built from.
ClientBuild(db, d) ==
    LET w == db.deployments[d]
        e == db.endpoints[w.endpoint] IN
    [kind |-> db.credentials[w.credential].kind, adapter |-> e.adapter, url |-> e.url, host |-> e.host,
     secret |-> db.credentials[w.credential].selected, network |-> NetworkConfiguration(NetworkOf(db, w.endpoint))]

Builds(db) ==
    {[key |-> ClientKey(db, d), build |-> ClientBuild(db, d)] :
        d \in {d \in DOMAIN db.deployments : Selected(db.credentials[db.deployments[d].credential])}}

LoadedOperational(db, d) ==
    LET w == db.deployments[d] IN
    /\ Active(w) /\ Active(db.endpoints[w.endpoint]) /\ Active(NetworkOf(db, w.endpoint))
    /\ CredentialReady(db.credentials[w.credential])
    /\ w.pricing # None => Active(db.pricings[db.versions[w.pricing].policy])

\* Mutant: the grants of endpoints are not applied to deployments.
AllowedIfActive(db, d) ==
    LET w == db.deployments[d] IN w.org # None => Active(db.organizations[w.org])

\* An organization's deployment needs its organization and the grant of its endpoint.
AllowedByGrants(db, d) ==
    LET w == db.deployments[d] IN
    w.org # None => /\ Active(db.organizations[w.org])
                    /\ w.endpoint \in db.grants[w.org].endpoints

Operational(db, d) == LoadedOperational(db, d) /\ AllowedByGrants(db, d)

LiveRoutes(db) == {r \in DOMAIN db.routes : db.routes[r].status # "draft"}

TargetSupported(db, r, t) ==
    LET w == db.deployments[t.deployment] IN
    Compatibility(db.routes[r].ingress, db.endpoints[w.endpoint].adapter,
                  db.credentials[w.credential].kind, w.transport) # {}

TargetCapable(db, r, t) == db.routes[r].required \subseteq db.deployments[t.deployment].caps

TargetInScope(db, r, t) ==
    db.deployments[t.deployment].org \in {None, db.routes[r].org}

\* The targets an organization's route keeps: its own and the granted ones.
RouteTargets(db, r) ==
    LET o == db.routes[r].org IN
    {t \in EnabledTargets(db.routes[r]) :
        o # None => \/ db.deployments[t.deployment].org # None
                    \/ t.deployment \in db.grants[o].deployments}

RouteActive(db, r) ==
    LET w == db.routes[r] IN
    /\ Active(w) /\ Active(db.reliabilities[w.reliability])
    /\ w.org # None => /\ Active(db.organizations[w.org])
                       /\ w.reliability \in db.grants[w.org].reliabilities
    /\ \E t \in RouteTargets(db, r) : Operational(db, t.deployment)

\* The sections of the key policy that apply to a key of a class.
PolicySections(db, k) ==
    LET p == db.organizations[db.keys[k].org].policy IN
    {p["standard"], p[db.keys[k].class]}

RouteVisible(db, o, r) ==
    \/ db.routes[r].org = o
    \/ db.routes[r].org = None /\ r \in DOMAIN db.grants[o].routes

KeyRoutes(db, k) ==
    {r \in db.keys[k].routes :
        /\ RouteVisible(db, db.keys[k].org, r)
        /\ \A s \in PolicySections(db, k) : r \in s.routes}

KeyScopes(db, k) == {x \in db.keys[k].scopes : \A s \in PolicySections(db, k) : x \in s.scopes}

Verifier(db, k) ==
    [org |-> db.keys[k].org, routes |-> KeyRoutes(db, k), scopes |-> KeyScopes(db, k),
     caps |-> {c \in UNION {s.caps : s \in PolicySections(db, k)} :
                  \A s \in PolicySections(db, k) : c \in s.caps},
     active |-> /\ Active(db.keys[k]) /\ Active(db.organizations[db.keys[k].org])
                /\ \A s \in PolicySections(db, k) : s.enabled
                /\ KeyScopes(db, k) # {} /\ KeyRoutes(db, k) # {}]

(***************************************************************************)
(* The capture.  Faults names every reason for which it fails.             *)
(***************************************************************************)

GrantFaults(db) ==
    {"grant ceilings" : o \in {o \in DOMAIN db.grants :
        \E r \in DOMAIN db.grants[o].routes : ~CeilingValid(db.grants[o].routes[r])}}

EndpointFaults(db) ==
    {"endpoint address" : e \in {e \in DOMAIN db.endpoints : ~EndpointUrlValid(db.endpoints[e])}}
    \cup {"custom CA" : e \in {e \in DOMAIN db.endpoints : ~CustomCaMatches(NetworkOf(db, e))}}

DeploymentFaults(db) ==
    {"deployment" : d \in {d \in DOMAIN db.deployments : DeploymentFault(db, d)}}
    \cup {"ambiguous client" : p \in {p \in Builds(db) \X Builds(db) :
            p[1].key = p[2].key /\ p[1].build # p[2].build}}

RouteFaults(db) ==
    LET enabled == {p \in LiveRoutes(db) \X UNION {db.routes[r].targets : r \in LiveRoutes(db)} :
                       p[2] \in EnabledTargets(db.routes[p[1]])}
        stored == UNION {EnabledTargets(db.routes[r]) : r \in DOMAIN db.routes} IN
    {"namespace" : p \in {p \in (DOMAIN db.routes) \X (DOMAIN db.routes) :
        /\ p[1] # p[2] /\ db.routes[p[1]].org = db.routes[p[2]].org
        /\ db.routes[p[1]].ingress = db.routes[p[2]].ingress
        /\ db.routes[p[1]].model = db.routes[p[2]].model}}
    \cup {"tiers" : r \in {r \in LiveRoutes(db) : ~TiersValid(EnabledTargets(db.routes[r]))}}
    \cup {"request policy" : r \in {r \in LiveRoutes(db) : ~RequestPolicyValid(db.routes[r])}}
    \cup {"target" : t \in {t \in stored : ~TargetValid(t)}}
    \cup {"target tuple" : p \in {p \in enabled : ~TargetSupported(db, p[1], p[2])}}
    \cup {"target capabilities" : p \in {p \in enabled : ~TargetCapable(db, p[1], p[2])}}
    \cup {"target scope" : p \in {p \in enabled : ~TargetInScope(db, p[1], p[2])}}

KeyFaults(db) ==
    {"key route missing" : k \in {k \in DOMAIN db.keys : ~(db.keys[k].routes \subseteq LiveRoutes(db))}}
    \cup {"key route foreign" : k \in {k \in DOMAIN db.keys :
        \E r \in db.keys[k].routes : db.routes[r].org \notin {None, db.keys[k].org}}}

Faults(db) ==
    GrantFaults(db) \cup EndpointFaults(db) \cup DeploymentFaults(db) \cup RouteFaults(db)
    \cup KeyFaults(db)
    \cup {"reliability" : p \in {p \in DOMAIN db.reliabilities : ~PolicyValid(db.reliabilities[p])}}
    \cup {"credential" : c \in {c \in DOMAIN db.credentials : CredentialFault(db.credentials[c])}}

CaptureGatewayRuntime(db) ==
    [organizations |-> {o \in DOMAIN db.organizations : Active(db.organizations[o])},
     grants |-> db.grants,
     identity |-> db.identity,
     keys |-> [k \in DOMAIN db.keys |-> Verifier(db, k)],
     deployments |-> [d \in DOMAIN db.deployments |->
        [org |-> db.deployments[d].org, caps |-> db.deployments[d].caps,
         endpoint |-> db.deployments[d].endpoint, transport |-> db.deployments[d].transport,
         adapter |-> db.endpoints[db.deployments[d].endpoint].adapter,
         kind |-> db.credentials[db.deployments[d].credential].kind,
         operational |-> Operational(db, d), client |-> ClientKey(db, d)]],
     routes |-> [r \in LiveRoutes(db) |->
        [org |-> db.routes[r].org, ingress |-> db.routes[r].ingress,
         model |-> db.routes[r].model, required |-> db.routes[r].required,
         output |-> db.routes[r].output, active |-> RouteActive(db, r),
         targets |-> RouteTargets(db, r)]]]

(***************************************************************************)
(* Clients: one of the last generation is used again when it was built     *)
(* from the same values; a client that cannot be built is unavailable.     *)
(***************************************************************************)

Fingerprint(build) == build

\* A client is built from a safe configuration and a secret that can be read:
\* `unread` are the credentials whose custody, variable or file is out of reach.
CanBuild(b, unread) ==
    /\ NetworkValid(b.build.network)
    /\ EndpointAllowed(b.build.network, b.build.host)
    /\ b.key[1] \notin unread

Reused(prior, b) == {p \in prior : p.key = b.key /\ Fingerprint(p.build) = Fingerprint(b.build)}

BuildCredentialClients(db, prior, unread) ==
    UNION {IF Reused(prior, b) # {} THEN Reused(prior, b)
           ELSE {b} \cap {x \in Builds(db) : CanBuild(x, unread)} : b \in Builds(db)}

\* A deployment without client does not operate.
WithClients(snapshot, clients) ==
    LET all == snapshot.deployments IN
    [snapshot EXCEPT !.deployments = [d \in DOMAIN all |->
        [all[d] EXCEPT !.operational = @ /\ all[d].client \in {c.key : c \in clients}]]]
================================================================================
