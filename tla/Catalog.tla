-------------------------------- MODULE Catalog --------------------------------
(***************************************************************************)
(* The catalog commands (application/catalog.rs, gateway_catalog.rs,       *)
(* catalog_grants.rs), the idempotency records they share and the snapshot *)
(* the runtime builds of the tables they write.                            *)
(*                                                                         *)
(* A command that reads rows it does not lock for update, or reads outside *)
(* its transaction, is two steps: it opens with its reads and commits      *)
(* later; in between other commands run, except where the rows it locked   *)
(* FOR SHARE keep an update out.  All other commands are one step.  Who    *)
(* may issue a command is the subject of module Identity; every update     *)
(* names the current entity tag of its row.                                *)
(***************************************************************************)
EXTENDS GatewayEntry

CONSTANTS
    Populations,     \* contents of the tables to start from
    Ids,             \* for each table, the ids a creation may take
    IdempotencyKeys,
    NetworkInputs, ReliabilityInputs, EndpointInputs, VersionInputs,
    DeploymentInputs, RouteInputs, GrantInputs, KeyRouteInputs,
    Requests,        \* model requests the properties are about
    Exclusions,      \* sets of <<route, deployment>> that health may keep from a request
    MaxCommands,     \* bound: commands begun
    MaxOpen          \* bound: commands open at the same time

Kinds == {"networks", "reliabilities", "endpoints", "pricings", "versions", "deployments", "routes"}
Statuses == {"active", "disabled"}

\* The commands that take an idempotency key: the creations and the validations.
Operations == Kinds \cup {"validate endpoints", "validate deployments"}

\* An idempotency record is found by operation, scope and key.
RecordKeys == Operations \X (UNION {DOMAIN p.organizations : p \in Populations} \cup {None})
                         \X IdempotencyKeys

(***************************************************************************)
(* The schema: the columns of a row of the tables d, what they are and the *)
(* rows they refer to.                                                     *)
(***************************************************************************)

Tables == {"organizations", "networks", "endpoints", "reliabilities", "pricings", "versions",
           "credentials", "deployments", "routes", "grants", "keys", "identity"}

PolicyColumns == {"status", "attempts", "retries", "failovers", "timeout", "overall", "backoff",
                  "maxBackoff", "open", "maxOpen", "probeTimeout", "probeInterval"}
EndpointColumns == {"adapter", "url", "host", "network", "status"}
DeploymentColumns == {"org", "endpoint", "credential", "transport", "caps", "pricing", "unpriced",
                      "isolation", "status"}
RouteColumns == {"org", "ingress", "model", "required", "reliability", "output", "status", "targets"}
TargetColumns == {"known", "deployment", "priority", "weight", "enabled", "output", "timeout"}
GrantColumns == {"routes", "endpoints", "deployments", "reliabilities"}

\* The sealed bundle is the one of the generation; a host is denied by its address only.
NetworkRow(n) ==
    /\ DOMAIN n = {"version", "ca", "sealed", "status", "safe", "proxy", "classes", "allowed", "denied"}
    /\ n.version \in Nat /\ n.ca \in Nat /\ CustomCaMatches(n)
    /\ "name" \notin n.denied

PolicyRow(p) == DOMAIN p = PolicyColumns \cup {"version"} /\ p.version \in Nat

EndpointRow(d, e) ==
    /\ DOMAIN e = EndpointColumns \cup {"version", "evidence"}
    /\ e.version \in Nat /\ e.network \in DOMAIN d.networks

PricingRow(x) == DOMAIN x = {"status", "current"}

VersionRow(d, v) == DOMAIN v = {"policy", "usable", "generation"} /\ v.policy \in DOMAIN d.pricings

CredentialRow(c) ==
    /\ DOMAIN c = {"org", "kind", "admin", "ready", "selected", "identity", "selectedIdentity"}
    /\ c.selected \in Nat /\ c.selectedIdentity = c.identity

DeploymentRow(d, w) ==
    /\ DOMAIN w = DeploymentColumns \cup {"version", "evidence"}
    /\ w.version \in Nat
    /\ w.endpoint \in DOMAIN d.endpoints /\ w.credential \in DOMAIN d.credentials
    /\ w.pricing # None => w.pricing \in DOMAIN d.versions

TargetRow(t) == DOMAIN t = TargetColumns /\ t.weight \in Nat /\ t.output \in Nat \cup {None}

RouteRow(d, r) ==
    /\ DOMAIN r = RouteColumns \cup {"version"}
    /\ r.version \in Nat /\ r.reliability \in DOMAIN d.reliabilities
    /\ IsFiniteSet(r.targets)
    /\ \A t \in r.targets : TargetRow(t) /\ t.deployment \in DOMAIN d.deployments

\* Only the system's routes and deployments are granted.
GrantRow(d, g) ==
    /\ DOMAIN g = GrantColumns
    /\ \A r \in DOMAIN g.routes : r \in DOMAIN d.routes /\ d.routes[r].org = None
    /\ \A x \in g.deployments : x \in DOMAIN d.deployments /\ d.deployments[x].org = None

\* A key names routes one by one.
KeyRow(d, k) ==
    /\ DOMAIN k = {"org", "class", "scopes", "routes", "status"}
    /\ k.org \in DOMAIN d.organizations
    /\ \A r \in k.routes : r \in DOMAIN d.routes /\ d.routes[r].org \in {None, k.org}
    /\ \A s \in SUBSET k.routes : s # AllRoutes

\* A bound subject is one of a known issuer; an issuer names its scopes one by one.
IdentityRows(i) ==
    /\ \A b \in DOMAIN i.bindings : b[1] \in DOMAIN i.issuers
    /\ \A x \in DOMAIN i.issuers : i.issuers[x].scopes # AllRoutes

Schema(d) ==
    /\ DOMAIN d = Tables
    /\ None \notin DOMAIN d.organizations /\ DOMAIN d.grants = DOMAIN d.organizations
    /\ \A x \in DOMAIN d.networks : NetworkRow(d.networks[x])
    /\ \A x \in DOMAIN d.reliabilities : PolicyRow(d.reliabilities[x])
    /\ \A x \in DOMAIN d.endpoints : EndpointRow(d, d.endpoints[x])
    /\ \A x \in DOMAIN d.pricings : PricingRow(d.pricings[x])
    /\ \A x \in DOMAIN d.versions : VersionRow(d, d.versions[x])
    /\ \A x \in DOMAIN d.credentials : CredentialRow(d.credentials[x])
    /\ \A x \in DOMAIN d.deployments : DeploymentRow(d, d.deployments[x])
    /\ \A x \in DOMAIN d.routes : RouteRow(d, d.routes[x])
    /\ \A x \in DOMAIN d.grants : GrantRow(d, d.grants[x])
    /\ \A x \in DOMAIN d.keys : KeyRow(d, d.keys[x])
    /\ IdentityRows(d.identity)

ASSUME CatalogAssumption ==
    /\ MaxCommands \in Nat /\ MaxOpen \in Nat \ {0}
    /\ None \notin IdempotencyKeys /\ None \notin Nat
    /\ Kinds \subseteq DOMAIN Ids
    /\ \A p \in Populations : Schema(p) /\ Faults(p) = {}

\* Requests as the handlers decode them.
ASSUME InputAssumption ==
    /\ \A i \in NetworkInputs : "name" \notin i.denied
    /\ \A i \in ReliabilityInputs : DOMAIN i = PolicyColumns
    /\ \A i \in EndpointInputs : DOMAIN i = EndpointColumns
    /\ \A i \in DeploymentInputs : DOMAIN i = DeploymentColumns
    /\ \A i \in RouteInputs :
          /\ DOMAIN i = RouteColumns /\ IsFiniteSet(i.targets)
          /\ \A t \in i.targets : DOMAIN t = TargetColumns /\ t.output \in Nat \cup {None}
    /\ \A i \in GrantInputs : DOMAIN i = GrantColumns
    /\ \A s \in KeyRouteInputs : \A x \in SUBSET s : x # AllRoutes
    /\ \A q \in Requests :
          /\ DOMAIN q = {"family", "headers", "intent"}
          /\ DOMAIN q.intent = {"model", "mode", "scopes", "caps", "output"}

\* What lets the commands check a target by its transport alone: a tuple of the
\* registry whose transport serves a protocol serves it with that endpoint and credential.
ASSUME RegistryAssumption ==
    \A t, u \in COMPATIBILITY_REGISTRY : t.transport = u.transport =>
        Compatibility(u.ingress, t.endpoint, t.credential, t.transport) # {}

VARIABLES
    db,        \* the tables
    open,      \* commands that have read and not yet written
    records,   \* completed idempotency_records
    revision,  \* runtime revision of the last committed command
    security,  \* the last revision that took something away
    runtime,   \* the published snapshot with its clients
    commands,  \* commands begun
    made,      \* what was done under each idempotency key: revisions
    told       \* what callers of each key were answered

catalogVars == <<db, open, records, revision, security, runtime, commands, made, told>>

\* A row with the columns of r and those of s that r does not have.
Over(r, s) == [f \in DOMAIN r \cup DOMAIN s |-> IF f \in DOMAIN r THEN r[f] ELSE s[f]]

\* A table with the row written.
Put(table, id, row) == [x \in DOMAIN table \cup {id} |-> IF x = id THEN row ELSE table[x]]

(***************************************************************************)
(* Validation of requests.                                                 *)
(***************************************************************************)

ValidateEgressPolicy(i) == i.safe /\ ~i.proxy

\* A private key or an unreadable certificate in the bundle is refused.
ValidateCustomCaPem(i) == i.pem # "invalid"

ValidateRetryPolicy(i) == i.backoff <= i.maxBackoff

ValidateProbePolicy(i) == i.probeTimeout < i.probeInterval

ValidateReliabilityPolicy(i) ==
    /\ i.attempts > 0 /\ i.retries < i.attempts /\ i.failovers < i.attempts
    /\ i.timeout > 0 /\ i.timeout <= i.overall /\ i.open <= i.maxOpen
    /\ ValidateRetryPolicy(i) /\ ValidateProbePolicy(i)

\* Only https, and for Codex only its own address.
NormalizeEndpointUrl(adapter, url) ==
    IF adapter = "openai_codex" THEN url = "codex" ELSE url # "http"

Granted(o, table, id) == o # None => id \in db.grants[o][table]

TransportTupleExists(endpoint, credential, transport) ==
    \E t \in COMPATIBILITY_REGISTRY :
        t.endpoint = endpoint /\ t.credential = credential /\ t.transport = transport

TransportSupportsIngress(transport, ingress) ==
    \E t \in COMPATIBILITY_REGISTRY : t.transport = transport /\ t.ingress = ingress

ValidatePricingVersion(o, v) ==
    v # None => v \in DOMAIN db.versions /\ (o # None => db.versions[v].usable)

\* Mutant: the owner of dedicated upstream state is not asked for.
ValidateDeploymentPricing(i) == i.unpriced = (i.pricing = None)

ValidateDeploymentMutable(i) ==
    IsolationValid(i.isolation, i.org) /\ i.unpriced = (i.pricing = None)

ValidateDeploymentBindings(i) ==
    /\ i.endpoint \in DOMAIN db.endpoints
    /\ i.credential \in DOMAIN db.credentials /\ db.credentials[i.credential].org = i.org
    /\ TransportTupleExists(db.endpoints[i.endpoint].adapter,
                            db.credentials[i.credential].kind, i.transport)
    /\ Granted(i.org, "endpoints", i.endpoint)
    /\ ValidatePricingVersion(i.org, i.pricing)

\* All targets count, the disabled ones too.
ValidateTargets(i) ==
    /\ \A t \in i.targets : t.weight \in 1..256 /\ TargetValid(t)
    /\ \A t, u \in i.targets : t # u => t.deployment # u.deployment
    /\ TiersValid(i.targets)
    /\ i.status = "active" => i.targets # {}

ValidateTimeoutCeilings(i) ==
    \A t \in i.targets : t.timeout <= db.reliabilities[i.reliability].timeout

ValidateRouteGraph(i) ==
    /\ ValidateTargets(i)
    /\ i.reliability \in DOMAIN db.reliabilities
    /\ ValidateTimeoutCeilings(i)
    /\ Granted(i.org, "reliabilities", i.reliability)
    /\ \A t \in i.targets :
          /\ t.deployment \in DOMAIN db.deployments
          /\ LET d == db.deployments[t.deployment] IN
             /\ \/ d.org = i.org
                \/ d.org = None /\ Granted(i.org, "deployments", t.deployment)
             /\ TransportSupportsIngress(d.transport, i.ingress)
             /\ i.required \subseteq d.caps

ValidatePolicyObjects(i) == i.output > 0

\* A target that names an id must be one of the route's and keep its deployment.
TargetsKnown(old, new) == \A t \in new : t.known => \E u \in old : u.deployment = t.deployment

\* The targets that are not named are deleted; every stored one has an id.
ReplaceTargets(new) == {[t EXCEPT !.known = TRUE] : t \in new}

RouteLocks(i) ==
    {<<"reliabilities", i.reliability>>} \cup {<<"deployments", t.deployment>> : t \in i.targets}

(***************************************************************************)
(* Transactions.                                                           *)
(***************************************************************************)

Locked(table, id) == \E c \in open : <<table, id>> \in c.locks

Fresh(table) == Ids[table] \ (DOMAIN db[table] \cup {c.id : c \in {c \in open : c.table = table}})

RecordOf(k) == {r \in records : r.key = k}

\* Mutant: a record is not inserted before the command completes.
FreeUnlessCompleted(k) == k # None => RecordOf(k) = {}

NotDone(k) == k # None => RecordOf(k) = {}

\* No record and no transaction that is about to write it: an insert waits for that one.
FreeKey(k) == NotDone(k) /\ (k # None => \A c \in open : c.key # k)

OptionalKeys(operation, o) == {None} \cup {<<operation, o, x>> : x \in IdempotencyKeys}

BeginCommand(c) ==
    /\ commands < MaxCommands /\ Cardinality(open) < MaxOpen
    /\ commands' = commands + 1
    /\ open' = open \cup {c}
    /\ UNCHANGED <<db, records, revision, security, runtime, made, told>>

\* A creation: the id is new, the row is what will be inserted.
BeginCreate(table, o, row, locks) ==
    \E k \in OptionalKeys(table, o) :
        /\ FreeKey(k)
        /\ Fresh(table) # {}
        /\ BeginCommand([kind |-> "create", table |-> table, row |-> row, locks |-> locks, key |-> k,
                         id |-> CHOOSE x \in Fresh(table) : TRUE])

\* The audit record, the runtime event and the new revision of every command.
CommitCatalog(tightening) ==
    /\ revision' = revision + 1
    /\ security' = IF tightening THEN revision + 1 ELSE security
    /\ UNCHANGED runtime

Write(table, id, row) == db' = [db EXCEPT ![table] = Put(@, id, row)]

\* A command of one step.
UpdateRow(table, id, row, tightening) ==
    /\ commands < MaxCommands /\ commands' = commands + 1
    /\ ~Locked(table, id)
    /\ Write(table, id, row)
    /\ CommitCatalog(tightening)
    /\ UNCHANGED <<open, records, made, told>>

Disables(old, new) == old.status = "active" /\ new.status # "active"

\* The connection is lost, or a later statement is refused: nothing was written.
Abort(c) ==
    /\ open' = open \ {c}
    /\ UNCHANGED <<db, records, revision, security, runtime, commands, made, told>>

\* The record of a command: what was asked, and the revision it was done with.
CompleteIdempotent(c) ==
    IF c.key = None THEN UNCHANGED <<records, made>>
    ELSE /\ records' = records \cup {[key |-> c.key, done |-> revision + 1, input |-> c.row]}
         /\ made' = [made EXCEPT ![c.key] = @ \cup {revision + 1}]

\* A new pricing version becomes the current one of its policy.
Insert(c) ==
    IF c.table = "versions"
    THEN db' = [db EXCEPT !.versions = Put(@, c.id, c.row),
                          !.pricings = Put(@, c.row.policy, [@[c.row.policy] EXCEPT !.current = c.id])]
    ELSE Write(c.table, c.id, c.row)

\* The model key of a route is unique in its scope and protocol.
NamespaceFree(c) ==
    c.table = "routes" => \A r \in DOMAIN db.routes \ {c.id} :
        <<db.routes[r].org, db.routes[r].ingress, db.routes[r].model>>
            # <<c.row.org, c.row.ingress, c.row.model>>

CommitCreate(c) ==
    /\ c.kind = "create"
    /\ NamespaceFree(c)
    /\ Insert(c)
    /\ CompleteIdempotent(c)
    /\ CommitCatalog(FALSE)
    /\ open' = open \ {c}
    /\ UNCHANGED <<commands, told>>

\* The answer of a completed command, to its caller or to one who repeats the
\* same request; a different request under the same key is refused.
Replay(k, input) ==
    /\ \E r \in RecordOf(k) : r.input = input /\ told' = [told EXCEPT ![k] = @ \cup {r.done}]
    /\ UNCHANGED <<db, open, records, revision, security, runtime, commands, made>>

\* Completed records are deleted some time after their expiry.
CleanupExpired(k) ==
    /\ RecordOf(k) # {}
    /\ records' = records \ RecordOf(k)
    /\ made' = [made EXCEPT ![k] = {}] /\ told' = [told EXCEPT ![k] = {}]
    /\ UNCHANGED <<db, open, revision, security, runtime, commands>>

(***************************************************************************)
(* Egress network policies.                                                *)
(***************************************************************************)

NetworkFields(i) ==
    [status |-> i.status, safe |-> i.safe, proxy |-> i.proxy, classes |-> i.classes,
     allowed |-> i.allowed, denied |-> i.denied]

\* A bundle given at creation is sealed for generation 1.
BundleGeneration(i) == IF i.pem = "none" THEN 0 ELSE 1

CreateEgressNetworkPolicy ==
    \E i \in NetworkInputs :
        /\ ValidateEgressPolicy(i) /\ ValidateCustomCaPem(i)
        /\ BeginCreate("networks", None,
              Over([version |-> 1, ca |-> BundleGeneration(i), sealed |-> BundleGeneration(i)], NetworkFields(i)), {})

UpdateEgressNetworkPolicy(n) ==
    \E i \in NetworkInputs :
        LET old == db.networks[n]
            new == Over(NetworkFields(i), [old EXCEPT !.version = @ + 1]) IN
        /\ ValidateEgressPolicy(i)
        /\ UpdateRow("networks", n, new, Disables(old, new))

\* The bundle is sealed for the generation that follows the one read here.
BeginReplaceCustomCa(n) ==
    LET w == db.networks[n] IN
    BeginCommand([kind |-> "ca", table |-> "networks", id |-> n, key |-> None, locks |-> {},
                  row |-> [w EXCEPT !.ca = w.ca + 1, !.sealed = w.ca + 1, !.version = w.version + 1]])

\* Mutant: the entity tag is not compared again under the lock.
AnyEtag(c) == TRUE

\* The entity tag of a network policy changes with every version.
SameEtag(c) == db[c.table][c.id].version + 1 = c.row.version

CommitReplaceCustomCa(c) ==
    /\ c.kind = "ca"
    /\ ~Locked(c.table, c.id)
    /\ SameEtag(c)
    /\ Write(c.table, c.id, [db.networks[c.id] EXCEPT
          !.ca = c.row.ca, !.sealed = c.row.sealed, !.version = c.row.version])
    /\ CommitCatalog(TRUE)
    /\ open' = open \ {c}
    /\ UNCHANGED <<records, commands, made, told>>

(***************************************************************************)
(* Reliability policies and pricing.                                       *)
(***************************************************************************)

CreateReliabilityPolicy ==
    \E i \in ReliabilityInputs :
        /\ ValidateReliabilityPolicy(i)
        /\ BeginCreate("reliabilities", None, Over([version |-> 1], i), {})

UpdateReliabilityPolicy(p) ==
    \E i \in ReliabilityInputs :
        LET old == db.reliabilities[p]
            new == Over([version |-> old.version + 1], i) IN
        /\ ValidateReliabilityPolicy(i)
        /\ UpdateRow("reliabilities", p, new, Disables(old, new))

CreatePricingPolicy ==
    \E s \in Statuses : BeginCreate("pricings", None, [status |-> s, current |-> None], {})

UpdatePricingPolicy(x) ==
    \E s \in Statuses :
        LET old == db.pricings[x]
            new == [old EXCEPT !.status = s] IN
        UpdateRow("pricings", x, new, Disables(old, new))

\* Versions are never changed; the next generation follows the largest.
NextGeneration(x) ==
    Max({0} \cup {db.versions[v].generation : v \in {v \in DOMAIN db.versions : db.versions[v].policy = x}}) + 1

PublishPricingVersion(x) ==
    \E i \in VersionInputs :
        /\ ~Locked("pricings", x)
        /\ BeginCreate("versions", None,
              [policy |-> x, usable |-> i.usable, generation |-> NextGeneration(x)], {<<"pricings", x>>})

(***************************************************************************)
(* Endpoints.                                                              *)
(***************************************************************************)

CreateUpstreamEndpoint ==
    \E i \in EndpointInputs :
        /\ NormalizeEndpointUrl(i.adapter, i.url)
        /\ i.network \in DOMAIN db.networks
        /\ BeginCreate("endpoints", None,
              Over([version |-> 1, evidence |-> 0], i), {})

UpdateUpstreamEndpoint(e) ==
    \E i \in EndpointInputs :
        LET old == db.endpoints[e]
            new == [old EXCEPT !.url = i.url, !.host = i.host, !.network = i.network, !.status = i.status,
                               !.version = @ + 1, !.evidence = 0] IN
        /\ NormalizeEndpointUrl(new.adapter, new.url)
        /\ i.network \in DOMAIN db.networks
        /\ UpdateRow("endpoints", e, new, Disables(old, new))

\* Validation refreshes the runtime and looks at its clients before it opens its
\* transaction.
Refreshed == runtime.revision = revision

Unavailable == {b.key : b \in Builds(db)} \ {c.key : c \in runtime.clients}

\* Its idempotency key is looked up first and taken in the transaction, so
\* several validations with one key may be open.
BeginValidate(table, id, operation, o) ==
    \E k \in OptionalKeys(operation, o) :
        /\ NotDone(k)
        /\ Refreshed
        /\ BeginCommand([kind |-> "validate", table |-> table, id |-> id, key |-> k, locks |-> {}, row |-> id])

BeginValidateEndpoint(e) ==
    /\ \A k \in Unavailable : k[3] # e
    /\ BeginValidate("endpoints", e, "validate endpoints", None)

BeginValidateDeployment(d) ==
    /\ d \in DOMAIN runtime.snapshot.deployments
    /\ runtime.snapshot.deployments[d].operational
    /\ BeginValidate("deployments", d, "validate deployments", db.deployments[d].org)

\* The evidence names the version of the row as it is.
Validated(w) ==
    [w EXCEPT !.evidence = w.version, !.status = IF @ = "validation_failed" THEN "active" ELSE @]

\* One who finds the key taken only replays.
CommitValidate(c) ==
    /\ c.kind = "validate"
    /\ NotDone(c.key)
    /\ ~Locked(c.table, c.id)
    /\ Write(c.table, c.id, Validated(db[c.table][c.id]))
    /\ CompleteIdempotent(c)
    /\ CommitCatalog(FALSE)
    /\ open' = open \ {c}
    /\ UNCHANGED <<commands, told>>

(***************************************************************************)
(* Deployments.                                                            *)
(***************************************************************************)

CreateModelDeployment ==
    \E i \in DeploymentInputs :
        /\ ValidateDeploymentMutable(i)
        /\ ValidateDeploymentBindings(i)
        /\ BeginCreate("deployments", i.org, Over([version |-> 1, evidence |-> 0], i),
              {<<"endpoints", i.endpoint>>, <<"credentials", i.credential>>}
              \cup IF i.pricing = None THEN {}
                   ELSE {<<"versions", i.pricing>>, <<"pricings", db.versions[i.pricing].policy>>})

\* Endpoint, credential and transport are fixed; capabilities are not compared
\* with what the routes that use the deployment require.
UpdateModelDeployment(d) ==
    \E i \in {i \in DeploymentInputs : i.org = db.deployments[d].org} :
        LET old == db.deployments[d]
            new == [old EXCEPT !.caps = i.caps, !.pricing = i.pricing, !.unpriced = i.unpriced,
                               !.isolation = i.isolation, !.status = i.status,
                               !.version = @ + 1, !.evidence = 0] IN
        /\ ValidatePricingVersion(old.org, i.pricing)
        /\ ValidateDeploymentMutable(new)
        /\ UpdateRow("deployments", d, new, Disables(old, new))

(***************************************************************************)
(* Routes.                                                                 *)
(***************************************************************************)

CreateModelRoute ==
    \E i \in RouteInputs :
        LET new == Over([version |-> 1, targets |-> ReplaceTargets(i.targets)], i) IN
        /\ ValidatePolicyObjects(i)
        /\ ValidateRouteGraph(new)
        /\ TargetsKnown({}, i.targets)
        /\ BeginCreate("routes", i.org, new, RouteLocks(new))

\* The grants are read without lock, so a grant may be gone at the commit.
BeginUpdateModelRoute(r) ==
    \E i \in {i \in RouteInputs : i.org = db.routes[r].org} :
        LET new == [db.routes[r] EXCEPT !.required = i.required, !.reliability = i.reliability,
                        !.output = i.output, !.targets = ReplaceTargets(i.targets), !.status = i.status, !.version = @ + 1] IN
        /\ ~Locked("routes", r)
        /\ ValidatePolicyObjects(i)
        /\ ValidateRouteGraph(new)
        /\ TargetsKnown(db.routes[r].targets, i.targets)
        /\ BeginCommand([kind |-> "update", table |-> "routes", id |-> r, key |-> None, row |-> new,
                         locks |-> RouteLocks(new) \cup {<<"routes", r>>}])

CommitUpdateModelRoute(c) ==
    /\ c.kind = "update"
    /\ Write(c.table, c.id, c.row)
    /\ CommitCatalog(Disables(db.routes[c.id], c.row))
    /\ open' = open \ {c}
    /\ UNCHANGED <<records, commands, made, told>>

(***************************************************************************)
(* Grants.                                                                 *)
(***************************************************************************)

CeilingTightened(old, new) ==
    \/ new.caps # None /\ (old.caps = None \/ ~(old.caps \subseteq new.caps))
    \/ new.output # None /\ (old.output = None \/ new.output < old.output)

\* One set of an organization's grants is replaced.  Only system routes and
\* deployments can be granted.
UpdateCatalogGrantSet(o, table) ==
    \E i \in GrantInputs :
        LET old == db.grants[o][table]
            new == i[table]
            ids(g) == IF table = "routes" THEN DOMAIN g ELSE g
            tightening == \/ ~(ids(old) \subseteq ids(new))
                          \/ table = "routes" /\ \E r \in ids(old) \cap ids(new) :
                                CeilingTightened(old[r], new[r]) IN
        /\ Active(db.organizations[o])
        /\ ids(new) \subseteq DOMAIN db[table]
        /\ table \in {"routes", "deployments"} => \A x \in ids(new) : db[table][x].org = None
        /\ table = "routes" => \A r \in ids(new) : CeilingValid(new[r])
        /\ \A x \in ids(new) : \A c \in open : ~(c.kind = "update" /\ c.table = table /\ c.id = x)
        /\ UpdateRow("grants", o, [db.grants[o] EXCEPT ![table] = new], tightening)

(***************************************************************************)
(* What other components write in the same tables.                         *)
(***************************************************************************)

\* A gateway key's routes: its organization's own, whatever their status, or granted ones.
ValidateRouteAuthority(o, routes) ==
    \A r \in routes : r \in DOMAIN db.routes /\ (db.routes[r].org = o \/ r \in DOMAIN db.grants[o].routes)

UpdateGatewayKeyRoutes(k) ==
    \E routes \in KeyRouteInputs, s \in Statuses :
        LET old == db.keys[k]
            new == [old EXCEPT !.routes = routes, !.status = s] IN
        /\ ValidateRouteAuthority(old.org, routes)
        /\ UpdateRow("keys", k, new, s # "active" \/ (routes \subseteq old.routes /\ routes # old.routes))

\* Rotation, loss of authentication or disabling of an upstream credential.
UpdateCredential(c) ==
    \E rotated \in 0..1, ready \in BOOLEAN :
        LET old == db.credentials[c]
            new == [old EXCEPT !.selected = @ + rotated, !.ready = ready] IN
        /\ new # old
        /\ UpdateRow("credentials", c, new, old.ready /\ ~ready)

UpdateOrganization(o) ==
    \E s \in Statuses :
        LET new == [db.organizations[o] EXCEPT !.status = s] IN
        UpdateRow("organizations", o, new, Disables(db.organizations[o], new))

(***************************************************************************)
(* The runtime.  A capture that fails leaves the published snapshot.       *)
(***************************************************************************)

Compiled(prior, unread) ==
    LET clients == BuildCredentialClients(db, prior, unread) IN
    [revision |-> revision, clients |-> clients,
     snapshot |-> WithClients(CaptureGatewayRuntime(db), clients)]

PublishSnapshot ==
    /\ runtime.revision < revision
    /\ Faults(db) = {}
    /\ \E unread \in {{}, DOMAIN db.credentials} : runtime' = Compiled(runtime.clients, unread)
    /\ UNCHANGED <<db, open, records, revision, security, commands, made, told>>

CatalogInit ==
    /\ db \in Populations
    /\ open = {} /\ records = {} /\ commands = 0
    /\ revision = 1 /\ security = 1
    /\ runtime = Compiled({}, {})
    /\ made = [k \in RecordKeys |-> {}] /\ told = [k \in RecordKeys |-> {}]

Create ==
    \/ CreateEgressNetworkPolicy \/ CreateReliabilityPolicy \/ CreatePricingPolicy
    \/ (\E x \in DOMAIN db.pricings : PublishPricingVersion(x))
    \/ CreateUpstreamEndpoint \/ CreateModelDeployment \/ CreateModelRoute

Update ==
    \/ \E n \in DOMAIN db.networks : UpdateEgressNetworkPolicy(n) \/ BeginReplaceCustomCa(n)
    \/ \E p \in DOMAIN db.reliabilities : UpdateReliabilityPolicy(p)
    \/ \E x \in DOMAIN db.pricings : UpdatePricingPolicy(x)
    \/ \E e \in DOMAIN db.endpoints : UpdateUpstreamEndpoint(e) \/ BeginValidateEndpoint(e)
    \/ \E d \in DOMAIN db.deployments : UpdateModelDeployment(d) \/ BeginValidateDeployment(d)
    \/ \E r \in DOMAIN db.routes : BeginUpdateModelRoute(r)
    \/ \E o \in DOMAIN db.grants, t \in {"routes", "endpoints", "deployments", "reliabilities"} :
          UpdateCatalogGrantSet(o, t)
    \/ \E k \in DOMAIN db.keys : UpdateGatewayKeyRoutes(k)
    \/ \E c \in DOMAIN db.credentials : UpdateCredential(c)
    \/ \E o \in DOMAIN db.organizations : UpdateOrganization(o)

Finish ==
    \E c \in open : \/ CommitCreate(c) \/ CommitReplaceCustomCa(c) \/ CommitValidate(c)
                    \/ CommitUpdateModelRoute(c) \/ Abort(c)

CatalogNext ==
    \/ Create \/ Update \/ Finish \/ PublishSnapshot
    \/ \E r \in records : Replay(r.key, r.input) \/ CleanupExpired(r.key)

CatalogSpec == CatalogInit /\ [][CatalogNext]_catalogVars

(***************************************************************************)
(* Properties.                                                             *)
(***************************************************************************)

\* Whatever sequence of commands is committed, a capture fails for two reasons
\* only: a deployment lost a capability that a route requires
\* (update_model_deployment), or a gateway key names a draft (validate_route_authority).
\* Every other check of the builder that is modelled (references, graphs, bindings,
\* policies, capabilities, authority) is implied by what the commands check; its
\* checks of pricing rates, header names, secret records and origin budgets
\* are not modelled.
OnlyKnownFaults == Faults(db) \subseteq {"target capabilities", "key route missing"}

\* A deployment that the tables allow an organization to use by a route.
DeploymentEntitled(o, r, d, caps) ==
    LET w == db.deployments[d]
        e == db.endpoints[w.endpoint] IN
    /\ w.status = "active" /\ e.status = "active"
    /\ db.networks[e.network].status = "active" /\ ~db.networks[e.network].proxy
    /\ e.host \notin db.networks[e.network].denied
    /\ db.credentials[w.credential].ready /\ db.credentials[w.credential].admin
    /\ w.pricing = None \/ db.pricings[db.versions[w.pricing].policy].status = "active"
    /\ caps \cup db.routes[r].required \subseteq w.caps
    /\ IF w.org = None THEN db.routes[r].org = None \/ d \in db.grants[o].deployments
       ELSE w.org = o /\ db.routes[r].org = o /\ w.endpoint \in db.grants[o].endpoints

RouteEntitled(o, r, caps) ==
    LET w == db.routes[r] IN
    /\ db.organizations[o].status = "active" /\ w.status = "active"
    /\ db.reliabilities[w.reliability].status = "active"
    /\ IF w.org = None THEN /\ r \in DOMAIN db.grants[o].routes
                            /\ \/ db.grants[o].routes[r].caps = None
                               \/ caps \subseteq db.grants[o].routes[r].caps
       ELSE w.org = o /\ w.reliability \in db.grants[o].reliabilities

CredentialEntitled(request, o, r) ==
    \E h \in {"authorization", "xApiKey", "xGoogApiKey"} :
        LET c == request.headers[h] IN
        /\ c # None
        /\ IF c.type = "key"
           THEN LET k == db.keys[c.key]
                    p == db.organizations[o].policy[k.class] IN
                /\ k.status = "active" /\ k.org = o /\ r \in k.routes
                /\ p.enabled /\ r \in p.routes
                /\ request.intent.scopes \subseteq k.scopes \cap p.scopes
                /\ request.intent.caps \subseteq p.caps
           ELSE /\ <<o, db.identity.bindings[<<c.issuer, c.subject>>]>> \in DOMAIN db.identity.members
                /\ db.identity.issuers[c.issuer].llm
                /\ request.intent.scopes \subseteq db.identity.issuers[c.issuer].scopes

\* Once the latest revision is published, a request is admitted only to a route
\* and to deployments that the tables entitle its organization and credential to:
\* no revoked grant, disabled resource or foreign deployment is a candidate, and
\* every client in use has the secret, address and network configuration of that
\* revision though clients live on from one generation to the next
\* (load_deployments, apply_deployment_grants, load_routes, load_gateway_keys,
\* authenticate_and_admit, build_credential_clients, client_build_fingerprint).
AdmittedIsEntitled ==
    runtime.revision = revision =>
        /\ runtime.clients \subseteq Builds(db)
        /\ \A q \in Requests, x \in Exclusions : \A a \in AuthenticateAndAdmit(runtime, x, q) :
            /\ RouteEntitled(a.org, a.route, q.intent.caps)
            /\ CredentialEntitled(q, a.org, a.route)
            /\ \A t \in a.candidates : DeploymentEntitled(a.org, a.route, t.deployment, q.intent.caps)

\* The turn that an accepted WebSocket of principal p would send on route r is
\* admitted to r, unless an own route of the same model takes the model's place.
TurnAdmitted(q, x, p, r) ==
    LET w == runtime.snapshot.routes[r]
        turn == [SocketRequest(q) EXCEPT !.intent = TurnIntent(w.model)] IN
    \/ \E a \in AuthenticateAndAdmit(runtime, x, turn) : a.org = p.org /\ a.route = r
    \/ /\ w.org = None
       /\ \E own \in ResolveRoute(runtime.snapshot, p.org, "responses", w.model) :
             runtime.snapshot.routes[own].org = p.org

\* Readiness and admission are two readings of the same snapshot, one of structure
\* only and one with the health of the moment (required_route_ready,
\* order_candidates, authenticate_and_admit, authenticate_websocket_connection).
\* A ready route has a target and a mode such that a request in that mode that asks
\* for the route's base capabilities has it as a candidate, except where health
\* keeps it from the request or the request's output bound is more than the target
\* allows; whatever is admitted goes to a ready route; and a WebSocket is accepted
\* only if a turn on it would be admitted to a ready route.
ReadinessAgrees ==
    LET routes == runtime.snapshot.routes IN
    /\ \A r \in DOMAIN routes, o \in runtime.snapshot.organizations :
          (RequiredRouteReady(runtime, r) /\ routes[r].org \in {None, o}) =>
            \E t \in routes[r].targets, m \in {"json", "sse", "websocket"} :
              \A i \in {q.intent : q \in Requests}, x \in Exclusions :
                LET intent == [i EXCEPT !.mode = m] IN
                \/ <<r, t.deployment>> \in x
                \/ t.output # None /\ ~(RequestedBound(runtime.snapshot, o, r, intent) <= t.output)
                \/ t \in Candidates(runtime, x, o, r, intent, routes[r].required)
    /\ \A q \in Requests, x \in Exclusions :
          /\ \A a \in AuthenticateAndAdmit(runtime, x, q) : RequiredRouteReady(runtime, a.route)
          /\ AuthenticateWebsocketConnection(runtime, x, q) =>
                \E p \in AuthenticateIdentity(runtime.snapshot, SocketRequest(q)), r \in DOMAIN routes :
                    RequiredRouteReady(runtime, r) /\ TurnAdmitted(q, x, p, r)

\* A version number names one configuration: whatever changes in a row, its version
\* grows, also when a certificate bundle is sealed before the row is locked
\* (replace_egress_custom_ca and the update commands).  A validation alone leaves
\* the version, and changes nothing but the evidence, which names that version, and
\* the status of a row that had failed.
VersionsGrow ==
    [][\A t \in {"networks", "reliabilities", "endpoints", "deployments", "routes"} :
         \A x \in DOMAIN db[t] :
            \/ db'[t][x] = db[t][x]
            \/ db'[t][x].version > db[t][x].version
            \/ t \in {"endpoints", "deployments"} /\ db'[t][x] = Validated(db[t][x])]_catalogVars

\* Under one idempotency key at most one command is done, be it a creation or a
\* validation, and whoever repeats the command is told of that one
\* (begin_idempotent_command_with_fingerprint, load_completed_idempotency_replay,
\* replay_from_row, complete_idempotent_command).
Abstract == INSTANCE OnceOnly WITH Keys <- RecordKeys, done <- made, told <- told
DoneOnce == Abstract!Spec

================================================================================
