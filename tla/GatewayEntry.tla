------------------------------ MODULE GatewayEntry ------------------------------
(***************************************************************************)
(* How a model request is admitted (gateway/mod.rs): the credential of its *)
(* headers is resolved in a published snapshot to an organization and a    *)
(* principal, the model to a route, and the route to the candidates the    *)
(* request may be sent to.  The body is abstracted to its intent: model,   *)
(* response mode, scopes, capabilities and the bound of the output.        *)
(*                                                                         *)
(* A principal is [scopes, caps, routes : a sequence of ceilings that must *)
(* all allow a request].  A route ceiling is a set of routes or AllRoutes, *)
(* the ceiling "all organization granted".                                 *)
(***************************************************************************)
EXTENDS RuntimeBuilder

CONSTANT AllRoutes

(***************************************************************************)
(* Credentials.  A header holds None or a credential: [type |-> "key",     *)
(* key] or [type |-> "token", issuer, subject, claims].                    *)
(***************************************************************************)

\* The header of a protocol's own API key, if it has one.
ProviderKey(request) ==
    CASE request.family = "anthropic" -> request.headers.xApiKey
      [] request.family = "gemini" -> request.headers.xGoogApiKey
      [] OTHER -> None

\* Exactly one credential, in the place its protocol gives it.
ExtractCredential(request) ==
    LET bearer == request.headers.authorization
        key == ProviderKey(request) IN
    {c \in {bearer, key} \ {None} :
        /\ bearer = None \/ key = None
        /\ c = key => c.type = "key"
        /\ (c = bearer /\ request.family \in {"anthropic", "gemini"}) => c.type # "key"}

\* A gateway key's principal and its organization.
AuthenticateGatewayKey(snapshot, k) ==
    {[org |-> snapshot.keys[x].org, scopes |-> {snapshot.keys[x].scopes},
      caps |-> {snapshot.keys[x].caps}, routes |-> {snapshot.keys[x].routes}] :
        x \in {x \in DOMAIN snapshot.keys \cap {k} : snapshot.keys[x].active}}

\* The organization a token speaks for: its claim, the header, or either if they agree.
SelectedOrganization(issuer, claims, header) ==
    CASE issuer.selector = "claim" -> {claims.org} \ {None}
      [] issuer.selector = "header" -> {header} \ {None}
      [] issuer.selector = "either" ->
            IF claims.org # None /\ header # None /\ claims.org # header THEN {}
            ELSE {claims.org, header} \ {None}
      [] OTHER -> {}

\* A claim narrows what the issuer allows when the issuer maps it.
ClaimMissing(issuer, claims, f) ==
    f \in issuer.mapped /\ claims[f] = None /\ issuer.policy = "required_narrowing"

Narrowed(issuer, claims, f, ceiling) ==
    IF issuer.policy = "ignore" \/ f \notin issuer.mapped \/ claims[f] = None THEN ceiling
    ELSE IF ceiling = AllRoutes THEN claims[f] ELSE ceiling \cap claims[f]

DeriveLlmCeiling(issuer, claims) ==
    LET scopes == Narrowed(issuer, claims, "scopes", issuer.scopes) IN
    {c \in {[scopes |-> scopes, caps |-> Narrowed(issuer, claims, "caps", issuer.caps),
             routes |-> Narrowed(issuer, claims, "routes", issuer.routes)]} :
        /\ scopes # {}
        /\ \A f \in {"scopes", "caps", "routes"} : ~ClaimMissing(issuer, claims, f)}

\* A token of an active issuer for a bound, active user who is a member.
AuthenticateDirectJwt(snapshot, token, header) ==
    LET issuer == snapshot.identity.issuers[token.issuer]
        user == snapshot.identity.bindings[<<token.issuer, token.subject>>] IN
    IF \/ ~issuer.active \/ ~issuer.llm
       \/ <<token.issuer, token.subject>> \notin DOMAIN snapshot.identity.bindings
       \/ user \notin snapshot.identity.users
    THEN {}
    ELSE {[org |-> p[1], scopes |-> {p[2].scopes, snapshot.identity.members[<<p[1], user>>].scopes},
           caps |-> {p[2].caps, snapshot.identity.members[<<p[1], user>>].caps},
           routes |-> {p[2].routes, snapshot.identity.members[<<p[1], user>>].routes}] :
            p \in {p \in SelectedOrganization(issuer, token.claims, header)
                         \X DeriveLlmCeiling(issuer, token.claims) :
                     <<p[1], user>> \in DOMAIN snapshot.identity.members}}

\* The principals of a request: none or one, of an active organization.
AuthenticateIdentity(snapshot, request) ==
    {p \in UNION {IF c.type = "key" THEN AuthenticateGatewayKey(snapshot, c.key)
                  ELSE AuthenticateDirectJwt(snapshot, c, request.headers.organization) :
                    c \in ExtractCredential(request)} :
        p.org \in snapshot.organizations}

(***************************************************************************)
(* Authorization.                                                          *)
(***************************************************************************)

AllowsScopes(p, scopes) == \A s \in p.scopes : scopes \subseteq s

AllowsCapabilities(p, caps) == \A c \in p.caps : caps \subseteq c

RouteCeilingAllows(ceiling, r) == ceiling = AllRoutes \/ r \in ceiling

AllowsRoute(p, r) == \A c \in p.routes : RouteCeilingAllows(c, r)

\* The active route of the organization, else a granted active system route.
ResolveRoute(snapshot, org, ingress, model) ==
    LET named(o) == {r \in DOMAIN snapshot.routes :
            LET w == snapshot.routes[r] IN
            w.org = o /\ w.ingress = ingress /\ w.model = model /\ w.active} IN
    IF named(org) # {} THEN named(org)
    ELSE named(None) \cap DOMAIN snapshot.grants[org].routes

\* The ceilings of the grant by which an organization uses a system route.
GrantOf(snapshot, org, r) ==
    {snapshot.grants[org].routes[x] :
        x \in {x \in DOMAIN snapshot.grants[org].routes \cap {r} : snapshot.routes[x].org = None}}

GrantAllows(g, caps) == g.caps = None \/ caps \subseteq g.caps

\* The output bound of a request: its own, else the route's narrowed by the grant.
RequestedBound(snapshot, org, r, intent) ==
    IF intent.output # None THEN intent.output
    ELSE Min({snapshot.routes[r].output}
             \cup {g.output : g \in {g \in GrantOf(snapshot, org, r) : g.output # None}})

(***************************************************************************)
(* Candidates: the targets of the route that operate, are capable of the   *)
(* request, speak its protocol in its mode, have a client and are not kept *)
(* from the request by their health.  Their order is by priority and,      *)
(* within one, by a hash the model leaves open.                            *)
(*                                                                         *)
(* excluded is the set of <<route, deployment>> that health keeps from the *)
(* request, any set of them: their circuit is open on this replica, a      *)
(* fresh observation says open or unavailable, or the request is not in    *)
(* the sample that may probe a recovering target (allows_candidate,        *)
(* modules TargetCircuit and TargetProbe).                                 *)
(***************************************************************************)

Candidates(runtime, excluded, org, r, intent, required) ==
    LET snapshot == runtime.snapshot
        w == snapshot.routes[r] IN
    {t \in w.targets :
        LET d == snapshot.deployments[t.deployment] IN
        /\ d.operational /\ required \subseteq d.caps
        /\ t.output # None => RequestedBound(snapshot, org, r, intent) <= t.output
        /\ \E e \in Compatibility(w.ingress, d.adapter, d.kind, d.transport) : Supports(e, intent.mode)
        /\ (w.org # None /\ d.org = None) => t.deployment \in snapshot.grants[org].deployments
        /\ d.client \in {c.key : c \in runtime.clients}
        /\ <<r, t.deployment>> \notin excluded}

\* What a request is admitted to: its organization, route and candidates.
AuthenticateAndAdmit(runtime, excluded, request) ==
    LET snapshot == runtime.snapshot
        intent == request.intent IN
    {a \in UNION {{[org |-> p.org, principal |-> p, route |-> r,
                    candidates |-> Candidates(runtime, excluded, p.org, r, intent,
                                              snapshot.routes[r].required \cup intent.caps)] :
                        r \in ResolveRoute(snapshot, p.org, request.family, intent.model)} :
                    p \in AuthenticateIdentity(snapshot, request)} :
        /\ AllowsRoute(a.principal, a.route)
        /\ AllowsScopes(a.principal, intent.scopes)
        /\ AllowsCapabilities(a.principal, intent.caps)
        /\ \A g \in GrantOf(snapshot, a.org, a.route) : GrantAllows(g, intent.caps)
        /\ a.candidates # {}}

\* A streaming turn for a model, of the bound its route sets.
TurnIntent(model) ==
    [model |-> model, mode |-> "websocket", scopes |-> {"invoke", "stream"}, caps |-> {"streaming"},
     output |-> None]

SocketRequest(request) == [request EXCEPT !.family = "responses"]

\* Whether a streaming turn of principal p could be sent on route r.
WebsocketRoute(runtime, excluded, p, r) ==
    LET w == runtime.snapshot.routes[r]
        intent == TurnIntent(w.model) IN
    /\ w.active /\ w.ingress = "responses"
    /\ w.org = p.org \/ GrantOf(runtime.snapshot, p.org, r) # {}
    /\ AllowsRoute(p, r) /\ AllowsCapabilities(p, intent.caps)
    /\ \A g \in GrantOf(runtime.snapshot, p.org, r) : GrantAllows(g, intent.caps)
    /\ Candidates(runtime, excluded, p.org, r, intent, w.required \cup intent.caps) # {}

\* A WebSocket is accepted when some route could serve a streaming turn on it.
AuthenticateWebsocketConnection(runtime, excluded, request) ==
    \E p \in AuthenticateIdentity(runtime.snapshot, SocketRequest(request)) :
        /\ AllowsScopes(p, {"invoke", "stream"})
        /\ \E r \in DOMAIN runtime.snapshot.routes : WebsocketRoute(runtime, excluded, p, r)

\* Mutant: readiness looks at the route and not at the clients of its targets.
RouteIsActive(runtime, r) ==
    r \in DOMAIN runtime.snapshot.routes /\ runtime.snapshot.routes[r].active

\* Whether a route the operator requires can serve: structure only, no health.
RequiredRouteReady(runtime, r) ==
    LET snapshot == runtime.snapshot
        w == snapshot.routes[r] IN
    /\ r \in DOMAIN snapshot.routes
    /\ w.active
    /\ w.org # None => w.org \in snapshot.organizations
    /\ \E t \in w.targets :
          LET d == snapshot.deployments[t.deployment] IN
          /\ d.operational /\ w.required \subseteq d.caps
          /\ d.client \in {c.key : c \in runtime.clients}
          /\ w.org # None =>
                IF d.org = None THEN t.deployment \in snapshot.grants[w.org].deployments
                ELSE d.org = w.org /\ d.endpoint \in snapshot.grants[w.org].endpoints
================================================================================
