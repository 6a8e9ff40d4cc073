------------------------------- MODULE MCCatalog -------------------------------
(***************************************************************************)
(* Two organizations: the system has a deployment and a route, o1 a        *)
(* credential and o2 a deployment.  In the second population o1 is alone   *)
(* and also has a deployment and a route that uses both.  In the third it  *)
(* is alone and the system's deployment speaks Responses over WebSockets.  *)
(***************************************************************************)
EXTENDS Catalog, TLC

Network(s, denied) ==
    [status |-> s, safe |-> TRUE, proxy |-> FALSE, classes |-> {"private"}, allowed |-> {},
     denied |-> denied, pem |-> "none"]

MCNetworks ==
    {[Network("active", {}) EXCEPT !.pem = "valid"], Network("disabled", {}), Network("active", {"private"}),
     [Network("active", {}) EXCEPT !.proxy = TRUE], [Network("active", {}) EXCEPT !.pem = "invalid", !.safe = FALSE]}

Reliability(s, retries) ==
    [status |-> s, attempts |-> 2, retries |-> retries, failovers |-> 1, timeout |-> 5, overall |-> 9,
     backoff |-> 1, maxBackoff |-> 2, open |-> 1, maxOpen |-> 4, probeTimeout |-> 1, probeInterval |-> 2]

MCReliabilities == {Reliability("active", 1), Reliability("disabled", 1), Reliability("active", 2)}

Endpoint(s, network) ==
    [adapter |-> "openai_api", url |-> "https", host |-> "private", network |-> network, status |-> s]

MCEndpoints ==
    {Endpoint("active", "n1"), Endpoint("active", "n2"), Endpoint("validation_failed", "n1"),
     [Endpoint("active", "n1") EXCEPT !.host = "name"], [Endpoint("active", "n1") EXCEPT !.url = "http"]}

MCVersions == {[usable |-> TRUE], [usable |-> FALSE]}

Deployment(o, credential, caps, s) ==
    [org |-> o, endpoint |-> "e1", credential |-> credential, transport |-> "chat_completions",
     caps |-> caps, pricing |-> None, unpriced |-> TRUE, isolation |-> "shared", status |-> s]

MCDeployments ==
    {Deployment(None, "c0", {"tools"}, "active"), Deployment(None, "c0", {}, "active"),
     Deployment("o1", "c1", {"tools"}, "active"), Deployment("o1", "c1", {"tools"}, "disabled"),
     [Deployment("o1", "c1", {"tools"}, "active") EXCEPT !.pricing = "v1", !.unpriced = FALSE],
     [Deployment(None, "c0", {"tools"}, "active") EXCEPT !.isolation = "dedicated"],
     Deployment("o1", "c0", {"tools"}, "active"),
     [Deployment(None, "c0", {"tools"}, "active") EXCEPT !.transport = "messages_native"]}

Target(d, weight, enabled) ==
    [known |-> FALSE, deployment |-> d, priority |-> 0, weight |-> weight, enabled |-> enabled,
     output |-> None, timeout |-> 5]

Route(o, required, s, targets) ==
    [org |-> o, ingress |-> "chat", model |-> "m", required |-> required, reliability |-> "p1",
     output |-> 4, status |-> s, targets |-> targets]

MCRoutes ==
    {Route(None, {"tools"}, "active", {Target("d0", 256, TRUE)}),
     Route(None, {}, "disabled", {[Target("d0", 1, TRUE) EXCEPT !.known = TRUE]}),
     Route("o1", {"tools"}, "active", {Target("d0", 1, TRUE), Target("d1", 1, TRUE)}),
     Route("o1", {}, "draft", {Target("d0", 256, FALSE)}),
     Route("o1", {}, "active", {Target("d9", 1, TRUE)}),
     Route("o1", {}, "active", {Target("d0", 256, TRUE), Target("d1", 1, TRUE)})}

Ceiling(caps) == [caps |-> caps, output |-> None]

Everything == [routes |-> ("r0" :> Ceiling(None)), endpoints |-> {"e1"}, deployments |-> {"d0"},
               reliabilities |-> {"p1"}]

Nothing == [routes |-> <<>>, endpoints |-> {}, deployments |-> {}, reliabilities |-> {}]

MCGrants == {Everything, Nothing,
             [Everything EXCEPT !.routes = ("r0" :> Ceiling({})), !.deployments = {"d0", "d9"}]}

MCKeyRoutes == {{"r0"}, {"r0", "r1"}, {"r1"}}

KeySection == [enabled |-> TRUE, scopes |-> {"invoke", "stream"}, caps |-> {"tools", "streaming"},
               routes |-> {"r0", "r1"}]

Organization ==
    [status |-> "active",
     policy |-> [standard |-> KeySection, member |-> [KeySection EXCEPT !.caps = {"tools"}]]]

Member == [scopes |-> {"invoke"}, caps |-> {"tools"}, routes |-> AllRoutes]

Credential(o) ==
    [org |-> o, kind |-> "static_api_key", admin |-> TRUE, ready |-> TRUE, selected |-> 1,
     identity |-> 1, selectedIdentity |-> 1]

Small ==
    [organizations |-> [o \in {"o1", "o2"} |-> Organization],
     networks |-> ("n1" :> ([version |-> 1, ca |-> 0, sealed |-> 0] @@ NetworkFields(Network("active", {})))),
     endpoints |-> ("e1" :> ([version |-> 1, evidence |-> 0] @@ Endpoint("active", "n1"))),
     reliabilities |-> ("p1" :> ([version |-> 1] @@ Reliability("active", 1))),
     pricings |-> ("x1" :> [status |-> "active", current |-> "v1"]),
     versions |-> ("v1" :> [policy |-> "x1", usable |-> TRUE, generation |-> 1]),
     credentials |-> ("c0" :> Credential(None)) @@ ("c1" :> Credential("o1"))
                     @@ ("c2" :> Credential("o2")),
     deployments |-> ("d0" :> ([version |-> 1, evidence |-> 0] @@ Deployment(None, "c0", {"tools"}, "active")))
                     @@ ("d9" :> ([version |-> 1, evidence |-> 0] @@ Deployment("o2", "c2", {"tools"}, "active"))),
     routes |-> ("r0" :> ([version |-> 1]
                          @@ Route(None, {"tools"}, "active", ReplaceTargets({Target("d0", 1, TRUE)})))),
     grants |-> ("o1" :> Everything) @@ ("o2" :> [Nothing EXCEPT !.endpoints = {"e1"}]),
     keys |-> ("k1" :> [org |-> "o1", class |-> "member", scopes |-> {"invoke"}, routes |-> {"r0"},
                        status |-> "active"]),
     identity |-> [issuers |-> ("i1" :> [active |-> TRUE, llm |-> TRUE, scopes |-> {"invoke", "stream"},
                                         caps |-> {"tools"}, routes |-> AllRoutes, selector |-> "either",
                                         policy |-> "optional_narrowing", mapped |-> {"routes"}]),
                   bindings |-> (<<"i1", "s1">> :> "u1"), users |-> {"u1"},
                   members |-> (<<"o1", "u1">> :> Member)]]

Only(table, ids) == [x \in ids |-> table[x]]

Alone == [Small EXCEPT !.organizations = Only(@, {"o1"}), !.grants = Only(@, {"o1"}),
                       !.credentials = Only(@, {"c0", "c1"}), !.deployments = Only(@, {"d0"})]

Large ==
    [Alone EXCEPT
        !.deployments = ("d1" :> ([version |-> 1, evidence |-> 0]
            @@ [Deployment("o1", "c1", {"tools"}, "active") EXCEPT !.pricing = "v1", !.unpriced = FALSE])) @@ @,
        !.routes = ("r1" :> ([version |-> 1]
            @@ Route("o1", {"tools"}, "active",
                     ReplaceTargets({[Target("d0", 1, TRUE) EXCEPT !.output = 3], Target("d1", 1, TRUE)})))) @@ @]

Sockets ==
    [Alone EXCEPT
        !.credentials = Only(@, {"c0"}), !.pricings = <<>>, !.versions = <<>>,
        !.deployments["d0"].transport = "responses_websocket",
        !.deployments["d0"].caps = {"tools", "streaming"},
        !.routes["r0"].ingress = "responses",
        !.keys["k1"].class = "standard", !.keys["k1"].scopes = {"invoke", "stream"}]

MCPopulations == {Small, Large, Sockets}

MCIds == [networks |-> {"n1", "n2"}, reliabilities |-> {"p1", "p2"}, endpoints |-> {"e1", "e2"},
          pricings |-> {"x1", "x2"}, versions |-> {"v1", "v2"}, deployments |-> {"d0", "d1", "d2", "d9"},
          routes |-> {"r0", "r1"}]

NoHeaders == [authorization |-> None, xApiKey |-> None, xGoogApiKey |-> None, organization |-> None]

Token(org, routes) ==
    [type |-> "token", issuer |-> "i1", subject |-> "s1",
     claims |-> [org |-> org, scopes |-> None, caps |-> None, routes |-> routes]]

Intent(caps) == [model |-> "m", mode |-> "sse", scopes |-> {"invoke"}, caps |-> caps,
                 output |-> IF caps = {} THEN 3 ELSE None]

MCExclusions == {{}, {<<"r0", "d0">>, <<"r1", "d1">>}}

MCRequests ==
    {[family |-> i[1], intent |-> [Intent(i[2]) EXCEPT !.mode = IF i[1] = "chat" THEN "sse" ELSE "websocket"],
      headers |-> [NoHeaders EXCEPT !.authorization = c[1], !.organization = c[2]]] :
        i \in {<<"chat", {}>>, <<"chat", {"tools"}>>, <<"responses", {}>>},
        c \in {<<[type |-> "key", key |-> "k1"], None>>, <<Token(None, None), "o1">>,
               <<Token("o2", None), "o1">>, <<Token("o1", {"r1"}), None>>}}
================================================================================
