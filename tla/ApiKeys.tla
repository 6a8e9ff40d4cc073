-------------------------------- MODULE ApiKeys --------------------------------
(***************************************************************************)
(* Management and gateway API keys (application/key_management.rs,         *)
(* gateway_keys.rs), the key policies they live under, and the browser     *)
(* sessions made from management keys (authentication.rs).                 *)
(*                                                                         *)
(* Commands lock the owner and its policy and are one transaction each.    *)
(* Requests are authenticated against the published snapshot, which lags   *)
(* behind the tables, and a session is inserted some time after the key    *)
(* that asked for it was accepted.                                         *)
(*                                                                         *)
(* A key's "values" stand for its scopes and capability ceiling (for a     *)
(* gateway key: its scopes and routes); "w" stands for the write, secrets  *)
(* and authority scopes the commands ask for.  Times are days for expiry   *)
(* and overlap alike.  A request names the current If-Match, and comes     *)
(* from an administrator, who dominates every key, or from a member, who   *)
(* may only create keys of the member class; who may act at all is the     *)
(* subject of module Identity.                                             *)
(***************************************************************************)
EXTENDS Integers, FiniteSets

CONSTANTS
    Keys, Sessions, SessionCallers,
    Policies,      \* organization policies a request may propose
    DefaultPolicy, \* the policy of a new installation and organization
    Requested,     \* sets of values a request may name
    MemberValues,  \* what the role of a member allows
    Budgets,       \* limits of a gateway key's budget
    MaxTime,       \* bound: the clock
    MaxCommands,   \* bound: committed commands
    Forever        \* an absent expiry, later than any other

Values == {"r", "w"}
Owners == {"deployment", "org"}
Classes == {"standard", "member"}
Families == {"management", "gateway"}

Section == [on : BOOLEAN, values : SUBSET Values, keys : Nat, days : Nat,
            overlap : Nat, budget : Nat]

ASSUME KeysAssumption ==
    /\ IsFiniteSet(Keys) /\ IsFiniteSet(Sessions) /\ IsFiniteSet(SessionCallers)
    /\ Policies \cup {DefaultPolicy} \subseteq [Families -> [Classes -> Section]]
    /\ Requested \subseteq SUBSET Values /\ MemberValues \subseteq Values
    /\ Budgets \subseteq Nat
    /\ MaxTime \in Nat /\ MaxCommands \in Nat /\ Forever \in Nat
    /\ \A p \in Policies \cup {DefaultPolicy}, f \in Families, c \in Classes :
          Forever > MaxTime + p[f][c].days

VARIABLES
    now,       \* the clock
    policy,    \* deployment_management_key_policy and organization_api_key_policies
    keys,      \* management_api_keys and gateway_api_keys with their versions
    orgActive, \* the organization's status
    published, \* what the runtime snapshot holds of these tables
    sessions,  \* management key sessions of web_sessions
    pending,   \* callers whose key was accepted and whose session is not inserted yet
    commands   \* commands so far

keysVars == <<now, policy, keys, orgActive, published, sessions, pending, commands>>

NoKey == [family |-> "none", owner |-> "org", class |-> "standard", values |-> {},
          status |-> "revoked", created |-> 0, expires |-> 0, budget |-> 0, inForce |-> 0,
          version |-> 0, secretAt |-> 0, overlap |-> 0, ovFrom |-> 0, ovUntil |-> 0]
NoIdentity == [key |-> "none", version |-> 0, values |-> {}]
NoKeySession == [id |-> NoIdentity, live |-> FALSE]

Min2(a, b) == IF a < b THEN a ELSE b

-----------------------------------------------------------------------------
(* Policies                                                                  *)

\* validate_policy_shape: an enabled member section stays within the global one.
Within(member, global) ==
    /\ member.values \subseteq global.values
    /\ member.keys <= global.keys /\ member.days <= global.days
    /\ member.overlap <= global.overlap /\ member.budget <= global.budget

\* A disabled member section is empty.
Disabled(section) == section.values = {} /\ section.keys = 0 /\ section.days = 0 /\ section.overlap = 0

\* validate_policy_section and validate_gateway_policy_section
SectionShape(section) == section.values # {} /\ section.keys > 0 /\ section.days > 0
GatewayShape(section) == section.on => SectionShape(section) /\ section.budget > 0

PolicyShape(p) ==
    /\ SectionShape(p["management"]["standard"])
    /\ p["management"]["member"].on => SectionShape(p["management"]["member"])
    /\ \A c \in Classes : GatewayShape(p["gateway"][c])
    /\ IF p["management"]["member"].on THEN Within(p["management"]["member"], p["management"]["standard"])
                                       ELSE Disabled(p["management"]["member"])
    /\ IF p["gateway"]["member"].on THEN Within(p["gateway"]["member"], p["gateway"]["standard"])
                                    ELSE Disabled(p["gateway"]["member"]) /\ p["gateway"]["member"].budget = 0

\* default_organization_api_key_policy
ASSUME DefaultAssumption == PolicyShape(DefaultPolicy)

\* effective_policy_values and effective_policy_limit.
Allowed(p, f, c) == p[f]["standard"].values \cap p[f][c].values
Days(p, f, c) == Min2(p[f]["standard"].days, p[f][c].days)
Overlap(p, f, c) == Min2(p[f]["standard"].overlap, p[f][c].overlap)

Enabled(p, f, c) == f = "gateway" => p[f]["standard"].on /\ p[f][c].on

\* A key that counts against the limits of its owner.
Available(k) == keys[k].status = "active" /\ keys[k].expires > now
CountOf(ks, o, f, cs) ==
    Cardinality({k \in Keys : /\ ks[k].family = f /\ ks[k].owner = o /\ ks[k].class \in cs
                              /\ ks[k].status = "active" /\ ks[k].expires > now})

\* enforce_active_key_limit: there is room for one more.
RoomFor(o, f, c) ==
    LET p == policy[o]
    IN  /\ CountOf(keys, o, f, Classes) < p[f]["standard"].keys
        /\ c = "member" => CountOf(keys, o, f, {"member"}) < Min2(p[f]["standard"].keys, p[f]["member"].keys)

\* ensure_active_key_counts_fit_policy
CountsFit(ks, o, p) ==
    /\ CountOf(ks, o, "management", Classes) <= p["management"]["standard"].keys
    /\ o = "org" =>
          /\ CountOf(ks, o, "management", {"member"})
                <= Min2(p["management"]["standard"].keys, p["management"]["member"].keys)
          /\ p["gateway"]["standard"].on =>
                CountOf(ks, o, "gateway", Classes) <= p["gateway"]["standard"].keys
          /\ p["gateway"]["member"].on =>
                CountOf(ks, o, "gateway", {"member"}) <= p["gateway"]["member"].keys

-----------------------------------------------------------------------------
(* The published snapshot and the keys it accepts                            *)

\* The verifier the snapshot holds for a management key, within the policy of
\* that time.
Verifier(k) ==
    LET e == keys[k]
        effective == e.values \cap Allowed(policy[e.owner], e.family, e.class)
    IN  [e EXCEPT !.values = effective, !.status = IF effective = {} THEN "revoked" ELSE @]

\* The snapshot is refreshed after commands and by the controller.
Publish ==
    /\ published' = [keys |-> [k \in Keys |-> IF keys[k].family = "management" THEN Verifier(k) ELSE NoKey],
                     orgActive |-> orgActive]
    /\ published' # published
    /\ UNCHANGED <<now, policy, keys, orgActive, sessions, pending, commands>>

\* authenticate_management_key: secret v of key k is accepted.
Accepts(k, v) ==
    LET e == published.keys[k]
    IN  /\ e.family = "management" /\ v > 0
        /\ v = e.version \/ (v = e.overlap /\ e.ovUntil > now)
        /\ e.status = "active" /\ e.expires > now
        /\ e.owner = "org" => published.orgActive

KeyIdentity(k, v) ==
    [key |-> k, version |-> v, values |-> published.keys[k].values]

\* validate_session_principal: a session is accepted while its key and the
\* very secret it was made from are.
AcceptsSession(s) == sessions[s].live /\ Accepts(sessions[s].id.key, sessions[s].id.version)

\* Mutant: only a change that tightens ends the sessions of the key.
EndsSessionsTightening(old, new) ==
    (old.values # new.values /\ new.values \subseteq old.values) \/ old.status # new.status \/ new.expires < old.expires

\* A change of a key's authority ends the sessions made from it.
EndsSessions(old, new) ==
    old.values # new.values \/ old.status # new.status \/ old.expires # new.expires

RevokeSessionsOf(ks) ==
    [s \in Sessions |-> IF sessions[s].id.key \in ks THEN [sessions[s] EXCEPT !.live = FALSE] ELSE sessions[s]]

\* Counts a command against the bound.
Commit == commands < MaxCommands /\ commands' = commands + 1

Locked(o) == o = "org" => orgActive

-----------------------------------------------------------------------------
(* Management keys                                                           *)

\* validate_destination_policy
FitsDestination(p, f, c, values, expires, created) ==
    /\ values \subseteq Allowed(p, f, c)
    /\ expires # Forever => expires <= created + Days(p, f, c)

EffectiveExpiry(p, f, c, expires, created) == Min2(expires, created + Days(p, f, c))

Expiries == (now + 1 .. MaxTime + 1) \cup {Forever}

FreshKey(f, o, c, values, expires, budget, inForce) ==
    [family |-> f, owner |-> o, class |-> c, values |-> values, status |-> "active",
     created |-> now, expires |-> expires, budget |-> budget, inForce |-> inForce,
     version |-> 1, secretAt |-> now, overlap |-> 0, ovFrom |-> 0, ovUntil |-> 0]

CreateManagementKey(c, k, o, values, expires) ==
    LET p == policy[o]
    IN  /\ keys[k].family = "none" /\ Locked(o) /\ values # {}
        /\ c = "member" => o = "org" /\ p["management"]["member"].on /\ values \subseteq MemberValues
        /\ FitsDestination(p, "management", c, values, expires, now)
        /\ RoomFor(o, "management", c)
        /\ keys' = [keys EXCEPT ![k] = FreshKey("management", o, c, values,
                       EffectiveExpiry(p, "management", c, expires, now), 0, 0)]
        /\ Commit
        /\ UNCHANGED <<now, policy, orgActive, published, sessions, pending>>

\* Values, status and expiry that are not given keep what is stored.
UpdateManagementKey(k, values, status, expires) ==
    LET e == keys[k]
        p == policy[e.owner]
        new == [e EXCEPT !.values = values, !.status = status,
                         !.expires = EffectiveExpiry(p, "management", e.class, expires, e.created)]
    IN  /\ e.family = "management" /\ Locked(e.owner)
        /\ values # {} /\ (e.status = "revoked" => status = "revoked")
        /\ FitsDestination(p, "management", e.class, values, expires, e.created)
        /\ (~Available(k) /\ new.status = "active" /\ new.expires > now) => RoomFor(e.owner, "management", e.class)
        /\ new # e
        /\ keys' = [keys EXCEPT ![k] = new]
        /\ sessions' = IF EndsSessions(e, new) THEN RevokeSessionsOf({k}) ELSE sessions
        /\ Commit
        /\ UNCHANGED <<now, policy, orgActive, published, pending>>

\* The older overlap ends; the current secret becomes the overlap, for a while.
Rotated(e, length, from) ==
    [e EXCEPT !.version = @ + 1, !.secretAt = now,
              !.overlap = IF length = 0 THEN 0 ELSE e.version,
              !.ovFrom = IF length = 0 THEN 0 ELSE from,
              !.ovUntil = IF length = 0 THEN 0 ELSE now + length]

RotateManagementKey(k, length) ==
    LET e == keys[k]
    IN  /\ e.family = "management" /\ Locked(e.owner)
        /\ e.status = "active"
        /\ length <= Overlap(policy[e.owner], "management", e.class)
        /\ keys' = [keys EXCEPT ![k] = Rotated(e, length, now)]
        /\ Commit
        /\ UNCHANGED <<now, policy, orgActive, published, sessions, pending>>

-----------------------------------------------------------------------------
(* Gateway keys                                                              *)

\* A budget has a desired version and one in force, 0 while there is none.  With
\* a mode that only records (direct) a version is in force at once; otherwise its
\* activation (module PolicyActivation) puts it there.
InForce(direct, budget, old) == IF direct THEN budget ELSE old

\* The version load_budget_input reads.
BudgetLimit(e) == IF e.inForce # 0 THEN e.inForce ELSE e.budget

\* validate_gateway_destination
FitsGateway(p, c, values, expires, created, budget) ==
    /\ p["gateway"][c].on /\ values \subseteq p["gateway"][c].values
    /\ budget <= p["gateway"][c].budget
    /\ expires # Forever => expires <= created + p["gateway"][c].days

CreateGatewayKey(c, k, values, expires, budget, direct) ==
    LET p == policy["org"]
    IN  /\ keys[k].family = "none" /\ orgActive /\ values # {}
        /\ FitsGateway(p, c, values, expires, now, budget)
        /\ RoomFor("org", "gateway", c)
        /\ keys' = [keys EXCEPT ![k] = FreshKey("gateway", "org", c, values,
                       Min2(expires, now + p["gateway"][c].days),
                       budget, InForce(direct, budget, 0))]
        /\ Commit
        /\ UNCHANGED <<now, policy, orgActive, published, sessions, pending>>

\* The policy is looked at only when the authority of the key grows.
UpdateGatewayKey(k, values, status, expires) ==
    LET e == keys[k]
        new == [e EXCEPT !.values = values, !.status = status, !.expires = expires]
        increase == ~(values \subseteq e.values) \/ (e.status # "active" /\ status = "active") \/ expires > e.expires
    IN  /\ e.family = "gateway" /\ orgActive
        /\ values # {} /\ (e.status = "revoked" => status = "revoked")
        /\ increase => FitsGateway(policy["org"], e.class, values, expires, e.created, BudgetLimit(e))
        /\ new # e
        /\ keys' = [keys EXCEPT ![k] = new]
        /\ Commit
        /\ UNCHANGED <<now, policy, orgActive, published, sessions, pending>>

\* update_gateway_key_budget and begin_gateway_key_budget_epoch: whatever the
\* key's status, the new version fits both sections of the current policy.
UpdateGatewayKeyBudget(k, budget, direct) ==
    LET e == keys[k]
        new == [e EXCEPT !.budget = budget, !.inForce = InForce(direct, budget, @)]
    IN  /\ e.family = "gateway" /\ orgActive
        /\ \A c \in {"standard", e.class} :
              policy["org"]["gateway"][c].on /\ budget <= policy["org"]["gateway"][c].budget
        /\ new # e
        /\ keys' = [keys EXCEPT ![k] = new]
        /\ Commit
        /\ UNCHANGED <<now, policy, orgActive, published, sessions, pending>>

\* The activation of the desired version ends: the policy is not asked (activate_policy_durably).
ActivateGatewayBudget(k) ==
    /\ keys[k].family = "gateway" /\ keys[k].inForce # keys[k].budget
    /\ keys' = [keys EXCEPT ![k].inForce = keys[k].budget]
    /\ UNCHANGED <<now, policy, orgActive, published, sessions, pending, commands>>

\* The secret carries its own creation time, which a later clamp starts from.
RotateGatewayKey(k, length) ==
    LET e == keys[k]
    IN  /\ e.family = "gateway" /\ orgActive /\ e.status = "active"
        /\ length <= policy["org"]["gateway"][e.class].overlap
        /\ keys' = [keys EXCEPT ![k] = Rotated(e, length, e.secretAt)]
        /\ Commit
        /\ UNCHANGED <<now, policy, orgActive, published, sessions, pending>>

-----------------------------------------------------------------------------
(* Policies are updated, and every existing key is cut to them               *)

ClampedOverlap(e, p) ==
    LET until == Min2(e.ovUntil, e.ovFrom + Overlap(p, e.family, e.class))
    IN  IF e.overlap = 0 THEN e
        ELSE IF until <= now THEN [e EXCEPT !.overlap = 0, !.ovFrom = 0, !.ovUntil = 0]
        ELSE [e EXCEPT !.ovUntil = until]

\* Mutant: a key keeps the expiry it was issued with.
ClampKeepsExpiry(e, p) ==
    LET kept == e.values \cap Allowed(p, e.family, e.class)
    IN  ClampedOverlap(
          [e EXCEPT !.values = kept,
                    !.status = IF kept = {} \/ ~Enabled(p, e.family, e.class) THEN "revoked" ELSE @], p)

\* clamp_keys_to_policy and clamp_gateway_keys_to_policy: what does not fit is
\* cut off, and a key with nothing left is revoked.  A gateway key that loses
\* everything keeps its values and is revoked.
Clamp(e, p) ==
    LET kept == e.values \cap Allowed(p, e.family, e.class)
    IN  ClampedOverlap(
          [e EXCEPT !.values = IF kept = {} /\ e.family = "gateway" THEN @ ELSE kept,
                    !.status = IF kept = {} \/ ~Enabled(p, e.family, e.class) THEN "revoked" ELSE @,
                    !.expires = Min2(@, e.created + Days(p, e.family, e.class))], p)

ClampAll(o, p) ==
    [k \in Keys |-> IF keys[k].family = "none" \/ keys[k].owner # o THEN keys[k] ELSE Clamp(keys[k], p)]

ClampedSessions(clamped) ==
    RevokeSessionsOf({k \in Keys : keys[k].family = "management" /\ EndsSessions(keys[k], clamped[k])})

\* ensure_gateway_policies_fit_policy: the desired version and the one in force.
BudgetsFit(ks, p) ==
    \A k \in Keys : (ks[k].family = "gateway" /\ ks[k].status # "revoked") =>
        \A limit \in {ks[k].budget, ks[k].inForce} :
            limit <= Min2(p["gateway"]["standard"].budget, p["gateway"][ks[k].class].budget)

\* The deployment's policy has the one section for standard management keys.
UpdateDeploymentPolicy(section) ==
    LET p == [policy["deployment"] EXCEPT !["management"]["standard"] = section]
        clamped == ClampAll("deployment", p)
    IN  /\ p # policy["deployment"] /\ SectionShape(section)
        /\ CountsFit(clamped, "deployment", p)
        /\ keys' = clamped /\ sessions' = ClampedSessions(clamped)
        /\ policy' = [policy EXCEPT !["deployment"] = p]
        /\ Commit
        /\ UNCHANGED <<now, orgActive, published, pending>>

UpdateOrganizationPolicy(p) ==
    LET clamped == ClampAll("org", p)
    IN  /\ p # policy["org"] /\ PolicyShape(p) /\ orgActive
        /\ CountsFit(clamped, "org", p) /\ BudgetsFit(clamped, p)
        /\ keys' = clamped /\ sessions' = ClampedSessions(clamped)
        /\ policy' = [policy EXCEPT !["org"] = p]
        /\ Commit
        /\ UNCHANGED <<now, orgActive, published, pending>>

-----------------------------------------------------------------------------
(* The organization, sessions and time                                       *)

\* update_organization: suspension ends the sessions of the organization's keys.
SetOrganization(active) ==
    /\ orgActive # active /\ orgActive' = active
    /\ sessions' = IF active THEN sessions
                   ELSE RevokeSessionsOf({k \in Keys : keys[k].owner = "org"})
    /\ Commit
    /\ UNCHANGED <<now, policy, keys, published, pending>>

\* A request with a key is accepted; its identity is fixed from here on.
AuthenticateKey(c, k, v) ==
    /\ pending[c] = NoIdentity /\ Accepts(k, v)
    /\ pending' = [pending EXCEPT ![c] = KeyIdentity(k, v)]
    /\ UNCHANGED <<now, policy, keys, orgActive, published, sessions, commands>>

\* create_key_session: the key's row is neither locked nor read again.
CreateKeySession(c, s) ==
    /\ pending[c] # NoIdentity /\ sessions[s] = NoKeySession
    /\ sessions' = [sessions EXCEPT ![s] = [id |-> pending[c], live |-> TRUE]]
    /\ pending' = [pending EXCEPT ![c] = NoIdentity]
    /\ UNCHANGED <<now, policy, keys, orgActive, published, commands>>

Logout(s) ==
    /\ AcceptsSession(s)
    /\ sessions' = [sessions EXCEPT ![s].live = FALSE]
    /\ UNCHANGED <<now, policy, keys, orgActive, published, pending, commands>>

Tick ==
    /\ now < MaxTime /\ now' = now + 1
    /\ UNCHANGED <<policy, keys, orgActive, published, sessions, pending, commands>>

KeysInit ==
    /\ now = 0 /\ policy = [o \in Owners |-> DefaultPolicy]
    /\ keys = [k \in Keys |-> NoKey] /\ orgActive = TRUE
    /\ published = [keys |-> keys, orgActive |-> TRUE]
    /\ sessions = [s \in Sessions |-> NoKeySession]
    /\ pending = [c \in SessionCallers |-> NoIdentity] /\ commands = 0

KeyStatuses == {"active", "disabled", "revoked"}

KeysNext ==
    \/ Publish \/ Tick
    \/ \E c \in Classes, k \in Keys, values \in Requested, e \in Expiries :
          \/ \E o \in Owners : CreateManagementKey(c, k, o, values, e)
          \/ \E b \in Budgets, direct \in BOOLEAN : CreateGatewayKey(c, k, values, e, b, direct)
    \/ \E k \in Keys, values \in Requested, st \in KeyStatuses :
          \E e \in Expiries \cup {keys[k].expires} :
             \/ UpdateManagementKey(k, values, st, e)
             \/ UpdateGatewayKey(k, values, st, e)
    \/ \E k \in Keys, b \in Budgets, direct \in BOOLEAN : UpdateGatewayKeyBudget(k, b, direct)
    \/ \E k \in Keys : ActivateGatewayBudget(k)
    \/ \E k \in Keys, n \in 0 .. MaxTime :
          RotateManagementKey(k, n) \/ RotateGatewayKey(k, n)
    \/ \E p \in Policies : UpdateDeploymentPolicy(p["management"]["standard"]) \/ UpdateOrganizationPolicy(p)
    \/ \E b \in BOOLEAN : SetOrganization(b)
    \/ \E c \in SessionCallers, k \in Keys, v \in 1 .. MaxCommands : AuthenticateKey(c, k, v)
    \/ \E c \in SessionCallers, s \in Sessions : CreateKeySession(c, s)
    \/ \E s \in Sessions : Logout(s)

KeysSpec == KeysInit /\ [][KeysNext]_keysVars

-----------------------------------------------------------------------------
(* Properties                                                                *)

\* Every management key that is not revoked stays within the policy of its
\* owner and class, however creation, update, rotation and policy changes
\* interleave: its scopes, its expiry counted from its issue, its overlap
\* counted from the rotation, and the number of available keys.  The scopes and
\* routes of a gateway key stay within the policy as well, and so do the desired
\* limit of its budget and the one in force, though a version is put in force
\* without a look at the policy.
KeysFitPolicy ==
    /\ \A k \in Keys : keys[k].status # "revoked" =>
        LET e == keys[k]
            p == policy[e.owner]
        IN  /\ e.values \subseteq Allowed(p, e.family, e.class)
            /\ e.family = "management" =>
                  /\ e.expires <= e.created + Days(p, e.family, e.class)
                  /\ e.overlap # 0 => e.ovUntil <= e.ovFrom + Overlap(p, e.family, e.class)
            /\ e.family = "gateway" => /\ e.budget <= p["gateway"][e.class].budget
                                         /\ e.inForce <= p["gateway"][e.class].budget
    /\ \A o \in Owners :
          /\ CountOf(keys, o, "management", Classes) <= policy[o]["management"]["standard"].keys
          /\ CountOf(keys, o, "management", {"member"}) <= policy[o]["management"]["member"].keys

\* The scopes a session has from the stored key: none once it or its secret ended.
SessionScopes(s) ==
    LET i == sessions[s].id
    IN  IF /\ sessions[s].live /\ keys[i.key].status = "active" /\ keys[i.key].expires > now
           /\ i.version = keys[i.key].version \/ (i.version = keys[i.key].overlap /\ keys[i.key].ovUntil > now)
        THEN i.values \cap keys[i.key].values ELSE {}

\* An existing session is never widened: whatever happens to its key, to the
\* policy or to the secret, and even when the session was inserted after the
\* key had been changed, the scopes the session has only shrink.
SessionsNeverWiden ==
    [][\A s \in Sessions : sessions[s] # NoKeySession => SessionScopes(s)' \subseteq SessionScopes(s)]_keysVars
================================================================================
