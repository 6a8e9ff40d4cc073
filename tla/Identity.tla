-------------------------------- MODULE Identity --------------------------------
(***************************************************************************)
(* Users, organizations, memberships and invitations (resources.rs,        *)
(* invitations.rs), system administrators (key_management.rs), the         *)
(* external issuer with its bindings, onboarding and browser login         *)
(* (external_identity.rs, identity_resources.rs, oidc.rs), the sessions    *)
(* made from a login and the authorization of requests (authentication.rs).*)
(*                                                                         *)
(* Every command is one transaction.  A request is authorized against the  *)
(* published snapshot when it arrives and commits some time later; a       *)
(* browser login runs through four separate steps on the snapshot it       *)
(* captured.  Commands of the deployment are issued by the seed            *)
(* administrator, whose authority is in the configuration and never stale; *)
(* management keys are the subject of module ApiKeys.                      *)
(*                                                                         *)
(* Capabilities are grouped by the role that has them: "read" for members, *)
(* "members" for admins, "owners" for owners and "system" for system       *)
(* administrators.  A ceiling stands for the scopes and capabilities that  *)
(* an issuer, a token or a session allows.  There is one issuer.           *)
(***************************************************************************)
EXTENDS Integers, FiniteSets

CONSTANTS
    Users, Orgs, Subjects, Invites,
    Logins,        \* browser logins, each with its state and transaction token
    Callbacks,     \* callbacks of the browser, each makes at most one session
    Requests,      \* management requests under way
    Ceilings,      \* ceilings an issuer may be given
    Claims,        \* ceilings a token may name
    Sources,       \* JWKS sources of the issuer
    Profiles,      \* browser login profiles of the issuer
    NewUsers,      \* users that do not exist in the initial installation
    NewOrgs,       \* organizations that do not exist there
    Installations, \* roles and open invitations to start from
    InitUser,      \* users the subjects are bound to, or None
    None,          \* no user, organization, login, session, profile or snapshot
    Absent,        \* a token without the mapped claim
    MaxCommands,   \* bound: committed commands
    MaxStarts      \* bound: requests, callbacks and jobs that start

Caps == {"read", "members", "owners", "system"}
Roles == {"none", "member", "admin", "owner"}
Modes == {"ignore", "optional", "required"}

ASSUME IdentityAssumption ==
    /\ NewUsers \subseteq Users /\ NewOrgs \subseteq Orgs
    /\ None \notin Users \cup Orgs \cup Logins \cup Callbacks
    /\ "jwt" \notin Callbacks /\ "seed" \notin Callbacks
    /\ Sources # {} /\ Profiles # {}
    /\ Ceilings \subseteq SUBSET Caps /\ Claims \subseteq SUBSET Caps
    /\ \A x \in Installations : x.members \in [Orgs -> [Users -> Roles]] /\ x.invited \subseteq Invites \X Orgs
    /\ \A x \in Installations : IsFiniteSet(x.invited)
    /\ \A x \in Installations, o \in Orgs, u \in NewUsers : x.members[o][u] = "none"
    /\ InitUser \in [Subjects -> Users \cup {None}]
    /\ \A x \in Installations, o \in Orgs :
          o \in NewOrgs <=> \A u \in Users : x.members[o][u] # "owner"
    /\ MaxCommands \in Nat /\ MaxStarts \in Nat

VARIABLES
    db,        \* the tables the runtime snapshot is built from
    published, \* the snapshot requests are checked against
    invitations, sessions, logins, onboarding,
    secret,    \* the profile the stored client secret was given for, or None
    callbacks, requests,
    refresh,   \* a refresh of the verifier material under way
    sealing,   \* a replacement of the client secret under way
    lease,     \* worker_leases of the refresh: its fencing token and whether it is valid
    commands,
    starts     \* requests, callbacks and jobs so far

vars == <<db, published, invitations, sessions, logins, onboarding, secret,
          callbacks, requests, refresh, sealing, lease, commands, starts>>

tables == <<db, published>>
people == <<invitations, requests>>
logging == <<logins, callbacks>>
policy == <<onboarding, secret>>
jobs == <<refresh, sealing, lease>>
bounds == <<commands, starts>>

NoAuthority == [user |-> None, subject |-> None, caps |-> {}, sys |-> FALSE,
                orgs |-> [o \in Orgs |-> {}], active |-> {}, via |-> None]
NoInvite == [state |-> "none", org |-> None, role |-> "none", byOwner |-> FALSE]
NoJob == [version |-> 0, about |-> None, material |-> 0, fence |-> 0]
Idle == [stage |-> "idle", login |-> None, gen |-> None, subject |-> None,
         claim |-> Absent, id |-> NoAuthority]

-----------------------------------------------------------------------------
(* Authority                                                                 *)

\* role_allows
RoleCaps(role) ==
    CASE role = "owner"  -> {"read", "members", "owners"}
      [] role = "admin"  -> {"read", "members"}
      [] role = "member" -> {"read"}
      [] role = "none"   -> {}

\* local_user_authority: what the snapshot gives a user below a ceiling.
LocalAuthority(snap, u, ceiling) ==
    [sys  |-> "system" \in ceiling /\ u \in snap.admins,
     orgs |-> [o \in Orgs |-> IF snap.orgs[o] = "active"
                              THEN ceiling \cap RoleCaps(snap.members[o][u]) ELSE {}]]

\* derive_management_ceiling: what a token's claims leave of the issuer's ceiling;
\* Absent is a token without the claim.
ClaimsFit(issuer, claim) == ~(issuer.mode = "required" /\ claim = Absent)
DeriveCeiling(issuer, claim) ==
    IF issuer.mode = "ignore" \/ claim = Absent THEN issuer.ceiling
    ELSE issuer.ceiling \cap claim

\* verify_external_jwt_in_generation: the subject is bound to an active user and
\* something is left of the ceiling.
VerifiesJwt(snap, s, claim) ==
    /\ snap.issuer.status = "active"
    /\ snap.bindings[s] # None /\ snap.users[snap.bindings[s]] = "active"
    /\ ClaimsFit(snap.issuer, claim) /\ DeriveCeiling(snap.issuer, claim) # {}
JwtIdentity(snap, s, claim) ==
    LET u == snap.bindings[s]
        ceiling == DeriveCeiling(snap.issuer, claim)
        local == LocalAuthority(snap, u, ceiling)
    IN  [user |-> u, subject |-> s, caps |-> ceiling, sys |-> local.sys, orgs |-> local.orgs,
         active |-> {o \in Orgs : snap.orgs[o] = "active"}, via |-> "jwt"]

\* validate_session_principal: the session's issuer, user and binding still stand.
ValidSession(snap, id) ==
    /\ snap.users[id.user] = "active" /\ snap.issuer.status = "active"
    /\ snap.bindings[id.subject] = id.user

\* Mutant: the current memberships alone.
MeetCurrent(captured, current) == current

\* intersect_organization_capability_maps
MeetOrgs(captured, current) == [o \in Orgs |-> captured[o] \cap current[o]]

\* What a session is worth now: captured authority, issuer ceiling, local authority.
SessionIdentity(snap, c) ==
    LET id == sessions[c].id
        ceiling == id.caps \cap snap.issuer.ceiling
        local == LocalAuthority(snap, id.user, ceiling)
    IN  [id EXCEPT !.caps = ceiling, !.sys = id.sys /\ local.sys,
                   !.orgs = MeetOrgs(id.orgs, local.orgs),
                   !.active = {o \in Orgs : snap.orgs[o] = "active"}, !.via = c]

\* authorize for an organization: an administrator by its ceiling, a member by its
\* captured capabilities.  The organization is active in the captured snapshot.
Authorizes(id, o, cap) ==
    /\ o \in id.active
    /\ IF id.sys THEN cap \in id.caps ELSE cap \in id.orgs[o]

\* An organization command of request r.
Allowed(r, o, cap) == requests[r] # NoAuthority /\ Authorizes(requests[r], o, cap)
Done(r) == requests' = [requests EXCEPT ![r] = NoAuthority]

Commit == commands < MaxCommands /\ commands' = commands + 1
Start == starts < MaxStarts /\ starts' = starts + 1

\* UPDATE web_sessions SET status='revoked' ... for the live sessions S.
Live == {c \in Callbacks : sessions[c].live}
Revoke(S) == sessions' = [c \in Callbacks |->
                 IF c \in S THEN [sessions[c] EXCEPT !.live = FALSE] ELSE sessions[c]]
RevokeMember(u, o) == Revoke({c \in Live : sessions[c].id.user = u /\ sessions[c].id.orgs[o] # {}})
RevokeUser(u) == Revoke({c \in Live : sessions[c].id.user = u})

-----------------------------------------------------------------------------
(* Users, organizations and administrators                                   *)

SystemCommand == Commit /\ UNCHANGED <<logging, people, published, refresh, lease, starts>>

CreateUser(u) ==
    /\ db.users[u] = "none"
    /\ db' = [db EXCEPT !.users[u] = "active"]
    /\ SystemCommand /\ UNCHANGED <<policy, sessions, sealing>>

\* update_user: disabling ends every session of the user.
UpdateUser(u, status) ==
    /\ db.users[u] # "none"
    /\ db' = [db EXCEPT !.users[u] = status]
    /\ IF status = "disabled" THEN RevokeUser(u) ELSE UNCHANGED sessions
    /\ SystemCommand /\ UNCHANGED <<policy, sealing>>

CreateOrganization(o, owner) ==
    /\ db.orgs[o] = "none" /\ db.users[owner] = "active"
    /\ db' = [db EXCEPT !.orgs[o] = "active", !.members[o][owner] = "owner"]
    /\ SystemCommand /\ UNCHANGED <<policy, sessions, sealing>>

\* Mutant: any active member counts as an owner.
OwnersOfAnyRole(members, o) == {u \in Users : members[o][u] # "none"}

\* The owners of an organization, as ensure_not_final_owner and the deferred
\* trigger enforce_active_organization_owner count them.
OwnersOf(members, o) == {u \in Users : members[o][u] = "owner"}
OwnerTrigger(rows) ==
    \A o \in Orgs : rows.orgs[o] = "active" => OwnersOf(rows.members, o) # {}

UpdateOrganization(o, status) ==
    /\ db.orgs[o] # "none"
    /\ db' = [db EXCEPT !.orgs[o] = status]
    /\ OwnerTrigger(db')
    /\ IF status = "suspended" THEN Revoke({c \in Live : sessions[c].id.orgs[o] # {}}) ELSE UNCHANGED sessions
    /\ SystemCommand /\ UNCHANGED <<policy, sealing>>

GrantAdministrator(u) ==
    /\ db.users[u] = "active"
    /\ db' = [db EXCEPT !.admins = @ \cup {u}]
    /\ SystemCommand /\ UNCHANGED <<policy, sessions, sealing>>

RevokeAdministrator(u) ==
    /\ u \in db.admins
    /\ db' = [db EXCEPT !.admins = @ \ {u}]
    /\ RevokeUser(u)
    /\ SystemCommand /\ UNCHANGED <<policy, sealing>>

-----------------------------------------------------------------------------
(* Memberships and invitations                                               *)

OrgCommand(r) == Commit /\ Done(r) /\ UNCHANGED <<logging, jobs, policy, published, starts>>

\* Owners are managed with the owners capability, everybody else with members.
CapFor(role) == IF role = "owner" THEN "owners" ELSE "members"

CreateMembership(r, o, u, role) ==
    /\ Allowed(r, o, CapFor(role))
    /\ db.orgs[o] = "active" /\ db.users[u] = "active" /\ db.members[o][u] = "none"
    /\ db' = [db EXCEPT !.members[o][u] = role]
    /\ OrgCommand(r) /\ UNCHANGED <<invitations, sessions>>

NotFinalOwner(o, u) == OwnersOf(db.members, o) \ {u} # {}

UpdateMembership(r, o, u, role) ==
    LET current == db.members[o][u] IN
    /\ db.orgs[o] = "active" /\ current \notin {"none", role}
    /\ Allowed(r, o, IF "owner" \in {current, role} THEN "owners" ELSE "members")
    /\ current = "owner" => NotFinalOwner(o, u)
    /\ db' = [db EXCEPT !.members[o][u] = role]
    /\ OwnerTrigger(db')
    /\ RevokeMember(u, o)
    /\ OrgCommand(r) /\ UNCHANGED invitations

RemoveMembership(r, o, u) ==
    LET current == db.members[o][u] IN
    /\ db.orgs[o] = "active" /\ current # "none"
    /\ Allowed(r, o, CapFor(current))
    /\ current = "owner" => NotFinalOwner(o, u)
    /\ db' = [db EXCEPT !.members[o][u] = "none"]
    /\ OwnerTrigger(db')
    /\ RevokeMember(u, o)
    /\ OrgCommand(r) /\ UNCHANGED invitations

CreateInvitation(r, i, o, role) ==
    /\ invitations[i].state = "none" /\ db.orgs[o] = "active"
    /\ Allowed(r, o, CapFor(role))
    /\ invitations' = [invitations EXCEPT ![i] = [state |-> "pending", org |-> o, role |-> role,
                                                  byOwner |-> Allowed(r, o, "owners")]]
    /\ OrgCommand(r) /\ UNCHANGED <<db, sessions>>

\* The capability a new token for the invitation takes: resending an invitation of
\* an owner is authorized a second time, with the owners capability.
ResendNeeds(i) == {"members"} \cup IF invitations[i].role = "owner" THEN {"owners"} ELSE {}

ResendInvitation(r, i) ==
    /\ invitations[i].state = "pending"
    /\ \A cap \in ResendNeeds(i) : Allowed(r, invitations[i].org, cap)
    /\ invitations' = [invitations EXCEPT ![i].byOwner = Allowed(r, invitations[i].org, "owners")]
    /\ OrgCommand(r) /\ UNCHANGED <<db, sessions>>

RevokeInvitation(r, i) ==
    /\ invitations[i].state = "pending" /\ Allowed(r, invitations[i].org, "members")
    /\ invitations' = [invitations EXCEPT ![i].state = "revoked"]
    /\ OrgCommand(r) /\ UNCHANGED <<db, sessions>>

\* accept_invitation: a local user with the current token; the user's status is
\* the one of the snapshot the request was authenticated with.
AcceptInvitation(r, i) ==
    LET o == invitations[i].org
        u == requests[r].user
    IN
    /\ u # None /\ invitations[i].state = "pending"
    /\ db.orgs[o] = "active" /\ db.members[o][u] = "none"
    /\ db' = [db EXCEPT !.members[o][u] = invitations[i].role]
    /\ invitations' = [invitations EXCEPT ![i].state = "accepted"]
    /\ OrgCommand(r) /\ UNCHANGED sessions

-----------------------------------------------------------------------------
(* Bindings, the issuer and onboarding                                       *)

\* A binding row is kept when it is removed; None stands for both a removed and a
\* missing row, removed tells them apart.
CreateBinding(s, u) ==
    /\ db.bindings[s] = None /\ db.users[u] = "active"
    /\ db' = [db EXCEPT !.bindings[s] = u, !.removed = @ \ {s}]
    /\ SystemCommand /\ UNCHANGED <<policy, sessions, sealing>>

RevokeSubject(s) == Revoke({c \in Live : sessions[c].id.subject = s})

RelinkBinding(s, u) ==
    /\ db.bindings[s] # None /\ db.users[u] = "active"
    /\ db' = [db EXCEPT !.bindings[s] = u]
    /\ RevokeSubject(s)
    /\ SystemCommand /\ UNCHANGED <<policy, sealing>>

RemoveBinding(s) ==
    /\ db.bindings[s] # None
    /\ db' = [db EXCEPT !.bindings[s] = None, !.removed = @ \cup {s}]
    /\ RevokeSubject(s)
    /\ SystemCommand /\ UNCHANGED <<policy, sealing>>

\* update_external_identity_issuer: one field of the policy.  Verifier material is
\* fetched again with a new source, the client secret is dropped with the profile,
\* and every external session ends unless only the name changed.
IssuerFields == [{"status"} -> {"active", "disabled"}] \cup [{"ceiling"} -> Ceilings]
                \cup [{"mode"} -> Modes] \cup [{"source"} -> Sources]
                \cup [{"profile"} -> Profiles \cup {None}] \cup [{"onboards"} -> BOOLEAN]
IssuerAfter(input) ==
    LET new == [f \in DOMAIN db.issuer |->
                    IF f \in DOMAIN input THEN input[f] ELSE db.issuer[f]]
    IN  [new EXCEPT !.version = @ + 1,
                    !.material = IF "source" \in DOMAIN input
                                 THEN [id |-> @.id + 1, source |-> input.source] ELSE @]

UpdateIssuer(input) ==
    /\ db' = [db EXCEPT !.issuer = IssuerAfter(input)]
    /\ secret' = IF db'.issuer.profile # db.issuer.profile THEN None ELSE secret
    /\ Revoke(Live)
    /\ SystemCommand /\ UNCHANGED <<onboarding, sealing>>

RenameIssuer ==
    /\ db' = [db EXCEPT !.issuer.version = @ + 1]
    /\ SystemCommand /\ UNCHANGED <<policy, sessions, sealing>>

\* replace_browser_client_secret: the profile is read, the secret is sealed, and
\* the row is written only if the policy is still the one that was read.
BeginSecret ==
    /\ Start /\ sealing = NoJob /\ db.issuer.profile # None
    /\ sealing' = [NoJob EXCEPT !.version = db.issuer.version, !.about = db.issuer.profile]
    /\ UNCHANGED <<logging, people, policy, tables, sessions, refresh, lease, commands>>

SecretStillApplies == db.issuer.profile # None /\ db.issuer.version = sealing.version

CommitSecret ==
    /\ sealing # NoJob /\ sealing' = NoJob
    /\ IF SecretStillApplies
       THEN /\ db' = [db EXCEPT !.issuer.version = @ + 1] /\ secret' = sealing.about
            /\ Commit
       ELSE UNCHANGED <<db, secret, commands>>
    /\ UNCHANGED <<logging, people, published, sessions, onboarding, refresh, lease, starts>>

\* Provisioning policies: disabled, or enabled with a personal organization or a
\* mapping to an existing organization.
UpdateOnboarding(kind) ==
    /\ kind # onboarding /\ onboarding' = kind
    /\ SystemCommand /\ UNCHANGED <<db, sessions, secret, sealing>>

-----------------------------------------------------------------------------
(* Verifier material                                                         *)

\* acquire_refresh_lease; a refresh asked for by an administrator (fence 0) takes none.
\* The source and the material are those of the published snapshot.
BeginRefresh(leased) ==
    /\ Start /\ refresh = NoJob
    /\ leased => ~lease.valid
    /\ lease' = IF leased THEN [fence |-> lease.fence + 1, valid |-> TRUE] ELSE lease
    /\ refresh' = [version |-> published.issuer.version, about |-> published.issuer.source,
                   material |-> published.issuer.material.id,
                   fence |-> IF leased THEN lease'.fence ELSE 0]
    /\ UNCHANGED <<logging, people, policy, tables, sessions, sealing, commands>>

ExpireLease ==
    /\ lease.valid /\ lease' = [lease EXCEPT !.valid = FALSE]
    /\ UNCHANGED <<logging, people, policy, tables, bounds, sessions, refresh, sealing>>

\* Mutant: only the lease is checked.
RefreshLeaseOnly == refresh.fence = 0 \/ (lease.valid /\ lease.fence = refresh.fence)

\* The policy and the material are the ones the keys were fetched for.
RefreshStillApplies ==
    /\ refresh.fence = 0 \/ (lease.valid /\ lease.fence = refresh.fence)
    /\ db.issuer.version = refresh.version /\ db.issuer.material.id = refresh.material

\* The keys that were fetched are new, or the same as before, or the fetch failed.
FinishRefresh(keys) ==
    /\ refresh # NoJob /\ refresh' = NoJob
    /\ IF keys = "new" /\ RefreshStillApplies
       THEN /\ db' = [db EXCEPT !.issuer.material = [id |-> @.id + 1, source |-> refresh.about]]
            /\ Commit
       ELSE UNCHANGED <<db, commands>>
    /\ UNCHANGED <<logging, people, policy, published, sessions, sealing, lease, starts>>

-----------------------------------------------------------------------------
(* Browser login                                                             *)

BrowserLoginOn(snap) == snap.issuer.status = "active" /\ snap.issuer.profile # None

BeginLogin(l) ==
    /\ logins[l].state = "none" /\ BrowserLoginOn(published)
    /\ logins' = [logins EXCEPT ![l] = [state |-> "pending", version |-> published.issuer.version,
                                        sessions |-> 0]]
    /\ UNCHANGED <<people, jobs, policy, tables, bounds, sessions, callbacks>>

\* cleanup_expired_oidc_login_states, and the expiry it follows
ExpireLogin(l) ==
    /\ logins[l].state = "pending"
    /\ logins' = [logins EXCEPT ![l].state = "gone"]
    /\ UNCHANGED <<people, jobs, policy, tables, bounds, sessions, callbacks>>

LoginUsable(l) == logins[l].state = "pending"

\* complete_oidc_login, up to the exchange: the state is consumed whatever follows,
\* and the issuer must be the one the login began with.
ConsumeLogin(c, l) ==
    /\ Start /\ callbacks[c] = Idle /\ ~sessions[c].live /\ sessions[c].id = NoAuthority
    /\ LoginUsable(l)
    /\ logins' = [logins EXCEPT ![l].state = "consumed"]
    /\ callbacks' = IF BrowserLoginOn(published) /\ published.issuer.version = logins[l].version
                    THEN [callbacks EXCEPT ![c] = [Idle EXCEPT !.stage = "exchange", !.login = l,
                                                               !.gen = published]]
                    ELSE callbacks
    /\ UNCHANGED <<people, jobs, policy, tables, sessions, commands>>

\* The provider answers with a token for subject s; an unknown subject is provisioned.
Exchange(c, s, claim) ==
    LET gen == callbacks[c].gen IN
    /\ callbacks[c].stage = "exchange"
    /\ ClaimsFit(gen.issuer, claim) /\ DeriveCeiling(gen.issuer, claim) # {}
    /\ \/ /\ gen.bindings[s] = None
          /\ callbacks' = [callbacks EXCEPT ![c].stage = "provision", ![c].subject = s,
                                            ![c].claim = claim]
       \/ /\ VerifiesJwt(gen, s, claim)
          /\ callbacks' = [callbacks EXCEPT ![c].stage = "session", ![c].gen = None,
                                            ![c].id = JwtIdentity(gen, s, claim)]
    /\ UNCHANGED <<people, jobs, policy, tables, bounds, sessions, logins>>

\* Mutant: the user's memberships stay those of the snapshot.
PatchedBindingOnly(gen, rows, s, u) == [gen EXCEPT !.users[u] = rows.users[u], !.bindings[s] = u]

\* patch_oidc_subject_generation: the captured snapshot with the user, its grants
\* and its memberships as the transaction sees them.
Patched(gen, rows, s, u) ==
    LET mine == {o \in Orgs : rows.members[o][u] # "none"} IN
    [gen EXCEPT !.users[u] = rows.users[u],
                !.bindings[s] = u,
                !.admins = IF u \in rows.admins THEN @ \cup {u} ELSE @ \ {u},
                !.members = [o \in Orgs |-> [@[o] EXCEPT ![u] = rows.members[o][u]]],
                !.orgs = [o \in Orgs |-> IF o \in mine THEN rows.orgs[o] ELSE @[o]]]

Onboards(gen) ==
    /\ db.issuer.status = "active" /\ db.issuer.version = gen.issuer.version
    /\ gen.issuer.onboards /\ db.issuer.onboards /\ onboarding # "disabled"

\* The tables after subject s was given the new user u: a personal organization, or a
\* membership in an organization that must be active.
Provisioned(s, u, o) ==
    IF onboarding = "personal"
    THEN [db EXCEPT !.users[u] = "active", !.bindings[s] = u, !.orgs[o] = "active",
                    !.members[o][u] = "owner"]
    ELSE [db EXCEPT !.users[u] = "active", !.bindings[s] = u, !.members[o][u] = "member"]

\* provision_oidc_subject under the lock of the subject: the binding that exists by now,
\* or a new user.  A removed row makes the insert fail.
ProvisionSubject(c) ==
    LET s == callbacks[c].subject
        gen == callbacks[c].gen
        Continue(rows, u) ==
            LET snap == Patched(gen, rows, s, u) IN
            callbacks' = [callbacks EXCEPT ![c] =
                IF VerifiesJwt(snap, s, callbacks[c].claim)
                THEN [@ EXCEPT !.stage = "session", !.gen = None,
                               !.id = JwtIdentity(snap, s, callbacks[c].claim)]
                ELSE Idle]
    IN
    /\ callbacks[c].stage = "provision" /\ gen.issuer.onboards
    /\ \/ /\ db.bindings[s] # None
          /\ Continue(db, db.bindings[s])
          /\ UNCHANGED <<db, commands>>
       \/ \E u \in Users, o \in Orgs :
          /\ db.bindings[s] = None /\ s \notin db.removed /\ db.users[u] = "none"
          /\ Onboards(gen)
          /\ db.orgs[o] = IF onboarding = "personal" THEN "none" ELSE "active"
          /\ db' = Provisioned(s, u, o)
          /\ Continue(db', u)
          /\ Commit
    /\ UNCHANGED <<people, jobs, policy, published, sessions, logins, starts>>

\* create_external_session: inserted with the authority of the verified token.
InsertSession(c) ==
    /\ callbacks[c].stage = "session"
    /\ sessions' = [sessions EXCEPT ![c] = [id |-> callbacks[c].id, live |-> TRUE]]
    /\ logins' = [logins EXCEPT ![callbacks[c].login].sessions = @ + 1]
    /\ callbacks' = [callbacks EXCEPT ![c] = Idle]
    /\ UNCHANGED <<people, jobs, policy, tables, bounds>>

\* Any step fails, or the process stops: the login has to begin again.
CallbackFails(c) ==
    /\ callbacks[c] # Idle /\ callbacks' = [callbacks EXCEPT ![c] = Idle]
    /\ UNCHANGED <<people, jobs, policy, tables, bounds, sessions, logins>>

-----------------------------------------------------------------------------
(* Requests                                                                  *)

Arrive(r, id) ==
    /\ Start /\ requests[r] = NoAuthority /\ requests' = [requests EXCEPT ![r] = id]
    /\ UNCHANGED <<logging, jobs, policy, tables, invitations, sessions, commands>>

AuthenticateJwt(r, s, claim) ==
    VerifiesJwt(published, s, claim) /\ Arrive(r, JwtIdentity(published, s, claim))

\* The seed administrator: the deployment, with every capability.
SeedIdentity == [NoAuthority EXCEPT !.caps = Caps, !.sys = TRUE,
                                    !.active = {o \in Orgs : published.orgs[o] = "active"},
                                    !.via = "seed"]
AuthenticateSeed(r) == Arrive(r, SeedIdentity)

AuthenticateSession(r, c) ==
    /\ sessions[c].live /\ ValidSession(published, sessions[c].id)
    /\ Arrive(r, SessionIdentity(published, c))

\* logout, and the expiry of a session
EndSession(c) ==
    /\ sessions[c].live /\ sessions' = [sessions EXCEPT ![c].live = FALSE]
    /\ UNCHANGED <<logging, people, jobs, policy, tables, bounds>>

\* The runtime publishes a snapshot of the tables (module RuntimePublisher).
Publish ==
    /\ published # db /\ published' = db
    /\ UNCHANGED <<logging, people, jobs, policy, bounds, db, sessions>>

-----------------------------------------------------------------------------
\* An installation in use: organizations with members, an issuer with two profiles.
\* An invitation of the installation was made by an owner and counts as a command.
Init ==
  \E start \in Installations :
    /\ db = [users |-> [u \in Users |-> IF u \in NewUsers THEN "none" ELSE "active"],
             orgs |-> [o \in Orgs |-> IF o \in NewOrgs THEN "none" ELSE "active"],
             members |-> start.members, admins |-> {}, bindings |-> InitUser, removed |-> {},
             issuer |-> [status |-> "active", version |-> 1, ceiling |-> Caps,
                         mode |-> "optional", onboards |-> TRUE,
                         source |-> CHOOSE x \in Sources : TRUE,
                         material |-> [id |-> 1, source |-> CHOOSE x \in Sources : TRUE],
                         profile |-> CHOOSE p \in Profiles : TRUE]]
    /\ published = db
    /\ invitations = [i \in Invites |->
          IF \E o \in Orgs : <<i, o>> \in start.invited
          THEN [state |-> "pending", org |-> CHOOSE o \in Orgs : <<i, o>> \in start.invited,
                role |-> "owner", byOwner |-> TRUE]
          ELSE NoInvite]
    /\ sessions = [c \in Callbacks |-> [id |-> NoAuthority, live |-> FALSE]]
    /\ logins = [l \in Logins |-> [state |-> "none", version |-> 0, sessions |-> 0]]
    /\ onboarding = "join" /\ secret = None
    /\ callbacks = [c \in Callbacks |-> Idle]
    /\ requests = [r \in Requests |-> NoAuthority]
    /\ refresh = NoJob /\ sealing = NoJob
    /\ lease = [fence |-> 0, valid |-> FALSE]
    /\ commands = Cardinality(start.invited) /\ starts = 0

Tenancy ==
    \/ \E u \in Users : \/ CreateUser(u) \/ GrantAdministrator(u) \/ RevokeAdministrator(u)
                        \/ \E status \in {"active", "disabled"} : UpdateUser(u, status)
    \/ \E o \in Orgs : \/ \E u \in Users : CreateOrganization(o, u)
                       \/ \E status \in {"active", "suspended"} : UpdateOrganization(o, status)
    \/ \E r \in Requests, o \in Orgs, u \in Users :
          \/ RemoveMembership(r, o, u)
          \/ \E role \in Roles \ {"none"} : \/ CreateMembership(r, o, u, role)
                                            \/ UpdateMembership(r, o, u, role)
    \/ \E r \in Requests, i \in Invites :
          \/ ResendInvitation(r, i) \/ RevokeInvitation(r, i)
          \/ \E o \in Orgs, role \in Roles \ {"none"} : CreateInvitation(r, i, o, role)
    \/ \E r \in Requests, i \in Invites : AcceptInvitation(r, i)

External ==
    \/ \E s \in Subjects : \/ RemoveBinding(s)
                           \/ \E u \in Users : CreateBinding(s, u) \/ RelinkBinding(s, u)
    \/ \E input \in IssuerFields : UpdateIssuer(input)
    \/ RenameIssuer \/ BeginSecret \/ CommitSecret
    \/ \E kind \in {"disabled", "join", "personal"} : UpdateOnboarding(kind)
    \/ \E leased \in BOOLEAN : BeginRefresh(leased)
    \/ ExpireLease
    \/ \E keys \in {"new", "same"} : FinishRefresh(keys)

Login ==
    \/ \E l \in Logins : BeginLogin(l) \/ ExpireLogin(l)
    \/ \E c \in Callbacks : \/ \E l \in Logins : ConsumeLogin(c, l)
                            \/ \E s \in Subjects, claim \in Claims \cup {Absent} : Exchange(c, s, claim)
                            \/ ProvisionSubject(c) \/ InsertSession(c) \/ CallbackFails(c)
                            \/ EndSession(c)
    \/ \E r \in Requests : \/ AuthenticateSeed(r)
                           \/ \E s \in Subjects, claim \in Claims \cup {Absent} : AuthenticateJwt(r, s, claim)
                           \/ \E c \in Callbacks : AuthenticateSession(r, c)
    \/ Publish

Next == Tenancy \/ External \/ Login

Spec == Init /\ [][Next]_vars

-----------------------------------------------------------------------------
(* Properties                                                                *)

\* Every active organization keeps an active owner (spec/02 section 7), whatever
\* demotions, removals, suspensions and onboardings follow each other, and whoever
\* issued them on an old snapshot (ensure_not_final_owner, resources.rs); and the
\* usable token of an owner's invitation was issued by somebody who could make
\* owners: an admin never holds a token that makes an owner (invitations.rs).
OwnersRemain ==
    /\ \A o \in Orgs : db.orgs[o] = "active" => \E u \in Users : db.members[o][u] = "owner"
    /\ \A i \in Invites : invitations[i].state \in {"pending", "accepted"}
                            /\ invitations[i].role = "owner" => invitations[i].byOwner

\* A browser login makes at most one session, however many callbacks come back with
\* its state (complete_oidc_login, oidc.rs), and a request of a session never has more
\* authority than the login proved, although the user, the memberships and the issuer
\* may have been given more since
\* (validate_session_principal, authentication.rs; spec/03 section 7).
SessionWithinLogin ==
    /\ \A l \in Logins : logins[l].sessions <= 1
    /\ \A r \in Requests : requests[r].via \in Callbacks =>
          LET captured == sessions[requests[r].via].id IN
          /\ requests[r].sys => captured.sys
          /\ requests[r].caps \subseteq captured.caps
          /\ \A o \in Orgs : requests[r].orgs[o] \subseteq captured.orgs[o]

\* The verifier material in force was fetched from the source in force, and the client
\* secret was given for the browser profile in force, although both are fetched or
\* sealed before the issuer is locked (refresh_issuer_material, external_identity.rs;
\* replace_browser_client_secret, oidc.rs).
IssuerMaterialIsCurrent ==
    /\ db.issuer.material.source = db.issuer.source
    /\ secret # None => secret = db.issuer.profile

\* A login that went through provisioning continues with the memberships and grants the
\* tables hold at that moment, not with those of the snapshot it captured
\* (patch_oidc_subject_generation, identity_resources.rs).
ProvisionedIdentityIsCurrent ==
    [][\A c \in Callbacks :
         callbacks[c].stage = "provision" /\ callbacks'[c].stage = "session" =>
           LET id == callbacks'[c].id IN
           /\ id.sys => id.user \in db'.admins
           /\ \A o \in Orgs : id.orgs[o] # {} =>
                 db'.orgs[o] = "active" /\ id.orgs[o] \subseteq RoleCaps(db'.members[o][id.user])]_vars
================================================================================
