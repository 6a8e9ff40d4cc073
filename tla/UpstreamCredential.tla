-------------------------- MODULE UpstreamCredential --------------------------
(***************************************************************************)
(* One upstream credential (application/upstream_credentials.rs): its      *)
(* secret versions and their ciphertext, the Codex device login, and the   *)
(* refresh of its token by management requests and background workers.     *)
(*                                                                         *)
(* Every operation that calls a provider or the custody service captures   *)
(* what it read, works outside any transaction, and commits in a second    *)
(* transaction fenced by the captured values.  Each transaction is one     *)
(* action; between them anything may happen, the process may stop, and     *)
(* leases and claims may run out.                                          *)
(*                                                                         *)
(* A refresh token is named by the secret version that holds it, which     *)
(* also stands for its fingerprint.  NULL is 0.  An etag is modelled by    *)
(* what it is compared for: an operation's capture is fresh until the next *)
(* write of the credential row.                                            *)
(***************************************************************************)
EXTENDS Integers, FiniteSets

CONSTANTS
    Callers,     \* requests and workers with an operation under way
    Kinds,       \* of "static", "external" and "codex"
    MaxVersion,  \* bound: secret versions
    MaxClaims,   \* bound: refresh claims
    MaxLogins,   \* bound: login sessions
    MaxPolls     \* bound: claims of one login session

ASSUME CredentialAssumption ==
    /\ IsFiniteSet(Callers) /\ Kinds \subseteq {"static", "external", "codex"}
    /\ MaxVersion \in Nat \ {0}
    /\ MaxClaims \in Nat /\ MaxLogins \in Nat /\ MaxPolls \in Nat

VARIABLES
    cred,      \* the row of upstream_credentials
    rows,      \* state of each row of upstream_credential_secret_versions
    sealed,    \* versions whose ciphertext is in protected_secret_versions
    auth,      \* the row of upstream_credential_auth_state
    lease,     \* the refreshing row of upstream_credential_refresh_leases
    session,   \* the active row of upstream_credential_login_sessions
    ops,       \* what each caller's operation has captured
    claims,    \* refresh claims so far: the source of attempt tokens
    presented, \* tokens given to the provider with no known failure since
    abandoned  \* history: tokens current when a login ended without a token

vars == <<cred, rows, sealed, auth, lease, session, ops, claims,
          presented, abandoned>>

Versions == 1 .. MaxVersion
MaxIdentity == MaxVersion + 2  \* bound: repeated revocations

NoCredential == [kind |-> "none", admin |-> "active", status |-> "unvalidated",
                 version |-> 0, identity |-> 0]
NoAuth == [identity |-> 0, token |-> 0, fence |-> 0, due |-> FALSE]
NoLease == [attempt |-> 0, version |-> 0, identity |-> 0, fence |-> 0, expired |-> FALSE]
NoSession == [id |-> 0, state |-> "none", identity |-> 0, attempt |-> 0,
              claimExpired |-> FALSE, expired |-> FALSE]
Idle == [step |-> "idle", version |-> 0, identity |-> 0, fence |-> 0,
         id |-> 0, attempt |-> 0, fresh |-> FALSE, answer |-> "none"]

Init ==
    /\ cred = NoCredential /\ rows = [v \in Versions |-> "none"] /\ sealed = {}
    /\ auth = NoAuth /\ lease = NoLease /\ session = NoSession
    /\ ops = [o \in Callers |-> Idle] /\ claims = 0
    /\ presented = {} /\ abandoned = {}

-----------------------------------------------------------------------------
(* Helpers of several operations                                            *)

ActiveCodex == cred.kind = "codex" /\ cred.admin = "active"

\* A write of the row gives it a new etag: every captured etag is stale now.
Stale(o) == [p \in Callers |-> IF p = o THEN Idle ELSE [ops[p] EXCEPT !.fresh = FALSE]]
StaleAll == [p \in Callers |-> [ops[p] EXCEPT !.fresh = FALSE]]

\* Current and overlap rows are retired.
Retired == [v \in Versions |-> IF rows[v] = "current" THEN "retired" ELSE rows[v]]

\* The unique key (credential_id, version).
Free(v) == v \in Versions /\ rows[v] = "none"

\* The credential's status when a login ended without a token.
SettledStatus == IF cred.version = 0 THEN "login_required" ELSE "ready"

\* Mutant: the ciphertext of the replaced versions is left behind.
ActivateKeepsOld(v, identity) ==
    /\ rows' = [Retired EXCEPT ![v] = "current"]
    /\ sealed' = sealed \cup {v}
    /\ cred' = [cred EXCEPT !.version = v, !.identity = identity, !.status = "ready"]
    /\ auth' = [identity |-> identity, token |-> v, fence |-> 0, due |-> FALSE]

\* activate_codex_token: the new token replaces every selected version.
Activate(v, identity) ==
    /\ rows' = [Retired EXCEPT ![v] = "current"]
    /\ sealed' = {v}
    /\ cred' = [cred EXCEPT !.version = v, !.identity = identity, !.status = "ready"]
    /\ auth' = [identity |-> identity, token |-> v, fence |-> 0, due |-> FALSE]

-----------------------------------------------------------------------------
(* Management of the credential                                             *)

\* validate_create: a database credential comes with its secret, except a
\* Codex one; any other kind has its material at the source it names.
MaterialAllowed(kind, material) == material \/ kind = "codex"

\* Material may come with the request or be at an external source; a Codex
\* credential may be created without any, and then needs a login.
Create(kind, material) ==
    /\ cred.kind = "none"
    /\ MaterialAllowed(kind, material)
    /\ cred' = [kind |-> kind, admin |-> "active", identity |-> 1,
                status |-> IF material THEN "unvalidated" ELSE "login_required",
                version |-> IF material THEN 1 ELSE 0]
    /\ rows' = [rows EXCEPT ![1] = IF material THEN "current" ELSE "none"]
    /\ sealed' = IF material /\ kind # "external" THEN {1} ELSE {}
    /\ UNCHANGED <<auth, lease, session, ops, claims, presented, abandoned>>

\* PATCH with the current If-Match: the status moves, but never out of revoked.
Update(admin) ==
    /\ cred.kind # "none"
    /\ cred.admin = "revoked" => admin = "revoked"
    /\ cred' = [cred EXCEPT !.admin = admin]
    /\ ops' = StaleAll
    /\ UNCHANGED <<rows, sealed, auth, lease, session, claims, presented, abandoned>>

Capture(o, step) ==
    ops' = [ops EXCEPT ![o] = [Idle EXCEPT !.step = step, !.version = cred.version,
                                           !.identity = cred.identity]]

Unchanged(o) == cred.version = ops[o].version /\ cred.identity = ops[o].identity

\* replace_secret reads the credential, then seals outside the transaction.
ReplaceCapture(o) ==
    /\ ops[o].step = "idle" /\ cred.kind = "static"
    /\ Capture(o, "replace")
    /\ UNCHANGED <<cred, rows, sealed, auth, lease, session, claims, presented, abandoned>>

\* The sealed secret becomes the only version: the credential is another one.
Replace(o) ==
    /\ ops[o].step = "replace" /\ Unchanged(o) /\ Free(cred.version + 1)
    /\ rows' = [Retired EXCEPT ![cred.version + 1] = "current"]
    /\ sealed' = {cred.version + 1}
    /\ cred' = [cred EXCEPT !.version = @ + 1, !.identity = @ + 1, !.status = "unvalidated"]
    /\ ops' = Stale(o)
    /\ UNCHANGED <<auth, lease, session, claims, presented, abandoned>>

\* reload_source: a new version of the same external source, to be validated.
ReloadSource ==
    /\ cred.kind = "external" /\ Free(cred.version + 1)
    /\ rows' = [Retired EXCEPT ![cred.version + 1] = "current"]
    /\ cred' = [cred EXCEPT !.version = @ + 1, !.status = "unvalidated"]
    /\ ops' = StaleAll
    /\ UNCHANGED <<sealed, auth, lease, session, claims, presented, abandoned>>

Validatable == cred.admin = "active" /\ cred.version # 0
               /\ (cred.kind = "codex" => cred.status = "ready")

\* validate captures the version and builds the runtime's clients.
ValidateCapture(o) ==
    /\ ops[o].step = "idle" /\ cred.kind # "none" /\ Validatable
    /\ Capture(o, "validate")
    /\ UNCHANGED <<cred, rows, sealed, auth, lease, session, claims, presented, abandoned>>

\* The clients of exactly the captured version were built: it is ready.
Validate(o) ==
    /\ ops[o].step = "validate" /\ Unchanged(o) /\ Validatable
    /\ cred' = [cred EXCEPT !.status = "ready"]
    /\ ops' = Stale(o)
    /\ UNCHANGED <<rows, sealed, auth, lease, session, claims, presented, abandoned>>

\* An operation ends without a write: a check of its commit fails, custody or
\* the provider cannot be reached, or its process stops.
Abandon(o) ==
    /\ ops[o].step # "idle"
    /\ ops' = [ops EXCEPT ![o] = Idle]
    /\ UNCHANGED <<cred, rows, sealed, auth, lease, session, claims, presented, abandoned>>

-----------------------------------------------------------------------------
(* The Codex device login                                                   *)

\* start_codex_login reads the identity, then asks the provider for a code.
StartCapture(o) ==
    /\ ops[o].step = "idle" /\ ActiveCodex
    /\ Capture(o, "start")
    /\ UNCHANGED <<cred, rows, sealed, auth, lease, session, claims, presented, abandoned>>

\* The session is stored; one session of a credential is active at a time.
StartLogin(o) ==
    /\ ops[o].step = "start" /\ ActiveCodex /\ cred.identity = ops[o].identity
    /\ session.state = "none" /\ session.id < MaxLogins
    /\ session' = [NoSession EXCEPT !.id = session.id + 1, !.state = "pending",
                                    !.identity = cred.identity]
    /\ cred' = [cred EXCEPT !.status = "login_pending"]
    /\ ops' = Stale(o)
    /\ UNCHANGED <<rows, sealed, auth, lease, claims, presented, abandoned>>

\* The session has ended: its row keeps only the identifier and the attempts.
EndSession == session' = [session EXCEPT !.state = "none", !.claimExpired = FALSE, !.expired = FALSE]

\* A login ends without a token: the credential falls back to what it had.
Settle ==
    /\ cred' = [cred EXCEPT !.status = SettledStatus]
    /\ abandoned' = abandoned \cup ({cred.version} \ {0})

\* claim_codex_login: a due session, or one whose earlier claim ran out.
ClaimLogin(o) ==
    /\ ops[o].step = "idle" /\ ActiveCodex /\ cred.identity = session.identity
    /\ session.state = "pending" \/ (session.state = "polling" /\ session.claimExpired)
    /\ ~session.expired /\ session.attempt < MaxPolls
    /\ session' = [session EXCEPT !.state = "polling", !.attempt = @ + 1, !.claimExpired = FALSE]
    /\ ops' = [ops EXCEPT ![o] = [Idle EXCEPT !.step = "polling", !.identity = session.identity,
                                              !.id = session.id, !.attempt = session.attempt + 1]]
    /\ UNCHANGED <<cred, rows, sealed, auth, lease, claims, presented, abandoned>>

\* The caller's claim is the session's latest one.
HoldsLogin(o, state) ==
    /\ session.state = state
    /\ session.id = ops[o].id /\ session.attempt = ops[o].attempt

\* The polling secret could not be opened: the claim is given back.
ReleaseClaim(o) ==
    /\ ops[o].step = "polling" /\ HoldsLogin(o, "polling")
    /\ session' = [session EXCEPT !.state = "pending", !.claimExpired = FALSE]
    /\ ops' = [ops EXCEPT ![o] = Idle]
    /\ UNCHANGED <<cred, rows, sealed, auth, lease, claims, presented, abandoned>>

\* The user has not answered yet.
PollAgain(o) ==
    /\ ops[o].step = "polling" /\ HoldsLogin(o, "polling") /\ ~session.expired
    /\ session' = [session EXCEPT !.state = "pending", !.claimExpired = FALSE]
    /\ ops' = [ops EXCEPT ![o] = Idle]
    /\ UNCHANGED <<cred, rows, sealed, auth, lease, claims, presented, abandoned>>

\* The user has authorized the device: the code may be exchanged once.
BeginExchange(o) ==
    /\ ops[o].step = "polling" /\ HoldsLogin(o, "polling") /\ ~session.expired
    /\ session' = [session EXCEPT !.state = "exchanging", !.claimExpired = FALSE]
    /\ ops' = [ops EXCEPT ![o].step = "exchanging"]
    /\ UNCHANGED <<cred, rows, sealed, auth, lease, claims, presented, abandoned>>

\* fail_claimed_codex_login: the exchange failed; the status is written
\* whatever it is by now.
FailLogin(o) ==
    /\ ops[o].step = "exchanging" /\ HoldsLogin(o, "exchanging")
    /\ EndSession /\ Settle
    /\ ops' = Stale(o)
    /\ UNCHANGED <<rows, sealed, auth, lease, claims, presented>>

\* The tokens arrived: the credential they are for is captured, then sealed.
Exchanged(o, account) ==
    /\ ops[o].step = "exchanging"
    /\ ActiveCodex /\ cred.identity = ops[o].identity
    /\ ops' = [ops EXCEPT ![o].step = "sealed", ![o].version = cred.version,
                          ![o].fresh = TRUE, ![o].answer = account]
    /\ UNCHANGED <<cred, rows, sealed, auth, lease, session, claims, presented, abandoned>>

\* Another account is another identity.
NextIdentity(o) == ops[o].identity + IF ops[o].answer = "other" THEN 1 ELSE 0

\* The sealed token is activated if nothing has touched the credential since,
\* and a refresh under way is fenced out.
CompleteLogin(o) ==
    /\ ops[o].step = "sealed" /\ HoldsLogin(o, "exchanging")
    /\ ActiveCodex /\ Unchanged(o) /\ ops[o].fresh /\ Free(cred.version + 1)
    /\ Activate(cred.version + 1, NextIdentity(o))
    /\ lease' = NoLease
    /\ EndSession
    /\ ops' = Stale(o)
    /\ UNCHANGED <<claims, presented, abandoned>>

\* cancel_codex_login, and get_codex_login of an expired session.
CancelLogin ==
    /\ session.state \in {"pending", "polling"}
    /\ EndSession /\ Settle
    /\ ops' = StaleAll
    /\ UNCHANGED <<rows, sealed, auth, lease, claims, presented>>

ExpireLoginOnRead ==
    /\ session.state \in {"pending", "polling"} /\ session.expired
    /\ EndSession /\ Settle
    /\ ops' = StaleAll
    /\ UNCHANGED <<rows, sealed, auth, lease, claims, presented>>

\* The worker's sweep: an expired claim frees a poll, and ends an exchange
\* whose outcome nobody will report.
ReconcileLogin ==
    \/ /\ session.state = "polling" /\ session.claimExpired /\ ~session.expired
       /\ session' = [session EXCEPT !.state = "pending", !.claimExpired = FALSE]
       /\ UNCHANGED <<cred, ops, abandoned>>
    \/ /\ \/ session.state \in {"pending", "polling"} /\ session.expired
          \/ session.state = "exchanging" /\ session.claimExpired
       /\ EndSession
       /\ IF cred.identity = session.identity /\ cred.status = "login_pending"
          THEN Settle /\ ops' = StaleAll
          ELSE UNCHANGED <<cred, ops, abandoned>>

ReconcileLogins ==
    /\ ReconcileLogin
    /\ UNCHANGED <<rows, sealed, auth, lease, claims, presented>>

\* Local revocation: no material, another identity; an exchange under way is
\* left to fail on its own.
Revoke ==
    /\ cred.kind = "codex" /\ cred.identity < MaxIdentity
    /\ cred' = [cred EXCEPT !.admin = "revoked", !.status = "revoked",
                            !.version = 0, !.identity = @ + 1]
    /\ rows' = Retired /\ sealed' = {} /\ auth' = NoAuth /\ lease' = NoLease
    /\ IF session.state \in {"pending", "polling"} THEN EndSession ELSE UNCHANGED session
    /\ ops' = StaleAll
    /\ UNCHANGED <<claims, presented, abandoned>>

-----------------------------------------------------------------------------
(* The refresh of the Codex token                                           *)

\* refresh_codex_credential, or a worker that found the token due: the token
\* is read in a first transaction and opened outside it.
RefreshCapture(o, worker) ==
    /\ ops[o].step = "idle" /\ ActiveCodex
    /\ cred.version # 0 /\ auth.token # 0
    /\ cred.status # "refresh_outcome_unknown"
    /\ worker => auth.due /\ cred.status \in {"ready", "refresh_error"}
    /\ ops' = [ops EXCEPT ![o] = [Idle EXCEPT !.step = "opened", !.version = cred.version,
                                              !.identity = cred.identity, !.fence = auth.fence + 1]]
    /\ UNCHANGED <<cred, rows, sealed, auth, lease, session, claims, presented, abandoned>>

\* The second transaction finds what the first one read, and a usable status.
Claimable(o) ==
    /\ ActiveCodex /\ Unchanged(o)
    /\ auth.token = ops[o].version /\ auth.fence = ops[o].fence - 1
    /\ cred.status \in {"ready", "refresh_error"}

\* The lease is stored before the token is used; the index allows one.
ClaimRefresh(o) ==
    /\ ops[o].step = "opened" /\ Claimable(o)
    /\ lease = NoLease /\ claims < MaxClaims
    /\ claims' = claims + 1
    /\ lease' = [attempt |-> claims + 1, version |-> cred.version, identity |-> cred.identity,
                 fence |-> ops[o].fence, expired |-> FALSE]
    /\ auth' = [auth EXCEPT !.fence = ops[o].fence]
    /\ cred' = [cred EXCEPT !.status = "refreshing"]
    /\ ops' = [StaleAll EXCEPT ![o].step = "claimed", ![o].attempt = claims + 1, ![o].fresh = TRUE]
    /\ UNCHANGED <<rows, sealed, session, presented, abandoned>>

\* What an answer is committed as: sealing the new token may fail in time.
Outcomes(answer) ==
    CASE answer \in {"same", "other"} -> {"success", "unknown"}
      [] answer = "lost" -> {"unknown"}
      [] OTHER -> {answer}

\* The provider gets the token.  It rotates it, refuses it, fails in a way it
\* reports, or the answer is lost and nobody knows.
Present(o, answer) ==
    /\ ops[o].step = "claimed"
    /\ ops' = [ops EXCEPT ![o].step = "answered", ![o].answer = answer]
    /\ presented' = IF answer = "transient" THEN presented ELSE presented \cup {ops[o].version}
    /\ UNCHANGED <<cred, rows, sealed, auth, lease, session, claims, abandoned>>

\* lock_claimed_refresh: the result is written only over what was claimed.
LockClaimed(o) ==
    /\ lease.attempt = ops[o].attempt /\ ~lease.expired
    /\ Unchanged(o) /\ ops[o].fresh
    /\ auth.identity = ops[o].identity /\ auth.token = ops[o].version
    /\ auth.fence = ops[o].fence

\* The new token is sealed and replaces the old one.
CommitSuccess(o) ==
    /\ ops[o].step = "answered" /\ "success" \in Outcomes(ops[o].answer)
    /\ LockClaimed(o) /\ Free(cred.version + 1)
    /\ Activate(cred.version + 1, NextIdentity(o))
    /\ lease' = NoLease
    /\ ops' = Stale(o)
    /\ UNCHANGED <<session, claims, presented, abandoned>>

\* The provider refused the token: it is deleted and the credential expired.
CommitRejected(o) ==
    /\ ops[o].step = "answered" /\ "rejected" \in Outcomes(ops[o].answer) /\ LockClaimed(o)
    /\ cred' = [cred EXCEPT !.status = "expired", !.version = 0]
    /\ rows' = [rows EXCEPT ![cred.version] = "retired"]
    /\ sealed' = sealed \ {cred.version}
    /\ auth' = [auth EXCEPT !.due = FALSE]
    /\ lease' = NoLease
    /\ ops' = Stale(o)
    /\ UNCHANGED <<session, claims, presented, abandoned>>

\* The provider says the token was not used: it may be tried again later.
CommitTransient(o) ==
    /\ ops[o].step = "answered" /\ "transient" \in Outcomes(ops[o].answer) /\ LockClaimed(o)
    /\ cred' = [cred EXCEPT !.status = "refresh_error"]
    /\ auth' = [auth EXCEPT !.due = FALSE]
    /\ lease' = NoLease
    /\ ops' = Stale(o)
    /\ UNCHANGED <<rows, sealed, session, claims, presented, abandoned>>

\* Mutant: a lost answer is taken for a failure the provider reported.
CommitUnknownAsError(o) ==
    /\ ops[o].step = "answered" /\ "unknown" \in Outcomes(ops[o].answer)
    /\ LockClaimed(o)
    /\ cred' = [cred EXCEPT !.status = "refresh_error"]
    /\ auth' = [auth EXCEPT !.due = FALSE]
    /\ lease' = NoLease
    /\ ops' = Stale(o)
    /\ UNCHANGED <<rows, sealed, session, claims, presented, abandoned>>

\* The answer was lost, or the new token could not be sealed in time.
CommitUnknown(o) ==
    /\ ops[o].step = "answered" /\ "unknown" \in Outcomes(ops[o].answer)
    /\ LockClaimed(o)
    /\ cred' = [cred EXCEPT !.status = "refresh_outcome_unknown"]
    /\ auth' = [auth EXCEPT !.due = FALSE]
    /\ lease' = NoLease
    /\ ops' = Stale(o)
    /\ UNCHANGED <<rows, sealed, session, claims, presented, abandoned>>

\* Mutant: the sweep closes the lease and leaves the credential as it is.
StillCurrentNever == FALSE

\* The lease still speaks for the credential as it is.
StillCurrent ==
    /\ cred.identity = lease.identity /\ cred.version = lease.version
    /\ cred.status = "refreshing"
    /\ auth.identity = lease.identity /\ auth.token = lease.version /\ auth.fence = lease.fence

\* The worker's sweep: nobody will report the outcome of an expired lease.
ReconcileLeases ==
    /\ lease.expired
    /\ lease' = NoLease
    /\ IF StillCurrent
       THEN /\ cred' = [cred EXCEPT !.status = "refresh_outcome_unknown"]
            /\ auth' = [auth EXCEPT !.due = FALSE]
            /\ ops' = StaleAll
       ELSE UNCHANGED <<cred, auth, ops>>
    /\ UNCHANGED <<rows, sealed, session, claims, presented, abandoned>>

-----------------------------------------------------------------------------
(* Time                                                                     *)

LeaseExpires ==
    /\ lease # NoLease /\ ~lease.expired
    /\ lease' = [lease EXCEPT !.expired = TRUE]
    /\ UNCHANGED <<cred, rows, sealed, auth, session, ops, claims, presented, abandoned>>

ClaimExpires ==
    /\ session.state \in {"polling", "exchanging"} /\ ~session.claimExpired
    /\ session' = [session EXCEPT !.claimExpired = TRUE]
    /\ UNCHANGED <<cred, rows, sealed, auth, lease, ops, claims, presented, abandoned>>

LoginExpires ==
    /\ session.state \in {"pending", "polling"} /\ ~session.expired
    /\ session' = [session EXCEPT !.expired = TRUE]
    /\ UNCHANGED <<cred, rows, sealed, auth, lease, ops, claims, presented, abandoned>>

RefreshDue ==
    /\ auth.token # 0 /\ ~auth.due /\ cred.status \in {"ready", "refresh_error"}
    /\ auth' = [auth EXCEPT !.due = TRUE]
    /\ UNCHANGED <<cred, rows, sealed, lease, session, ops, claims, presented, abandoned>>

Next ==
    \/ \E kind \in Kinds, material \in BOOLEAN : Create(kind, material)
    \/ \E admin \in {"active", "disabled", "revoked"} : Update(admin)
    \/ ReloadSource \/ CancelLogin \/ ExpireLoginOnRead \/ Revoke
    \/ ReconcileLogins \/ ReconcileLeases
    \/ LeaseExpires \/ ClaimExpires \/ LoginExpires \/ RefreshDue
    \/ \E o \in Callers :
        \/ ReplaceCapture(o) \/ Replace(o) \/ ValidateCapture(o) \/ Validate(o)
        \/ StartCapture(o) \/ StartLogin(o) \/ ClaimLogin(o) \/ ReleaseClaim(o)
        \/ PollAgain(o) \/ BeginExchange(o) \/ FailLogin(o) \/ CompleteLogin(o)
        \/ ClaimRefresh(o) \/ CommitSuccess(o) \/ CommitRejected(o)
        \/ CommitTransient(o) \/ CommitUnknown(o) \/ Abandon(o)
        \/ \E account \in {"same", "other"} : Exchanged(o, account)
        \/ \E worker \in BOOLEAN : RefreshCapture(o, worker)
        \/ \E answer \in {"same", "other", "rejected", "transient", "lost"} : Present(o, answer)

Spec == Init /\ [][Next]_vars

\* The background worker runs both sweeps for as long as a process lives, and
\* time passes; requests and the refresh worker may stop at any point.
FairSpec ==
    /\ Spec
    /\ WF_vars(ReconcileLogins) /\ WF_vars(ReconcileLeases)
    /\ WF_vars(LeaseExpires) /\ WF_vars(ClaimExpires) /\ WF_vars(LoginExpires)

-----------------------------------------------------------------------------
(* Properties                                                               *)

\* The selected version is the only current row, and the database holds the
\* ciphertext of exactly that version: none of a replaced, refused or revoked
\* secret survives (activate_codex_token, replace_secret, revoke).
OnlySelectedMaterial ==
    /\ {v \in Versions : rows[v] = "current"} = {cred.version} \ {0}
    /\ sealed = IF cred.kind = "external" THEN {} ELSE {cred.version} \ {0}

\* A token the provider may have rotated is not offered for use again, unless
\* an operator started and gave up a login (lock_claimed_refresh,
\* reconcile_expired_codex_refresh_leases).
ReadyTokenIsLive ==
    cred.kind = "codex" /\ cred.status \in {"ready", "refresh_error"}
        => cred.version \notin presented \ abandoned

\* A credential does not stay in the middle of a refresh, whoever dies: the
\* sweep of expired leases ends it (reconcile_expired_codex_refresh_leases); nor
\* in the middle of a login: the sweep of login sessions frees or ends it
\* (reconcile_codex_login_sessions).
CredentialSettles ==
    \A s \in {"refreshing", "login_pending"} : (cred.status = s) ~> (cred.status # s)
=============================================================================
