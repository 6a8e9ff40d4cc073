---------------------------- MODULE CredentialProofs ----------------------------
(***************************************************************************)
(* Upstream credentials, for every number of callers, versions, claims and *)
(* login sessions; and API keys, for every number of keys and sessions and *)
(* all policies.                                                           *)
(*                                                                         *)
(* Upstream credential: neither property is inductive.  A caller that has  *)
(* claimed a refresh holds a token whose use nobody can call back: what    *)
(* protects the credential is that its status cannot become usable again   *)
(* while it still selects that token (ClaimsAreFenced), and that only one  *)
(* caller may commit over what it claimed (FreshClaimIsAlone), because     *)
(* every write of the row outdates the etags all the others captured.      *)
(*                                                                         *)
(* API keys: a gateway key is checked against the section of its class     *)
(* alone, which suffices because a policy that is not well-formed is never *)
(* stored; a session names a secret its key has reached, and the overlap   *)
(* is never a later secret than the current one, so no rotation accepts a  *)
(* session's secret again (KeysInv).                                       *)
(***************************************************************************)
EXTENDS UpstreamCredential, ApiKeys, FiniteSetTheorems, TLAPS

Statuses == {"unvalidated", "login_required", "login_pending", "ready", "refreshing",
             "refresh_error", "refresh_outcome_unknown", "expired", "revoked"}
Steps == {"idle", "replace", "validate", "start", "polling", "exchanging", "sealed",
          "opened", "claimed", "answered"}

\* The status offers the selected token for use.
Usable == cred.status \in {"ready", "refresh_error"}

\* Operations on a Codex credential only.
CodexSteps == Steps \ {"idle", "replace", "validate"}

CredentialRow == [kind : {"none", "static", "external", "codex"},
                  admin : {"active", "disabled", "revoked"}, status : Statuses,
                  version : 0 .. MaxVersion, identity : Nat]
RowStates == {"none", "current", "retired"}
AuthRow == [identity : Nat, token : 0 .. MaxVersion, fence : Nat, due : BOOLEAN]
LeaseRow == [attempt : Nat, version : 0 .. MaxVersion, identity : Nat, fence : Nat,
             expired : BOOLEAN]
SessionRow == [id : Nat, state : {"none", "pending", "polling", "exchanging"}, identity : Nat,
               attempt : Nat, claimExpired : BOOLEAN, expired : BOOLEAN]
Operation == [step : Steps, version : 0 .. MaxVersion, identity : Nat, fence : Nat,
              id : Nat, attempt : Nat, fresh : BOOLEAN,
              answer : {"none", "same", "other", "rejected", "transient", "lost"}]

TypeOK ==
    /\ cred \in CredentialRow /\ rows \in [Versions -> RowStates] /\ sealed \subseteq Versions
    /\ auth \in AuthRow /\ lease \in LeaseRow /\ session \in SessionRow
    /\ ops \in [Callers -> Operation] /\ claims \in Nat
    /\ presented \subseteq Versions /\ abandoned \subseteq Versions

\* Before the credential exists there is nothing to operate on, and an
\* operation under way is one of its kind, which never changes.
KindsAgree ==
    /\ cred.kind = "none" => /\ \A o \in Callers : ops[o].step = "idle"
                             /\ \A v \in Versions : rows[v] = "none"
    /\ \A o \in Callers : /\ ops[o].step = "replace" => cred.kind = "static"
                          /\ ops[o].step \in CodexSteps => cred.kind = "codex"

\* A token that was read, claimed or given to the provider was selected once:
\* its version is never free again.
TokensAreUsed ==
    /\ \A v \in presented : rows[v] # "none"
    /\ \A o \in Callers : ops[o].step \in {"opened", "claimed", "answered"}
                          => ops[o].version # 0 /\ rows[ops[o].version] # "none"

\* A token about to be given to the provider is not one the credential offers.
ClaimsAreFenced ==
    \A o \in Callers : ops[o].step = "claimed" /\ Usable
        => cred.version # ops[o].version \/ ops[o].version \in abandoned

\* The caller may still commit that its token was not used.
MayReturn(o) ==
    /\ ops[o].fresh
    /\ ops[o].step = "claimed" \/ (ops[o].step = "answered" /\ ops[o].answer = "transient")

\* Then the token is selected, given to nobody else and held by nobody else.
FreshClaimIsAlone ==
    \A o \in Callers : MayReturn(o) =>
        /\ cred.status = "refreshing" /\ cred.version = ops[o].version
        /\ cred.version \notin presented \ abandoned
        /\ \A p \in Callers \ {o} : ops[p].step = "claimed" /\ ops[p].version = ops[o].version
                                    => ops[p].version \in abandoned

IInv == /\ TypeOK /\ KindsAgree /\ TokensAreUsed /\ ClaimsAreFenced /\ FreshClaimIsAlone
        /\ OnlySelectedMaterial /\ ReadyTokenIsLive

\* What the properties say about more than the material.
Fences == KindsAgree /\ TokensAreUsed /\ ClaimsAreFenced /\ FreshClaimIsAlone /\ ReadyTokenIsLive

\* No operation keeps its etag: each ended or captured what it had captured.
AllOutdated ==
    \A p \in Callers : /\ ops'[p].fresh = FALSE
                       /\ \/ ops'[p].step = "idle"
                          \/ ops'[p].step = ops[p].step /\ ops'[p].version = ops[p].version

\* A secret version once used stays used.
UsedStaysUsed == \A v \in Versions : rows[v] # "none" => rows'[v] # "none"

-----------------------------------------------------------------------------
(* What the helpers do                                                      *)

\* Idle, and any operation with its etag outdated, is an operation.
LEMMA IdleType == Idle \in Operation
BY CredentialAssumption DEF Idle, Operation, Steps

\* An operation whose etag is outdated is the same operation.
LEMMA OutdatedOperation ==
    ASSUME NEW row \in Operation
    PROVE  [row EXCEPT !.fresh = FALSE] \in Operation
BY DEF Operation

\* Stale and StaleAll outdate every etag.
LEMMA StaleOutdates ==
    ASSUME TypeOK, NEW o \in Callers, ops' = Stale(o)
    PROVE  AllOutdated /\ ops' \in [Callers -> Operation]
<1>1. \A p \in Callers : ops[p] \in Operation
    BY DEF TypeOK
<1>2. /\ ops'[o] = Idle
      /\ \A p \in Callers \ {o} : ops'[p] = [ops[p] EXCEPT !.fresh = FALSE]
    BY DEF Stale
<1>3. \A p \in Callers \ {o} : ops'[p] \in Operation
    BY <1>1, <1>2, OutdatedOperation
<1>4. \A p \in Callers \ {o} : ops'[p].fresh = FALSE /\ ops'[p].step = ops[p].step
                                 /\ ops'[p].version = ops[p].version
    BY <1>1, <1>2 DEF Operation
<1>5. ops'[o].fresh = FALSE /\ ops'[o].step = "idle"
    BY <1>2 DEF Idle
<1>6. ops' \in [Callers -> Operation]
    BY <1>2, <1>3, IdleType DEF Stale
<1>q. QED
    BY <1>4, <1>5, <1>6 DEF AllOutdated

LEMMA StaleAllOutdates ==
    ASSUME TypeOK, ops' = StaleAll
    PROVE  AllOutdated /\ ops' \in [Callers -> Operation]
<1>1. \A p \in Callers : ops[p] \in Operation /\ ops'[p] = [ops[p] EXCEPT !.fresh = FALSE]
    BY DEF TypeOK, StaleAll
<1>2. \A p \in Callers : ops'[p] \in Operation
    BY <1>1, OutdatedOperation
<1>3. ops' \in [Callers -> Operation]
    BY <1>2 DEF StaleAll
<1>4. AllOutdated
    BY <1>1 DEF AllOutdated, Operation
<1>q. QED
    BY <1>3, <1>4

\* Retiring and selecting a version keep the types and what was used.
LEMMA RetiredRows ==
    ASSUME TypeOK
    PROVE  /\ Retired \in [Versions -> RowStates]
           /\ \A v \in Versions : Retired[v] # "current"
           /\ \A v \in Versions : rows[v] # "none" => Retired[v] # "none"
BY DEF TypeOK, RowStates, Retired

\* A free version becomes the selected one and its ciphertext the only one.
LEMMA SelectVersion ==
    ASSUME TypeOK, NEW v, Free(v),
           rows' = [Retired EXCEPT ![v] = "current"],
           cred'.version = v, cred'.kind = cred.kind,
           cred.kind = "external" => sealed' = {} , cred.kind # "external" => sealed' = {v}
    PROVE  /\ OnlySelectedMaterial' /\ UsedStaysUsed /\ sealed' \subseteq Versions
           /\ rows' \in [Versions -> RowStates]
<1>1. v \in Versions /\ v # 0
    BY CredentialAssumption DEF Free, Versions
<1>2. /\ rows' \in [Versions -> RowStates] /\ UsedStaysUsed
      /\ \A w \in Versions : rows'[w] = "current" <=> w = v
    BY <1>1, RetiredRows DEF UsedStaysUsed, RowStates
<1>3. {w \in Versions : rows'[w] = "current"} = {v}
    BY <1>1, <1>2
<1>q. QED
    BY <1>1, <1>2, <1>3 DEF OnlySelectedMaterial

\* A write of the row that outdates every etag keeps the fences, if the status
\* it leaves does not offer a token that was presented or is still held.
LEMMA WriteKeepsFences ==
    ASSUME TypeOK, Fences, AllOutdated, UsedStaysUsed,
           cred'.kind = cred.kind, cred.kind = "none" => rows' = rows,
           presented' = presented, abandoned \subseteq abandoned',
           Usable' /\ cred.kind = "codex" =>
               /\ cred'.version \notin presented \ abandoned'
               /\ \A o \in Callers : ops[o].step = "claimed"
                      => cred'.version # ops[o].version \/ ops[o].version \in abandoned'
    PROVE  Fences'
<1> USE DEF Fences
<1>1. KindsAgree'
    BY DEF KindsAgree, AllOutdated, CodexSteps, Steps
<1>2. TokensAreUsed'
    <2>1. \A v \in presented' : v \in Versions /\ rows'[v] # "none"
        BY DEF TokensAreUsed, UsedStaysUsed, TypeOK
    <2> SUFFICES ASSUME NEW o \in Callers, ops'[o].step \in {"opened", "claimed", "answered"}
                 PROVE  ops'[o].version # 0 /\ rows'[ops'[o].version] # "none"
        BY <2>1 DEF TokensAreUsed
    <2>2. ops'[o].step = ops[o].step /\ ops'[o].version = ops[o].version
        BY DEF AllOutdated
    <2>3. ops[o].version \in 0 .. MaxVersion
        BY DEF TypeOK, Operation
    <2>4. ops[o].version \in Versions /\ rows[ops[o].version] # "none"
        BY <2>2, <2>3, CredentialAssumption DEF TokensAreUsed, Versions
    <2>q. QED
        BY <2>2, <2>4, CredentialAssumption DEF UsedStaysUsed, Versions
<1>3. ClaimsAreFenced'
    <2> SUFFICES ASSUME NEW o \in Callers, ops'[o].step = "claimed", Usable'
                 PROVE  cred'.version # ops'[o].version \/ ops'[o].version \in abandoned'
        BY DEF ClaimsAreFenced
    <2>1. ops[o].step = "claimed" /\ ops'[o].version = ops[o].version
        BY DEF AllOutdated
    <2>2. cred.kind = "codex"
        BY <2>1 DEF KindsAgree, CodexSteps, Steps
    <2>q. QED
        BY <2>1, <2>2
<1>4. FreshClaimIsAlone'
    BY DEF FreshClaimIsAlone, MayReturn, AllOutdated
<1>5. ReadyTokenIsLive'
    BY DEF ReadyTokenIsLive, Usable
<1>q. QED
    BY <1>1, <1>2, <1>3, <1>4, <1>5

\* A step of one operation that leaves the database alone keeps the fences, if
\* the operation has no claim afterwards.
LEMMA StepKeepsFences ==
    ASSUME TypeOK, Fences, NEW o \in Callers,
           UNCHANGED <<cred, rows, presented, abandoned>>,
           \A p \in Callers \ {o} : ops'[p] = ops[p],
           cred.kind = "none" => ops'[o].step = "idle",
           ops'[o].step = "replace" => cred.kind = "static",
           ops'[o].step \in CodexSteps => cred.kind = "codex",
           ops'[o].step \notin {"claimed", "answered"},
           ops'[o].step = "opened" => ops'[o].version # 0 /\ rows[ops'[o].version] # "none"
    PROVE  Fences'
<1> USE DEF Fences
<1>1. KindsAgree'
    BY DEF KindsAgree
<1>2. TokensAreUsed'
    BY DEF TokensAreUsed
<1>3. ClaimsAreFenced'
    BY DEF ClaimsAreFenced, Usable
<1>4. FreshClaimIsAlone'
    <2> SUFFICES ASSUME NEW p \in Callers, MayReturn(p)'
                 PROVE  /\ cred.status = "refreshing" /\ cred.version = ops'[p].version
                        /\ cred.version \notin presented \ abandoned
                        /\ \A q \in Callers \ {p} :
                              ops'[q].step = "claimed" /\ ops'[q].version = ops'[p].version
                              => ops'[q].version \in abandoned
        BY DEF FreshClaimIsAlone
    <2>1. p # o /\ ops'[p] = ops[p] /\ MayReturn(p)
        BY DEF MayReturn
    <2>q. QED
        BY <2>1 DEF FreshClaimIsAlone
<1>5. ReadyTokenIsLive'
    BY DEF ReadyTokenIsLive
<1>q. QED
    BY <1>1, <1>2, <1>3, <1>4, <1>5

\* The material is kept when neither its tables nor the selection change.
LEMMA MaterialKept ==
    ASSUME OnlySelectedMaterial, UNCHANGED <<rows, sealed>>,
           cred'.version = cred.version, cred'.kind = cred.kind
    PROVE  OnlySelectedMaterial'
BY DEF OnlySelectedMaterial

\* The selected version, and any version a caller holds, is a used one.
LEMMA SelectedIsUsed ==
    ASSUME TypeOK, OnlySelectedMaterial, cred.version # 0
    PROVE  cred.version \in Versions /\ rows[cred.version] = "current"
BY DEF OnlySelectedMaterial

LEMMA HeldIsUsed ==
    ASSUME TypeOK, TokensAreUsed, NEW o \in Callers,
           ops[o].step \in {"opened", "claimed", "answered"}
    PROVE  ops[o].version \in Versions /\ rows[ops[o].version] # "none"
<1>1. ops[o].version \in 0 .. MaxVersion /\ ops[o].version # 0 /\ rows[ops[o].version] # "none"
    BY DEF TypeOK, Operation, TokensAreUsed
<1>q. QED
    BY <1>1, CredentialAssumption DEF Versions

\* A free version was never presented and is held by no caller.
LEMMA FreeIsUnknown ==
    ASSUME TypeOK, TokensAreUsed, NEW v, Free(v)
    PROVE  /\ v \notin presented
           /\ \A o \in Callers : ops[o].step = "claimed" => v # ops[o].version
<1>1. rows[v] = "none"
    BY DEF Free
<1>q. QED
    BY <1>1, HeldIsUsed DEF TokensAreUsed

\* A login that ends without a token leaves a selected token abandoned.
LEMMA SettleIsFenced ==
    ASSUME TypeOK, Settle
    PROVE  /\ cred' \in CredentialRow /\ cred'.kind = cred.kind /\ cred'.version = cred.version
           /\ abandoned' \subseteq Versions /\ abandoned \subseteq abandoned'
           /\ Usable' => cred'.version \in abandoned'
<1>1. SettledStatus \in {"login_required", "ready"} /\ (SettledStatus = "ready" => cred.version # 0)
    BY DEF SettledStatus
<1>2. /\ cred' \in CredentialRow /\ cred'.kind = cred.kind /\ cred'.version = cred.version
      /\ cred'.status = SettledStatus
    BY <1>1 DEF TypeOK, CredentialRow, Statuses, Settle
<1>3. cred.version \in 0 .. MaxVersion
    BY DEF TypeOK, CredentialRow
<1>4. ({cred.version} \ {0}) \subseteq Versions
    BY <1>3, CredentialAssumption DEF Versions
<1>5. Usable' => cred.version # 0
    BY <1>1, <1>2 DEF Usable
<1>q. QED
    BY <1>2, <1>4, <1>5 DEF TypeOK, Settle

-----------------------------------------------------------------------------
(* Steps of one operation that leave the credential alone                   *)

\* The new record of an operation, and the other operations.
LEMMA OneOperation ==
    ASSUME TypeOK, NEW o \in Callers, NEW op \in Operation, ops' = [ops EXCEPT ![o] = op]
    PROVE  /\ ops' \in [Callers -> Operation] /\ ops'[o] = op
           /\ \A p \in Callers \ {o} : ops'[p] = ops[p]
BY DEF TypeOK

LEMMA CapturePreserves ==
    ASSUME NEW o \in Callers
    PROVE  IInv /\ (ReplaceCapture(o) \/ ValidateCapture(o) \/ StartCapture(o)) => IInv'
<1> SUFFICES ASSUME IInv, ReplaceCapture(o) \/ ValidateCapture(o) \/ StartCapture(o) PROVE IInv'
    OBVIOUS
<1>0. PICK s \in Steps : Capture(o, s) /\ s \in {"replace", "validate", "start"}
                         /\ cred.kind # "none" /\ (s = "replace" => cred.kind = "static")
                         /\ (s = "start" => cred.kind = "codex")
                         /\ UNCHANGED <<cred, rows, sealed, auth, lease, session, claims,
                                        presented, abandoned>>
    BY DEF ReplaceCapture, ValidateCapture, StartCapture, ActiveCodex, Steps
<1> DEFINE op == [Idle EXCEPT !.step = s, !.version = cred.version, !.identity = cred.identity]
<1>1. op \in Operation /\ op.step = s
    BY DEF IInv, TypeOK, CredentialRow, Idle, Operation
<1>2. ops' = [ops EXCEPT ![o] = op]
    BY <1>0 DEF Capture
<1> HIDE DEF op
<1>3. /\ ops' \in [Callers -> Operation] /\ ops'[o].step = s
      /\ \A p \in Callers \ {o} : ops'[p] = ops[p]
    BY <1>1, <1>2, OneOperation DEF IInv
<1>4. TypeOK' /\ OnlySelectedMaterial'
    BY <1>0, <1>3, MaterialKept DEF IInv, TypeOK
<1>5. Fences'
    BY <1>0, <1>3, StepKeepsFences DEF IInv, Fences, CodexSteps
<1>q. QED
    BY <1>4, <1>5 DEF IInv, Fences

LEMMA RefreshCapturePreserves ==
    ASSUME NEW o \in Callers, NEW worker \in BOOLEAN
    PROVE  IInv /\ RefreshCapture(o, worker) => IInv'
<1> SUFFICES ASSUME IInv, RefreshCapture(o, worker) PROVE IInv'
    OBVIOUS
<1>0. /\ cred.kind = "codex" /\ cred.version # 0
      /\ UNCHANGED <<cred, rows, sealed, auth, lease, session, claims, presented, abandoned>>
    BY DEF RefreshCapture, ActiveCodex
<1> DEFINE op == [Idle EXCEPT !.step = "opened", !.version = cred.version,
                              !.identity = cred.identity, !.fence = auth.fence + 1]
<1>a. cred.version \in 0 .. MaxVersion /\ cred.identity \in Nat /\ auth.fence + 1 \in Nat
    BY DEF IInv, TypeOK, CredentialRow, AuthRow
<1>1. op \in Operation /\ op.step = "opened" /\ op.version = cred.version
    BY <1>a, IdleType DEF Operation, Steps
<1>2. ops' = [ops EXCEPT ![o] = op]
    BY DEF RefreshCapture
<1> HIDE DEF op
<1>3. /\ ops' \in [Callers -> Operation] /\ ops'[o].step = "opened" /\ ops'[o].version = cred.version
      /\ \A p \in Callers \ {o} : ops'[p] = ops[p]
    BY <1>1, <1>2, OneOperation DEF IInv
<1>4. TypeOK' /\ OnlySelectedMaterial'
    BY <1>0, <1>3, MaterialKept DEF IInv, TypeOK
<1>5. rows[cred.version] = "current"
    BY <1>0, SelectedIsUsed DEF IInv
<1>6. Fences'
    BY <1>0, <1>3, <1>5, StepKeepsFences DEF IInv, Fences, CodexSteps
<1>q. QED
    BY <1>4, <1>6 DEF IInv, Fences

\* A login is claimed and polled, its claim is given back, and an operation
\* of any kind is given up.
LEMMA LoginStepPreserves ==
    ASSUME NEW o \in Callers
    PROVE  IInv /\ (ClaimLogin(o) \/ ReleaseClaim(o) \/ PollAgain(o) \/ BeginExchange(o)
                    \/ Abandon(o) \/ \E account \in {"same", "other"} : Exchanged(o, account)) => IInv'
<1> SUFFICES ASSUME IInv, ClaimLogin(o) \/ ReleaseClaim(o) \/ PollAgain(o) \/ BeginExchange(o)
                          \/ Abandon(o) \/ \E account \in {"same", "other"} : Exchanged(o, account)
             PROVE  IInv'
    OBVIOUS
<1>0. UNCHANGED <<cred, rows, sealed, auth, lease, claims, presented, abandoned>>
    BY DEF ClaimLogin, ReleaseClaim, PollAgain, BeginExchange, Abandon, Exchanged
<1>1. session \in SessionRow /\ cred \in CredentialRow /\ ops[o] \in Operation
    BY DEF IInv, TypeOK
<1>2. session' \in SessionRow
    <2>1. CASE ClaimLogin(o)
        <3>1. session.attempt + 1 \in Nat
            BY <1>1 DEF SessionRow
        <3>q. QED
            BY <1>1, <2>1, <3>1 DEF ClaimLogin, SessionRow
    <2>2. CASE ReleaseClaim(o) \/ PollAgain(o) \/ BeginExchange(o)
        BY <1>1, <2>2 DEF ReleaseClaim, PollAgain, BeginExchange, SessionRow
    <2>3. CASE UNCHANGED session
        BY <1>1, <2>3
    <2>q. QED
        BY <2>1, <2>2, <2>3 DEF Abandon, Exchanged
<1>3. \E op \in Operation : /\ ops' = [ops EXCEPT ![o] = op]
                            /\ op.step \in {"idle", "polling", "exchanging", "sealed"}
                            /\ op.step # "idle" => cred.kind = "codex"
    <2>1. CASE ClaimLogin(o)
        <3> DEFINE op == [Idle EXCEPT !.step = "polling", !.identity = session.identity,
                                      !.id = session.id, !.attempt = session.attempt + 1]
        <3>a. session.identity \in Nat /\ session.id \in Nat /\ session.attempt + 1 \in Nat
            BY <1>1 DEF SessionRow
        <3>1. op \in Operation /\ op.step = "polling"
            BY <3>a, IdleType DEF Operation, Steps
        <3>q. QED
            BY <2>1, <3>1 DEF ClaimLogin, ActiveCodex
    <2>2. CASE ReleaseClaim(o) \/ PollAgain(o) \/ Abandon(o)
        BY <2>2, IdleType DEF ReleaseClaim, PollAgain, Abandon, Idle
    <2>3. CASE BeginExchange(o)
        <3> DEFINE op == [ops[o] EXCEPT !.step = "exchanging"]
        <3>1. op \in Operation /\ op.step = "exchanging" /\ cred.kind = "codex"
            BY <1>1, <2>3 DEF Operation, Steps, BeginExchange, IInv, KindsAgree, CodexSteps
        <3>2. ops' = [ops EXCEPT ![o] = op]
            BY <2>3 DEF BeginExchange, IInv, TypeOK
        <3>q. QED
            BY <3>1, <3>2
    <2>4. ASSUME NEW account \in {"same", "other"}, Exchanged(o, account)
          PROVE  \E op \in Operation : /\ ops' = [ops EXCEPT ![o] = op]
                                       /\ op.step \in {"idle", "polling", "exchanging", "sealed"}
                                       /\ op.step # "idle" => cred.kind = "codex"
        <3> DEFINE op == [ops[o] EXCEPT !.step = "sealed", !.version = cred.version,
                                        !.fresh = TRUE, !.answer = account]
        <3>1. op \in Operation /\ op.step = "sealed" /\ cred.kind = "codex"
            BY <1>1, <2>4 DEF Operation, Steps, CredentialRow, Exchanged, ActiveCodex
        <3>2. ops' = [ops EXCEPT ![o] = op]
            BY <2>4 DEF Exchanged, IInv, TypeOK
        <3>q. QED
            BY <3>1, <3>2
    <2>q. QED
        BY <2>1, <2>2, <2>3, <2>4
<1>4. PICK op \in Operation : /\ ops' = [ops EXCEPT ![o] = op]
                              /\ op.step \in {"idle", "polling", "exchanging", "sealed"}
                              /\ op.step # "idle" => cred.kind = "codex"
    BY <1>3
<1>5. /\ ops' \in [Callers -> Operation] /\ ops'[o] = op
      /\ \A p \in Callers \ {o} : ops'[p] = ops[p]
    BY <1>4, OneOperation DEF IInv
<1>6. TypeOK' /\ OnlySelectedMaterial'
    BY <1>0, <1>2, <1>5, MaterialKept DEF IInv, TypeOK
<1>7. Fences'
    BY <1>0, <1>4, <1>5, StepKeepsFences DEF IInv, Fences, CodexSteps
<1>q. QED
    BY <1>6, <1>7 DEF IInv, Fences

\* Time passes for the lease, the session and the token.
LEMMA TimePreserves ==
    IInv /\ (LeaseExpires \/ ClaimExpires \/ LoginExpires \/ RefreshDue) => IInv'
<1> SUFFICES ASSUME IInv, LeaseExpires \/ ClaimExpires \/ LoginExpires \/ RefreshDue PROVE IInv'
    OBVIOUS
<1>1. UNCHANGED <<cred, rows, sealed, ops, claims, presented, abandoned>>
    BY DEF LeaseExpires, ClaimExpires, LoginExpires, RefreshDue
<1>2. session' \in SessionRow /\ lease' \in LeaseRow /\ auth' \in AuthRow
    BY DEF LeaseExpires, ClaimExpires, LoginExpires, RefreshDue, IInv, TypeOK,
           SessionRow, LeaseRow, AuthRow
<1>3. TypeOK'
    BY <1>1, <1>2 DEF IInv, TypeOK
<1>q. QED
    BY <1>1, <1>3 DEF IInv, KindsAgree, TokensAreUsed, ClaimsAreFenced, Usable, MayReturn,
           FreshClaimIsAlone, OnlySelectedMaterial, ReadyTokenIsLive

-----------------------------------------------------------------------------
(* Writes of the credential row that keep its version                       *)

\* The write of a status that does not make the token usable.
LEMMA StatusPreserves ==
    ASSUME IInv, UNCHANGED <<rows, sealed, claims, presented, abandoned>>,
           auth' \in AuthRow, lease' \in LeaseRow, session' \in SessionRow,
           cred' \in CredentialRow, cred'.version = cred.version, cred'.kind = cred.kind,
           AllOutdated, ops' \in [Callers -> Operation],
           Usable' /\ cred.kind = "codex" => Usable
    PROVE  IInv'
<1>1. TypeOK' /\ OnlySelectedMaterial' /\ UsedStaysUsed
    BY MaterialKept DEF IInv, TypeOK, UsedStaysUsed
<1>2. Usable /\ cred.kind = "codex" => cred.version \notin presented \ abandoned
    BY DEF IInv, ReadyTokenIsLive, Usable
<1>3. \A o \in Callers : Usable /\ ops[o].step = "claimed"
                         => cred.version # ops[o].version \/ ops[o].version \in abandoned
    BY DEF IInv, ClaimsAreFenced
<1>4. Fences'
    BY <1>1, <1>2, <1>3, WriteKeepsFences DEF IInv, Fences
<1>q. QED
    BY <1>1, <1>4 DEF IInv, Fences

LEMMA UpdatePreserves ==
    ASSUME NEW admin \in {"active", "disabled", "revoked"}
    PROVE  IInv /\ Update(admin) => IInv'
<1> SUFFICES ASSUME IInv, Update(admin) PROVE IInv'
    OBVIOUS
<1>1. /\ cred' \in CredentialRow /\ cred'.version = cred.version /\ cred'.kind = cred.kind
      /\ cred'.status = cred.status
    BY DEF Update, IInv, TypeOK, CredentialRow
<1>2. AllOutdated /\ ops' \in [Callers -> Operation]
    BY StaleAllOutdates DEF Update, IInv
<1>3. /\ UNCHANGED <<rows, sealed, claims, presented, abandoned>>
      /\ auth' \in AuthRow /\ lease' \in LeaseRow /\ session' \in SessionRow
    BY DEF Update, IInv, TypeOK
<1>q. QED
    BY <1>1, <1>2, <1>3, StatusPreserves DEF Usable

LEMMA ValidatePreserves ==
    ASSUME NEW o \in Callers PROVE IInv /\ Validate(o) => IInv'
<1> SUFFICES ASSUME IInv, Validate(o) PROVE IInv'
    OBVIOUS
<1>1. cred' \in CredentialRow /\ cred'.version = cred.version /\ cred'.kind = cred.kind
    BY DEF Validate, IInv, TypeOK, CredentialRow, Statuses
<1>2. AllOutdated /\ ops' \in [Callers -> Operation]
    BY StaleOutdates DEF Validate, IInv
<1>3. cred.kind = "codex" => Usable
    BY DEF Validate, Validatable, Usable
<1>4. /\ UNCHANGED <<rows, sealed, claims, presented, abandoned>>
      /\ auth' \in AuthRow /\ lease' \in LeaseRow /\ session' \in SessionRow
    BY DEF Validate, IInv, TypeOK
<1>q. QED
    BY <1>1, <1>2, <1>3, <1>4, StatusPreserves

LEMMA StartLoginPreserves ==
    ASSUME NEW o \in Callers PROVE IInv /\ StartLogin(o) => IInv'
<1> SUFFICES ASSUME IInv, StartLogin(o) PROVE IInv'
    OBVIOUS
<1>1. /\ cred' \in CredentialRow /\ cred'.version = cred.version /\ cred'.kind = cred.kind
      /\ cred'.status = "login_pending" /\ cred.kind = "codex"
    BY DEF StartLogin, ActiveCodex, IInv, TypeOK, CredentialRow, Statuses
<1>2. AllOutdated /\ ops' \in [Callers -> Operation]
    BY StaleOutdates DEF StartLogin, IInv
<1>3. session.id + 1 \in Nat /\ cred.identity \in Nat
    BY DEF IInv, TypeOK, SessionRow, CredentialRow
<1>4. session' \in SessionRow
    BY <1>3 DEF StartLogin, NoSession, SessionRow
<1>5. /\ UNCHANGED <<rows, sealed, claims, presented, abandoned>>
      /\ auth' \in AuthRow /\ lease' \in LeaseRow
    BY DEF StartLogin, IInv, TypeOK
<1>q. QED
    BY <1>1, <1>2, <1>4, <1>5, StatusPreserves DEF Usable

\* A login that ends without a token.
LEMMA SettlePreserves ==
    ASSUME IInv, Settle, EndSession,
           UNCHANGED <<rows, sealed, auth, lease, claims, presented>>,
           AllOutdated, ops' \in [Callers -> Operation]
    PROVE  IInv'
<1>1. session' \in SessionRow
    BY DEF EndSession, IInv, TypeOK, SessionRow
<1>2. /\ cred' \in CredentialRow /\ cred'.kind = cred.kind /\ cred'.version = cred.version
      /\ abandoned' \subseteq Versions /\ abandoned \subseteq abandoned'
      /\ Usable' => cred'.version \in abandoned'
    BY SettleIsFenced DEF IInv
<1>3. TypeOK' /\ OnlySelectedMaterial' /\ UsedStaysUsed
    BY <1>1, <1>2, MaterialKept DEF IInv, TypeOK, UsedStaysUsed
<1>4. Fences'
    BY <1>2, <1>3, WriteKeepsFences DEF IInv, Fences
<1>q. QED
    BY <1>3, <1>4 DEF IInv, Fences

LEMMA EndLoginPreserves ==
    IInv /\ (CancelLogin \/ ExpireLoginOnRead \/ \E o \in Callers : FailLogin(o)) => IInv'
<1> SUFFICES ASSUME IInv, CancelLogin \/ ExpireLoginOnRead \/ \E o \in Callers : FailLogin(o)
             PROVE  IInv'
    OBVIOUS
<1>1. AllOutdated /\ ops' \in [Callers -> Operation]
    BY StaleOutdates, StaleAllOutdates DEF CancelLogin, ExpireLoginOnRead, FailLogin, IInv
<1>q. QED
    BY <1>1, SettlePreserves DEF CancelLogin, ExpireLoginOnRead, FailLogin

LEMMA ReconcileLoginsPreserves == IInv /\ ReconcileLogins => IInv'
<1> SUFFICES ASSUME IInv, ReconcileLogins PROVE IInv'
    OBVIOUS
<1>0. UNCHANGED <<rows, sealed, auth, lease, claims, presented>>
    BY DEF ReconcileLogins
<1>1. CASE UNCHANGED <<cred, ops, abandoned>>
    <2>1. session' \in SessionRow
        BY DEF ReconcileLogins, ReconcileLogin, EndSession, IInv, TypeOK, SessionRow
    <2>2. TypeOK'
        BY <1>0, <1>1, <2>1 DEF IInv, TypeOK
    <2>q. QED
        BY <1>0, <1>1, <2>2 DEF IInv, KindsAgree, TokensAreUsed, ClaimsAreFenced, Usable,
               MayReturn, FreshClaimIsAlone, OnlySelectedMaterial, ReadyTokenIsLive
<1>2. CASE EndSession /\ Settle /\ ops' = StaleAll
    BY <1>0, <1>2, StaleAllOutdates, SettlePreserves DEF IInv
<1>q. QED
    BY <1>1, <1>2 DEF ReconcileLogins, ReconcileLogin

LEMMA ReconcileLeasesPreserves == IInv /\ ReconcileLeases => IInv'
<1> SUFFICES ASSUME IInv, ReconcileLeases PROVE IInv'
    OBVIOUS
<1>0. UNCHANGED <<rows, sealed, session, claims, presented, abandoned>> /\ lease' \in LeaseRow
    BY CredentialAssumption DEF ReconcileLeases, NoLease, LeaseRow
<1>1. CASE UNCHANGED <<cred, auth, ops>>
    <2>1. TypeOK'
        BY <1>0, <1>1 DEF IInv, TypeOK
    <2>q. QED
        BY <1>0, <1>1, <2>1 DEF IInv, KindsAgree, TokensAreUsed, ClaimsAreFenced, Usable,
               MayReturn, FreshClaimIsAlone, OnlySelectedMaterial, ReadyTokenIsLive
<1>2. CASE StillCurrent
    <2>1. /\ cred' = [cred EXCEPT !.status = "refresh_outcome_unknown"]
          /\ auth' = [auth EXCEPT !.due = FALSE] /\ ops' = StaleAll
        BY <1>2 DEF ReconcileLeases
    <2>2. /\ cred' \in CredentialRow /\ cred'.version = cred.version /\ cred'.kind = cred.kind
          /\ cred'.status = "refresh_outcome_unknown" /\ auth' \in AuthRow
        BY <2>1 DEF IInv, TypeOK, CredentialRow, Statuses, AuthRow
    <2>3. AllOutdated /\ ops' \in [Callers -> Operation]
        BY <2>1, StaleAllOutdates DEF IInv
    <2>4. session' \in SessionRow
        BY <1>0 DEF IInv, TypeOK
    <2>q. QED
        BY <1>0, <2>2, <2>3, <2>4, StatusPreserves DEF Usable
<1>q. QED
    BY <1>1, <1>2 DEF ReconcileLeases

\* The provider did not use the token: it is offered again only by the caller
\* that nobody has overtaken.
LEMMA CommitTransientPreserves ==
    ASSUME NEW o \in Callers PROVE IInv /\ CommitTransient(o) => IInv'
<1> SUFFICES ASSUME IInv, CommitTransient(o) PROVE IInv'
    OBVIOUS
<1>1. /\ cred' \in CredentialRow /\ cred'.version = cred.version /\ cred'.kind = cred.kind
      /\ auth' \in AuthRow
    BY DEF CommitTransient, IInv, TypeOK, CredentialRow, Statuses, AuthRow
<1>2. AllOutdated /\ ops' \in [Callers -> Operation]
    BY StaleOutdates DEF CommitTransient, IInv
<1>3. UNCHANGED <<rows, sealed, session, claims, presented, abandoned>> /\ lease' \in LeaseRow
    BY CredentialAssumption DEF CommitTransient, NoLease, LeaseRow
<1>4. TypeOK' /\ OnlySelectedMaterial' /\ UsedStaysUsed
    BY <1>1, <1>2, <1>3, MaterialKept DEF IInv, TypeOK, UsedStaysUsed
<1>5. ops[o].answer = "transient"
    BY DEF CommitTransient, Outcomes
<1>6. MayReturn(o) /\ ops[o].step = "answered"
    BY <1>5 DEF CommitTransient, LockClaimed, MayReturn
<1>7. /\ cred.version = ops[o].version /\ cred.version \notin presented \ abandoned
      /\ \A p \in Callers : ops[p].step = "claimed" /\ ops[p].version = cred.version
                             => ops[p].version \in abandoned
    BY <1>6 DEF IInv, FreshClaimIsAlone
<1>8. Fences'
    BY <1>1, <1>2, <1>3, <1>4, <1>7, WriteKeepsFences DEF IInv, Fences
<1>q. QED
    BY <1>4, <1>8 DEF IInv, Fences

LEMMA CommitUnknownPreserves ==
    ASSUME NEW o \in Callers PROVE IInv /\ CommitUnknown(o) => IInv'
<1> SUFFICES ASSUME IInv, CommitUnknown(o) PROVE IInv'
    OBVIOUS
<1>1. /\ cred' \in CredentialRow /\ cred'.version = cred.version /\ cred'.kind = cred.kind
      /\ cred'.status = "refresh_outcome_unknown" /\ auth' \in AuthRow
    BY DEF CommitUnknown, IInv, TypeOK, CredentialRow, Statuses, AuthRow
<1>2. AllOutdated /\ ops' \in [Callers -> Operation]
    BY StaleOutdates DEF CommitUnknown, IInv
<1>3. /\ UNCHANGED <<rows, sealed, claims, presented, abandoned>> /\ lease' \in LeaseRow
      /\ session' \in SessionRow
    BY CredentialAssumption DEF CommitUnknown, NoLease, LeaseRow, IInv, TypeOK
<1>q. QED
    BY <1>1, <1>2, <1>3, StatusPreserves DEF Usable

-----------------------------------------------------------------------------
(* Writes that select another version, or none                              *)

\* A free version is selected: nobody has presented or holds it.
LEMMA SelectionPreserves ==
    ASSUME IInv, Free(cred.version + 1),
           rows' = [Retired EXCEPT ![cred.version + 1] = "current"],
           cred' \in CredentialRow, cred'.version = cred.version + 1, cred'.kind = cred.kind,
           cred.kind # "none",
           cred.kind = "external" => sealed' = {},
           cred.kind # "external" => sealed' = {cred.version + 1},
           auth' \in AuthRow, lease' \in LeaseRow, session' \in SessionRow,
           AllOutdated, ops' \in [Callers -> Operation],
           UNCHANGED <<claims, presented, abandoned>>
    PROVE  IInv'
<1>1. /\ OnlySelectedMaterial' /\ UsedStaysUsed /\ sealed' \subseteq Versions
      /\ rows' \in [Versions -> RowStates]
    BY SelectVersion DEF IInv
<1>2. TypeOK'
    BY <1>1 DEF IInv, TypeOK
<1>3. /\ cred'.version \notin presented
      /\ \A o \in Callers : ops[o].step = "claimed" => cred'.version # ops[o].version
    BY FreeIsUnknown DEF IInv
<1>4. Fences'
    BY <1>1, <1>3, WriteKeepsFences DEF IInv, Fences
<1>q. QED
    BY <1>1, <1>2, <1>4 DEF IInv, Fences

LEMMA ReplacePreserves ==
    ASSUME NEW o \in Callers PROVE IInv /\ Replace(o) => IInv'
<1> SUFFICES ASSUME IInv, Replace(o) PROVE IInv'
    OBVIOUS
<1>1. cred.kind = "static"
    BY DEF Replace, IInv, KindsAgree
<1>2. cred.version + 1 \in 0 .. MaxVersion /\ cred.identity + 1 \in Nat /\ cred \in CredentialRow
    BY CredentialAssumption DEF Replace, Free, Versions, IInv, TypeOK, CredentialRow
<1>3. cred' \in CredentialRow /\ cred'.version = cred.version + 1 /\ cred'.kind = cred.kind
    BY <1>2 DEF Replace, CredentialRow, Statuses
<1>4. AllOutdated /\ ops' \in [Callers -> Operation]
    BY StaleOutdates DEF Replace, IInv
<1>5. auth' \in AuthRow /\ lease' \in LeaseRow /\ session' \in SessionRow
    BY DEF Replace, IInv, TypeOK
<1>q. QED
    BY <1>1, <1>3, <1>4, <1>5, SelectionPreserves DEF Replace

LEMMA ReloadSourcePreserves == IInv /\ ReloadSource => IInv'
<1> SUFFICES ASSUME IInv, ReloadSource PROVE IInv'
    OBVIOUS
<1>1. cred.kind = "external" /\ sealed' = {}
    BY DEF ReloadSource, IInv, OnlySelectedMaterial
<1>2. cred.version + 1 \in 0 .. MaxVersion /\ cred \in CredentialRow
    BY CredentialAssumption DEF ReloadSource, Free, Versions, IInv, TypeOK, CredentialRow
<1>3. cred' \in CredentialRow /\ cred'.version = cred.version + 1 /\ cred'.kind = cred.kind
    BY <1>2 DEF ReloadSource, CredentialRow, Statuses
<1>4. AllOutdated /\ ops' \in [Callers -> Operation]
    BY StaleAllOutdates DEF ReloadSource, IInv
<1>5. auth' \in AuthRow /\ lease' \in LeaseRow /\ session' \in SessionRow
    BY DEF ReloadSource, IInv, TypeOK
<1>q. QED
    BY <1>1, <1>3, <1>4, <1>5, SelectionPreserves DEF ReloadSource

\* A new token is activated at the end of a login or of a refresh.
LEMMA ActivatePreserves ==
    ASSUME NEW o \in Callers
    PROVE  IInv /\ (CompleteLogin(o) \/ CommitSuccess(o)) => IInv'
<1> SUFFICES ASSUME IInv, CompleteLogin(o) \/ CommitSuccess(o) PROVE IInv'
    OBVIOUS
<1>1. cred.kind = "codex" /\ Free(cred.version + 1) /\ lease' = NoLease
      /\ Activate(cred.version + 1, NextIdentity(o)) /\ UNCHANGED <<claims, presented, abandoned>>
    BY DEF CompleteLogin, CommitSuccess, ActiveCodex, IInv, KindsAgree, CodexSteps, Steps
<1>2. NextIdentity(o) \in Nat
    <2>1. ops[o].identity \in Nat
        BY DEF IInv, TypeOK, Operation
    <2>q. QED
        BY <2>1 DEF NextIdentity
<1>3. cred.version + 1 \in 0 .. MaxVersion /\ cred \in CredentialRow
    BY <1>1, CredentialAssumption DEF Free, Versions, IInv, TypeOK, CredentialRow
<1>4. cred' \in CredentialRow /\ cred'.version = cred.version + 1 /\ cred'.kind = cred.kind
    BY <1>1, <1>2, <1>3 DEF Activate, CredentialRow, Statuses
<1>5. auth' \in AuthRow
    BY <1>1, <1>2, <1>3 DEF Activate, AuthRow
<1>6. lease' \in LeaseRow
    BY <1>1, CredentialAssumption DEF NoLease, LeaseRow
<1>7. session' \in SessionRow
    BY DEF CompleteLogin, CommitSuccess, EndSession, IInv, TypeOK, SessionRow
<1>8. AllOutdated /\ ops' \in [Callers -> Operation]
    BY StaleOutdates DEF CompleteLogin, CommitSuccess, IInv
<1>9. rows' = [Retired EXCEPT ![cred.version + 1] = "current"] /\ sealed' = {cred.version + 1}
    BY <1>1 DEF Activate
<1>q. QED
    BY <1>1, <1>4, <1>5, <1>6, <1>7, <1>8, <1>9, SelectionPreserves

\* Nothing is selected any more, and nothing is left of what was.
LEMMA DeselectionPreserves ==
    ASSUME IInv, cred' \in CredentialRow, cred'.version = 0, cred'.kind = cred.kind,
           cred.kind = "codex", cred'.status \in {"revoked", "expired"},
           rows' \in [Versions -> RowStates], UsedStaysUsed,
           \A v \in Versions : rows'[v] # "current", sealed' = {},
           auth' \in AuthRow, lease' \in LeaseRow, session' \in SessionRow,
           AllOutdated, ops' \in [Callers -> Operation],
           UNCHANGED <<claims, presented, abandoned>>
    PROVE  IInv'
<1>1. TypeOK'
    BY DEF IInv, TypeOK
<1>2. OnlySelectedMaterial'
    BY DEF OnlySelectedMaterial
<1>3. Fences'
    BY WriteKeepsFences DEF IInv, Fences, Usable
<1>q. QED
    BY <1>1, <1>2, <1>3 DEF IInv, Fences

LEMMA RevokePreserves == IInv /\ Revoke => IInv'
<1> SUFFICES ASSUME IInv, Revoke PROVE IInv'
    OBVIOUS
<1>1. cred.identity + 1 \in Nat /\ 0 \in 0 .. MaxVersion /\ cred \in CredentialRow
    BY CredentialAssumption DEF IInv, TypeOK, CredentialRow
<1>2. cred' \in CredentialRow /\ cred'.version = 0 /\ cred'.kind = cred.kind
      /\ cred'.status = "revoked" /\ cred.kind = "codex"
    BY <1>1 DEF Revoke, CredentialRow, Statuses
<1>3. /\ rows' \in [Versions -> RowStates] /\ UsedStaysUsed /\ sealed' = {}
      /\ \A v \in Versions : rows'[v] # "current"
    BY RetiredRows DEF Revoke, UsedStaysUsed, IInv
<1>4. lease' \in LeaseRow /\ auth' \in AuthRow
    BY <1>1 DEF Revoke, NoLease, LeaseRow, NoAuth, AuthRow
<1>5. session' \in SessionRow
    BY DEF Revoke, EndSession, IInv, TypeOK, SessionRow
<1>6. AllOutdated /\ ops' \in [Callers -> Operation]
    BY StaleAllOutdates DEF Revoke, IInv
<1>q. QED
    BY <1>2, <1>3, <1>4, <1>5, <1>6, DeselectionPreserves DEF Revoke

LEMMA CommitRejectedPreserves ==
    ASSUME NEW o \in Callers PROVE IInv /\ CommitRejected(o) => IInv'
<1> SUFFICES ASSUME IInv, CommitRejected(o) PROVE IInv'
    OBVIOUS
<1>1. cred.version = ops[o].version /\ ops[o].step = "answered" /\ cred.kind = "codex"
    BY DEF CommitRejected, LockClaimed, Unchanged, IInv, KindsAgree, CodexSteps, Steps
<1>2. cred.version \in Versions /\ rows[cred.version] # "none" /\ cred.version # 0
    BY <1>1, HeldIsUsed, CredentialAssumption DEF IInv, Versions
<1>3. sealed = {cred.version} /\ \A v \in Versions : rows[v] = "current" => v = cred.version
    BY <1>1, <1>2 DEF IInv, OnlySelectedMaterial
<1>4. /\ rows' = [rows EXCEPT ![cred.version] = "retired"] /\ rows \in [Versions -> RowStates]
      /\ sealed' = sealed \ {cred.version}
    BY DEF CommitRejected, IInv, TypeOK
<1>5. /\ rows' \in [Versions -> RowStates] /\ UsedStaysUsed /\ sealed' = {}
      /\ \A v \in Versions : rows'[v] # "current"
    BY <1>2, <1>3, <1>4 DEF UsedStaysUsed, RowStates
<1>6. 0 \in 0 .. MaxVersion /\ cred \in CredentialRow /\ auth \in AuthRow
    BY CredentialAssumption DEF IInv, TypeOK
<1>7. /\ cred' \in CredentialRow /\ cred'.version = 0 /\ cred'.kind = cred.kind
      /\ cred'.status = "expired"
    BY <1>6 DEF CommitRejected, CredentialRow, Statuses
<1>8. lease' \in LeaseRow /\ auth' \in AuthRow
    BY <1>6 DEF CommitRejected, NoLease, LeaseRow, AuthRow
<1>9. session' \in SessionRow /\ UNCHANGED <<claims, presented, abandoned>>
    BY DEF CommitRejected, IInv, TypeOK
<1>10. AllOutdated /\ ops' \in [Callers -> Operation]
    BY StaleOutdates DEF CommitRejected, IInv
<1>q. QED
    BY <1>1, <1>5, <1>7, <1>8, <1>9, <1>10, DeselectionPreserves

-----------------------------------------------------------------------------
(* Creation, the claim of a refresh and the use of its token                *)

LEMMA CreatePreserves ==
    ASSUME NEW kind \in Kinds, NEW material \in BOOLEAN
    PROVE  IInv /\ Create(kind, material) => IInv'
<1> SUFFICES ASSUME IInv, Create(kind, material) PROVE IInv'
    OBVIOUS
<1>0. /\ cred.kind = "none" /\ UNCHANGED <<auth, lease, session, ops, claims, presented, abandoned>>
      /\ \A o \in Callers : ops[o].step = "idle"
      /\ \A v \in Versions : rows[v] = "none"
    BY DEF Create, IInv, KindsAgree
<1>1. 1 \in Versions /\ 1 \in 0 .. MaxVersion /\ 0 \in 0 .. MaxVersion
      /\ kind \in {"none", "static", "external", "codex"} /\ kind # "none"
    BY CredentialAssumption DEF Versions
<1>2. presented = {}
    BY <1>0 DEF IInv, TypeOK, TokensAreUsed
<1>3. /\ cred' \in CredentialRow /\ cred'.kind = kind
      /\ cred'.version = IF material THEN 1 ELSE 0
    BY <1>1 DEF Create, CredentialRow, Statuses
<1>4. /\ rows' = [rows EXCEPT ![1] = IF material THEN "current" ELSE "none"]
      /\ rows \in [Versions -> RowStates]
      /\ sealed' = IF material /\ kind # "external" THEN {1} ELSE {}
    BY DEF Create, IInv, TypeOK
<1>5. rows' \in [Versions -> RowStates] /\ sealed' \subseteq Versions
      /\ \A v \in Versions : rows'[v] = "current" <=> (v = 1 /\ material)
    BY <1>0, <1>1, <1>4 DEF RowStates
<1>6. TypeOK'
    BY <1>0, <1>3, <1>5 DEF IInv, TypeOK
<1>7. OnlySelectedMaterial'
    <2>1. {v \in Versions : rows'[v] = "current"} = {cred'.version} \ {0}
        BY <1>1, <1>3, <1>5
    <2>q. QED
        BY <1>3, <1>4, <2>1 DEF OnlySelectedMaterial
<1>8. KindsAgree'
    BY <1>0, <1>1, <1>3 DEF KindsAgree, CodexSteps
<1>9. TokensAreUsed' /\ ClaimsAreFenced' /\ FreshClaimIsAlone' /\ ReadyTokenIsLive'
    BY <1>0, <1>2 DEF TokensAreUsed, ClaimsAreFenced, FreshClaimIsAlone, MayReturn, ReadyTokenIsLive
<1>q. QED
    BY <1>6, <1>7, <1>8, <1>9 DEF IInv

LEMMA ClaimRefreshPreserves ==
    ASSUME NEW o \in Callers PROVE IInv /\ ClaimRefresh(o) => IInv'
<1> SUFFICES ASSUME IInv, ClaimRefresh(o) PROVE IInv'
    OBVIOUS
<1>0. /\ ops[o].step = "opened" /\ cred.kind = "codex" /\ cred.version = ops[o].version
      /\ Usable /\ UNCHANGED <<rows, sealed, session, presented, abandoned>>
    BY DEF ClaimRefresh, Claimable, ActiveCodex, Unchanged, Usable
<1>1. claims + 1 \in Nat /\ \A p \in Callers : ops[p] \in Operation
    BY DEF IInv, TypeOK
<1>2. /\ cred' \in CredentialRow /\ cred'.kind = cred.kind /\ cred'.version = cred.version
      /\ cred'.status = "refreshing"
    BY DEF ClaimRefresh, IInv, TypeOK, CredentialRow, Statuses
<1>3. lease' \in LeaseRow /\ auth' \in AuthRow /\ claims' \in Nat
    <2>1. ops[o].fence \in Nat /\ cred.version \in 0 .. MaxVersion /\ cred.identity \in Nat
        BY <1>1 DEF IInv, TypeOK, Operation, CredentialRow
    <2>q. QED
        BY <1>1, <2>1 DEF ClaimRefresh, LeaseRow, AuthRow, IInv, TypeOK
<1>4. ops' = [StaleAll EXCEPT ![o].step = "claimed", ![o].attempt = claims + 1, ![o].fresh = TRUE]
    BY DEF ClaimRefresh
<1>5. /\ StaleAll \in [Callers -> Operation]
      /\ \A p \in Callers : StaleAll[p] = [ops[p] EXCEPT !.fresh = FALSE]
    BY <1>1 DEF StaleAll, Operation
<1>6. /\ ops'[o] = [StaleAll[o] EXCEPT !.step = "claimed", !.attempt = claims + 1, !.fresh = TRUE]
      /\ \A p \in Callers \ {o} : ops'[p] = StaleAll[p]
      /\ DOMAIN ops' = Callers /\ ops' = [p \in Callers |-> ops'[p]]
    BY <1>4, <1>5
<1>7. ops'[o] \in Operation /\ ops'[o].step = "claimed" /\ ops'[o].version = ops[o].version
    <2>1. StaleAll[o] \in Operation /\ StaleAll[o].version = ops[o].version
        BY <1>1, <1>5 DEF Operation
    <2>q. QED
        BY <1>1, <1>6, <2>1 DEF Operation, Steps
<1>8. \A p \in Callers \ {o} : /\ ops'[p] \in Operation /\ ops'[p].fresh = FALSE
                               /\ ops'[p].step = ops[p].step /\ ops'[p].version = ops[p].version
    BY <1>1, <1>5, <1>6 DEF Operation
<1>9. ops' \in [Callers -> Operation]
    BY <1>6, <1>7, <1>8
<1>10. TypeOK' /\ OnlySelectedMaterial'
    BY <1>0, <1>2, <1>3, <1>9, MaterialKept DEF IInv, TypeOK
<1>11. KindsAgree'
    BY <1>0, <1>2, <1>7, <1>8 DEF IInv, KindsAgree
<1>12. TokensAreUsed'
    BY <1>0, <1>7, <1>8 DEF IInv, TokensAreUsed
<1>13. ClaimsAreFenced' /\ ReadyTokenIsLive'
    BY <1>2 DEF ClaimsAreFenced, Usable, ReadyTokenIsLive
<1>14. FreshClaimIsAlone'
    <2>1. cred.version \notin presented \ abandoned
        BY <1>0 DEF IInv, ReadyTokenIsLive, Usable
    <2>2. \A p \in Callers : ops[p].step = "claimed" /\ ops[p].version = cred.version
                             => ops[p].version \in abandoned
        BY <1>0 DEF IInv, ClaimsAreFenced
    <2>3. \A p \in Callers : MayReturn(p)' => p = o
        BY <1>8 DEF MayReturn
    <2>4. \A p \in Callers \ {o} : ops'[p].step = "claimed" /\ ops'[p].version = ops'[o].version
                                   => ops'[p].version \in abandoned'
        BY <1>0, <1>7, <1>8, <2>2
    <2>q. QED
        BY <1>0, <1>2, <1>7, <2>1, <2>3, <2>4 DEF FreshClaimIsAlone
<1>q. QED
    BY <1>10, <1>11, <1>12, <1>13, <1>14 DEF IInv

LEMMA PresentPreserves ==
    ASSUME NEW o \in Callers, NEW answer \in {"same", "other", "rejected", "transient", "lost"}
    PROVE  IInv /\ Present(o, answer) => IInv'
<1> SUFFICES ASSUME IInv, Present(o, answer) PROVE IInv'
    OBVIOUS
<1>0. /\ ops[o].step = "claimed" /\ UNCHANGED <<cred, rows, sealed, auth, lease, session, claims, abandoned>>
      /\ presented' = IF answer = "transient" THEN presented ELSE presented \cup {ops[o].version}
    BY DEF Present
<1>1. ops[o].version \in Versions /\ rows[ops[o].version] # "none" /\ cred.kind = "codex"
    BY <1>0, HeldIsUsed DEF IInv, KindsAgree, CodexSteps, Steps
<1> DEFINE op == [ops[o] EXCEPT !.step = "answered", !.answer = answer]
<1>2. /\ op \in Operation /\ op.step = "answered" /\ op.version = ops[o].version
      /\ op.answer = answer /\ op.fresh = ops[o].fresh
    BY DEF IInv, TypeOK, Operation, Steps
<1>3. ops' = [ops EXCEPT ![o] = op]
    BY DEF Present, IInv, TypeOK
<1> HIDE DEF op
<1>4. /\ ops' \in [Callers -> Operation] /\ ops'[o] = op
      /\ \A p \in Callers \ {o} : ops'[p] = ops[p]
    BY <1>2, <1>3, OneOperation DEF IInv
<1>5. TypeOK' /\ OnlySelectedMaterial'
    BY <1>0, <1>1, <1>4, MaterialKept DEF IInv, TypeOK
<1>6. KindsAgree'
    BY <1>0, <1>1, <1>2, <1>4 DEF IInv, KindsAgree
<1>7. TokensAreUsed'
    BY <1>0, <1>1, <1>2, <1>4 DEF IInv, TokensAreUsed
<1>8. ClaimsAreFenced'
    BY <1>0, <1>2, <1>4 DEF IInv, ClaimsAreFenced, Usable
<1>9. ReadyTokenIsLive'
    BY <1>0 DEF IInv, ReadyTokenIsLive, ClaimsAreFenced, Usable
<1>10. FreshClaimIsAlone'
    <2> SUFFICES ASSUME NEW p \in Callers, MayReturn(p)'
                 PROVE  /\ cred'.status = "refreshing" /\ cred'.version = ops'[p].version
                        /\ cred'.version \notin presented' \ abandoned'
                        /\ \A q \in Callers \ {p} :
                              ops'[q].step = "claimed" /\ ops'[q].version = ops'[p].version
                              => ops'[q].version \in abandoned'
        BY DEF FreshClaimIsAlone
    <2>1. MayReturn(p) /\ ops'[p].version = ops[p].version /\ (p = o => answer = "transient")
        BY <1>0, <1>2, <1>4 DEF MayReturn
    <2>2. /\ cred.status = "refreshing" /\ cred.version = ops[p].version
          /\ cred.version \notin presented \ abandoned
          /\ \A q \in Callers \ {p} : ops[q].step = "claimed" /\ ops[q].version = ops[p].version
                                      => ops[q].version \in abandoned
        BY <2>1 DEF IInv, FreshClaimIsAlone
    <2>3. cred.version \notin presented' \ abandoned
        BY <1>0, <2>1, <2>2
    <2>4. \A q \in Callers \ {p} : ops'[q].step = "claimed" => ops'[q] = ops[q]
        BY <1>2, <1>4
    <2>q. QED
        BY <1>0, <2>1, <2>2, <2>3, <2>4
<1>q. QED
    BY <1>5, <1>6, <1>7, <1>8, <1>9, <1>10 DEF IInv

-----------------------------------------------------------------------------

LEMMA InitEstablishes == Init => IInv
<1> SUFFICES ASSUME Init PROVE IInv
    OBVIOUS
<1>1. 0 \in 0 .. MaxVersion
    BY CredentialAssumption
<1>2. cred \in CredentialRow /\ auth \in AuthRow /\ lease \in LeaseRow /\ session \in SessionRow
    BY <1>1 DEF Init, NoCredential, CredentialRow, Statuses, NoAuth, AuthRow, NoLease, LeaseRow,
                NoSession, SessionRow
<1>3. TypeOK
    BY <1>2, IdleType DEF Init, TypeOK, RowStates
<1>4. \A o \in Callers : ops[o].step = "idle"
    BY DEF Init, Idle
<1>5. KindsAgree /\ TokensAreUsed /\ ClaimsAreFenced /\ FreshClaimIsAlone
    BY <1>4 DEF Init, KindsAgree, CodexSteps, TokensAreUsed, ClaimsAreFenced, FreshClaimIsAlone, MayReturn
<1>6. OnlySelectedMaterial /\ ReadyTokenIsLive
    BY DEF Init, NoCredential, OnlySelectedMaterial, ReadyTokenIsLive
<1>q. QED
    BY <1>3, <1>5, <1>6 DEF IInv

LEMMA StutterPreserves == IInv /\ UNCHANGED vars => IInv'
BY DEF vars, IInv, TypeOK, KindsAgree, TokensAreUsed, ClaimsAreFenced, Usable,
       MayReturn, FreshClaimIsAlone, OnlySelectedMaterial, ReadyTokenIsLive

LEMMA NextPreserves == IInv /\ [Next]_vars => IInv'
<1> SUFFICES ASSUME IInv, [Next]_vars PROVE IInv'
    OBVIOUS
<1>1. ASSUME NEW o \in Callers,
             \/ ReplaceCapture(o) \/ Replace(o) \/ ValidateCapture(o) \/ Validate(o)
             \/ StartCapture(o) \/ StartLogin(o) \/ ClaimLogin(o) \/ ReleaseClaim(o)
             \/ PollAgain(o) \/ BeginExchange(o) \/ FailLogin(o) \/ CompleteLogin(o)
             \/ ClaimRefresh(o) \/ CommitSuccess(o) \/ CommitRejected(o)
             \/ CommitTransient(o) \/ CommitUnknown(o) \/ Abandon(o)
             \/ \E account \in {"same", "other"} : Exchanged(o, account)
             \/ \E worker \in BOOLEAN : RefreshCapture(o, worker)
             \/ \E answer \in {"same", "other", "rejected", "transient", "lost"} : Present(o, answer)
      PROVE  IInv'
    BY <1>1, CapturePreserves, ReplacePreserves, ValidatePreserves, StartLoginPreserves,
       LoginStepPreserves, EndLoginPreserves, ActivatePreserves, ClaimRefreshPreserves,
       CommitRejectedPreserves, CommitTransientPreserves, CommitUnknownPreserves,
       RefreshCapturePreserves, PresentPreserves
<1>2. CASE \/ \E kind \in Kinds, material \in BOOLEAN : Create(kind, material)
           \/ \E admin \in {"active", "disabled", "revoked"} : Update(admin)
    BY <1>2, CreatePreserves, UpdatePreserves
<1>3. CASE \/ ReloadSource \/ CancelLogin \/ ExpireLoginOnRead \/ Revoke
           \/ ReconcileLogins \/ ReconcileLeases
           \/ LeaseExpires \/ ClaimExpires \/ LoginExpires \/ RefreshDue
    BY <1>3, ReloadSourcePreserves, EndLoginPreserves, RevokePreserves,
       ReconcileLoginsPreserves, ReconcileLeasesPreserves, TimePreserves
<1>q. QED
    BY <1>1, <1>2, <1>3, StutterPreserves DEF Next

\* The inductive invariant: a claimed token cannot become usable again while
\* it is selected, and the one caller that may return it is alone with it.
THEOREM CredentialInvariant == Spec => []IInv
<1>1. Init => IInv
    BY InitEstablishes
<1>2. IInv /\ [Next]_vars => IInv'
    BY NextPreserves
<1>q. QED
    BY <1>1, <1>2, PTL DEF Spec

\* Type correctness.
THEOREM TypeCorrect == Spec => []TypeOK
BY CredentialInvariant, PTL DEF IInv

\* However its operations interleave, stop or repeat, a credential has one
\* current version and the database only the ciphertext of that one
\* (activate_codex_token, replace_secret, reload_source, revoke).
THEOREM SelectedMaterialOnly == Spec => []OnlySelectedMaterial
BY CredentialInvariant, PTL DEF IInv

\* For every number of callers and of refreshes, a token the provider may have
\* rotated is not offered again unless an operator gave up a login
\* (lock_claimed_refresh, reconcile_expired_codex_refresh_leases).
THEOREM RotatedTokenStaysOut == Spec => []ReadyTokenIsLive
BY CredentialInvariant, PTL DEF IInv

-----------------------------------------------------------------------------
(* API keys, their policies and the sessions made from them.               *)

PolicyRows == [Families -> [Classes -> Section]]

KeyRow == [family : Families \cup {"none"}, owner : Owners, class : Classes,
           values : SUBSET Values, status : KeyStatuses, created : Nat, expires : Nat,
           budget : Nat, inForce : Nat, version : Nat, secretAt : Nat, overlap : Nat,
           ovFrom : Nat, ovUntil : Nat]

\* The deployment has standard management keys only, a key that does not exist
\* counts for nothing, and the overlap is not a later secret than the current one.
RowShape(e) ==
    /\ e.family = "gateway" => e.owner = "org"
    /\ e.class = "member" => e.owner = "org"
    /\ e.family = "none" => e.status = "revoked"
    /\ e.overlap <= e.version

\* One key within a policy: the part of KeysFitPolicy that is about one key.
RowFits(e, p) ==
    e.status # "revoked" =>
        /\ e.values \subseteq Allowed(p, e.family, e.class)
        /\ e.family = "management" =>
              /\ e.expires <= e.created + Days(p, e.family, e.class)
              /\ e.overlap # 0 => e.ovUntil <= e.ovFrom + Overlap(p, e.family, e.class)
        /\ e.family = "gateway" => /\ e.budget <= p["gateway"][e.class].budget
                                   /\ e.inForce <= p["gateway"][e.class].budget

\* The identity a request or a session holds is one the stored key has or had.
Known(ks, i) ==
    /\ i.key \in Keys /\ i.version \in Nat \ {0} /\ i.values \subseteq Values
    /\ ks[i.key].family = "management" /\ i.version <= ks[i.key].version

KeysType ==
    /\ now \in Nat /\ policy \in [Owners -> PolicyRows] /\ keys \in [Keys -> KeyRow]
    /\ orgActive \in BOOLEAN
    /\ DOMAIN published = {"keys", "orgActive"} /\ published.keys \in [Keys -> KeyRow]
    /\ DOMAIN sessions = Sessions /\ DOMAIN pending = SessionCallers

\* The snapshot holds a management key that exists, in a version it reached.
PublishedBehind ==
    \A k \in Keys : published.keys[k].family = "management" =>
        /\ keys[k].family = "management"
        /\ published.keys[k].overlap <= published.keys[k].version
        /\ published.keys[k].version <= keys[k].version

SessionsKnown ==
    /\ \A s \in Sessions : sessions[s] # NoKeySession =>
          /\ sessions[s] = [id |-> sessions[s].id, live |-> sessions[s].live]
          /\ Known(keys, sessions[s].id)
    /\ \A c \in SessionCallers : pending[c] # NoIdentity => Known(keys, pending[c])

RowsFit == \A k \in Keys : RowShape(keys[k]) /\ RowFits(keys[k], policy[keys[k].owner])

CountsWithin ==
    \A o \in Owners :
        /\ CountOf(keys, o, "management", Classes) <= policy[o]["management"]["standard"].keys
        /\ CountOf(keys, o, "management", {"member"}) <= policy[o]["management"]["member"].keys

KeysInv ==
    /\ KeysType /\ PolicyShape(policy["org"])
    /\ RowsFit /\ CountsWithin
    /\ PublishedBehind /\ SessionsKnown

\* Sessions end or stay as they are.
SessionsStay ==
    /\ DOMAIN sessions' = Sessions
    /\ \A s \in Sessions : \/ sessions'[s] = sessions[s]
                          \/ sessions'[s] = [sessions[s] EXCEPT !.live = FALSE]

\* A changed row gives a session of the key nothing it had not: the authority is
\* the same and no earlier secret is accepted again.
AuthorityKept(e, r) ==
    /\ r.values = e.values /\ r.status = e.status /\ r.expires = e.expires
    /\ \A v \in 1 .. e.version :
          v = r.version \/ (v = r.overlap /\ r.ovUntil > now)
          => v = e.version \/ (v = e.overlap /\ e.ovUntil > now)

\* What SessionsNeverWiden says of one step.
SessionsNarrow ==
    \A s \in Sessions : sessions[s] # NoKeySession => SessionScopes(s)' \subseteq SessionScopes(s)

-----------------------------------------------------------------------------
(* The rows that commands write                                              *)

\* Min2 is the smaller limit.
LEMMA SmallerLimit ==
    ASSUME NEW a \in Nat, NEW b \in Nat
    PROVE  Min2(a, b) \in Nat /\ Min2(a, b) <= a /\ Min2(a, b) <= b
BY DEF Min2

\* The effective limits of a policy are numbers.
LEMMA LimitsTyped ==
    ASSUME NEW p \in PolicyRows, NEW f \in Families, NEW c \in Classes
    PROVE  /\ Days(p, f, c) \in Nat /\ Overlap(p, f, c) \in Nat
           /\ p[f][c] \in Section /\ p[f]["standard"] \in Section
           /\ Allowed(p, f, c) \subseteq Values
<1>1. p[f][c] \in Section /\ p[f]["standard"] \in Section
    BY DEF PolicyRows, Classes
<1>2. p[f][c].days \in Nat /\ p[f]["standard"].days \in Nat /\ p[f][c].overlap \in Nat
      /\ p[f]["standard"].overlap \in Nat /\ p[f][c].values \subseteq Values
    BY <1>1 DEF Section
<1> QED BY <1>1, <1>2, SmallerLimit DEF Days, Overlap, Allowed

\* A gateway section of a well-formed organization policy that is on is within
\* the global one, so its own limits are the effective ones.
LEMMA GatewaySectionEffective ==
    ASSUME NEW p \in PolicyRows, PolicyShape(p), NEW c \in Classes, p["gateway"][c].on
    PROVE  Allowed(p, "gateway", c) = p["gateway"][c].values
BY DEF PolicyShape, Within, Allowed, Classes, PolicyRows, Families, Section

\* A new key is a row within the policy that was checked.
LEMMA FreshRow ==
    ASSUME NEW f \in Families, NEW o \in Owners, NEW c \in Classes, NEW values \in SUBSET Values,
           NEW expires \in Nat, NEW budget \in Nat, NEW inForce \in Nat, now \in Nat,
           f = "gateway" => o = "org", c = "member" => o = "org"
    PROVE  LET e == FreshKey(f, o, c, values, expires, budget, inForce)
           IN  /\ e \in KeyRow /\ RowShape(e)
               /\ e.family = f /\ e.owner = o /\ e.class = c /\ e.values = values
               /\ e.status = "active" /\ e.expires = expires /\ e.created = now
               /\ e.overlap = 0 /\ e.budget = budget /\ e.inForce = inForce /\ e.version = 1
<1> DEFINE e == FreshKey(f, o, c, values, expires, budget, inForce)
<1>1. e \in KeyRow
    BY DEF FreshKey, KeyRow, KeyStatuses
<1>2. /\ e.family = f /\ e.owner = o /\ e.class = c /\ e.values = values
      /\ e.status = "active" /\ e.expires = expires /\ e.created = now
      /\ e.overlap = 0 /\ e.budget = budget /\ e.inForce = inForce /\ e.version = 1
    BY DEF FreshKey
<1> HIDE DEF e
<1>3. RowShape(e)
    BY <1>2 DEF RowShape, Families
<1> QED BY <1>1, <1>2, <1>3 DEF e

\* A rotated key keeps everything but its secrets.
LEMMA RotatedRow ==
    ASSUME NEW e \in KeyRow, RowShape(e), NEW length \in Nat, NEW from \in Nat, now \in Nat
    PROVE  LET r == Rotated(e, length, from)
           IN  /\ r \in KeyRow /\ RowShape(r)
               /\ r.family = e.family /\ r.owner = e.owner /\ r.class = e.class
               /\ r.values = e.values /\ r.status = e.status /\ r.expires = e.expires
               /\ r.created = e.created /\ r.budget = e.budget /\ r.inForce = e.inForce /\ r.version = e.version + 1
               /\ r.overlap = (IF length = 0 THEN 0 ELSE e.version)
               /\ r.overlap # 0 => r.ovFrom = from /\ r.ovUntil = now + length
<1> DEFINE ov == IF length = 0 THEN 0 ELSE e.version
           fr == IF length = 0 THEN 0 ELSE from
           un == IF length = 0 THEN 0 ELSE now + length
           v == e.version + 1
           w == [e EXCEPT !.version = v, !.secretAt = now, !.overlap = ov, !.ovFrom = fr, !.ovUntil = un]
<1>1. e.version \in Nat
    BY DEF KeyRow
<1>2. Rotated(e, length, from) = w
    BY DEF Rotated
<1>3. /\ v \in Nat /\ ov \in Nat /\ fr \in Nat /\ un \in Nat /\ ov <= v
      /\ ov # 0 => fr = from /\ un = now + length
    BY <1>1
<1> HIDE DEF ov, fr, un, v
<1>4. w \in KeyRow
    BY <1>3 DEF KeyRow
<1>5. /\ w.family = e.family /\ w.owner = e.owner /\ w.class = e.class
      /\ w.values = e.values /\ w.status = e.status /\ w.expires = e.expires
      /\ w.created = e.created /\ w.budget = e.budget /\ w.inForce = e.inForce /\ w.version = v
      /\ w.overlap = ov /\ w.ovFrom = fr /\ w.ovUntil = un
    BY DEF KeyRow
<1> HIDE DEF w
<1>6. RowShape(w)
    BY <1>3, <1>5 DEF RowShape
<1> QED BY <1>2, <1>3, <1>4, <1>5, <1>6 DEF ov, v

\* The overlap that a policy leaves.
LEMMA ClampedOverlapRow ==
    ASSUME NEW e \in KeyRow, RowShape(e), e.family \in Families, NEW p \in PolicyRows, now \in Nat
    PROVE  LET r == ClampedOverlap(e, p)
           IN  /\ r \in KeyRow /\ RowShape(r)
               /\ r.family = e.family /\ r.owner = e.owner /\ r.class = e.class
               /\ r.values = e.values /\ r.status = e.status /\ r.expires = e.expires
               /\ r.created = e.created /\ r.budget = e.budget /\ r.inForce = e.inForce /\ r.version = e.version
               /\ r.overlap # 0 => /\ r.overlap = e.overlap /\ r.ovUntil <= e.ovUntil
                                   /\ r.ovUntil <= r.ovFrom + Overlap(p, e.family, e.class)
<1> DEFINE n == Overlap(p, e.family, e.class)
           u == Min2(e.ovUntil, e.ovFrom + n)
<1>0. e.class \in Classes /\ e.ovUntil \in Nat /\ e.ovFrom \in Nat /\ e.overlap \in Nat /\ e.version \in Nat
    BY DEF KeyRow
<1>1. n \in Nat
    BY <1>0, LimitsTyped
<1>2. u \in Nat /\ u <= e.ovUntil /\ u <= e.ovFrom + n
    BY <1>0, <1>1 DEF Min2
<1>3. ClampedOverlap(e, p) = IF e.overlap = 0 THEN e
        ELSE IF u <= now THEN [e EXCEPT !.overlap = 0, !.ovFrom = 0, !.ovUntil = 0]
        ELSE [e EXCEPT !.ovUntil = u]
    BY DEF ClampedOverlap
<1> HIDE DEF u, n
<1>4. CASE e.overlap = 0
    BY <1>0, <1>3, <1>4
<1>5. CASE e.overlap # 0 /\ u <= now
    <2> DEFINE w == [e EXCEPT !.overlap = 0, !.ovFrom = 0, !.ovUntil = 0]
    <2>1. ClampedOverlap(e, p) = w
        BY <1>3, <1>5
    <2>2. w \in KeyRow
        BY DEF KeyRow
    <2>3. /\ w.family = e.family /\ w.owner = e.owner /\ w.class = e.class
          /\ w.values = e.values /\ w.status = e.status /\ w.expires = e.expires
          /\ w.created = e.created /\ w.budget = e.budget /\ w.inForce = e.inForce /\ w.version = e.version /\ w.overlap = 0
        BY DEF KeyRow
    <2> HIDE DEF w
    <2> QED BY <1>0, <2>1, <2>2, <2>3 DEF RowShape
<1>6. CASE e.overlap # 0 /\ ~(u <= now)
    <2>1. ClampedOverlap(e, p) = [e EXCEPT !.ovUntil = u]
        BY <1>3, <1>6
    <2> QED BY <1>0, <1>1, <1>2, <2>1 DEF KeyRow, RowShape, n
<1> QED BY <1>4, <1>5, <1>6

\* What is left of a key under a policy is within the policy, and a revoked key
\* is not revived.
LEMMA ClampedRow ==
    ASSUME NEW e \in KeyRow, RowShape(e), e.family \in Families, NEW p \in PolicyRows, now \in Nat
    PROVE  LET r == Clamp(e, p)
           IN  /\ r \in KeyRow /\ RowShape(r)
               /\ r.family = e.family /\ r.owner = e.owner /\ r.class = e.class /\ r.version = e.version
               /\ r.created = e.created /\ r.budget = e.budget /\ r.inForce = e.inForce
               /\ r.status # "revoked" => r.values \subseteq Allowed(p, e.family, e.class)
               /\ r.expires <= r.created + Days(p, e.family, e.class)
               /\ r.overlap # 0 => /\ r.overlap = e.overlap /\ r.ovUntil <= e.ovUntil
                                   /\ r.ovUntil <= r.ovFrom + Overlap(p, e.family, e.class)
<1> DEFINE d == Days(p, e.family, e.class)
           a == Allowed(p, e.family, e.class)
           kept == e.values \cap a
           vs == IF kept = {} /\ e.family = "gateway" THEN e.values ELSE kept
           st == IF kept = {} \/ ~Enabled(p, e.family, e.class) THEN "revoked" ELSE e.status
           ex == Min2(e.expires, e.created + d)
           m == [e EXCEPT !.values = vs, !.status = st, !.expires = ex]
<1>0. e.class \in Classes /\ e.expires \in Nat /\ e.created \in Nat /\ e.values \subseteq Values
      /\ e.status \in KeyStatuses
    BY DEF KeyRow
<1>1. d \in Nat /\ a \subseteq Values
    BY <1>0, LimitsTyped
<1>2. ex \in Nat /\ ex <= e.created + d
    BY <1>0, <1>1 DEF Min2
<1>3. vs \subseteq Values /\ st \in KeyStatuses
    BY <1>0 DEF KeyStatuses
<1>4. st # "revoked" => vs \subseteq a
    OBVIOUS
<1>5. Clamp(e, p) = ClampedOverlap(m, p)
    BY DEF Clamp
<1> HIDE DEF vs, st, ex, kept, d, a
<1>6. /\ m \in KeyRow /\ RowShape(m) /\ m.family = e.family /\ m.owner = e.owner /\ m.class = e.class
      /\ m.values = vs /\ m.status = st /\ m.expires = ex /\ m.created = e.created
      /\ m.budget = e.budget /\ m.inForce = e.inForce /\ m.version = e.version /\ m.overlap = e.overlap
      /\ m.ovUntil = e.ovUntil /\ m.ovFrom = e.ovFrom
    <2>1. m \in KeyRow
        BY <1>2, <1>3 DEF KeyRow
    <2>2. /\ m.family = e.family /\ m.owner = e.owner /\ m.class = e.class
          /\ m.values = vs /\ m.status = st /\ m.expires = ex /\ m.created = e.created
          /\ m.budget = e.budget /\ m.inForce = e.inForce /\ m.version = e.version /\ m.overlap = e.overlap
          /\ m.ovUntil = e.ovUntil /\ m.ovFrom = e.ovFrom
        BY DEF KeyRow
    <2>3. RowShape(m)
        BY <2>2 DEF RowShape, Families
    <2> QED BY <2>1, <2>2, <2>3
<1> HIDE DEF m
<1> DEFINE r == ClampedOverlap(m, p)
<1>7. /\ r \in KeyRow /\ RowShape(r)
      /\ r.family = m.family /\ r.owner = m.owner /\ r.class = m.class
      /\ r.values = m.values /\ r.status = m.status /\ r.expires = m.expires
      /\ r.created = m.created /\ r.budget = m.budget /\ r.inForce = m.inForce /\ r.version = m.version
      /\ r.overlap # 0 => /\ r.overlap = m.overlap /\ r.ovUntil <= m.ovUntil
                          /\ r.ovUntil <= r.ovFrom + Overlap(p, m.family, m.class)
    BY <1>6, ClampedOverlapRow
<1> HIDE DEF r
<1>8. Clamp(e, p) = r
    BY <1>5 DEF r
<1> QED BY <1>2, <1>4, <1>6, <1>7, <1>8 DEF d, a

-----------------------------------------------------------------------------
(* Counting the available keys                                               *)

\* The keys an owner's limit counts.
Counted(ks, t, o, f, cs) ==
    {k \in Keys : /\ ks[k].family = f /\ ks[k].owner = o /\ ks[k].class \in cs
                  /\ ks[k].status = "active" /\ ks[k].expires > t}

\* Fewer keys count for less, and one more key counts for one.
LEMMA CountedBounds ==
    ASSUME NEW S \in SUBSET Keys, NEW T \in SUBSET Keys
    PROVE  /\ Cardinality(S) \in Nat
           /\ T \subseteq S => Cardinality(T) <= Cardinality(S)
           /\ \A k \in Keys : T \subseteq S \cup {k} => Cardinality(T) <= Cardinality(S) + 1
<1>1. IsFiniteSet(S) /\ IsFiniteSet(T)
    BY KeysAssumption, FS_Subset
<1>2. Cardinality(S) \in Nat /\ Cardinality(T) \in Nat
    BY <1>1, FS_CardinalityType
<1>3. T \subseteq S => Cardinality(T) <= Cardinality(S)
    BY <1>1, FS_Subset
<1>4. ASSUME NEW k \in Keys, T \subseteq S \cup {k}  PROVE Cardinality(T) <= Cardinality(S) + 1
    <2>1. IsFiniteSet(S \cup {k}) /\ Cardinality(S \cup {k}) \in {Cardinality(S), Cardinality(S) + 1}
        BY <1>1, FS_AddElement
    <2>2. Cardinality(T) <= Cardinality(S \cup {k})
        BY <1>4, <2>1, FS_Subset
    <2> QED BY <1>2, <2>1, <2>2
<1> QED BY <1>2, <1>3, <1>4

\* The limits hold on while no key becomes available.
LEMMA NoneMore ==
    ASSUME KeysInv, policy' = policy,
           \A k \in Keys : /\ keys'[k].family = "management"
                           /\ keys'[k].status = "active" /\ keys'[k].expires > now'
                           => /\ keys[k].status = "active" /\ keys[k].expires > now
                              /\ keys'[k].family = keys[k].family /\ keys'[k].owner = keys[k].owner
                              /\ keys'[k].class = keys[k].class
    PROVE  CountsWithin'
<1> SUFFICES ASSUME NEW o \in Owners
    PROVE /\ CountOf(keys, o, "management", Classes)' <= policy[o]["management"]["standard"].keys
          /\ CountOf(keys, o, "management", {"member"})' <= policy[o]["management"]["member"].keys
    BY DEF CountsWithin
<1>1. policy[o]["management"]["standard"] \in Section /\ policy[o]["management"]["member"] \in Section
    BY DEF KeysInv, KeysType, PolicyRows, Families, Classes
<1>2. policy[o]["management"]["standard"].keys \in Nat /\ policy[o]["management"]["member"].keys \in Nat
    BY <1>1 DEF Section
<1>3. ASSUME NEW cs  PROVE CountOf(keys, o, "management", cs)' <= CountOf(keys, o, "management", cs)
                           /\ CountOf(keys, o, "management", cs) \in Nat
                           /\ CountOf(keys, o, "management", cs)' \in Nat
    <2> DEFINE S == Counted(keys, now, o, "management", cs)
               T == Counted(keys', now', o, "management", cs)
    <2>1. T \subseteq S
        BY DEF Counted
    <2>2. S \in SUBSET Keys /\ T \in SUBSET Keys
        BY DEF Counted
    <2>3. CountOf(keys, o, "management", cs) = Cardinality(S)
        BY DEF CountOf, Counted
    <2>4. CountOf(keys, o, "management", cs)' = Cardinality(T)
        BY DEF CountOf, Counted
    <2> HIDE DEF S, T
    <2> QED BY <2>1, <2>2, <2>3, <2>4, CountedBounds
<1>4. /\ CountOf(keys, o, "management", Classes) <= policy[o]["management"]["standard"].keys
      /\ CountOf(keys, o, "management", {"member"}) <= policy[o]["management"]["member"].keys
    BY DEF KeysInv, CountsWithin
<1> QED BY <1>2, <1>3, <1>4

\* A key that becomes available had room under the limits.
LEMMA OneMore ==
    ASSUME KeysInv, NEW k \in Keys, NEW row \in KeyRow, policy' = policy, now' = now,
           keys' = [keys EXCEPT ![k] = row], row.family = "management",
           RoomFor(row.owner, "management", row.class)
    PROVE  CountsWithin'
<1> SUFFICES ASSUME NEW o \in Owners
    PROVE /\ CountOf(keys, o, "management", Classes)' <= policy[o]["management"]["standard"].keys
          /\ CountOf(keys, o, "management", {"member"})' <= policy[o]["management"]["member"].keys
    BY DEF CountsWithin
<1> DEFINE limit == policy[o]["management"]["standard"].keys
           mlimit == policy[o]["management"]["member"].keys
<1>1. policy[o]["management"]["standard"] \in Section /\ policy[o]["management"]["member"] \in Section
    BY DEF KeysInv, KeysType, PolicyRows, Families, Classes
<1>2. limit \in Nat /\ mlimit \in Nat
    BY <1>1 DEF Section
<1>3. ASSUME NEW cs
      PROVE /\ CountOf(keys, o, "management", cs) \in Nat /\ CountOf(keys, o, "management", cs)' \in Nat
            /\ CountOf(keys, o, "management", cs)' <= CountOf(keys, o, "management", cs) + 1
            /\ ~(row.owner = o /\ row.class \in cs)
               => CountOf(keys, o, "management", cs)' <= CountOf(keys, o, "management", cs)
    <2> DEFINE S == Counted(keys, now, o, "management", cs)
               T == Counted(keys', now', o, "management", cs)
    <2>0. \A j \in Keys : keys'[j] = IF j = k THEN row ELSE keys[j]
        BY DEF KeysInv, KeysType
    <2>1. T \subseteq S \cup {k}
        BY <2>0 DEF Counted
    <2>2. ~(row.owner = o /\ row.class \in cs) => T \subseteq S
        BY <2>0 DEF Counted
    <2>3. S \in SUBSET Keys /\ T \in SUBSET Keys
        BY DEF Counted
    <2>4. CountOf(keys, o, "management", cs) = Cardinality(S)
        BY DEF CountOf, Counted
    <2>5. CountOf(keys, o, "management", cs)' = Cardinality(T)
        BY DEF CountOf, Counted
    <2> HIDE DEF S, T
    <2> QED BY <2>1, <2>2, <2>3, <2>4, <2>5, CountedBounds
<1>4. /\ CountOf(keys, o, "management", Classes) <= limit
      /\ CountOf(keys, o, "management", {"member"}) <= mlimit
    BY DEF KeysInv, CountsWithin
<1>5. row.owner = o => /\ CountOf(keys, o, "management", Classes) < limit
                       /\ row.class = "member" => CountOf(keys, o, "management", {"member"}) < Min2(limit, mlimit)
    BY DEF RoomFor
<1>6. Min2(limit, mlimit) <= mlimit /\ Min2(limit, mlimit) \in Nat
    BY <1>2, SmallerLimit
<1> HIDE DEF limit, mlimit
<1> DEFINE all == CountOf(keys, o, "management", Classes)
           mem == CountOf(keys, o, "management", {"member"})
<1>a. /\ all \in Nat /\ all' \in Nat /\ all' <= all + 1
      /\ ~(row.owner = o /\ row.class \in Classes) => all' <= all
    BY <1>3
<1>b. /\ mem \in Nat /\ mem' \in Nat /\ mem' <= mem + 1
      /\ ~(row.owner = o /\ row.class \in {"member"}) => mem' <= mem
    BY <1>3
<1> HIDE DEF all, mem
<1>7. all' <= limit
    BY <1>2, <1>4, <1>5, <1>a DEF all
<1>8. mem' <= mlimit
    BY <1>2, <1>4, <1>5, <1>6, <1>b DEF mem
<1> QED BY <1>7, <1>8 DEF limit, mlimit, all, mem

-----------------------------------------------------------------------------
(* What every step keeps                                                     *)

\* Sessions and pending requests keep naming secrets that exist.
LEMMA SessionsKept ==
    ASSUME KeysInv, SessionsStay, pending' = pending,
           \A k \in Keys : keys[k].family = "management" =>
               keys'[k].family = "management" /\ keys'[k].version >= keys[k].version,
           keys' \in [Keys -> KeyRow]
    PROVE  SessionsKnown'
<1>1. ASSUME NEW i, Known(keys, i)  PROVE Known(keys', i)
    <2>1. keys[i.key].version \in Nat /\ keys'[i.key].version \in Nat
        BY <1>1 DEF Known, KeysInv, KeysType, KeyRow
    <2> QED BY <1>1, <2>1 DEF Known
<1>2. ASSUME NEW s \in Sessions, sessions'[s] # NoKeySession
      PROVE /\ sessions'[s] = [id |-> sessions'[s].id, live |-> sessions'[s].live]
            /\ Known(keys', sessions'[s].id)
    <2>1. sessions[s] # NoKeySession
        BY <1>2 DEF SessionsStay, NoKeySession
    <2>2. sessions[s] = [id |-> sessions[s].id, live |-> sessions[s].live] /\ Known(keys, sessions[s].id)
        BY <2>1 DEF KeysInv, SessionsKnown
    <2>3. sessions'[s].id = sessions[s].id /\ sessions'[s] = [id |-> sessions'[s].id, live |-> sessions'[s].live]
        BY <2>2 DEF SessionsStay
    <2> QED BY <1>1, <2>2, <2>3
<1>3. ASSUME NEW c \in SessionCallers, pending'[c] # NoIdentity  PROVE Known(keys', pending'[c])
    BY <1>1, <1>3 DEF KeysInv, SessionsKnown
<1> QED BY <1>2, <1>3 DEF SessionsKnown

\* The snapshot stays behind the tables.
LEMMA SnapshotKept ==
    ASSUME KeysInv, published' = published, keys' \in [Keys -> KeyRow],
           \A k \in Keys : keys[k].family = "management" =>
               keys'[k].family = "management" /\ keys'[k].version >= keys[k].version
    PROVE  PublishedBehind'
<1> SUFFICES ASSUME NEW k \in Keys, published.keys[k].family = "management"
    PROVE /\ keys'[k].family = "management"
          /\ published.keys[k].overlap <= published.keys[k].version
          /\ published.keys[k].version <= keys'[k].version
    BY DEF PublishedBehind
<1>1. /\ keys[k].version \in Nat /\ keys'[k].version \in Nat /\ published.keys[k].version \in Nat
    BY DEF KeysInv, KeysType, KeyRow
<1> QED BY <1>1 DEF KeysInv, PublishedBehind

\* A session shrinks when it ends or its key gives it nothing new.
LEMMA Narrows ==
    ASSUME KeysInv, SessionsStay, now \in Nat, now' \in Nat, now' >= now, keys' \in [Keys -> KeyRow],
           \A s \in Sessions : sessions[s] # NoKeySession /\ sessions'[s].live
                               => AuthorityKept(keys[sessions[s].id.key], keys'[sessions[s].id.key])
    PROVE  SessionsNarrow
<1> SUFFICES ASSUME NEW s \in Sessions, sessions[s] # NoKeySession
    PROVE SessionScopes(s)' \subseteq SessionScopes(s)
    BY DEF SessionsNarrow
<1> DEFINE i == sessions[s].id
           e == keys[i.key]
           r == keys'[i.key]
<1>1. sessions[s] = [id |-> i, live |-> sessions[s].live] /\ Known(keys, i)
    BY DEF KeysInv, SessionsKnown
<1>2. sessions'[s].id = i /\ (sessions'[s].live => sessions[s].live)
    BY <1>1 DEF SessionsStay
<1>3. e \in KeyRow /\ r \in KeyRow
    BY <1>1 DEF Known, KeysInv, KeysType
<1>4. CASE ~sessions'[s].live
    BY <1>2, <1>4 DEF SessionScopes
<1>5. CASE sessions'[s].live
    <2>1. AuthorityKept(e, r)
        BY <1>5
    <2>2. i.version \in 1 .. e.version
        BY <1>1, <1>3 DEF Known, KeyRow
    <2>3. e.expires \in Nat /\ e.ovUntil \in Nat /\ r.ovUntil \in Nat
        BY <1>3 DEF KeyRow
    <2>4. SessionScopes(s) = IF sessions[s].live /\ e.status = "active" /\ e.expires > now
             /\ (i.version = e.version \/ (i.version = e.overlap /\ e.ovUntil > now))
             THEN i.values \cap e.values ELSE {}
        BY DEF SessionScopes
    <2>5. SessionScopes(s)' = IF sessions'[s].live /\ r.status = "active" /\ r.expires > now'
             /\ (i.version = r.version \/ (i.version = r.overlap /\ r.ovUntil > now'))
             THEN i.values \cap r.values ELSE {}
        BY <1>2 DEF SessionScopes
    <2> HIDE DEF i, e, r
    <2> QED BY <1>2, <2>1, <2>2, <2>3, <2>4, <2>5 DEF AuthorityKept
<1> QED BY <1>4, <1>5

\* A row that is not written keeps its authority.
LEMMA SameRow == \A e : AuthorityKept(e, e)
BY DEF AuthorityKept

-----------------------------------------------------------------------------
(* Steps that write one key                                                  *)

\* One key is written: it fits, the limits hold, and its sessions end or keep
\* the authority they had.
LEMMA OneKeyStep ==
    ASSUME KeysInv, NEW k \in Keys, NEW row \in KeyRow, RowShape(row), RowFits(row, policy[row.owner]),
           keys' = [keys EXCEPT ![k] = row],
           UNCHANGED <<now, policy, orgActive, published, pending>>, SessionsStay, CountsWithin',
           keys[k].family = "management" =>
               /\ row.family = "management" /\ row.version >= keys[k].version
               /\ \/ AuthorityKept(keys[k], row)
                  \/ \A s \in Sessions : sessions[s] # NoKeySession /\ sessions[s].id.key = k => ~sessions'[s].live
    PROVE  KeysInv' /\ SessionsNarrow
<1>1. keys \in [Keys -> KeyRow] /\ keys' \in [Keys -> KeyRow] /\ now \in Nat /\ now' = now
    BY DEF KeysInv, KeysType
<1>2. \A j \in Keys : keys'[j] = IF j = k THEN row ELSE keys[j]
    BY <1>1
<1>3. \A j \in Keys : keys[j].version \in Nat
    BY <1>1 DEF KeyRow
<1>4. \A j \in Keys : keys[j].family = "management" =>
          keys'[j].family = "management" /\ keys'[j].version >= keys[j].version
    BY <1>2, <1>3
<1>5. KeysType'
    BY <1>1 DEF KeysInv, KeysType, SessionsStay
<1>6. RowsFit' /\ PolicyShape(policy["org"])'
    <2>1. policy' = policy /\ PolicyShape(policy["org"])
        BY DEF KeysInv
    <2>2. ASSUME NEW j \in Keys  PROVE RowShape(keys'[j]) /\ RowFits(keys'[j], policy'[keys'[j].owner])
        BY <1>2, <2>1 DEF KeysInv, RowsFit
    <2> QED BY <2>1, <2>2 DEF RowsFit
<1>7. PublishedBehind'
    BY <1>1, <1>4, SnapshotKept
<1>8. SessionsKnown'
    BY <1>1, <1>4, SessionsKept
<1>9. KeysInv'
    BY <1>5, <1>6, <1>7, <1>8 DEF KeysInv
<1>10. ASSUME NEW s \in Sessions, sessions[s] # NoKeySession, sessions'[s].live
       PROVE AuthorityKept(keys[sessions[s].id.key], keys'[sessions[s].id.key])
    <2>1. sessions[s].id.key \in Keys /\ keys[sessions[s].id.key].family = "management"
        BY <1>10 DEF KeysInv, SessionsKnown, Known
    <2>2. CASE sessions[s].id.key = k
        BY <1>2, <1>10, <2>1, <2>2
    <2>3. CASE sessions[s].id.key # k
        BY <1>2, <2>1, <2>3, SameRow
    <2> QED BY <2>2, <2>3
<1>11. SessionsNarrow
    <2>1. now' \in Nat /\ now' >= now
        BY <1>1
    <2> QED BY <1>1, <1>10, <2>1, Narrows
<1> QED BY <1>9, <1>11

\* Sessions that are left alone, and sessions of some keys that are revoked.
LEMMA SessionsLeft ==
    ASSUME KeysInv
    PROVE  /\ sessions' = sessions => SessionsStay
           /\ \A ks : sessions' = RevokeSessionsOf(ks) =>
                 /\ SessionsStay
                 /\ \A s \in Sessions : sessions[s] # NoKeySession /\ sessions[s].id.key \in ks => ~sessions'[s].live
<1>1. sessions' = sessions => SessionsStay
    BY DEF SessionsStay, KeysInv, KeysType
<1>2. ASSUME NEW ks, sessions' = RevokeSessionsOf(ks)
      PROVE /\ SessionsStay
            /\ \A s \in Sessions : sessions[s] # NoKeySession /\ sessions[s].id.key \in ks => ~sessions'[s].live
    <2>1. SessionsStay
        BY <1>2 DEF SessionsStay, RevokeSessionsOf
    <2>2. ASSUME NEW s \in Sessions, sessions[s] # NoKeySession, sessions[s].id.key \in ks  PROVE ~sessions'[s].live
        <3>1. sessions[s] = [id |-> sessions[s].id, live |-> sessions[s].live]
            BY <2>2 DEF KeysInv, SessionsKnown
        <3>2. sessions'[s] = [sessions[s] EXCEPT !.live = FALSE]
            BY <1>2, <2>2 DEF RevokeSessionsOf
        <3> QED BY <3>1, <3>2
    <2> QED BY <2>1, <2>2
<1> QED BY <1>1, <1>2

\* The times a request may name are numbers.
LEMMA ExpiriesTyped == now \in Nat => Expiries \subseteq Nat
BY KeysAssumption DEF Expiries

\* create_management_key
LEMMA CreateManagementPreserves ==
    ASSUME KeysInv, NEW c \in Classes, NEW k \in Keys, NEW o \in Owners, NEW values \in Requested,
           NEW expires \in Expiries, CreateManagementKey(c, k, o, values, expires)
    PROVE  KeysInv' /\ SessionsNarrow
<1> DEFINE p == policy[o]
           x == EffectiveExpiry(p, "management", c, expires, now)
           row == FreshKey("management", o, c, values, x, 0, 0)
<1>1. now \in Nat /\ p \in PolicyRows /\ expires \in Nat /\ values \in SUBSET Values
    BY ExpiriesTyped, KeysAssumption DEF KeysInv, KeysType
<1>2. Days(p, "management", c) \in Nat
    BY <1>1, LimitsTyped DEF Families
<1>3. x \in Nat /\ x <= now + Days(p, "management", c)
    BY <1>1, <1>2 DEF EffectiveExpiry, Min2
<1>4. c = "member" => o = "org"
    BY DEF CreateManagementKey
<1>5. /\ keys' = [keys EXCEPT ![k] = row] /\ keys[k].family = "none"
      /\ values \subseteq Allowed(p, "management", c) /\ RoomFor(o, "management", c)
      /\ UNCHANGED <<now, policy, orgActive, published, pending>> /\ sessions' = sessions
    BY DEF CreateManagementKey, FitsDestination
<1> HIDE DEF x, p
<1>6. /\ row \in KeyRow /\ RowShape(row) /\ row.family = "management" /\ row.owner = o /\ row.class = c
      /\ row.values = values /\ row.expires = x /\ row.created = now /\ row.overlap = 0
    BY <1>1, <1>3, <1>4, FreshRow DEF Families
<1> HIDE DEF row
<1>7. RowFits(row, policy[row.owner])
    BY <1>3, <1>5, <1>6 DEF RowFits, p
<1>8. CountsWithin'
    BY <1>5, <1>6, OneMore
<1>9. SessionsStay
    BY <1>5, SessionsLeft
<1> QED BY <1>5, <1>6, <1>7, <1>8, <1>9, OneKeyStep

\* update_management_key
LEMMA UpdateManagementPreserves ==
    ASSUME KeysInv, NEW k \in Keys, NEW values \in Requested, NEW status \in KeyStatuses,
           NEW expires \in Nat, UpdateManagementKey(k, values, status, expires)
    PROVE  KeysInv' /\ SessionsNarrow
<1> DEFINE e == keys[k]
           p == policy[e.owner]
           x == EffectiveExpiry(p, "management", e.class, expires, e.created)
           row == [e EXCEPT !.values = values, !.status = status, !.expires = x]
<1>1. /\ now \in Nat /\ e \in KeyRow /\ RowShape(e) /\ values \in SUBSET Values /\ RowFits(e, p)
      /\ policy \in [Owners -> PolicyRows]
    BY KeysAssumption DEF KeysInv, KeysType, RowsFit
<1>2. /\ e.owner \in Owners /\ e.class \in Classes /\ e.created \in Nat /\ e.version \in Nat
      /\ p \in PolicyRows
    BY <1>1 DEF KeyRow
<1>3. Days(p, "management", e.class) \in Nat
    BY <1>2, LimitsTyped DEF Families
<1>4. x \in Nat /\ x <= e.created + Days(p, "management", e.class)
    BY <1>2, <1>3 DEF EffectiveExpiry, Min2
<1>5. /\ keys' = [keys EXCEPT ![k] = row] /\ e.family = "management"
      /\ values \subseteq Allowed(p, "management", e.class)
      /\ e.status = "revoked" => status = "revoked"
      /\ (~Available(k) /\ row.status = "active" /\ row.expires > now) => RoomFor(e.owner, "management", e.class)
      /\ sessions' = IF EndsSessions(e, row) THEN RevokeSessionsOf({k}) ELSE sessions
      /\ UNCHANGED <<now, policy, orgActive, published, pending>>
    BY DEF UpdateManagementKey, FitsDestination
<1> HIDE DEF x
<1>6. row \in KeyRow
    BY <1>1, <1>4 DEF KeyRow
<1>7. /\ row.family = e.family /\ row.owner = e.owner /\ row.class = e.class /\ row.values = values
      /\ row.status = status /\ row.expires = x /\ row.created = e.created /\ row.version = e.version
      /\ row.overlap = e.overlap /\ row.ovFrom = e.ovFrom /\ row.ovUntil = e.ovUntil
    BY <1>1 DEF KeyRow
<1> HIDE DEF row
<1>8. RowShape(row)
    BY <1>1, <1>5, <1>7 DEF RowShape
<1>9. RowFits(row, policy[row.owner])
    BY <1>1, <1>4, <1>5, <1>7 DEF RowFits
<1>10. CountsWithin'
    <2>1. CASE Available(k) \/ ~(row.status = "active" /\ row.expires > now)
        <3>1. \A j \in Keys : keys'[j] = IF j = k THEN row ELSE keys[j]
            BY <1>5 DEF KeysInv, KeysType
        <3> QED BY <1>5, <1>7, <2>1, <3>1, NoneMore DEF Available
    <2>2. CASE ~Available(k) /\ row.status = "active" /\ row.expires > now
        BY <1>5, <1>6, <1>7, <2>2, OneMore
    <2> QED BY <2>1, <2>2
<1>11. SessionsStay /\ (EndsSessions(e, row) => \A s \in Sessions : sessions[s] # NoKeySession /\ sessions[s].id.key = k => ~sessions'[s].live)
    BY <1>5, SessionsLeft
<1>12. \/ AuthorityKept(e, row)
       \/ \A s \in Sessions : sessions[s] # NoKeySession /\ sessions[s].id.key = k => ~sessions'[s].live
    <2>1. CASE EndsSessions(e, row)
        BY <1>11, <2>1
    <2>2. CASE ~EndsSessions(e, row)
        BY <1>7, <2>2 DEF AuthorityKept, EndsSessions
    <2> QED BY <2>1, <2>2
<1>13. row.family = "management" /\ row.version >= e.version
    BY <1>2, <1>5, <1>7
<1>14. SessionsStay
    BY <1>11
<1> QED BY <1>5, <1>6, <1>8, <1>9, <1>10, <1>12, <1>13, <1>14, OneKeyStep


\* A rotated key that is active stays within the policy; its sessions lose the
\* earlier overlap and keep the current secret only while it overlaps.
LEMMA RotatePreserves ==
    ASSUME KeysInv, NEW k \in Keys, NEW length \in Nat, NEW from \in Nat,
           keys[k].family \in Families, keys' = [keys EXCEPT ![k] = Rotated(keys[k], length, from)],
           keys[k].family = "management" =>
               length <= Overlap(policy[keys[k].owner], "management", keys[k].class) /\ from = now,
           UNCHANGED <<now, policy, orgActive, published, sessions, pending>>
    PROVE  KeysInv' /\ SessionsNarrow
<1> DEFINE e == keys[k]
           p == policy[e.owner]
           row == Rotated(e, length, from)
           n == Overlap(p, e.family, e.class)
<1>1. /\ now \in Nat /\ e \in KeyRow /\ RowShape(e) /\ RowFits(e, p)
      /\ policy \in [Owners -> PolicyRows]
    BY DEF KeysInv, KeysType, RowsFit
<1>2. /\ e.owner \in Owners /\ e.class \in Classes /\ e.version \in Nat /\ p \in PolicyRows
    BY <1>1 DEF KeyRow
<1>3. n \in Nat
    BY <1>2, LimitsTyped
<1>4. /\ row \in KeyRow /\ RowShape(row)
      /\ row.family = e.family /\ row.owner = e.owner /\ row.class = e.class
      /\ row.values = e.values /\ row.status = e.status /\ row.expires = e.expires
      /\ row.created = e.created /\ row.budget = e.budget /\ row.inForce = e.inForce /\ row.version = e.version + 1
      /\ row.overlap = (IF length = 0 THEN 0 ELSE e.version)
      /\ row.overlap # 0 => row.ovFrom = from /\ row.ovUntil = now + length
    BY <1>1, RotatedRow
<1>5. keys' = [keys EXCEPT ![k] = row]
    OBVIOUS
<1>6. e.family = "management" => length <= n /\ from = now
    OBVIOUS
<1> HIDE DEF row, n
<1>7. RowFits(row, policy[row.owner])
    <2>1. e.family = "management" /\ row.overlap # 0 => row.ovUntil <= row.ovFrom + n
        BY <1>1, <1>3, <1>4, <1>6
    <2> QED BY <1>1, <1>4, <2>1 DEF RowFits, n
<1>8. CountsWithin'
    <2>1. \A j \in Keys : keys'[j] = IF j = k THEN row ELSE keys[j]
        BY <1>5 DEF KeysInv, KeysType
    <2> QED BY <1>4, <2>1, NoneMore
<1>9. SessionsStay
    BY SessionsLeft
<1>10. AuthorityKept(e, row)
    BY <1>2, <1>4 DEF AuthorityKept
<1>11. e.family = "management" => row.family = "management" /\ row.version >= e.version
    BY <1>2, <1>4
<1> QED BY <1>4, <1>5, <1>7, <1>8, <1>9, <1>10, <1>11, OneKeyStep

\* create_gateway_api_key
LEMMA CreateGatewayPreserves ==
    ASSUME KeysInv, NEW c \in Classes, NEW k \in Keys, NEW values \in Requested,
           NEW expires \in Expiries, NEW budget \in Budgets, NEW direct \in BOOLEAN,
           CreateGatewayKey(c, k, values, expires, budget, direct)
    PROVE  KeysInv' /\ SessionsNarrow
<1> DEFINE p == policy["org"]
           x == Min2(expires, now + p["gateway"][c].days)
           first == InForce(direct, budget, 0)
           row == FreshKey("gateway", "org", c, values, x, budget, first)
<1>1. /\ now \in Nat /\ p \in PolicyRows /\ expires \in Nat /\ values \in SUBSET Values
      /\ budget \in Nat /\ PolicyShape(p) /\ "org" \in Owners
    BY ExpiriesTyped, KeysAssumption DEF KeysInv, KeysType, Owners
<1>2. p["gateway"][c] \in Section
    BY <1>1, LimitsTyped DEF Families
<1>3. /\ x \in Nat /\ p["gateway"][c].budget \in Nat
      /\ first \in Nat /\ (first = 0 \/ first = budget)
    BY <1>1, <1>2 DEF Section, Min2, InForce
<1>4. /\ keys' = [keys EXCEPT ![k] = row] /\ keys[k].family = "none"
      /\ p["gateway"][c].on /\ values \subseteq p["gateway"][c].values /\ budget <= p["gateway"][c].budget
      /\ UNCHANGED <<now, policy, orgActive, published, pending>> /\ sessions' = sessions
    BY DEF CreateGatewayKey, FitsGateway
<1>5. values \subseteq Allowed(p, "gateway", c)
    BY <1>1, <1>4, GatewaySectionEffective
<1> HIDE DEF x, p, first
<1>6. /\ row \in KeyRow /\ RowShape(row) /\ row.family = "gateway" /\ row.owner = "org" /\ row.class = c
      /\ row.values = values /\ row.budget = budget /\ row.inForce = first
    BY <1>1, <1>3, FreshRow DEF Families
<1> HIDE DEF row
<1>7. RowFits(row, policy[row.owner])
    <2>1. row.inForce <= p["gateway"][c].budget
        BY <1>1, <1>3, <1>4, <1>6
    <2> QED BY <1>4, <1>5, <1>6, <2>1 DEF RowFits, p
<1>8. CountsWithin'
    <2>1. \A j \in Keys : keys'[j] = IF j = k THEN row ELSE keys[j]
        BY <1>4 DEF KeysInv, KeysType
    <2> QED BY <1>4, <1>6, <2>1, NoneMore
<1>9. SessionsStay
    BY <1>4, SessionsLeft
<1> QED BY <1>4, <1>6, <1>7, <1>8, <1>9, OneKeyStep

\* update_gateway_api_key: what the policy is not asked about does not grow.
LEMMA UpdateGatewayPreserves ==
    ASSUME KeysInv, NEW k \in Keys, NEW values \in Requested, NEW status \in KeyStatuses,
           NEW expires \in Nat, UpdateGatewayKey(k, values, status, expires)
    PROVE  KeysInv' /\ SessionsNarrow
<1> DEFINE e == keys[k]
           p == policy["org"]
           row == [e EXCEPT !.values = values, !.status = status, !.expires = expires]
<1>1. /\ now \in Nat /\ e \in KeyRow /\ RowShape(e) /\ values \in SUBSET Values
      /\ RowFits(e, policy[e.owner]) /\ p \in PolicyRows /\ PolicyShape(p)
    BY KeysAssumption DEF KeysInv, KeysType, RowsFit, Owners
<1>2. /\ keys' = [keys EXCEPT ![k] = row] /\ e.family = "gateway" /\ sessions' = sessions
      /\ e.status = "revoked" => status = "revoked"
      /\ ~(values \subseteq e.values) => FitsGateway(p, e.class, values, expires, e.created, BudgetLimit(e))
      /\ UNCHANGED <<now, policy, orgActive, published, pending>>
    BY DEF UpdateGatewayKey
<1>3. e.owner = "org" /\ e.class \in Classes
    BY <1>1, <1>2 DEF RowShape, KeyRow
<1>4. ~(values \subseteq e.values) => values \subseteq Allowed(p, "gateway", e.class)
    BY <1>1, <1>2, <1>3, GatewaySectionEffective DEF FitsGateway
<1>5. row \in KeyRow
    BY <1>1 DEF KeyRow
<1>6. /\ row.family = e.family /\ row.owner = e.owner /\ row.class = e.class /\ row.values = values
      /\ row.status = status /\ row.budget = e.budget /\ row.inForce = e.inForce
      /\ row.version = e.version /\ row.overlap = e.overlap
    BY <1>1 DEF KeyRow
<1> HIDE DEF row
<1>7. RowShape(row)
    BY <1>1, <1>2, <1>6 DEF RowShape
<1>8. RowFits(row, policy[row.owner])
    BY <1>1, <1>2, <1>3, <1>4, <1>6 DEF RowFits
<1>9. CountsWithin'
    <2>1. \A j \in Keys : keys'[j] = IF j = k THEN row ELSE keys[j]
        BY <1>2 DEF KeysInv, KeysType
    <2> QED BY <1>2, <1>6, <2>1, NoneMore
<1>10. SessionsStay
    BY <1>2, SessionsLeft
<1> QED BY <1>2, <1>5, <1>7, <1>8, <1>9, <1>10, OneKeyStep

\* A row that differs in its budget alone.
BudgetOf(e, row, budget, inForce) ==
    /\ row \in KeyRow /\ row.budget = budget /\ row.inForce = inForce
    /\ row.family = e.family /\ row.owner = e.owner /\ row.class = e.class /\ row.values = e.values
    /\ row.status = e.status /\ row.expires = e.expires /\ row.created = e.created
    /\ row.version = e.version /\ row.overlap = e.overlap /\ row.ovFrom = e.ovFrom
    /\ row.ovUntil = e.ovUntil

\* A change of a gateway key's budget touches nothing a session depends on.
LEMMA BudgetPreserves ==
    ASSUME KeysInv, NEW k \in Keys, NEW budget \in Nat, NEW inForce \in Nat, NEW row,
           keys[k].family = "gateway", BudgetOf(keys[k], row, budget, inForce),
           keys' = [keys EXCEPT ![k] = row],
           UNCHANGED <<now, policy, orgActive, published, sessions, pending>>,
           keys[k].status # "revoked" =>
               /\ budget <= policy["org"]["gateway"][keys[k].class].budget
               /\ inForce <= policy["org"]["gateway"][keys[k].class].budget
    PROVE  KeysInv' /\ SessionsNarrow
<1> DEFINE e == keys[k]
<1>1. /\ e \in KeyRow /\ RowShape(e) /\ RowFits(e, policy[e.owner]) /\ e.owner = "org"
    BY DEF KeysInv, KeysType, RowsFit, RowShape
<1>2. row \in KeyRow
    BY DEF BudgetOf
<1>3. /\ row.family = e.family /\ row.owner = e.owner /\ row.class = e.class /\ row.values = e.values
      /\ row.status = e.status /\ row.expires = e.expires /\ row.created = e.created
      /\ row.version = e.version /\ row.overlap = e.overlap /\ row.ovFrom = e.ovFrom
      /\ row.ovUntil = e.ovUntil /\ row.budget = budget /\ row.inForce = inForce
    BY DEF BudgetOf
<1>4. RowShape(row)
    BY <1>1, <1>3 DEF RowShape
<1>5. RowFits(row, policy[row.owner])
    BY <1>1, <1>3 DEF RowFits
<1>6. CountsWithin'
    <2>1. \A j \in Keys : keys'[j] = IF j = k THEN row ELSE keys[j]
        BY DEF KeysInv, KeysType
    <2> QED BY <1>3, <2>1, NoneMore
<1>7. SessionsStay
    BY SessionsLeft
<1> QED BY <1>2, <1>3, <1>4, <1>5, <1>6, <1>7, OneKeyStep

\* update_gateway_key_budget and begin_gateway_key_budget_epoch.
LEMMA UpdateBudgetPreserves ==
    ASSUME KeysInv, NEW k \in Keys, NEW budget \in Budgets, NEW direct \in BOOLEAN,
           UpdateGatewayKeyBudget(k, budget, direct)
    PROVE  KeysInv' /\ SessionsNarrow
<1> DEFINE e == keys[k]
           next == InForce(direct, budget, e.inForce)
           row == [e EXCEPT !.budget = budget, !.inForce = next]
<1>1. /\ e \in KeyRow /\ RowShape(e) /\ RowFits(e, policy[e.owner]) /\ budget \in Nat
    BY KeysAssumption DEF KeysInv, KeysType, RowsFit
<1>2. /\ e.family = "gateway" /\ budget <= policy["org"]["gateway"][e.class].budget
      /\ keys' = [keys EXCEPT ![k] = row]
      /\ UNCHANGED <<now, policy, orgActive, published, sessions, pending>>
    BY DEF UpdateGatewayKeyBudget
<1>3. next \in Nat /\ (next = budget \/ next = e.inForce)
    BY <1>1 DEF InForce, KeyRow
<1> HIDE DEF next
<1>4. e.status # "revoked" => next <= policy["org"]["gateway"][e.class].budget
    BY <1>1, <1>2, <1>3 DEF RowFits, RowShape
<1>5. BudgetOf(e, row, budget, next)
    BY <1>1, <1>3 DEF BudgetOf, KeyRow
<1> HIDE DEF row
<1> QED BY <1>1, <1>2, <1>3, <1>4, <1>5, BudgetPreserves

\* The desired version is put in force: it fitted when the policy last changed.
LEMMA ActivateBudgetPreserves ==
    ASSUME KeysInv, NEW k \in Keys, ActivateGatewayBudget(k)
    PROVE  KeysInv' /\ SessionsNarrow
<1> DEFINE e == keys[k]
           row == [e EXCEPT !.inForce = e.budget]
<1>1. /\ keys \in [Keys -> KeyRow] /\ e \in KeyRow /\ RowShape(e) /\ RowFits(e, policy[e.owner])
      /\ e.budget \in Nat
    BY DEF KeysInv, KeysType, RowsFit, KeyRow
<1>2. /\ e.family = "gateway" /\ keys' = [keys EXCEPT ![k] = row]
      /\ UNCHANGED <<now, policy, orgActive, published, sessions, pending>>
    BY <1>1 DEF ActivateGatewayBudget
<1>3. BudgetOf(e, row, e.budget, e.budget)
    BY <1>1 DEF BudgetOf, KeyRow
<1> HIDE DEF row
<1>4. e.status # "revoked" => e.budget <= policy["org"]["gateway"][e.class].budget
    BY <1>1, <1>2 DEF RowFits, RowShape
<1> QED BY <1>1, <1>2, <1>3, <1>4, BudgetPreserves

-----------------------------------------------------------------------------
(* Policy updates                                                            *)

\* A policy update cuts every key of its owner.
LEMMA PolicyPreserves ==
    ASSUME KeysInv, NEW o \in Owners, NEW p \in PolicyRows, o = "org" => PolicyShape(p),
           CountsFit(ClampAll(o, p), o, p), o = "org" => BudgetsFit(ClampAll(o, p), p),
           keys' = ClampAll(o, p), sessions' = ClampedSessions(ClampAll(o, p)),
           policy' = [policy EXCEPT ![o] = p],
           UNCHANGED <<now, orgActive, published, pending>>
    PROVE  KeysInv' /\ SessionsNarrow
<1> DEFINE clamped == ClampAll(o, p)
           cut == {k \in Keys : keys[k].family = "management" /\ EndsSessions(keys[k], clamped[k])}
           Cuts(k) == keys[k].family # "none" /\ keys[k].owner = o
<1>1. /\ now \in Nat /\ now' = now /\ keys \in [Keys -> KeyRow] /\ policy \in [Owners -> PolicyRows]
    BY DEF KeysInv, KeysType
<1>2. \A k \in Keys : keys[k] \in KeyRow /\ RowShape(keys[k]) /\ RowFits(keys[k], policy[keys[k].owner])
    BY <1>1 DEF KeysInv, RowsFit
<1>3. \A k \in Keys : keys'[k] = IF Cuts(k) THEN Clamp(keys[k], p) ELSE keys[k]
    BY DEF ClampAll
<1>4. ASSUME NEW k \in Keys, Cuts(k)
      PROVE  /\ keys'[k] \in KeyRow /\ RowShape(keys'[k])
             /\ keys'[k].family = keys[k].family /\ keys'[k].owner = o
             /\ keys'[k].class = keys[k].class /\ keys'[k].version = keys[k].version
             /\ keys'[k].created = keys[k].created /\ keys'[k].budget = keys[k].budget /\ keys'[k].inForce = keys[k].inForce
             /\ keys'[k].status # "revoked" => keys'[k].values \subseteq Allowed(p, keys[k].family, keys[k].class)
             /\ keys'[k].expires <= keys'[k].created + Days(p, keys[k].family, keys[k].class)
             /\ keys'[k].overlap # 0 =>
                   /\ keys'[k].overlap = keys[k].overlap /\ keys'[k].ovUntil <= keys[k].ovUntil
                   /\ keys'[k].ovUntil <= keys'[k].ovFrom + Overlap(p, keys[k].family, keys[k].class)
    <2>1. keys[k].family \in Families /\ keys[k].owner = o
        BY <1>2, <1>4 DEF KeyRow
    <2>2. keys'[k] = Clamp(keys[k], p)
        BY <1>3, <1>4
    <2> QED BY <1>1, <1>2, <2>1, <2>2, ClampedRow
<1>5. /\ keys' \in [Keys -> KeyRow]
      /\ \A k \in Keys : RowShape(keys'[k])
      /\ \A k \in Keys : keys'[k].family = keys[k].family /\ keys'[k].owner = keys[k].owner
                         /\ keys'[k].class = keys[k].class /\ keys'[k].version = keys[k].version
    <2>1. \A k \in Keys : /\ keys'[k] \in KeyRow /\ RowShape(keys'[k])
                          /\ keys'[k].family = keys[k].family /\ keys'[k].owner = keys[k].owner
                          /\ keys'[k].class = keys[k].class /\ keys'[k].version = keys[k].version
        BY <1>2, <1>3, <1>4
    <2>2. keys' = [k \in Keys |-> keys'[k]]
        BY DEF ClampAll
    <2> QED BY <2>1, <2>2
<1>6. \A q \in Owners : policy'[q] = IF q = o THEN p ELSE policy[q]
    BY <1>1
<1>7. sessions' = RevokeSessionsOf(cut)
    BY DEF ClampedSessions
<1>8. SessionsStay /\ \A s \in Sessions : sessions[s] # NoKeySession /\ sessions[s].id.key \in cut => ~sessions'[s].live
    BY <1>7, SessionsLeft
<1>9. o = "org" => \A k \in Keys : keys'[k].family = "gateway" /\ keys'[k].status # "revoked" =>
                       \A limit \in {keys'[k].budget, keys'[k].inForce} :
                           limit <= Min2(p["gateway"]["standard"].budget, p["gateway"][keys'[k].class].budget)
    BY DEF BudgetsFit
<1>10. /\ CountOf(keys, o, "management", Classes)' <= p["management"]["standard"].keys
       /\ o = "org" => CountOf(keys, o, "management", {"member"})'
                         <= Min2(p["management"]["standard"].keys, p["management"]["member"].keys)
    BY <1>1 DEF CountsFit, CountOf
<1>11. \A k \in Keys : keys[k].version \in Nat /\ keys'[k].version \in Nat /\ keys'[k].expires \in Nat
    BY <1>1, <1>5 DEF KeyRow
<1>12. \A k \in Keys : k \notin cut /\ keys[k].family = "management" => ~EndsSessions(keys[k], keys'[k])
    OBVIOUS
<1>13. PolicyShape(policy'["org"])
    BY <1>6 DEF KeysInv, Owners
<1>14. o \in {"deployment", "org"}
    BY DEF Owners
<1> HIDE DEF clamped, cut
<1>15. KeysType'
    BY <1>1, <1>5, <1>8 DEF KeysInv, KeysType, SessionsStay
<1>16. ASSUME NEW k \in Keys  PROVE RowFits(keys'[k], policy'[keys'[k].owner])
    <2>1. CASE Cuts(k)
        <3>1. policy'[keys'[k].owner] = p
            BY <1>4, <1>6, <2>1
        <3>2. keys[k].family \in Families /\ keys[k].class \in Classes
            BY <1>2, <2>1 DEF KeyRow
        <3>3. p["gateway"]["standard"] \in Section /\ p["gateway"][keys[k].class] \in Section
            BY <3>2 DEF PolicyRows, Families, Classes
        <3>4. p["gateway"]["standard"].budget \in Nat /\ p["gateway"][keys[k].class].budget \in Nat
            BY <3>3 DEF Section
        <3>5. Min2(p["gateway"]["standard"].budget, p["gateway"][keys[k].class].budget) <= p["gateway"][keys[k].class].budget
              /\ Min2(p["gateway"]["standard"].budget, p["gateway"][keys[k].class].budget) \in Nat
            BY <3>4, SmallerLimit
        <3>6. keys[k].family = "gateway" => o = "org"
            BY <1>2, <2>1 DEF RowShape
        <3>7. keys'[k].budget \in Nat /\ keys'[k].inForce \in Nat
            BY <1>4, <2>1 DEF KeyRow
        <3>8. keys'[k].family = "gateway" /\ keys'[k].status # "revoked" =>
                  /\ keys'[k].budget <= p["gateway"][keys'[k].class].budget
                  /\ keys'[k].inForce <= p["gateway"][keys'[k].class].budget
            BY <1>4, <1>9, <2>1, <3>4, <3>5, <3>6, <3>7
        <3> QED BY <1>4, <2>1, <3>1, <3>8 DEF RowFits
    <2>2. CASE keys[k].family = "none"
        BY <1>2, <1>3, <2>2 DEF RowShape, RowFits
    <2>3. CASE keys[k].owner # o
        <3>1. keys'[k] = keys[k] /\ policy'[keys[k].owner] = policy[keys[k].owner]
            BY <1>2, <1>3, <1>6, <2>3 DEF KeyRow
        <3> QED BY <1>2, <3>1
    <2> QED BY <2>1, <2>2, <2>3
<1>17. CountsWithin'
    <2> SUFFICES ASSUME NEW q \in Owners
        PROVE /\ CountOf(keys, q, "management", Classes)' <= policy'[q]["management"]["standard"].keys
              /\ CountOf(keys, q, "management", {"member"})' <= policy'[q]["management"]["member"].keys
        BY DEF CountsWithin
    <2>1. CASE q # o
        <3>1. \A cs : CountOf(keys, q, "management", cs)' = CountOf(keys, q, "management", cs)
            <4> SUFFICES ASSUME NEW cs
                PROVE CountOf(keys, q, "management", cs)' = CountOf(keys, q, "management", cs)
                OBVIOUS
            <4>1. Counted(keys', now', q, "management", cs) = Counted(keys, now, q, "management", cs)
                BY <1>1, <1>3, <1>5, <2>1 DEF Counted
            <4> QED BY <4>1 DEF CountOf, Counted
        <3>2. /\ CountOf(keys, q, "management", Classes)' = CountOf(keys, q, "management", Classes)
              /\ CountOf(keys, q, "management", {"member"})' = CountOf(keys, q, "management", {"member"})
            BY <3>1
        <3> QED BY <1>6, <2>1, <3>2 DEF KeysInv, CountsWithin
    <2>2. CASE q = o
        <3>1. p["management"]["standard"] \in Section /\ p["management"]["member"] \in Section
            BY DEF PolicyRows, Families, Classes
        <3> DEFINE a == p["management"]["standard"].keys
                   b == p["management"]["member"].keys
        <3>2. a \in Nat /\ b \in Nat
            BY <3>1 DEF Section
        <3>3. Min2(a, b) <= b /\ Min2(a, b) \in Nat
            BY <3>2, SmallerLimit
        <3>4. CASE o = "org"
            <4>1. Counted(keys', now', o, "management", {"member"}) \in SUBSET Keys
                BY DEF Counted
            <4>2. Cardinality(Counted(keys', now', o, "management", {"member"})) \in Nat
                BY <4>1, CountedBounds
            <4>3. CountOf(keys, o, "management", {"member"})' \in Nat
                BY <4>2 DEF CountOf, Counted
            <4> QED BY <1>6, <1>10, <2>2, <3>2, <3>3, <3>4, <4>3
        <3>5. CASE o = "deployment"
            <4>1. Counted(keys', now', o, "management", {"member"}) = {}
                BY <1>5, <3>5 DEF Counted, RowShape
            <4>2. Cardinality(Counted(keys', now', o, "management", {"member"})) = 0
                BY <4>1, FS_EmptySet
            <4>3. CountOf(keys, o, "management", {"member"})' = 0
                BY <4>2 DEF CountOf, Counted
            <4> QED BY <1>6, <1>10, <2>2, <3>2, <4>3
        <3> QED BY <1>14, <3>4, <3>5
    <2> QED BY <2>1, <2>2
<1>18. \A k \in Keys : keys[k].family = "management" =>
           keys'[k].family = "management" /\ keys'[k].version >= keys[k].version
    BY <1>5, <1>11
<1>19. PublishedBehind' /\ SessionsKnown'
    BY <1>5, <1>8, <1>18, SnapshotKept, SessionsKept
<1>20. KeysInv'
    BY <1>5, <1>13, <1>15, <1>16, <1>17, <1>19 DEF KeysInv, RowsFit
<1>21. ASSUME NEW s \in Sessions, sessions[s] # NoKeySession, sessions'[s].live
       PROVE AuthorityKept(keys[sessions[s].id.key], keys'[sessions[s].id.key])
    <2> DEFINE k == sessions[s].id.key
    <2>1. k \in Keys /\ keys[k].family = "management"
        BY <1>21 DEF KeysInv, SessionsKnown, Known
    <2>2. k \notin cut
        BY <1>8, <1>21
    <2> HIDE DEF k
    <2>3. ~EndsSessions(keys[k], keys'[k])
        BY <1>12, <2>1, <2>2
    <2>4. CASE Cuts(k)
        <3>1. keys'[k].ovUntil \in Nat /\ keys[k].ovUntil \in Nat
            BY <1>1, <1>5, <2>1 DEF KeyRow
        <3>2. keys'[k].version = keys[k].version
              /\ (keys'[k].overlap # 0 => keys'[k].overlap = keys[k].overlap /\ keys'[k].ovUntil <= keys[k].ovUntil)
            BY <1>4, <2>1, <2>4
        <3>3. \A v \in 1 .. keys[k].version : v = keys'[k].overlap /\ keys'[k].ovUntil > now
                  => v = keys[k].overlap /\ keys[k].ovUntil > now
            BY <1>1, <1>11, <2>1, <3>1, <3>2
        <3>4. AuthorityKept(keys[k], keys'[k])
            BY <2>3, <3>2, <3>3 DEF AuthorityKept, EndsSessions
        <3> QED BY <3>4 DEF k
    <2>5. CASE ~Cuts(k)
        BY <1>3, <2>1, <2>5, SameRow DEF k
    <2> QED BY <2>4, <2>5
<1>22. SessionsNarrow
    <2>1. now' \in Nat /\ now' >= now
        BY <1>1
    <2> QED BY <1>1, <1>5, <1>8, <1>21, <2>1, Narrows
<1> QED BY <1>20, <1>22


\* update_deployment_management_key_policy
LEMMA DeploymentPolicyPreserves ==
    ASSUME KeysInv, NEW section \in Section, UpdateDeploymentPolicy(section)
    PROVE  KeysInv' /\ SessionsNarrow
<1> DEFINE p == [policy["deployment"] EXCEPT !["management"]["standard"] = section]
<1>1. policy["deployment"] \in PolicyRows
    BY DEF KeysInv, KeysType, Owners
<1>2. p \in PolicyRows
    BY <1>1 DEF PolicyRows, Families, Classes
<1>3. /\ CountsFit(ClampAll("deployment", p), "deployment", p)
      /\ keys' = ClampAll("deployment", p) /\ sessions' = ClampedSessions(ClampAll("deployment", p))
      /\ policy' = [policy EXCEPT !["deployment"] = p]
      /\ UNCHANGED <<now, orgActive, published, pending>>
    BY DEF UpdateDeploymentPolicy
<1> HIDE DEF p
<1> QED BY <1>2, <1>3, PolicyPreserves DEF Owners

\* update_organization_api_key_policy
LEMMA OrganizationPolicyPreserves ==
    ASSUME KeysInv, NEW p \in Policies, UpdateOrganizationPolicy(p)
    PROVE  KeysInv' /\ SessionsNarrow
<1>1. p \in PolicyRows
    BY KeysAssumption DEF PolicyRows
<1>2. /\ PolicyShape(p) /\ CountsFit(ClampAll("org", p), "org", p) /\ BudgetsFit(ClampAll("org", p), p)
      /\ keys' = ClampAll("org", p) /\ sessions' = ClampedSessions(ClampAll("org", p))
      /\ policy' = [policy EXCEPT !["org"] = p]
      /\ UNCHANGED <<now, orgActive, published, pending>>
    BY DEF UpdateOrganizationPolicy
<1> QED BY <1>1, <1>2, PolicyPreserves DEF Owners

-----------------------------------------------------------------------------
(* Steps that write no key                                                   *)

\* The invariant and the narrowing need nothing else of a step that leaves the
\* keys and policies alone.
LEMMA NoKeyStep ==
    ASSUME KeysInv, UNCHANGED <<policy, keys>>, now' \in Nat, now' >= now, KeysType',
           PublishedBehind', SessionsKnown',
           \A s \in Sessions : sessions[s] # NoKeySession =>
               sessions'[s].id = sessions[s].id /\ (sessions'[s].live => sessions[s].live)
    PROVE  KeysInv' /\ SessionsNarrow
<1>1. keys \in [Keys -> KeyRow] /\ now \in Nat /\ keys' = keys /\ policy' = policy
    BY DEF KeysInv, KeysType
<1>2. \A k \in Keys : keys[k].expires \in Nat /\ keys[k].ovUntil \in Nat
    BY <1>1 DEF KeyRow
<1>3. CountsWithin'
    BY <1>1, <1>2, NoneMore
<1>4. RowsFit' /\ PolicyShape(policy'["org"])
    BY <1>1 DEF KeysInv, RowsFit
<1>5. ASSUME NEW s \in Sessions, sessions[s] # NoKeySession
      PROVE SessionScopes(s)' \subseteq SessionScopes(s)
    <2> DEFINE e == keys[sessions[s].id.key]
    <2>1. sessions[s].id.key \in Keys
        BY <1>5 DEF KeysInv, SessionsKnown, Known
    <2>2. e.expires \in Nat /\ e.ovUntil \in Nat
        BY <1>2, <2>1
    <2>3. SessionScopes(s) = IF sessions[s].live /\ e.status = "active" /\ e.expires > now
             /\ (sessions[s].id.version = e.version \/ (sessions[s].id.version = e.overlap /\ e.ovUntil > now))
             THEN sessions[s].id.values \cap e.values ELSE {}
        BY DEF SessionScopes
    <2>4. SessionScopes(s)' = IF sessions'[s].live /\ e.status = "active" /\ e.expires > now'
             /\ (sessions[s].id.version = e.version \/ (sessions[s].id.version = e.overlap /\ e.ovUntil > now'))
             THEN sessions[s].id.values \cap e.values ELSE {}
        BY <1>1, <1>5 DEF SessionScopes
    <2>5. sessions'[s].live => sessions[s].live
        BY <1>5
    <2> HIDE DEF e
    <2> QED BY <1>1, <2>2, <2>3, <2>4, <2>5
<1> QED BY <1>3, <1>4, <1>5 DEF KeysInv, SessionsNarrow

\* The snapshot is published: what it holds is what the tables hold.
LEMMA PublishPreserves ==
    ASSUME KeysInv, Publish
    PROVE  KeysInv' /\ SessionsNarrow
<1>1. keys \in [Keys -> KeyRow] /\ now \in Nat /\ policy \in [Owners -> PolicyRows]
    BY DEF KeysInv, KeysType
<1>2. ASSUME NEW k \in Keys, keys[k].family = "management"
      PROVE  /\ Verifier(k) \in KeyRow /\ Verifier(k).family = keys[k].family
             /\ Verifier(k).overlap = keys[k].overlap /\ Verifier(k).version = keys[k].version
    <2> DEFINE e == keys[k]
               vs == e.values \cap Allowed(policy[e.owner], e.family, e.class)
               st == IF vs = {} THEN "revoked" ELSE e.status
               w == [e EXCEPT !.values = vs, !.status = st]
    <2>1. e \in KeyRow
        BY <1>1
    <2>2. vs \in SUBSET Values /\ st \in KeyStatuses
        BY <2>1 DEF KeyRow, KeyStatuses
    <2>3. Verifier(k) = w
        BY DEF Verifier
    <2> HIDE DEF vs, st, e
    <2>4. w \in KeyRow
        BY <2>1, <2>2 DEF KeyRow
    <2>5. w.family = e.family /\ w.overlap = e.overlap /\ w.version = e.version
        BY <2>1 DEF KeyRow
    <2> QED BY <2>3, <2>4, <2>5 DEF e
<1>3. NoKey \in KeyRow /\ NoKey.family = "none"
    BY DEF NoKey, KeyRow, Families, Owners, Classes, KeyStatuses
<1> DEFINE P == [k \in Keys |-> IF keys[k].family = "management" THEN Verifier(k) ELSE NoKey]
<1>4. /\ published' = [keys |-> P, orgActive |-> orgActive]
      /\ UNCHANGED <<now, policy, keys, orgActive, sessions, pending>>
    BY DEF Publish
<1>5. P \in [Keys -> KeyRow]
    BY <1>2, <1>3
<1>6. \A k \in Keys : P[k].family = "management" =>
          /\ keys[k].family = "management"
          /\ P[k].overlap = keys[k].overlap /\ P[k].version = keys[k].version
    BY <1>2, <1>3
<1> HIDE DEF P
<1>7. published'.keys = P /\ DOMAIN published' = {"keys", "orgActive"}
    BY <1>4
<1>8. KeysType'
    BY <1>4, <1>5, <1>7 DEF KeysInv, KeysType
<1>9. \A k \in Keys : keys[k].overlap <= keys[k].version /\ keys[k].version \in Nat
    BY <1>1 DEF KeysInv, RowsFit, RowShape, KeyRow
<1>10. PublishedBehind'
    BY <1>4, <1>6, <1>7, <1>9 DEF PublishedBehind
<1>11. SessionsKnown'
    BY <1>4 DEF KeysInv, SessionsKnown, Known
<1> QED BY <1>1, <1>4, <1>8, <1>10, <1>11, NoKeyStep

\* update_organization
LEMMA SetOrganizationPreserves ==
    ASSUME KeysInv, NEW active \in BOOLEAN, SetOrganization(active)
    PROVE  KeysInv' /\ SessionsNarrow
<1>1. /\ SessionsStay
      /\ UNCHANGED <<now, policy, keys, published, pending>> /\ orgActive' = active
    BY SessionsLeft DEF SetOrganization
<1>2. keys \in [Keys -> KeyRow] /\ now \in Nat
    BY DEF KeysInv, KeysType
<1>3. \A k \in Keys : keys[k].version \in Nat
    BY <1>2 DEF KeyRow
<1>4. KeysType' /\ now' \in Nat /\ now' >= now
    BY <1>1, <1>2 DEF KeysInv, KeysType, SessionsStay
<1>5. \A k \in Keys : keys[k].family = "management" =>
          keys'[k].family = "management" /\ keys'[k].version >= keys[k].version
    BY <1>1, <1>3
<1>6. keys' \in [Keys -> KeyRow]
    BY <1>1, <1>2
<1>7. PublishedBehind' /\ SessionsKnown'
    BY <1>1, <1>5, <1>6, SnapshotKept, SessionsKept
<1>8. ASSUME NEW s \in Sessions, sessions[s] # NoKeySession
      PROVE sessions'[s].id = sessions[s].id /\ (sessions'[s].live => sessions[s].live)
    <2>1. sessions[s] = [id |-> sessions[s].id, live |-> sessions[s].live]
        BY <1>8 DEF KeysInv, SessionsKnown
    <2> QED BY <1>1, <2>1 DEF SessionsStay
<1> QED BY <1>1, <1>4, <1>7, <1>8, NoKeyStep

\* authenticate_management_key: the accepted secret is one the key has reached.
LEMMA AuthenticatePreserves ==
    ASSUME KeysInv, NEW c \in SessionCallers, NEW k \in Keys, NEW v \in Nat, AuthenticateKey(c, k, v)
    PROVE  KeysInv' /\ SessionsNarrow
<1> DEFINE e == published.keys[k]
<1>1. /\ e.family = "management" /\ v > 0 /\ (v = e.version \/ v = e.overlap)
      /\ pending' = [pending EXCEPT ![c] = KeyIdentity(k, v)]
      /\ UNCHANGED <<now, policy, keys, orgActive, published, sessions>>
    BY DEF AuthenticateKey, Accepts
<1>2. e \in KeyRow /\ keys[k] \in KeyRow /\ now \in Nat
    BY DEF KeysInv, KeysType
<1>3. e.version \in Nat /\ e.overlap \in Nat /\ keys[k].version \in Nat /\ e.values \subseteq Values
    BY <1>2 DEF KeyRow
<1>4. /\ keys[k].family = "management" /\ e.overlap <= e.version /\ e.version <= keys[k].version
    BY <1>1 DEF KeysInv, PublishedBehind
<1>5. Known(keys, KeyIdentity(k, v))
    BY <1>1, <1>3, <1>4 DEF Known, KeyIdentity
<1>6. SessionsKnown'
    BY <1>1, <1>5 DEF KeysInv, KeysType, SessionsKnown
<1>7. KeysType' /\ PublishedBehind' /\ now' \in Nat /\ now' >= now
    BY <1>1, <1>2 DEF KeysInv, KeysType, PublishedBehind
<1> QED BY <1>1, <1>6, <1>7, NoKeyStep

\* create_key_session: an identity that was accepted becomes a session.
LEMMA CreateSessionPreserves ==
    ASSUME KeysInv, NEW c \in SessionCallers, NEW s \in Sessions, CreateKeySession(c, s)
    PROVE  KeysInv' /\ SessionsNarrow
<1>1. /\ pending[c] # NoIdentity /\ sessions[s] = NoKeySession
      /\ sessions' = [sessions EXCEPT ![s] = [id |-> pending[c], live |-> TRUE]]
      /\ pending' = [pending EXCEPT ![c] = NoIdentity]
      /\ UNCHANGED <<now, policy, keys, orgActive, published>>
    BY DEF CreateKeySession
<1>2. now \in Nat /\ DOMAIN sessions = Sessions /\ DOMAIN pending = SessionCallers
    BY DEF KeysInv, KeysType
<1>3. Known(keys, pending[c])
    BY <1>1 DEF KeysInv, SessionsKnown
<1>4. SessionsKnown'
    BY <1>1, <1>2, <1>3 DEF KeysInv, SessionsKnown
<1>5. KeysType' /\ PublishedBehind' /\ now' \in Nat /\ now' >= now
    BY <1>1, <1>2 DEF KeysInv, KeysType, PublishedBehind
<1>6. \A t \in Sessions : sessions[t] # NoKeySession => sessions'[t] = sessions[t]
    BY <1>1, <1>2
<1> QED BY <1>1, <1>4, <1>5, <1>6, NoKeyStep

\* logout
LEMMA LogoutPreserves ==
    ASSUME KeysInv, NEW s \in Sessions, Logout(s)
    PROVE  KeysInv' /\ SessionsNarrow
<1>1. /\ sessions' = [sessions EXCEPT ![s].live = FALSE]
      /\ UNCHANGED <<now, policy, keys, orgActive, published, pending>>
    BY DEF Logout
<1>2. keys \in [Keys -> KeyRow] /\ now \in Nat /\ DOMAIN sessions = Sessions
    BY DEF KeysInv, KeysType
<1>3. SessionsStay
    BY <1>1, <1>2 DEF SessionsStay
<1>4. \A k \in Keys : keys[k].version \in Nat
    BY <1>2 DEF KeyRow
<1>5. \A k \in Keys : keys[k].family = "management" =>
          keys'[k].family = "management" /\ keys'[k].version >= keys[k].version
    BY <1>1, <1>4
<1>6. keys' \in [Keys -> KeyRow]
    BY <1>1, <1>2
<1>7. SessionsKnown'
    BY <1>1, <1>3, <1>5, <1>6, SessionsKept
<1>8. KeysType' /\ PublishedBehind' /\ now' \in Nat /\ now' >= now
    BY <1>1, <1>2 DEF KeysInv, KeysType, PublishedBehind
<1>9. ASSUME NEW t \in Sessions, sessions[t] # NoKeySession
      PROVE sessions'[t].id = sessions[t].id /\ (sessions'[t].live => sessions[t].live)
    <2>1. sessions[t] = [id |-> sessions[t].id, live |-> sessions[t].live]
        BY <1>9 DEF KeysInv, SessionsKnown
    <2> QED BY <1>3, <2>1 DEF SessionsStay
<1> QED BY <1>1, <1>7, <1>8, <1>9, NoKeyStep

\* Time passes: keys and overlaps expire.
LEMMA TickPreserves ==
    ASSUME KeysInv, Tick
    PROVE  KeysInv' /\ SessionsNarrow
<1>1. now' = now + 1 /\ UNCHANGED <<policy, keys, orgActive, published, sessions, pending>>
    BY DEF Tick
<1>2. now \in Nat
    BY DEF KeysInv, KeysType
<1>3. KeysType' /\ PublishedBehind' /\ SessionsKnown' /\ now' \in Nat /\ now' >= now
    BY <1>1, <1>2 DEF KeysInv, KeysType, PublishedBehind, SessionsKnown, Known
<1> QED BY <1>1, <1>3, NoKeyStep


-----------------------------------------------------------------------------
(* The theorems                                                              *)

LEMMA KeysInitEstablishes == KeysInit => KeysInv
<1> SUFFICES ASSUME KeysInit  PROVE KeysInv
    OBVIOUS
<1>1. /\ now = 0 /\ policy = [o \in Owners |-> DefaultPolicy] /\ keys = [k \in Keys |-> NoKey]
      /\ orgActive = TRUE /\ published = [keys |-> keys, orgActive |-> TRUE]
      /\ sessions = [s \in Sessions |-> NoKeySession] /\ pending = [c \in SessionCallers |-> NoIdentity]
    BY DEF KeysInit
<1>2. /\ NoKey \in KeyRow /\ RowShape(NoKey) /\ NoKey.family = "none" /\ NoKey.status = "revoked"
      /\ NoKey.owner = "org"
    BY DEF NoKey, KeyRow, RowShape, Families, Owners, Classes, KeyStatuses
<1>3. DefaultPolicy \in PolicyRows
    BY KeysAssumption DEF PolicyRows
<1>4. KeysType /\ PolicyShape(policy["org"])
    BY <1>1, <1>2, <1>3, DefaultAssumption DEF KeysType, Owners
<1>5. RowsFit
    BY <1>1, <1>2 DEF RowsFit, RowFits
<1>6. CountsWithin
    <2> SUFFICES ASSUME NEW o \in Owners
        PROVE /\ CountOf(keys, o, "management", Classes) <= policy[o]["management"]["standard"].keys
              /\ CountOf(keys, o, "management", {"member"}) <= policy[o]["management"]["member"].keys
        BY DEF CountsWithin
    <2>1. policy[o]["management"]["standard"] \in Section /\ policy[o]["management"]["member"] \in Section
        BY <1>1, <1>3 DEF PolicyRows, Families, Classes
    <2>2. policy[o]["management"]["standard"].keys \in Nat /\ policy[o]["management"]["member"].keys \in Nat
        BY <2>1 DEF Section
    <2>3. ASSUME NEW cs  PROVE CountOf(keys, o, "management", cs) = 0
        <3>1. Counted(keys, now, o, "management", cs) = {}
            BY <1>1, <1>2 DEF Counted
        <3> QED BY <3>1, FS_EmptySet DEF CountOf, Counted
    <2> QED BY <2>2, <2>3
<1>7. PublishedBehind /\ SessionsKnown
    BY <1>1, <1>2 DEF PublishedBehind, SessionsKnown
<1> QED BY <1>4, <1>5, <1>6, <1>7 DEF KeysInv

LEMMA KeysNextPreserves == KeysInv /\ KeysNext => KeysInv' /\ SessionsNarrow
<1> SUFFICES ASSUME KeysInv, KeysNext  PROVE KeysInv' /\ SessionsNarrow
    OBVIOUS
<1>1. now \in Nat /\ keys \in [Keys -> KeyRow] /\ policy \in [Owners -> PolicyRows]
    BY DEF KeysInv, KeysType
<1>2. CASE Publish
    BY <1>2, PublishPreserves
<1>3. CASE Tick
    BY <1>3, TickPreserves
<1>4. ASSUME NEW c \in Classes, NEW k \in Keys, NEW values \in Requested, NEW e \in Expiries,
             \/ \E o \in Owners : CreateManagementKey(c, k, o, values, e)
             \/ \E b \in Budgets, direct \in BOOLEAN : CreateGatewayKey(c, k, values, e, b, direct)
      PROVE KeysInv' /\ SessionsNarrow
    BY <1>4, CreateManagementPreserves, CreateGatewayPreserves
<1>5. ASSUME NEW k \in Keys, NEW values \in Requested, NEW st \in KeyStatuses,
             NEW e \in Expiries \cup {keys[k].expires},
             UpdateManagementKey(k, values, st, e) \/ UpdateGatewayKey(k, values, st, e)
      PROVE KeysInv' /\ SessionsNarrow
    <2>1. keys[k].expires \in Nat
        BY <1>1 DEF KeyRow
    <2>2. e \in Nat
        BY <1>1, <2>1, ExpiriesTyped
    <2> QED BY <1>5, <2>2, UpdateManagementPreserves, UpdateGatewayPreserves
<1>6. ASSUME NEW k \in Keys, NEW n \in 0 .. MaxTime, RotateManagementKey(k, n) \/ RotateGatewayKey(k, n)
      PROVE KeysInv' /\ SessionsNarrow
    <2>1. keys[k].secretAt \in Nat /\ n \in Nat
        BY <1>1, KeysAssumption DEF KeyRow
    <2>2. CASE RotateManagementKey(k, n)
        <3>1. /\ keys[k].family = "management" /\ n <= Overlap(policy[keys[k].owner], "management", keys[k].class)
              /\ keys' = [keys EXCEPT ![k] = Rotated(keys[k], n, now)]
              /\ UNCHANGED <<now, policy, orgActive, published, sessions, pending>>
            BY <2>2 DEF RotateManagementKey
        <3> QED BY <1>1, <2>1, <3>1, RotatePreserves DEF Families
    <2>3. CASE RotateGatewayKey(k, n)
        <3>1. /\ keys[k].family = "gateway" /\ keys' = [keys EXCEPT ![k] = Rotated(keys[k], n, keys[k].secretAt)]
              /\ UNCHANGED <<now, policy, orgActive, published, sessions, pending>>
            BY <2>3 DEF RotateGatewayKey
        <3> QED BY <2>1, <3>1, RotatePreserves DEF Families
    <2> QED BY <1>6, <2>2, <2>3
<1>7. ASSUME NEW p \in Policies, UpdateDeploymentPolicy(p["management"]["standard"]) \/ UpdateOrganizationPolicy(p)
      PROVE KeysInv' /\ SessionsNarrow
    <2>1. p["management"]["standard"] \in Section
        BY KeysAssumption DEF Families, Classes
    <2> QED BY <1>7, <2>1, DeploymentPolicyPreserves, OrganizationPolicyPreserves
<1>8. ASSUME NEW b \in BOOLEAN, SetOrganization(b)  PROVE KeysInv' /\ SessionsNarrow
    BY <1>8, SetOrganizationPreserves
<1>9. ASSUME NEW c \in SessionCallers, NEW k \in Keys, NEW v \in 1 .. MaxCommands, AuthenticateKey(c, k, v)
      PROVE KeysInv' /\ SessionsNarrow
    <2>1. v \in Nat
        BY KeysAssumption
    <2> QED BY <1>9, <2>1, AuthenticatePreserves
<1>10. ASSUME NEW c \in SessionCallers, NEW s \in Sessions, CreateKeySession(c, s)
       PROVE KeysInv' /\ SessionsNarrow
    BY <1>10, CreateSessionPreserves
<1>11. ASSUME NEW s \in Sessions, Logout(s)  PROVE KeysInv' /\ SessionsNarrow
    BY <1>11, LogoutPreserves
<1>12. ASSUME NEW k \in Keys, \/ \E b \in Budgets, direct \in BOOLEAN : UpdateGatewayKeyBudget(k, b, direct)
                             \/ ActivateGatewayBudget(k)
       PROVE KeysInv' /\ SessionsNarrow
    BY <1>12, UpdateBudgetPreserves, ActivateBudgetPreserves
<1> QED BY <1>2, <1>3, <1>4, <1>5, <1>6, <1>7, <1>8, <1>9, <1>10, <1>11, <1>12 DEF KeysNext

LEMMA KeysStutter == KeysInv /\ UNCHANGED keysVars => KeysInv'
<1> SUFFICES ASSUME KeysInv, UNCHANGED keysVars  PROVE KeysInv'
    OBVIOUS
<1>1. now \in Nat
    BY DEF KeysInv, KeysType
<1>2. /\ KeysType' /\ PublishedBehind' /\ SessionsKnown' /\ now' \in Nat /\ now' >= now
      /\ UNCHANGED <<policy, keys, sessions>>
    BY <1>1 DEF keysVars, KeysInv, KeysType, PublishedBehind, SessionsKnown, Known
<1> QED BY <1>2, NoKeyStep

\* The inductive invariant of keys, policies, the snapshot and key sessions.
THEOREM KeysInvariant == KeysSpec => []KeysInv
<1>1. KeysInv /\ [KeysNext]_keysVars => KeysInv'
    BY KeysNextPreserves, KeysStutter
<1> QED BY <1>1, KeysInitEstablishes, PTL DEF KeysSpec

\* Every key that is not revoked stays within the policy of its owner and class,
\* and the available management keys within the limits, for any number of keys and
\* any policies that validate_policy_shape admits.
THEOREM KeysAlwaysFitPolicy == KeysSpec => []KeysFitPolicy
<1>1. KeysInv => KeysFitPolicy
    BY DEF KeysInv, RowsFit, RowFits, CountsWithin, KeysFitPolicy
<1> QED BY <1>1, KeysInvariant, PTL

\* Whatever happens to a key, its policy or its secrets, a session made from it
\* never has a scope it had not: updates and clamping revoke it, rotation only
\* ends the acceptance of its secret.
THEOREM KeySessionsOnlyNarrow == KeysSpec => SessionsNeverWiden
<1>1. KeysInv /\ [KeysNext]_keysVars
      => [\A s \in Sessions : sessions[s] # NoKeySession => SessionScopes(s)' \subseteq SessionScopes(s)]_keysVars
    BY KeysNextPreserves DEF SessionsNarrow
<1> QED BY <1>1, KeysInvariant, PTL DEF KeysSpec, SessionsNeverWiden

=============================================================================
