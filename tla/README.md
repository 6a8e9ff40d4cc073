# Owlrora: TLA+ models of the gateway server

Owlrora is a multi-tenant LLM gateway written in Rust. A fleet of identical
server processes serves client requests; PostgreSQL holds configuration and
usage, Redis (the "coordinator") holds the counters that must be shared by the
fleet. This directory holds TLA+ models of the parts whose correctness depends
on the order of events across processes, tasks, Redis scripts, transactions and
lost answers, TLC configurations that check them on small instances, and TLAPS
proofs of the most important results for every value of the constants.

`PROJECT.json` is the machine-readable index: components, runs, mutants, the
source lines behind each definition, hazards and theorems. Source
paths below are relative to `src/crates/owlrora-server/src/`.

## 1. The system

| Component | State it keeps | Operations | Module |
|---|---|---|---|
| Runtime publication (`runtime/publisher.rs`) | published generation, publication status, refresh schedule | start, poll, forced refresh, observe, compile, fence, publish, retry | `RuntimePublisher` |
| Budget allowances (`gateway/admission.rs`, `adapters/coordinator.rs`) | Redis: ledgers and grant hashes; process: grants, reservations, debts | reserve, grant, settle, abandon, return, recover | `BudgetAllowance` |
| Policy activation (`application/gateway_policies.rs`, Redis scripts) | PostgreSQL: policy pointers, versions, activation row; Redis: policy hash, ledgers | update, stage, arm, activate, retire, finalize, reconcile | `PolicyActivation` |
| Coordinator recoveries (`application/operations.rs`) | recovery rows, recovery generation of a ledger | create, install | `PolicyActivation`, `BudgetAllowance` |
| Strict concurrency leases (`adapters/coordinator.rs`, `gateway/lifetime.rs`) | Redis sorted set of leases; request deadline | acquire, run, release, reclaim | `StrictLease` |
| Target protection (`gateway/protection.rs`) | circuit entries, semaphores of shared domains | acquire, success, failure, drop, evict | `TargetCircuit` |
| Usage pipeline (`gateway/usage.rs`) | aggregation maps, queue of sealed batches; PostgreSQL: rows and receipts | record, seal, flush, expire, prune, shut down | `UsagePipeline` |
| Request dispatch (`gateway/dispatch.rs`, `gateway/lifetime.rs`) | attempt counters, the attempt's reservation, telemetry and target permit, the logical fact | admit, select, reserve, send, classify, retry, fail over, commit, stream, cancel | `RequestDispatch` |
| WebSocket gateway (`gateway/websocket.rs`) | the pinned upstream, the turn under way | accept, create, connect, expose, terminate, close, age | `WebSocketTurns` |
| Target probes and shared health (`gateway/health.rs`, Redis) | probe plan and schedule, observations; Redis: leases and summaries | plan, schedule, lease, probe, record, share, take over, ask | `TargetProbe` |
| Upstream credentials, Codex login and refresh (`application/upstream_credentials.rs`) | credential row, secret versions and ciphertext, login session, fenced refresh lease | create, replace, validate, log in, refresh, reconcile, revoke | `UpstreamCredential` |
| API keys and their policies (`application/key_management.rs`, `gateway_keys.rs`) | keys with versions and overlap, policies, sessions made from keys | create, update, rotate, clamp, authenticate, log out | `ApiKeys` |
| Identity (`application/resources.rs`, `invitations.rs`, `oidc.rs`, `external_identity.rs`, `identity_resources.rs`, `authentication.rs`) | users, organizations, memberships, invitations, issuer, bindings, logins, sessions | every command, login in four steps, refresh of verifier material, authorization of a request | `Identity` |
| Catalog (`application/catalog.rs`, `gateway_catalog.rs`, `catalog_grants.rs`) | networks, policies, endpoints, prices, deployments, routes, grants | create, update, publish, replace, validate | `Catalog` |
| Idempotent commands (`application/idempotency.rs`) | command records | insert or wait, replay, conflict, complete, clean up | `Catalog`, abstractly `OnceOnly` |
| Runtime builder (`runtime/builder.rs`, `domain/catalog.rs`) | compiled snapshot, clients | capture, fail, build or reuse clients | `RuntimeBuilder` |
| Gateway entry (`gateway/mod.rs`) | none: reads a snapshot | authenticate, narrow, resolve, order candidates, readiness | `GatewayEntry` |
| Approximate slots and rate tokens, process lifecycle, secret custody | process slots, token batches; drain state; key set | | planned |
| Usage queries, audit, HTTP layer, wire formats, configuration, migrations, CLI, web console | | reads, pure conversions, user interface | not modelled |

How they interact. A request captures the published runtime generation, is
admitted under its key (rate, concurrency: strict leases live in Redis), loops
over the candidates of its route, and for each attempt reserves budget against
process-local grants, takes a target permit, calls the provider, settles what
it cost and records usage. Grants come from Redis in slices, under the policy
version that the activation handshake made allocatable; usage is aggregated in
memory and written to PostgreSQL in batches. Configuration changes (catalog, keys,
identity, credentials) commit in PostgreSQL and reach a process only by
publication: the builder compiles the tables to a snapshot, or refuses them, and
the entry of the gateway decides on that snapshot. Management requests are
authorized on a published snapshot as well and commit some time later. Probes and
shared summaries keep requests from targets whose circuits would let them through.

What is hard. Every Redis call can be executed without its answer arriving.
Several workers run the same activation from rows they read at different times.
Processes die with grants, debts, half-open tokens and unwritten usage. Futures
are dropped at any await, so settlement happens in `Drop`. Commands read rows they
do not lock, call providers between two transactions, and authorize on snapshots
that are already old. Timers race answers.
Tables and queues are bounded. The list of hazards in `PROJECT.json` gives each
at its line with the properties that would catch it going wrong.

What makes each component correct is stated with its run in section 3.

## 2. Modules and how they correspond to the code

Each component is one module with its state as variables, one action per
operation and the properties at its end; `MC<module>` instantiates it for TLC,
its theorems are in a module of proofs (list in section 4). Where one module of proofs
extends two that share no variable, the second names its behaviour apart
(`LeaseSpec`, `CatalogSpec`, `KeysSpec`, `ProbeSpec`), so that the two can stand side
by side. A definition introduced by a comment
"Mutant: ..." is a plausible bug that one of the properties detects when it
replaces the definition after it; no specification uses it.

**RuntimePublisher.** `gen`, `status`, `schedule` are the fields of
`RuntimePublisher`; `phase` is where the owner of the refresh lock stands
(`Acquire`, `Observe`, `UpToDate`/`WaitForRetry`/`Rebuild`, `Compile`,
`FenceRefresh`/`FenceStart`, `Publish`, `Fail`). A generation is its two
revision marks and whether some credential client was unavailable. `Commit` is
any configuration change, with or without a security tightening. A query reads
its snapshot and answers up to `Latency` later. `Crash` and `Cancel` may happen
at every await. The wall clock is taken to be monotone.

**BudgetAllowance.** `charged`, `recovery`, `receipts` are the ledgers and grant
hashes of the Lua scripts; `held`, `debts`, `returns` the process state behind
the mutex of `GatewayAdmissionState`. `Reserve` is each of the three calls of
`try_reserve_budget`: before the refill lock, under it, and after a grant was
installed. Each pays remaining debts from every open grant of the pair first.
`AskGrant`/`RedisGrant`/`InstallGrant` are the three moments of a refill; `FreezeReturns`, `ReturnAnswered`, `ReturnUnanswered` are a
return pass. A side with a zero estimate is left out of the pair, as in
`enforcing_budget_side`. The pass at the start of `reserve_attempt` does not have
to finish before that attempt reserves (more behaviours than the code has); the
time-to-live of grant hashes is not modelled.

**PolicyActivation.** One budget policy: `policy` (active and desired pointers),
`versions`, `activation` (the row), `hash` and `ledger` (Redis), `worker` (what
each reconciliation loop read and where it stands). Each script is an acceptance
condition and a new hash (`StageAccepts`/`StagedHash` and so on); `Persist` is the
row update after it. `Abandon` is an error, a crash or a lost reply at any point.
`late` records that a STAGE ran for an activation that is no longer the current
one: a state the scripts do not exclude and from which the safety properties are
not claimed. Rate policies use the same handshake and are not modelled apart.

**StrictLease.** Redis time advances in milliseconds, process time in fractions of
one (`Resolution`). `Ask`, `Acquire` (the script), `Answer`, `EndRequest` (which
the lifetime's timer forces at the deadline), `DropPermit`, `Vanish`. A slot is reused (`Reclaim`)
once the orphaned lease in it has expired. Timers fire exactly at their deadline;
lease ids are fresh.

**TargetCircuit.** `circuit` holds the entries of the table, `attempt` the
`TargetAttemptPermit`s with their tokens, `semaphore` the capacity domains.
`AcquireCircuits` and `AcquireCapacity` are separate steps, as the locks are;
`Observe` and `Drop` are the ends of a permit. The instance has two kinds of
domain where the code has three; `MaxTracked` and `MaxSemaphores` both stand for
`MAX_TRACKED_DOMAINS`. `LocalHealth` is the read that also ends a recovery. The
health category it returns, the deterministic sampling during recovery and the
global semaphore are left out.

**UsagePipeline.** `agg` is `UsageState`; `flush` the transaction under way;
`limbo` transactions whose client no longer listens and that may still commit;
`receipts` and `applied` the tables. The unit of time is an hourly bucket. Facts
have identities, so that counting twice and losing are visible; amounts are not
added up. Hourly and daily rows of one transaction are one count. One process
follows another (`Restart`). Recording has stopped when the shutdown starts, as
`service.rs` orders it. Pruning of usage rows themselves (30 and 366 days) is
left out; pruning of receipts is `PruneUsage`.

**RequestDispatch.** One JSON or SSE request: `phase` is the await it is at,
`list`, `idx`, `attempts`, `same` and `distinct` its loop, `att` the attempt with its reservation, telemetry and target
permit, `history` the closed attempts, `logical` the logical fact. How an attempt
can fail in each phase is a set of verdicts (`Preparing`, `Unanswered`,
`Answered`, `Reading`, ...): what happened, the retry condition the code derives
from it, what becomes of the reservation and of the circuit. What runs between
two awaits is one step, at one reading of the clock. A price that is not known
makes usage "partial". The candidates come in any order;
which they are is the subject of GatewayEntry.

**WebSocketTurns** extends RequestDispatch: a connection is `phase` "idle" between
turns and "done" when it is over. Each turn opens its logical record and is then
admitted anew (`Create`, `AdmitTurn`); the first one runs the loop of
RequestDispatch, the ones after it go to the `pinned` socket or nowhere, with
neither retry nor failover. Response state is persisted before an event is exposed
(`Exposed`); from then on nothing is tried elsewhere. The turn's state is reset, so
the number of turns is not bounded; `Age` is `MAX_CONNECTION_LIFETIME` and bounds
every deadline. A failed upgrade refunds the reservation, because no request went
through it, though its usage record says "ambiguous" (the property allows exactly
that). A provider is taken to send nothing after a terminal event: a message left
over from one turn would be read as part of the next.

**TargetProbe.** One target whose binding changes with the runtime revisions
(`BindingOf`), two processes. `plan`, `loop` and the schedule are those of
`TargetProbeWorker`; a probe takes the lease of its binding (`TryAcquireLease`),
asks the circuits (an open choice here, TargetCircuit is their model), sends its
request, stores the observation and shares it (`PutTargetHealthSummary`, a script
that compares the token of the lease); without the lease it takes over the shared
summary. `AllowsCandidate` is what dispatch asks. The plan is captured before it is
locked, so an older one can be put back; both orders are behaviours of the model.

**UpstreamCredential.** One credential of any kind: its row `cred`, the `rows` of its
secret versions, the ciphertexts (`sealed`), the auth state, one login session and
the operations under way (`ops`). An operation captures, works outside any
transaction and commits in a second one fenced by what it captured; between them
leases and claims run out and the process may stop. A refresh token is named by the
version that holds it; `presented` and `abandoned` record what the provider saw and
what an operator gave up. An etag is the freshness of a capture.

**ApiKeys.** Management and gateway keys of a deployment and an organization, with
their policies, versions and overlapping secrets. Commands are single transactions
under the locks of owner and policy; a policy change clamps the keys under it
(`Clamp`). A gateway key has a desired budget version and one in force:
`UpdateGatewayKeyBudget` is the two commands that write a new version, within the policy
of the moment; `ActivateGatewayBudget` is the end of its activation, which does not ask
the policy again. A policy is held against both versions. Budget modes are reduced to
whether a version is in force at once. Requests authenticate against the published snapshot, and a session is
inserted some time after the key was accepted. Scopes, capabilities and routes are
one set of values; times are days.

**Identity.** `db` are the tables a snapshot is built from, `published` the snapshot
requests see. A request is authorized on it and commits later (`requests`). A
browser login is four steps on the snapshot it captured: callback, claim of the
state, provisioning, session. The refresh of verifier material and the replacement
of a client secret fetch or seal before they lock the issuer. Capabilities are
grouped by the role that has them; there is one issuer. System commands come from
the seed administrator, whose authority is configuration.

**RuntimeBuilder, GatewayEntry, Catalog.** RuntimeBuilder is a function of the tables:
the `Faults` for which a capture fails, the snapshot otherwise
(`CaptureGatewayRuntime`), and which clients are built, reused or unavailable
(`BuildCredentialClients`); it holds the compatibility registry of
`domain/catalog.rs`. GatewayEntry is what the gateway decides on a snapshot:
credential, principal, ceilings, route, candidates, readiness. What health keeps from a
request (`allows_candidate`: local circuits, observations of probes, the sample that
may try a recovering target) is a parameter, a set of pairs of a route and a
deployment; the run takes it from `Exclusions`, the theorems hold for any such sets.
TargetCircuit and TargetProbe model where it comes from. Catalog has the
commands as actions, in two steps where a command reads what it does not lock or
reads outside its transaction, the idempotency records of creations and validations
(other commands that take a key, such as a new budget epoch, use the same functions),
and publication. `unread`
are the credentials whose secret cannot be read while clients are built.
`PublishSnapshot` is the publication; RuntimePublisher models when it happens. `Schema`
are the foreign keys and checks of the tables. `RegistryAssumption`, an ASSUME, is the
fact that lets commands check a target by its transport alone; TLC evaluates it on the
registry.

**OnceOnly** is the abstract specification of an idempotency key: at most one effect
under a key, and repetitions are told of it until the key is forgotten. Catalog
implements it: `DoneOnce` is the specification of `OnceOnly` with `done` and `told` mapped to the
rows created or validated and the answers given under each key.

## 3. What is checked

Every run finishes within five minutes with two workers. "Bounds" name what limits
the instance; each was chosen so that the case the property is about happens, which
the mutant of each property confirms.

| Run | Shows | Bounds |
|---|---|---|
| `publisher` | `AuthorityFresh`: a generation that may still decide authentication includes every tightening older than `MaxAge` plus one query latency. `FencedPublication`, `EvidenceNeverWeakens`: publication never undoes what was observed. `CommitsAreApplied`: every commit is eventually served. | 2 revisions, 4 units of time, age and latency 1, 1 fault, 3 fence attempts |
| `budget` | `LedgerConserved`: a charge is exactly what was granted less what each grant returned, and stays in its range. `SpendingIsCovered`: settled cost plus live reservations never exceeds charges plus debts. `ReservationsAreBacked`: no return pass takes a grant in use. `GrantsAreReturned`: a running process gives back every grant whose return does not conflict. | 1 process (liveness needs it) with 2 attempts that share its grants, 2 grants, 1 fault, 1 recovery, a key and an origin ledger with limit 3 and slice 2, cost 0 or 3 for an estimate of 1 |
| `activation` | `ActiveStaysAllocatable`: nothing two workers do disables the version PostgreSQL enforces. `AllocationIsPublished`: after finalization no other version allocates, and a recovered version spends its allowance. `DurableAfterCoordinator`: PostgreSQL publishes only what Redis already allocates from. `ActivationSettles`: an activation finalizes or ends in one of the named dead ends, and a missed deadline does not close the policy for longer. With one policy it does not show whether activations that cannot move hide newer ones from a pass, which takes the 32 oldest rows (`gateway_policies.rs:2264`). | 2 workers, 2 versions, both modes and statuses, 1 recovery, 1 fault, 1 loss of the Redis state |
| `strict_lease` | `RunsUnderLease`, `StrictLimit`: a request runs only while Redis counts its lease, so the limit holds for the fleet. | 3 requests, limit 2, leases of 2 ms, half-millisecond resolution, 2 faults |
| `circuit` | `PermitsConserved`: half-open slots are neither lost nor given back twice, and forgetting a semaphore creates no permits. `ClosesOnOwnEvidence`: results of an earlier open period close nothing. | 2 attempts, 3 targets of which 2 share an endpoint, 4 tracked entries, 2 semaphores, 4 units of time |
| `probe` | `ExclusionHasEvidence`: a request is kept from a target only by a recent probe of its very binding. `SummariesMoveForward`: a shared summary is never replaced by an older one. | A worker in one process, an operator in another, a binding, none and another binding in turn, interval, staleness and time-to-live 1, 2 probes, 4 units of time |
| `usage` | `AppliedOnce`: no fact is counted twice whatever commits late, is retried, pruned or restarted. `LossIsCounted`: a fact that is nowhere is counted as lost, and a shutdown without failures writes everything. `FactsSettle`: no batch blocks the queue for good, and the shutdown's flush ends without any assumption on PostgreSQL. | 3 facts, 1 key per family, queue of 1, 2 processes, clock skew 1, 2 hours; accept window 0 and receipt window 1, so that overflow, pruning and restart all happen in that time |
| `dispatch` | `AccountsAgree`: however an attempt or turn ends, reservation, usage record, permit and logical fact are closed once and agree. `ChargesMatchEvidence`: only what the provider cannot have served is refunded, and complete usage is settled. `RepeatsAreAllowed`: no repetition of an unsafe request. `NoLateAttempt`: none after expiry or exposure. `RequestEnds`: a request or connection ends though provider, Redis and client stall. | 2 targets, 3 attempts, 2 repetitions on a target, 1 failover; turns unbounded |
| `credential` | `OnlySelectedMaterial`: exactly the selected version is current and has ciphertext. `ReadyTokenIsLive`: a token the provider may have rotated is not offered again, unless a login was given up. `CredentialSettles`: no refresh or login stays half done. | 2 callers, 2 versions, 1 refresh claim, 2 logins of 2 polls |
| `keys` | `KeysFitPolicy`: keys stay within the policy of their owner and class, and within its numbers, budgets desired and in force included. `SessionsNeverWiden`: the scopes of a session only shrink. | 2 keys, 1 session, 1 caller, 3 commands, 2 days |
| `identity` | `OwnersRemain`: every active organization keeps an owner, and only an owner's token makes owners. `SessionWithinLogin`: a login makes one session, whose requests never exceed what the login proved. `IssuerMaterialIsCurrent`, `ProvisionedIdentityIsCurrent`: what was fetched or captured earlier is not put in force later. | 3 users (1 new), 2 organizations (1 new), the second user an admin or invited to be an owner, 1 invitation, 1 login with 2 callbacks, 1 request, 2 commands, 2 starts |
| `catalog` | `OnlyKnownFaults`: commands leave tables the builder accepts, but for two faults. `AdmittedIsEntitled`: once published, no revoked grant, disabled resource, foreign deployment or old client serves a request. `ReadinessAgrees`: a ready route has a candidate unless health or the request's output bound stands against it, and what is admitted, a turn on an accepted WebSocket included, goes to a ready route. `VersionsGrow`: a version number names one configuration. `DoneOnce`: refinement of `OnceOnly`. | 3 populations of the tables, health that keeps nothing or two targets from a request, 2 commands that may be open together, 1 idempotency key, a handful of inputs for each command |

Type invariants are not run apart: they are proved, alone or as part of an inductive
invariant (section 4).

Deadlock checking is off where the bounded system really stops: bounds on time,
grants, facts or versions are used up, or the request is over.

### Fairness

- `publisher`: the poll interval fires (strong fairness, since forced refreshes
  may hold the lock each time), the owner of the lock goes on, and a retry time
  is reached. Faults are bounded, so they stop.
- `budget`: the return interval fires, its calls are answered or time out, grants
  reach their expiry, dispatched attempts end.
- `activation`: each worker goes on with its loop (the reconciliation interval),
  the cutoff of a retirement is reached, and recoveries are installed.
- `usage`: the flush task runs at its interval and ends what it started, by its
  timeout if not otherwise. The part of `FactsSettle` about the queue has
  `StoreFairness` as a hypothesis: PostgreSQL settles a flush attempted infinitely
  often, abandoned transactions end, time passes.
- `dispatch`: time passes and local steps run. Nothing is assumed of provider,
  Redis or client.
- `credential`: both sweeps of `start_codex_credential_workers` run at their
  interval, and leases, claims and sessions reach their expiry. Nothing is assumed
  of callers or of the provider.

The other runs check safety only: their specifications have no fairness.

### Where code and documentation disagree

The models contain what the code does, and the properties are stated so that they
hold of it. These differences from the documents under `src/spec` were met:

- BUDGET_RETURN writes the key ledger before it checks the origin ledger
  (`coordinator.rs:299`). When the origin side conflicts, the credit stays, the
  receipt is not marked, and the frozen grant credits the key ledger again at every
  pass; spec/07:192 calls the return idempotent. A conflict needs a
  recovery, so `LedgerConserved` claims the balance without one and the range always,
  and `GrantsAreReturned` excepts conflicts.
- A worker that stops between FINALIZE in Redis and the row update
  (`gateway_policies.rs:2319`) leaves an activation that no later pass can finalize,
  because FINALIZE deleted the fence that RETIRE and FINALIZE ask for; spec/07:278
  says that a crash after activation resumes retirement. `ActivationSettles` names it
  as `FinalizeUnrecorded`.
- An activation also stays unfinished when the policy is suspended or re-moded
  midway (`gateway_policies.rs:655`), when a recovery is installed midway
  (`coordinator.rs:145`), or when STAGE is executed late for a finished activation
  (`coordinator.rs:12`). With several stale workers at once a late STAGE could also
  revive a retired version, which is why safety is claimed without `late`.
- After a recovery and a same-epoch update the snapshot carries another recovery
  generation than Redis (`builder.rs:396`), so grants are denied; and the first
  update after the Redis state was lost opens the ledger uncharged
  (`coordinator.rs:31`).
- A grant older than a recovery is returned into the recovered ledger
  (`coordinator.rs:299`; spec/07 says old receipts cannot reopen balance).
- An attempt estimated at zero has no side (`admission.rs:1133`) and settles against
  nothing, while a unit test says "An enforcing zero estimate must still settle actual
  consumption" (`admission.rs:1483`) of `try_reserve_budget`, which `reserve_attempt`
  never reaches with a pair that is all zero. `SpendingIsCovered` is checked and
  proved for positive estimates.
- `observe_revisions` stamps the confirmation when the answer arrives, so the age
  limit on the security snapshot is exceeded by up to the latency of the query;
  `AuthorityFresh` includes that latency.
- A login that is given up writes `ready` whatever the status was before
  (`upstream_credentials.rs:1183`): a token whose refresh outcome is unknown may be
  presented again, which spec/05:194 excludes. `ReadyTokenIsLive` excepts versions
  of such logins. After a terminal refresh failure the next login computes version
  1, which exists already, so it can never commit.
- `update_gateway_api_key` (`gateway_keys.rs:361`) stores a null expiry and does not
  count a key that becomes active again, unlike management keys; spec/03:196 names
  both limits for every organization key. `KeysFitPolicy` claims expiry, overlap and
  number for management keys only.
- Revocations are not published while the builder refuses the tables, and two
  commands can bring that about: `update_model_deployment` (`gateway_catalog.rs:521`)
  does not compare capabilities with the routes that use the deployment, and a key
  may name a draft route (`gateway_keys.rs:714`); spec/04:281 says that disabling
  always publishes. `OnlyKnownFaults` names these two faults; none of the
  other modelled checks of the builder can fail. Pricing rates, header names, secret
  records and the number of origin budgets (`builder.rs:158`, `466`, `1142`) are not
  modelled.
- A circuit table one or two entries short of its limit evicts nothing and refuses
  every target with an untracked domain (`protection.rs:312`).
- A batch that was committed without acknowledgement and then expired is in the
  tables and counted as lost (`usage.rs:891`): `LossIsCounted` is an inequality.
- In dispatch: a client that leaves during admission leaves no logical fact; a
  malformed response is retried on the same target; a connection reset after the
  request was received counts as a connection failure; the logical fact has the
  usage of one attempt; and a retry that is refused its reservation falls through
  to the next candidate although failover is disabled (`dispatch.rs:203`).
- A ready route may have no candidate: health may exclude every target
  (`gateway/mod.rs:870`), and so may a request's output bound, or the default one, that
  is more than every target allows (`gateway/mod.rs:828`), while `required_route_ready`
  looks at neither. `ReadinessAgrees` excepts both.
- In the catalog: `update_model_route` asks for grants even to disable a route whose
  grants were revoked; validation evidence may be recorded for a newer version than
  was validated; a WebSocket may be accepted because of a system route that an
  organization's route of the same name hides.
- In identity and keys: a session inserted after its key or user was disabled
  becomes valid again when that is undone, never beyond what it captured;
  `accept_invitation` does not look at the user's status; a binding row that was
  removed makes provisioning of its subject fail until it is reactivated.
- In probes: a target absent from a plan that was put back stays unscheduled until
  the next revision.

## 4. What is proved

All theorems hold for every value of the constants under the named assumptions of
the modules: non-negative bounds, positive sizes, finite sets, and besides

- for the usage pipeline `AcceptWindow + FlushTimeout <= ReceiptWindow`, which the
  retention constants of the code satisfy;
- for budgets that `"none"`, which stands for no process, is no process, and that the
  recovery allowance is within every limit (`coordinator.rs:917` and the schema check it);
- for identity that the markers `None`, `"jwt"` and `"seed"` are no identifiers, and
  that an installation starts with finitely many invitations and with no membership
  of a user that does not exist yet: rows of a database, with a foreign key from
  memberships to users;
- for API keys that every policy an input can name has its classes and sections, and
  that the default one (`default_organization_api_key_policy`, `resources.rs:1348`) is
  well-formed (`DefaultAssumption`); nothing of the others, which commands must refuse;
- for probes that the marker `None` is no binding and no number, that revision 1 exists,
  and that a request times out before the lease of its interval ends
  (`ProbeTimeout < Interval`);
- for the catalog that the tables an installation starts with satisfy `Schema` and that
  the builder accepts them, that inputs have the columns the handlers decode
  (`InputAssumption`), and `RegistryAssumption`, which is a fact about a literal.

What each inductive invariant adds, and why the property is not inductive alone:

- **RuntimeProofs**: `AuthorityIsFresh`, `RevisionNeverRegresses`,
  `PublicationIsFenced`, `EvidenceIsMonotone`. The marks are ordered (published <=
  observed <= database), an answer in flight is not newer than the database and not
  older than its latency, a compiled candidate is not behind what it replaces, and
  every tightening the status has missed was committed after the time it was confirmed
  less the latency. `AuthorityFresh` alone says nothing of the candidate or of an
  answer on its way.
- **RuntimeProofs**, catalog (with RuntimeBuilder, GatewayEntry and OnceOnly):
  `CaptureFaultsKnown`, `ReadinessAlwaysAgrees`, `AdmissionAlwaysEntitled`,
  `CatalogVersionsGrow`, `CommandsActOnce`. For the faults (`DbInv`), every row
  names rows that exist and are compatible with it, except for the two comparisons
  that no command makes; and a command that has read and not yet written still fits,
  because what it read of other rows (adapter, owner, kind, usability of a secret)
  never changes, rows are never removed, and the route an update replaces is locked.
  For admission (`RuntimeInv`), every commit takes a revision of its
  own, so a snapshot with the latest revision is the capture of the present tables, with
  clients built from them; of an older one only its own consistency is known
  (`SnapshotFits`), which is what readiness needs: it gives a ready route a target that
  is a candidate for every request of some mode, whatever health excludes elsewhere.
  `CommandsActOnce` is the refinement
  of `OnceOnly`: every step maps to a creation or validation, an answer, a cleanup or a stutter,
  because open commands under one key are never two and a record exists where
  something was done (`OnceInv`).
- **PolicyActivationProofs**: `DurableActivationIsBacked` follows from
  `HandshakeInvariant`: the order between what workers read and the row, and that an
  activated candidate keeps the hash until it is durable. `ActiveIsNeverDisabled` and
  `OnlyOneAllocates` follow from `PhaseInvariant`: while Redis is undisturbed, the
  hash is at most one script ahead of the row, and every answer a worker holds is one
  the present phase allows. `AllocationIsAlwaysPublished` adds `RecoveryInvariant`:
  what workers and Redis hold names a recovery of the epoch, read before any recovery
  given to its version itself, whatever disturbed Redis.
- **AdmissionProofs**, budgets: `LedgerHolds`, `ReservationsHold`, `SpendingHolds`, from
  `BudgetInvariant`. The properties are about sums over grants, attempts and processes.
  What `Sum` is on a finite set (`SumStep`, `SumElement`) is shown without induction
  over data: among the sets where it fails there would be a smallest one. The invariant
  then has a local and a money part. Locally (`Local`), a grant counts its users and
  agrees with them on process and sides, a grant that is asked for belongs to one
  attempt, and a receipt only comes into being with its grant. In money, a grant never
  has more left and reserved than it charged (`Within`), which is why a return cannot
  conflict before a recovery, and what was settled, is reserved or may still be spent
  from a held or arriving grant is charged, owed or forgotten (`Covered`);
  `SpendingIsCovered` says nothing of what a grant has left, so a later reservation
  would break it. `PayInOrder` shows that debt paid from several grants in order lowers
  both by the same amount. `SpendingHolds` has `0 \notin Estimates` as a hypothesis
  (see the disagreements above); the other two theorems do not need it.
- **AdmissionProofs**, leases: `RequestsEndBeforeReclaim`, `LimitHolds`. A request
  was started before its lease was stored, the lease outlives the deadline computed
  from it, and the set is bounded when the script admits. StrictLease names its
  specification `LeaseSpec` and shares no variable with BudgetAllowance, so the two
  stand side by side in one module.
- **TargetProofs**, circuits: `PermitsAlwaysConserved`, `ClosesOnlyOnOwnEvidence`. A
  half-open slot is counted exactly, because a token carries the start of the open
  period that gave it and no later period starts at the same instant (`TokensAgree`,
  `SlotsAgree`); the tables forget only what counts no slot and no permit
  (`EntriesAgree`, `PermitsAgree`).
- **TargetProofs**, probes: `ExclusionAlwaysFounded`, `SummariesOnlyForward`, from
  `ProbeInv`. Tokens of leases differ, so whoever still owns a lease made its
  observation within it. From there the age of what was found is bounded along its
  whole way: the lease ends at most `Interval` after it (`ResultFound`), the summary at
  most `SummaryTtl` after the lease (`SummaryFound`), an answer is used no longer than the
  summary had left plus the duration of the call (`ReadFound`), and so is the
  observation it becomes (`ObservationFound`). The property itself only looks at the
  last of these.
- **UsagePipelineProofs**: `CountedAtMostOnce`, from `PipelineInvariant`: batches
  are disjoint, transactions in limbo are not counted, and a batch in memory that
  was counted has its receipt or is already too old to be written.
  `LossIsAlwaysCounted`, from `LossInvariant`: the number of facts that are neither in
  memory nor in a table is bounded by the counter, also where they are in a
  transaction without an answer; during a shutdown memory is not behind the status
  that was taken before the flush in all three counts while a batch is written, and
  ahead of it once the batch is settled, so `flush_all` stalls only when nothing is
  left.
- **WebSocketTurnsProofs** (HTTP requests and turns together): `AccountsAlwaysAgree`,
  `ChargesAlwaysMatch`, `RepeatsAlwaysAllowed`, `LateAttemptNever`. Each phase knows how far its
  attempt has got (`AttemptAgrees`), so that what is refunded explicitly was never
  received; candidates are distinct, and a request that is not replay safe only moves
  on in them (`NotRepeated`). The theorems are about `WsSafety`, the part of `WsSpec`
  without fairness.
- **CredentialProofs**, upstream credentials: `SelectedMaterialOnly`, `RotatedTokenStaysOut`. The
  status cannot become usable while a claimed token is selected (`ClaimsAreFenced`),
  and a caller whose capture is still fresh is the only one that may commit over its
  claim (`FreshClaimIsAlone`).
- **CredentialProofs**, API keys: `KeysAlwaysFitPolicy`, `KeySessionsOnlyNarrow`, from
  `KeysInv`. A gateway key is checked against the section of its class alone, though
  its policy is the intersection with the standard section: this suffices because a
  policy that is not well-formed is never stored. A policy change cuts scopes, expiry and
  overlap of the keys under it, and is refused when their number or budgets, desired or in force, exceed it: that
  is why an activation need not ask again.
  For sessions, the published snapshot is never ahead
  of the tables (`PublishedBehind`), a session names a version its key has reached
  (`SessionsKnown`), and an overlapping secret is always earlier than the current one, so
  no change of a row accepts again a secret it had stopped accepting
  (`AuthorityKept`).
- **IdentityProofs**: `OwnersAlwaysRemain`, `SessionAlwaysWithinLogin`,
  `MaterialIsAlwaysCurrent`, `ProvisionedIsAlwaysCurrent`. A user that is being
  provisioned has no membership to lose (`MembersExist`), a callback never writes a
  session that was inserted before (`SessionsFixed`), and everything verifier
  material or a client secret depends on moves the version of the issuer
  (`VersionsAgree`, `JobsAgree`).

Each of these modules also proves type correctness where it is a theorem of its own
(`TypeCorrect`, `LeaseTypes`); for budgets, keys, probes, the catalog and in
UsagePipelineProofs it is part of the invariants. Every inductive invariant of keys,
probes and the catalog was also checked by TLC on the instance of its run.

Only model-checked are the six liveness properties (`CommitsAreApplied`,
`GrantsAreReturned`, `ActivationSettles`, `FactsSettle`, `RequestEnds`,
`CredentialSettles`): fairness and ENABLED are out of the prover's reach. Every safety
invariant and action property of the runs, and the refinement of `OnceOnly`, is a theorem.

## 5. Not modelled, and the plan

Left out for good: pure conversions (wire formats, body isolation), reads (listings,
usage queries, audit), HTTP routing and its table of operations, configuration,
logging, command line client and web console. Partly modelled: how an etag is
written, the dominance rules between keys, the hash that orders candidates of one
priority, the resolver at connection time, the modes of a budget in `ApiKeys`, the
health of targets in `GatewayEntry` (an open choice there), and the checks of the builder
named above.

Next, in this order:

1. `ApproximateSlots` and `RateTokens`: process slots and token batches at window
   boundaries.
2. `Lifecycle`: drain, bounded joins, order of the shutdown; reload of the key set
   of the secret custody against operations under way.
3. Composition: `BudgetAllowance` under the versions of `PolicyActivation`, and the
   attempt of `RequestDispatch` over the reservation of `BudgetAllowance`.
