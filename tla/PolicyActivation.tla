-------------------------- MODULE PolicyActivation --------------------------
(***************************************************************************)
(* The activation handshake of one coordinator-backed budget policy        *)
(* between PostgreSQL and Redis (application/gateway_policies.rs,          *)
(* adapters/coordinator.rs), with the coordinator recoveries of            *)
(* application/operations.rs.                                              *)
(*                                                                         *)
(* PostgreSQL holds the policy pointers, the activation row and the        *)
(* recovery rows; Redis holds one policy hash and one ledger per epoch.    *)
(* Every worker loads the row, calls one script and persists the result    *)
(* in a separate transaction, so workers overlap, fail and run late.       *)
(* A generation number identifies its immutable version, its activation    *)
(* row and that row's candidate_fence and cutoff; 0 stands for NULL.       *)
(***************************************************************************)
EXTENDS Integers, FiniteSetsExt

CONSTANTS
    Workers,        \* policy activation workers of the fleet
    Epochs,         \* budget epochs an operator may name
    Modes,          \* budget modes an operator may choose
    Statuses,       \* policy statuses an operator may choose
    MaxGeneration,  \* bound: policy versions ever written
    MaxRecoveries,  \* bound: coordinator recoveries per epoch
    MaxFaults,      \* bound: crashes, errors and lost replies of workers
    MaxLosses       \* bound: losses of the Redis state

ASSUME ActivationAssumption ==
    /\ Modes \subseteq {"enforce", "record_only"}
    /\ Statuses \subseteq {"active", "suspended"}
    /\ MaxGeneration \in Nat /\ MaxRecoveries \in Nat
    /\ MaxFaults \in Nat /\ MaxLosses \in Nat

VARIABLES
    policy,      \* PostgreSQL: status, desired and active version of the policy
    versions,    \* PostgreSQL: epoch and mode of every version written
    latest,      \* PostgreSQL: the highest generation written
    activation,  \* PostgreSQL: the newest policy_activations row
    recoveries,  \* PostgreSQL: coordinator_recoveries and their installation
    hash,        \* Redis: the policy hash
    ledger,      \* Redis: the ledger of each epoch
    worker,      \* ActivationWork of each worker and where it stands
    elapsed,     \* generations whose prior_cutoff has passed
    faults, losses,
    late         \* history: a STAGE wrote a candidate that is no longer desired

pgVars    == <<policy, versions, latest, activation, recoveries>>
redisVars == <<hash, ledger>>
vars == <<policy, versions, latest, activation, recoveries, hash, ledger,
          worker, elapsed, faults, losses, late>>

Generations == 1 .. MaxGeneration
Unfinished  == {"desired", "coordinator_staged", "coordinator_armed", "active"}

EmptyHash == [state |-> "none", fence |-> 0, desiredRecovery |-> 0,
              active |-> 0, activeRecovery |-> 0, fingerprint |-> <<>>,
              prior |-> 0, priorRecovery |-> 0, cutoff |-> 0]
NoLedger == [present |-> FALSE, recovery |-> 0, opened |-> "none"]
Idle == [step |-> "idle", gen |-> 0, state |-> "none", recovery |-> 0]

\* coordinator_recoveries of an epoch: the highest generation, and the one the
\* runtime snapshot joins on the exact version as well.
HighestRecovery(epoch) ==
    Max({0} \cup {r.number : r \in {x \in recoveries : x.epoch = epoch}})
SnapshotRecovery(g) ==
    Max({0} \cup {r.number : r \in {x \in recoveries :
                                     x.epoch = versions[g].epoch /\ x.gen = g}})

Init ==
    /\ policy = [status |-> "suspended", desired |-> 0, active |-> 0]
    /\ versions = [g \in Generations |-> [epoch |-> "none", mode |-> "none"]]
    /\ latest = 0
    /\ activation = [gen |-> 0, state |-> "none", deadline |-> "none"]
    /\ recoveries = {}
    /\ hash = EmptyHash
    /\ ledger = [e \in Epochs |-> NoLedger]
    /\ worker = [w \in Workers |-> Idle]
    /\ elapsed = {}
    /\ faults = 0 /\ losses = 0 /\ late = FALSE

-----------------------------------------------------------------------------
(* mutate_budget and create_policy_activation                               *)

\* A record-only version replaces a record-only or missing one directly.
DirectRecordOnly(mode) ==
    mode = "record_only"
        /\ (policy.active # 0 => versions[policy.active].mode = "record_only")

ActivationUnfinished == activation.state \in Unfinished

\* An operator writes the next version.  Only an active policy that is not
\* published directly gets an activation, and only when the last one finished.
Update(status, mode, epoch, tightening) ==
    /\ latest < MaxGeneration
    /\ latest' = latest + 1
    /\ versions' = [versions EXCEPT ![latest + 1] = [epoch |-> epoch, mode |-> mode]]
    /\ \/ /\ status = "active" /\ ~DirectRecordOnly(mode)
          /\ ~ActivationUnfinished
          /\ tightening => policy.active # 0
          /\ policy' = [policy EXCEPT !.status = status, !.desired = latest + 1]
          /\ activation' = [gen |-> latest + 1, state |-> "desired",
                            deadline |-> IF tightening THEN "open" ELSE "none"]
       \/ /\ status # "active" \/ DirectRecordOnly(mode)
          /\ ~tightening
          /\ policy' = [status |-> status, desired |-> latest + 1,
                        active |-> IF DirectRecordOnly(mode) THEN latest + 1
                                                             ELSE policy.active]
          /\ UNCHANGED activation
    /\ UNCHANGED <<recoveries, redisVars, worker, elapsed, faults, losses, late>>

\* The tightening_deadline of a pending activation passes.
DeadlinePasses ==
    /\ activation.deadline = "open" /\ ActivationUnfinished
    /\ activation' = [activation EXCEPT !.deadline = "missed"]
    /\ UNCHANGED <<policy, versions, latest, recoveries, redisVars, worker, elapsed,
                   faults, losses, late>>

\* RuntimeSnapshot.policy_admission_ready on a current snapshot, which holds
\* only unfinished activations.
PolicyAdmissionReady ==
    activation.state \in {"none", "active", "finalized"} \/ activation.deadline # "missed"

-----------------------------------------------------------------------------
(* reconcile_policy_activation: load, one script, persist                   *)

\* reconcile_policy_activations reads the unfinished row; the recovery
\* generation is the highest one recorded for the desired epoch.
Load(w) ==
    /\ worker[w].step = "idle" /\ ActivationUnfinished
    /\ worker' = [worker EXCEPT ![w] =
           [step |-> "call", gen |-> activation.gen, state |-> activation.state,
            recovery |-> HighestRecovery(versions[activation.gen].epoch)]]
    /\ UNCHANGED <<pgVars, redisVars, elapsed, faults, losses, late>>

\* Mutant: STAGE refuses to repeat a candidate that is already staged.
StageAcceptsOnce(x) == hash.fence = 0

\* Whether each script answers other than conflict for the work x.
StageAccepts(x) ==
    hash.fence # 0 => /\ hash.fence = x.gen /\ hash.desiredRecovery = x.recovery
                      /\ hash.state \in {"staged", "armed"}
ArmAccepts(x) == hash.fence = x.gen /\ hash.state \in {"staged", "armed"}
AlreadyActivated(x) ==
    hash.state = "active" /\ hash.active = x.gen /\ hash.activeRecovery = x.recovery
ActivateAccepts(x) ==
    /\ hash.fence = x.gen /\ hash.desiredRecovery = x.recovery
    /\ AlreadyActivated(x) \/ hash.state = "armed"
RetireAccepts(x) ==
    /\ hash.active = x.gen /\ hash.fence = x.gen /\ hash.state = "active"
    /\ hash.cutoff \in {0, x.gen}
FinalizeAccepts(x) ==
    hash.active = x.gen /\ hash.fence = x.gen /\ hash.state \in {"active", "finalized"}

\* Mutant: activation overwrites the active fields without keeping the prior.
ActivatedHashDropsPrior(x) ==
    [hash EXCEPT !.prior = 0, !.priorRecovery = 0, !.cutoff = 0, !.active = x.gen,
                 !.activeRecovery = x.recovery, !.state = "active"]

\* Mutant: finalization clears the candidate but not the prior generation.
FinalizedHashKeepsPrior ==
    [hash EXCEPT !.fence = 0, !.desiredRecovery = 0, !.cutoff = 0]

\* What each accepted script leaves in the policy hash.
StagedHash(x) ==
    IF hash.fence = 0
    THEN [hash EXCEPT !.fence = x.gen, !.desiredRecovery = x.recovery, !.state = "staged"]
    ELSE hash
ArmedHash == [hash EXCEPT !.state = "armed"]
ActivatedHash(x) ==
    IF AlreadyActivated(x) THEN hash
    ELSE [hash EXCEPT !.prior = hash.active, !.priorRecovery = hash.activeRecovery,
                      !.cutoff = 0, !.active = x.gen, !.activeRecovery = x.recovery,
                      !.state = "active"]
RetiringHash(x) == [hash EXCEPT !.cutoff = x.gen]
FinalizedHash ==
    [hash EXCEPT !.state = "finalized", !.fence = 0, !.desiredRecovery = 0,
                 !.prior = 0, !.priorRecovery = 0, !.cutoff = 0]

\* STAGE also opens the ledger of an epoch that has none, with nothing charged.
StagedLedger(x) ==
    LET epoch == versions[x.gen].epoch
    IN  IF hash.fence = 0 /\ ~ledger[epoch].present
        THEN [ledger EXCEPT ![epoch] = [present |-> TRUE, recovery |-> x.recovery,
                                        opened |-> "uncharged"]]
        ELSE ledger

\* The script answered: step is where the worker stands next.  A conflict is an
\* error, and the pass leaves the row for the next one.
Answered(w, step) ==
    worker' = [worker EXCEPT ![w] = IF step = "idle" THEN Idle ELSE [@ EXCEPT !.step = step]]

Calls(w, state) == worker[w].step = "call" /\ worker[w].state = state

StillDesired(x) == activation.gen = x.gen /\ activation.state = "desired"

Stage(w) ==
    /\ Calls(w, "desired")
    /\ LET x == worker[w] IN
       \/ /\ StageAccepts(x)
          /\ hash' = StagedHash(x) /\ ledger' = StagedLedger(x)
          /\ late' = (late \/ (hash.fence = 0 /\ ~StillDesired(x)))
          /\ Answered(w, "persist")
       \/ /\ ~StageAccepts(x) /\ Answered(w, "idle") /\ UNCHANGED <<redisVars, late>>
    /\ UNCHANGED <<pgVars, elapsed, faults, losses>>

Arm(w) ==
    /\ Calls(w, "coordinator_staged")
    /\ \/ /\ ArmAccepts(worker[w]) /\ hash' = ArmedHash /\ Answered(w, "persist")
       \/ /\ ~ArmAccepts(worker[w]) /\ Answered(w, "idle") /\ UNCHANGED hash
    /\ UNCHANGED <<pgVars, ledger, elapsed, faults, losses, late>>

Activate(w) ==
    /\ Calls(w, "coordinator_armed")
    /\ \/ /\ ActivateAccepts(worker[w]) /\ hash' = ActivatedHash(worker[w])
          /\ Answered(w, "persist")
       \/ /\ ~ActivateAccepts(worker[w]) /\ Answered(w, "idle") /\ UNCHANGED hash
    /\ UNCHANGED <<pgVars, ledger, elapsed, faults, losses, late>>

\* begin_policy_retirement, then finalize_policy once the cutoff has passed.
Retire(w) ==
    /\ Calls(w, "active")
    /\ \/ /\ RetireAccepts(worker[w]) /\ hash' = RetiringHash(worker[w])
          /\ Answered(w, IF worker[w].gen \in elapsed THEN "finalize" ELSE "idle")
       \/ /\ ~RetireAccepts(worker[w]) /\ Answered(w, "idle") /\ UNCHANGED hash
    /\ UNCHANGED <<pgVars, ledger, elapsed, faults, losses, late>>

Finalize(w) ==
    /\ worker[w].step = "finalize"
    /\ \/ /\ FinalizeAccepts(worker[w]) /\ hash' = FinalizedHash /\ Answered(w, "persist")
       \/ /\ ~FinalizeAccepts(worker[w]) /\ Answered(w, "idle") /\ UNCHANGED hash
    /\ UNCHANGED <<pgVars, ledger, elapsed, faults, losses, late>>

\* The compare-and-swap of persist_activation_state and activate_policy_durably.
PersistMatches(x) ==
    /\ activation.gen = x.gen /\ activation.state = x.state
    /\ x.state = "coordinator_armed" => policy.desired = x.gen
NextState(state) ==
    CASE state = "desired"            -> "coordinator_staged"
      [] state = "coordinator_staged" -> "coordinator_armed"
      [] state = "coordinator_armed"  -> "active"
      [] OTHER                        -> "finalized"

Persist(w) ==
    /\ worker[w].step = "persist"
    /\ LET x == worker[w] IN
       \/ /\ PersistMatches(x)
          /\ activation' = [activation EXCEPT !.state = NextState(x.state)]
          /\ policy' = IF x.state = "coordinator_armed"
                       THEN [policy EXCEPT !.active = x.gen] ELSE policy
       \/ /\ ~PersistMatches(x) /\ UNCHANGED <<activation, policy>>
    /\ Answered(w, "idle")
    /\ UNCHANGED <<versions, latest, recoveries, redisVars, elapsed, faults, losses, late>>

\* The prior_cutoff_at that durable activation wrote passes.
CutoffPasses ==
    /\ activation.state = "active" /\ activation.gen \notin elapsed
    /\ elapsed' = elapsed \cup {activation.gen}
    /\ UNCHANGED <<pgVars, redisVars, worker, faults, losses, late>>

\* A worker gives up: process crash, Redis or PostgreSQL error, a reply that
\* was lost after the script ran.
Abandon(w) ==
    /\ worker[w].step # "idle" /\ faults < MaxFaults
    /\ faults' = faults + 1
    /\ Answered(w, "idle")
    /\ UNCHANGED <<pgVars, redisVars, elapsed, losses, late>>

-----------------------------------------------------------------------------
(* Coordinator recoveries and loss of the Redis state                       *)

\* create_coordinator_recoveries on the active enforcing version.
CreateRecovery ==
    /\ policy.status = "active" /\ policy.active # 0
    /\ versions[policy.active].mode = "enforce"
    /\ LET epoch == versions[policy.active].epoch IN
       /\ HighestRecovery(epoch) < MaxRecoveries
       /\ recoveries' = recoveries \cup
              {[epoch |-> epoch, number |-> HighestRecovery(epoch) + 1,
                gen |-> policy.active, installed |-> FALSE]}
    /\ UNCHANGED <<policy, versions, latest, activation, redisVars, worker, elapsed,
                   faults, losses, late>>

RecoveryInstalled(r) ==
    hash.activeRecovery = r.number /\ hash.fingerprint = <<r.epoch, r.number>>

\* Mutant: a recovery installs over whatever version is active.
RecoveryAcceptsAnyVersion(r) ==
    hash.active # 0 => RecoveryInstalled(r) \/ hash.activeRecovery + 1 = r.number

RecoveryAccepts(r) ==
    hash.active # 0 =>
        /\ hash.active = r.gen
        /\ RecoveryInstalled(r) \/ hash.activeRecovery + 1 = r.number

\* install_coordinator_recovery: the script, then the installation row, whose
\* update may be lost.
InstallRecovery(r) ==
    /\ ~r.installed /\ RecoveryAccepts(r)
    /\ IF hash.active # 0 /\ RecoveryInstalled(r) THEN UNCHANGED redisVars
       ELSE /\ hash' = [hash EXCEPT !.active = r.gen, !.activeRecovery = r.number,
                                    !.fingerprint = <<r.epoch, r.number>>,
                                    !.state = "finalized"]
            /\ ledger' = [ledger EXCEPT ![r.epoch] =
                   [present |-> TRUE, recovery |-> r.number, opened |-> "allowance"]]
    /\ \/ /\ recoveries' = (recoveries \ {r}) \cup {[r EXCEPT !.installed = TRUE]}
          /\ UNCHANGED faults
       \/ /\ faults < MaxFaults /\ faults' = faults + 1 /\ UNCHANGED recoveries
    /\ UNCHANGED <<policy, versions, latest, activation, worker, elapsed, losses, late>>

\* Redis loses the policy's keys (failover, eviction, metadata_ttl).
LoseState ==
    /\ losses < MaxLosses /\ losses' = losses + 1
    /\ hash' = EmptyHash /\ ledger' = [e \in Epochs |-> NoLedger]
    /\ UNCHANGED <<pgVars, worker, elapsed, faults, late>>

-----------------------------------------------------------------------------
WorkerStep(w) ==
    Load(w) \/ Stage(w) \/ Arm(w) \/ Activate(w) \/ Retire(w) \/ Finalize(w) \/ Persist(w)

Next ==
    \/ \E status \in Statuses, mode \in Modes, epoch \in Epochs, tightening \in BOOLEAN :
           Update(status, mode, epoch, tightening)
    \/ DeadlinePasses
    \/ CutoffPasses
    \/ \E w \in Workers : WorkerStep(w) \/ Abandon(w)
    \/ CreateRecovery
    \/ \E r \in recoveries : InstallRecovery(r)
    \/ LoseState

\* The worker loop ticks every 250 ms on every process and time passes.
Fairness == /\ \A w \in Workers : WF_vars(WorkerStep(w))
            /\ WF_vars(CutoffPasses)
            /\ WF_vars(\E r \in recoveries : InstallRecovery(r))

Spec == Init /\ [][Next]_vars
FairSpec == Spec /\ Fairness

-----------------------------------------------------------------------------
(* Properties                                                               *)

\* Every variable stays in its domain.
TypeOK ==
    /\ policy \in [status : {"active", "suspended"}, desired : 0 .. latest, active : 0 .. latest]
    /\ latest \in 0 .. MaxGeneration
    /\ activation.gen \in 0 .. latest
    /\ activation.state \in Unfinished \cup {"none", "finalized"}
    /\ hash.fence \in 0 .. latest /\ hash.active \in 0 .. latest
    /\ hash.prior \in 0 .. latest /\ hash.cutoff \in 0 .. latest
    /\ hash.state \in {"none", "staged", "armed", "active", "finalized"}
    /\ \A w \in Workers : worker[w].gen \in 0 .. latest
    /\ elapsed \subseteq Generations

\* select_config and validate_side of BUDGET_GRANT: Redis allocates from
\* version g under recovery generation n.
SelectConfig(g, n) ==
    \/ hash.active = g /\ hash.activeRecovery = n
    \/ /\ hash.state = "active" /\ hash.prior = g /\ hash.priorRecovery = n
       /\ hash.cutoff \notin elapsed
Allocatable(g, n) ==
    /\ versions[g].mode = "enforce" /\ SelectConfig(g, n)
    /\ ledger[versions[g].epoch].present /\ ledger[versions[g].epoch].recovery = n

\* The version a current runtime snapshot enforces.
Enforced == policy.active # 0 /\ versions[policy.active].mode = "enforce"
ActiveIsAllocatable == Enforced => Allocatable(policy.active, SnapshotRecovery(policy.active))

\* "Installing a candidate MUST NOT replace or disable the PostgreSQL-active
\* generation": at every point of the handshake, whatever workers interleave,
\* fail or repeat, Redis allocates from the version PostgreSQL enforces, unless
\* the Redis state was lost, a recovery was authorized or a STAGE ran late.
ActiveStaysAllocatable == (losses = 0 /\ recoveries = {} /\ ~late) => ActiveIsAllocatable

\* activate_policy_durably: the PostgreSQL pointer only moves to an activated
\* version that Redis is already allocating from, late workers and recoveries
\* included, unless Redis lost its state.
DurableAfterCoordinator ==
    [][\A g \in Generations :
          (activation.state = "coordinator_armed" /\ activation'.state = "active"
              /\ policy'.active = g /\ losses = 0)
              => hash.active = g /\ hash.state = "active"]_vars

\* "A bounded dual-generation transition": once an activation has finalized,
\* Redis allocates from no version but the one that activation published.
OnlyPublishedAllocates ==
    (losses = 0 /\ recoveries = {} /\ ~late /\ activation.state = "finalized") =>
        \A g \in 1 .. latest : Allocatable(g, 0) => g = activation.gen

\* Redis allocates for one published version at a time (OnlyPublishedAllocates), and
\* under a recovery generation an enforced version is only ever allocated from the
\* allowance that recovery authorized, never from a ledger STAGE opened.
AllocationIsPublished ==
    /\ OnlyPublishedAllocates
    /\ (Enforced /\ ActiveIsAllocatable /\ SnapshotRecovery(policy.active) > 0)
          => ledger[versions[policy.active].epoch].opened = "allowance"

\* The activation can no longer proceed: its Redis finalization was not
\* recorded, or a later version replaced the desired pointer without it.
FinalizeUnrecorded == activation.state = "active" /\ hash.fence # activation.gen
Displaced == ActivationUnfinished /\ policy.desired # activation.gen

\* Every activation finalizes, or ends in one of the states above, or a late
\* STAGE took its place in Redis; a missed tightening deadline closes the policy
\* only until the handshake has gone through.  Nothing is said once Redis lost
\* its state or a recovery was authorized.
ActivationSettles ==
    LET disturbed == losses > 0 \/ recoveries # {} \/ late IN
    /\ ActivationUnfinished ~>
          (activation.state = "finalized" \/ FinalizeUnrecorded \/ Displaced \/ disturbed)
    /\ ~PolicyAdmissionReady ~> (PolicyAdmissionReady \/ Displaced \/ disturbed)

=============================================================================
