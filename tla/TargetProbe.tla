------------------------------ MODULE TargetProbe ------------------------------
(***************************************************************************)
(* Active probes of a target (gateway/health.rs) and the health summaries  *)
(* that gateway processes share in Redis.                                  *)
(*                                                                         *)
(* A target is bound to versions of its route, policy, deployment,         *)
(* endpoint, credential and client: its binding.  Every process plans the  *)
(* probes of its own published snapshot.  Who takes the lease of a binding *)
(* sends the request, stores what it finds and shares it; who does not     *)
(* takes over what the other shared.  Targets do not influence each other, *)
(* so there is one.  Its circuits are module TargetCircuit: what they say  *)
(* of the target when they are asked (local_health) is an open choice here.*)
(***************************************************************************)
EXTENDS Integers, FiniteSets

CONSTANTS
    Processes,
    Workers,          \* the processes whose worker runs, and
    Operators,        \* the ones where an operator asks for a probe
    Bindings,
    BindingOf,        \* the target's binding in each runtime revision, or None
    None,
    Interval, ProbeTimeout, StaleAfter, SummaryTtl,   \* policy of the target
    CommandTimeout,   \* of a call to Redis
    MaxTokens,        \* bound: probes started
    MaxInstant        \* bound: last instant

Revisions == DOMAIN BindingOf

ASSUME ProbeAssumption ==
    /\ None \notin Bindings /\ None \notin Nat /\ Workers \cup Operators \subseteq Processes
    /\ 1 \in Revisions /\ BindingOf \in [Revisions -> Bindings \cup {None}]
    /\ ProbeTimeout < Interval /\ StaleAfter \in Nat /\ SummaryTtl \in Nat
    /\ {Interval, CommandTimeout, ProbeTimeout, MaxTokens, MaxInstant} \subseteq Nat

\* The tasks that probe: the worker's, at most one at a time, and the operator's.
Probes == (Workers \X {"worker"}) \cup (Operators \X {"operator"})

\* What the circuits of a target say, and what a stored category does to requests:
\* only a recovery that has begun lets a share of them through.
Categories == {"healthy", "degraded", "open", "half_open", "recovering", "unavailable"}

Effect(category) ==
    CASE category \in {"healthy", "degraded"} -> {TRUE} [] category = "recovering" -> BOOLEAN [] OTHER -> {FALSE}

VARIABLES
    instant,
    published,    \* revision of the snapshot each process has published
    plan,         \* ProbePlan: revision and binding
    loop,         \* where the worker's loop is, the revision it sees and the one it scheduled
    schedule,     \* ScheduledProbe: binding and instant, or None
    probe,        \* the tasks
    tokens,       \* lease tokens given out
    lease,        \* Redis: owner and end of the lease of each binding
    shared,       \* Redis: the summary of each binding, or None
    observation,  \* what each process holds of the target, or None
    evidence      \* the instant each binding was last found unfit

probeVars == <<instant, published, plan, loop, schedule, probe, tokens, lease, shared, observation, evidence>>

NoLease == [owner |-> 0, until |-> 0]

Idle == [at |-> "idle"]

ProbeInit ==
    /\ instant = 1 /\ tokens = 0
    /\ published = [p \in Processes |-> 1]
    /\ plan = [p \in Processes |-> [revision |-> 0, binding |-> None]]
    /\ loop = [p \in Workers |-> [at |-> "top", seen |-> 0, scheduled |-> 0]]
    /\ schedule = [p \in Workers |-> None]
    /\ probe = [x \in Probes |-> Idle]
    /\ lease = [b \in Bindings |-> NoLease]
    /\ shared = [b \in Bindings |-> None]
    /\ observation = [p \in Processes |-> None]
    /\ evidence = [b \in Bindings |-> None]

(***************************************************************************)
(* The plan.  The snapshot is captured before the plan is locked, so a     *)
(* slow task can put an older plan back.                                   *)
(***************************************************************************)

\* collect_probe_specs: the binding, unless the target is not to be probed.
Planned(p, r) == IF plan[p].revision = r THEN plan[p] ELSE [revision |-> r, binding |-> BindingOf[r]]

\* A plan without the target forgets what was observed.
Retained(p, r) ==
    IF plan[p].revision # r /\ BindingOf[r] = None THEN None ELSE observation[p]

RefreshProbePlan(p, r) == plan' = [plan EXCEPT ![p] = Planned(p, r)]

(***************************************************************************)
(* The worker's loop.                                                      *)
(***************************************************************************)

LoopRefresh(p) ==
    /\ loop[p].at = "top"
    /\ RefreshProbePlan(p, published[p])
    /\ observation' = [observation EXCEPT ![p] = Retained(p, published[p])]
    /\ loop' = [loop EXCEPT ![p].at = "schedule", ![p].seen = published[p]]
    /\ UNCHANGED <<instant, published, schedule, probe, tokens, lease, shared, evidence>>

\* An unchanged binding keeps its instant.
ReconcileProbeSchedule(p) ==
    CASE loop[p].scheduled = loop[p].seen -> schedule[p]
      [] plan[p].binding = None -> None
      [] schedule[p] # None /\ schedule[p].binding = plan[p].binding -> schedule[p]
      [] OTHER -> [binding |-> plan[p].binding, due |-> instant]

Started(p, kind) ==
    /\ tokens < MaxTokens
    /\ tokens' = tokens + 1
    /\ probe' = [probe EXCEPT ![<<p, kind>>] =
          [at |-> "lease", binding |-> plan[p].binding, token |-> tokens + 1, since |-> instant]]

\* A due target is probed, or comes back a little later while its probe is in flight;
\* one that has left the plan is forgotten.
LoopSchedule(p) ==
    LET entry == ReconcileProbeSchedule(p) IN
    /\ loop[p].at = "schedule"
    /\ loop' = [loop EXCEPT ![p] = [at |-> "top", seen |-> 0, scheduled |-> loop[p].seen]]
    /\ \/ /\ entry = None \/ (entry # None => entry.due > instant)
          /\ schedule' = [schedule EXCEPT ![p] = entry]
          /\ UNCHANGED <<probe, tokens>>
       \/ /\ entry # None /\ (entry # None => entry.due <= instant)
          /\ IF probe[<<p, "worker">>] # Idle
             THEN schedule' = [schedule EXCEPT ![p] = [entry EXCEPT !.due = instant + 1]] /\ UNCHANGED <<probe, tokens>>
             ELSE IF plan[p].binding = None
             THEN schedule' = [schedule EXCEPT ![p] = None] /\ UNCHANGED <<probe, tokens>>
             ELSE /\ schedule' = [schedule EXCEPT ![p] = [binding |-> plan[p].binding, due |-> instant + Interval]]
                  /\ Started(p, "worker")
    /\ UNCHANGED <<instant, published, plan, lease, shared, observation, evidence>>

(***************************************************************************)
(* A probe.                                                                *)
(***************************************************************************)

\* probe_now: capture, then refresh the plan and take its spec.
BeginProbeNow(p) ==
    /\ probe[<<p, "operator">>] = Idle
    /\ probe' = [probe EXCEPT ![<<p, "operator">>] = [at |-> "capture", captured |-> published[p]]]
    /\ UNCHANGED <<instant, published, plan, loop, schedule, tokens, lease, shared, observation, evidence>>

ProbeNow(p) ==
    LET x == <<p, "operator">> IN
    /\ probe[x].at = "capture"
    /\ RefreshProbePlan(p, probe[x].captured)
    /\ observation' = [observation EXCEPT ![p] = Retained(p, probe[x].captured)]
    /\ IF plan'[p].binding = None THEN probe' = [probe EXCEPT ![x] = Idle] /\ UNCHANGED tokens
       ELSE /\ tokens < MaxTokens /\ tokens' = tokens + 1
            /\ probe' = [probe EXCEPT ![x] = [at |-> "lease", binding |-> plan'[p].binding,
                                              token |-> tokens + 1, since |-> instant]]
    /\ UNCHANGED <<instant, published, loop, schedule, lease, shared, evidence>>

At(x, step) == probe[x].at = step

End(x) == probe' = [probe EXCEPT ![x] = Idle]

Goto(x, step) == probe' = [probe EXCEPT ![x].at = step]

InTime(x) == instant - probe[x].since <= CommandTimeout

\* SET NX PX at Redis.
TryAcquireLease(x) ==
    LET b == probe[x].binding IN
    /\ At(x, "lease")
    /\ \/ /\ lease[b] = NoLease
          /\ lease' = [lease EXCEPT ![b] = [owner |-> probe[x].token, until |-> instant + Interval]]
          /\ Goto(x, "granted")
       \/ /\ lease[b] # NoLease
          /\ Goto(x, "refused") /\ UNCHANGED lease
    /\ UNCHANGED <<instant, published, plan, loop, schedule, tokens, shared, observation, evidence>>

\* A call or its answer is lost, a permit is refused or a shutdown aborts the task.
Abandon(x) ==
    /\ probe[x].at \in {"lease", "granted", "refused", "read", "seen", "request", "put"}
    /\ End(x)
    /\ UNCHANGED <<instant, published, plan, loop, schedule, tokens, lease, shared, observation, evidence>>

Permitted(x) ==
    /\ At(x, "granted") /\ InTime(x)
    /\ probe' = [probe EXCEPT ![x].at = "request", ![x].since = instant]
    /\ UNCHANGED <<instant, published, plan, loop, schedule, tokens, lease, shared, observation, evidence>>

\* What a process observed itself is kept against a summary of another while it is fresh.
ObservationReplaces(old, new) ==
    old.binding # new.binding \/ instant >= old.fresh \/ new.own \/ ~old.own

StoreObservation(p, kept, new) ==
    observation' = [observation EXCEPT ![p] =
        IF kept = None \/ (kept # None => ObservationReplaces(kept, new)) THEN new ELSE kept]

\* record_observation, with the health h: stored here, then sent to Redis.
RecordObservation(x, kept, h) ==
    LET b == probe[x].binding
        own == [binding |-> b, effect |-> Effect(h), own |-> TRUE, fresh |-> instant + StaleAfter] IN
    /\ StoreObservation(x[1], kept, own)
    /\ probe' = [probe EXCEPT ![x] =
          [at |-> "put", binding |-> b, token |-> probe[x].token, effect |-> Effect(h), observed |-> instant]]
    /\ evidence' = IF FALSE \in Effect(h) THEN [evidence EXCEPT ![b] = instant] ELSE evidence

CircuitOpen(x) ==
    /\ At(x, "granted") /\ InTime(x)
    /\ \E h \in {"open", "half_open", "recovering"} : RecordObservation(x, observation[x[1]], h)
    /\ UNCHANGED <<instant, published, plan, loop, schedule, tokens, lease, shared>>

\* The answer, or the deadline.
Answer(x) ==
    \E outcome \in {"success", "failure", "no_evidence"} :
        /\ At(x, "request")
        /\ outcome # "failure" => instant - probe[x].since <= ProbeTimeout
        /\ probe' = [probe EXCEPT ![x] =
              [at |-> "answered", binding |-> probe[x].binding, token |-> probe[x].token,
               outcome |-> outcome, captured |-> published[x[1]]]]
        /\ UNCHANGED <<instant, published, plan, loop, schedule, tokens, lease, shared, observation, evidence>>

\* What the circuits say once they know the result.
AfterPermit(outcome) ==
    IF outcome = "success" THEN {"healthy", "half_open", "recovering", "unavailable"}
    ELSE {"degraded", "open", "unavailable"}

\* The result counts if it says something of the target and the binding is still planned.
Finish(x) ==
    LET p == x[1]
        b == probe[x].binding
        kept == Retained(p, probe[x].captured) IN
    /\ At(x, "answered")
    /\ RefreshProbePlan(p, probe[x].captured)
    /\ IF plan'[p].binding # b \/ probe[x].outcome = "no_evidence"
       THEN End(x) /\ observation' = [observation EXCEPT ![p] = kept] /\ UNCHANGED evidence
       ELSE \E h \in AfterPermit(probe[x].outcome) : RecordObservation(x, kept, h)
    /\ UNCHANGED <<instant, published, loop, schedule, tokens, lease, shared>>

\* Mutant: the summary is stored without the lease.
OwnsAny(x) == TRUE

OwnsLease(x) == lease[probe[x].binding].owner = probe[x].token

\* TARGET_HEALTH_PUT_SCRIPT
PutTargetHealthSummary(x) ==
    /\ At(x, "put")
    /\ shared' = IF OwnsLease(x)
                 THEN [shared EXCEPT ![probe[x].binding] =
                         [effect |-> probe[x].effect, observed |-> probe[x].observed,
                          until |-> instant + SummaryTtl]]
                 ELSE shared
    /\ End(x)
    /\ UNCHANGED <<instant, published, plan, loop, schedule, tokens, lease, observation, evidence>>

\* Somebody else has the lease: its summary is read, with the time it has left.
BeginSync(x) ==
    /\ At(x, "refused") /\ InTime(x)
    /\ probe' = [probe EXCEPT ![x].at = "read", ![x].since = instant]
    /\ UNCHANGED <<instant, published, plan, loop, schedule, tokens, lease, shared, observation, evidence>>

GetTargetHealthSummary(x) ==
    LET s == shared[probe[x].binding] IN
    /\ At(x, "read")
    /\ s # None
    /\ probe' = [probe EXCEPT ![x] =
          [at |-> "seen", binding |-> probe[x].binding, since |-> probe[x].since,
           effect |-> s.effect, remaining |-> s.until - instant]]
    /\ UNCHANGED <<instant, published, plan, loop, schedule, tokens, lease, shared, observation, evidence>>

SyncSharedObservation(x) ==
    LET s == probe[x] IN
    /\ At(x, "seen") /\ InTime(x)
    /\ StoreObservation(x[1], observation[x[1]],
          [binding |-> s.binding, effect |-> s.effect, own |-> FALSE,
           fresh |-> instant + IF s.remaining < StaleAfter THEN s.remaining ELSE StaleAfter])
    /\ End(x)
    /\ UNCHANGED <<instant, published, plan, loop, schedule, tokens, lease, shared, evidence>>

(***************************************************************************)
(* What a request is told.  While a target recovers a growing share of the *)
(* requests is let through: the model allows either decision.              *)
(***************************************************************************)

LocalHealthDecision(h) ==
    CASE h = "open" -> {FALSE} [] h = "recovering" -> BOOLEAN [] OTHER -> {}

\* Mutant: an observation is used for every binding.
ObservationOfAny(o, b) == IF instant >= o.fresh THEN {TRUE} ELSE o.effect

ObservationAllowsCandidate(o, b) ==
    IF o.binding # b \/ instant >= o.fresh THEN {TRUE} ELSE o.effect

\* The decisions about binding b in process p when its circuits say h.
AllowsCandidate(p, b, h) ==
    IF LocalHealthDecision(h) # {} THEN LocalHealthDecision(h)
    ELSE IF observation[p] = None THEN {TRUE} ELSE ObservationAllowsCandidate(observation[p], b)

(***************************************************************************)
(* The surroundings.                                                       *)
(***************************************************************************)

Publish(p) ==
    /\ published[p] + 1 \in Revisions
    /\ published' = [published EXCEPT ![p] = @ + 1]
    /\ UNCHANGED <<instant, plan, loop, schedule, probe, tokens, lease, shared, observation, evidence>>

\* Redis forgets what has expired.
ProbeTick ==
    /\ instant < MaxInstant /\ instant' = instant + 1
    /\ lease' = [b \in Bindings |-> IF lease[b].until <= instant + 1 THEN NoLease ELSE lease[b]]
    /\ shared' = [b \in Bindings |-> IF shared[b] = None THEN None
                                     ELSE IF shared[b].until <= instant + 1 THEN None ELSE shared[b]]
    /\ UNCHANGED <<published, plan, loop, schedule, probe, tokens, observation, evidence>>

ProbeNext ==
    \/ ProbeTick
    \/ \E p \in Processes : Publish(p)
    \/ \E p \in Workers : LoopRefresh(p) \/ LoopSchedule(p)
    \/ \E p \in Operators : BeginProbeNow(p) \/ ProbeNow(p)
    \/ \E x \in Probes :
          \/ TryAcquireLease(x) \/ Abandon(x) \/ Permitted(x) \/ CircuitOpen(x) \/ Answer(x) \/ Finish(x)
          \/ PutTargetHealthSummary(x) \/ BeginSync(x) \/ GetTargetHealthSummary(x)
          \/ SyncSharedObservation(x)

ProbeSpec == ProbeInit /\ [][ProbeNext]_probeVars

(***************************************************************************)
(* Properties.                                                             *)
(***************************************************************************)

\* How long a summary can be used after it was observed: it is stored while its
\* probe has the lease, lives SummaryTtl and may be on its way for CommandTimeout.
UseSpan == LET viaRedis == Interval + SummaryTtl + CommandTimeout IN
           IF viaRedis > StaleAfter THEN viaRedis ELSE StaleAfter

\* A request is kept from a target whose own circuits let it through only when a
\* probe of this very binding, here or in another process, found it unfit not long
\* ago: late results and summaries of a binding that was replaced keep nobody out
\* (observation_allows_candidate, sync_shared_observation, record_observation).
ExclusionHasEvidence ==
    \A p \in Processes, b \in Bindings, h \in Categories \ {"open", "recovering"} :
        FALSE \in AllowsCandidate(p, b, h) =>
            /\ evidence[b] # None
            /\ evidence[b] # None => instant - evidence[b] <= UseSpan

\* The shared summary of a binding is never replaced by an older observation, though a
\* probe may send it long after its lease has gone to another process
\* (try_acquire_target_probe_lease, TARGET_HEALTH_PUT_SCRIPT).
SummariesMoveForward ==
    [][\A b \in Bindings : shared[b] # None /\ shared'[b] \notin {None, shared[b]} =>
          shared'[b].observed >= shared[b].observed]_probeVars
================================================================================
