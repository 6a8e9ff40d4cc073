-------------------------- MODULE RuntimePublisher --------------------------
(***************************************************************************)
(* Publication of runtime generations by one server process                *)
(* (crates/owlrora-server/src/runtime/publisher.rs).                       *)
(*                                                                         *)
(* PostgreSQL holds a commit-ordered revision counter and a journal that   *)
(* marks some revisions as security tightenings.  The process polls the    *)
(* two high-water marks, compiles a RuntimeGeneration from one repeatable  *)
(* read, observes the marks again (the fence) and swaps generation and     *)
(* PublicationStatus together.  Authentication captures the generation     *)
(* only while security_revision_is_current holds.                          *)
(***************************************************************************)
EXTENDS Integers

CONSTANTS
    MaxAge,       \* max_security_snapshot_age, in clock units
    Latency,      \* longest time from the snapshot of the revision query to its answer
    MaxAttempts,  \* build attempts of compile_fenced_generation (3 in the code)
    MaxRev,       \* bound: last revision that is committed
    MaxNow,       \* bound: last clock value
    MaxFaults     \* bound: failed queries and process crashes

ASSUME PublisherAssumption ==
    /\ MaxAge \in Nat /\ Latency \in Nat /\ MaxAttempts \in Nat \ {0}
    /\ MaxRev \in Nat /\ MaxNow \in Nat /\ MaxFaults \in Nat

VARIABLES
    dbRev,       \* runtime_revision_counter.current_revision
    dbSec,       \* highest revision the journal classifies as tightening
    tightenings, \* history: [rev, at] of every committed tightening
    now,         \* the wall clock
    up,          \* start() has returned: a PublishedRuntime exists
    gen,         \* PublishedRuntime.generation: revision, security_revision, unavailable clients
    status,      \* PublishedRuntime.status
    phase,       \* where the owner of the refresh mutex stands
    force,       \* the owner runs reconcile(true)
    attempt,     \* build attempt of compile_fenced_generation
    candidate,   \* the generation under construction
    seen,        \* answer of the revision query that is on its way
    schedule,    \* RefreshSchedule: observed revision, retry_at still ahead
    faults       \* failures spent so far

dbVars     == <<dbRev, dbSec, tightenings>>
ownerVars  == <<phase, force, attempt, candidate, seen>>
vars == <<dbRev, dbSec, tightenings, now, up, gen, status, phase, force,
          attempt, candidate, seen, schedule, faults>>

Generation  == [rev : Nat, sec : Nat, unavailable : BOOLEAN]
Status      == [rev : Nat, sec : Nat, confirmed : Nat, failed : BOOLEAN]
Observation == [rev : Nat, sec : Nat, at : Nat]
Schedule    == [observed : Nat \cup {-1}, backoff : BOOLEAN]

Phases == {"idle", "observe", "observing", "decide", "compile", "fence",
           "fencing", "publish"}

\* Nothing compiled, observed or scheduled yet.
NoGeneration  == [rev |-> 0, sec |-> 0, unavailable |-> FALSE]
NoStatus      == [rev |-> 0, sec |-> 0, confirmed |-> 0, failed |-> FALSE]
NoObservation == [rev |-> 0, sec |-> 0, at |-> 0]
NewSchedule   == [observed |-> -1, backoff |-> FALSE]

Maximum(a, b) == IF a >= b THEN a ELSE b

-----------------------------------------------------------------------------
(* Authority                                                               *)

\* Mutant: the age of the observation is not checked.
SecurityRevisionIsCurrentNoAge(sec, s) == s.sec <= sec

\* security_revision_is_current: everything observed is included, and the
\* observation is young enough.
SecurityRevisionIsCurrent(sec, s) ==
    /\ s.sec <= sec
    /\ now - s.confirmed \in 0 .. MaxAge

\* capture_for_authority returns a generation.
Capturable == up /\ SecurityRevisionIsCurrent(gen.sec, status)

-----------------------------------------------------------------------------
(* Environment: committed commands, time, faults                           *)

\* Every store of the refresh owner is released.
ResetOwner(p, a) ==
    /\ phase' = p
    /\ attempt' = a
    /\ force' = FALSE
    /\ candidate' = NoGeneration
    /\ seen' = NoObservation

\* commit_command with a runtime event: the counter row is locked until the
\* transaction ends, so revisions commit in order.
Commit(tightening) ==
    /\ dbRev < MaxRev
    /\ dbRev' = dbRev + 1
    /\ IF tightening
       THEN /\ dbSec' = dbRev + 1
            /\ tightenings' = tightenings \cup {[rev |-> dbRev + 1, at |-> now]}
       ELSE UNCHANGED <<dbSec, tightenings>>
    /\ UNCHANGED <<now, up, gen, status, ownerVars, schedule, faults>>

\* Time passes; a revision query answers within Latency of its snapshot, and
\* the synchronous steps take no time.
Tick ==
    /\ now < MaxNow
    /\ phase \in {"observing", "fencing"} => now < seen.at + Latency
    /\ phase \notin {"decide", "publish"}
    /\ now' = now + 1
    /\ UNCHANGED <<dbVars, up, gen, status, ownerVars, schedule, faults>>

\* The process dies, or start() returns its error, and it is started again.
Crash ==
    /\ faults < MaxFaults
    /\ faults' = faults + 1
    /\ up' = FALSE
    /\ gen' = NoGeneration
    /\ status' = NoStatus
    /\ schedule' = NewSchedule
    /\ ResetOwner("compile", 1)
    /\ UNCHANGED <<dbVars, now>>

-----------------------------------------------------------------------------
(* The revision query, shared by observe_revisions and start               *)

\* publication_revisions: one statement reads both marks; the answer travels.
ReadRevisions ==
    /\ \/ phase = "observe" /\ phase' = "observing"
       \/ phase = "fence" /\ phase' = "fencing"
    /\ seen' = [rev |-> dbRev, sec |-> dbSec, at |-> now]
    /\ UNCHANGED <<dbVars, now, up, gen, status, force, attempt, candidate,
                   schedule, faults>>

\* observe_revisions: the marks never go back, the confirmation is stamped now.
Observed == [rev |-> Maximum(status.rev, seen.rev),
             sec |-> Maximum(status.sec, seen.sec),
             confirmed |-> now,
             failed |-> status.failed]

-----------------------------------------------------------------------------
(* reconcile and reconcile_locked                                          *)

\* reconcile(f): the poll loop and explicit refreshes share one mutex.
Acquire(f) ==
    /\ up
    /\ phase = "idle"
    /\ phase' = "observe"
    /\ force' = f
    /\ UNCHANGED <<dbVars, now, up, gen, status, attempt, candidate, seen,
                   schedule, faults>>

\* The first observation of reconcile_locked; RefreshSchedule::observe forgets
\* the backoff when the revision is new.
Observe ==
    /\ phase = "observing"
    /\ status' = Observed
    /\ LET revision == Maximum(status.rev, seen.rev)
       IN  schedule' = IF schedule.observed = revision THEN schedule
                       ELSE [observed |-> revision, backoff |-> FALSE]
    /\ phase' = "decide"
    /\ seen' = NoObservation
    /\ UNCHANGED <<dbVars, now, up, gen, force, attempt, candidate, faults>>

\* Mutant: only unavailable credential clients ask for a rebuild.
NeedsRebuildClientsOnly == gen.unavailable

NeedsRebuild == status.rev > gen.rev \/ gen.unavailable

\* Nothing to do: a recorded error is cleared.
UpToDate ==
    /\ phase = "decide"
    /\ ~force /\ ~NeedsRebuild
    /\ status' = [status EXCEPT !.failed = FALSE]
    /\ ResetOwner("idle", 0)
    /\ UNCHANGED <<dbVars, now, up, gen, schedule, faults>>

\* A poll before retry_at leaves the rebuild for later.
WaitForRetry ==
    /\ phase = "decide"
    /\ ~force /\ NeedsRebuild /\ schedule.backoff
    /\ ResetOwner("idle", 0)
    /\ UNCHANGED <<dbVars, now, up, gen, status, schedule, faults>>

Rebuild ==
    /\ phase = "decide"
    /\ force \/ (NeedsRebuild /\ ~schedule.backoff)
    /\ phase' = "compile"
    /\ attempt' = 1
    /\ UNCHANGED <<dbVars, now, up, gen, status, force, candidate, seen,
                   schedule, faults>>

\* retry_at passes (1s doubling to 30s).
RetryDue ==
    /\ schedule.backoff
    /\ schedule' = [schedule EXCEPT !.backoff = FALSE]
    /\ UNCHANGED <<dbVars, now, up, gen, status, ownerVars, faults>>

-----------------------------------------------------------------------------
(* compile_fenced_generation                                               *)

\* compile_generation: one repeatable read fixes both marks and the content;
\* the clients built afterwards may leave some credentials unavailable.
Compile ==
    /\ phase = "compile"
    /\ \E u \in BOOLEAN :
           candidate' = [rev |-> dbRev, sec |-> dbSec, unavailable |-> u]
    /\ phase' = "fence"
    /\ UNCHANGED <<dbVars, now, up, gen, status, force, attempt, seen,
                   schedule, faults>>

\* Mutant: a candidate passes although a tightening overtook it.
FencePassesAlways == TRUE

FencePasses == Observed.sec <= candidate.sec

\* reconcile's error path: the generation stays, the error and the backoff are
\* recorded, the mutex is released.
FailRefresh(s) ==
    /\ status' = [s EXCEPT !.failed = TRUE]
    /\ schedule' = [schedule EXCEPT !.backoff = TRUE]
    /\ ResetOwner("idle", 0)

\* The fence of a refresh: the observation is recorded whatever follows; an
\* overtaken candidate is compiled again, at most MaxAttempts times.
FenceRefresh ==
    /\ up
    /\ phase = "fencing"
    /\ \/ /\ FencePasses
          /\ status' = Observed
          /\ phase' = "publish"
          /\ UNCHANGED <<attempt, schedule, force, candidate>>
          /\ seen' = NoObservation
       \/ /\ ~FencePasses /\ attempt < MaxAttempts
          /\ status' = Observed
          /\ phase' = "compile"
          /\ attempt' = attempt + 1
          /\ seen' = NoObservation
          /\ UNCHANGED <<schedule, force, candidate>>
       \/ /\ ~FencePasses /\ attempt >= MaxAttempts
          /\ FailRefresh(Observed)
    /\ UNCHANGED <<dbVars, now, up, gen, faults>>

\* The fence of start(): the first publication, another attempt, or the error
\* that ends the process.
FenceStart ==
    /\ ~up
    /\ phase = "fencing"
    /\ \/ /\ FencePasses
          /\ up' = TRUE
          /\ gen' = candidate
          /\ status' = [rev |-> seen.rev, sec |-> seen.sec,
                        confirmed |-> now, failed |-> FALSE]
          /\ ResetOwner("idle", 0)
       \/ /\ ~FencePasses
          /\ ResetOwner("compile", IF attempt < MaxAttempts THEN attempt + 1 ELSE 1)
          /\ UNCHANGED <<up, gen, status>>
    /\ UNCHANGED <<dbVars, now, schedule, faults>>

\* Mutant: the status is rebuilt from the candidate instead of from the
\* latest observation.
PublishedStatusFromCandidate == [status EXCEPT !.rev = candidate.rev, !.failed = FALSE]

PublishedStatus == [status EXCEPT !.failed = FALSE]

\* The pointer swap.  A candidate behind the published revision would be
\* refused; NeverRegresses shows that no candidate is.
Publish ==
    /\ phase = "publish"
    /\ candidate.rev >= gen.rev
    /\ gen' = candidate
    /\ status' = PublishedStatus
    /\ schedule' = [schedule EXCEPT !.backoff = candidate.unavailable]
    /\ ResetOwner("idle", 0)
    /\ UNCHANGED <<dbVars, now, up, faults>>

\* A query, the snapshot transaction or client construction fails.
Fail ==
    /\ up
    /\ phase \in {"observe", "observing", "compile", "fence", "fencing"}
    /\ faults < MaxFaults
    /\ faults' = faults + 1
    /\ FailRefresh(status)
    /\ UNCHANGED <<dbVars, now, up, gen>>

\* The request whose handler awaits refresh_now goes away: its future is
\* dropped at an await point and the mutex is released with nothing recorded.
Cancel ==
    /\ force
    /\ phase \in {"observe", "observing", "compile", "fence", "fencing"}
    /\ ResetOwner("idle", 0)
    /\ UNCHANGED <<dbVars, now, up, gen, status, schedule, faults>>

-----------------------------------------------------------------------------
Init ==
    /\ dbRev = 0 /\ dbSec = 0 /\ tightenings = {}
    /\ now = 0
    /\ up = FALSE
    /\ gen = NoGeneration
    /\ status = NoStatus
    /\ phase = "compile" /\ force = FALSE /\ attempt = 1
    /\ candidate = NoGeneration /\ seen = NoObservation
    /\ schedule = NewSchedule
    /\ faults = 0

Poll == Acquire(FALSE)

\* What the owner of the mutex (or start) does next.
OwnerStep ==
    \/ ReadRevisions \/ Observe \/ UpToDate \/ WaitForRetry \/ Rebuild
    \/ Compile \/ FenceRefresh \/ FenceStart \/ Publish

Next ==
    \/ \E tightening \in BOOLEAN : Commit(tightening)
    \/ Tick \/ Crash \/ RetryDue
    \/ Poll \/ Acquire(TRUE)
    \/ OwnerStep \/ Fail \/ Cancel

\* The owner's queries return; the interval of run_publication_loop fires every
\* second and tokio's mutex serves its waiters in order, so the poll gets its
\* turn however many refreshes compete; retry_at is at most 30 seconds away.
Fairness ==
    /\ WF_vars(OwnerStep)
    /\ SF_vars(Poll)
    /\ WF_vars(RetryDue)

Spec == Init /\ [][Next]_vars
FairSpec == Spec /\ Fairness

-----------------------------------------------------------------------------
(* Properties                                                              *)

\* Every variable stays in its domain.
TypeOK ==
    /\ dbRev \in Nat /\ dbSec \in Nat /\ now \in Nat /\ faults \in Nat
    /\ tightenings \subseteq [rev : Nat, at : Nat]
    /\ up \in BOOLEAN /\ force \in BOOLEAN
    /\ gen \in Generation /\ candidate \in Generation
    /\ status \in Status /\ seen \in Observation
    /\ phase \in Phases /\ attempt \in Nat
    /\ schedule \in Schedule

\* capture_for_authority (spec/09 6.4): a generation that may still decide
\* authentication includes every tightening committed more than MaxAge plus
\* one query latency ago, whatever failed, was cancelled or restarted since.
AuthorityFresh ==
    Capturable =>
        \A t \in tightenings : t.at + MaxAge + Latency < now => t.rev <= gen.sec

\* compile_fenced_generation: a generation is only ever published when it
\* includes the highest tightening this process has observed.
FencedPublication ==
    [][gen' # gen /\ up' => status'.sec <= gen'.sec]_vars

\* observe_revisions and the status swap: while the process lives, no later
\* observation, failed rebuild, repair or publication weakens the evidence.
EvidenceNeverWeakens ==
    [][up /\ up' => /\ status'.rev >= status.rev
                    /\ status'.sec >= status.sec
                    /\ status'.confirmed >= status.confirmed]_vars

\* reconcile_locked's regression check can never fail, and the reported lag
\* database_revision - applied_revision is never negative.
NeverRegresses ==
    up => /\ gen.rev <= status.rev
          /\ phase \in {"fence", "fencing", "publish"} => gen.rev <= candidate.rev

\* Every committed revision is eventually applied by the running process.
CommitsAreApplied ==
    \A r \in 1 .. MaxRev : (dbRev >= r) ~> (up /\ gen.rev >= r)

=============================================================================
