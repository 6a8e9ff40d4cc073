----------------------------- MODULE StrictLease -----------------------------
(***************************************************************************)
(* Strict concurrency leases of one Gateway key: one Redis lease per       *)
(* request (adapters/coordinator.rs), and the request lifetime that ends   *)
(* before its lease can be reclaimed (gateway/admission.rs, lifetime.rs).  *)
(*                                                                         *)
(* Redis counts leases by its clock in whole milliseconds; a process only  *)
(* measures durations on its own monotonic clock.  A point in time is a    *)
(* millisecond and one of Resolution positions inside it, so that what     *)
(* Redis cannot see between two milliseconds can happen.  Scripts and      *)
(* answers take any time; releases and whole requests may be lost.         *)
(***************************************************************************)
EXTENDS Integers, FiniteSets

CONSTANTS
    Requests,         \* logical requests of the key, fleet-wide
    ConcurrencyLimit, \* concurrency_limit
    LeaseMillis,      \* lease_seconds, in milliseconds
    Resolution,       \* positions inside one millisecond
    MaxMillis,        \* bound: last millisecond
    MaxLosses         \* bound: requests and releases that are lost

ASSUME LeaseAssumption ==
    /\ IsFiniteSet(Requests)
    /\ ConcurrencyLimit \in Nat /\ LeaseMillis \in Nat \ {0} /\ Resolution \in Nat \ {0}
    /\ MaxMillis \in Nat \ {0} /\ MaxLosses \in Nat

VARIABLES
    now,       \* the time: ms and the position sub inside it
    leases,    \* Redis: expiry of each lease in the sorted set, 0 when absent
    request,   \* process: where each request stands
    losses     \* requests and releases lost so far

leaseVars == <<now, leases, request, losses>>

Time == [ms : Nat, sub : 0 .. Resolution - 1]

\* a is before b.
Before(a, b) == a.ms < b.ms \/ (a.ms = b.ms /\ a.sub < b.sub)

NoRequest == [step |-> "idle", started |-> [ms |-> 0, sub |-> 0],
              remaining |-> 0, deadline |-> [ms |-> 0, sub |-> 0]]

LeaseInit ==
    /\ now = [ms |-> 1, sub |-> 0]
    /\ leases = [r \in Requests |-> 0]
    /\ request = [r \in Requests |-> NoRequest]
    /\ losses = 0

-----------------------------------------------------------------------------
(* acquire_strict_concurrency                                               *)

\* The process notes the start of the acquisition and sends the script.
Ask(r) ==
    /\ request[r].step = "idle" /\ leases[r] = 0
    /\ request' = [request EXCEPT ![r].step = "asked", ![r].started = now]
    /\ UNCHANGED <<now, leases, losses>>

\* ZREMRANGEBYSCORE -inf now_ms leaves these leases.
Unexpired == {r \in Requests : leases[r] > now.ms}

\* Mutant: the limit is checked after the lease is added.
MayAcquireOneMore == Cardinality(Unexpired) <= ConcurrencyLimit

MayAcquire == Cardinality(Unexpired) < ConcurrencyLimit

\* What is left of the lease, less the resolution of the coordinator's clock.
Remaining(expiry) == IF expiry - now.ms > 1 THEN expiry - now.ms - 1 ELSE 0

\* STRICT_CONCURRENCY: expired leases go, then the lease is added or denied.
Acquire(r) ==
    /\ request[r].step = "asked"
    /\ IF MayAcquire
       THEN /\ leases' = [q \in Requests |->
                   IF q = r THEN now.ms + LeaseMillis
                   ELSE IF q \in Unexpired THEN leases[q] ELSE 0]
            /\ request' = [request EXCEPT ![r].step = "acquired",
                                                 ![r].remaining = Remaining(now.ms + LeaseMillis)]
       ELSE /\ leases' = [q \in Requests |-> IF q \in Unexpired THEN leases[q] ELSE 0]
            /\ request' = [request EXCEPT ![r] = NoRequest]
    /\ UNCHANGED <<now, losses>>

\* Mutant: what is left is measured from the arrival of the answer.
DeadlineFromAnswer(r) == [now EXCEPT !.ms = @ + request[r].remaining]

\* What is left is measured from the start: latency only shortens it.
Deadline(r) == [request[r].started EXCEPT !.ms = @ + request[r].remaining]

\* The answer arrives.  The lifetime is constrained by the deadline; a request
\* whose lifetime is over does no work and drops its permit.
Answer(r) ==
    /\ request[r].step = "acquired"
    /\ request' = [request EXCEPT ![r].deadline = Deadline(r), ![r].step =
           IF Before(now, Deadline(r)) THEN "running" ELSE "dropped"]
    /\ UNCHANGED <<now, leases, losses>>

-----------------------------------------------------------------------------
(* RequestLifetime and the dropped permit                                   *)

\* The request ends, at the latest when its lifetime is over.
EndRequest(r) ==
    /\ request[r].step = "running"
    /\ request' = [request EXCEPT ![r].step = "dropped"]
    /\ UNCHANGED <<now, leases, losses>>

\* release_strict_concurrency removes the lease; an error is only logged.
DropPermit(r) ==
    /\ request[r].step = "dropped"
    /\ request' = [request EXCEPT ![r] = NoRequest]
    /\ \/ leases' = [leases EXCEPT ![r] = 0] /\ UNCHANGED losses
       \/ losses < MaxLosses /\ losses' = losses + 1 /\ UNCHANGED leases
    /\ UNCHANGED now

\* The call times out, its caller goes away or the process dies: whatever the
\* request held in Redis stays there until it expires.
Vanish(r) ==
    /\ request[r].step # "idle" /\ losses < MaxLosses
    /\ losses' = losses + 1
    /\ request' = [request EXCEPT ![r] = NoRequest]
    /\ UNCHANGED <<now, leases>>

\* Another request of the key uses the slot once an orphaned lease has expired.
Reclaim(r) ==
    /\ request[r].step = "idle" /\ leases[r] # 0 /\ leases[r] <= now.ms
    /\ leases' = [leases EXCEPT ![r] = 0]
    /\ UNCHANGED <<now, request, losses>>

\* Time passes, but not over the deadline of a running request.
Tick ==
    LET next == IF now.sub + 1 < Resolution THEN [now EXCEPT !.sub = @ + 1]
                ELSE [ms |-> now.ms + 1, sub |-> 0]
    IN  /\ next.ms <= MaxMillis
        /\ \A r \in Requests : request[r].step = "running" => Before(next, request[r].deadline)
        /\ now' = next
        /\ UNCHANGED <<leases, request, losses>>

LeaseNext ==
    \/ Tick
    \/ \E r \in Requests :
           \/ Ask(r) \/ Acquire(r) \/ Answer(r) \/ EndRequest(r) \/ DropPermit(r)
           \/ Vanish(r) \/ Reclaim(r)

LeaseSpec == LeaseInit /\ [][LeaseNext]_leaseVars

-----------------------------------------------------------------------------
(* Properties                                                               *)

Running == {r \in Requests : request[r].step = "running"}

\* Every variable stays in its domain.
LeaseTypeOK ==
    /\ now \in Time /\ now.ms <= MaxMillis
    /\ leases \in [Requests -> 0 .. MaxMillis + LeaseMillis]
    /\ request \in [Requests -> [step : {"idle", "asked", "acquired", "running", "dropped"},
                                 started : Time, remaining : 0 .. LeaseMillis - 1,
                                 deadline : Time]]
    /\ losses \in 0 .. MaxLosses

\* "Local request execution ends before lease reclaim": while a request runs,
\* Redis still counts its lease, whatever delayed the script and its answer.
RunsUnderLease == \A r \in Running : leases[r] > now.ms

\* The limit itself: the fleet never runs more requests of the key than
\* concurrency_limit, lost releases and vanished processes included.
StrictLimit == Cardinality(Running) <= ConcurrencyLimit

=============================================================================
