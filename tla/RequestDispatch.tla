--------------------------- MODULE RequestDispatch ---------------------------
(***************************************************************************)
(* One logical request of the gateway (gateway/dispatch.rs): admission,    *)
(* the choice among candidates, attempts with retry and failover, and the  *)
(* delivery of the response.                                               *)
(*                                                                         *)
(* An attempt has three owners: its budget reservation, its usage record   *)
(* and its target permit.  Each is closed on the path that ends the        *)
(* attempt or, when a deadline or the client cancels the future at an      *)
(* await, by being dropped.  The request as a whole owns one usage record. *)
(***************************************************************************)
EXTENDS Integers, Sequences, FiniteSets, SequencesExt

CONSTANTS
    Targets,          \* the candidates of the route
    MaxTotal,         \* max_total_attempts
    MaxSame,          \* max_same_target_retries
    MaxFailover,      \* max_distinct_failover_targets
    RetryOn           \* retry_policy.conditions

Conditions == {"connect_failure", "connect_timeout", "response_header_timeout",
               "provider_rate_limited", "provider_overloaded", "provider_5xx"}

ASSUME DispatchAssumption ==
    /\ IsFiniteSet(Targets) /\ Targets # {}
    /\ MaxTotal \in Nat \ {0} /\ MaxSame \in Nat /\ MaxFailover \in Nat
    /\ RetryOn \subseteq Conditions

VARIABLES
    req,        \* what the request, its route and its policies are
    phase,      \* the await the request is at
    list, idx,  \* candidates in order, and the one under way
    attempts, distinct, same,
    att,        \* the attempt under way with its owners
    history,    \* ended attempts, and how their owners were closed
    logical,    \* LogicalTelemetry: its state, facts recorded and usage seen
    expired,    \* the deadline has passed
    committed   \* the response has started

vars == <<req, phase, list, idx, attempts, distinct, same, att, history, logical, expired, committed>>

NoAttempt == [on |-> FALSE, target |-> "none", dispatched |-> FALSE, received |-> FALSE,
              settling |-> FALSE, usage |-> "absent"]

\* Orders of the targets of a route; pinned requests have one candidate.
Orders == {s \in UNION {[1 .. n -> Targets] : n \in 1 .. Cardinality(Targets)} : IsInjective(s)}

Requests == [safe : BOOLEAN, mode : {"json", "sse"}, ready : SUBSET Targets,
             failover : BOOLEAN, needsSafe : BOOLEAN]

\* The request r before anything was done about it.
Begins(r, p) ==
    /\ req = r /\ phase = p
    /\ list = <<>> /\ idx = 1
    /\ attempts = 0 /\ distinct = 0 /\ same = 0
    /\ att = NoAttempt
    /\ history = <<>>
    /\ logical = [state |-> "none", facts |-> 0, usage |-> {}]
    /\ expired = FALSE /\ committed = FALSE

Init == \E r \in Requests : Begins(r, "arrive")

loop == <<list, idx, attempts, distinct, same>>

-----------------------------------------------------------------------------
(* Owners                                                                   *)

\* settle_from_usage: complete usage with a known price.
Settled(a) == a.settling /\ a.usage = "complete"

\* Mutant: the usage record forgets that the request was dispatched.
AccountsForget(a, books) ==
    CASE books = "refund"   -> [budget |-> "refunded", fact |-> "not_dispatched"]
      [] books = "answered" -> [budget |-> "abandoned", fact |-> "actual"]
      [] books = "upgrade_lost"     -> [budget |-> "refunded", fact |-> "ambiguous"]
      [] books = "upgrade_answered" -> [budget |-> "refunded", fact |-> "actual"]
      [] books = "drop"     -> IF Settled(a) THEN [budget |-> "settled", fact |-> "actual"]
                               ELSE [budget |-> IF a.dispatched THEN "abandoned" ELSE "refunded",
                                     fact |-> "not_dispatched"]

\* How the reservation and the usage record are closed: explicitly, by an
\* answer without a body to inspect, by the failed upgrade of a WebSocket, which
\* nothing was sent through, or by ResponseSettlement and the drops.
Accounts(a, books) ==
    CASE books = "refund"   -> [budget |-> "refunded", fact |-> "not_dispatched"]
      [] books = "answered" -> [budget |-> "abandoned", fact |-> "actual"]
      [] books = "upgrade_lost"     -> [budget |-> "refunded", fact |-> "ambiguous"]
      [] books = "upgrade_answered" -> [budget |-> "refunded", fact |-> "actual"]
      [] books = "drop"     -> IF Settled(a) THEN [budget |-> "settled", fact |-> "actual"]
                               ELSE IF a.dispatched THEN [budget |-> "abandoned", fact |-> "ambiguous"]
                               ELSE [budget |-> "refunded", fact |-> "not_dispatched"]

\* The attempt ends by verdict v.
Closed(a, v) ==
    [target |-> a.target, received |-> a.received, usage |-> a.usage, evidence |-> v.evidence,
     budget |-> Accounts(a, v.books).budget, fact |-> Accounts(a, v.books).fact,
     circuit |-> v.circuit]

EndAttempt(v) == att' = NoAttempt /\ history' = Append(history, Closed(att, v))

\* An await was cancelled: the attempt, if there is one, is dropped.
DropAttempt(evidence) ==
    IF att.on
    THEN EndAttempt([evidence |-> evidence, cond |-> "none", books |-> "drop", circuit |-> "dropped"])
    ELSE UNCHANGED <<att, history>>

\* LogicalTelemetry::finish and its drop record one fact, unless one was.
Finished(l) == IF l.state = "open" THEN [l EXCEPT !.state = "recorded", !.facts = @ + 1] ELSE l

\* A response that was served is recorded with its own usage.
Served(l) == Finished([l EXCEPT !.usage = IF att.usage = "absent" THEN {} ELSE {attempts}])

\* LogicalTelemetry::observe keeps the usage it was shown last.
Observed(l, usage) == IF usage = "absent" THEN l ELSE [l EXCEPT !.usage = {attempts}]

-----------------------------------------------------------------------------
(* Admission                                                                *)

\* before() prefers the deadline: nothing continues after it.
Resumes == ~expired

Denied == logical' = [logical EXCEPT !.facts = @ + 1] /\ phase' = "done"

\* Bounds and the global ceiling, before anything is awaited.  A route that
\* reaches dispatch has an active reliability policy in the same snapshot.
Arrive ==
    /\ phase = "arrive"
    /\ \/ Denied
       \/ phase' = "admitting" /\ UNCHANGED logical
    /\ UNCHANGED <<req, loop, att, history, expired, committed>>

\* admit_gateway_key
Admit ==
    /\ phase = "admitting" /\ Resumes
    /\ \/ Denied
       \/ phase' = "resolving" /\ logical' = [logical EXCEPT !.state = "open"]
    /\ UNCHANGED <<req, loop, att, history, expired, committed>>

\* gateway_error: the request ends with a failure.
Fail == phase' = "done" /\ logical' = Finished(logical)

\* candidates_for_request, and one candidate for a semantic reference.
Resolve ==
    /\ phase = "resolving" /\ Resumes
    /\ \/ phase' = "select" /\ UNCHANGED logical /\ list' \in Orders
       \/ Fail /\ UNCHANGED list
    /\ UNCHANGED <<req, idx, attempts, distinct, same, att, history, expired, committed>>

-----------------------------------------------------------------------------
(* The loop over candidates                                                 *)

Exhausted == idx > Len(list) \/ distinct > MaxFailover

Select ==
    /\ phase = "select"
    /\ \/ Exhausted /\ Fail /\ UNCHANGED <<idx, distinct, same>>
       \/ /\ ~Exhausted
          /\ IF list[idx] \in req.ready
             THEN distinct' = distinct + 1 /\ same' = 0 /\ phase' = "loop" /\ UNCHANGED idx
             ELSE idx' = idx + 1 /\ UNCHANGED <<distinct, same, phase>>
          /\ UNCHANGED logical
    /\ UNCHANGED <<req, list, attempts, att, history, expired, committed>>

MayAttempt == attempts < MaxTotal /\ same <= MaxSame /\ ~expired

Loop ==
    /\ phase = "loop"
    /\ IF MayAttempt THEN phase' = "reserving" /\ UNCHANGED idx
       ELSE phase' = "select" /\ idx' = idx + 1
    /\ UNCHANGED <<req, list, attempts, distinct, same, att, history, logical, expired, committed>>

\* reserve_attempt, then try_acquire_target, which refunds what it refuses.
Reserve ==
    /\ phase = "reserving" /\ Resumes
    /\ \/ /\ attempts' = attempts + 1 /\ same' = same + 1
          /\ att' = [NoAttempt EXCEPT !.on = TRUE, !.target = list[idx]]
          /\ phase' = "preparing"
          /\ UNCHANGED idx
       \/ phase' = "select" /\ idx' = idx + 1 /\ UNCHANGED <<attempts, same, att>>
    /\ UNCHANGED <<req, list, distinct, history, logical, expired, committed>>

-----------------------------------------------------------------------------
(* How an attempt can fail in each phase: what happened, the retry condition*)
(* and kind of error the code makes of it, how it closes the accounts and   *)
(* what it tells the circuit.                                               *)

Verdict(evidence, cond, kind, books, circuit) ==
    [evidence |-> evidence, cond |-> cond, kind |-> kind, books |-> books, circuit |-> circuit]

\* classify_pre_header_transport_error and the answers of the provider
Status == {"provider_rate_limited", "provider_overloaded", "provider_5xx"}

Preparing ==
    {Verdict("no_client", "connect_failure", "unavailable", "refund", "dropped"),
     Verdict("unprepared", "connect_failure", "terminal", "refund", "dropped")}

Authenticating ==
    {Verdict("authentication", "none", "unavailable", "refund", "failure"),
     Verdict("authentication", "connect_timeout", "unavailable", "refund", "failure")}

NotConnected == {Verdict("refused", c, "unavailable", "refund", "failure") :
                     c \in {"connect_failure", "connect_timeout"}}

\* Mutant: every transport error is taken for a connection that failed.
UnansweredRefunds ==
    {Verdict("reset", "connect_failure", "unavailable", "refund", "failure"),
     Verdict("timeout", "response_header_timeout", "unavailable", "refund", "failure")}

Unanswered ==
    {Verdict("reset", "connect_failure", "unavailable", "drop", "failure"),
     Verdict("timeout", "response_header_timeout", "unavailable", "drop", "failure")}

\* classify_upstream_status
Answered ==
    {Verdict("status", c, "unavailable", "answered", "failure") : c \in Status \cup {"none"}}
    \cup {Verdict("invalid", "provider_5xx", "terminal", "answered", "dropped")}

\* non_streaming_response
Reading ==
    {Verdict("timeout", "response_header_timeout", "unavailable", "drop", "failure"),
     Verdict("malformed", "provider_5xx", "unavailable", "drop", "failure")}

\* streaming_response before commitment, and stream_failure_result
Classifying ==
    {Verdict("timeout", "response_header_timeout", "unavailable", "drop", "failure"),
     Verdict("ended", "provider_overloaded", "unavailable", "drop", "failure"),
     Verdict("malformed", "provider_overloaded", "unavailable", "drop", "failure"),
     Verdict("invalid", "provider_5xx", "terminal", "drop", "dropped")}
    \cup {Verdict("status", c, "unavailable", "drop", "failure") : c \in Status \cup {"none"}}

Unpersisted == {Verdict("state_origin", "connect_failure", "terminal", "drop", "success")}

Verdicts(p) ==
    CASE p = "preparing"      -> Preparing
      [] p = "authenticating" -> Authenticating
      [] p = "sending"        -> Unanswered \cup (IF att.received THEN Answered ELSE NotConnected)
      [] p = "reading"        -> Reading
      [] p = "classifying"    -> Classifying
      [] p = "persisting"     -> Unpersisted
      [] OTHER                -> {}

\* Mutant: any request may be sent again.
RetrySameAny(cond) == cond \in RetryOn /\ same <= MaxSame /\ attempts < MaxTotal

RetrySame(cond) == req.safe /\ cond \in RetryOn /\ same <= MaxSame /\ attempts < MaxTotal

MayFailover == req.failover /\ (req.needsSafe => req.safe)

\* The timeouts of the phases end at the deadline at the latest.
PhaseTimeouts == {"connect_timeout", "response_header_timeout"}

\* The attempt failed: return, retry if the backoff fits the deadline, or take
\* the next candidate.
AttemptFails(v) ==
    /\ v \in Verdicts(phase)
    /\ phase = "preparing" \/ Resumes \/ v.cond \in PhaseTimeouts
    /\ EndAttempt(v)
    /\ \/ v.kind = "terminal" /\ Fail /\ UNCHANGED idx
       \/ v.kind # "terminal" /\ RetrySame(v.cond) /\ ~expired /\ phase' = "backoff" /\ UNCHANGED <<logical, idx>>
       \/ v.kind # "terminal" /\ ~MayFailover /\ Fail /\ UNCHANGED idx
       \/ v.kind # "terminal" /\ MayFailover /\ phase' = "select" /\ idx' = idx + 1 /\ UNCHANGED logical
    /\ UNCHANGED <<req, list, attempts, distinct, same, expired, committed>>

\* retry_backoff
Backoff ==
    /\ phase = "backoff" /\ Resumes
    /\ phase' = "loop"
    /\ UNCHANGED <<req, loop, att, history, logical, expired, committed>>

-----------------------------------------------------------------------------
(* How an attempt goes on                                                   *)

\* The body is prepared, then the request is authenticated and marked.
Proceed ==
    /\ \/ phase = "preparing" /\ phase' = "authenticating" /\ UNCHANGED att
       \/ phase = "authenticating" /\ Resumes /\ phase' = "sending" /\ att' = [att EXCEPT !.dispatched = TRUE]
    /\ UNCHANGED <<req, loop, history, logical, expired, committed>>

\* The provider has the request.
Receive ==
    /\ phase = "sending" /\ ~att.received
    /\ att' = [att EXCEPT !.received = TRUE]
    /\ UNCHANGED <<req, phase, loop, history, logical, expired, committed>>

\* A response that is not an error: ResponseSettlement takes over.
Headers ==
    /\ phase = "sending" /\ Resumes /\ att.received
    /\ att' = [att EXCEPT !.settling = TRUE]
    /\ phase' = IF req.mode = "json" THEN "reading" ELSE "classifying"
    /\ UNCHANGED <<req, loop, history, logical, expired, committed>>

Usages == {"absent", "partial", "complete"}

\* ResponseSettlement::observe
Observe(usage) ==
    /\ att' = [att EXCEPT !.usage = IF usage = "absent" THEN @ ELSE usage]
    /\ logical' = Observed(logical, IF usage = "absent" THEN att.usage ELSE usage)

\* The body was read, or a chunk of the stream inspected: more of it is
\* awaited, its state is persisted or the response is committed.
Inspect(usage) ==
    /\ phase \in {"reading", "classifying", "streaming"} /\ Resumes
    /\ Observe(usage)
    /\ \/ phase # "reading" /\ UNCHANGED phase
       \/ phase # "streaming" /\ phase' = "persisting"
    /\ UNCHANGED <<req, loop, history, expired, committed>>

Completed == [evidence |-> "complete", cond |-> "none", books |-> "drop", circuit |-> "success"]
Interrupted == [evidence |-> "interrupted", cond |-> "none", books |-> "drop", circuit |-> "failure"]

\* persist_state_origin succeeded, or there was nothing to persist: a JSON body
\* is settled before it is delivered, a stream takes the owners along.
Commit ==
    /\ phase = "persisting" /\ Resumes
    /\ committed' = TRUE
    /\ IF req.mode = "json"
       THEN EndAttempt(Completed) /\ logical' = Served(logical) /\ phase' = "delivering"
       ELSE phase' = "streaming" /\ UNCHANGED <<att, history, logical>>
    /\ UNCHANGED <<req, loop, expired>>

\* The stream ends by its terminal event, by a failure of the provider or by
\* its idle timeout; it may see its deadline before the pump around it does.
StreamEnds ==
    /\ phase = "streaming"
    /\ \/ Resumes /\ EndAttempt(Completed)
       \/ EndAttempt(Interrupted)
    /\ logical' = Served(logical)
    /\ phase' = "delivering"
    /\ UNCHANGED <<req, loop, expired, committed>>

\* The client has the whole body: hold_request_permits lets go.
Delivered ==
    /\ phase = "delivering"
    /\ phase' = "done"
    /\ UNCHANGED <<req, loop, att, history, logical, expired, committed>>

-----------------------------------------------------------------------------
(* Cancellation                                                             *)

Awaits == {"admitting", "resolving", "reserving", "authenticating", "sending", "reading",
           "classifying", "persisting", "backoff", "streaming", "delivering"}

\* Mutant: the stream has no deadline once it is committed.
BoundedUncommitted(p) == p \in Awaits \ {"streaming", "delivering"}

\* The awaits that a deadline of the request cancels.
Bounded(p) == p \in Awaits

\* The client disconnects, or the process shuts down: the future is dropped.
Cancel ==
    /\ phase \in Awaits
    /\ DropAttempt("cancelled")
    /\ logical' = Finished(logical)
    /\ phase' = "done"
    /\ UNCHANGED <<req, loop, expired, committed>>

Expire ==
    /\ ~expired /\ phase # "done"
    /\ expired' = TRUE
    /\ UNCHANGED <<req, phase, loop, att, history, logical, committed>>

\* before() returns at the deadline; a denied admission is recorded too.
DeadlineStops ==
    /\ expired /\ Bounded(phase)
    /\ DropAttempt("deadline")
    /\ logical' = IF phase = "admitting" THEN [logical EXCEPT !.facts = @ + 1] ELSE Finished(logical)
    /\ phase' = "done"
    /\ UNCHANGED <<req, loop, expired, committed>>

-----------------------------------------------------------------------------
\* What runs without awaiting anybody.
Local == Arrive \/ Select \/ Loop \/ (phase = "preparing" /\ (Proceed \/ \E v \in Preparing : AttemptFails(v)))

Next ==
    \/ Arrive \/ Admit \/ Resolve \/ Select \/ Loop \/ Reserve \/ Proceed \/ Receive \/ Headers
    \/ \E usage \in Usages : Inspect(usage)
    \/ \E v \in Verdicts(phase) : AttemptFails(v)
    \/ Backoff \/ Commit \/ StreamEnds \/ Delivered
    \/ Cancel \/ Expire \/ DeadlineStops

Spec == Init /\ [][Next]_vars

-----------------------------------------------------------------------------
(* Properties                                                               *)

AttemptsOn(t) == {i \in DOMAIN history : history[i].target = t}

\* The reservation, the usage record and the permit of every attempt are closed
\* once, and the budget and the usage record tell the same story: refunded is
\* not dispatched, or the upgrade of a WebSocket, and settled is actual.  An
\* admitted request leaves one logical fact, and no request leaves two.
AccountsAgree ==
    /\ Len(history) + (IF att.on THEN 1 ELSE 0) = attempts
    /\ phase = "done" => ~att.on
    /\ \A i \in DOMAIN history :
           /\ history[i].fact = "not_dispatched" => history[i].budget = "refunded"
           /\ history[i].budget = "refunded" =>
                  history[i].fact = "not_dispatched" \/ history[i].evidence = "upgrade"
           /\ history[i].budget = "settled" => history[i].fact = "actual"
    /\ logical.facts <= 1
    /\ phase = "done" /\ logical.state # "none" => logical.facts = 1

\* Only an attempt the provider cannot have received is refunded, whatever
\* error, timeout or cancellation ended it; complete usage is settled at its
\* price, also when the client, the deadline or a failure to persist the state
\* ends the attempt first.
ChargesMatchEvidence ==
    \A i \in DOMAIN history :
        /\ history[i].budget = "refunded" => ~history[i].received
        /\ history[i].usage = "complete" => history[i].budget = "settled"

\* A request that is not replay safe is sent to a target once, and to another
\* target only where the failover policy allows it; no request has more attempts
\* than its policy.
RepeatsAreAllowed ==
    /\ attempts <= MaxTotal
    /\ ~req.safe => /\ \A t \in Targets : Cardinality(AttemptsOn(t)) <= 1
                    /\ Cardinality({history[i].target : i \in DOMAIN history}) > 1 => MayFailover

\* "Expiry never authorizes another attempt", and nothing is tried after the
\* response was committed.
NoLateAttempt == [][attempts' > attempts => ~expired /\ ~committed]_vars

\* The request ends and its permits are released although provider, Redis and
\* client all stall, before and after commitment.
RequestEnds == <>(phase = "done")

=============================================================================
