--------------------------- MODULE WebSocketTurns ---------------------------
(***************************************************************************)
(* Responses over a WebSocket (gateway/websocket.rs): a connection carries *)
(* one turn after the other.  A turn is a request of its own, admitted on  *)
(* the runtime of its time; its attempts have the owners and its loop the  *)
(* rules of RequestDispatch.  The first turn chooses an upstream, the turns *)
(* after it go to the socket that completed the last one or nowhere.       *)
(*                                                                         *)
(* phase "idle" waits for the client, "done" means the connection is over. *)
(***************************************************************************)
EXTENDS RequestDispatch

VARIABLES
    pinned,     \* the target of the upstream socket that is kept, or "none"
    aged        \* the connection has outlived MAX_CONNECTION_LIFETIME

wsVars == <<vars, pinned, aged>>

\* Failover needs a request that is replay safe and continues no response.
TurnRequests == [safe : BOOLEAN, mode : {"websocket"}, ready : SUBSET Targets,
                 failover : BOOLEAN, needsSafe : {TRUE}]

\* A request over HTTP, or a connection that was upgraded.
WsInit ==
    /\ pinned = "none" /\ aged = FALSE
    /\ Init \/ \E r \in TurnRequests : Begins(r, "idle")

Turn == req.mode = "websocket"

\* The connection is over: the turn leaves its fact, the upstream is closed.
CloseConnection == Fail /\ pinned' = "none" /\ UNCHANGED aged

-----------------------------------------------------------------------------
(* Between turns                                                            *)

\* The client, a timeout, the drain or the authentication ends the connection.
CloseIdle ==
    /\ Turn /\ phase = "idle"
    /\ phase' = "done" /\ pinned' = "none"
    /\ UNCHANGED <<req, loop, att, history, logical, expired, committed, aged>>

\* response.create: authenticated, within the global ceiling and its bounds,
\* or refused once its logical record is open.
Create(r) ==
    /\ Turn /\ phase = "idle" /\ ~aged
    /\ req' = r
    /\ list' = <<>> /\ idx' = 1 /\ attempts' = 0 /\ distinct' = 0 /\ same' = 0
    /\ history' = <<>> /\ expired' = FALSE /\ committed' = FALSE
    /\ \/ /\ phase' = "admitting" /\ logical' = [state |-> "open", facts |-> 0, usage |-> {}]
          /\ UNCHANGED pinned
       \/ /\ phase' = "done" /\ logical' = [state |-> "recorded", facts |-> 1, usage |-> {}]
          /\ pinned' = "none"
    /\ UNCHANGED <<att, aged>>

-----------------------------------------------------------------------------
(* A turn up to its attempt                                                 *)

\* admit_turn
AdmitTurn ==
    /\ Turn /\ phase = "admitting"
    /\ \/ Resumes /\ phase' = "resolving" /\ UNCHANGED <<logical, pinned, aged>>
       \/ CloseConnection
    /\ UNCHANGED <<req, loop, att, history, expired, committed>>

\* select_candidate: the pinned target, if the runtime still has it as it was.
\* The policies of a pinned target are checked by its reservation only.
ResolvePinned ==
    /\ Turn /\ phase = "resolving" /\ pinned # "none"
    /\ \/ Resumes /\ list' = <<pinned>> /\ phase' = "reserving" /\ UNCHANGED <<logical, pinned, aged>>
       \/ CloseConnection /\ UNCHANGED list
    /\ UNCHANGED <<req, idx, attempts, distinct, same, att, history, expired, committed>>

\* candidates_for_request, or no candidates before the deadline.
ResolveInitial ==
    /\ Turn /\ pinned = "none"
    /\ \/ Resolve
       \/ /\ phase = "resolving" /\ Fail
          /\ UNCHANGED <<req, loop, att, history, expired, committed>>
    /\ UNCHANGED <<pinned, aged>>

\* prepare_turn_body
Unprepared ==
    /\ Turn /\ phase = "select" /\ ~Exhausted /\ list[idx] \in req.ready
    /\ CloseConnection
    /\ UNCHANGED <<req, loop, att, history, expired, committed>>

\* The loop over candidates ends when it may not fail over.
TurnLoop ==
    /\ Turn /\ phase = "loop"
    /\ IF MayAttempt THEN phase' = "reserving" /\ UNCHANGED <<idx, logical>>
       ELSE IF MayFailover THEN phase' = "select" /\ idx' = idx + 1 /\ UNCHANGED logical
       ELSE Fail /\ UNCHANGED idx
    /\ UNCHANGED <<req, list, attempts, distinct, same, att, history, expired, committed, pinned, aged>>

Attempting == [NoAttempt EXCEPT !.on = TRUE, !.target = list[idx]]

\* reserve_turn and try_acquire_target, for the first turn and for a pinned one,
\* which is sent without connecting.
ReserveTurn ==
    /\ Turn /\ phase = "reserving" /\ Resumes
    /\ attempts' = attempts + 1 /\ same' = same + 1
    /\ IF pinned = "none"
       THEN att' = Attempting /\ phase' = "connecting"
       ELSE att' = [Attempting EXCEPT !.dispatched = TRUE] /\ phase' = "sending"
    /\ UNCHANGED <<req, list, idx, distinct, history, logical, expired, committed, pinned, aged>>

\* Nothing was reserved, or not before the deadline.
TurnRefused ==
    /\ Turn /\ phase = "reserving"
    /\ IF pinned = "none"
       THEN phase' = "select" /\ idx' = idx + 1 /\ UNCHANGED <<logical, pinned, aged>>
       ELSE CloseConnection /\ UNCHANGED idx
    /\ UNCHANGED <<req, list, attempts, distinct, same, att, history, expired, committed>>

\* connect_candidate, after which the reservation is marked
Connected ==
    /\ Turn /\ phase = "connecting" /\ Resumes
    /\ phase' = "sending" /\ att' = [att EXCEPT !.dispatched = TRUE]
    /\ UNCHANGED <<req, loop, history, logical, expired, committed, pinned, aged>>

-----------------------------------------------------------------------------
(* How an attempt of a turn can fail                                        *)

Connecting ==
    {Verdict("refused", c, "unavailable", "refund", "failure") :
         c \in {"connect_failure", "connect_timeout", "none"}}
    \cup {Verdict("upgrade", c, "unavailable", "upgrade_lost", "failure") :
         c \in {"response_header_timeout", "connect_failure"}}
    \cup {Verdict("upgrade", c, "unavailable", "upgrade_answered", "failure") :
         c \in Status \cup {"response_header_timeout", "connect_failure", "none"}}
    \cup {Verdict("upgrade", "none", "terminal", "upgrade_answered", "failure")}

Unsent == {Verdict("unsent", "connect_failure", "unavailable", "drop", "failure")}

\* pre_exposure_failure: neither an event nor a response id was exposed.
Unexposed ==
    {Verdict("timeout", "response_header_timeout", "unavailable", "drop", "failure"),
     Verdict("ended", "provider_overloaded", "unavailable", "drop", "failure"),
     Verdict("malformed", "provider_5xx", "unavailable", "drop", "failure")}
    \cup {Verdict("status", c, "unavailable", "drop", "failure") : c \in Status}

\* TurnOutcome::ClosedFailure: an exposed response failed, or the socket did.
ClosedFailure == {Verdict("interrupted", "none", "terminal", "drop", "failure")}

\* Mutant: a turn whose events the client has seen is taken for unexposed.
ProxyingExposed == ClosedFailure \cup Unexposed

Proxying == ClosedFailure \cup (IF committed THEN {} ELSE Unexposed)

\* What can happen after the deadline, which wins against every other event.
AfterDeadline(v) ==
    v.cond \in PhaseTimeouts \/ v \in Unsent \/ (v \in ClosedFailure /\ committed)

TurnVerdicts(p) ==
    CASE p = "connecting" -> Connecting
      [] p = "sending"    -> Unsent
      [] p = "proxying"   -> Proxying
      [] OTHER            -> {}

\* The attempt of the first turn failed: retry, fail over or give up.  A pinned
\* turn has no second attempt.
TurnFails(v) ==
    /\ Turn /\ v \in TurnVerdicts(phase) /\ (Resumes \/ AfterDeadline(v))
    /\ v.evidence \in {"malformed", "status"} => att.received
    /\ EndAttempt(v)
    /\ LET final == v.kind = "terminal" \/ pinned # "none"
       IN \/ final /\ CloseConnection /\ UNCHANGED idx
          \/ ~final /\ RetrySame(v.cond) /\ ~expired /\ phase' = "backoff" /\ UNCHANGED <<logical, idx, pinned, aged>>
          \/ ~final /\ ~MayFailover /\ CloseConnection /\ UNCHANGED idx
          \/ ~final /\ MayFailover /\ phase' = "select" /\ idx' = idx + 1 /\ UNCHANGED <<logical, pinned, aged>>
    /\ UNCHANGED <<req, list, attempts, distinct, same, expired, committed>>

-----------------------------------------------------------------------------
(* proxy_active_turn                                                        *)

\* response.create was written to the socket.
Sent ==
    /\ Turn /\ phase = "sending" /\ Resumes
    /\ phase' = "proxying"
    /\ att' = [att EXCEPT !.settling = TRUE]
    /\ UNCHANGED <<req, loop, history, logical, expired, committed, pinned, aged>>

\* The provider has the request as soon as it is being written.
ReceiveTurn ==
    /\ Turn /\ phase \in {"sending", "proxying"} /\ ~att.received
    /\ att' = [att EXCEPT !.received = TRUE]
    /\ UNCHANGED <<req, phase, loop, history, logical, expired, committed, pinned, aged>>

\* An event of the provider: it is buffered or passed on, or it names the
\* response, whose origin is persisted before the client sees anything.
Event(usage) ==
    /\ Turn /\ phase = "proxying" /\ Resumes /\ att.received
    /\ Observe(usage)
    /\ \/ UNCHANGED phase
       \/ ~committed /\ phase' = "persisting"
    /\ UNCHANGED <<req, loop, history, expired, committed, pinned, aged>>

\* The origin is persisted: the buffered events are exposed.
Exposed ==
    /\ Turn /\ phase = "persisting" /\ Resumes
    /\ committed' = TRUE /\ phase' = "proxying"
    /\ UNCHANGED <<req, loop, att, history, logical, expired, pinned, aged>>

Terminated(circuit) ==
    [evidence |-> "complete", cond |-> "none", books |-> "drop", circuit |-> circuit]

\* A terminal event: settled and recorded, then delivered.  The socket is kept
\* for the next turn, also when the provider reported a failure; without a
\* response id only an error is passed on.
TurnCompletes(usage) ==
    /\ Turn /\ phase = "proxying" /\ Resumes /\ att.received
    /\ \E circuit \in {"success", "failure"} :
           /\ circuit = "success" => committed
           /\ LET last == IF usage = "absent" THEN att.usage ELSE usage
                  ended == [att EXCEPT !.usage = last]
              IN /\ history' = Append(history, Closed(ended, Terminated(circuit)))
                 /\ logical' = Finished([logical EXCEPT !.usage = IF last = "absent" THEN {} ELSE {attempts}])
    /\ att' = NoAttempt
    /\ pinned' = att.target /\ phase' = "idle"
    /\ UNCHANGED <<req, loop, expired, committed, aged>>

\* TurnOutcome::Closed: the client left, broke the protocol or did not take an
\* event, the origin was not persisted, or a terminal event names no response.
TurnCloses ==
    /\ Turn /\ phase \in {"proxying", "persisting"}
    /\ DropAttempt("cancelled")
    /\ CloseConnection
    /\ UNCHANGED <<req, loop, expired, committed>>

-----------------------------------------------------------------------------
(* Deadlines                                                                *)

TurnAwaits == {"resolving", "reserving", "connecting", "sending", "proxying", "persisting", "backoff"}

\* The outer before() of run_connection, or a shutdown after its grace: the
\* turn is dropped with its upstream.
TurnDropped ==
    /\ Turn /\ phase \in TurnAwaits
    /\ DropAttempt("deadline")
    /\ CloseConnection
    /\ UNCHANGED <<req, loop, expired, committed>>

\* The connection's lifetime ends, and with it the deadlines of its turn.
Age ==
    /\ Turn /\ ~aged /\ phase # "done"
    /\ aged' = TRUE /\ expired' = TRUE
    /\ UNCHANGED <<req, phase, loop, att, history, logical, committed, pinned>>

\* The steps a turn shares with any request.
SharedStep == Turn /\ (Select \/ Backoff \/ (Expire /\ phase # "idle")) /\ UNCHANGED <<pinned, aged>>

-----------------------------------------------------------------------------
TurnLocal == SharedStep \/ TurnLoop \/ (aged /\ CloseIdle)

TurnNext ==
    \/ CloseIdle \/ AdmitTurn \/ ResolvePinned \/ ResolveInitial \/ Unprepared \/ TurnLoop
    \/ ReserveTurn \/ TurnRefused \/ Connected \/ Sent \/ ReceiveTurn \/ Exposed
    \/ TurnCloses \/ TurnDropped \/ Age \/ SharedStep
    \/ \E r \in TurnRequests : Create(r)
    \/ \E v \in TurnVerdicts(phase) : TurnFails(v)
    \/ \E usage \in Usages : Event(usage) \/ TurnCompletes(usage)

HttpNext == ~Turn /\ Next /\ UNCHANGED <<pinned, aged>>

WsNext == HttpNext \/ TurnNext

WsSafety == WsInit /\ [][WsNext]_wsVars

\* As for a request: time passes and the process runs.
WsSpec ==
    /\ WsSafety
    /\ WF_wsVars(~Turn /\ Local /\ UNCHANGED <<pinned, aged>>)
    /\ WF_wsVars(~Turn /\ (Expire \/ DeadlineStops) /\ UNCHANGED <<pinned, aged>>)
    /\ WF_wsVars(TurnLocal) /\ WF_wsVars(Age)
    /\ WF_wsVars(expired /\ (TurnDropped \/ AdmitTurn))

=============================================================================
