------------------------ MODULE WebSocketTurnsProofs ------------------------
(***************************************************************************)
(* Requests over HTTP and turns over a WebSocket, for every set of         *)
(* targets, every attempt limit and every retry policy.                    *)
(*                                                                         *)
(* The accounts of an attempt agree because each phase knows how far the   *)
(* attempt has got (AttemptAgrees): what is refunded explicitly was never  *)
(* received, and usage is only seen once ResponseSettlement owns the       *)
(* reservation.  A request that is not replay safe moves down an injective *)
(* list and never back (NotRepeated).                                      *)
(***************************************************************************)
EXTENDS WebSocketTurns, FiniteSetTheorems, TLAPS

-----------------------------------------------------------------------------
(* The inductive invariant                                                  *)

\* Nothing was sent yet; a response is inspected; an attempt is under way.
Opening == {"preparing", "authenticating", "connecting"}
Settling == {"reading", "classifying", "persisting", "streaming", "proxying"}
Attempts == Opening \cup {"sending"} \cup Settling

\* Before the loop over candidates, in it, and after it.
Entering == {"arrive", "admitting", "resolving"}
Looping == {"select", "loop", "reserving", "backoff"} \cup Attempts
Over == {"delivering", "idle", "done"}
Phases == Entering \cup Looping \cup Over

Evidences == {"no_client", "unprepared", "authentication", "refused", "reset", "timeout", "status",
              "invalid", "malformed", "ended", "state_origin", "complete", "interrupted",
              "cancelled", "deadline", "upgrade", "unsent"}
Circuits == {"success", "failure", "dropped"}

Attempt == [on : BOOLEAN, target : Targets \cup {"none"}, dispatched : BOOLEAN,
            received : BOOLEAN, settling : BOOLEAN, usage : Usages]
Entry == [target : Targets \cup {"none"}, received : BOOLEAN, usage : Usages, evidence : Evidences,
          budget : {"refunded", "abandoned", "settled"},
          fact : {"not_dispatched", "ambiguous", "actual"}, circuit : Circuits]
Telemetry == [state : {"none", "open", "recorded"}, facts : Nat, usage : SUBSET Nat]

TypeOK ==
    /\ req \in Requests \cup TurnRequests /\ phase \in Phases
    /\ list \in Seq(Targets) /\ idx \in Nat \ {0}
    /\ attempts \in Nat /\ distinct \in Nat /\ same \in Nat
    /\ att \in Attempt /\ history \in Seq(Entry) /\ logical \in Telemetry
    /\ expired \in BOOLEAN /\ committed \in BOOLEAN
    /\ pinned \in Targets \cup {"none"} /\ aged \in BOOLEAN

\* How far the attempt under way has got, by the phase it is in.
AttemptAgrees ==
    /\ att.on <=> phase \in Attempts
    /\ ~att.on => att = NoAttempt
    /\ phase \in Opening => ~att.dispatched
    /\ phase \in Opening \cup {"sending"} => att.usage = "absent"
    /\ att.received => att.dispatched
    /\ phase \in Settling \cup {"sending"} => att.dispatched
    /\ phase \in Settling => att.settling

\* Every attempt is under way or in the history, and there are not too many.
AttemptsCounted ==
    /\ Len(history) + (IF att.on THEN 1 ELSE 0) = attempts
    /\ attempts <= MaxTotal
    /\ phase = "reserving" => attempts < MaxTotal
    /\ phase \in Entering => attempts = 0

\* One ended attempt: the budget, the usage record and what happened agree.
EntryAgrees(h) ==
    /\ h.fact = "not_dispatched" => h.budget = "refunded"
    /\ h.budget = "refunded" => h.fact = "not_dispatched" \/ h.evidence = "upgrade"
    /\ h.budget = "settled" => h.fact = "actual"
    /\ h.budget = "refunded" => ~h.received
    /\ h.usage = "complete" => h.budget = "settled"

EntriesAgree == \A i \in DOMAIN history : EntryAgrees(history[i])

\* The logical record is opened once and recorded once.
LogicalAgrees ==
    /\ logical.state = "none" => logical.facts = 0 \/ (logical.facts = 1 /\ phase = "done")
    /\ logical.state = "open" => logical.facts = 0 /\ phase \notin Over
    /\ logical.state = "recorded" => logical.facts = 1
    /\ ~Turn /\ phase \in {"arrive", "admitting"} => logical.state = "none"

\* The candidate under way is one of the list, which has no duplicates.
ListAgrees ==
    /\ IsInjective(list)
    /\ phase \in Entering => idx = 1
    /\ phase \in Looping \ {"select"} => idx <= Len(list)
    /\ att.on => att.target = list[idx]

\* A request that is not replay safe never goes back to an earlier candidate,
\* and to a later one only if it may fail over.
NotRepeated ==
    ~req.safe =>
        /\ phase # "backoff"
        /\ \A i, k \in DOMAIN history : history[i].target = history[k].target => i = k
        /\ phase \in Looping => \A i \in DOMAIN history :
               \E j \in DOMAIN list : j < idx /\ history[i].target = list[j]
        /\ phase \in Looping /\ history # <<>> => MayFailover
        /\ Len(history) > 1 => MayFailover

\* Once the response has started there is nothing left but to end it.
CommittedIsLast == committed => phase \in {"streaming", "proxying"} \cup Over

IInv == /\ TypeOK /\ AttemptAgrees /\ AttemptsCounted /\ EntriesAgree /\ LogicalAgrees
        /\ ListAgrees /\ NotRepeated /\ CommittedIsLast

\* What changes with neither the attempt nor the loop over candidates.
OthersTyped ==
    /\ distinct' \in Nat /\ same' \in Nat /\ logical' \in Telemetry
    /\ expired' \in BOOLEAN /\ committed' \in BOOLEAN
    /\ pinned' \in Targets \cup {"none"} /\ aged' \in BOOLEAN

-----------------------------------------------------------------------------
(* Verdicts and accounts                                                    *)

\* The verdict v may close the attempt a: only drops look at usage, only what
\* nobody received is refunded, and only an upgrade is refunded when answered.
Fits(a, v) ==
    /\ v.books \in {"refund", "answered", "upgrade_lost", "upgrade_answered", "drop"}
    /\ v.evidence \in Evidences /\ v.circuit \in Circuits
    /\ v.books # "drop" => a.usage = "absent"
    /\ v.books \in {"refund", "upgrade_lost", "upgrade_answered"} => ~a.received
    /\ v.books \in {"upgrade_lost", "upgrade_answered"} => v.evidence = "upgrade"

\* A verdict that fits leaves accounts that agree.
LEMMA ClosedAgrees ==
    ASSUME NEW a \in Attempt, NEW v, Fits(a, v),
           a.received => a.dispatched, a.usage # "absent" => a.settling
    PROVE  /\ Closed(a, v) \in Entry /\ EntryAgrees(Closed(a, v))
           /\ Closed(a, v).target = a.target
<1> DEFINE b == Accounts(a, v.books).budget
           f == Accounts(a, v.books).fact
<1>1. CASE v.books = "refund"
    <2>1. b = "refunded" /\ f = "not_dispatched"
        BY <1>1 DEF Accounts
    <2> HIDE DEF b, f
    <2>q. QED
        BY <1>1, <2>1 DEF Closed, Fits, Entry, EntryAgrees, Attempt, b, f
<1>2. CASE v.books = "answered"
    <2>1. b = "abandoned" /\ f = "actual"
        BY <1>2 DEF Accounts
    <2> HIDE DEF b, f
    <2>q. QED
        BY <1>2, <2>1 DEF Closed, Fits, Entry, EntryAgrees, Attempt, b, f
<1>3. CASE v.books \in {"upgrade_lost", "upgrade_answered"}
    <2>1. b = "refunded" /\ f \in {"ambiguous", "actual"}
        BY <1>3 DEF Accounts
    <2> HIDE DEF b, f
    <2>q. QED
        BY <1>3, <2>1 DEF Closed, Fits, Entry, EntryAgrees, Attempt, b, f
<1>4. CASE v.books = "drop"
    <2>1. /\ Settled(a) => b = "settled" /\ f = "actual"
          /\ ~Settled(a) /\ a.dispatched => b = "abandoned" /\ f = "ambiguous"
          /\ ~Settled(a) /\ ~a.dispatched => b = "refunded" /\ f = "not_dispatched"
        BY <1>4 DEF Accounts
    <2>2. a.usage = "complete" => Settled(a)
        BY DEF Settled
    <2> HIDE DEF b, f
    <2>q. QED
        BY <1>4, <2>1, <2>2 DEF Closed, Fits, Entry, EntryAgrees, Attempt, b, f
<1>q. QED
    BY <1>1, <1>2, <1>3, <1>4 DEF Fits

\* The fields of a verdict.
LEMMA VerdictFields ==
    \A e, c, k, b, x : LET v == Verdict(e, c, k, b, x)
                       IN  v.evidence = e /\ v.kind = k /\ v.books = b /\ v.circuit = x
BY DEF Verdict

\* A verdict by drop fits every attempt.
LEMMA DropFits ==
    ASSUME NEW a, NEW e \in Evidences, NEW c, NEW k, NEW x \in Circuits
    PROVE  Fits(a, Verdict(e, c, k, "drop", x))
BY VerdictFields DEF Fits

\* A refund fits what nobody received, and an answer what has no usage yet.
LEMMA OtherFits ==
    ASSUME NEW a, a.usage = "absent", NEW e \in Evidences, NEW c, NEW k, NEW x \in Circuits,
           NEW b \in {"refund", "answered", "upgrade_lost", "upgrade_answered"},
           b # "answered" => ~a.received, b \notin {"refund", "answered"} => e = "upgrade"
    PROVE  Fits(a, Verdict(e, c, k, b, x))
BY VerdictFields DEF Fits

\* The verdicts of every phase fit the attempt in that phase.
LEMMA VerdictsFit ==
    ASSUME TypeOK, AttemptAgrees, NEW v \in Verdicts(phase)
    PROVE  phase \in Attempts \ {"streaming", "proxying", "connecting"} /\ Fits(att, v)
<1>1. CASE phase \in {"preparing", "authenticating"}
    <2>1. ~att.received /\ att.usage = "absent"
        BY <1>1 DEF AttemptAgrees, Opening
    <2>2. v \in Preparing \/ v \in Authenticating
        BY <1>1 DEF Verdicts
    <2>3. Fits(att, v)
        BY <2>1, <2>2, OtherFits DEF Preparing, Authenticating, Evidences, Circuits
    <2>q. QED
        BY <1>1, <2>3 DEF Attempts, Opening
<1>2. CASE phase = "sending"
    <2>1. att.usage = "absent"
        BY <1>2 DEF AttemptAgrees
    <2>2. v \in Unanswered \/ (att.received /\ v \in Answered) \/ (~att.received /\ v \in NotConnected)
        BY <1>2 DEF Verdicts
    <2>3. v \in Unanswered => Fits(att, v)
        BY DropFits DEF Unanswered, Evidences, Circuits
    <2>4. v \in Answered => Fits(att, v)
        BY <2>1, OtherFits DEF Answered, Evidences, Circuits
    <2>5. ~att.received /\ v \in NotConnected => Fits(att, v)
        BY <2>1, OtherFits DEF NotConnected, Evidences, Circuits
    <2>q. QED
        BY <1>2, <2>2, <2>3, <2>4, <2>5 DEF Attempts
<1>3. CASE phase \in {"reading", "classifying", "persisting"}
    <2>1. v \in Reading \/ v \in Classifying \/ v \in Unpersisted
        BY <1>3 DEF Verdicts
    <2>2. v \in Reading \/ v \in Unpersisted => Fits(att, v)
        BY DropFits DEF Reading, Unpersisted, Evidences, Circuits
    <2>3. v \in Classifying => Fits(att, v)
        BY DropFits DEF Classifying, Evidences, Circuits
    <2>q. QED
        BY <1>3, <2>1, <2>2, <2>3 DEF Attempts, Settling
<1>4. CASE phase \notin {"preparing", "authenticating", "sending", "reading", "classifying", "persisting"}
    BY <1>4 DEF Verdicts
<1>q. QED
    BY <1>1, <1>2, <1>3, <1>4

LEMMA TurnVerdictsFit ==
    ASSUME TypeOK, AttemptAgrees, NEW v \in TurnVerdicts(phase)
    PROVE  /\ phase \in {"connecting", "sending", "proxying"} /\ Fits(att, v)
           /\ committed /\ phase = "proxying" => v.kind = "terminal"
<1>1. CASE phase = "connecting"
    <2>1. ~att.received /\ att.usage = "absent"
        BY <1>1 DEF AttemptAgrees, Opening
    <2>2. v \in Connecting
        BY <1>1 DEF TurnVerdicts
    <2>3. Fits(att, v)
        BY <2>1, <2>2, OtherFits DEF Connecting, Evidences, Circuits
    <2>q. QED
        BY <1>1, <2>3
<1>2. CASE phase = "sending"
    <2>1. v \in Unsent
        BY <1>2 DEF TurnVerdicts
    <2>2. Fits(att, v)
        BY <2>1, DropFits DEF Unsent, Evidences, Circuits
    <2>q. QED
        BY <1>2, <2>2
<1>3. CASE phase = "proxying"
    <2>1. v \in ClosedFailure \/ (~committed /\ v \in Unexposed)
        BY <1>3 DEF TurnVerdicts, Proxying
    <2>2. v \in ClosedFailure => Fits(att, v) /\ v.kind = "terminal"
        BY DropFits, VerdictFields DEF ClosedFailure, Evidences, Circuits
    <2>3. v \in Unexposed => Fits(att, v)
        BY DropFits DEF Unexposed, Evidences, Circuits
    <2>q. QED
        BY <1>3, <2>1, <2>2, <2>3
<1>4. CASE phase \notin {"connecting", "sending", "proxying"}
    BY <1>4 DEF TurnVerdicts
<1>q. QED
    BY <1>1, <1>2, <1>3, <1>4

\* An attempt has usage only once it is settling.
LEMMA UsageIsSettling ==
    ASSUME AttemptAgrees, att.on PROVE att.usage # "absent" => att.settling
BY DEF AttemptAgrees, Attempts

-----------------------------------------------------------------------------
(* The four ways a step may treat the attempt                               *)

\* The history, one attempt longer.
LEMMA HistoryGrows ==
    ASSUME history \in Seq(Entry), NEW h \in Entry, history' = Append(history, h)
    PROVE  /\ history' \in Seq(Entry) /\ Len(history') = Len(history) + 1
           /\ Len(history) \in Nat /\ DOMAIN history = 1 .. Len(history)
           /\ DOMAIN history' = 1 .. Len(history) + 1
           /\ \A i \in DOMAIN history : history'[i] = history[i]
           /\ history'[Len(history) + 1] = h
OBVIOUS

\* No attempt is under way before or after the step.
LEMMA MovePreserves ==
    ASSUME IInv, phase \notin Attempts, phase' \notin Attempts, phase' \in Phases,
           UNCHANGED <<req, attempts, att, history>>, OthersTyped, LogicalAgrees',
           committed' => phase' \in Over,
           list' \in Seq(Targets), IsInjective(list'), idx' \in Nat \ {0},
           list' = list \/ history = <<>>, idx' >= idx,
           phase' \in Looping \ {"select"} => idx' <= Len(list'),
           phase' \in Looping => phase \in Looping \/ history = <<>>,
           phase' = "backoff" => req.safe,
           phase' = "reserving" => attempts < MaxTotal,
           phase' \in Entering => idx' = 1 /\ attempts = 0
    PROVE  IInv'
<1> USE DEF IInv
<1>1. TypeOK'
    BY DEF TypeOK, OthersTyped
<1>2. AttemptAgrees'
    BY DEF AttemptAgrees, Attempts, NoAttempt
<1>3. AttemptsCounted' /\ EntriesAgree'
    BY DEF AttemptsCounted, EntriesAgree, EntryAgrees
<1>4. ListAgrees'
    BY <1>2 DEF ListAgrees, AttemptAgrees
<1>5. NotRepeated'
    <2> SUFFICES ASSUME ~req.safe PROVE
            /\ phase' # "backoff"
            /\ \A i, k \in DOMAIN history : history[i].target = history[k].target => i = k
            /\ phase' \in Looping => \A i \in DOMAIN history :
                   \E j \in DOMAIN list' : j < idx' /\ history[i].target = list'[j]
            /\ phase' \in Looping /\ history # <<>> => MayFailover
            /\ Len(history) > 1 => MayFailover
        BY DEF NotRepeated, MayFailover
    <2>1. /\ \A i, k \in DOMAIN history : history[i].target = history[k].target => i = k
          /\ Len(history) > 1 => MayFailover
          /\ phase \in Looping => \A i \in DOMAIN history :
                   \E j \in DOMAIN list : j < idx /\ history[i].target = list[j]
          /\ phase \in Looping /\ history # <<>> => MayFailover
        BY DEF NotRepeated
    <2>2. ASSUME phase' \in Looping, NEW i \in DOMAIN history
          PROVE  \E j \in DOMAIN list' : j < idx' /\ history[i].target = list'[j]
        <3>1. history # <<>> /\ phase \in Looping /\ list' = list
            BY <2>2
        <3>2. PICK j \in DOMAIN list : j < idx /\ history[i].target = list[j]
            BY <2>1, <3>1
        <3>3. j \in Int /\ idx \in Int /\ idx' \in Int
            BY DEF TypeOK
        <3>q. QED
            BY <3>1, <3>2, <3>3
    <2>q. QED
        BY <2>1, <2>2
<1>6. CommittedIsLast'
    BY DEF CommittedIsLast
<1>q. QED
    BY <1>1, <1>2, <1>3, <1>4, <1>5, <1>6

\* The attempt goes on.
LEMMA ProgressPreserves ==
    ASSUME IInv, phase \in Attempts, phase' \in Attempts, att' \in Attempt,
           att'.on, att'.target = att.target, AttemptAgrees',
           UNCHANGED <<req, list, idx, attempts, history>>, OthersTyped,
           logical'.state = logical.state, logical'.facts = logical.facts,
           committed' => phase' \in {"streaming", "proxying"}
    PROVE  IInv'
<1> USE DEF IInv
<1>0. phase \in Looping /\ phase' \in Looping /\ phase' \in Phases /\ att.on
      /\ phase' \notin Over /\ phase' \notin Entering /\ phase \notin Over
      /\ phase' # "reserving" /\ phase' # "backoff" /\ phase # "select" /\ phase' # "select"
    BY DEF Attempts, Opening, Settling, Looping, Phases, Over, Entering, AttemptAgrees
<1>1. TypeOK'
    BY <1>0 DEF TypeOK, OthersTyped
<1>2. AttemptsCounted' /\ EntriesAgree' /\ CommittedIsLast'
    BY <1>0 DEF AttemptsCounted, EntriesAgree, EntryAgrees, CommittedIsLast
<1>3. LogicalAgrees'
    BY <1>0 DEF LogicalAgrees, Turn, Over, Entering
<1>4. ListAgrees'
    BY <1>0 DEF ListAgrees
<1>5. NotRepeated'
    BY <1>0 DEF NotRepeated, MayFailover
<1>q. QED
    BY <1>1, <1>2, <1>3, <1>4, <1>5

\* An attempt on the candidate under way begins.
LEMMA StartPreserves ==
    ASSUME IInv, phase = "reserving", phase' \in {"preparing", "connecting", "sending"},
           att' \in Attempt, att'.on, att'.target = list[idx], AttemptAgrees',
           attempts' = attempts + 1, UNCHANGED <<req, list, idx, history, logical, committed>>,
           OthersTyped
    PROVE  IInv'
<1> USE DEF IInv
<1>0. phase' \in Attempts /\ phase' \in Looping /\ phase' \in Phases /\ phase \in Looping \ {"select"}
      /\ phase' \notin Over /\ phase' \notin Entering /\ phase \notin Attempts
    BY DEF Attempts, Opening, Settling, Looping, Phases, Over, Entering
<1>1. TypeOK'
    BY <1>0 DEF TypeOK, OthersTyped
<1>2. AttemptsCounted' /\ EntriesAgree'
    BY <1>0, DispatchAssumption DEF AttemptsCounted, EntriesAgree, EntryAgrees, AttemptAgrees, TypeOK
<1>3. CommittedIsLast' /\ LogicalAgrees'
    BY <1>0 DEF CommittedIsLast, LogicalAgrees, Turn, Over
<1>4. ListAgrees'
    BY <1>0 DEF ListAgrees
<1>5. NotRepeated'
    BY <1>0 DEF NotRepeated, MayFailover
<1>q. QED
    BY <1>1, <1>2, <1>3, <1>4, <1>5

\* The attempt ends and its entry joins the history.
LEMMA EndPreserves ==
    ASSUME IInv, phase \in Attempts, NEW h \in Entry, EntryAgrees(h), h.target = att.target,
           history' = Append(history, h), att' = NoAttempt, NoAttempt \in Attempt,
           UNCHANGED <<req, list, attempts>>, OthersTyped, LogicalAgrees',
           phase' \in {"done", "delivering", "idle", "backoff", "select"},
           idx' = idx \/ idx' = idx + 1,
           phase' = "select" => idx' = idx + 1 /\ MayFailover /\ ~committed',
           phase' = "backoff" => idx' = idx /\ req.safe /\ ~committed'
    PROVE  IInv'
<1> USE DEF IInv
<1>0. /\ phase' \in Phases /\ phase' \notin Attempts /\ att.on /\ phase \in Looping \ {"select"}
      /\ phase' # "reserving" /\ phase' \notin Entering
    BY DEF Phases, Looping, Over, Attempts, Opening, Settling, Entering, AttemptAgrees
<1>1. /\ history' \in Seq(Entry) /\ Len(history') = Len(history) + 1
      /\ Len(history) \in Nat /\ DOMAIN history = 1 .. Len(history)
      /\ DOMAIN history' = 1 .. Len(history) + 1
      /\ \A i \in DOMAIN history : history'[i] = history[i]
      /\ history'[Len(history) + 1] = h
    BY HistoryGrows DEF TypeOK
<1>2. idx \in Nat \ {0} /\ idx' \in Nat \ {0} /\ Len(list) \in Nat
      /\ DOMAIN list = 1 .. Len(list) /\ idx <= Len(list)
    BY <1>0 DEF TypeOK, ListAgrees
<1>3. TypeOK'
    BY <1>0, <1>1, <1>2 DEF TypeOK, OthersTyped
<1>4. AttemptAgrees'
    BY <1>0 DEF AttemptAgrees, NoAttempt, Attempts
<1>5. AttemptsCounted'
    BY <1>0, <1>1, DispatchAssumption DEF AttemptsCounted, TypeOK, NoAttempt
<1>6. EntriesAgree'
    <2>1. \A i \in DOMAIN history' : i \in DOMAIN history \/ i = Len(history) + 1
        BY <1>1
    <2>q. QED
        BY <1>1, <2>1 DEF EntriesAgree
<1>7. ListAgrees'
    BY <1>0, <1>2 DEF ListAgrees, NoAttempt, Looping, Attempts, Opening, Settling
<1>8. NotRepeated'
    <2> SUFFICES ASSUME ~req.safe PROVE
            /\ phase' # "backoff"
            /\ \A i, k \in DOMAIN history' : history'[i].target = history'[k].target => i = k
            /\ phase' \in Looping => \A i \in DOMAIN history' :
                   \E j \in DOMAIN list : j < idx' /\ history'[i].target = list[j]
            /\ phase' \in Looping => MayFailover
            /\ Len(history') > 1 => MayFailover
        BY DEF NotRepeated, MayFailover
    <2>1. /\ \A i, k \in DOMAIN history : history[i].target = history[k].target => i = k
          /\ \A i \in DOMAIN history :
                   \E j \in DOMAIN list : j < idx /\ history[i].target = list[j]
          /\ history # <<>> => MayFailover
        BY <1>0 DEF NotRepeated
    <2>2. h.target = list[idx] /\ idx \in DOMAIN list
        BY <1>0, <1>2 DEF ListAgrees
    <2>3. \A i \in DOMAIN history : history[i].target # h.target
        BY <1>2, <2>1, <2>2 DEF ListAgrees, IsInjective
    <2>4. \A i \in DOMAIN history' : i \in DOMAIN history \/ i = Len(history) + 1
        BY <1>1
    <2>5. \A i, k \in DOMAIN history' : history'[i].target = history'[k].target => i = k
        BY <1>1, <2>1, <2>3, <2>4
    <2>6. phase' \in Looping => phase' = "select"
        BY DEF Looping, Attempts, Opening, Settling
    <2>7. phase' \in Looping => \A i \in DOMAIN history' :
                   \E j \in DOMAIN list : j < idx' /\ history'[i].target = list[j]
        <3> SUFFICES ASSUME phase' \in Looping, NEW i \in DOMAIN history'
                     PROVE  \E j \in DOMAIN list : j < idx' /\ history'[i].target = list[j]
            OBVIOUS
        <3>1. idx' = idx + 1
            BY <2>6
        <3>2. CASE i = Len(history) + 1
            BY <1>1, <1>2, <2>2, <3>1, <3>2
        <3>3. CASE i \in DOMAIN history
            <4>1. PICK j \in DOMAIN list : j < idx /\ history[i].target = list[j]
                BY <2>1, <3>3
            <4>2. j < idx'
                BY <1>2, <3>1, <4>1
            <4>q. QED
                BY <1>1, <3>3, <4>1, <4>2
        <3>q. QED
            BY <2>4, <3>2, <3>3
    <2>8. Len(history') > 1 => history # <<>>
        BY <1>1
    <2>q. QED
        BY <2>1, <2>5, <2>6, <2>7, <2>8
<1>9. CommittedIsLast'
    BY DEF CommittedIsLast, Over
<1>q. QED
    BY <1>3, <1>4, <1>5, <1>6, <1>7, <1>8, <1>9

-----------------------------------------------------------------------------
(* The logical record                                                       *)

\* A record that is finished at the end of the request stays right.
LEMMA FinishAgrees ==
    ASSUME TypeOK, LogicalAgrees, phase # "done", phase' \in Over,
           NEW u \in SUBSET Nat, logical' = Finished(logical) \/ logical' = Finished([logical EXCEPT !.usage = u])
    PROVE  LogicalAgrees' /\ logical' \in Telemetry
<1>1. logical \in Telemetry /\ [logical EXCEPT !.usage = u] \in Telemetry
    BY DEF TypeOK, Telemetry
<1>2. PICK l \in Telemetry : l.state = logical.state /\ l.facts = logical.facts /\ logical' = Finished(l)
    BY <1>1 DEF Telemetry
<1>3. CASE l.state = "open"
    <2>a. l.facts = 0 /\ l.facts + 1 = 1
        BY <1>2, <1>3 DEF LogicalAgrees
    <2>1. logical' = [l EXCEPT !.state = "recorded", !.facts = 1]
        BY <1>2, <1>3, <2>a DEF Finished
    <2>2. logical' \in Telemetry /\ logical'.state = "recorded" /\ logical'.facts = 1
        BY <2>1 DEF Telemetry
    <2>q. QED
        BY <2>2 DEF LogicalAgrees, Over
<1>4. CASE l.state # "open"
    <2>1. logical' = l
        BY <1>2, <1>4 DEF Finished
    <2>q. QED
        BY <1>2, <1>4, <2>1 DEF LogicalAgrees, Over
<1>q. QED
    BY <1>3, <1>4

\* A denied request leaves one fact and no open record.
LEMMA DeniedAgrees ==
    ASSUME TypeOK, LogicalAgrees, ~Turn, phase \in {"arrive", "admitting"}, phase' = "done",
           logical' = [logical EXCEPT !.facts = @ + 1]
    PROVE  LogicalAgrees' /\ logical' \in Telemetry
<1>1. logical \in Telemetry /\ logical.state = "none" /\ logical.facts = 0
    BY DEF TypeOK, LogicalAgrees
<1>2. logical' \in Telemetry /\ logical'.state = "none" /\ logical'.facts = 1
    BY <1>1 DEF Telemetry
<1>q. QED
    BY <1>2 DEF LogicalAgrees

\* Nothing happens to the record while the request is under way.
LEMMA RecordKept ==
    ASSUME TypeOK, LogicalAgrees, phase # "done", UNCHANGED <<req, logical>>,
           phase' \notin Over, phase' \in {"arrive", "admitting"} => phase \in {"arrive", "admitting"}
    PROVE  LogicalAgrees' /\ logical' \in Telemetry
BY DEF TypeOK, LogicalAgrees, Turn, Over

\* The phases from which a request fails are not its last one.
LEMMA NoAttemptTyped == NoAttempt \in Attempt
BY DEF NoAttempt, Attempt, Usages

-----------------------------------------------------------------------------
(* Steps of a request over HTTP                                             *)

LEMMA ArriveAdmitPreserve == IInv /\ HttpNext /\ (Arrive \/ Admit) => IInv'
<1> SUFFICES ASSUME IInv, HttpNext, Arrive \/ Admit PROVE IInv'
    OBVIOUS
<1>0. ~Turn /\ phase \in {"arrive", "admitting"}
      /\ UNCHANGED <<req, list, idx, attempts, distinct, same, att, history, expired, committed, pinned, aged>>
    BY DEF HttpNext, Arrive, Admit, loop
<1>1. /\ phase \notin Attempts /\ phase \in Entering /\ phase # "done" /\ ~committed
      /\ phase' \in {"done", "admitting", "resolving"} /\ phase' \notin Attempts /\ phase' \in Phases
      /\ phase' \notin Looping /\ phase' # "reserving" /\ phase' # "backoff"
    BY <1>0 DEF IInv, Arrive, Admit, Denied, Attempts, Opening, Settling, Entering, Phases, Looping, Over,
           CommittedIsLast
<1>2. LogicalAgrees' /\ logical' \in Telemetry
    <2>1. CASE Denied
        BY <1>0, <2>1, DeniedAgrees DEF IInv, Denied
    <2>2. CASE phase' = "admitting" /\ UNCHANGED logical
        BY <1>0, <1>1, <2>2, RecordKept DEF IInv, Over
    <2>3. CASE phase' = "resolving" /\ logical' = [logical EXCEPT !.state = "open"]
        <3>1. logical \in Telemetry /\ logical.facts = 0
            BY <1>0, <1>1 DEF IInv, TypeOK, LogicalAgrees
        <3>2. logical' \in Telemetry /\ logical'.state = "open" /\ logical'.facts = 0
            BY <2>3, <3>1 DEF Telemetry
        <3>q. QED
            BY <2>3, <3>2 DEF LogicalAgrees, Over
    <2>q. QED
        BY <2>1, <2>2, <2>3 DEF Arrive, Admit
<1>3. idx = 1 /\ attempts = 0 /\ list \in Seq(Targets) /\ IsInjective(list) /\ OthersTyped
    BY <1>0, <1>1, <1>2 DEF IInv, ListAgrees, AttemptsCounted, TypeOK, OthersTyped
<1>q. QED
    BY <1>0, <1>1, <1>2, <1>3, MovePreserves

\* An order of the candidates is an injective list of targets.
LEMMA OrdersAreLists ==
    ASSUME NEW s \in Orders PROVE s \in Seq(Targets) /\ IsInjective(s)
<1>1. PICK n \in 1 .. Cardinality(Targets) : s \in [1 .. n -> Targets]
    BY DEF Orders
<1>2. Cardinality(Targets) \in Nat
    BY DispatchAssumption, FS_CardinalityType
<1>3. s \in Seq(Targets)
    BY <1>1, <1>2
<1>q. QED
    BY <1>3 DEF Orders

\* Before the loop there is no history.
LEMMA EnteringIsEmpty ==
    ASSUME IInv, phase \in Entering
    PROVE  history = <<>> /\ attempts = 0 /\ idx = 1 /\ ~committed /\ phase \notin Attempts
<1>1. phase \notin Attempts /\ phase \notin Over /\ phase \notin {"streaming", "proxying"}
    BY DEF Entering, Attempts, Opening, Settling, Over
<1>2. ~att.on /\ attempts = 0 /\ idx = 1 /\ ~committed /\ Len(history) = 0
    BY <1>1 DEF IInv, AttemptAgrees, AttemptsCounted, ListAgrees, CommittedIsLast, TypeOK
<1>q. QED
    BY <1>1, <1>2 DEF IInv, TypeOK

\* Resolve, of a request or of the first turn; the candidates may also not be
\* there before the deadline.
LEMMA ResolvePreserves ==
    ASSUME IInv, phase = "resolving",
           \/ phase' = "select" /\ UNCHANGED logical /\ list' \in Orders
           \/ Fail /\ UNCHANGED list,
           UNCHANGED <<req, idx, attempts, distinct, same, att, history, expired, committed, aged>>,
           pinned' \in Targets \cup {"none"}
    PROVE  IInv'
<1>0. /\ phase \in Entering /\ phase # "done" /\ phase' \in {"select", "done"} /\ phase' \in Phases
      /\ phase' \notin Attempts /\ phase' \notin Entering /\ phase' # "backoff" /\ phase' # "reserving"
      /\ (phase' = "done" => phase' \in Over) /\ (phase' = "select" => phase' \notin Over)
    BY DEF Fail, Entering, Phases, Looping, Attempts, Opening, Settling, Over
<1>1. history = <<>> /\ attempts = 0 /\ idx = 1 /\ ~committed /\ phase \notin Attempts
    BY <1>0, EnteringIsEmpty
<1>2. list' \in Seq(Targets) /\ IsInjective(list')
    BY OrdersAreLists DEF IInv, TypeOK, ListAgrees
<1>3. LogicalAgrees' /\ logical' \in Telemetry
    BY <1>0, RecordKept, FinishAgrees DEF IInv, Fail, Over
<1>4. OthersTyped
    BY <1>3 DEF IInv, TypeOK, OthersTyped
<1>5. phase' \in Looping \ {"select"} => FALSE
    BY <1>0 DEF Looping, Attempts, Opening, Settling
<1>q. QED
    BY <1>0, <1>1, <1>2, <1>3, <1>4, <1>5, MovePreserves

\* The loop over candidates: it goes on, or the request fails.
LEMMA LoopMovePreserves ==
    ASSUME IInv, phase \in {"select", "loop", "reserving", "backoff"},
           \/ phase' \in {"select", "loop", "reserving"} /\ UNCHANGED logical
           \/ Fail,
           idx' = idx \/ (phase' = "select" /\ idx' = idx + 1),
           phase' \in {"loop", "reserving"} => idx' <= Len(list),
           phase' = "reserving" => attempts < MaxTotal,
           UNCHANGED <<req, list, attempts, att, history, committed, aged>>,
           distinct' \in Nat, same' \in Nat, expired' \in BOOLEAN,
           pinned' \in Targets \cup {"none"}
    PROVE  IInv'
<1>0. /\ phase \in Looping /\ phase \notin Attempts /\ phase # "done" /\ phase \notin Over
      /\ phase' \in Phases /\ phase' \notin Attempts /\ phase' \notin Entering /\ phase' # "backoff"
      /\ (Fail => phase' \in Over) /\ (phase' \in {"select", "loop", "reserving"} => phase' \notin Over)
      /\ phase' \notin {"arrive", "admitting"}
      /\ (phase' \in Looping \ {"select"} => phase' \in {"loop", "reserving"})
    BY DEF Fail, Entering, Phases, Looping, Attempts, Opening, Settling, Over
<1>1. ~committed /\ ~committed'
    BY <1>0 DEF IInv, CommittedIsLast, Attempts, Settling
<1>2. LogicalAgrees' /\ logical' \in Telemetry
    BY <1>0, RecordKept, FinishAgrees DEF IInv, Fail
<1>3. OthersTyped
    BY <1>2 DEF IInv, TypeOK, OthersTyped
<1>4. idx \in Nat \ {0} /\ idx' \in Nat \ {0} /\ idx' >= idx /\ list' \in Seq(Targets)
      /\ IsInjective(list')
    BY DEF IInv, TypeOK, ListAgrees
<1>q. QED
    BY <1>0, <1>1, <1>2, <1>3, <1>4, MovePreserves

LEMMA SelectPreserves ==
    ASSUME IInv, Select, UNCHANGED <<pinned, aged>> PROVE IInv'
<1>1. idx \in Nat \ {0} /\ Len(list) \in Nat /\ distinct \in Nat /\ distinct + 1 \in Nat /\ same \in Nat
      /\ pinned' \in Targets \cup {"none"} /\ expired \in BOOLEAN
    BY DEF IInv, TypeOK
<1>2. CASE Exhausted /\ Fail /\ UNCHANGED <<idx, distinct, same>>
    <2>1. phase' = "done" /\ UNCHANGED <<req, list, attempts, att, history, expired, committed>>
          /\ phase = "select"
        BY <1>2 DEF Select, Fail
    <2>q. QED
        BY <1>1, <1>2, <2>1, LoopMovePreserves
<1>3. CASE ~Exhausted /\ UNCHANGED logical
    <2>1. idx <= Len(list)
        BY <1>1, <1>3 DEF Exhausted
    <2>2. /\ phase = "select" /\ UNCHANGED <<req, list, attempts, att, history, expired, committed, logical>>
          /\ \/ phase' = "loop" /\ idx' = idx /\ distinct' = distinct + 1 /\ same' = 0
             \/ phase' = "select" /\ idx' = idx + 1 /\ UNCHANGED <<distinct, same>>
        BY <1>3 DEF Select
    <2>q. QED
        BY <1>1, <1>3, <2>1, <2>2, LoopMovePreserves
<1>q. QED
    BY <1>2, <1>3 DEF Select

LEMMA LoopStepPreserves ==
    ASSUME IInv, Loop \/ Backoff, UNCHANGED <<pinned, aged>> PROVE IInv'
<1>1. idx \in Nat \ {0} /\ distinct \in Nat /\ same \in Nat
      /\ pinned' \in Targets \cup {"none"} /\ expired \in BOOLEAN
    BY DEF IInv, TypeOK
<1>2. phase \in {"loop", "backoff"} /\ UNCHANGED <<req, list, attempts, distinct, same, att, history,
                                                   logical, expired, committed>>
    BY DEF Loop, Backoff, loop
<1>3. idx <= Len(list)
    BY <1>2 DEF IInv, ListAgrees, Looping
<1>4. \/ phase' \in {"loop", "reserving"} /\ idx' = idx
      \/ phase' = "select" /\ idx' = idx + 1
    BY DEF Loop, Backoff, loop
<1>5. phase' = "reserving" => attempts < MaxTotal
    BY DEF Loop, Backoff, MayAttempt
<1>q. QED
    BY <1>1, <1>2, <1>3, <1>4, <1>5, LoopMovePreserves

LEMMA ReservePreserves ==
    ASSUME IInv, Reserve, UNCHANGED <<pinned, aged>> PROVE IInv'
<1>1. idx \in Nat \ {0} /\ distinct \in Nat /\ same \in Nat /\ same + 1 \in Nat
      /\ pinned' \in Targets \cup {"none"} /\ expired \in BOOLEAN
    BY DEF IInv, TypeOK
<1>2. /\ phase = "reserving"
      /\ UNCHANGED <<req, list, distinct, history, logical, expired, committed>>
    BY DEF Reserve
<1>3. CASE /\ attempts' = attempts + 1 /\ same' = same + 1 /\ phase' = "preparing" /\ UNCHANGED idx
           /\ att' = [NoAttempt EXCEPT !.on = TRUE, !.target = list[idx]]
    <2>1. list[idx] \in Targets
        BY <1>1, <1>2 DEF IInv, TypeOK, ListAgrees, Looping
    <2>2. /\ att' \in Attempt /\ att'.on /\ att'.target = list[idx] /\ att'.usage = "absent"
          /\ ~att'.dispatched /\ ~att'.received
        BY <1>3, <2>1 DEF NoAttempt, Attempt, Usages
    <2>3. AttemptAgrees'
        BY <1>3, <2>2 DEF AttemptAgrees, Attempts, Opening, Settling
    <2>4. OthersTyped
        BY <1>1, <1>2, <1>3 DEF IInv, TypeOK, OthersTyped
    <2>q. QED
        BY <1>2, <1>3, <2>2, <2>3, <2>4, StartPreserves
<1>4. CASE phase' = "select" /\ idx' = idx + 1 /\ UNCHANGED <<attempts, same, att>>
    BY <1>1, <1>2, <1>4, LoopMovePreserves
<1>q. QED
    BY <1>3, <1>4 DEF Reserve

\* A step of the attempt under way, in terms of how far it has got.
LEMMA AttemptStepPreserves ==
    ASSUME IInv, phase \in Attempts, phase' \in Attempts, att' \in Attempt,
           att'.on, att'.target = att.target,
           phase' \in Opening => ~att'.dispatched,
           phase' \in Opening \cup {"sending"} => att'.usage = "absent",
           att'.received => att'.dispatched,
           phase' \in Settling \cup {"sending"} => att'.dispatched,
           phase' \in Settling => att'.settling,
           logical' \in Telemetry, logical'.state = logical.state, logical'.facts = logical.facts,
           committed' \in BOOLEAN, committed' => phase' \in {"streaming", "proxying"},
           UNCHANGED <<req, list, idx, attempts, distinct, same, history, expired, pinned, aged>>
    PROVE  IInv'
<1>1. AttemptAgrees'
    BY DEF AttemptAgrees
<1>2. OthersTyped
    BY DEF IInv, TypeOK, OthersTyped
<1>q. QED
    BY <1>1, <1>2, ProgressPreserves

\* What is known of the attempt in a phase.
LEMMA AttemptFacts ==
    ASSUME IInv, phase \in Attempts
    PROVE  /\ att \in Attempt /\ att.on /\ logical \in Telemetry /\ committed \in BOOLEAN
           /\ phase # "done"
           /\ att.received => att.dispatched
           /\ att.usage # "absent" => att.settling
           /\ phase \in Opening => ~att.dispatched
           /\ phase \in Opening \cup {"sending"} => att.usage = "absent"
           /\ phase \in Settling \cup {"sending"} => att.dispatched
           /\ phase \in Settling => att.settling
           /\ phase \notin {"streaming", "proxying"} => ~committed
<1>1. phase \notin Over /\ phase # "done"
    BY DEF Attempts, Opening, Settling, Over
<1>q. QED
    BY <1>1 DEF IInv, TypeOK, AttemptAgrees, CommittedIsLast, Attempts

\* Preparation, marking, receipt, headers and the write of a turn.
LEMMA AdvancePreserves ==
    ASSUME IInv, UNCHANGED <<pinned, aged>>,
           Proceed \/ Receive \/ Headers \/ Connected \/ Sent \/ ReceiveTurn
    PROVE  IInv'
<1>1. UNCHANGED <<req, list, idx, attempts, distinct, same, history, logical, expired, committed>>
    BY DEF Proceed, Receive, Headers, Connected, Sent, ReceiveTurn, loop
<1>2. phase \in Attempts /\ phase' \in Attempts
    BY DEF Proceed, Receive, Headers, Connected, Sent, ReceiveTurn, Attempts, Opening, Settling
<1>3. CASE phase = "preparing" /\ phase' = "authenticating" /\ UNCHANGED att
    BY <1>1, <1>2, <1>3, AttemptFacts, AttemptStepPreserves DEF Opening, Settling
<1>4. CASE phase \in {"authenticating", "connecting"} /\ phase' = "sending"
           /\ att' = [att EXCEPT !.dispatched = TRUE]
    <2>1. /\ att' \in Attempt /\ att'.on /\ att'.target = att.target /\ att'.dispatched
          /\ att'.usage = "absent"
        BY <1>2, <1>4, AttemptFacts DEF Attempt, Opening
    <2>q. QED
        BY <1>1, <1>2, <1>4, <2>1, AttemptFacts, AttemptStepPreserves DEF Opening, Settling
<1>5. CASE phase \in {"sending", "proxying"} /\ phase' = phase
           /\ att' = [att EXCEPT !.received = TRUE]
    <2>1. /\ att' \in Attempt /\ att'.on /\ att'.target = att.target /\ att'.dispatched
          /\ att'.usage = att.usage /\ att'.settling = att.settling
        BY <1>2, <1>5, AttemptFacts DEF Attempt, Settling
    <2>q. QED
        BY <1>1, <1>2, <1>5, <2>1, AttemptFacts, AttemptStepPreserves DEF Opening, Settling
<1>6. CASE phase = "sending" /\ phase' \in {"reading", "classifying", "proxying"}
           /\ att' = [att EXCEPT !.settling = TRUE]
    <2>1. /\ att' \in Attempt /\ att'.on /\ att'.target = att.target /\ att'.dispatched
          /\ att'.settling
        BY <1>2, <1>6, AttemptFacts DEF Attempt
    <2>q. QED
        BY <1>1, <1>2, <1>6, <2>1, AttemptFacts, AttemptStepPreserves DEF Opening, Settling
<1>q. QED
    BY <1>3, <1>4, <1>5, <1>6 DEF Proceed, Receive, Headers, Connected, Sent, ReceiveTurn

\* Usage is seen in a response that is being settled.
LEMMA ObservePreserves ==
    ASSUME IInv, UNCHANGED <<pinned, aged>>, NEW usage \in Usages, Inspect(usage) \/ Event(usage)
    PROVE  IInv'
<1>1. UNCHANGED <<req, list, idx, attempts, distinct, same, history, expired, committed>>
    BY DEF Inspect, Event, loop
<1>2. /\ phase \in {"reading", "classifying", "streaming", "proxying"}
      /\ phase' \in {phase, "persisting"}
      /\ phase' # phase => phase # "streaming" /\ (phase = "proxying" => ~committed)
    BY DEF Inspect, Event
<1>3. phase \in Attempts /\ phase' \in Attempts /\ phase \in Settling /\ phase' \in Settling
      /\ phase' \notin Opening /\ phase' # "sending"
    BY <1>2 DEF Attempts, Settling, Opening
<1>4. /\ att' = [att EXCEPT !.usage = IF usage = "absent" THEN att.usage ELSE usage]
      /\ logical' = Observed(logical, IF usage = "absent" THEN att.usage ELSE usage)
    BY DEF Inspect, Event, Observe
<1>5. /\ att' \in Attempt /\ att'.on /\ att'.target = att.target /\ att'.dispatched /\ att'.settling
    BY <1>3, <1>4, AttemptFacts DEF Attempt
<1>6. logical' \in Telemetry /\ logical'.state = logical.state /\ logical'.facts = logical.facts
    <2>1. {attempts} \in SUBSET Nat /\ logical \in Telemetry
        BY DEF IInv, TypeOK
    <2>2. logical' = logical \/ logical' = [logical EXCEPT !.usage = {attempts}]
        BY <1>4 DEF Observed
    <2>q. QED
        BY <2>1, <2>2 DEF Telemetry
<1>7. committed' => phase' \in {"streaming", "proxying"}
    BY <1>1, <1>2, <1>3, AttemptFacts
<1>q. QED
    BY <1>1, <1>3, <1>5, <1>6, <1>7, AttemptFacts, AttemptStepPreserves

\* A stream is committed, or the events of a turn are exposed.
LEMMA StreamCommitPreserves ==
    ASSUME IInv, UNCHANGED <<req, loop, att, history, logical, expired, pinned, aged>>,
           phase = "persisting", committed' = TRUE, phase' \in {"streaming", "proxying"}
    PROVE  IInv'
<1>1. phase \in Attempts /\ phase' \in Attempts /\ phase \in Settling /\ phase' \in Settling
      /\ phase' \notin Opening /\ phase' # "sending"
    BY DEF Attempts, Settling, Opening
<1>q. QED
    BY <1>1, AttemptFacts, AttemptStepPreserves DEF loop

-----------------------------------------------------------------------------
(* How an attempt and a request end                                         *)

\* An attempt closed by a verdict that fits.
LEMMA EndByPreserves ==
    ASSUME IInv, phase \in Attempts, NEW v, Fits(att, v), EndAttempt(v),
           UNCHANGED <<req, list, attempts, distinct, same, expired>>,
           logical' \in Telemetry, LogicalAgrees', committed' \in BOOLEAN,
           pinned' \in Targets \cup {"none"}, aged' = aged,
           phase' \in {"done", "delivering", "idle", "backoff", "select"},
           idx' = idx \/ idx' = idx + 1,
           phase' = "select" => idx' = idx + 1 /\ MayFailover /\ ~committed',
           phase' = "backoff" => idx' = idx /\ req.safe /\ ~committed'
    PROVE  IInv'
<1> DEFINE h == Closed(att, v)
<1>1. h \in Entry /\ EntryAgrees(h) /\ h.target = att.target
    BY AttemptFacts, ClosedAgrees
<1>2. history' = Append(history, h) /\ att' = NoAttempt /\ NoAttempt \in Attempt
    BY NoAttemptTyped DEF EndAttempt
<1>3. OthersTyped
    BY DEF IInv, TypeOK, OthersTyped
<1> HIDE DEF h
<1>q. QED
    BY <1>1, <1>2, <1>3, EndPreserves

\* The request is over at any of its awaits: an attempt under way is dropped.
LEMMA StopPreserves ==
    ASSUME IInv, phase # "done", phase' = "done", NEW e \in Evidences, DropAttempt(e),
           UNCHANGED <<req, list, idx, attempts, distinct, same, expired, committed, aged>>,
           pinned' \in Targets \cup {"none"}, logical' \in Telemetry, LogicalAgrees'
    PROVE  IInv'
<1>1. att.on <=> phase \in Attempts
    BY DEF IInv, AttemptAgrees
<1>2. CASE phase \in Attempts
    <2> DEFINE v == [evidence |-> e, cond |-> "none", books |-> "drop", circuit |-> "dropped"]
    <2>1. EndAttempt(v)
        BY <1>1, <1>2 DEF DropAttempt
    <2>2. Fits(att, v)
        BY DEF Fits, Circuits
    <2> HIDE DEF v
    <2>3. committed' \in BOOLEAN
        BY DEF IInv, TypeOK
    <2>q. QED
        BY <1>2, <2>1, <2>2, <2>3, EndByPreserves
<1>3. CASE phase \notin Attempts
    <2>1. UNCHANGED <<att, history>>
        BY <1>1, <1>3 DEF DropAttempt
    <2>2. phase' \in Over /\ phase' \in Phases /\ phase' \notin Attempts /\ phase' \notin Looping
          /\ phase' \notin Entering
        BY DEF Over, Phases, Attempts, Opening, Settling, Looping, Entering
    <2>3. OthersTyped /\ list \in Seq(Targets) /\ IsInjective(list) /\ idx \in Nat \ {0}
        BY DEF IInv, TypeOK, OthersTyped, ListAgrees
    <2>q. QED
        BY <1>3, <2>1, <2>2, <2>3, MovePreserves
<1>q. QED
    BY <1>2, <1>3

\* The same with the record finished.
LEMMA FinishPreserves ==
    ASSUME IInv, phase # "done", Fail, NEW e \in Evidences, DropAttempt(e),
           UNCHANGED <<req, list, idx, attempts, distinct, same, expired, committed, aged>>,
           pinned' \in Targets \cup {"none"}
    PROVE  IInv'
<1>1. phase' = "done" /\ phase' \in Over /\ logical' = Finished(logical)
    BY DEF Fail, Over
<1>2. logical' \in Telemetry /\ LogicalAgrees'
    BY <1>1, FinishAgrees DEF IInv
<1>q. QED
    BY <1>1, <1>2, StopPreserves

\* Nothing is dropped where nothing is under way.
LEMMA FailPreserves ==
    ASSUME IInv, phase # "done", phase \notin Attempts, Fail,
           UNCHANGED <<req, list, idx, attempts, distinct, same, att, history, expired, committed, aged>>,
           pinned' \in Targets \cup {"none"}
    PROVE  IInv'
<1>1. DropAttempt("cancelled") /\ "cancelled" \in Evidences
    BY DEF IInv, AttemptAgrees, DropAttempt, Evidences
<1>q. QED
    BY <1>1, FinishPreserves

LEMMA CancelPreserves ==
    ASSUME IInv, UNCHANGED <<pinned, aged>>, Cancel PROVE IInv'
<1>1. /\ phase # "done" /\ Fail /\ DropAttempt("cancelled") /\ "cancelled" \in Evidences
      /\ UNCHANGED <<req, list, idx, attempts, distinct, same, expired, committed>>
    BY DEF Cancel, Awaits, Fail, loop, Evidences
<1>2. pinned' \in Targets \cup {"none"}
    BY DEF IInv, TypeOK
<1>q. QED
    BY <1>1, <1>2, FinishPreserves

LEMMA DeadlineStopsPreserves ==
    ASSUME IInv, ~Turn, UNCHANGED <<pinned, aged>>, DeadlineStops PROVE IInv'
<1>1. /\ phase # "done" /\ phase' = "done" /\ DropAttempt("deadline") /\ "deadline" \in Evidences
      /\ UNCHANGED <<req, list, idx, attempts, distinct, same, expired, committed>>
    BY DEF DeadlineStops, Bounded, Awaits, loop, Evidences
<1>2. pinned' \in Targets \cup {"none"}
    BY DEF IInv, TypeOK
<1>3. CASE phase = "admitting"
    <2>1. logical' \in Telemetry /\ LogicalAgrees'
        BY <1>1, <1>3, DeniedAgrees DEF IInv, DeadlineStops
    <2>q. QED
        BY <1>1, <1>2, <2>1, StopPreserves
<1>4. CASE phase # "admitting"
    <2>1. Fail
        BY <1>4 DEF DeadlineStops, Fail
    <2>q. QED
        BY <1>1, <1>2, <2>1, FinishPreserves
<1>q. QED
    BY <1>3, <1>4

\* The attempt of a request failed: it ends, waits or takes the next candidate.
LEMMA AttemptFailsPreserves ==
    ASSUME IInv, UNCHANGED <<pinned, aged>>, NEW v \in Verdicts(phase), AttemptFails(v) PROVE IInv'
<1>1. phase \in Attempts \ {"streaming", "proxying", "connecting"} /\ Fits(att, v)
    BY VerdictsFit DEF IInv
<1>2. EndAttempt(v) /\ UNCHANGED <<req, list, attempts, distinct, same, expired, committed>>
    BY DEF AttemptFails
<1>3. ~committed /\ phase # "done" /\ committed' \in BOOLEAN /\ pinned' \in Targets \cup {"none"}
    BY <1>1, <1>2, AttemptFacts DEF IInv, TypeOK
<1>4. \/ Fail /\ UNCHANGED idx
      \/ req.safe /\ phase' = "backoff" /\ UNCHANGED <<logical, idx>>
      \/ MayFailover /\ phase' = "select" /\ idx' = idx + 1 /\ UNCHANGED logical
    BY DEF AttemptFails, RetrySame
<1>5. logical' \in Telemetry /\ LogicalAgrees'
    <2>1. CASE Fail
        BY <1>3, <2>1, FinishAgrees DEF IInv, Fail, Over
    <2>2. CASE phase' \in {"backoff", "select"} /\ UNCHANGED logical
        BY <1>2, <1>3, <2>2, RecordKept DEF IInv, Over
    <2>q. QED
        BY <1>4, <2>1, <2>2
<1>q. QED
    BY <1>1, <1>2, <1>3, <1>4, <1>5, EndByPreserves DEF Fail

\* A response was served: the attempt ends and the record takes its usage.
LEMMA ServedPreserves ==
    ASSUME IInv, UNCHANGED <<pinned, aged>>, phase \in {"persisting", "streaming"}, phase' = "delivering",
           EndAttempt(Completed) \/ EndAttempt(Interrupted), logical' = Served(logical),
           committed' \in BOOLEAN, UNCHANGED <<req, loop, expired>>
    PROVE  IInv'
<1>1. phase \in Attempts /\ phase' \in Over /\ phase # "done"
    BY DEF Attempts, Settling, Over
<1>2. Fits(att, Completed) /\ Fits(att, Interrupted)
    BY DEF Fits, Completed, Interrupted, Evidences, Circuits
<1>3. LogicalAgrees' /\ logical' \in Telemetry
    <2>1. PICK u \in SUBSET Nat : logical' = Finished([logical EXCEPT !.usage = u])
        BY DEF Served, IInv, TypeOK
    <2>q. QED
        BY <1>1, <2>1, FinishAgrees DEF IInv
<1>4. pinned' \in Targets \cup {"none"} /\ UNCHANGED <<list, idx, attempts, distinct, same>>
    BY DEF IInv, TypeOK, loop
<1>q. QED
    BY <1>1, <1>2, <1>3, <1>4, EndByPreserves

LEMMA CommitPreserves ==
    ASSUME IInv, UNCHANGED <<pinned, aged>>, Commit \/ StreamEnds PROVE IInv'
<1>1. CASE Commit /\ req.mode = "json"
    BY <1>1, ServedPreserves DEF Commit
<1>2. CASE Commit /\ req.mode # "json"
    BY <1>2, StreamCommitPreserves DEF Commit
<1>3. CASE StreamEnds
    <2>1. committed' \in BOOLEAN
        BY <1>3 DEF StreamEnds, IInv, TypeOK
    <2>q. QED
        BY <1>3, <2>1, ServedPreserves DEF StreamEnds
<1>q. QED
    BY <1>1, <1>2, <1>3

\* The last step of a request or connection whose record is closed.
LEMMA LastStepPreserves ==
    ASSUME IInv, UNCHANGED aged, pinned' \in Targets \cup {"none"},
           phase \in {"delivering", "idle"}, phase' = "done",
           UNCHANGED <<req, loop, att, history, logical, expired, committed>>
    PROVE  IInv'
<1>1. phase \notin Attempts /\ phase \in Over
    BY DEF Attempts, Opening, Settling, Over
<1>2. DropAttempt("cancelled") /\ "cancelled" \in Evidences
    BY <1>1 DEF IInv, AttemptAgrees, DropAttempt, Evidences
<1>3. LogicalAgrees' /\ logical' \in Telemetry
    BY <1>1 DEF IInv, TypeOK, LogicalAgrees
<1>q. QED
    BY <1>2, <1>3, StopPreserves DEF loop

\* Time passes.
LEMMA TimePreserves ==
    ASSUME IInv, UNCHANGED <<req, phase, loop, att, history, logical, committed, pinned>>,
           expired' \in BOOLEAN, aged' \in BOOLEAN
    PROVE  IInv'
<1>1. TypeOK'
    BY DEF IInv, TypeOK, loop
<1>2. AttemptAgrees' /\ AttemptsCounted' /\ EntriesAgree'
    BY DEF IInv, AttemptAgrees, AttemptsCounted, EntriesAgree, EntryAgrees, loop
<1>3. LogicalAgrees' /\ ListAgrees'
    BY DEF IInv, LogicalAgrees, Turn, ListAgrees, loop
<1>4. NotRepeated' /\ CommittedIsLast'
    BY DEF IInv, NotRepeated, MayFailover, CommittedIsLast, loop
<1>q. QED
    BY <1>1, <1>2, <1>3, <1>4 DEF IInv

-----------------------------------------------------------------------------
(* Steps of a turn                                                          *)

LEMMA CreatePreserves ==
    ASSUME IInv, NEW r \in TurnRequests, Create(r) PROVE IInv'
<1>1. /\ phase = "idle" /\ req' = r /\ list' = <<>> /\ idx' = 1 /\ attempts' = 0 /\ distinct' = 0
      /\ same' = 0 /\ history' = <<>> /\ expired' = FALSE /\ committed' = FALSE /\ att' = att /\ aged' = aged
      /\ phase' \in {"admitting", "done"}
    BY DEF Create
<1>2. ~att.on /\ att = NoAttempt
    BY <1>1 DEF IInv, AttemptAgrees, Attempts, Opening, Settling
<1>3. r.mode = "websocket"
    BY DEF TurnRequests
<1>4. pinned' \in Targets \cup {"none"}
    BY DEF IInv, TypeOK, Create
<1>5. /\ logical' \in Telemetry
      /\ \/ phase' = "admitting" /\ logical'.state = "open" /\ logical'.facts = 0
         \/ phase' = "done" /\ logical'.state = "recorded" /\ logical'.facts = 1
    BY DEF Create, Telemetry
<1>6. TypeOK'
    <2>1. phase' \in Phases
        BY <1>1 DEF Phases, Entering, Over
    <2>2. list' \in Seq(Targets) /\ history' \in Seq(Entry)
        BY <1>1
    <2>3. req' \in Requests \cup TurnRequests /\ att' \in Attempt /\ aged' \in BOOLEAN
        BY <1>1 DEF IInv, TypeOK
    <2>0. expired' \in BOOLEAN /\ committed' \in BOOLEAN
        BY <1>1
    <2>4. idx' \in Nat \ {0} /\ attempts' \in Nat /\ distinct' \in Nat /\ same' \in Nat
        BY <1>1
    <2>5. logical' \in Telemetry
        BY <1>5
    <2>q. QED
        BY <1>4, <2>0, <2>1, <2>2, <2>3, <2>4, <2>5 DEF TypeOK
<1>7. AttemptAgrees'
    BY <1>1, <1>2 DEF AttemptAgrees, NoAttempt, Attempts, Opening, Settling
<1>8. AttemptsCounted' /\ EntriesAgree' /\ CommittedIsLast'
    BY <1>1, <1>2, DispatchAssumption DEF AttemptsCounted, EntriesAgree, CommittedIsLast
<1>9. LogicalAgrees'
    BY <1>1, <1>3, <1>5 DEF LogicalAgrees, Turn, Over
<1>10. ListAgrees' /\ NotRepeated'
    BY <1>1, <1>2 DEF ListAgrees, NotRepeated, IsInjective, Looping, Attempts, Opening, Settling
<1>q. QED
    BY <1>6, <1>7, <1>8, <1>9, <1>10 DEF IInv

LEMMA AdmitTurnPreserves ==
    ASSUME IInv, AdmitTurn PROVE IInv'
<1>1. phase = "admitting" /\ phase \in Entering /\ phase # "done" /\ Turn
      /\ UNCHANGED <<req, list, idx, attempts, distinct, same, att, history, expired, committed>>
    BY DEF AdmitTurn, Entering, loop
<1>2. history = <<>> /\ attempts = 0 /\ idx = 1 /\ ~committed /\ phase \notin Attempts
    BY <1>1, EnteringIsEmpty
<1>3. CASE phase' = "resolving" /\ UNCHANGED <<logical, pinned, aged>>
    <2>1. /\ phase' \in Phases /\ phase' \notin Attempts /\ phase' \notin Over
          /\ phase' \notin Looping /\ phase' # "reserving" /\ phase' # "backoff"
        BY <1>3 DEF Phases, Entering, Attempts, Opening, Settling, Over, Looping
    <2>2. LogicalAgrees' /\ logical' \in Telemetry
        BY <1>1, <1>3, <2>1, RecordKept DEF IInv
    <2>3. OthersTyped /\ list \in Seq(Targets) /\ IsInjective(list)
        BY <1>1, <1>3, <2>2 DEF IInv, TypeOK, OthersTyped, ListAgrees
    <2>q. QED
        BY <1>1, <1>2, <1>3, <2>1, <2>2, <2>3, MovePreserves
<1>4. CASE CloseConnection
    BY <1>1, <1>2, <1>4, FailPreserves DEF CloseConnection
<1>q. QED
    BY <1>3, <1>4 DEF AdmitTurn

LEMMA ResolvePinnedPreserves ==
    ASSUME IInv, ResolvePinned PROVE IInv'
<1>1. phase = "resolving" /\ phase \in Entering /\ phase # "done" /\ pinned # "none"
      /\ UNCHANGED <<req, idx, attempts, distinct, same, att, history, expired, committed>>
    BY DEF ResolvePinned, Entering
<1>2. history = <<>> /\ attempts = 0 /\ idx = 1 /\ ~committed /\ phase \notin Attempts
    BY <1>1, EnteringIsEmpty
<1>3. CASE list' = <<pinned>> /\ phase' = "reserving" /\ UNCHANGED <<logical, pinned, aged>>
    <2>1. /\ phase' \in Phases /\ phase' \notin Attempts /\ phase' \notin Over
          /\ phase' \notin Entering /\ phase' # "backoff"
        BY <1>3 DEF Phases, Entering, Attempts, Opening, Settling, Over, Looping
    <2>2. LogicalAgrees' /\ logical' \in Telemetry
        BY <1>1, <1>3, <2>1, RecordKept DEF IInv
    <2>3. pinned \in Targets
        BY <1>1 DEF IInv, TypeOK
    <2>4. list' \in Seq(Targets) /\ Len(list') = 1 /\ IsInjective(list')
        BY <1>3, <2>3 DEF IsInjective
    <2>5. OthersTyped
        BY <1>1, <1>3, <2>2 DEF IInv, TypeOK, OthersTyped
    <2>6. attempts < MaxTotal /\ idx' <= Len(list') /\ idx' \in Nat \ {0} /\ idx' >= idx
        BY <1>1, <1>2, <2>4, DispatchAssumption
    <2>q. QED
        BY <1>1, <1>2, <1>3, <2>1, <2>2, <2>4, <2>5, <2>6, MovePreserves
<1>4. CASE CloseConnection /\ UNCHANGED list
    BY <1>1, <1>2, <1>4, FailPreserves DEF CloseConnection
<1>q. QED
    BY <1>3, <1>4 DEF ResolvePinned

LEMMA ResolveInitialPreserves ==
    ASSUME IInv, ResolveInitial PROVE IInv'
<1>1. pinned' \in Targets \cup {"none"} /\ UNCHANGED aged
    BY DEF IInv, TypeOK, ResolveInitial
<1>2. CASE Resolve
    BY <1>1, <1>2, ResolvePreserves DEF Resolve
<1>3. CASE phase = "resolving" /\ Fail /\ UNCHANGED <<req, loop, att, history, expired, committed>>
    BY <1>1, <1>3, ResolvePreserves DEF loop
<1>q. QED
    BY <1>2, <1>3 DEF ResolveInitial

\* The loop of a turn, and what ends it before an attempt.
LEMMA TurnLoopPreserves ==
    ASSUME IInv, Unprepared \/ TurnLoop \/ TurnRefused PROVE IInv'
<1>0. idx \in Nat \ {0} /\ distinct \in Nat /\ same \in Nat /\ expired \in BOOLEAN
      /\ pinned \in Targets \cup {"none"}
    BY DEF IInv, TypeOK
<1>1. CASE Unprepared
    <2>1. phase # "done" /\ phase \notin Attempts
        BY <1>1 DEF Unprepared, Attempts, Opening, Settling
    <2>q. QED
        BY <1>1, <2>1, FailPreserves DEF Unprepared, CloseConnection, loop
<1>2. CASE TurnLoop
    <2>1. /\ phase = "loop"
          /\ UNCHANGED <<req, list, attempts, distinct, same, att, history, expired, committed, pinned, aged>>
        BY <1>2 DEF TurnLoop
    <2>2. \/ MayAttempt /\ phase' = "reserving" /\ UNCHANGED <<idx, logical>>
          \/ phase' = "select" /\ idx' = idx + 1 /\ UNCHANGED logical
          \/ Fail /\ UNCHANGED idx
        BY <1>2 DEF TurnLoop
    <2>3. idx <= Len(list)
        BY <2>1 DEF IInv, ListAgrees, Looping
    <2>4. (phase' = "reserving" => attempts < MaxTotal) /\ (Fail => phase' = "done")
        BY <2>2 DEF MayAttempt, Fail
    <2>q. QED
        BY <1>0, <2>1, <2>2, <2>3, <2>4, LoopMovePreserves
<1>3. CASE TurnRefused
    <2>1. /\ phase = "reserving" /\ phase # "done" /\ phase \notin Attempts
          /\ UNCHANGED <<req, list, attempts, distinct, same, att, history, expired, committed>>
        BY <1>3 DEF TurnRefused, Attempts, Opening, Settling
    <2>2. CASE phase' = "select" /\ idx' = idx + 1 /\ UNCHANGED <<logical, pinned, aged>>
        BY <1>0, <2>1, <2>2, LoopMovePreserves
    <2>3. CASE CloseConnection /\ UNCHANGED idx
        BY <2>1, <2>3, FailPreserves DEF CloseConnection
    <2>q. QED
        BY <1>3, <2>2, <2>3 DEF TurnRefused
<1>q. QED
    BY <1>1, <1>2, <1>3

LEMMA ReserveTurnPreserves ==
    ASSUME IInv, ReserveTurn PROVE IInv'
<1>1. /\ phase = "reserving" /\ attempts' = attempts + 1 /\ same' = same + 1
      /\ UNCHANGED <<req, list, idx, distinct, history, logical, expired, committed, pinned, aged>>
    BY DEF ReserveTurn
<1>2. list[idx] \in Targets
    BY <1>1 DEF IInv, TypeOK, ListAgrees, Looping
<1>3. /\ Attempting \in Attempt /\ Attempting.on /\ Attempting.target = list[idx]
      /\ Attempting.usage = "absent" /\ ~Attempting.dispatched /\ ~Attempting.received
    BY <1>2 DEF Attempting, NoAttempt, Attempt, Usages
<1>4. /\ att' \in Attempt /\ att'.on /\ att'.target = list[idx] /\ att'.usage = "absent" /\ ~att'.received
      /\ \/ phase' = "connecting" /\ ~att'.dispatched
         \/ phase' = "sending" /\ att'.dispatched
    <2>1. \/ att' = Attempting /\ phase' = "connecting"
          \/ att' = [Attempting EXCEPT !.dispatched = TRUE] /\ phase' = "sending"
        BY DEF ReserveTurn
    <2>q. QED
        BY <1>3, <2>1 DEF Attempt
<1>5. AttemptAgrees'
    BY <1>4 DEF AttemptAgrees, Attempts, Opening, Settling
<1>6. OthersTyped
    BY <1>1 DEF IInv, TypeOK, OthersTyped
<1>q. QED
    BY <1>1, <1>4, <1>5, <1>6, StartPreserves

LEMMA TurnFailsPreserves ==
    ASSUME IInv, NEW v \in TurnVerdicts(phase), TurnFails(v) PROVE IInv'
<1>1. /\ phase \in {"connecting", "sending", "proxying"} /\ Fits(att, v)
      /\ committed /\ phase = "proxying" => v.kind = "terminal"
    BY TurnVerdictsFit DEF IInv
<1>2. phase \in Attempts
    BY <1>1 DEF Attempts, Opening, Settling
<1>3. EndAttempt(v) /\ UNCHANGED <<req, list, attempts, distinct, same, expired, committed>>
    BY DEF TurnFails
<1>4. \/ CloseConnection /\ UNCHANGED idx
      \/ /\ v.kind # "terminal" /\ req.safe /\ phase' = "backoff"
         /\ UNCHANGED <<logical, idx, pinned, aged>>
      \/ /\ v.kind # "terminal" /\ MayFailover /\ phase' = "select" /\ idx' = idx + 1
         /\ UNCHANGED <<logical, pinned, aged>>
    BY DEF TurnFails, RetrySame
<1>5. v.kind # "terminal" => ~committed
    BY <1>1, <1>2, AttemptFacts
<1>6. phase # "done" /\ committed' \in BOOLEAN /\ pinned' \in Targets \cup {"none"} /\ aged' = aged
    BY <1>1, <1>3, <1>4 DEF IInv, TypeOK, CloseConnection
<1>7. logical' \in Telemetry /\ LogicalAgrees'
    <2>1. CASE CloseConnection
        BY <1>6, <2>1, FinishAgrees DEF IInv, CloseConnection, Fail, Over
    <2>2. CASE phase' \in {"backoff", "select"} /\ UNCHANGED logical
        BY <1>3, <1>6, <2>2, RecordKept DEF IInv, Over
    <2>q. QED
        BY <1>4, <2>1, <2>2
<1>q. QED
    BY <1>1, <1>2, <1>3, <1>4, <1>5, <1>6, <1>7, EndByPreserves DEF CloseConnection, Fail

LEMMA TurnCompletesPreserves ==
    ASSUME IInv, NEW usage \in Usages, TurnCompletes(usage) PROVE IInv'
<1> DEFINE last == IF usage = "absent" THEN att.usage ELSE usage
           ended == [att EXCEPT !.usage = last]
<1>1. phase = "proxying" /\ phase \in Attempts /\ phase \in Settling /\ phase # "done"
      /\ phase' = "idle" /\ phase' \in Over
    BY DEF TurnCompletes, Attempts, Settling, Over
<1>2. att \in Attempt /\ att.settling /\ att.dispatched
    BY <1>1, AttemptFacts
<1>3. ended \in Attempt /\ ended.target = att.target /\ ended.dispatched /\ ended.settling
    BY <1>2 DEF Attempt
<1>4. PICK circuit \in {"success", "failure"} :
          /\ history' = Append(history, Closed(ended, Terminated(circuit)))
          /\ logical' = Finished([logical EXCEPT !.usage = IF last = "absent" THEN {} ELSE {attempts}])
    BY DEF TurnCompletes
<1>5. /\ att' = NoAttempt /\ NoAttempt \in Attempt /\ pinned' = att.target
      /\ UNCHANGED <<req, list, idx, attempts, distinct, same, expired, committed, aged>>
    BY NoAttemptTyped DEF TurnCompletes, loop
<1> DEFINE h == Closed(ended, Terminated(circuit))
<1>6. Fits(ended, Terminated(circuit))
    BY DEF Fits, Terminated, Evidences, Circuits
<1> HIDE DEF last, ended
<1>7. h \in Entry /\ EntryAgrees(h) /\ h.target = att.target
    BY <1>3, <1>6, ClosedAgrees
<1>8. LogicalAgrees' /\ logical' \in Telemetry
    <2>1. (IF last = "absent" THEN {} ELSE {attempts}) \in SUBSET Nat
        BY DEF IInv, TypeOK
    <2>q. QED
        BY <1>1, <1>4, <2>1, FinishAgrees DEF IInv
<1>9. OthersTyped
    BY <1>2, <1>5, <1>8 DEF IInv, TypeOK, OthersTyped, Attempt
<1> HIDE DEF h
<1>10. history' = Append(history, h)
    BY <1>4 DEF h
<1>q. QED
    BY <1>1, <1>5, <1>7, <1>8, <1>9, <1>10, EndPreserves

\* The client leaves, the origin is not persisted, or the turn is dropped.
LEMMA TurnStopsPreserves ==
    ASSUME IInv, TurnCloses \/ TurnDropped PROVE IInv'
<1>1. PICK e \in {"cancelled", "deadline"} : DropAttempt(e)
    BY DEF TurnCloses, TurnDropped
<1>2. phase # "done" /\ Fail /\ pinned' = "none" /\ e \in Evidences
      /\ UNCHANGED <<req, list, idx, attempts, distinct, same, expired, committed, aged>>
    BY <1>1 DEF TurnCloses, TurnDropped, TurnAwaits, CloseConnection, loop, Evidences
<1>q. QED
    BY <1>1, <1>2, FinishPreserves

-----------------------------------------------------------------------------
(* Every step, and the theorems                                             *)

LEMMA InitEstablishes == WsInit => IInv
<1> SUFFICES ASSUME WsInit PROVE IInv
    OBVIOUS
<1>1. PICK r \in Requests \cup TurnRequests, p \in {"arrive", "idle"} : Begins(r, p)
    BY DEF WsInit, Init
<1>2. phase \in Phases /\ phase \notin Attempts /\ phase \notin Looping
    BY <1>1 DEF Begins, Phases, Entering, Over, Attempts, Opening, Settling, Looping
<1>3. att = NoAttempt /\ att \in Attempt /\ ~att.on /\ ~att.received
    BY <1>1, NoAttemptTyped DEF Begins, NoAttempt
<1>4. /\ list = <<>> /\ idx = 1 /\ attempts = 0 /\ distinct = 0 /\ same = 0 /\ history = <<>>
      /\ expired = FALSE /\ committed = FALSE /\ req = r /\ pinned = "none" /\ aged = FALSE
    BY <1>1 DEF Begins, WsInit
<1>5. logical \in Telemetry /\ logical.state = "none" /\ logical.facts = 0
    BY <1>1 DEF Begins, Telemetry
<1>6. TypeOK
    <2>1. list \in Seq(Targets) /\ history \in Seq(Entry)
        BY <1>4
    <2>2. req \in Requests \cup TurnRequests /\ pinned \in Targets \cup {"none"}
        BY <1>4
    <2>0. expired \in BOOLEAN /\ committed \in BOOLEAN /\ aged \in BOOLEAN
        BY <1>4
    <2>3. idx \in Nat \ {0} /\ attempts \in Nat /\ distinct \in Nat /\ same \in Nat
        BY <1>4
    <2>4. phase \in Phases /\ att \in Attempt /\ logical \in Telemetry
        BY <1>2, <1>3, <1>5
    <2>q. QED
        BY <2>0, <2>1, <2>2, <2>3, <2>4 DEF TypeOK
<1>7. AttemptAgrees
    BY <1>2, <1>3 DEF AttemptAgrees, NoAttempt, Attempts
<1>8. AttemptsCounted /\ EntriesAgree /\ CommittedIsLast
    BY <1>3, <1>4, DispatchAssumption DEF AttemptsCounted, EntriesAgree, CommittedIsLast
<1>9. LogicalAgrees /\ ListAgrees /\ NotRepeated
    <2>1. LogicalAgrees
        BY <1>5 DEF LogicalAgrees
    <2>2. DOMAIN list = {} /\ DOMAIN history = {} /\ Len(history) = 0
        BY <1>4
    <2>3. IsInjective(list)
        BY <2>2 DEF IsInjective
    <2>4. ListAgrees
        BY <1>2, <1>3, <1>4, <2>3 DEF ListAgrees
    <2>5. phase # "backoff"
        BY <1>2 DEF Looping
    <2>6. NotRepeated
        BY <1>2, <2>2, <2>5 DEF NotRepeated
    <2>q. QED
        BY <2>1, <2>4, <2>6
<1>q. QED
    BY <1>6, <1>7, <1>8, <1>9 DEF IInv

LEMMA HttpNextPreserves == IInv /\ HttpNext => IInv'
<1> SUFFICES ASSUME IInv, HttpNext PROVE IInv'
    OBVIOUS
<1>0. ~Turn /\ UNCHANGED <<pinned, aged>> /\ pinned' \in Targets \cup {"none"}
      /\ expired \in BOOLEAN /\ aged' \in BOOLEAN
    BY DEF HttpNext, IInv, TypeOK
<1>1. CASE Arrive \/ Admit
    BY <1>1, ArriveAdmitPreserve
<1>2. CASE Resolve
    BY <1>0, <1>2, ResolvePreserves DEF Resolve
<1>3. CASE Select \/ Loop \/ Backoff \/ Reserve
    BY <1>0, <1>3, SelectPreserves, LoopStepPreserves, ReservePreserves
<1>4. CASE Proceed \/ Receive \/ Headers
    BY <1>0, <1>4, AdvancePreserves
<1>5. CASE \E usage \in Usages : Inspect(usage)
    BY <1>0, <1>5, ObservePreserves
<1>6. CASE \E v \in Verdicts(phase) : AttemptFails(v)
    BY <1>0, <1>6, AttemptFailsPreserves
<1>7. CASE Commit \/ StreamEnds
    BY <1>0, <1>7, CommitPreserves
<1>8. CASE Delivered
    BY <1>0, <1>8, LastStepPreserves DEF Delivered
<1>9. CASE Cancel \/ DeadlineStops
    BY <1>0, <1>9, CancelPreserves, DeadlineStopsPreserves
<1>10. CASE Expire
    BY <1>0, <1>10, TimePreserves DEF Expire
<1>q. QED
    BY <1>1, <1>2, <1>3, <1>4, <1>5, <1>6, <1>7, <1>8, <1>9, <1>10 DEF HttpNext, Next

LEMMA TurnNextPreserves == IInv /\ TurnNext => IInv'
<1> SUFFICES ASSUME IInv, TurnNext PROVE IInv'
    OBVIOUS
<1>1. CASE CloseIdle
    BY <1>1, LastStepPreserves DEF CloseIdle
<1>2. CASE AdmitTurn \/ ResolvePinned \/ ResolveInitial
    BY <1>2, AdmitTurnPreserves, ResolvePinnedPreserves, ResolveInitialPreserves
<1>3. CASE Unprepared \/ TurnLoop \/ TurnRefused \/ ReserveTurn
    BY <1>3, TurnLoopPreserves, ReserveTurnPreserves
<1>4. CASE Connected \/ Sent \/ ReceiveTurn
    <2>1. UNCHANGED <<pinned, aged>>
        BY <1>4 DEF Connected, Sent, ReceiveTurn
    <2>q. QED
        BY <1>4, <2>1, AdvancePreserves
<1>5. CASE Exposed
    BY <1>5, StreamCommitPreserves DEF Exposed
<1>6. CASE TurnCloses \/ TurnDropped
    BY <1>6, TurnStopsPreserves
<1>7. CASE Age
    BY <1>7, TimePreserves DEF Age
<1>8. CASE SharedStep
    <2>1. UNCHANGED <<pinned, aged>> /\ aged' \in BOOLEAN
        BY <1>8 DEF SharedStep, IInv, TypeOK
    <2>2. CASE Select \/ Backoff
        BY <2>1, <2>2, SelectPreserves, LoopStepPreserves
    <2>3. CASE Expire
        BY <2>1, <2>3, TimePreserves DEF Expire
    <2>q. QED
        BY <1>8, <2>2, <2>3 DEF SharedStep
<1>9. CASE \E r \in TurnRequests : Create(r)
    BY <1>9, CreatePreserves
<1>10. CASE \E v \in TurnVerdicts(phase) : TurnFails(v)
    BY <1>10, TurnFailsPreserves
<1>11. ASSUME NEW usage \in Usages, Event(usage) \/ TurnCompletes(usage) PROVE IInv'
    <2>1. CASE Event(usage)
        <3>1. UNCHANGED <<pinned, aged>>
            BY <2>1 DEF Event
        <3>q. QED
            BY <2>1, <3>1, ObservePreserves
    <2>q. QED
        BY <1>11, <2>1, TurnCompletesPreserves
<1>q. QED
    BY <1>1, <1>2, <1>3, <1>4, <1>5, <1>6, <1>7, <1>8, <1>9, <1>10, <1>11 DEF TurnNext

LEMMA StutterPreserves == IInv /\ UNCHANGED wsVars => IInv'
<1> SUFFICES ASSUME IInv, UNCHANGED wsVars PROVE IInv'
    OBVIOUS
<1>1. /\ UNCHANGED <<req, phase, loop, att, history, logical, committed, pinned>>
      /\ expired' \in BOOLEAN /\ aged' \in BOOLEAN
    BY DEF wsVars, vars, loop, IInv, TypeOK
<1>q. QED
    BY <1>1, TimePreserves

\* The inductive invariant: every phase knows how far its attempt has got, and
\* what a request that is not replay safe has already tried lies behind it.
THEOREM RequestInvariant == WsSafety => []IInv
<1>1. WsInit => IInv
    BY InitEstablishes
<1>2. IInv /\ [WsNext]_wsVars => IInv'
    BY HttpNextPreserves, TurnNextPreserves, StutterPreserves DEF WsNext
<1>q. QED
    BY <1>1, <1>2, PTL DEF WsSafety

\* Type correctness.
THEOREM TypeCorrect == WsSafety => []TypeOK
BY RequestInvariant, PTL DEF IInv

\* Budget, usage record and logical fact of every request and every turn agree,
\* whatever ends it (gateway/dispatch.rs, gateway/websocket.rs).
THEOREM AccountsAlwaysAgree == WsSafety => []AccountsAgree
<1>1. IInv => AccountsAgree
    <2> SUFFICES ASSUME IInv PROVE AccountsAgree
        OBVIOUS
    <2>1. Len(history) + (IF att.on THEN 1 ELSE 0) = attempts
        BY DEF IInv, AttemptsCounted
    <2>2. phase = "done" => ~att.on
        BY DEF IInv, AttemptAgrees, Attempts, Opening, Settling
    <2>3. logical.facts <= 1 /\ (phase = "done" /\ logical.state # "none" => logical.facts = 1)
        <3>1. logical.state \in {"none", "open", "recorded"}
            BY DEF IInv, TypeOK, Telemetry
        <3>q. QED
            BY <3>1 DEF IInv, LogicalAgrees, Over
    <2>q. QED
        BY <2>1, <2>2, <2>3 DEF IInv, EntriesAgree, EntryAgrees, AccountsAgree
<1>q. QED
    BY <1>1, RequestInvariant, PTL

\* Only what the provider cannot have received is refunded, and complete usage
\* is settled, on every path that ends an attempt (ResponseSettlement).
THEOREM ChargesAlwaysMatch == WsSafety => []ChargesMatchEvidence
<1>1. IInv => ChargesMatchEvidence
    BY DEF IInv, EntriesAgree, EntryAgrees, ChargesMatchEvidence
<1>q. QED
    BY <1>1, RequestInvariant, PTL

\* For every retry policy: a request that is not replay safe reaches a target
\* at most once and a second target only by failover, and no request has more
\* attempts than its policy.
THEOREM RepeatsAlwaysAllowed == WsSafety => []RepeatsAreAllowed
<1>1. IInv => RepeatsAreAllowed
    <2> SUFFICES ASSUME IInv PROVE RepeatsAreAllowed
        OBVIOUS
    <2>1. attempts <= MaxTotal
        BY DEF IInv, AttemptsCounted
    <2>2. ASSUME ~req.safe, NEW t \in Targets PROVE Cardinality(AttemptsOn(t)) <= 1
        <3>1. \A i, k \in AttemptsOn(t) : i = k
            BY <2>2 DEF IInv, NotRepeated, AttemptsOn
        <3>2. CASE AttemptsOn(t) = {}
            BY <3>2, FS_EmptySet
        <3>3. CASE AttemptsOn(t) # {}
            <4>1. PICK i : AttemptsOn(t) = {i}
                BY <3>1, <3>3
            <4>2. Cardinality(AttemptsOn(t)) = 1
                BY <4>1, FS_Singleton
            <4>q. QED
                BY <4>2
        <3>q. QED
            BY <3>2, <3>3
    <2>3. ASSUME ~req.safe, Cardinality({history[i].target : i \in DOMAIN history}) > 1
          PROVE  MayFailover
        <3> DEFINE T == {history[i].target : i \in DOMAIN history}
        <3>1. Len(history) \in Nat /\ DOMAIN history = 1 .. Len(history)
            BY DEF IInv, TypeOK
        <3>2. CASE Len(history) > 1
            BY <2>3, <3>2 DEF IInv, NotRepeated
        <3>3. CASE Len(history) = 1
            <4>1. T = {history[1].target}
                BY <3>1, <3>3
            <4>2. Cardinality(T) = 1
                BY <4>1, FS_Singleton
            <4>q. QED
                BY <2>3, <4>2
        <3>4. CASE Len(history) = 0
            <4>1. T = {}
                BY <3>1, <3>4
            <4>2. Cardinality(T) = 0
                BY <4>1, FS_EmptySet
            <4>q. QED
                BY <2>3, <4>2
        <3>q. QED
            BY <3>1, <3>2, <3>3, <3>4
    <2>q. QED
        BY <2>1, <2>2, <2>3 DEF RepeatsAreAllowed
<1>q. QED
    BY <1>1, RequestInvariant, PTL

\* Expiry never authorizes another attempt, and neither does a response that
\* has started (gateway/dispatch.rs, gateway/websocket.rs).
THEOREM LateAttemptNever == WsSafety => NoLateAttempt
<1>1. IInv /\ [WsNext]_wsVars => [attempts' > attempts => ~expired /\ ~committed]_vars
    <2> SUFFICES ASSUME IInv, [WsNext]_wsVars, attempts' > attempts PROVE ~expired /\ ~committed
        BY DEF vars
    <2>1. attempts \in Nat
        BY DEF IInv, TypeOK
    <2>2. attempts' # attempts /\ attempts' # 0
        BY <2>1
    <2>3. Reserve \/ ReserveTurn
        <3>1. ~UNCHANGED wsVars
            BY <2>2 DEF wsVars, vars
        <3>2. CASE HttpNext
            BY <2>2, <3>2 DEF HttpNext, Next, Arrive, Admit, Resolve, Select, Loop, Proceed, Receive,
               Headers, Inspect, AttemptFails, Backoff, Commit, StreamEnds, Delivered, Cancel,
               Expire, DeadlineStops, loop
        <3>3. CASE TurnNext
            BY <2>2, <3>3 DEF TurnNext, CloseIdle, AdmitTurn, ResolvePinned, ResolveInitial, Resolve,
               Unprepared, TurnLoop, TurnRefused, Connected, Sent, ReceiveTurn, Exposed, TurnCloses,
               TurnDropped, Age, SharedStep, Select, Backoff, Expire, Create, TurnFails, Event,
               TurnCompletes, loop
        <3>q. QED
            BY <3>1, <3>2, <3>3 DEF WsNext
    <2>4. phase = "reserving" /\ ~expired
        BY <2>3 DEF Reserve, ReserveTurn, Resumes
    <2>q. QED
        BY <2>4 DEF IInv, CommittedIsLast, Over
<1>q. QED
    BY <1>1, RequestInvariant, PTL DEF WsSafety, NoLateAttempt
=============================================================================
