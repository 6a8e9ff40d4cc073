------------------------------ MODULE RuntimeProofs ------------------------------
(***************************************************************************)
(* What is proved of the runtime: its publication (RuntimePublisher), and  *)
(* the catalog commands with the snapshots made of their tables (Catalog). *)
(*                                                                         *)
(* Of the publication, for every age, latency, attempt bound and number of *)
(* commits, faults and clock ticks: the type invariant, the bound on the   *)
(* staleness of captured authority, the fence of every publication, and    *)
(* that neither evidence nor the published revision ever goes back.        *)
(*                                                                         *)
(* Of the catalog, for all tables that satisfy the schema and the builder, *)
(* all inputs and any number of commands: each idempotency key creates one *)
(* row and its caller is told of that one, versions grow, a capture fails  *)
(* for the two known reasons only, readiness agrees with admission, and on *)
(* the latest snapshot admission agrees with the tables.                   *)
(***************************************************************************)
EXTENDS RuntimePublisher, Catalog, FiniteSetTheorems, WellFoundedInduction, TLAPS

(***************************************************************************)
(* Publication (RuntimePublisher).                                         *)
(***************************************************************************)

\* The marks of the database, and of what was read from it, are ordered.
MarksOrdered ==
    /\ dbSec <= dbRev
    /\ \A t \in tightenings : t.rev <= dbSec /\ t.at <= now
    /\ status.rev <= dbRev /\ status.sec <= dbSec /\ status.confirmed <= now
    /\ gen.rev <= dbRev

\* A revision query in flight covers every tightening before its snapshot and
\* is younger than Latency.
AnswerInFlight ==
    phase \in {"observing", "fencing"} =>
        /\ seen.at <= now /\ now <= seen.at + Latency
        /\ seen.rev <= dbRev /\ seen.sec <= dbSec
        /\ \A t \in tightenings : t.at < seen.at => t.rev <= seen.sec

\* A candidate is ahead of the published generation and of the evidence that
\* preceded its snapshot; the fence that follows observes at least its marks.
CandidateAhead ==
    /\ phase \in {"fence", "fencing", "publish"} =>
           /\ gen.rev <= candidate.rev /\ candidate.rev <= dbRev
           /\ status.sec <= candidate.sec
    /\ phase = "fencing" => candidate.rev <= seen.rev
    /\ phase = "publish" => candidate.rev <= status.rev

\* The recorded evidence covers every tightening older than the confirmation
\* by more than one query latency.
EvidenceCovers ==
    up => /\ gen.rev <= status.rev
          /\ \A t \in tightenings : t.at + Latency < status.confirmed => t.rev <= status.sec

IInv == TypeOK /\ MarksOrdered /\ AnswerInFlight /\ CandidateAhead /\ EvidenceCovers

-----------------------------------------------------------------------------
\* Maximum returns one of its arguments and bounds both.
LEMMA MaximumBounds ==
    ASSUME NEW a \in Nat, NEW b \in Nat
    PROVE  /\ Maximum(a, b) \in Nat
           /\ Maximum(a, b) >= a /\ Maximum(a, b) >= b
           /\ Maximum(a, b) = a \/ Maximum(a, b) = b
BY DEF Maximum

\* The status recorded by observe_revisions is well typed and never weaker.
LEMMA ObservedBounds ==
    ASSUME TypeOK
    PROVE  /\ Observed \in Status
           /\ Observed.rev >= status.rev /\ Observed.rev >= seen.rev
           /\ Observed.sec >= status.sec /\ Observed.sec >= seen.sec
           /\ Observed.rev = status.rev \/ Observed.rev = seen.rev
           /\ Observed.sec = status.sec \/ Observed.sec = seen.sec
           /\ Observed.confirmed = now
           /\ Observed.failed = status.failed
<1>1. /\ status.rev \in Nat /\ status.sec \in Nat /\ status.failed \in BOOLEAN
      /\ seen.rev \in Nat /\ seen.sec \in Nat /\ now \in Nat
  BY DEF TypeOK, Status, Observation
<1>2. /\ Maximum(status.rev, seen.rev) \in Nat /\ Maximum(status.sec, seen.sec) \in Nat
  BY <1>1, MaximumBounds
<1>3. Observed \in Status
  BY <1>1, <1>2 DEF Observed, Status
<1>4. /\ Observed.rev = Maximum(status.rev, seen.rev)
      /\ Observed.sec = Maximum(status.sec, seen.sec)
      /\ Observed.confirmed = now
      /\ Observed.failed = status.failed
  BY DEF Observed
<1>5. /\ Observed.rev >= status.rev /\ Observed.rev >= seen.rev
      /\ Observed.sec >= status.sec /\ Observed.sec >= seen.sec
      /\ Observed.rev = status.rev \/ Observed.rev = seen.rev
      /\ Observed.sec = status.sec \/ Observed.sec = seen.sec
  BY <1>1, <1>4 DEF Maximum
<1>. QED  BY <1>3, <1>4, <1>5, Zenon

\* The values of an empty process are well typed.
LEMMA NullValues ==
    /\ NoGeneration \in Generation /\ NoStatus \in Status
    /\ NoObservation \in Observation /\ NewSchedule \in Schedule
BY DEF NoGeneration, NoStatus, NoObservation, NewSchedule, Generation, Status,
       Observation, Schedule

\* The initial state satisfies the invariant.
LEMMA InitIInv == Init => IInv
<1>. SUFFICES ASSUME Init PROVE IInv  OBVIOUS
<1>1. TypeOK
  BY NullValues DEF Init, TypeOK, Phases
<1>2. MarksOrdered /\ AnswerInFlight /\ CandidateAhead /\ EvidenceCovers
  BY DEF Init, MarksOrdered, AnswerInFlight, CandidateAhead, EvidenceCovers,
         NoGeneration, NoStatus, NoObservation
<1>. QED  BY <1>1, <1>2 DEF IInv

\* The owner's part of TypeOK.
OwnerTyped ==
    /\ phase \in Phases /\ attempt \in Nat /\ force \in BOOLEAN
    /\ candidate \in Generation /\ seen \in Observation

\* Releasing the owner leaves it well typed.
LEMMA ResetOwnerTyped ==
    ASSUME NEW p \in Phases, NEW a \in Nat, ResetOwner(p, a)
    PROVE  OwnerTyped'
BY NullValues DEF ResetOwner, OwnerTyped

\* Every variable stays in its domain, whatever the step.
LEMMA TypeStep == TypeOK /\ [Next]_vars => TypeOK'
<1>. SUFFICES ASSUME TypeOK, [Next]_vars PROVE TypeOK'  OBVIOUS
<1>. USE PublisherAssumption, NullValues
<1>1. ASSUME NEW tightening \in BOOLEAN, Commit(tightening) PROVE TypeOK'
  BY <1>1 DEF Commit, TypeOK, ownerVars
<1>2. CASE Tick
  BY <1>2 DEF Tick, TypeOK, ownerVars, dbVars
<1>3. CASE Crash
  <2>1. OwnerTyped'
    BY <1>3, ResetOwnerTyped DEF Crash, Phases
  <2>2. gen' \in Generation /\ status' \in Status /\ schedule' \in Schedule
    BY <1>3 DEF Crash
  <2>3. up' \in BOOLEAN
    BY <1>3 DEF Crash
  <2>4. faults' \in Nat
    BY <1>3 DEF Crash, TypeOK
  <2>. QED  BY <1>3, <2>1, <2>2, <2>3, <2>4 DEF Crash, TypeOK, OwnerTyped, dbVars
<1>4. CASE RetryDue
  BY <1>4 DEF RetryDue, TypeOK, ownerVars, dbVars, Schedule
<1>5. ASSUME NEW f \in BOOLEAN, Acquire(f) PROVE TypeOK'
  BY <1>5 DEF Acquire, TypeOK, dbVars, Phases
<1>6. CASE ReadRevisions
  BY <1>6 DEF ReadRevisions, TypeOK, dbVars, Phases, Observation
<1>7. CASE Observe
  <2>1. /\ status' \in Status /\ status'.rev = Maximum(status.rev, seen.rev)
        /\ Maximum(status.rev, seen.rev) \in Nat
    BY <1>7, ObservedBounds, MaximumBounds DEF Observe, TypeOK, Observed, Status, Observation
  <2>. QED  BY <1>7, <2>1 DEF Observe, TypeOK, dbVars, Phases, Schedule
<1>8. CASE UpToDate
  BY <1>8 DEF UpToDate, ResetOwner, TypeOK, dbVars, Phases, Status
<1>9. CASE WaitForRetry
  BY <1>9 DEF WaitForRetry, ResetOwner, TypeOK, dbVars, Phases
<1>10. CASE Rebuild
  BY <1>10 DEF Rebuild, TypeOK, dbVars, Phases
<1>11. CASE Compile
  BY <1>11 DEF Compile, TypeOK, dbVars, Phases, Generation
<1>12. CASE FenceRefresh
  <2>1. OwnerTyped'
    BY <1>12, ResetOwnerTyped DEF FenceRefresh, FailRefresh, TypeOK, OwnerTyped, Phases
  <2>2. status' \in Status
    BY <1>12, ObservedBounds DEF FenceRefresh, FailRefresh, Status
  <2>3. schedule' \in Schedule
    BY <1>12 DEF FenceRefresh, FailRefresh, TypeOK, Schedule
  <2>. QED  BY <1>12, <2>1, <2>2, <2>3 DEF FenceRefresh, TypeOK, OwnerTyped, dbVars
<1>13. CASE FenceStart
  <2>1. OwnerTyped'
    <3>1. PICK p \in Phases, a \in Nat : ResetOwner(p, a)
      BY <1>13 DEF FenceStart, TypeOK, Phases
    <3>. QED  BY <3>1, ResetOwnerTyped
  <2>2. up' \in BOOLEAN /\ gen' \in Generation
    BY <1>13 DEF FenceStart, TypeOK
  <2>3. status' \in Status
    <3>1. seen.rev \in Nat /\ seen.sec \in Nat /\ now \in Nat
      BY DEF TypeOK, Observation
    <3>2. [rev |-> seen.rev, sec |-> seen.sec, confirmed |-> now, failed |-> FALSE] \in Status
      BY <3>1 DEF Status
    <3>. QED  BY <1>13, <3>2 DEF FenceStart, TypeOK
  <2>. QED  BY <1>13, <2>1, <2>2, <2>3 DEF FenceStart, TypeOK, OwnerTyped, dbVars
<1>14. CASE Publish
  BY <1>14 DEF Publish, PublishedStatus, ResetOwner, TypeOK, dbVars, Phases, Status, Schedule,
               Generation
<1>15. CASE Fail
  <2>1. OwnerTyped'
    BY <1>15, ResetOwnerTyped DEF Fail, FailRefresh, Phases
  <2>2. status' \in Status /\ schedule' \in Schedule
    BY <1>15 DEF Fail, FailRefresh, TypeOK, Status, Schedule
  <2>. QED  BY <1>15, <2>1, <2>2 DEF Fail, TypeOK, OwnerTyped, dbVars
<1>16. CASE Cancel
  BY <1>16 DEF Cancel, ResetOwner, TypeOK, dbVars, Phases
<1>17. CASE UNCHANGED vars
  BY <1>17 DEF vars, TypeOK
<1>. QED
  BY <1>1, <1>2, <1>3, <1>4, <1>5, <1>6, <1>7, <1>8, <1>9, <1>10, <1>11, <1>12, <1>13,
     <1>14, <1>15, <1>16, <1>17 DEF Next, OwnerStep, Poll

-----------------------------------------------------------------------------
\* The numbers of a well-typed state.
LEMMA Numbers ==
    ASSUME TypeOK
    PROVE  /\ dbRev \in Nat /\ dbSec \in Nat /\ now \in Nat
           /\ gen.rev \in Nat /\ gen.sec \in Nat
           /\ candidate.rev \in Nat /\ candidate.sec \in Nat
           /\ status.rev \in Nat /\ status.sec \in Nat /\ status.confirmed \in Nat
           /\ seen.rev \in Nat /\ seen.sec \in Nat /\ seen.at \in Nat
           /\ \A t \in tightenings : t.rev \in Nat /\ t.at \in Nat
BY DEF TypeOK, Generation, Status, Observation

\* An edit of the error flag leaves the numbers of the status alone.
LEMMA FailedFlag ==
    ASSUME NEW s \in Status, NEW b \in BOOLEAN
    PROVE  /\ [s EXCEPT !.failed = b].rev = s.rev
           /\ [s EXCEPT !.failed = b].sec = s.sec
           /\ [s EXCEPT !.failed = b].confirmed = s.confirmed
BY DEF Status

\* Every step preserves the invariant.
LEMMA IInvStep == IInv /\ [Next]_vars => IInv'
<1>. SUFFICES ASSUME IInv, [Next]_vars PROVE IInv'  OBVIOUS
<1>. USE PublisherAssumption
<1>0. TypeOK /\ TypeOK'
  BY TypeStep DEF IInv
<1>n. /\ dbRev \in Nat /\ dbSec \in Nat /\ now \in Nat
      /\ gen.rev \in Nat /\ gen.sec \in Nat
      /\ candidate.rev \in Nat /\ candidate.sec \in Nat
      /\ status.rev \in Nat /\ status.sec \in Nat /\ status.confirmed \in Nat
      /\ seen.rev \in Nat /\ seen.sec \in Nat /\ seen.at \in Nat
      /\ \A t \in tightenings : t.rev \in Nat /\ t.at \in Nat
  BY <1>0, Numbers
<1>. DEFINE Rest == MarksOrdered /\ AnswerInFlight /\ CandidateAhead /\ EvidenceCovers
<1>r. Rest
  BY DEF IInv
<1>1. ASSUME NEW tightening \in BOOLEAN, Commit(tightening) PROVE Rest'
  <2>. /\ dbRev <= dbRev' /\ dbSec <= dbSec' /\ dbSec' <= dbRev'
       /\ \A t \in tightenings' : t \in tightenings \/ (t.rev = dbSec' /\ t.at = now)
    BY <1>1, <1>n, <1>r DEF Commit, MarksOrdered
  <2>. dbRev' \in Nat /\ dbSec' \in Nat
    BY <1>0 DEF TypeOK
  <2>1. MarksOrdered'
    BY <1>1, <1>n, <1>r DEF Commit, MarksOrdered
  <2>2. AnswerInFlight'
    BY <1>1, <1>n, <1>r DEF Commit, ownerVars, AnswerInFlight
  <2>3. CandidateAhead'
    BY <1>1, <1>n, <1>r DEF Commit, ownerVars, CandidateAhead
  <2>4. EvidenceCovers'
    BY <1>1, <1>n, <1>r DEF Commit, MarksOrdered, EvidenceCovers
  <2>. QED  BY <1>r, <2>1, <2>2, <2>3, <2>4
<1>2. ASSUME Tick PROVE Rest'
  BY <1>2, <1>0, <1>n, <1>r
     DEF Tick, ownerVars, dbVars,
         MarksOrdered, AnswerInFlight, CandidateAhead, EvidenceCovers
<1>3. ASSUME Crash PROVE Rest'
  BY <1>3, <1>0, <1>n, <1>r
     DEF Crash, ResetOwner, dbVars, NoGeneration, NoStatus, NoObservation,
         MarksOrdered, AnswerInFlight, CandidateAhead, EvidenceCovers
<1>4. ASSUME RetryDue PROVE Rest'
  BY <1>4, <1>0, <1>n, <1>r
     DEF RetryDue, ownerVars, dbVars,
         MarksOrdered, AnswerInFlight, CandidateAhead, EvidenceCovers
<1>5. ASSUME ReadRevisions PROVE Rest'
  BY <1>5, <1>0, <1>n, <1>r
     DEF ReadRevisions, dbVars,
         MarksOrdered, AnswerInFlight, CandidateAhead, EvidenceCovers
<1>6. ASSUME Observe PROVE Rest'
  <2>. /\ status'.rev <= dbRev /\ status'.sec <= dbSec /\ status'.confirmed = now
       /\ status'.rev >= status.rev /\ status'.sec >= seen.sec
    BY <1>6, <1>0, <1>n, <1>r, ObservedBounds DEF Observe, MarksOrdered, AnswerInFlight
  <2>. status'.rev \in Nat /\ status'.sec \in Nat
    BY <1>0, Numbers DEF TypeOK, Status
  <2>1. MarksOrdered' /\ AnswerInFlight' /\ CandidateAhead'
    BY <1>6, <1>n, <1>r
       DEF Observe, dbVars, MarksOrdered, AnswerInFlight, CandidateAhead
  <2>2. EvidenceCovers'
    BY <1>6, <1>n, <1>r DEF Observe, dbVars, AnswerInFlight, EvidenceCovers
  <2>. QED  BY <2>1, <2>2
<1>7. ASSUME UpToDate PROVE Rest'
  BY <1>7, <1>0, <1>n, <1>r, FailedFlag
     DEF UpToDate, ResetOwner, dbVars, TypeOK,
         MarksOrdered, AnswerInFlight, CandidateAhead, EvidenceCovers
<1>8. ASSUME WaitForRetry PROVE Rest'
  BY <1>8, <1>0, <1>n, <1>r
     DEF WaitForRetry, ResetOwner, dbVars,
         MarksOrdered, AnswerInFlight, CandidateAhead, EvidenceCovers
<1>9. ASSUME Rebuild PROVE Rest'
  BY <1>9, <1>0, <1>n, <1>r
     DEF Rebuild, dbVars,
         MarksOrdered, AnswerInFlight, CandidateAhead, EvidenceCovers
<1>10. ASSUME Compile PROVE Rest'
  BY <1>10, <1>0, <1>n, <1>r
     DEF Compile, dbVars,
         MarksOrdered, AnswerInFlight, CandidateAhead, EvidenceCovers
<1>11. ASSUME FenceRefresh PROVE Rest'
  <2>. /\ status'.rev = Observed.rev /\ status'.sec = Observed.sec
       /\ status'.confirmed = Observed.confirmed
    BY <1>11, <1>0, ObservedBounds, FailedFlag DEF FenceRefresh, FailRefresh
  <2>. /\ status'.rev <= dbRev /\ status'.sec <= dbSec /\ status'.confirmed = now
       /\ status'.rev >= status.rev /\ status'.sec >= seen.sec /\ status'.rev >= seen.rev
    BY <1>11, <1>0, <1>n, <1>r, ObservedBounds DEF FenceRefresh, MarksOrdered, AnswerInFlight
  <2>. status'.rev \in Nat /\ status'.sec \in Nat
    BY <1>0 DEF TypeOK, Status
  <2>1. MarksOrdered'
    BY <1>11, <1>n, <1>r DEF FenceRefresh, dbVars, MarksOrdered
  <2>2. AnswerInFlight'
    BY <1>11 DEF FenceRefresh, FailRefresh, ResetOwner, AnswerInFlight
  <2>3. CandidateAhead'
    BY <1>11, <1>n, <1>r
       DEF FenceRefresh, FencePasses, FailRefresh, ResetOwner, dbVars, CandidateAhead
  <2>4. EvidenceCovers'
    BY <1>11, <1>n, <1>r DEF FenceRefresh, dbVars, AnswerInFlight, EvidenceCovers
  <2>. QED  BY <2>1, <2>2, <2>3, <2>4
<1>12. ASSUME FenceStart PROVE Rest'
  <2>1. MarksOrdered' /\ AnswerInFlight' /\ CandidateAhead'
    BY <1>12, <1>n, <1>r
       DEF FenceStart, ResetOwner, dbVars, MarksOrdered, AnswerInFlight, CandidateAhead
  <2>2. CASE FencePasses
    <3>1. /\ gen'.rev = candidate.rev /\ status'.rev = seen.rev /\ status'.sec = seen.sec
          /\ status'.confirmed = now /\ tightenings' = tightenings
      BY <1>12, <2>2 DEF FenceStart, dbVars
    <3>2. gen'.rev <= status'.rev
      BY <1>12, <1>r, <3>1 DEF FenceStart, CandidateAhead
    <3>3. ASSUME NEW t \in tightenings, t.at + Latency < now PROVE t.rev <= seen.sec
      BY <1>12, <1>n, <1>r, <3>3 DEF FenceStart, AnswerInFlight
    <3>. QED  BY <2>1, <3>1, <3>2, <3>3 DEF EvidenceCovers
  <2>3. CASE ~FencePasses
    BY <1>12, <2>1, <2>3 DEF FenceStart, EvidenceCovers
  <2>. QED  BY <2>1, <2>2, <2>3
<1>13. ASSUME Publish PROVE Rest'
  BY <1>13, <1>0, <1>n, <1>r, FailedFlag
     DEF Publish, PublishedStatus, ResetOwner, dbVars, TypeOK,
         MarksOrdered, AnswerInFlight, CandidateAhead, EvidenceCovers
<1>14. ASSUME Fail PROVE Rest'
  BY <1>14, <1>0, <1>n, <1>r, FailedFlag
     DEF Fail, FailRefresh, ResetOwner, dbVars, TypeOK,
         MarksOrdered, AnswerInFlight, CandidateAhead, EvidenceCovers
<1>15. ASSUME Cancel PROVE Rest'
  BY <1>15, <1>0, <1>n, <1>r
     DEF Cancel, ResetOwner, dbVars,
         MarksOrdered, AnswerInFlight, CandidateAhead, EvidenceCovers
<1>16. ASSUME NEW f \in BOOLEAN, Acquire(f) PROVE Rest'
  BY <1>16, <1>r DEF Acquire, dbVars, MarksOrdered, AnswerInFlight, CandidateAhead, EvidenceCovers
<1>17. ASSUME UNCHANGED vars PROVE Rest'
  BY <1>17, <1>r DEF vars, MarksOrdered, AnswerInFlight, CandidateAhead, EvidenceCovers
<1>. QED
  <2>1. Rest'
    BY <1>1, <1>2, <1>3, <1>4, <1>5, <1>6, <1>7, <1>8, <1>9, <1>10, <1>11, <1>12, <1>13, <1>14, <1>15, <1>16, <1>17 DEF Next, OwnerStep, Poll
  <2>. QED  BY <1>0, <2>1 DEF IInv

-----------------------------------------------------------------------------
\* Every reachable state satisfies the inductive invariant.
THEOREM Invariant == Spec => []IInv
BY InitIInv, IInvStep, PTL DEF Spec

\* Every variable of the publisher stays in its domain.
THEOREM TypeCorrect == Spec => []TypeOK
<1>1. IInv => TypeOK
  BY DEF IInv
<1>. QED  BY <1>1, Invariant, PTL

\* capture_for_authority: a generation that may decide authentication includes
\* every tightening older than MaxAge plus one query latency, for every age,
\* latency, number of attempts, commits, failures, cancellations and restarts.
THEOREM AuthorityIsFresh == Spec => []AuthorityFresh
<1>1. IInv => AuthorityFresh
  <2>. SUFFICES ASSUME IInv, Capturable, NEW t \in tightenings, t.at + MaxAge + Latency < now
                PROVE  t.rev <= gen.sec
    BY DEF AuthorityFresh
  <2>0. /\ now \in Nat /\ gen.sec \in Nat /\ status.sec \in Nat /\ status.confirmed \in Nat
        /\ t.rev \in Nat /\ t.at \in Nat
    BY Numbers DEF IInv
  <2>1. now - status.confirmed <= MaxAge /\ status.sec <= gen.sec
    BY <2>0, PublisherAssumption DEF Capturable, SecurityRevisionIsCurrent
  <2>2. t.at + Latency < status.confirmed
    BY <2>0, <2>1, PublisherAssumption
  <2>3. t.rev <= status.sec
    BY <2>2 DEF IInv, EvidenceCovers, Capturable
  <2>. QED  BY <2>0, <2>1, <2>3
<1>. QED  BY <1>1, Invariant, PTL

\* reconcile_locked: the regression check of a publication never fails and the
\* applied revision is never ahead of the observed one.
THEOREM RevisionNeverRegresses == Spec => []NeverRegresses
<1>1. IInv => NeverRegresses
  BY DEF IInv, NeverRegresses, EvidenceCovers, CandidateAhead
<1>. QED  BY <1>1, Invariant, PTL

\* compile_fenced_generation: whatever commits overtake a candidate, what is
\* published includes the highest tightening this process has observed.
THEOREM PublicationIsFenced == Spec => FencedPublication
<1>1. IInv /\ [Next]_vars => [gen' # gen /\ up' => status'.sec <= gen'.sec]_vars
  <2>. SUFFICES ASSUME IInv, Next, gen' # gen, up' PROVE status'.sec <= gen'.sec
    BY DEF vars
  <2>0. TypeOK
    BY DEF IInv
  <2>1. Publish \/ FenceStart
    BY DEF Next, OwnerStep, Poll, Commit, Tick, Crash, RetryDue, Acquire, ReadRevisions, Observe,
           UpToDate, WaitForRetry, Rebuild, Compile, FenceRefresh, Fail, Cancel
  <2>2. CASE Publish
    BY <2>0, <2>2, FailedFlag DEF Publish, PublishedStatus, IInv, CandidateAhead, TypeOK
  <2>3. CASE FenceStart
    <3>1. FencePasses
      BY <2>3 DEF FenceStart
    <3>2. status'.sec = seen.sec /\ gen' = candidate
      BY <2>3, <3>1 DEF FenceStart
    <3>. QED  BY <2>0, <3>1, <3>2, ObservedBounds, Numbers DEF FencePasses, Status
  <2>. QED  BY <2>1, <2>2, <2>3
<1>. QED  BY <1>1, Invariant, PTL DEF Spec, FencedPublication

\* observe_revisions, the error path and the pointer swap: while the process
\* lives, recorded revisions and their confirmation never go back.
THEOREM EvidenceIsMonotone == Spec => EvidenceNeverWeakens
<1>1. IInv /\ [Next]_vars => [up /\ up' => /\ status'.rev >= status.rev
                                         /\ status'.sec >= status.sec
                                         /\ status'.confirmed >= status.confirmed]_vars
  <2>. SUFFICES ASSUME IInv, Next, up, up'
                PROVE  /\ status'.rev >= status.rev
                       /\ status'.sec >= status.sec
                       /\ status'.confirmed >= status.confirmed
    BY DEF vars
  <2>0. TypeOK /\ status.confirmed <= now
    BY DEF IInv, MarksOrdered
  <2>n. status.rev \in Nat /\ status.sec \in Nat /\ status.confirmed \in Nat /\ now \in Nat
    BY <2>0, Numbers
  <2>1. CASE Observe \/ FenceRefresh
    <3>1. /\ status'.rev = Observed.rev /\ status'.sec = Observed.sec
          /\ status'.confirmed = Observed.confirmed
      BY <2>1, <2>0, ObservedBounds, FailedFlag DEF Observe, FenceRefresh, FailRefresh
    <3>. QED  BY <2>0, <2>n, <3>1, ObservedBounds
  <2>2. CASE UpToDate \/ Publish \/ Fail
    <3>1. PICK b \in BOOLEAN : status' = [status EXCEPT !.failed = b]
      BY <2>2 DEF UpToDate, Publish, PublishedStatus, Fail, FailRefresh
    <3>. QED  BY <2>0, <2>n, <3>1, FailedFlag DEF TypeOK
  <2>3. CASE UNCHANGED status
    BY <2>n, <2>3
  <2>. QED
    BY <2>1, <2>2, <2>3
       DEF Next, OwnerStep, Poll, Commit, Tick, Crash, RetryDue, Acquire, ReadRevisions,
           WaitForRetry, Rebuild, Compile, FenceStart, Cancel
<1>. QED  BY <1>1, Invariant, PTL DEF Spec, EvidenceNeverWeakens

(***************************************************************************)
(* The tables (Catalog): the schema and the builder's checks of single rows*)
(* are kept by every command, and so are the rows that open commands hold. *)
(***************************************************************************)

\* What every stored row has and every row that a command is about to store, by
\* its table: the schema, and the part of the builder's checks that concerns it.
\* Of other rows only what never changes is mentioned.
EndpointFits(d, e) == EndpointRow(d, e) /\ EndpointUrlValid(e)

PolicyFits(p) == PolicyRow(p) /\ PolicyValid(p)

DeploymentFits(d, w) ==
    /\ DeploymentRow(d, w)
    /\ w.org = d.credentials[w.credential].org
    /\ CompatibleTransport(d.endpoints[w.endpoint].adapter, d.credentials[w.credential].kind, w.transport)
    /\ w.pricing # None /\ w.org # None => d.versions[w.pricing].usable
    /\ IsolationValid(w.isolation, w.org)
    /\ w.unpriced # (w.pricing # None)

TargetFits(d, r, t) ==
    LET w == d.deployments[t.deployment] IN
    /\ Compatibility(r.ingress, d.endpoints[w.endpoint].adapter,
                     d.credentials[w.credential].kind, w.transport) # {}
    /\ w.org \in {None, r.org}

RouteFits(d, r) ==
    /\ RouteRow(d, r)
    /\ \A t \in EnabledTargets(r) : TargetValid(t)
    /\ r.status # "draft" =>
          /\ TiersValid(EnabledTargets(r)) /\ RequestPolicyValid(r)
          /\ \A t \in EnabledTargets(r) : TargetFits(d, r, t)

GrantFits(d, g) == GrantRow(d, g) /\ \A r \in DOMAIN g.routes : CeilingValid(g.routes[r])

RowTables == {"networks", "endpoints", "reliabilities", "pricings", "versions", "credentials",
              "deployments", "routes", "grants", "keys"}

RowFits(d, t, row) ==
    /\ t = "networks" => NetworkRow(row)
    /\ t = "endpoints" => EndpointFits(d, row)
    /\ t = "reliabilities" => PolicyFits(row)
    /\ t = "pricings" => PricingRow(row)
    /\ t = "versions" => VersionRow(d, row)
    /\ t = "credentials" => CredentialRow(row)
    /\ t = "deployments" => DeploymentFits(d, row)
    /\ t = "routes" => RouteFits(d, row)
    /\ t = "grants" => GrantFits(d, row)
    /\ t = "keys" => KeyRow(d, row)

\* The columns no command changes.
SameIdentity(t, old, new) ==
    /\ t = "endpoints" => new.adapter = old.adapter
    /\ t = "versions" => new.policy = old.policy /\ new.usable = old.usable
    /\ t = "credentials" => new.org = old.org /\ new.kind = old.kind
    /\ t = "deployments" => /\ new.org = old.org /\ new.endpoint = old.endpoint
                            /\ new.credential = old.credential /\ new.transport = old.transport
    /\ t = "routes" => new.org = old.org /\ new.ingress = old.ingress /\ new.model = old.model

\* The tables only grow, and rows keep their identity.
Grows(d, e) ==
    /\ DOMAIN e.organizations = DOMAIN d.organizations
    /\ \A t \in RowTables : \A x \in DOMAIN d[t] : x \in DOMAIN e[t] /\ SameIdentity(t, d[t][x], e[t][x])

Namespace(r) == <<r.org, r.ingress, r.model>>

Namespaces(d) ==
    \A r, s \in DOMAIN d.routes : Namespace(d.routes[r]) = Namespace(d.routes[s]) => r = s

TablesFit(d) ==
    /\ DOMAIN d = Tables
    /\ None \notin DOMAIN d.organizations /\ DOMAIN d.grants = DOMAIN d.organizations
    /\ \A t \in RowTables : \A x \in DOMAIN d[t] : RowFits(d, t, d[t][x])
    /\ Namespaces(d)
    /\ IdentityRows(d.identity)

\* A creation holds a new id and a row that fits; the update of a route holds the
\* row that follows the stored one, which its lock keeps as it is.
CommandFits(c) ==
    /\ c.kind \in {"create", "update", "ca", "validate"}
    /\ c.kind = "create" =>
          /\ c.table \in Kinds /\ c.id \notin DOMAIN db[c.table] /\ RowFits(db, c.table, c.row)
          /\ \A e \in open : e.kind = "create" /\ e.table = c.table /\ e.id = c.id => e = c
    /\ c.kind = "update" =>
          /\ c.table = "routes" /\ c.id \in DOMAIN db.routes /\ RowFits(db, "routes", c.row)
          /\ SameIdentity("routes", db.routes[c.id], c.row)
          /\ c.row.version = db.routes[c.id].version + 1
          /\ <<"routes", c.id>> \in c.locks
          /\ \A e \in open : e.kind = "update" /\ e.id = c.id => e = c
    /\ c.kind = "ca" =>
          /\ c.table = "networks" /\ c.id \in DOMAIN db.networks
          /\ c.row.ca \in Nat /\ c.row.sealed = c.row.ca
    /\ c.kind = "validate" => c.table \in {"endpoints", "deployments"} /\ c.id \in DOMAIN db[c.table]

CommandsFit == \A c \in open : CommandFits(c)

DbInv == TablesFit(db) /\ CommandsFit

\* A row that fits the tables fits larger ones.
LEMMA FitsLarger ==
    ASSUME NEW d, NEW e, TablesFit(d), Grows(d, e), NEW t \in RowTables, NEW row, RowFits(d, t, row)
    PROVE  RowFits(e, t, row)
<1>1. /\ \A x \in DOMAIN d.networks : x \in DOMAIN e.networks
      /\ \A x \in DOMAIN d.reliabilities : x \in DOMAIN e.reliabilities
      /\ \A x \in DOMAIN d.pricings : x \in DOMAIN e.pricings
      /\ \A x \in DOMAIN d.endpoints : x \in DOMAIN e.endpoints /\ e.endpoints[x].adapter = d.endpoints[x].adapter
      /\ \A x \in DOMAIN d.versions : x \in DOMAIN e.versions /\ e.versions[x].usable = d.versions[x].usable
      /\ \A x \in DOMAIN d.credentials : /\ x \in DOMAIN e.credentials
                                         /\ e.credentials[x].org = d.credentials[x].org
                                         /\ e.credentials[x].kind = d.credentials[x].kind
      /\ \A x \in DOMAIN d.deployments : /\ x \in DOMAIN e.deployments
                                         /\ e.deployments[x].org = d.deployments[x].org
                                         /\ e.deployments[x].endpoint = d.deployments[x].endpoint
                                         /\ e.deployments[x].credential = d.deployments[x].credential
                                         /\ e.deployments[x].transport = d.deployments[x].transport
      /\ \A x \in DOMAIN d.routes : x \in DOMAIN e.routes /\ e.routes[x].org = d.routes[x].org
  BY DEF Grows, SameIdentity, RowTables
<1>2. CASE t = "networks"
  BY <1>2 DEF RowFits
<1>3. CASE t = "endpoints"
  BY <1>1, <1>3 DEF RowFits, EndpointFits, EndpointRow
<1>4. CASE t = "reliabilities"
  BY <1>4 DEF RowFits
<1>5. CASE t = "pricings"
  BY <1>5 DEF RowFits
<1>6. CASE t = "versions"
  BY <1>1, <1>6 DEF RowFits, VersionRow
<1>7. CASE t = "credentials"
  BY <1>7 DEF RowFits
<1>8. CASE t = "deployments"
  BY <1>1, <1>8 DEF RowFits, DeploymentFits, DeploymentRow
<1>9. CASE t = "routes"
  <2> SUFFICES ASSUME RouteFits(d, row) PROVE RouteFits(e, row)
    BY <1>9 DEF RowFits
  <2>1. RouteRow(e, row)
    BY <1>1 DEF RouteFits, RouteRow
  <2>2. \A x \in row.targets : TargetFits(d, row, x) => TargetFits(e, row, x)
    <3> SUFFICES ASSUME NEW x \in row.targets, TargetFits(d, row, x) PROVE TargetFits(e, row, x)
      OBVIOUS
    <3>1. x.deployment \in DOMAIN d.deployments
      BY DEF RouteFits, RouteRow
    <3> DEFINE w == d.deployments[x.deployment]
    <3>2. w.endpoint \in DOMAIN d.endpoints /\ w.credential \in DOMAIN d.credentials
      BY <3>1 DEF TablesFit, RowTables, RowFits, DeploymentFits, DeploymentRow
    <3> HIDE DEF w
    <3>3. /\ e.deployments[x.deployment].endpoint = w.endpoint
          /\ e.deployments[x.deployment].credential = w.credential
          /\ e.deployments[x.deployment].org = w.org /\ e.deployments[x.deployment].transport = w.transport
          /\ e.endpoints[w.endpoint].adapter = d.endpoints[w.endpoint].adapter
          /\ e.credentials[w.credential].kind = d.credentials[w.credential].kind
      BY <1>1, <3>1, <3>2 DEF w
    <3> QED BY <3>3 DEF TargetFits, w
  <2> QED BY <2>1, <2>2 DEF RouteFits, EnabledTargets
<1>10. CASE t = "grants"
  BY <1>1, <1>10 DEF RowFits, GrantFits, GrantRow
<1>11. CASE t = "keys"
  BY <1>1, <1>11 DEF RowFits, KeyRow, Grows
<1> QED BY <1>2, <1>3, <1>4, <1>5, <1>6, <1>7, <1>8, <1>9, <1>10, <1>11 DEF RowTables

Stored(d, t, id, row) == [d EXCEPT ![t] = Put(d[t], id, row)]

\* A row is written: a new one, or one that keeps its identity.
LEMMA WrittenGrows ==
    ASSUME NEW d, TablesFit(d), NEW t \in RowTables, NEW id, NEW row, NEW e,
           e = Stored(d, t, id, row),
           id \in DOMAIN d[t] => SameIdentity(t, d[t][id], row)
    PROVE  /\ Grows(d, e) /\ DOMAIN e = DOMAIN d
           /\ e[t] = Put(d[t], id, row) /\ \A u \in Tables : u # t => e[u] = d[u]
<1>1. t \in Tables /\ DOMAIN d = Tables
  BY DEF RowTables, Tables, TablesFit
<1>2. DOMAIN e = DOMAIN d /\ e[t] = Put(d[t], id, row) /\ \A u \in Tables : u # t => e[u] = d[u]
  BY <1>1 DEF Stored
<1>3. e.organizations = d.organizations
  BY <1>1, <1>2 DEF RowTables, Tables
<1>5. /\ DOMAIN e[t] = DOMAIN d[t] \cup {id} /\ e[t][id] = row
      /\ \A x \in DOMAIN d[t] : x # id => e[t][x] = d[t][x]
  BY <1>2 DEF Put
<1>4. ASSUME NEW u \in RowTables, NEW x \in DOMAIN d[u]
      PROVE  x \in DOMAIN e[u] /\ SameIdentity(u, d[u][x], e[u][x])
  <2>1. u \in Tables
    BY DEF RowTables, Tables
  <2>2. CASE e[u][x] = d[u][x] /\ x \in DOMAIN e[u]
    BY <2>2 DEF SameIdentity
  <2>3. CASE u = t /\ x = id
    BY <1>5, <2>3
  <2> QED BY <1>2, <1>5, <2>1, <2>2, <2>3
<1> QED BY <1>2, <1>3, <1>4 DEF Grows

LEMMA WrittenFits ==
    ASSUME NEW d, TablesFit(d), NEW t \in RowTables, NEW id, NEW row, NEW e,
           e = Stored(d, t, id, row),
           RowFits(d, t, row),
           id \in DOMAIN d[t] => SameIdentity(t, d[t][id], row),
           t = "grants" => id \in DOMAIN d.grants,
           t = "routes" => \A r \in DOMAIN d.routes \ {id} : Namespace(d.routes[r]) # Namespace(row)
    PROVE  TablesFit(e)
<1>1. /\ Grows(d, e) /\ DOMAIN e = Tables
      /\ e[t] = Put(d[t], id, row) /\ \A u \in Tables : u # t => e[u] = d[u]
  <2>1. DOMAIN d = Tables
    BY DEF TablesFit
  <2> QED BY <2>1, WrittenGrows
<1>0. /\ DOMAIN e[t] = DOMAIN d[t] \cup {id} /\ e[t][id] = row
      /\ \A x \in DOMAIN d[t] : x # id => e[t][x] = d[t][x]
  BY <1>1 DEF Put
<1>2. /\ e.organizations = d.organizations /\ e.identity = d.identity
      /\ None \notin DOMAIN d.organizations /\ DOMAIN d.grants = DOMAIN d.organizations
      /\ IdentityRows(d.identity)
  BY <1>1 DEF RowTables, Tables, TablesFit
<1>3. DOMAIN e.grants = DOMAIN d.grants
  <2>1. CASE t = "grants"
    BY <1>0, <2>1
  <2>2. CASE t # "grants"
    BY <1>1, <2>2 DEF Tables
  <2> QED BY <2>1, <2>2
<1>4. ASSUME NEW u \in RowTables, NEW x \in DOMAIN e[u] PROVE RowFits(e, u, e[u][x])
  <2>1. u \in Tables
    BY DEF RowTables, Tables
  <2>2. CASE u = t /\ x = id
    BY <1>0, <1>1, <2>2, FitsLarger
  <2>3. CASE u # t \/ x # id
    <3>1. x \in DOMAIN d[u] /\ e[u][x] = d[u][x]
      BY <1>0, <1>1, <2>1, <2>3
    <3>2. RowFits(d, u, d[u][x])
      BY <3>1 DEF TablesFit
    <3> QED BY <1>1, <3>1, <3>2, FitsLarger
  <2> QED BY <2>2, <2>3
<1>5. Namespaces(e)
  <2>1. CASE t = "routes"
    <3>1. e.routes = Put(d.routes, id, row) /\ Namespaces(d)
      BY <1>1, <2>1 DEF TablesFit
    <3> SUFFICES ASSUME NEW r \in DOMAIN e.routes, NEW s \in DOMAIN e.routes,
                        Namespace(e.routes[r]) = Namespace(e.routes[s])
                 PROVE  r = s
      BY DEF Namespaces
    <3>2. \A x \in DOMAIN e.routes : x # id => x \in DOMAIN d.routes /\ e.routes[x] = d.routes[x]
      BY <1>0, <2>1
    <3>3. e.routes[id] = row
      BY <1>0, <2>1
    <3> QED BY <2>1, <3>1, <3>2, <3>3 DEF Namespaces
  <2>2. CASE t # "routes"
    <3>1. e.routes = d.routes
      BY <1>1, <2>2 DEF Tables
    <3> QED BY <3>1 DEF TablesFit, Namespaces
  <2> QED BY <2>1, <2>2
<1> QED BY <1>1, <1>2, <1>3, <1>4, <1>5 DEF TablesFit

-----------------------------------------------------------------------------
\* Rows as commands make them.

VersionTables == {"networks", "reliabilities", "endpoints", "deployments", "routes"}

\* A changed row has a larger version, or was validated as it is.
Advances(t, old, new) ==
    \/ t \notin VersionTables
    \/ new = old
    \/ new.version > old.version
    \/ t \in {"endpoints", "deployments"} /\ new = Validated(old)

Follows(t, id, row) ==
    /\ t \in RowTables /\ id \in DOMAIN db[t]
    /\ RowFits(db, t, row) /\ SameIdentity(t, db[t][id], row) /\ Advances(t, db[t][id], row)

LEMMA NetworkCreated ==
    ASSUME NEW i \in NetworkInputs
    PROVE  RowFits(db, "networks",
              Over([version |-> 1, ca |-> BundleGeneration(i), sealed |-> BundleGeneration(i)], NetworkFields(i)))
<1> DEFINE r == [version |-> 1, ca |-> BundleGeneration(i), sealed |-> BundleGeneration(i)]
           row == Over(r, NetworkFields(i))
<1>1. DOMAIN r = {"version", "ca", "sealed"} /\ r.version = 1 /\ r.ca = BundleGeneration(i) /\ r.sealed = r.ca
  OBVIOUS
<1>2. /\ DOMAIN NetworkFields(i) = {"status", "safe", "proxy", "classes", "allowed", "denied"}
      /\ NetworkFields(i).denied = i.denied
  BY DEF NetworkFields
<1> HIDE DEF r
<1>3. DOMAIN row = DOMAIN r \cup DOMAIN NetworkFields(i) /\ row.version = 1 /\ row.ca = BundleGeneration(i)
      /\ row.sealed = row.ca /\ row.denied = i.denied
  BY <1>1, <1>2 DEF Over
<1>4. BundleGeneration(i) \in Nat
  BY DEF BundleGeneration
<1> HIDE DEF row
<1>5. NetworkRow(row)
  BY <1>1, <1>2, <1>3, <1>4, InputAssumption DEF NetworkRow, CustomCaMatches
<1> QED BY <1>5 DEF RowFits, row, r

LEMMA NetworkUpdated ==
    ASSUME TablesFit(db), NEW n \in DOMAIN db.networks, NEW i \in NetworkInputs
    PROVE  Follows("networks", n, Over(NetworkFields(i), [db.networks[n] EXCEPT !.version = @ + 1]))
<1> DEFINE old == db.networks[n]
           s == [old EXCEPT !.version = @ + 1]
           row == Over(NetworkFields(i), s)
<1>1. NetworkRow(old)
  BY DEF TablesFit, RowTables, RowFits
<1>2. DOMAIN s = DOMAIN old /\ s.version = old.version + 1 /\ s.ca = old.ca /\ s.sealed = old.sealed
  BY <1>1 DEF NetworkRow
<1>3. /\ DOMAIN NetworkFields(i) = {"status", "safe", "proxy", "classes", "allowed", "denied"}
      /\ NetworkFields(i).denied = i.denied
  BY DEF NetworkFields
<1>4. "version" \in DOMAIN s /\ "ca" \in DOMAIN s /\ "sealed" \in DOMAIN s
  BY <1>1, <1>2 DEF NetworkRow
<1> HIDE DEF old, s
<1>5. /\ DOMAIN row = DOMAIN NetworkFields(i) \cup DOMAIN old
      /\ row.version = old.version + 1 /\ row.ca = old.ca /\ row.sealed = old.sealed /\ row.denied = i.denied
  BY <1>2, <1>3, <1>4 DEF Over
<1> HIDE DEF row
<1>6. NetworkRow(row) /\ row.version > old.version
  BY <1>1, <1>3, <1>5, InputAssumption DEF NetworkRow, CustomCaMatches
<1>7. row = Over(NetworkFields(i), [db.networks[n] EXCEPT !.version = @ + 1]) /\ old = db["networks"][n]
  BY DEF row, s, old
<1> QED BY <1>6, <1>7 DEF Follows, RowTables, RowFits, SameIdentity, Advances

LEMMA BundleWritten ==
    ASSUME TablesFit(db), NEW n \in DOMAIN db.networks, NEW g, g.ca \in Nat, g.sealed = g.ca,
           g.version = db.networks[n].version + 1
    PROVE  Follows("networks", n,
              [db.networks[n] EXCEPT !.ca = g.ca, !.sealed = g.sealed, !.version = g.version])
<1> DEFINE old == db.networks[n]
           row == [old EXCEPT !.ca = g.ca, !.sealed = g.sealed, !.version = g.version]
<1>1. NetworkRow(old)
  BY DEF TablesFit, RowTables, RowFits
<1>2. /\ DOMAIN row = DOMAIN old /\ row.version = old.version + 1 /\ row.ca = g.ca /\ row.sealed = g.ca
      /\ row.denied = old.denied
  BY <1>1 DEF NetworkRow
<1>3. old = db["networks"][n]
  OBVIOUS
<1> HIDE DEF old, row
<1>4. NetworkRow(row) /\ row.version > old.version
  BY <1>1, <1>2 DEF NetworkRow, CustomCaMatches
<1>5. Follows("networks", n, row)
  BY <1>3, <1>4 DEF Follows, RowTables, RowFits, SameIdentity, Advances
<1> QED BY <1>5 DEF row, old

LEMMA PolicyCreated ==
    ASSUME NEW i \in ReliabilityInputs, ValidateReliabilityPolicy(i), NEW v \in Nat
    PROVE  /\ PolicyFits(Over([version |-> v], i))
           /\ Over([version |-> v], i).version = v
<1> DEFINE r == [version |-> v]
           row == Over(r, i)
<1>1. DOMAIN r = {"version"} /\ r.version = v
  OBVIOUS
<1>2. DOMAIN i = PolicyColumns
  BY InputAssumption
<1> HIDE DEF r
<1>3. DOMAIN row = {"version"} \cup PolicyColumns /\ row.version = v
  BY <1>1, <1>2 DEF Over
<1>4. \A f \in PolicyColumns : row[f] = i[f]
  <2>1. "version" \notin PolicyColumns
    BY DEF PolicyColumns
  <2> QED BY <1>1, <1>2, <2>1 DEF Over
<1> HIDE DEF row
<1>5. PolicyRow(row)
  BY <1>3 DEF PolicyRow
<1>6. /\ row.attempts = i.attempts /\ row.retries = i.retries /\ row.failovers = i.failovers
      /\ row.timeout = i.timeout /\ row.overall = i.overall /\ row.backoff = i.backoff
      /\ row.maxBackoff = i.maxBackoff /\ row.open = i.open /\ row.maxOpen = i.maxOpen
      /\ row.probeTimeout = i.probeTimeout /\ row.probeInterval = i.probeInterval
  BY <1>4 DEF PolicyColumns
<1>7. PolicyValid(row)
  BY <1>6 DEF PolicyValid, ValidateReliabilityPolicy, ValidateRetryPolicy, ValidateProbePolicy
<1> QED BY <1>3, <1>5, <1>7 DEF PolicyFits, row, r

LEMMA PolicyUpdated ==
    ASSUME TablesFit(db), NEW p \in DOMAIN db.reliabilities, NEW i \in ReliabilityInputs,
           ValidateReliabilityPolicy(i)
    PROVE  Follows("reliabilities", p, Over([version |-> db.reliabilities[p].version + 1], i))
<1> DEFINE v == db.reliabilities[p].version
<1>1. v \in Nat /\ v + 1 \in Nat /\ v + 1 > v
  BY DEF TablesFit, RowTables, RowFits, PolicyFits, PolicyRow
<1>2. PolicyFits(Over([version |-> v + 1], i)) /\ Over([version |-> v + 1], i).version = v + 1
  BY <1>1, PolicyCreated
<1> QED BY <1>1, <1>2 DEF Follows, RowTables, RowFits, SameIdentity, Advances

LEMMA PricingUpdated ==
    ASSUME TablesFit(db), NEW x \in DOMAIN db.pricings, NEW s
    PROVE  /\ Follows("pricings", x, [db.pricings[x] EXCEPT !.status = s])
           /\ PricingRow([db.pricings[x] EXCEPT !.current = s])
<1>1. PricingRow(db.pricings[x])
  BY DEF TablesFit, RowTables, RowFits
<1>2. PricingRow([db.pricings[x] EXCEPT !.status = s]) /\ PricingRow([db.pricings[x] EXCEPT !.current = s])
  BY <1>1 DEF PricingRow
<1> QED BY <1>2 DEF Follows, RowTables, RowFits, SameIdentity, Advances, VersionTables

LEMMA EndpointCreated ==
    ASSUME NEW i \in EndpointInputs, NormalizeEndpointUrl(i.adapter, i.url), i.network \in DOMAIN db.networks
    PROVE  RowFits(db, "endpoints", Over([version |-> 1, evidence |-> 0], i))
<1> DEFINE r == [version |-> 1, evidence |-> 0]
           row == Over(r, i)
<1>1. DOMAIN r = {"version", "evidence"} /\ r.version = 1
  OBVIOUS
<1>2. DOMAIN i = EndpointColumns
  BY InputAssumption
<1> HIDE DEF r
<1>3. /\ DOMAIN row = EndpointColumns \cup {"version", "evidence"} /\ row.version = 1
      /\ row.adapter = i.adapter /\ row.url = i.url /\ row.network = i.network
  BY <1>1, <1>2 DEF Over, EndpointColumns
<1> HIDE DEF row
<1>4. EndpointRow(db, row) /\ EndpointUrlValid(row)
  BY <1>3 DEF EndpointRow, EndpointUrlValid, NormalizeEndpointUrl
<1> QED BY <1>4 DEF RowFits, EndpointFits, row, r

LEMMA EndpointUpdated ==
    ASSUME TablesFit(db), NEW e \in DOMAIN db.endpoints, NEW i, i.network \in DOMAIN db.networks,
           NormalizeEndpointUrl(db.endpoints[e].adapter, i.url)
    PROVE  LET row == [db.endpoints[e] EXCEPT !.url = i.url, !.host = i.host, !.network = i.network,
                              !.status = i.status, !.version = @ + 1, !.evidence = 0]
           IN  Follows("endpoints", e, row)
<1> DEFINE old == db.endpoints[e]
           row == [old EXCEPT !.url = i.url, !.host = i.host, !.network = i.network, !.status = i.status,
                              !.version = @ + 1, !.evidence = 0]
<1>1. EndpointRow(db, old)
  BY DEF TablesFit, RowTables, RowFits, EndpointFits
<1>2. old = db["endpoints"][e]
  OBVIOUS
<1> HIDE DEF old
<1>3. /\ DOMAIN row = DOMAIN old /\ row.version = old.version + 1 /\ row.adapter = old.adapter
      /\ row.url = i.url /\ row.network = i.network
  BY <1>1 DEF EndpointRow, EndpointColumns
<1> HIDE DEF row
<1>4. EndpointRow(db, row) /\ EndpointUrlValid(row) /\ row.version > old.version
  BY <1>1, <1>3 DEF EndpointRow, EndpointUrlValid, NormalizeEndpointUrl, old
<1>5. Follows("endpoints", e, row)
  BY <1>2, <1>3, <1>4 DEF Follows, RowTables, RowFits, SameIdentity, Advances, EndpointFits
<1> QED BY <1>5 DEF row, old

LEMMA CredentialUpdated ==
    ASSUME TablesFit(db), NEW c \in DOMAIN db.credentials, NEW rotated \in 0..1, NEW ready
    PROVE  Follows("credentials", c, [db.credentials[c] EXCEPT !.selected = @ + rotated, !.ready = ready])
<1> DEFINE old == db.credentials[c]
           row == [old EXCEPT !.selected = @ + rotated, !.ready = ready]
<1>1. CredentialRow(old)
  BY DEF TablesFit, RowTables, RowFits
<1>2. old = db["credentials"][c]
  OBVIOUS
<1> HIDE DEF old
<1>3. /\ DOMAIN row = DOMAIN old /\ row.org = old.org /\ row.kind = old.kind
      /\ row.selected = old.selected + rotated
      /\ row.identity = old.identity /\ row.selectedIdentity = old.selectedIdentity
  BY <1>1 DEF CredentialRow
<1> HIDE DEF row
<1>4. CredentialRow(row)
  BY <1>1, <1>3 DEF CredentialRow
<1>5. Follows("credentials", c, row)
  BY <1>2, <1>3, <1>4 DEF Follows, RowTables, RowFits, SameIdentity, Advances, VersionTables
<1> QED BY <1>5 DEF row, old

\* Evidence is for the version of the row, whose validity it does not touch.
LEMMA ValidationWritten ==
    ASSUME TablesFit(db), NEW t \in {"endpoints", "deployments"}, NEW x \in DOMAIN db[t]
    PROVE  Follows(t, x, Validated(db[t][x]))
<1> DEFINE old == db[t][x]
           row == Validated(old)
<1>1. CASE t = "endpoints"
  <2>1. EndpointFits(db, old)
    BY <1>1 DEF TablesFit, RowTables, RowFits
  <2> HIDE DEF old
  <2>2. /\ DOMAIN row = DOMAIN old /\ row.version = old.version /\ row.adapter = old.adapter
        /\ row.url = old.url /\ row.network = old.network
    BY <2>1 DEF EndpointFits, EndpointRow, EndpointColumns, Validated
  <2>5. row = Validated(old)
    OBVIOUS
  <2> HIDE DEF row
  <2>3. EndpointFits(db, row)
    BY <2>1, <2>2 DEF EndpointFits, EndpointRow, EndpointUrlValid
  <2>4. Follows(t, x, row)
    BY <1>1, <2>2, <2>3, <2>5 DEF Follows, RowTables, RowFits, SameIdentity, Advances, old
  <2> QED BY <2>4 DEF row, old
<1>2. CASE t = "deployments"
  <2>1. DeploymentFits(db, old)
    BY <1>2 DEF TablesFit, RowTables, RowFits
  <2> HIDE DEF old
  <2>2. /\ DOMAIN row = DOMAIN old /\ row.version = old.version /\ row.org = old.org
        /\ row.endpoint = old.endpoint /\ row.credential = old.credential /\ row.transport = old.transport
        /\ row.pricing = old.pricing /\ row.unpriced = old.unpriced /\ row.isolation = old.isolation
    BY <2>1 DEF DeploymentFits, DeploymentRow, DeploymentColumns, Validated
  <2>5. row = Validated(old)
    OBVIOUS
  <2> HIDE DEF row
  <2>3. DeploymentFits(db, row)
    BY <2>1, <2>2 DEF DeploymentFits, DeploymentRow
  <2>4. Follows(t, x, row)
    BY <1>2, <2>2, <2>3, <2>5 DEF Follows, RowTables, RowFits, SameIdentity, Advances, old
  <2> QED BY <2>4 DEF row, old
<1> QED BY <1>1, <1>2

-----------------------------------------------------------------------------
\* The registry.

LEMMA RegistryFamilies ==
    \A t \in COMPATIBILITY_REGISTRY : t.ingress \in {"anthropic", "chat", "responses", "gemini"}
<1>1. \A i, e, k, s : \A t \in Entries(i, e, k, s) : t.ingress = i
  BY DEF Entries
<1>2. SUFFICES ASSUME NEW t \in COMPATIBILITY_REGISTRY
               PROVE  t.ingress \in {"anthropic", "chat", "responses", "gemini"}
  OBVIOUS
<1>3. \E i \in {"anthropic", "chat", "responses", "gemini"} : \E e, k, s : t \in Entries(i, e, k, s)
  BY DEF COMPATIBILITY_REGISTRY
<1> QED BY <1>1, <1>3

LEMMA TupleCompatible ==
    ASSUME NEW e, NEW c, NEW t, TransportTupleExists(e, c, t)
    PROVE  CompatibleTransport(e, c, t)
BY RegistryFamilies DEF TransportTupleExists, CompatibleTransport, Compatibility

\* A transport that has a tuple and serves a protocol serves it with that tuple.
LEMMA TupleServes ==
    ASSUME NEW e, NEW c, NEW t, NEW i, CompatibleTransport(e, c, t), TransportSupportsIngress(t, i)
    PROVE  Compatibility(i, e, c, t) # {}
<1>1. PICK x \in COMPATIBILITY_REGISTRY : x.endpoint = e /\ x.credential = c /\ x.transport = t
  BY DEF CompatibleTransport, Compatibility
<1>2. PICK u \in COMPATIBILITY_REGISTRY : u.transport = t /\ u.ingress = i
  BY DEF TransportSupportsIngress
<1> QED BY <1>1, <1>2, RegistryAssumption

-----------------------------------------------------------------------------
\* The weights of a tier.

Weight(S) == MapThenSumSet(LAMBDA t : t.weight, S)

First(s) == CHOOSE x \in s : TRUE

\* g adds the weights of every subset of S, a target at a time.
Weighs(g, S) == g = [s \in SUBSET S |-> IF s = {} THEN 0 ELSE First(s).weight + g[s \ {First(s)}]]

\* A set of subsets has a smallest one.
LEMMA Smallest ==
    ASSUME NEW S, IsFiniteSet(S), NEW T, T \subseteq SUBSET S, T # {}
    PROVE  \E s \in T : \A t \in T : t \subseteq s => t = s
<1>1. FiniteSubsetsOf(S) = SUBSET S
  BY FS_FiniteSubsetsOfFinite
<1>2. IsWellFoundedOn(StrictSubsetOrdering(S), SUBSET S)
  BY <1>1, FS_StrictSubsetOrderingWellFounded
<1>3. PICK s \in T : \A t \in T : ~(<<t, s>> \in StrictSubsetOrdering(S))
  BY <1>2, WFMin
<1>4. ASSUME NEW t \in T, t \subseteq s PROVE t = s
  BY <1>3, <1>4 DEF StrictSubsetOrdering
<1> QED BY <1>3, <1>4

LEMMA FirstIn == ASSUME NEW s, s # {} PROVE First(s) \in s
BY DEF First

LEMMA WeightIs ==
    ASSUME NEW S, NEW h, Weighs(h, S), \A g : Weighs(g, S) => g = h
    PROVE  Weight(S) = h[S]
<1>1. Weight(S) = (CHOOSE g : Weighs(g, S))[S]
  BY DEF Weight, MapThenSumSet, MapThenFoldSet, Weighs, First
<1>2. Weighs((CHOOSE g : Weighs(g, S)), S)
  OBVIOUS
<1> QED BY <1>1, <1>2

\* Two of them agree wherever both sum.
LEMMA WeighsAgree ==
    ASSUME NEW A, NEW B, IsFiniteSet(A), NEW g, NEW h, Weighs(g, A), Weighs(h, B)
    PROVE  \A s \in SUBSET A : s \in SUBSET B => g[s] = h[s]
<1> DEFINE T == {s \in SUBSET A : s \in SUBSET B /\ g[s] # h[s]}
<1>1. SUFFICES ASSUME T # {} PROVE FALSE
  OBVIOUS
<1>2. PICK s \in T : \A t \in T : t \subseteq s => t = s
  <2>1. T \subseteq SUBSET A
    OBVIOUS
  <2> HIDE DEF T
  <2> QED BY <1>1, <2>1, Smallest
<1>3. /\ g[s] = IF s = {} THEN 0 ELSE First(s).weight + g[s \ {First(s)}]
      /\ h[s] = IF s = {} THEN 0 ELSE First(s).weight + h[s \ {First(s)}]
  BY DEF Weighs
<1>4. s # {} /\ First(s) \in s
  BY <1>3, FirstIn
<1>5. g[s \ {First(s)}] = h[s \ {First(s)}]
  BY <1>2, <1>4
<1> QED BY <1>3, <1>4, <1>5

LEMMA WeighsExist ==
    ASSUME NEW S, IsFiniteSet(S)
    PROVE  \E g : Weighs(g, S)
<1> DEFINE T == {s \in SUBSET S : ~\E g : Weighs(g, s)}
<1>1. SUFFICES ASSUME T # {} PROVE FALSE
  OBVIOUS
<1>2. PICK s \in T : \A t \in T : t \subseteq s => t = s
  <2>1. T \subseteq SUBSET S
    OBVIOUS
  <2> HIDE DEF T
  <2> QED BY <1>1, <2>1, Smallest
<1>3. \A x \in s : \E g : Weighs(g, s \ {x})
  BY <1>2
<1> DEFINE G(x) == CHOOSE g : Weighs(g, s \ {x})
<1>4. \A x \in s : Weighs(G(x), s \ {x})
  BY <1>3
<1>5. \A x \in s : IsFiniteSet(s \ {x})
  BY FS_Subset
<1> HIDE DEF G
<1>6. \A x, y \in s : \A t \in SUBSET (s \ {x}) : t \in SUBSET (s \ {y}) => G(x)[t] = G(y)[t]
  <2> SUFFICES ASSUME NEW x \in s, NEW y \in s, NEW t \in SUBSET (s \ {x}), t \in SUBSET (s \ {y})
               PROVE  G(x)[t] = G(y)[t]
    OBVIOUS
  <2>1. Weighs(G(x), s \ {x}) /\ Weighs(G(y), s \ {y}) /\ IsFiniteSet(s \ {x})
    BY <1>4, <1>5
  <2> HIDE DEF T
  <2> QED BY <2>1, WeighsAgree
<1> DEFINE Miss(t) == CHOOSE x \in s : x \notin t
           Sub(t) == G(Miss(t))[t]
           g == [t \in SUBSET s |->
                    IF t = {} THEN 0
                    ELSE First(t).weight + Sub(t \ {First(t)})]
<1>7. \A t \in SUBSET s : t # s => Miss(t) \in s /\ t \in SUBSET (s \ {Miss(t)})
  OBVIOUS
<1>8. \A t \in SUBSET s : t # s => g[t] = Sub(t)
  <2> SUFFICES ASSUME NEW t \in SUBSET s, t # s PROVE g[t] = Sub(t)
    OBVIOUS
  <2> DEFINE m == Miss(t)
  <2>1. m \in s /\ t \in SUBSET (s \ {m})
    BY <1>7
  <2>2. Sub(t) = IF t = {} THEN 0 ELSE First(t).weight + G(m)[t \ {First(t)}]
    BY <1>4, <2>1 DEF Weighs
  <2>3. ASSUME t # {} PROVE Sub(t \ {First(t)}) = G(m)[t \ {First(t)}]
    <3> DEFINE u == t \ {First(t)}
               n == Miss(u)
    <3>1. u \in SUBSET s /\ u # s
      BY <2>1
    <3>2. n \in s /\ u \in SUBSET (s \ {n})
      BY <1>7, <3>1
    <3>3. u \in SUBSET (s \ {m})
      BY <2>1
    <3> HIDE DEF u, n, m, Miss
    <3>4. G(n)[u] = G(m)[u]
      BY <1>6, <2>1, <3>2, <3>3
    <3> QED BY <3>4 DEF u, n
  <2> HIDE DEF Sub, m
  <2> QED BY <2>2, <2>3
<1>9. \A t \in SUBSET s : t # {} => t \ {First(t)} \in SUBSET s /\ t \ {First(t)} # s
  BY FirstIn
<1> HIDE DEF Sub
<1>10. g = [t \in SUBSET s |-> IF t = {} THEN 0 ELSE First(t).weight + g[t \ {First(t)}]]
  <2>1. \A t \in SUBSET s : g[t] = IF t = {} THEN 0 ELSE First(t).weight + g[t \ {First(t)}]
    BY <1>8, <1>9
  <2> DEFINE k == [t \in SUBSET s |-> IF t = {} THEN 0 ELSE First(t).weight + g[t \ {First(t)}]]
  <2>2. \A t \in SUBSET s : g[t] = k[t]
    BY <2>1
  <2> QED BY <2>2
<1>11. Weighs(g, s)
  BY <1>10 DEF Weighs
<1> QED BY <1>11

LEMMA WeighsUnique ==
    ASSUME NEW S, IsFiniteSet(S), NEW g, NEW h, Weighs(g, S), Weighs(h, S)
    PROVE  g = h
<1>1. \A s \in SUBSET S : g[s] = h[s]
  BY WeighsAgree
<1>2. g = [s \in SUBSET S |-> g[s]] /\ h = [s \in SUBSET S |-> h[s]]
  BY DEF Weighs
<1> QED BY <1>1, <1>2

LEMMA WeightStep ==
    ASSUME NEW S, IsFiniteSet(S)
    PROVE  /\ Weight({}) = 0
           /\ S # {} => Weight(S) = First(S).weight + Weight(S \ {First(S)})
<1>1. \A T : IsFiniteSet(T) => \E h : Weighs(h, T) /\ Weight(T) = h[T]
  <2> SUFFICES ASSUME NEW T, IsFiniteSet(T) PROVE \E h : Weighs(h, T) /\ Weight(T) = h[T]
    OBVIOUS
  <2>1. PICK h : Weighs(h, T)
    BY WeighsExist
  <2> QED BY <2>1, WeighsUnique, WeightIs
<1>2. Weight({}) = 0
  <2>1. PICK h : Weighs(h, {}) /\ Weight({}) = h[{}]
    BY <1>1, FS_EmptySet
  <2> QED BY <2>1 DEF Weighs
<1>3. ASSUME S # {} PROVE Weight(S) = First(S).weight + Weight(S \ {First(S)})
  <2> DEFINE T == S \ {First(S)}
  <2>1. IsFiniteSet(T) /\ T \in SUBSET S
    BY FS_Subset
  <2>2. PICK h : Weighs(h, S) /\ Weight(S) = h[S]
    BY <1>1
  <2>3. PICK k : Weighs(k, T) /\ Weight(T) = k[T]
    BY <1>1, <2>1
  <2>4. h[T] = k[T]
    BY <2>1, <2>2, <2>3, WeighsAgree
  <2>5. h[S] = First(S).weight + h[T]
    BY <1>3, <2>2 DEF Weighs
  <2> QED BY <2>2, <2>3, <2>4, <2>5
<1> QED BY <1>2, <1>3

\* The order in which elements are summed does not matter.
LEMMA WeightElement ==
    ASSUME NEW S, IsFiniteSet(S), \A x \in S : x.weight \in Int
    PROVE  /\ Weight(S) \in Int
           /\ \A x \in S : Weight(S) = x.weight + Weight(S \ {x})
<1> DEFINE Good(s) == Weight(s) \in Int /\ \A x \in s : Weight(s) = x.weight + Weight(s \ {x})
           T == {s \in SUBSET S : ~Good(s)}
<1>1. SUFFICES ASSUME T # {} PROVE FALSE
  OBVIOUS
<1>2. PICK s \in T : \A t \in T : t \subseteq s => t = s
  <2>1. T \subseteq SUBSET S
    OBVIOUS
  <2> HIDE DEF T
  <2> QED BY <1>1, <2>1, Smallest
<1>3. \A t \in SUBSET s : t # s => Good(t)
  BY <1>2
<1>4. IsFiniteSet(s) /\ s \in SUBSET S /\ ~Good(s)
  BY FS_Subset
<1> DEFINE c == First(s)
<1>5. s # {} => c \in s /\ Weight(s) = c.weight + Weight(s \ {c})
  BY <1>4, WeightStep, FirstIn
<1>6. Weight({}) = 0
  BY <1>4, WeightStep
<1>7. s # {}
  <2>1. ASSUME s = {} PROVE Good(s)
    BY <1>6, <2>1
  <2> QED BY <1>4, <2>1
<1>8. Weight(s \ {c}) \in Int /\ c.weight \in Int
  BY <1>3, <1>4, <1>5, <1>7
<1>9. ASSUME NEW x \in s, x # c PROVE Weight(s) = x.weight + Weight(s \ {x})
  <2> DEFINE u == (s \ {c}) \ {x}
  <2>1. Weight(s \ {c}) = x.weight + Weight(u)
    BY <1>3, <1>5, <1>7, <1>9
  <2>2. u = (s \ {x}) \ {c}
    OBVIOUS
  <2>3. Weight(s \ {x}) = c.weight + Weight(u) /\ Good(u)
    <3>1. Good(s \ {x})
      BY <1>3, <1>9
    <3>2. c \in s \ {x}
      BY <1>5, <1>7, <1>9
    <3>3. Good(u)
      BY <1>3, <1>5, <1>7
    <3> QED BY <2>2, <3>1, <3>2, <3>3
  <2>4. x.weight \in Int /\ Weight(u) \in Int
    BY <1>4, <2>3
  <2> HIDE DEF c, u, Good
  <2> QED BY <1>5, <1>7, <1>8, <2>1, <2>3, <2>4
<1>10. Good(s)
  <2> HIDE DEF c
  <2> QED BY <1>5, <1>7, <1>8, <1>9
<1> QED BY <1>4, <1>10

LEMMA WeightMono ==
    ASSUME NEW S, IsFiniteSet(S), \A x \in S : x.weight \in Nat, NEW U, U \subseteq S
    PROVE  Weight(U) <= Weight(S)
<1> DEFINE T == {s \in SUBSET S : ~(Weight(s \cap U) <= Weight(s))}
<1>1. SUFFICES ASSUME T # {} PROVE FALSE
  <2>1. S \cap U = U
    OBVIOUS
  <2> QED BY <2>1
<1>2. PICK s \in T : \A t \in T : t \subseteq s => t = s
  <2>1. T \subseteq SUBSET S
    OBVIOUS
  <2> HIDE DEF T
  <2> QED BY <1>1, <2>1, Smallest
<1>3. s \in SUBSET S /\ ~(Weight(s \cap U) <= Weight(s))
  OBVIOUS
<1>4. \A t \in SUBSET S : IsFiniteSet(t) /\ \A x \in t : x.weight \in Int
  BY FS_Subset
<1>5. \A t \in SUBSET S : Weight(t) \in Int /\ \A x \in t : Weight(t) = x.weight + Weight(t \ {x})
  BY <1>4, WeightElement
<1>6. s # {}
  <2>1. Weight({}) = 0
    BY WeightStep
  <2>2. ASSUME s = {} PROVE Weight(s \cap U) = 0 /\ Weight(s) = 0
    <3>1. s \cap U = {}
      BY <2>2
    <3> QED BY <2>1, <2>2, <3>1
  <2> HIDE DEF T
  <2> QED BY <1>3, <2>2
<1>7. PICK x \in s : TRUE
  BY <1>6
<1> DEFINE u == s \ {x}
<1>8. Weight(u \cap U) <= Weight(u) /\ u \in SUBSET S
  BY <1>2, <1>3, <1>7
<1>9. Weight(s) = x.weight + Weight(u) /\ x.weight \in Nat
  BY <1>3, <1>5, <1>7
<1>10. x \in U => Weight(s \cap U) = x.weight + Weight(u \cap U)
  <2>1. (s \cap U) \ {x} = u \cap U
    OBVIOUS
  <2>2. s \cap U \in SUBSET S
    BY <1>3
  <2> HIDE DEF u
  <2> QED BY <1>5, <1>7, <2>1, <2>2
<1>11. x \notin U => s \cap U = u \cap U
  OBVIOUS
<1>12. /\ Weight(u) \in Int /\ Weight(u \cap U) \in Int
  BY <1>5, <1>8
<1> HIDE DEF T, u
<1>13. CASE x \in U
  BY <1>3, <1>8, <1>9, <1>10, <1>12, <1>13
<1>14. CASE x \notin U
  <2>1. Weight(s \cap U) = Weight(u \cap U)
    BY <1>11, <1>14
  <2> QED BY <1>3, <1>8, <1>9, <1>12, <2>1
<1> QED BY <1>13, <1>14

\* The tiers of the enabled targets are no heavier than those of all.
LEMMA EnabledTiers ==
    ASSUME NEW r, IsFiniteSet(r.targets), \A t \in r.targets : t.weight \in Nat, TiersValid(r.targets)
    PROVE  TiersValid(EnabledTargets(r))
<1> DEFINE Tier(S, q) == {t \in S : t.priority = q}
<1>1. \A S : TiersValid(S) <=> \A q \in {t.priority : t \in S} : Weight(Tier(S, q)) <= 256
  BY DEF TiersValid, Weight
<1>2. SUFFICES ASSUME NEW q \in {t.priority : t \in EnabledTargets(r)}
               PROVE  Weight(Tier(EnabledTargets(r), q)) <= 256
  <2> HIDE DEF Tier
  <2> QED BY <1>1
<1> DEFINE S == Tier(r.targets, q)
           U == Tier(EnabledTargets(r), q)
<1>3. q \in {t.priority : t \in r.targets}
  BY DEF EnabledTargets
<1>4. Weight(S) <= 256
  <2> HIDE DEF Tier
  <2> QED BY <1>1, <1>3
<1>5. S \subseteq r.targets /\ U \subseteq S /\ IsFiniteSet(S) /\ \A x \in S : x.weight \in Nat
  BY FS_Subset DEF EnabledTargets
<1> HIDE DEF S, U
<1>6. IsFiniteSet(U) /\ (\A x \in U : x.weight \in Int) /\ \A x \in S : x.weight \in Int
  BY <1>5, FS_Subset
<1>7. Weight(U) <= Weight(S) /\ Weight(U) \in Int /\ Weight(S) \in Int
  BY <1>5, <1>6, WeightMono, WeightElement
<1>8. Weight(U) <= 256
  BY <1>4, <1>7
<1> QED BY <1>8 DEF U

-----------------------------------------------------------------------------
\* Deployments, routes, grants and keys.

LEMMA DeploymentCreated ==
    ASSUME TablesFit(db), NEW i \in DeploymentInputs, ValidateDeploymentMutable(i), ValidateDeploymentBindings(i)
    PROVE  RowFits(db, "deployments", Over([version |-> 1, evidence |-> 0], i))
<1> DEFINE r == [version |-> 1, evidence |-> 0]
           row == Over(r, i)
<1>1. DOMAIN r = {"version", "evidence"} /\ r.version = 1
  OBVIOUS
<1>2. DOMAIN i = DeploymentColumns
  BY InputAssumption
<1> HIDE DEF r
<1>3. /\ DOMAIN row = DeploymentColumns \cup {"version", "evidence"} /\ row.version = 1
      /\ row.org = i.org /\ row.endpoint = i.endpoint /\ row.credential = i.credential
      /\ row.transport = i.transport /\ row.pricing = i.pricing /\ row.unpriced = i.unpriced
      /\ row.isolation = i.isolation
  BY <1>1, <1>2 DEF Over, DeploymentColumns
<1>4. /\ i.endpoint \in DOMAIN db.endpoints /\ i.credential \in DOMAIN db.credentials
      /\ i.org = db.credentials[i.credential].org
      /\ CompatibleTransport(db.endpoints[i.endpoint].adapter, db.credentials[i.credential].kind, i.transport)
  BY TupleCompatible DEF ValidateDeploymentBindings
<1>5. i.pricing # None => /\ i.pricing \in DOMAIN db.versions
                          /\ i.org # None => db.versions[i.pricing].usable
  BY DEF ValidateDeploymentBindings, ValidatePricingVersion
<1>6. IsolationValid(i.isolation, i.org) /\ i.unpriced # (i.pricing # None)
  BY DEF ValidateDeploymentMutable
<1> HIDE DEF row
<1>7. DeploymentRow(db, row)
  BY <1>3, <1>4, <1>5 DEF DeploymentRow
<1>8. DeploymentFits(db, row)
  BY <1>3, <1>4, <1>5, <1>6, <1>7 DEF DeploymentFits
<1> QED BY <1>8 DEF RowFits, row, r

LEMMA DeploymentUpdated ==
    ASSUME TablesFit(db), NEW d \in DOMAIN db.deployments, NEW i \in DeploymentInputs,
           ValidatePricingVersion(db.deployments[d].org, i.pricing),
           ValidateDeploymentMutable(
              [db.deployments[d] EXCEPT !.caps = i.caps, !.pricing = i.pricing, !.unpriced = i.unpriced,
                  !.isolation = i.isolation, !.status = i.status, !.version = @ + 1, !.evidence = 0])
    PROVE  Follows("deployments", d,
              [db.deployments[d] EXCEPT !.caps = i.caps, !.pricing = i.pricing, !.unpriced = i.unpriced,
                  !.isolation = i.isolation, !.status = i.status, !.version = @ + 1, !.evidence = 0])
<1> DEFINE old == db.deployments[d]
           row == [old EXCEPT !.caps = i.caps, !.pricing = i.pricing, !.unpriced = i.unpriced,
                      !.isolation = i.isolation, !.status = i.status, !.version = @ + 1, !.evidence = 0]
<1>1. DeploymentFits(db, old)
  BY DEF TablesFit, RowTables, RowFits
<1>2. old = db["deployments"][d] /\ ValidatePricingVersion(old.org, i.pricing) /\ ValidateDeploymentMutable(row)
  OBVIOUS
<1> HIDE DEF old
<1>3. /\ DOMAIN row = DOMAIN old /\ row.version = old.version + 1 /\ row.org = old.org
      /\ row.endpoint = old.endpoint /\ row.credential = old.credential /\ row.transport = old.transport
      /\ row.pricing = i.pricing
  BY <1>1 DEF DeploymentFits, DeploymentRow, DeploymentColumns
<1> HIDE DEF row
<1>4. DeploymentRow(db, row) /\ row.version > old.version
  <2>1. DeploymentRow(db, old)
    BY <1>1 DEF DeploymentFits
  <2>2. i.pricing # None => i.pricing \in DOMAIN db.versions
    BY <1>2 DEF ValidatePricingVersion
  <2> QED BY <1>3, <2>1, <2>2 DEF DeploymentRow
<1>5. IsolationValid(row.isolation, row.org) /\ row.unpriced # (row.pricing # None)
  BY <1>2 DEF ValidateDeploymentMutable
<1>6. row.pricing # None /\ row.org # None => db.versions[row.pricing].usable
  BY <1>2, <1>3 DEF ValidatePricingVersion
<1>7. DeploymentFits(db, row)
  BY <1>1, <1>3, <1>4, <1>5, <1>6 DEF DeploymentFits
<1>8. Follows("deployments", d, row)
  BY <1>2, <1>3, <1>4, <1>7 DEF Follows, RowTables, RowFits, SameIdentity, Advances
<1> QED BY <1>8 DEF row, old

\* A route that passes the checks of its graph fits.
LEMMA RouteGraphFits ==
    ASSUME TablesFit(db), NEW r, DOMAIN r = RouteColumns \cup {"version"}, r.version \in Nat,
           IsFiniteSet(r.targets),
           \A t \in r.targets : DOMAIN t = TargetColumns /\ t.output \in Nat \cup {None},
           ValidateRouteGraph(r), r.output > 0
    PROVE  RouteFits(db, r)
<1>1. /\ r.reliability \in DOMAIN db.reliabilities /\ TiersValid(r.targets)
      /\ \A t \in r.targets : t.weight \in 1..256 /\ TargetValid(t)
  BY DEF ValidateRouteGraph, ValidateTargets
<1>2. \A t \in r.targets : t.weight \in Nat
  BY <1>1
<1>3. RouteRow(db, r)
  BY <1>1, <1>2 DEF RouteRow, TargetRow, ValidateRouteGraph
<1>4. TiersValid(EnabledTargets(r))
  BY <1>1, <1>2, EnabledTiers
<1>5. ASSUME NEW t \in r.targets PROVE TargetFits(db, r, t)
  <2> DEFINE w == db.deployments[t.deployment]
  <2>1. t.deployment \in DOMAIN db.deployments /\ w.org \in {None, r.org}
        /\ TransportSupportsIngress(w.transport, r.ingress)
    BY DEF ValidateRouteGraph
  <2>2. CompatibleTransport(db.endpoints[w.endpoint].adapter, db.credentials[w.credential].kind, w.transport)
    BY <2>1 DEF TablesFit, RowTables, RowFits, DeploymentFits
  <2> HIDE DEF w
  <2>3. Compatibility(r.ingress, db.endpoints[w.endpoint].adapter,
                      db.credentials[w.credential].kind, w.transport) # {}
    BY <2>1, <2>2, TupleServes
  <2> QED BY <2>1, <2>3 DEF TargetFits, w
<1> QED BY <1>1, <1>3, <1>4, <1>5 DEF RouteFits, EnabledTargets, RequestPolicyValid

LEMMA ReplacedTargets ==
    ASSUME NEW i \in RouteInputs
    PROVE  /\ IsFiniteSet(ReplaceTargets(i.targets))
           /\ \A t \in ReplaceTargets(i.targets) : DOMAIN t = TargetColumns /\ t.output \in Nat \cup {None}
<1>1. IsFiniteSet(i.targets) /\ \A t \in i.targets : DOMAIN t = TargetColumns /\ t.output \in Nat \cup {None}
  BY InputAssumption
<1>2. IsFiniteSet({[t EXCEPT !.known = TRUE] : t \in i.targets})
  <2> DEFINE S == i.targets
             T == {[t EXCEPT !.known = TRUE] : t \in S}
             f == [t \in S |-> [t EXCEPT !.known = TRUE]]
  <2>1. f \in Surjection(S, T)
    BY DEF Surjection
  <2>2. IsFiniteSet(S)
    BY <1>1
  <2> HIDE DEF f
  <2> QED BY <2>1, <2>2, FS_Surjection
<1>3. ASSUME NEW t \in i.targets
      PROVE  LET u == [t EXCEPT !.known = TRUE] IN DOMAIN u = TargetColumns /\ u.output \in Nat \cup {None}
  BY <1>1 DEF TargetColumns
<1> QED BY <1>2, <1>3 DEF ReplaceTargets

LEMMA RouteCreated ==
    ASSUME TablesFit(db), NEW i \in RouteInputs, ValidatePolicyObjects(i),
           ValidateRouteGraph(Over([version |-> 1, targets |-> ReplaceTargets(i.targets)], i))
    PROVE  RowFits(db, "routes", Over([version |-> 1, targets |-> ReplaceTargets(i.targets)], i))
<1> DEFINE r == [version |-> 1, targets |-> ReplaceTargets(i.targets)]
           row == Over(r, i)
<1>1. DOMAIN r = {"version", "targets"} /\ r.version = 1 /\ r.targets = ReplaceTargets(i.targets)
  OBVIOUS
<1>2. DOMAIN i = RouteColumns /\ ValidateRouteGraph(row) /\ i.output > 0
  BY InputAssumption DEF ValidatePolicyObjects
<1> HIDE DEF r
<1>3. /\ DOMAIN row = RouteColumns \cup {"version"} /\ row.version = 1 /\ row.output = i.output
      /\ row.targets = ReplaceTargets(i.targets)
  BY <1>1, <1>2 DEF Over, RouteColumns
<1> HIDE DEF row
<1>4. RouteFits(db, row)
  BY <1>2, <1>3, ReplacedTargets, RouteGraphFits
<1> QED BY <1>4 DEF RowFits, row, r

LEMMA RouteUpdated ==
    ASSUME TablesFit(db), NEW r \in DOMAIN db.routes, NEW i \in RouteInputs, ValidatePolicyObjects(i),
           ValidateRouteGraph(
              [db.routes[r] EXCEPT !.required = i.required, !.reliability = i.reliability, !.output = i.output,
                  !.targets = ReplaceTargets(i.targets), !.status = i.status, !.version = @ + 1])
    PROVE  LET row == [db.routes[r] EXCEPT !.required = i.required, !.reliability = i.reliability,
                          !.output = i.output, !.targets = ReplaceTargets(i.targets), !.status = i.status,
                          !.version = @ + 1]
           IN  /\ RowFits(db, "routes", row) /\ SameIdentity("routes", db.routes[r], row)
               /\ row.version = db.routes[r].version + 1
<1> DEFINE old == db.routes[r]
           row == [old EXCEPT !.required = i.required, !.reliability = i.reliability, !.output = i.output,
                      !.targets = ReplaceTargets(i.targets), !.status = i.status, !.version = @ + 1]
<1>1. RouteRow(db, old)
  BY DEF TablesFit, RowTables, RowFits, RouteFits
<1>2. ValidateRouteGraph(row) /\ i.output > 0
  BY DEF ValidatePolicyObjects
<1> HIDE DEF old
<1>3. /\ DOMAIN row = RouteColumns \cup {"version"} /\ row.version = old.version + 1 /\ row.output = i.output
      /\ row.targets = ReplaceTargets(i.targets)
      /\ row.org = old.org /\ row.ingress = old.ingress /\ row.model = old.model
  BY <1>1 DEF RouteRow, RouteColumns
<1>4. row.version \in Nat
  BY <1>1, <1>3 DEF RouteRow
<1> HIDE DEF row
<1>5. RouteFits(db, row)
  BY <1>2, <1>3, <1>4, ReplacedTargets, RouteGraphFits
<1>6. RowFits(db, "routes", row) /\ SameIdentity("routes", old, row) /\ row.version = old.version + 1
  BY <1>3, <1>5 DEF RowFits, SameIdentity
<1> QED BY <1>6 DEF row, old

LEMMA GrantUpdated ==
    ASSUME TablesFit(db), NEW o \in DOMAIN db.grants, NEW t \in GrantColumns, NEW new,
           LET ids == IF t = "routes" THEN DOMAIN new ELSE new IN
              /\ ids \subseteq DOMAIN db[t]
              /\ t \in {"routes", "deployments"} => \A x \in ids : db[t][x].org = None,
           t = "routes" => \A r \in DOMAIN new : CeilingValid(new[r])
    PROVE  Follows("grants", o, [db.grants[o] EXCEPT ![t] = new])
<1> DEFINE old == db.grants[o]
           row == [old EXCEPT ![t] = new]
<1>1. GrantFits(db, old)
  BY DEF TablesFit, RowTables, RowFits
<1> HIDE DEF old
<1>2. /\ DOMAIN row = DOMAIN old /\ row[t] = new /\ \A u \in GrantColumns : u # t => row[u] = old[u]
  BY <1>1 DEF GrantFits, GrantRow
<1>3. GrantFits(db, row)
  <2>1. CASE t = "routes"
    <3>1. row.routes = new /\ row.deployments = old.deployments
      BY <1>2, <2>1 DEF GrantColumns
    <3> HIDE DEF row
    <3> QED BY <1>1, <1>2, <2>1, <3>1 DEF GrantFits, GrantRow
  <2>2. CASE t = "deployments"
    <3>1. row.deployments = new /\ row.routes = old.routes
      BY <1>2, <2>2 DEF GrantColumns
    <3> HIDE DEF row
    <3> QED BY <1>1, <1>2, <2>2, <3>1 DEF GrantFits, GrantRow
  <2>3. CASE t \notin {"routes", "deployments"}
    <3>1. row.deployments = old.deployments /\ row.routes = old.routes
      BY <1>2, <2>3 DEF GrantColumns
    <3> HIDE DEF row
    <3> QED BY <1>1, <1>2, <3>1 DEF GrantFits, GrantRow
  <2> QED BY <2>1, <2>2, <2>3
<1> HIDE DEF row
<1>4. Follows("grants", o, row)
  BY <1>3 DEF Follows, RowTables, RowFits, SameIdentity, Advances, VersionTables
<1> QED BY <1>4 DEF row, old

LEMMA KeyUpdated ==
    ASSUME TablesFit(db), NEW k \in DOMAIN db.keys, NEW routes \in KeyRouteInputs, NEW s,
           ValidateRouteAuthority(db.keys[k].org, routes)
    PROVE  Follows("keys", k, [db.keys[k] EXCEPT !.routes = routes, !.status = s])
<1> DEFINE old == db.keys[k]
           row == [old EXCEPT !.routes = routes, !.status = s]
<1>1. KeyRow(db, old) /\ ValidateRouteAuthority(old.org, routes)
  BY DEF TablesFit, RowTables, RowFits
<1> HIDE DEF old
<1>2. DOMAIN row = DOMAIN old /\ row.routes = routes /\ row.org = old.org
  BY <1>1 DEF KeyRow
<1>3. ASSUME NEW r \in routes PROVE r \in DOMAIN db.routes /\ db.routes[r].org \in {None, old.org}
  <2>1. r \in DOMAIN db.routes /\ (db.routes[r].org = old.org \/ r \in DOMAIN db.grants[old.org].routes)
    BY <1>1 DEF ValidateRouteAuthority
  <2>2. old.org \in DOMAIN db.grants
    BY <1>1 DEF KeyRow, TablesFit
  <2>3. GrantRow(db, db.grants[old.org])
    BY <2>2 DEF TablesFit, RowTables, RowFits, GrantFits
  <2> QED BY <2>1, <2>3 DEF GrantRow
<1>4. \A x \in SUBSET routes : x # AllRoutes
  BY InputAssumption
<1> HIDE DEF row
<1>5. KeyRow(db, row)
  BY <1>1, <1>2, <1>3, <1>4 DEF KeyRow
<1>6. Follows("keys", k, row)
  BY <1>5 DEF Follows, RowTables, RowFits, SameIdentity, Advances, VersionTables
<1> QED BY <1>6 DEF row, old

-----------------------------------------------------------------------------
\* Steps.

\* A command that begins: a creation with a new id, or a change of a stored row.
Begins(c) ==
    /\ c.kind \in {"create", "update", "ca", "validate"}
    /\ c.kind = "create" => c.table \in Kinds /\ c.id \in Fresh(c.table) /\ RowFits(db, c.table, c.row)
    /\ c.kind = "update" =>
          /\ c.table = "routes" /\ c.id \in DOMAIN db.routes /\ RowFits(db, "routes", c.row)
          /\ SameIdentity("routes", db.routes[c.id], c.row)
          /\ c.row.version = db.routes[c.id].version + 1
          /\ <<"routes", c.id>> \in c.locks /\ ~Locked("routes", c.id)
    /\ c.kind = "ca" =>
          /\ c.table = "networks" /\ c.id \in DOMAIN db.networks
          /\ c.row.ca \in Nat /\ c.row.sealed = c.row.ca
    /\ c.kind = "validate" => c.table \in {"endpoints", "deployments"} /\ c.id \in DOMAIN db[c.table]

Opens(c) == db' = db /\ open' = open \cup {c} /\ Begins(c)

Changes(t, id, row) ==
    /\ Follows(t, id, row) /\ db' = Stored(db, t, id, row) /\ open' \subseteq open
    /\ t = "routes" => \A e \in open' : ~(e.kind = "update" /\ e.id = id)

Inserts(c) ==
    /\ c \in open /\ c.kind = "create" /\ open' = open \ {c}
    /\ NamespaceFree(c) /\ Insert(c)

DbStep ==
    \/ db' = db /\ open' \subseteq open
    \/ \E c : Opens(c)
    \/ \E t, id, row : Changes(t, id, row)
    \/ \E o \in DOMAIN db.organizations : \E row :
          db' = Stored(db, "organizations", o, row) /\ open' \subseteq open
    \/ \E c : Inserts(c)

LEMMA CreateOpens ==
    ASSUME NEW t \in Kinds, NEW o, NEW row, NEW l, BeginCreate(t, o, row, l), RowFits(db, t, row)
    PROVE  \E c : Opens(c)
<1>1. PICK k \in OptionalKeys(t, o) :
        /\ Fresh(t) # {}
        /\ BeginCommand([kind |-> "create", table |-> t, row |-> row, locks |-> l, key |-> k,
                         id |-> CHOOSE x \in Fresh(t) : TRUE])
  BY DEF BeginCreate
<1>2. PICK x : x = (CHOOSE y \in Fresh(t) : TRUE)
  OBVIOUS
<1>3. x \in Fresh(t)
  BY <1>1, <1>2
<1> DEFINE c == [kind |-> "create", table |-> t, row |-> row, locks |-> l, key |-> k, id |-> x]
<1>4. db' = db /\ open' = open \cup {c}
  BY <1>1, <1>2 DEF BeginCommand
<1>5. c.kind = "create" /\ c.table = t /\ c.row = row /\ c.id = x
  OBVIOUS
<1> HIDE DEF c
<1>6. Opens(c)
  BY <1>3, <1>4, <1>5 DEF Opens, Begins
<1> QED BY <1>6

LEMMA RowChanges ==
    ASSUME NEW t \in RowTables \ {"routes"}, NEW id, NEW row, NEW s,
           UpdateRow(t, id, row, s), Follows(t, id, row)
    PROVE  \E u, x, r : Changes(u, x, r)
<1>1. Changes(t, id, row)
  BY DEF Changes, UpdateRow, Write, Stored
<1> QED BY <1>1

LEMMA CreateSteps == ASSUME TablesFit(db), Create PROVE \E c : Opens(c)
<1> USE CreateOpens DEF Kinds
<1>1. CASE CreateEgressNetworkPolicy
  BY <1>1, NetworkCreated DEF CreateEgressNetworkPolicy
<1>2. CASE CreateReliabilityPolicy
  <2>1. PICK i \in ReliabilityInputs :
           /\ ValidateReliabilityPolicy(i)
           /\ BeginCreate("reliabilities", None, Over([version |-> 1], i), {})
    BY <1>2 DEF CreateReliabilityPolicy
  <2>2. RowFits(db, "reliabilities", Over([version |-> 1], i))
    BY <2>1, PolicyCreated DEF RowFits
  <2> QED BY <2>1, <2>2
<1>3. CASE CreatePricingPolicy
  <2>1. PICK s \in Statuses : BeginCreate("pricings", None, [status |-> s, current |-> None], {})
    BY <1>3 DEF CreatePricingPolicy
  <2>2. RowFits(db, "pricings", [status |-> s, current |-> None])
    BY DEF RowFits, PricingRow
  <2> QED BY <2>1, <2>2
<1>4. ASSUME NEW x \in DOMAIN db.pricings, PublishPricingVersion(x) PROVE \E c : Opens(c)
  <2>1. PICK i \in VersionInputs :
           BeginCreate("versions", None,
              [policy |-> x, usable |-> i.usable, generation |-> NextGeneration(x)], {<<"pricings", x>>})
    BY <1>4 DEF PublishPricingVersion
  <2>2. RowFits(db, "versions", [policy |-> x, usable |-> i.usable, generation |-> NextGeneration(x)])
    BY DEF RowFits, VersionRow
  <2> QED BY <2>1, <2>2
<1>5. CASE CreateUpstreamEndpoint
  BY <1>5, EndpointCreated DEF CreateUpstreamEndpoint
<1>6. CASE CreateModelDeployment
  BY <1>6, DeploymentCreated DEF CreateModelDeployment
<1>7. CASE CreateModelRoute
  BY <1>7, RouteCreated DEF CreateModelRoute
<1> QED BY <1>1, <1>2, <1>3, <1>4, <1>5, <1>6, <1>7 DEF Create

LEMMA BundleOpens == ASSUME TablesFit(db), NEW n \in DOMAIN db.networks, BeginReplaceCustomCa(n) PROVE \E c : Opens(c)
<1> DEFINE w == db.networks[n]
           row == [w EXCEPT !.ca = w.ca + 1, !.sealed = w.ca + 1, !.version = w.version + 1]
           c == [kind |-> "ca", table |-> "networks", id |-> n, key |-> None, locks |-> {}, row |-> row]
<1>1. NetworkRow(w)
  BY DEF TablesFit, RowTables, RowFits
<1>2. row.ca = w.ca + 1 /\ row.sealed = row.ca /\ w.ca \in Nat
  BY <1>1 DEF NetworkRow
<1>3. db' = db /\ open' = open \cup {c}
  BY DEF BeginReplaceCustomCa, BeginCommand
<1> HIDE DEF row
<1>4. c.kind = "ca" /\ c.table = "networks" /\ c.id = n /\ c.row = row
  OBVIOUS
<1> HIDE DEF c, w
<1>5. Opens(c)
  BY <1>2, <1>3, <1>4 DEF Opens, Begins
<1> QED BY <1>5

LEMMA ValidationOpens ==
    ASSUME NEW t \in {"endpoints", "deployments"}, NEW x \in DOMAIN db[t], NEW p, NEW o, BeginValidate(t, x, p, o)
    PROVE  \E c : Opens(c)
<1>0. PICK k : BeginCommand([kind |-> "validate", table |-> t, id |-> x, key |-> k, locks |-> {}, row |-> x])
  BY DEF BeginValidate
<1> DEFINE c == [kind |-> "validate", table |-> t, id |-> x, key |-> k, locks |-> {}, row |-> x]
<1>1. db' = db /\ open' = open \cup {c}
  BY <1>0 DEF BeginCommand
<1>2. c.kind = "validate" /\ c.table = t /\ c.id = x
  OBVIOUS
<1> HIDE DEF c
<1>3. Opens(c)
  BY <1>1, <1>2 DEF Opens, Begins
<1> QED BY <1>3

LEMMA RouteOpens == ASSUME TablesFit(db), NEW r \in DOMAIN db.routes, BeginUpdateModelRoute(r) PROVE \E c : Opens(c)
<1>1. PICK i \in RouteInputs :
        LET new == [db.routes[r] EXCEPT !.required = i.required, !.reliability = i.reliability,
                        !.output = i.output, !.targets = ReplaceTargets(i.targets), !.status = i.status, !.version = @ + 1] IN
        /\ ~Locked("routes", r)
        /\ ValidatePolicyObjects(i)
        /\ ValidateRouteGraph(new)
        /\ BeginCommand([kind |-> "update", table |-> "routes", id |-> r, key |-> None, row |-> new,
                         locks |-> RouteLocks(new) \cup {<<"routes", r>>}])
  BY DEF BeginUpdateModelRoute
<1> DEFINE row == [db.routes[r] EXCEPT !.required = i.required, !.reliability = i.reliability,
                      !.output = i.output, !.targets = ReplaceTargets(i.targets), !.status = i.status, !.version = @ + 1]
           c == [kind |-> "update", table |-> "routes", id |-> r, key |-> None, row |-> row,
                 locks |-> RouteLocks(row) \cup {<<"routes", r>>}]
<1>2. /\ RowFits(db, "routes", row) /\ SameIdentity("routes", db.routes[r], row)
      /\ row.version = db.routes[r].version + 1
  BY <1>1, RouteUpdated
<1>3. db' = db /\ open' = open \cup {c} /\ ~Locked("routes", r)
  BY <1>1 DEF BeginCommand
<1> HIDE DEF row
<1>4. /\ c.kind = "update" /\ c.table = "routes" /\ c.id = r /\ c.row = row
      /\ <<"routes", r>> \in c.locks
  OBVIOUS
<1> HIDE DEF c
<1>5. Opens(c)
  BY <1>2, <1>3, <1>4 DEF Opens, Begins
<1> QED BY <1>5

LEMMA UpdateSteps == ASSUME TablesFit(db), Update PROVE DbStep
<1>1. ASSUME NEW n \in DOMAIN db.networks, UpdateEgressNetworkPolicy(n)
      PROVE  \E t, x, r : Changes(t, x, r)
  <2>1. PICK i \in NetworkInputs :
           UpdateRow("networks", n, Over(NetworkFields(i), [db.networks[n] EXCEPT !.version = @ + 1]),
              Disables(db.networks[n], Over(NetworkFields(i), [db.networks[n] EXCEPT !.version = @ + 1])))
    BY <1>1 DEF UpdateEgressNetworkPolicy
  <2> QED BY <2>1, NetworkUpdated, RowChanges DEF RowTables
<1>2. ASSUME NEW p \in DOMAIN db.reliabilities, UpdateReliabilityPolicy(p)
      PROVE  \E t, x, r : Changes(t, x, r)
  <2>1. PICK i \in ReliabilityInputs :
           /\ ValidateReliabilityPolicy(i)
           /\ UpdateRow("reliabilities", p, Over([version |-> db.reliabilities[p].version + 1], i),
                 Disables(db.reliabilities[p], Over([version |-> db.reliabilities[p].version + 1], i)))
    BY <1>2 DEF UpdateReliabilityPolicy
  <2> QED BY <2>1, PolicyUpdated, RowChanges DEF RowTables
<1>3. ASSUME NEW p \in DOMAIN db.pricings, UpdatePricingPolicy(p)
      PROVE  \E t, x, r : Changes(t, x, r)
  <2>1. PICK s \in Statuses :
           UpdateRow("pricings", p, [db.pricings[p] EXCEPT !.status = s],
              Disables(db.pricings[p], [db.pricings[p] EXCEPT !.status = s]))
    BY <1>3 DEF UpdatePricingPolicy
  <2> QED BY <2>1, PricingUpdated, RowChanges DEF RowTables
<1>4. ASSUME NEW e \in DOMAIN db.endpoints, UpdateUpstreamEndpoint(e)
      PROVE  \E t, x, r : Changes(t, x, r)
  <2>1. PICK i \in EndpointInputs :
           LET old == db.endpoints[e]
               new == [old EXCEPT !.url = i.url, !.host = i.host, !.network = i.network, !.status = i.status,
                                  !.version = @ + 1, !.evidence = 0] IN
           /\ NormalizeEndpointUrl(new.adapter, new.url)
           /\ i.network \in DOMAIN db.networks
           /\ UpdateRow("endpoints", e, new, Disables(old, new))
    BY <1>4 DEF UpdateUpstreamEndpoint
  <2>2. NormalizeEndpointUrl(db.endpoints[e].adapter, i.url)
    <3>1. EndpointRow(db, db.endpoints[e])
      BY DEF TablesFit, RowTables, RowFits, EndpointFits
    <3> QED BY <2>1, <3>1 DEF EndpointRow, EndpointColumns
  <2> QED BY <2>1, <2>2, EndpointUpdated, RowChanges DEF RowTables
<1>5. ASSUME NEW d \in DOMAIN db.deployments, UpdateModelDeployment(d)
      PROVE  \E t, x, r : Changes(t, x, r)
  <2>1. PICK i \in DeploymentInputs :
           LET old == db.deployments[d]
               new == [old EXCEPT !.caps = i.caps, !.pricing = i.pricing, !.unpriced = i.unpriced,
                               !.isolation = i.isolation, !.status = i.status,
                               !.version = @ + 1, !.evidence = 0] IN
           /\ ValidatePricingVersion(old.org, i.pricing)
           /\ ValidateDeploymentMutable(new)
           /\ UpdateRow("deployments", d, new, Disables(old, new))
    BY <1>5 DEF UpdateModelDeployment
  <2> QED BY <2>1, DeploymentUpdated, RowChanges DEF RowTables
<1>6. ASSUME NEW o \in DOMAIN db.grants, NEW t \in GrantColumns, UpdateCatalogGrantSet(o, t)
      PROVE  \E u, x, r : Changes(u, x, r)
  <2>1. PICK i \in GrantInputs :
           LET new == i[t]
               ids(g) == IF t = "routes" THEN DOMAIN g ELSE g IN
           /\ ids(new) \subseteq DOMAIN db[t]
           /\ t \in {"routes", "deployments"} => \A x \in ids(new) : db[t][x].org = None
           /\ t = "routes" => \A r \in ids(new) : CeilingValid(new[r])
           /\ \E s : UpdateRow("grants", o, [db.grants[o] EXCEPT ![t] = new], s)
    BY <1>6 DEF UpdateCatalogGrantSet
  <2>2. t = "routes" => \A r \in DOMAIN i[t] : CeilingValid(i[t][r])
    BY <2>1
  <2>3. Follows("grants", o, [db.grants[o] EXCEPT ![t] = i[t]])
    BY <2>1, <2>2, GrantUpdated
  <2> QED BY <2>1, <2>3, RowChanges DEF RowTables
<1>7. ASSUME NEW k \in DOMAIN db.keys, UpdateGatewayKeyRoutes(k)
      PROVE  \E t, x, r : Changes(t, x, r)
  <2>1. PICK routes \in KeyRouteInputs, s \in Statuses :
           /\ ValidateRouteAuthority(db.keys[k].org, routes)
           /\ \E u : UpdateRow("keys", k, [db.keys[k] EXCEPT !.routes = routes, !.status = s], u)
    BY <1>7 DEF UpdateGatewayKeyRoutes
  <2> QED BY <2>1, KeyUpdated, RowChanges DEF RowTables
<1>8. ASSUME NEW c \in DOMAIN db.credentials, UpdateCredential(c)
      PROVE  \E t, x, r : Changes(t, x, r)
  <2>1. PICK rotated \in 0..1, ready \in BOOLEAN :
           \E u : UpdateRow("credentials", c, [db.credentials[c] EXCEPT !.selected = @ + rotated, !.ready = ready], u)
    BY <1>8 DEF UpdateCredential
  <2> QED BY <2>1, CredentialUpdated, RowChanges DEF RowTables
<1>9. ASSUME NEW o \in DOMAIN db.organizations, UpdateOrganization(o)
      PROVE  \E row : db' = Stored(db, "organizations", o, row) /\ open' \subseteq open
  <2>1. PICK s \in Statuses : \E u : UpdateRow("organizations", o, [db.organizations[o] EXCEPT !.status = s], u)
    BY <1>9 DEF UpdateOrganization
  <2> QED BY <2>1 DEF UpdateRow, Write, Stored
<1>10. ASSUME NEW n \in DOMAIN db.networks, BeginReplaceCustomCa(n) PROVE \E c : Opens(c)
  BY <1>10, BundleOpens
<1>11. ASSUME NEW e \in DOMAIN db.endpoints, BeginValidateEndpoint(e) PROVE \E c : Opens(c)
  <2>1. e \in DOMAIN db["endpoints"] /\ BeginValidate("endpoints", e, "validate endpoints", None)
    BY <1>11 DEF BeginValidateEndpoint
  <2> QED BY <2>1, ValidationOpens
<1>12. ASSUME NEW d \in DOMAIN db.deployments, BeginValidateDeployment(d) PROVE \E c : Opens(c)
  <2>1. /\ d \in DOMAIN db["deployments"]
        /\ BeginValidate("deployments", d, "validate deployments", db.deployments[d].org)
    BY <1>12 DEF BeginValidateDeployment
  <2> QED BY <2>1, ValidationOpens
<1>13. ASSUME NEW r \in DOMAIN db.routes, BeginUpdateModelRoute(r) PROVE \E c : Opens(c)
  BY <1>13, RouteOpens
<1> QED BY <1>1, <1>2, <1>3, <1>4, <1>5, <1>6, <1>7, <1>8, <1>9, <1>10, <1>11, <1>12, <1>13
        DEF Update, DbStep, GrantColumns

LEMMA FinishSteps == ASSUME TablesFit(db), CommandsFit, Finish PROVE DbStep
<1>1. PICK c \in open : \/ CommitCreate(c) \/ CommitReplaceCustomCa(c) \/ CommitValidate(c)
                        \/ CommitUpdateModelRoute(c) \/ Abort(c)
  BY DEF Finish
<1>2. CommandFits(c)
  BY DEF CommandsFit
<1>3. CASE CommitCreate(c)
  BY <1>3 DEF CommitCreate, Inserts, DbStep
<1>4. CASE CommitReplaceCustomCa(c)
  <2> DEFINE row == [db.networks[c.id] EXCEPT !.ca = c.row.ca, !.sealed = c.row.sealed, !.version = c.row.version]
  <2>1. c.table = "networks" /\ c.id \in DOMAIN db.networks /\ c.row.ca \in Nat /\ c.row.sealed = c.row.ca
    BY <1>2, <1>4 DEF CommitReplaceCustomCa, CommandFits
  <2>2. c.row.version = db.networks[c.id].version + 1 /\ Write("networks", c.id, row) /\ open' \subseteq open
    BY <1>4, <2>1 DEF CommitReplaceCustomCa, SameEtag
  <2>3. Follows("networks", c.id, row)
    BY <2>1, <2>2, BundleWritten
  <2> HIDE DEF row
  <2>4. Changes("networks", c.id, row)
    BY <2>2, <2>3 DEF Changes, Write, Stored
  <2> QED BY <2>4 DEF DbStep
<1>5. CASE CommitValidate(c)
  <2> DEFINE row == Validated(db[c.table][c.id])
  <2>1. c.table \in {"endpoints", "deployments"} /\ c.id \in DOMAIN db[c.table]
    BY <1>2, <1>5 DEF CommitValidate, CommandFits
  <2>3. Write(c.table, c.id, row) /\ open' \subseteq open
    BY <1>5 DEF CommitValidate
  <2>4. Follows(c.table, c.id, row)
    BY <2>1, ValidationWritten
  <2> HIDE DEF row
  <2>5. Changes(c.table, c.id, row)
    BY <2>1, <2>3, <2>4 DEF Changes, Write, Stored
  <2> QED BY <2>5 DEF DbStep
<1>6. CASE CommitUpdateModelRoute(c)
  <2>1. /\ c.table = "routes" /\ c.id \in DOMAIN db.routes /\ RowFits(db, "routes", c.row)
        /\ SameIdentity("routes", db.routes[c.id], c.row)
        /\ c.row.version = db.routes[c.id].version + 1
        /\ \A e \in open : e.kind = "update" /\ e.id = c.id => e = c
    BY <1>2, <1>6 DEF CommitUpdateModelRoute, CommandFits
  <2>2. Write("routes", c.id, c.row) /\ open' = open \ {c}
    BY <1>6, <2>1 DEF CommitUpdateModelRoute
  <2>3. db.routes[c.id].version \in Nat
    BY <2>1 DEF TablesFit, RowTables, RowFits, RouteFits, RouteRow
  <2>4. Follows("routes", c.id, c.row)
    BY <2>1, <2>3 DEF Follows, RowTables, Advances
  <2>5. Changes("routes", c.id, c.row)
    BY <2>1, <2>2, <2>4 DEF Changes, Write, Stored
  <2> QED BY <2>5 DEF DbStep
<1>7. CASE Abort(c)
  BY <1>7 DEF Abort, DbStep
<1> QED BY <1>1, <1>3, <1>4, <1>5, <1>6, <1>7

LEMMA StepTables == ASSUME DbInv, [CatalogNext]_catalogVars PROVE DbStep
<1>1. TablesFit(db) /\ CommandsFit
  BY DEF DbInv
<1>2. CASE Create
  BY <1>1, <1>2, CreateSteps DEF DbStep
<1>3. CASE Update
  BY <1>1, <1>3, UpdateSteps
<1>4. CASE Finish
  BY <1>1, <1>4, FinishSteps
<1>5. CASE PublishSnapshot
  BY <1>5 DEF PublishSnapshot, DbStep
<1>6. ASSUME NEW r \in records, Replay(r.key, r.input) \/ CleanupExpired(r.key) PROVE DbStep
  BY <1>6 DEF Replay, CleanupExpired, DbStep
<1>7. CASE UNCHANGED catalogVars
  BY <1>7 DEF catalogVars, DbStep
<1> QED BY <1>2, <1>3, <1>4, <1>5, <1>6, <1>7 DEF CatalogNext

-----------------------------------------------------------------------------
\* The tables and the open commands go on fitting.

LEMMA CommandsStillFit ==
    ASSUME DbInv, Grows(db, db'), open' \subseteq open,
           \A c \in open' : c.kind = "create" => c.id \notin DOMAIN db'[c.table],
           \A c \in open' : c.kind = "update" => db'.routes[c.id] = db.routes[c.id]
    PROVE  CommandsFit'
<1> SUFFICES ASSUME NEW c \in open' PROVE CommandFits(c)'
  BY DEF CommandsFit
<1>1. CommandFits(c) /\ TablesFit(db)
  BY DEF DbInv, CommandsFit
<1>2. \A t \in RowTables : \A row : RowFits(db, t, row) => RowFits(db', t, row)
  BY <1>1, FitsLarger
<1>3. \A t \in RowTables : \A x \in DOMAIN db[t] : x \in DOMAIN db'[t]
  BY DEF Grows
<1>4. Kinds \subseteq RowTables /\ "routes" \in RowTables /\ "networks" \in RowTables
      /\ {"endpoints", "deployments"} \subseteq RowTables
  BY DEF Kinds, RowTables
<1>5. c.kind = "create" =>
          /\ c.table \in Kinds /\ c.id \notin DOMAIN db'[c.table] /\ RowFits(db', c.table, c.row)
          /\ \A e \in open' : e.kind = "create" /\ e.table = c.table /\ e.id = c.id => e = c
  BY <1>1, <1>2, <1>4 DEF CommandFits
<1>6. c.kind = "update" =>
          /\ c.table = "routes" /\ c.id \in DOMAIN db'.routes /\ RowFits(db', "routes", c.row)
          /\ SameIdentity("routes", db'.routes[c.id], c.row)
          /\ c.row.version = db'.routes[c.id].version + 1
          /\ <<"routes", c.id>> \in c.locks
          /\ \A e \in open' : e.kind = "update" /\ e.id = c.id => e = c
  BY <1>1, <1>2, <1>3, <1>4 DEF CommandFits
<1>7. c.kind = "ca" =>
          /\ c.table = "networks" /\ c.id \in DOMAIN db'.networks
          /\ c.row.ca \in Nat /\ c.row.sealed = c.row.ca
  BY <1>1, <1>3, <1>4 DEF CommandFits
<1>8. c.kind = "validate" => c.table \in {"endpoints", "deployments"} /\ c.id \in DOMAIN db'[c.table]
  BY <1>1, <1>3, <1>4 DEF CommandFits
<1>9. c.kind \in {"create", "update", "ca", "validate"}
  BY <1>1 DEF CommandFits
<1> QED BY <1>5, <1>6, <1>7, <1>8, <1>9 DEF CommandFits

LEMMA SameGrows == ASSUME NEW d PROVE Grows(d, d)
BY DEF Grows, SameIdentity

LEMMA OpensFit == ASSUME DbInv, NEW c, Opens(c) PROVE DbInv'
<1>1. db' = db /\ open' = open \cup {c} /\ Begins(c) /\ CommandsFit
  BY DEF Opens, DbInv
<1> SUFFICES ASSUME NEW e \in open' PROVE CommandFits(e)'
  BY <1>1 DEF DbInv, CommandsFit
<1>2. c.kind = "create" => /\ c.id \notin DOMAIN db[c.table]
                           /\ \A x \in open : x.table = c.table => x.id # c.id
  BY <1>1 DEF Begins, Fresh
<1>3. c.kind = "update" => \A x \in open : x.kind = "update" => x.id # c.id
  BY <1>1 DEF Begins, Locked, CommandsFit, CommandFits
<1>4. CASE e = c
  BY <1>1, <1>2, <1>3, <1>4 DEF CommandFits, Begins
<1>5. CASE e # c
  <2>1. CommandFits(e) /\ e \in open
    BY <1>1, <1>5 DEF CommandsFit
  <2> QED BY <1>1, <1>2, <1>3, <1>5, <2>1 DEF CommandFits
<1> QED BY <1>4, <1>5

LEMMA ChangesFit ==
    ASSUME DbInv, NEW t, NEW id, NEW row, Changes(t, id, row)
    PROVE  DbInv' /\ Grows(db, db')
<1>1. /\ t \in RowTables /\ id \in DOMAIN db[t] /\ RowFits(db, t, row) /\ SameIdentity(t, db[t][id], row)
      /\ db' = Stored(db, t, id, row) /\ open' \subseteq open
      /\ TablesFit(db) /\ DOMAIN db = Tables
  BY DEF Changes, Follows, DbInv, TablesFit
<1>2. /\ Grows(db, db') /\ db'[t] = Put(db[t], id, row) /\ \A u \in Tables : u # t => db'[u] = db[u]
  BY <1>1, WrittenGrows
<1>3. t = "routes" => \A r \in DOMAIN db.routes \ {id} : Namespace(db.routes[r]) # Namespace(row)
  BY <1>1 DEF TablesFit, Namespaces, Namespace, SameIdentity
<1>4. TablesFit(db')
  BY <1>1, <1>3, WrittenFits
<1>5. DOMAIN db'[t] = DOMAIN db[t] /\ \A x \in DOMAIN db[t] : x # id => db'[t][x] = db[t][x]
  BY <1>1, <1>2 DEF Put
<1>6. \A u \in Tables : DOMAIN db'[u] = DOMAIN db[u]
  BY <1>2, <1>5
<1>7. \A c \in open' : c.kind = "create" => c.id \notin DOMAIN db'[c.table]
  BY <1>1, <1>6 DEF DbInv, CommandsFit, CommandFits, Kinds, Tables
<1>8. ASSUME NEW c \in open', c.kind = "update" PROVE db'.routes[c.id] = db.routes[c.id]
  <2>1. c.id \in DOMAIN db.routes /\ (t = "routes" => c.id # id)
    BY <1>1, <1>8 DEF DbInv, CommandsFit, CommandFits, Changes
  <2> QED BY <1>2, <1>5, <2>1 DEF Tables
<1>9. CommandsFit'
  BY <1>1, <1>2, <1>7, <1>8, CommandsStillFit
<1> QED BY <1>2, <1>4, <1>9 DEF DbInv

LEMMA OrganizationFits ==
    ASSUME DbInv, NEW o \in DOMAIN db.organizations, NEW row,
           db' = Stored(db, "organizations", o, row), open' \subseteq open
    PROVE  DbInv' /\ Grows(db, db') /\ \A t \in RowTables : db'[t] = db[t]
<1>1. TablesFit(db) /\ DOMAIN db = Tables
  BY DEF DbInv, TablesFit
<1>2. /\ DOMAIN db' = Tables /\ \A u \in Tables : u # "organizations" => db'[u] = db[u]
      /\ DOMAIN db'.organizations = DOMAIN db.organizations
  BY <1>1 DEF Stored, Put, Tables
<1>3. \A t \in RowTables : t \in Tables /\ db'[t] = db[t]
  BY <1>2 DEF RowTables, Tables
<1>4. /\ db'.routes = db.routes /\ db'.grants = db.grants /\ db'.identity = db.identity
  BY <1>2 DEF Tables
<1>5. Grows(db, db')
  BY <1>2, <1>3 DEF Grows, SameIdentity
<1>6. \A t \in RowTables : \A x \in DOMAIN db'[t] : RowFits(db', t, db'[t][x])
  <2> SUFFICES ASSUME NEW t \in RowTables, NEW x \in DOMAIN db'[t] PROVE RowFits(db', t, db'[t][x])
    OBVIOUS
  <2>1. db'[t] = db[t]
    BY <1>3
  <2>2. RowFits(db, t, db[t][x])
    BY <1>1, <2>1 DEF TablesFit
  <2>3. RowFits(db', t, db[t][x])
    BY <1>1, <1>5, <2>2, FitsLarger
  <2> QED BY <2>1, <2>3
<1>7. TablesFit(db')
  BY <1>1, <1>2, <1>4, <1>6 DEF TablesFit, Namespaces
<1>8. \A c \in open' : c.kind = "create" => c.id \notin DOMAIN db'[c.table]
  <2> SUFFICES ASSUME NEW c \in open', c.kind = "create" PROVE c.id \notin DOMAIN db'[c.table]
    OBVIOUS
  <2>1. c.table \in RowTables /\ c.id \notin DOMAIN db[c.table]
    BY DEF DbInv, CommandsFit, CommandFits, Kinds, RowTables
  <2> QED BY <1>3, <2>1
<1>9. CommandsFit'
  BY <1>4, <1>5, <1>8, CommandsStillFit
<1> QED BY <1>3, <1>5, <1>7, <1>9 DEF DbInv

\* An insertion writes the row and, for a pricing version, the policy it belongs to.
LEMMA InsertedTables ==
    ASSUME DbInv, NEW c, Inserts(c)
    PROVE  /\ TablesFit(db') /\ Grows(db, db')
           /\ c.table \in Kinds /\ c.id \notin DOMAIN db[c.table]
           /\ DOMAIN db'[c.table] = DOMAIN db[c.table] \cup {c.id}
           /\ \A t \in VersionTables \cup Kinds : t # c.table => DOMAIN db'[t] = DOMAIN db[t]
           /\ \A t \in VersionTables : \A x \in DOMAIN db[t] : db'[t][x] = db[t][x]
<1>1. /\ c.table \in Kinds /\ c.id \notin DOMAIN db[c.table] /\ RowFits(db, c.table, c.row)
      /\ TablesFit(db) /\ DOMAIN db = Tables
  BY DEF Inserts, DbInv, CommandsFit, CommandFits, TablesFit
<1>2. c.table = "routes" => \A r \in DOMAIN db.routes \ {c.id} : Namespace(db.routes[r]) # Namespace(c.row)
  BY DEF Inserts, NamespaceFree, Namespace
<1> DEFINE e == Stored(db, c.table, c.id, c.row)
<1>3. c.table \in RowTables /\ c.table \in Tables /\ c.table # "grants"
  BY <1>1 DEF Kinds, RowTables, Tables
<1>4. TablesFit(e) /\ Grows(db, e)
  BY <1>1, <1>2, <1>3, WrittenGrows, WrittenFits
<1>5. /\ DOMAIN e = Tables /\ e[c.table] = Put(db[c.table], c.id, c.row)
      /\ \A u \in Tables : u # c.table => e[u] = db[u]
  BY <1>1, <1>3 DEF Stored
<1>6. /\ DOMAIN e[c.table] = DOMAIN db[c.table] \cup {c.id}
      /\ \A x \in DOMAIN db[c.table] : e[c.table][x] = db[c.table][x]
  BY <1>1, <1>5 DEF Put
<1>7. VersionTables \cup Kinds \subseteq Tables /\ VersionTables \subseteq RowTables
  BY DEF VersionTables, Kinds, Tables, RowTables
<1>8. CASE c.table # "versions"
  <2>1. db' = e
    BY <1>8 DEF Inserts, Insert, Write, Stored
  <2> HIDE DEF e
  <2> QED BY <1>1, <1>4, <1>5, <1>6, <1>7, <2>1
<1>9. CASE c.table = "versions"
  <2> DEFINE p == c.row.policy
             row == [db.pricings[p] EXCEPT !.current = c.id]
  <2>1. p \in DOMAIN db.pricings
    BY <1>1, <1>9 DEF RowFits, VersionRow
  <2>2. e.pricings = db.pricings
    BY <1>5, <1>9 DEF Tables
  <2>3. db' = Stored(e, "pricings", p, row)
    BY <1>9, <2>2 DEF Inserts, Insert, Stored
  <2>4. PricingRow(row)
    BY <1>1, <2>1, PricingUpdated
  <2> HIDE DEF e, p, row
  <2>5. RowFits(e, "pricings", row) /\ SameIdentity("pricings", e["pricings"][p], row)
    BY <2>4 DEF RowFits, SameIdentity
  <2>6. TablesFit(db') /\ Grows(e, db')
    BY <1>4, <2>3, <2>5, WrittenGrows, WrittenFits DEF RowTables
  <2>7. /\ db'["pricings"] = Put(e["pricings"], p, row) /\ \A u \in Tables : u # "pricings" => db'[u] = e[u]
    BY <1>5, <2>3 DEF Stored, Tables
  <2>8. DOMAIN db'["pricings"] = DOMAIN db["pricings"]
    BY <2>1, <2>2, <2>7 DEF Put
  <2>9. Grows(db, db')
    <3> SUFFICES ASSUME NEW t \in RowTables, NEW x \in DOMAIN db[t]
                 PROVE  x \in DOMAIN db'[t] /\ SameIdentity(t, db[t][x], db'[t][x])
      BY <1>4, <2>6 DEF Grows
    <3>1. x \in DOMAIN e[t] /\ SameIdentity(t, db[t][x], e[t][x])
      BY <1>4 DEF Grows
    <3>2. x \in DOMAIN db'[t] /\ SameIdentity(t, e[t][x], db'[t][x])
      BY <2>6, <3>1 DEF Grows
    <3> QED BY <3>1, <3>2 DEF SameIdentity
  <2>10. \A t \in VersionTables \cup Kinds : t # "versions" => DOMAIN db'[t] = DOMAIN db[t]
    BY <1>5, <1>7, <1>9, <2>7, <2>8
  <2>11. \A t \in VersionTables : db'[t] = db[t]
    BY <1>5, <1>7, <1>9, <2>7 DEF VersionTables
  <2>12. DOMAIN db'["versions"] = DOMAIN db["versions"] \cup {c.id}
    BY <1>6, <1>9, <2>7 DEF Tables
  <2> QED BY <1>1, <1>9, <2>6, <2>9, <2>10, <2>11, <2>12
<1> QED BY <1>8, <1>9

LEMMA InsertsFit == ASSUME DbInv, NEW c, Inserts(c) PROVE DbInv'
<1>1. /\ TablesFit(db') /\ Grows(db, db') /\ c.table \in Kinds
      /\ DOMAIN db'[c.table] = DOMAIN db[c.table] \cup {c.id}
      /\ \A t \in VersionTables \cup Kinds : t # c.table => DOMAIN db'[t] = DOMAIN db[t]
      /\ \A t \in VersionTables : \A x \in DOMAIN db[t] : db'[t][x] = db[t][x]
  BY InsertedTables
<1>2. c \in open /\ c.kind = "create" /\ open' = open \ {c}
  BY DEF Inserts
<1>3. ASSUME NEW e \in open', e.kind = "create" PROVE e.id \notin DOMAIN db'[e.table]
  <2>1. /\ e \in open /\ e # c /\ e.table \in Kinds /\ e.id \notin DOMAIN db[e.table]
        /\ e.table = c.table => e.id # c.id
    BY <1>2, <1>3 DEF DbInv, CommandsFit, CommandFits
  <2>2. CASE e.table = c.table
    BY <1>1, <2>1, <2>2
  <2>3. CASE e.table # c.table
    BY <1>1, <2>1, <2>3
  <2> QED BY <2>2, <2>3
<1>4. ASSUME NEW e \in open', e.kind = "update" PROVE db'.routes[e.id] = db.routes[e.id]
  <2>1. e.id \in DOMAIN db.routes
    BY <1>2, <1>4 DEF DbInv, CommandsFit, CommandFits
  <2> QED BY <1>1, <2>1 DEF VersionTables
<1>5. CommandsFit'
  BY <1>1, <1>2, <1>3, <1>4, CommandsStillFit
<1> QED BY <1>1, <1>5 DEF DbInv

LEMMA ReadsFit == ASSUME DbInv, db' = db, open' \subseteq open PROVE DbInv'
<1>1. Grows(db, db')
  BY SameGrows
<1>2. \A c \in open' : c.kind = "create" => c.id \notin DOMAIN db'[c.table]
  BY DEF DbInv, CommandsFit, CommandFits
<1>3. CommandsFit'
  BY <1>1, <1>2, CommandsStillFit
<1> QED BY <1>3 DEF DbInv

LEMMA DbNext == ASSUME DbInv, [CatalogNext]_catalogVars PROVE DbInv'
<1>1. DbStep
  BY StepTables
<1> QED BY <1>1, ReadsFit, OpensFit, ChangesFit, OrganizationFits, InsertsFit DEF DbStep

\* The tables a run starts from were written by these commands.
LEMMA PopulationsFit == ASSUME NEW p \in Populations PROVE TablesFit(p)
<1>1. Schema(p) /\ Faults(p) = {}
  BY CatalogAssumption
<1>2. \A e \in DOMAIN p.endpoints : EndpointUrlValid(p.endpoints[e])
  BY <1>1 DEF Faults, EndpointFaults
<1>3. \A x \in DOMAIN p.reliabilities : PolicyValid(p.reliabilities[x])
  BY <1>1 DEF Faults
<1>4. \A d \in DOMAIN p.deployments : ~DeploymentFault(p, d)
  BY <1>1 DEF Faults, DeploymentFaults
<1>5. \A d \in DOMAIN p.deployments : DeploymentFits(p, p.deployments[d])
  BY <1>1, <1>4 DEF DeploymentFault, DeploymentFits, Schema
<1>6. \A o \in DOMAIN p.grants : GrantFits(p, p.grants[o])
  BY <1>1 DEF Faults, GrantFaults, GrantFits, Schema
<1>7. Namespaces(p)
  <2> DEFINE T == {q \in (DOMAIN p.routes) \X (DOMAIN p.routes) :
                      /\ q[1] # q[2] /\ p.routes[q[1]].org = p.routes[q[2]].org
                      /\ p.routes[q[1]].ingress = p.routes[q[2]].ingress
                      /\ p.routes[q[1]].model = p.routes[q[2]].model}
  <2>1. {"namespace" : q \in T} \subseteq Faults(p)
    BY DEF Faults, RouteFaults
  <2> HIDE DEF T
  <2>2. T = {}
    BY <1>1, <2>1
  <2> SUFFICES ASSUME NEW r \in DOMAIN p.routes, NEW s \in DOMAIN p.routes, r # s,
                      Namespace(p.routes[r]) = Namespace(p.routes[s])
               PROVE  <<r, s>> \in T
    BY <2>2 DEF Namespaces
  <2> QED BY DEF T, Namespace
<1>8. \A r \in DOMAIN p.routes : RouteFits(p, p.routes[r])
  <2> SUFFICES ASSUME NEW r \in DOMAIN p.routes PROVE RouteFits(p, p.routes[r])
    OBVIOUS
  <2> DEFINE w == p.routes[r]
  <2>1. RouteFaults(p) = {} /\ RouteRow(p, w)
    BY <1>1 DEF Faults, Schema
  <2>2. \A t \in EnabledTargets(w) : TargetValid(t)
    BY <2>1 DEF RouteFaults
  <2>3. ASSUME w.status # "draft" PROVE TiersValid(EnabledTargets(w)) /\ RequestPolicyValid(w)
    BY <2>1, <2>3 DEF RouteFaults, LiveRoutes
  <2>4. ASSUME w.status # "draft", NEW t \in EnabledTargets(w) PROVE TargetFits(p, w, t)
    <3>1. r \in LiveRoutes(p) /\ t \in w.targets
      BY <2>4 DEF LiveRoutes, EnabledTargets
    <3> DEFINE E == {q \in LiveRoutes(p) \X UNION {p.routes[s].targets : s \in LiveRoutes(p)} :
                        q[2] \in EnabledTargets(p.routes[q[1]])}
               U == {q \in E : ~TargetSupported(p, q[1], q[2])}
               V == {q \in E : ~TargetInScope(p, q[1], q[2])}
    <3>2. <<r, t>> \in E
      BY <2>4, <3>1
    <3>3. {"target tuple" : q \in U} \subseteq RouteFaults(p) /\ {"target scope" : q \in V} \subseteq RouteFaults(p)
      BY DEF RouteFaults
    <3> HIDE DEF E
    <3>4. <<r, t>> \notin U /\ <<r, t>> \notin V
      <4> HIDE DEF U, V
      <4> QED BY <2>1, <3>3
    <3>5. TargetSupported(p, r, t) /\ TargetInScope(p, r, t)
      BY <3>2, <3>4
    <3> QED BY <3>5 DEF TargetSupported, TargetInScope, TargetFits
  <2> QED BY <2>1, <2>2, <2>3, <2>4 DEF RouteFits
<1>9. ASSUME NEW t \in RowTables, NEW x \in DOMAIN p[t] PROVE RowFits(p, t, p[t][x])
  <2>1. /\ \A y \in DOMAIN p.networks : NetworkRow(p.networks[y])
        /\ \A y \in DOMAIN p.reliabilities : PolicyFits(p.reliabilities[y])
        /\ \A y \in DOMAIN p.endpoints : EndpointFits(p, p.endpoints[y])
        /\ \A y \in DOMAIN p.pricings : PricingRow(p.pricings[y])
        /\ \A y \in DOMAIN p.versions : VersionRow(p, p.versions[y])
        /\ \A y \in DOMAIN p.credentials : CredentialRow(p.credentials[y])
        /\ \A y \in DOMAIN p.keys : KeyRow(p, p.keys[y])
    BY <1>1, <1>2, <1>3 DEF Schema, EndpointFits, PolicyFits
  <2> QED BY <1>5, <1>6, <1>8, <2>1 DEF RowFits, RowTables
<1> QED BY <1>1, <1>7, <1>9 DEF TablesFit, Schema

LEMMA DbInit == CatalogInit => DbInv
BY PopulationsFit DEF CatalogInit, DbInv, CommandsFit

LEMMA TablesAlwaysFit == CatalogSpec => []DbInv
BY DbInit, DbNext, PTL DEF CatalogSpec

(***************************************************************************)
(* Idempotency (Catalog implements OnceOnly): what was done under a key is *)
(* what its record says, and an open command can complete only under a key *)
(* that has none.                                                          *)
(***************************************************************************)

\* Where a command that is open stands with its key: a creation has reserved it,
\* so that nothing is recorded under it and no other open command has it; a
\* validation only knows that the key is not one of a creation.
OpenKeys ==
    \A c \in open : c.key # None =>
        /\ c.kind \in {"create", "validate"}
        /\ c.kind = "create" => /\ c.key[1] \in Kinds /\ RecordOf(c.key) = {}
                                /\ \A e \in open : e.key = c.key => e = c
        /\ c.kind = "validate" => c.key[1] \notin Kinds

\* A record holds what was done under its key, and its callers know nothing else.
RecordedOnce ==
    /\ made = [k \in RecordKeys |-> made[k]] /\ told = [k \in RecordKeys |-> told[k]]
    /\ \A r \in records : r.key \in RecordKeys => made[r.key] = {r.done}
    /\ \A k \in RecordKeys : /\ RecordOf(k) = {} => made[k] = {}
                             /\ told[k] \subseteq made[k]

OnceInv == OpenKeys /\ RecordedOnce

onceVars == <<open, records, made, told>>

\* What a step does to keys, records and answers.
Begun(c) ==
    /\ open' = open \cup {c} /\ UNCHANGED <<records, made, told>>
    /\ c.key # None => \/ c.kind = "create" /\ c.key[1] \in Kinds /\ FreeKey(c.key)
                       \/ c.kind = "validate" /\ c.key[1] \notin Kinds

Ended(c) == open' = open \ {c} /\ UNCHANGED <<records, made, told>>

Completed(c) ==
    /\ c \in open /\ c.kind \in {"create", "validate"}
    /\ c.kind = "validate" => NotDone(c.key)
    /\ CompleteIdempotent(c) /\ open' = open \ {c} /\ UNCHANGED told

KeyStep ==
    \/ UNCHANGED onceVars
    \/ \E c : Begun(c)
    \/ \E c \in open : Ended(c) \/ Completed(c)
    \/ \E r \in records : Replay(r.key, r.input) \/ CleanupExpired(r.key)

LEMMA KeyOperation ==
    ASSUME NEW p, NEW o, NEW k \in OptionalKeys(p, o), k # None PROVE k[1] = p
BY DEF OptionalKeys

LEMMA CreateBegins ==
    ASSUME NEW t \in Kinds, NEW o, NEW row, NEW l, BeginCreate(t, o, row, l)
    PROVE  \E c : Begun(c)
<1>1. PICK k \in OptionalKeys(t, o) :
        /\ FreeKey(k) /\ Fresh(t) # {}
        /\ BeginCommand([kind |-> "create", table |-> t, row |-> row, locks |-> l, key |-> k,
                         id |-> CHOOSE x \in Fresh(t) : TRUE])
  BY DEF BeginCreate
<1> DEFINE c == [kind |-> "create", table |-> t, row |-> row, locks |-> l, key |-> k,
                 id |-> CHOOSE x \in Fresh(t) : TRUE]
<1>2. c.kind = "create" /\ c.key = k /\ (k # None => k[1] \in Kinds)
  BY <1>1, KeyOperation
<1>3. open' = open \cup {c} /\ UNCHANGED <<records, made, told>>
  BY <1>1 DEF BeginCommand
<1> HIDE DEF c
<1> QED BY <1>1, <1>2, <1>3 DEF Begun

LEMMA CommandBegins ==
    ASSUME NEW c, BeginCommand(c), c.key = None
    PROVE  Begun(c)
BY DEF BeginCommand, Begun

LEMMA ValidationBegins ==
    ASSUME NEW t, NEW x, NEW p, p \notin Kinds, NEW o, BeginValidate(t, x, p, o)
    PROVE  \E c : Begun(c)
<1>1. PICK k \in OptionalKeys(p, o) :
        BeginCommand([kind |-> "validate", table |-> t, id |-> x, key |-> k, locks |-> {}, row |-> x])
  BY DEF BeginValidate
<1> DEFINE c == [kind |-> "validate", table |-> t, id |-> x, key |-> k, locks |-> {}, row |-> x]
<1>2. c.kind = "validate" /\ c.key = k /\ (k # None => k[1] \notin Kinds)
  BY KeyOperation
<1>3. open' = open \cup {c} /\ UNCHANGED <<records, made, told>>
  BY <1>1 DEF BeginCommand
<1> HIDE DEF c
<1> QED BY <1>2, <1>3 DEF Begun

LEMMA RowUpdates ==
    ASSUME NEW t, NEW id, NEW row, NEW s, UpdateRow(t, id, row, s)
    PROVE  UNCHANGED onceVars
BY DEF UpdateRow, onceVars

LEMMA CreatesBegin == ASSUME Create PROVE \E c : Begun(c)
<1> USE CreateBegins DEF Kinds
<1>1. CASE CreateEgressNetworkPolicy
  BY <1>1 DEF CreateEgressNetworkPolicy
<1>2. CASE CreateReliabilityPolicy
  BY <1>2 DEF CreateReliabilityPolicy
<1>3. CASE CreatePricingPolicy
  BY <1>3 DEF CreatePricingPolicy
<1>4. CASE \E x \in DOMAIN db.pricings : PublishPricingVersion(x)
  BY <1>4 DEF PublishPricingVersion
<1>5. CASE CreateUpstreamEndpoint
  BY <1>5 DEF CreateUpstreamEndpoint
<1>6. CASE CreateModelDeployment
  BY <1>6 DEF CreateModelDeployment
<1>7. CASE CreateModelRoute
  BY <1>7 DEF CreateModelRoute
<1> QED BY <1>1, <1>2, <1>3, <1>4, <1>5, <1>6, <1>7 DEF Create

LEMMA UpdatesKeep == ASSUME Update PROVE UNCHANGED onceVars \/ \E c : Begun(c)
<1> USE RowUpdates, CommandBegins
<1>0. "validate endpoints" \notin Kinds /\ "validate deployments" \notin Kinds
  BY DEF Kinds
<1>1. ASSUME NEW n \in DOMAIN db.networks, UpdateEgressNetworkPolicy(n) \/ BeginReplaceCustomCa(n)
      PROVE  UNCHANGED onceVars \/ \E c : Begun(c)
  BY <1>1 DEF UpdateEgressNetworkPolicy, BeginReplaceCustomCa
<1>2. ASSUME NEW p \in DOMAIN db.reliabilities, UpdateReliabilityPolicy(p) PROVE UNCHANGED onceVars
  BY <1>2 DEF UpdateReliabilityPolicy
<1>3. ASSUME NEW x \in DOMAIN db.pricings, UpdatePricingPolicy(x) PROVE UNCHANGED onceVars
  BY <1>3 DEF UpdatePricingPolicy
<1>4. ASSUME NEW e \in DOMAIN db.endpoints, UpdateUpstreamEndpoint(e) \/ BeginValidateEndpoint(e)
      PROVE  UNCHANGED onceVars \/ \E c : Begun(c)
  BY <1>0, <1>4, ValidationBegins DEF UpdateUpstreamEndpoint, BeginValidateEndpoint
<1>5. ASSUME NEW d \in DOMAIN db.deployments, UpdateModelDeployment(d) \/ BeginValidateDeployment(d)
      PROVE  UNCHANGED onceVars \/ \E c : Begun(c)
  BY <1>0, <1>5, ValidationBegins DEF UpdateModelDeployment, BeginValidateDeployment
<1>6. ASSUME NEW r \in DOMAIN db.routes, BeginUpdateModelRoute(r) PROVE \E c : Begun(c)
  BY <1>6 DEF BeginUpdateModelRoute
<1>7. ASSUME NEW o \in DOMAIN db.grants, NEW t, UpdateCatalogGrantSet(o, t) PROVE UNCHANGED onceVars
  BY <1>7 DEF UpdateCatalogGrantSet
<1>8. ASSUME NEW k \in DOMAIN db.keys, UpdateGatewayKeyRoutes(k) PROVE UNCHANGED onceVars
  BY <1>8 DEF UpdateGatewayKeyRoutes
<1>9. ASSUME NEW c \in DOMAIN db.credentials, UpdateCredential(c) PROVE UNCHANGED onceVars
  BY <1>9 DEF UpdateCredential
<1>10. ASSUME NEW o \in DOMAIN db.organizations, UpdateOrganization(o) PROVE UNCHANGED onceVars
  BY <1>10 DEF UpdateOrganization
<1> QED BY <1>1, <1>2, <1>3, <1>4, <1>5, <1>6, <1>7, <1>8, <1>9, <1>10 DEF Update

LEMMA FinishEnds == ASSUME Finish PROVE \E c \in open : Ended(c) \/ Completed(c)
<1>1. PICK c \in open : \/ CommitCreate(c) \/ CommitReplaceCustomCa(c) \/ CommitValidate(c)
                        \/ CommitUpdateModelRoute(c) \/ Abort(c)
  BY DEF Finish
<1>2. CASE CommitCreate(c)
  BY <1>2 DEF CommitCreate, Completed
<1>3. CASE CommitReplaceCustomCa(c)
  BY <1>3 DEF CommitReplaceCustomCa, Ended
<1>4. CASE CommitValidate(c)
  BY <1>4 DEF CommitValidate, Completed
<1>5. CASE CommitUpdateModelRoute(c)
  BY <1>5 DEF CommitUpdateModelRoute, Ended
<1>6. CASE Abort(c)
  BY <1>6 DEF Abort, Ended
<1> QED BY <1>1, <1>2, <1>3, <1>4, <1>5, <1>6

LEMMA StepKeys == ASSUME [CatalogNext]_catalogVars PROVE KeyStep
<1>1. CASE Create
  BY <1>1, CreatesBegin DEF KeyStep
<1>2. CASE Update
  BY <1>2, UpdatesKeep DEF KeyStep
<1>3. CASE Finish
  BY <1>3, FinishEnds DEF KeyStep
<1>4. CASE PublishSnapshot
  BY <1>4 DEF PublishSnapshot, KeyStep, onceVars
<1>5. CASE UNCHANGED catalogVars
  BY <1>5 DEF catalogVars, KeyStep, onceVars
<1> QED BY <1>1, <1>2, <1>3, <1>4, <1>5 DEF CatalogNext, KeyStep

\* An inserted record is the first under its key.
LEMMA Recorded ==
    ASSUME OnceInv, NEW c, Completed(c), c.key # None
    PROVE  LET r == [key |-> c.key, done |-> revision + 1, input |-> c.row] IN
           /\ records' = records \cup {r} /\ r.key = c.key /\ r.done = revision + 1
           /\ RecordOf(c.key) = {}
           /\ made' = [made EXCEPT ![c.key] = @ \cup {revision + 1}]
BY DEF OnceInv, OpenKeys, Completed, CompleteIdempotent, NotDone

LEMMA OpenKeysKept == ASSUME OnceInv, KeyStep PROVE OpenKeys'
<1>1. CASE UNCHANGED onceVars
  BY <1>1 DEF OnceInv, OpenKeys, onceVars, RecordOf
<1>2. ASSUME NEW c, Begun(c) PROVE OpenKeys'
  <2>1. \A k : RecordOf(k)' = RecordOf(k)
    BY <1>2 DEF Begun, RecordOf
  <2> SUFFICES ASSUME NEW x \in open', x.key # None
               PROVE  /\ x.kind \in {"create", "validate"}
                      /\ x.kind = "create" => /\ x.key[1] \in Kinds /\ RecordOf(x.key) = {}
                                              /\ \A e \in open' : e.key = x.key => e = x
                      /\ x.kind = "validate" => x.key[1] \notin Kinds
    BY <2>1 DEF OpenKeys
  <2>2. CASE x \in open
    <3>1. c.key # x.key \/ x.kind # "create"
      BY <1>2, <2>2 DEF Begun, OnceInv, OpenKeys, FreeKey
    <3> QED BY <1>2, <2>2, <3>1 DEF Begun, OnceInv, OpenKeys
  <2>3. CASE x = c
    BY <1>2, <2>3 DEF Begun, FreeKey, NotDone
  <2> QED BY <1>2, <2>2, <2>3 DEF Begun
<1>3. ASSUME NEW c \in open, Ended(c) PROVE OpenKeys'
  <2>1. \A k : RecordOf(k)' = RecordOf(k)
    BY <1>3 DEF Ended, RecordOf
  <2> QED BY <1>3, <2>1 DEF OnceInv, OpenKeys, Ended
<1>4. ASSUME NEW c \in open, Completed(c) PROVE OpenKeys'
  <2>1. \A k : k = c.key \/ RecordOf(k)' = RecordOf(k)
    BY <1>4, Recorded DEF Completed, CompleteIdempotent, RecordOf
  <2>2. c.key = None => \A k : RecordOf(k)' = RecordOf(k)
    BY <1>4 DEF Completed, CompleteIdempotent, RecordOf
  <2>3. open' = open \ {c} /\ c.kind \in {"create", "validate"}
    BY <1>4 DEF Completed
  <2>4. \A x \in open' : x.kind = "create" /\ x.key # None => RecordOf(x.key)' = RecordOf(x.key)
    <3> SUFFICES ASSUME NEW x \in open', x.kind = "create", x.key # None, c.key # None PROVE x.key # c.key
      BY <2>1, <2>2
    <3> QED BY <2>3 DEF OnceInv, OpenKeys
  <2> QED BY <2>3, <2>4 DEF OnceInv, OpenKeys
<1>5. ASSUME NEW r \in records, Replay(r.key, r.input) PROVE OpenKeys'
  <2>1. \A k : RecordOf(k)' = RecordOf(k)
    BY <1>5 DEF Replay, RecordOf
  <2> QED BY <1>5, <2>1 DEF OnceInv, OpenKeys, Replay
<1>6. ASSUME NEW r \in records, CleanupExpired(r.key) PROVE OpenKeys'
  <2>1. \A k : RecordOf(k)' \subseteq RecordOf(k)
    BY <1>6 DEF CleanupExpired, RecordOf
  <2> QED BY <1>6, <2>1 DEF OnceInv, OpenKeys, CleanupExpired
<1> QED BY <1>1, <1>2, <1>3, <1>4, <1>5, <1>6 DEF KeyStep

\* A command that completes under a key of the model does what the promise allows once.
LEMMA CompletedDoes ==
    ASSUME OnceInv, NEW c, Completed(c), c.key \in RecordKeys, c.key # None
    PROVE  /\ made[c.key] = {}
           /\ made' = [made EXCEPT ![c.key] = {revision + 1}] /\ told' = told
<1>1. made[c.key] = {}
  BY Recorded DEF OnceInv, RecordedOnce
<1> QED BY <1>1, Recorded DEF Completed

LEMMA OtherCompleted ==
    ASSUME OnceInv, NEW c, Completed(c), c.key = None \/ c.key \notin RecordKeys
    PROVE  made' = made /\ told' = told
BY Recorded DEF OnceInv, RecordedOnce, Completed, CompleteIdempotent

\* An answer tells what was done.
LEMMA Replayed ==
    ASSUME OnceInv, NEW r \in records, Replay(r.key, r.input)
    PROVE  /\ made' = made /\ records' = records
           /\ told' = [told EXCEPT ![r.key] = made[r.key]]
<1>1. PICK s \in RecordOf(r.key) : told' = [told EXCEPT ![r.key] = @ \cup {s.done}]
  BY DEF Replay
<1>2. made' = made /\ records' = records
  BY DEF Replay
<1>3. CASE r.key \in RecordKeys
  <2>1. made[r.key] = {s.done} /\ told[r.key] \subseteq made[r.key]
    BY <1>1, <1>3 DEF OnceInv, RecordedOnce, RecordOf
  <2>2. told[r.key] \cup {s.done} = made[r.key]
    BY <2>1
  <2> QED BY <1>1, <1>2, <2>2
<1>4. CASE r.key \notin RecordKeys
  BY <1>1, <1>2, <1>4 DEF OnceInv, RecordedOnce
<1> QED BY <1>3, <1>4

LEMMA RecordedOnceKept == ASSUME OnceInv, KeyStep PROVE RecordedOnce'
<1>1. CASE UNCHANGED onceVars
  BY <1>1 DEF OnceInv, RecordedOnce, onceVars, RecordOf
<1>2. ASSUME NEW c, Begun(c) PROVE RecordedOnce'
  BY <1>2 DEF OnceInv, RecordedOnce, Begun, RecordOf
<1>3. ASSUME NEW c \in open, Ended(c) PROVE RecordedOnce'
  BY <1>3 DEF OnceInv, RecordedOnce, Ended, RecordOf
<1>4. ASSUME NEW c \in open, Completed(c) PROVE RecordedOnce'
  <2>1. CASE c.key # None /\ c.key \in RecordKeys
    <3> DEFINE n == [key |-> c.key, done |-> revision + 1, input |-> c.row]
    <3>1. /\ records' = records \cup {n} /\ n.key = c.key /\ n.done = revision + 1 /\ RecordOf(c.key) = {}
          /\ made' = [made EXCEPT ![c.key] = {revision + 1}] /\ told' = told /\ made[c.key] = {}
      BY <1>4, <2>1, Recorded, CompletedDoes
    <3> HIDE DEF n
    <3>2. \A r \in records : r.key # c.key
      BY <3>1 DEF RecordOf
    <3>3. \A r \in records' : r.key \in RecordKeys => made'[r.key] = {r.done}
      BY <2>1, <3>1, <3>2 DEF OnceInv, RecordedOnce
    <3>4. \A k \in RecordKeys : RecordOf(k)' = {} => made'[k] = {}
      BY <2>1, <3>1 DEF OnceInv, RecordedOnce, RecordOf
    <3>5. \A k \in RecordKeys : told'[k] \subseteq made'[k]
      BY <2>1, <3>1 DEF OnceInv, RecordedOnce
    <3>6. made' = [k \in RecordKeys |-> made'[k]] /\ told' = [k \in RecordKeys |-> told'[k]]
      BY <2>1, <3>1 DEF OnceInv, RecordedOnce
    <3> QED BY <3>3, <3>4, <3>5, <3>6 DEF RecordedOnce
  <2>2. CASE c.key = None
    <3>1. made' = made /\ told' = told /\ records' = records
      BY <1>4, <2>2 DEF Completed, CompleteIdempotent
    <3> QED BY <3>1 DEF OnceInv, RecordedOnce, RecordOf
  <2>3. CASE c.key # None /\ c.key \notin RecordKeys
    <3> DEFINE n == [key |-> c.key, done |-> revision + 1, input |-> c.row]
    <3>1. made' = made /\ told' = told /\ records' = records \cup {n} /\ n.key = c.key
      BY <1>4, <2>3, Recorded, OtherCompleted
    <3> HIDE DEF n
    <3>2. \A k \in RecordKeys : RecordOf(k)' = RecordOf(k)
      BY <2>3, <3>1 DEF RecordOf
    <3> QED BY <2>3, <3>1, <3>2 DEF OnceInv, RecordedOnce
  <2> QED BY <2>1, <2>2, <2>3
<1>5. ASSUME NEW r \in records, Replay(r.key, r.input) PROVE RecordedOnce'
  <2>1. \A k : RecordOf(k)' = RecordOf(k)
    BY <1>5, Replayed DEF RecordOf
  <2> QED BY <1>5, <2>1, Replayed DEF OnceInv, RecordedOnce
<1>6. ASSUME NEW r \in records, CleanupExpired(r.key) PROVE RecordedOnce'
  <2>1. /\ records' = records \ RecordOf(r.key)
        /\ made' = [made EXCEPT ![r.key] = {}] /\ told' = [told EXCEPT ![r.key] = {}]
    BY <1>6 DEF CleanupExpired
  <2>2. \A s \in records' : s \in records /\ s.key # r.key
    BY <2>1 DEF RecordOf
  <2>3. \A k \in RecordKeys : k # r.key => RecordOf(k)' = RecordOf(k)
    BY <2>1 DEF RecordOf
  <2>4. \A s \in records' : s.key \in RecordKeys => made'[s.key] = {s.done}
    BY <2>1, <2>2 DEF OnceInv, RecordedOnce
  <2>5. \A k \in RecordKeys : RecordOf(k)' = {} => made'[k] = {}
    BY <2>1, <2>3 DEF OnceInv, RecordedOnce
  <2>6. \A k \in RecordKeys : told'[k] \subseteq made'[k]
    BY <2>1 DEF OnceInv, RecordedOnce
  <2>7. made' = [k \in RecordKeys |-> made'[k]] /\ told' = [k \in RecordKeys |-> told'[k]]
    BY <2>1 DEF OnceInv, RecordedOnce
  <2> QED BY <2>4, <2>5, <2>6, <2>7 DEF RecordedOnce
<1> QED BY <1>1, <1>2, <1>3, <1>4, <1>5, <1>6 DEF KeyStep

LEMMA OnceInit == CatalogInit => OnceInv
BY DEF CatalogInit, OnceInv, OpenKeys, RecordedOnce, RecordOf

LEMMA OnceNext == OnceInv /\ [CatalogNext]_catalogVars => OnceInv'
BY StepKeys, OpenKeysKept, RecordedOnceKept DEF OnceInv

\* Every step of the commands is one of the promise or leaves it as it was.
LEMMA StepOnce == ASSUME OnceInv, KeyStep PROVE [Abstract!Next]_(Abstract!vars)
<1>1. CASE UNCHANGED onceVars
  BY <1>1 DEF onceVars, Abstract!vars
<1>2. ASSUME NEW c, Begun(c) PROVE UNCHANGED Abstract!vars
  BY <1>2 DEF Begun, Abstract!vars
<1>3. ASSUME NEW c \in open, Ended(c) PROVE UNCHANGED Abstract!vars
  BY <1>3 DEF Ended, Abstract!vars
<1>4. ASSUME NEW c \in open, Completed(c) PROVE [Abstract!Next]_(Abstract!vars)
  <2>1. CASE c.key # None /\ c.key \in RecordKeys
    <3>0. /\ made[c.key] = {} /\ made' = [made EXCEPT ![c.key] = {revision + 1}] /\ told' = told
          /\ made = [k \in RecordKeys |-> made[k]]
      BY <1>4, <2>1, CompletedDoes DEF OnceInv, RecordedOnce
    <3>2. made'[c.key] = {revision + 1}
      BY <2>1, <3>0
    <3>1. Abstract!Do(c.key)
      BY <3>0, <3>2 DEF Abstract!Do
    <3> QED BY <2>1, <3>1 DEF Abstract!Next
  <2>2. CASE c.key = None \/ c.key \notin RecordKeys
    BY <1>4, <2>2, OtherCompleted DEF Abstract!vars
  <2> QED BY <2>1, <2>2
<1>5. ASSUME NEW r \in records, Replay(r.key, r.input) PROVE [Abstract!Next]_(Abstract!vars)
  <2>1. CASE r.key \in RecordKeys
    BY <1>5, <2>1, Replayed DEF Abstract!Next, Abstract!Tell
  <2>2. CASE r.key \notin RecordKeys
    BY <1>5, <2>2, Replayed DEF Abstract!vars, OnceInv, RecordedOnce
  <2> QED BY <2>1, <2>2
<1>6. ASSUME NEW r \in records, CleanupExpired(r.key) PROVE [Abstract!Next]_(Abstract!vars)
  <2>1. CASE r.key \in RecordKeys
    BY <1>6, <2>1 DEF CleanupExpired, Abstract!Next, Abstract!Forget
  <2>2. CASE r.key \notin RecordKeys
    BY <1>6, <2>2 DEF CleanupExpired, Abstract!vars, OnceInv, RecordedOnce
  <2> QED BY <2>1, <2>2
<1> QED BY <1>1, <1>2, <1>3, <1>4, <1>5, <1>6 DEF KeyStep

\* Under one idempotency key at most one creation or validation is done, whatever is
\* rolled back or repeated, and every caller is told of it
\* (begin_idempotent_command_with_fingerprint, replay_from_row,
\* complete_idempotent_command).
THEOREM CommandsActOnce == CatalogSpec => DoneOnce
<1>1. CatalogInit => Abstract!Init
  BY DEF CatalogInit, Abstract!Init
<1>2. OnceInv /\ [CatalogNext]_catalogVars => [Abstract!Next]_(Abstract!vars)
  BY StepKeys, StepOnce
<1> QED BY <1>1, <1>2, OnceInit, OnceNext, PTL DEF CatalogSpec, DoneOnce, Abstract!Spec

(***************************************************************************)
(* What follows for versions, captures, readiness and admission (Catalog). *)
(***************************************************************************)

\* A configuration that changes gets a larger version: in no command is a row
\* written with other columns and the version it had.
LEMMA RowsAdvance ==
    ASSUME DbInv, [CatalogNext]_catalogVars, NEW t \in VersionTables, NEW x \in DOMAIN db[t]
    PROVE  Advances(t, db[t][x], db'[t][x])
<1>1. DbStep
  BY StepTables
<1>2. CASE db' = db
  BY <1>2 DEF Advances
<1>3. ASSUME NEW c, Opens(c) PROVE db' = db
  BY <1>3 DEF Opens
<1>4. ASSUME NEW u, NEW id, NEW row, Changes(u, id, row) PROVE Advances(t, db[t][x], db'[t][x])
  <2>1. /\ u \in RowTables /\ Advances(u, db[u][id], row) /\ SameIdentity(u, db[u][id], row)
        /\ db' = Stored(db, u, id, row) /\ TablesFit(db) /\ DOMAIN db = Tables
    BY <1>4 DEF Changes, Follows, DbInv, TablesFit
  <2>2. t \in Tables /\ u \in Tables
    BY <2>1 DEF VersionTables, Tables, RowTables
  <2>3. db'[u] = Put(db[u], id, row) /\ (t # u => db'[t] = db[t])
    BY <2>1, <2>2 DEF Stored
  <2>4. u = t => db'[t][x] = IF x = id THEN row ELSE db[t][x]
    BY <2>3 DEF Put
  <2>5. CASE u = t /\ x = id
    <3>1. db'[t][x] = row
      BY <2>4, <2>5
    <3> QED BY <2>1, <2>5, <3>1
  <2>6. CASE u # t \/ x # id
    <3>1. db'[t][x] = db[t][x]
      BY <2>3, <2>4, <2>6
    <3> QED BY <3>1 DEF Advances
  <2> QED BY <2>5, <2>6
<1>5. ASSUME NEW o \in DOMAIN db.organizations, NEW row, db' = Stored(db, "organizations", o, row)
      PROVE  db'[t] = db[t]
  <2>1. DOMAIN db = Tables /\ t \in Tables /\ t # "organizations"
    BY DEF DbInv, TablesFit, VersionTables, Tables
  <2> QED BY <1>5, <2>1 DEF Stored
<1>6. ASSUME NEW c, Inserts(c) PROVE db'[t][x] = db[t][x]
  BY <1>6, InsertedTables
<1>7. CASE db'[t][x] = db[t][x]
  BY <1>7 DEF Advances
<1> QED BY <1>1, <1>2, <1>3, <1>4, <1>5, <1>6, <1>7 DEF DbStep

\* Whoever compares versions sees every change of a row (the entity tags of the
\* update commands, replace_egress_custom_ca and commit_endpoint_validation).
THEOREM CatalogVersionsGrow == CatalogSpec => VersionsGrow
<1> DEFINE Step == \A t \in {"networks", "reliabilities", "endpoints", "deployments", "routes"} :
         \A x \in DOMAIN db[t] :
            \/ db'[t][x] = db[t][x]
            \/ db'[t][x].version > db[t][x].version
            \/ t \in {"endpoints", "deployments"} /\ db'[t][x] = Validated(db[t][x])
<1>1. ASSUME DbInv, [CatalogNext]_catalogVars PROVE Step
  BY <1>1, RowsAdvance DEF Advances, VersionTables
<1>2. ASSUME DbInv, [CatalogNext]_catalogVars PROVE [Step]_catalogVars
  BY <1>1, <1>2
<1> HIDE DEF Step
<1>3. CatalogSpec => [][Step]_catalogVars
  BY <1>2, TablesAlwaysFit, PTL DEF CatalogSpec
<1> QED BY <1>3 DEF VersionsGrow, Step

-----------------------------------------------------------------------------
\* Which checks of the builder the tables pass.

\* A client's key determines what the client is built from.
LEMMA ClientsAgree ==
    ASSUME NEW d, NEW x, NEW y, ClientKey(d, x) = ClientKey(d, y)
    PROVE  ClientBuild(d, x) = ClientBuild(d, y)
<1>1. /\ d.deployments[x].credential = d.deployments[y].credential
      /\ d.deployments[x].endpoint = d.deployments[y].endpoint
  BY DEF ClientKey
<1> QED BY <1>1 DEF ClientBuild

LEMMA DeploymentsLoad ==
    ASSUME NEW d, TablesFit(d), NEW x \in DOMAIN d.deployments
    PROVE  /\ DeploymentFits(d, d.deployments[x]) /\ ~DeploymentFault(d, x)
           /\ EndpointFits(d, d.endpoints[d.deployments[x].endpoint])
           /\ CredentialRow(d.credentials[d.deployments[x].credential])
           /\ NetworkRow(NetworkOf(d, d.deployments[x].endpoint))
<1> DEFINE w == d.deployments[x]
           e == d.endpoints[w.endpoint]
<1>1. DeploymentFits(d, w)
  BY DEF TablesFit, RowTables, RowFits
<1>2. EndpointFits(d, e) /\ CredentialRow(d.credentials[w.credential])
  BY <1>1 DEF TablesFit, RowTables, RowFits, DeploymentFits, DeploymentRow
<1>3. NetworkRow(d.networks[e.network])
  BY <1>2 DEF TablesFit, RowTables, RowFits, EndpointFits, EndpointRow
<1>4. ~DeploymentFault(d, x)
  BY <1>1 DEF DeploymentFault, DeploymentFits
<1> QED BY <1>1, <1>2, <1>3, <1>4 DEF NetworkOf

LEMMA GrantsLoad == ASSUME NEW d, TablesFit(d) PROVE GrantFaults(d) = {}
<1> DEFINE T == {o \in DOMAIN d.grants : \E r \in DOMAIN d.grants[o].routes : ~CeilingValid(d.grants[o].routes[r])}
<1>1. T = {}
  BY DEF TablesFit, RowTables, RowFits, GrantFits
<1>2. GrantFaults(d) = {"grant ceilings" : o \in T}
  BY DEF GrantFaults
<1> HIDE DEF T
<1> QED BY <1>1, <1>2

LEMMA EndpointsLoad == ASSUME NEW d, TablesFit(d) PROVE EndpointFaults(d) = {}
<1> DEFINE T == {e \in DOMAIN d.endpoints : ~EndpointUrlValid(d.endpoints[e])}
           U == {e \in DOMAIN d.endpoints : ~CustomCaMatches(NetworkOf(d, e))}
<1>1. T = {}
  BY DEF TablesFit, RowTables, RowFits, EndpointFits
<1>2. U = {}
  <2> SUFFICES ASSUME NEW e \in DOMAIN d.endpoints PROVE CustomCaMatches(NetworkOf(d, e))
    OBVIOUS
  <2>1. d.endpoints[e].network \in DOMAIN d.networks
    BY DEF TablesFit, RowTables, RowFits, EndpointFits, EndpointRow
  <2>2. NetworkRow(d.networks[d.endpoints[e].network])
    BY <2>1 DEF TablesFit, RowTables, RowFits
  <2> QED BY <2>2 DEF NetworkRow, NetworkOf
<1>3. EndpointFaults(d) = {"endpoint address" : e \in T} \cup {"custom CA" : e \in U}
  BY DEF EndpointFaults
<1> HIDE DEF T, U
<1> QED BY <1>1, <1>2, <1>3

LEMMA ClientsLoad == ASSUME NEW d, TablesFit(d) PROVE DeploymentFaults(d) = {}
<1> DEFINE T == {x \in DOMAIN d.deployments : DeploymentFault(d, x)}
           U == {p \in Builds(d) \X Builds(d) : p[1].key = p[2].key /\ p[1].build # p[2].build}
<1>1. T = {}
  BY DeploymentsLoad
<1>2. \A a, b \in Builds(d) : a.key = b.key => a.build = b.build
  <2> SUFFICES ASSUME NEW a \in Builds(d), NEW b \in Builds(d), a.key = b.key PROVE a.build = b.build
    OBVIOUS
  <2>1. PICK x : a = [key |-> ClientKey(d, x), build |-> ClientBuild(d, x)]
    BY DEF Builds
  <2>2. PICK y : b = [key |-> ClientKey(d, y), build |-> ClientBuild(d, y)]
    BY DEF Builds
  <2>3. /\ a.key = ClientKey(d, x) /\ a.build = ClientBuild(d, x)
        /\ b.key = ClientKey(d, y) /\ b.build = ClientBuild(d, y)
    BY <2>1, <2>2
  <2> QED BY <2>3, ClientsAgree
<1>3. U = {}
  BY <1>2
<1>4. DeploymentFaults(d) = {"deployment" : x \in T} \cup {"ambiguous client" : p \in U}
  BY DEF DeploymentFaults
<1> HIDE DEF T, U
<1> QED BY <1>1, <1>3, <1>4

LEMMA RoutesLoad == ASSUME NEW d, TablesFit(d) PROVE RouteFaults(d) \subseteq {"target capabilities"}
<1> DEFINE E == {p \in LiveRoutes(d) \X UNION {d.routes[r].targets : r \in LiveRoutes(d)} :
                    p[2] \in EnabledTargets(d.routes[p[1]])}
           S == UNION {EnabledTargets(d.routes[r]) : r \in DOMAIN d.routes}
           T1 == {p \in (DOMAIN d.routes) \X (DOMAIN d.routes) :
                    /\ p[1] # p[2] /\ d.routes[p[1]].org = d.routes[p[2]].org
                    /\ d.routes[p[1]].ingress = d.routes[p[2]].ingress
                    /\ d.routes[p[1]].model = d.routes[p[2]].model}
           T2 == {r \in LiveRoutes(d) : ~TiersValid(EnabledTargets(d.routes[r]))}
           T3 == {r \in LiveRoutes(d) : ~RequestPolicyValid(d.routes[r])}
           T4 == {t \in S : ~TargetValid(t)}
           T5 == {p \in E : ~TargetSupported(d, p[1], p[2])}
           T6 == {p \in E : ~TargetCapable(d, p[1], p[2])}
           T7 == {p \in E : ~TargetInScope(d, p[1], p[2])}
<1>1. \A r \in DOMAIN d.routes : RouteFits(d, d.routes[r])
  BY DEF TablesFit, RowTables, RowFits
<1>2. T1 = {}
  BY DEF TablesFit, Namespaces, Namespace
<1>3. T2 = {} /\ T3 = {}
  BY <1>1 DEF LiveRoutes, RouteFits
<1>4. T4 = {}
  BY <1>1 DEF RouteFits
<1>5. \A r \in LiveRoutes(d) : \A t \in EnabledTargets(d.routes[r]) : TargetSupported(d, r, t) /\ TargetInScope(d, r, t)
  BY <1>1 DEF LiveRoutes, RouteFits, TargetFits, TargetSupported, TargetInScope
<1>6. T5 = {} /\ T7 = {}
  BY <1>5
<1>7. RouteFaults(d) = {"namespace" : p \in T1} \cup {"tiers" : r \in T2} \cup {"request policy" : r \in T3}
                       \cup {"target" : t \in T4} \cup {"target tuple" : p \in T5}
                       \cup {"target capabilities" : p \in T6} \cup {"target scope" : p \in T7}
  BY DEF RouteFaults
<1> HIDE DEF T1, T2, T3, T4, T5, T6, T7
<1> QED BY <1>2, <1>3, <1>4, <1>6, <1>7

LEMMA KeysLoad == ASSUME NEW d, TablesFit(d) PROVE KeyFaults(d) \subseteq {"key route missing"}
<1> DEFINE T == {k \in DOMAIN d.keys : ~(d.keys[k].routes \subseteq LiveRoutes(d))}
           U == {k \in DOMAIN d.keys : \E r \in d.keys[k].routes : d.routes[r].org \notin {None, d.keys[k].org}}
<1>1. U = {}
  BY DEF TablesFit, RowTables, RowFits, KeyRow
<1>2. KeyFaults(d) = {"key route missing" : k \in T} \cup {"key route foreign" : k \in U}
  BY DEF KeyFaults
<1> HIDE DEF T, U
<1> QED BY <1>1, <1>2

LEMMA TablesLoad ==
    ASSUME NEW d, TablesFit(d) PROVE Faults(d) \subseteq {"target capabilities", "key route missing"}
<1> DEFINE T == {p \in DOMAIN d.reliabilities : ~PolicyValid(d.reliabilities[p])}
           U == {c \in DOMAIN d.credentials : CredentialFault(d.credentials[c])}
<1>1. T = {}
  BY DEF TablesFit, RowTables, RowFits, PolicyFits
<1>2. U = {}
  BY DEF TablesFit, RowTables, RowFits, CredentialRow, CredentialFault
<1>3. Faults(d) = GrantFaults(d) \cup EndpointFaults(d) \cup DeploymentFaults(d) \cup RouteFaults(d)
                  \cup KeyFaults(d) \cup {"reliability" : p \in T} \cup {"credential" : c \in U}
  BY DEF Faults
<1> HIDE DEF T, U
<1> QED BY <1>1, <1>2, <1>3, GrantsLoad, EndpointsLoad, ClientsLoad, RoutesLoad, KeysLoad

\* What a command sequence can leave that keeps the runtime from being rebuilt: a
\* capability taken from a deployment in use, a draft in a key's routes
\* (update_model_deployment, validate_route_authority; runtime/builder.rs).
THEOREM CaptureFaultsKnown == CatalogSpec => []OnlyKnownFaults
<1>1. DbInv => OnlyKnownFaults
  BY TablesLoad DEF DbInv, OnlyKnownFaults
<1> QED BY <1>1, TablesAlwaysFit, PTL

-----------------------------------------------------------------------------
\* The published snapshot and its clients.

\* A client is what it was built from, which was safe.
ClientFits(c) ==
    /\ c = [key |-> c.key, build |-> c.build]
    /\ NetworkValid(c.build.network) /\ EndpointAllowed(c.build.network, c.build.host)

\* What admission relies on in a snapshot, whatever the revision it shows.
SnapshotFits(s) ==
    \A r \in DOMAIN s.routes : \A t \in s.routes[r].targets :
        LET w == s.routes[r]
            x == s.deployments[t.deployment] IN
        /\ t.output \in Nat \cup {None}
        /\ Compatibility(w.ingress, x.adapter, x.kind, x.transport) # {}
        /\ x.org \in {None, w.org}
        /\ x.operational /\ x.org # None => x.endpoint \in s.grants[x.org].endpoints

Shows(s, d, clients) == s = WithClients(CaptureGatewayRuntime(d), clients)

RuntimeInv ==
    /\ revision \in Nat /\ runtime.revision \in Nat /\ runtime.revision <= revision
    /\ \A c \in runtime.clients : ClientFits(c)
    /\ SnapshotFits(runtime.snapshot)
    /\ runtime.revision = revision =>
          Shows(runtime.snapshot, db, runtime.clients) /\ runtime.clients \subseteq Builds(db)

\* A commit of tables takes a revision of its own.
Commits == revision' = revision + 1 /\ UNCHANGED runtime
Keeps == UNCHANGED <<db, revision, runtime>>

LEMMA CreateKeeps == ASSUME Create PROVE Keeps
<1>1. ASSUME NEW t, NEW o, NEW row, NEW l, BeginCreate(t, o, row, l) PROVE Keeps
  BY <1>1 DEF BeginCreate, BeginCommand, Keeps
<1>2. CASE CreateEgressNetworkPolicy
  BY <1>1, <1>2 DEF CreateEgressNetworkPolicy
<1>3. CASE CreateReliabilityPolicy
  BY <1>1, <1>3 DEF CreateReliabilityPolicy
<1>4. CASE CreatePricingPolicy
  BY <1>1, <1>4 DEF CreatePricingPolicy
<1>5. CASE \E x \in DOMAIN db.pricings : PublishPricingVersion(x)
  BY <1>1, <1>5 DEF PublishPricingVersion
<1>6. CASE CreateUpstreamEndpoint
  BY <1>1, <1>6 DEF CreateUpstreamEndpoint
<1>7. CASE CreateModelDeployment
  BY <1>1, <1>7 DEF CreateModelDeployment
<1>8. CASE CreateModelRoute
  BY <1>1, <1>8 DEF CreateModelRoute
<1> QED BY <1>2, <1>3, <1>4, <1>5, <1>6, <1>7, <1>8 DEF Create

LEMMA UpdateCommits == ASSUME Update PROVE Commits \/ Keeps
<1>1. ASSUME NEW t, NEW id, NEW row, NEW s, UpdateRow(t, id, row, s) PROVE Commits
  BY <1>1 DEF UpdateRow, CommitCatalog, Commits
<1>2. ASSUME NEW c, BeginCommand(c) PROVE Keeps
  BY <1>2 DEF BeginCommand, Keeps
<1>3. ASSUME NEW n \in DOMAIN db.networks, UpdateEgressNetworkPolicy(n) PROVE Commits
  BY <1>1, <1>3 DEF UpdateEgressNetworkPolicy
<1>4. ASSUME NEW n \in DOMAIN db.networks, BeginReplaceCustomCa(n) PROVE Keeps
  BY <1>2, <1>4 DEF BeginReplaceCustomCa
<1>5. ASSUME NEW p \in DOMAIN db.reliabilities, UpdateReliabilityPolicy(p) PROVE Commits
  BY <1>1, <1>5 DEF UpdateReliabilityPolicy
<1>6. ASSUME NEW x \in DOMAIN db.pricings, UpdatePricingPolicy(x) PROVE Commits
  BY <1>1, <1>6 DEF UpdatePricingPolicy
<1>7. ASSUME NEW e \in DOMAIN db.endpoints, UpdateUpstreamEndpoint(e) PROVE Commits
  BY <1>1, <1>7 DEF UpdateUpstreamEndpoint
<1>8. ASSUME NEW e \in DOMAIN db.endpoints, BeginValidateEndpoint(e) PROVE Keeps
  BY <1>2, <1>8 DEF BeginValidateEndpoint, BeginValidate
<1>9. ASSUME NEW d \in DOMAIN db.deployments, UpdateModelDeployment(d) PROVE Commits
  BY <1>1, <1>9 DEF UpdateModelDeployment
<1>10. ASSUME NEW d \in DOMAIN db.deployments, BeginValidateDeployment(d) PROVE Keeps
  BY <1>2, <1>10 DEF BeginValidateDeployment, BeginValidate
<1>11. ASSUME NEW r \in DOMAIN db.routes, BeginUpdateModelRoute(r) PROVE Keeps
  BY <1>2, <1>11 DEF BeginUpdateModelRoute
<1>12. ASSUME NEW o, NEW t, UpdateCatalogGrantSet(o, t) PROVE Commits
  BY <1>1, <1>12 DEF UpdateCatalogGrantSet
<1>13. ASSUME NEW k, UpdateGatewayKeyRoutes(k) PROVE Commits
  BY <1>1, <1>13 DEF UpdateGatewayKeyRoutes
<1>14. ASSUME NEW c, UpdateCredential(c) PROVE Commits
  BY <1>1, <1>14 DEF UpdateCredential
<1>15. ASSUME NEW o, UpdateOrganization(o) PROVE Commits
  BY <1>1, <1>15 DEF UpdateOrganization
<1> QED BY <1>3, <1>4, <1>5, <1>6, <1>7, <1>8, <1>9, <1>10, <1>11, <1>12, <1>13, <1>14, <1>15 DEF Update

LEMMA RevisionSteps == ASSUME [CatalogNext]_catalogVars PROVE Commits \/ Keeps \/ PublishSnapshot
<1>1. ASSUME NEW c \in open, \/ CommitCreate(c) \/ CommitReplaceCustomCa(c) \/ CommitValidate(c)
                             \/ CommitUpdateModelRoute(c) \/ Abort(c)
      PROVE  Commits \/ Keeps
  BY <1>1 DEF CommitCreate, CommitReplaceCustomCa, CommitValidate, CommitUpdateModelRoute, Abort,
              CommitCatalog, Commits, Keeps
<1>2. ASSUME NEW r, Replay(r.key, r.input) \/ CleanupExpired(r.key) PROVE Keeps
  BY <1>2 DEF Replay, CleanupExpired, Keeps
<1>3. CASE UNCHANGED catalogVars
  BY <1>3 DEF catalogVars, Keeps
<1> QED BY <1>1, <1>2, <1>3, CreateKeeps, UpdateCommits DEF CatalogNext, Finish

\* A client lives on when it was built from the same values.
LEMMA ClientsBuilt ==
    ASSUME NEW d, NEW prior, NEW unread, \A p \in prior : ClientFits(p),
           NEW c \in BuildCredentialClients(d, prior, unread)
    PROVE  c \in Builds(d) /\ ClientFits(c)
<1>1. \A b \in Builds(d) : b = [key |-> b.key, build |-> b.build]
  <2> SUFFICES ASSUME NEW b \in Builds(d) PROVE b = [key |-> b.key, build |-> b.build]
    OBVIOUS
  <2>1. PICK x : b = [key |-> ClientKey(d, x), build |-> ClientBuild(d, x)]
    BY DEF Builds
  <2> QED BY <2>1
<1>2. PICK b \in Builds(d) :
        c \in IF Reused(prior, b) # {} THEN Reused(prior, b)
              ELSE {b} \cap {x \in Builds(d) : CanBuild(x, unread)}
  BY DEF BuildCredentialClients
<1>3. CASE c \in Reused(prior, b)
  <2>1. c \in prior /\ c.key = b.key /\ c.build = b.build
    BY <1>3 DEF Reused, Fingerprint
  <2>2. c = b
    BY <1>1, <2>1 DEF ClientFits
  <2> QED BY <1>2, <2>1, <2>2
<1>4. CASE c = b /\ CanBuild(b, unread)
  BY <1>1, <1>2, <1>4 DEF CanBuild, ClientFits
<1> QED BY <1>2, <1>3, <1>4

\* The parts of a snapshot.
LEMMA SnapshotParts ==
    ASSUME NEW d, NEW C, NEW s, Shows(s, d, C)
    PROVE  /\ s.organizations = {o \in DOMAIN d.organizations : Active(d.organizations[o])}
           /\ s.grants = d.grants /\ s.identity = d.identity
           /\ s.keys = [k \in DOMAIN d.keys |-> Verifier(d, k)]
           /\ DOMAIN s.routes = LiveRoutes(d) /\ DOMAIN s.deployments = DOMAIN d.deployments
<1> DEFINE k == CaptureGatewayRuntime(d)
<1>1. /\ DOMAIN k = {"organizations", "grants", "identity", "keys", "deployments", "routes"}
      /\ k.organizations = {o \in DOMAIN d.organizations : Active(d.organizations[o])}
      /\ k.grants = d.grants /\ k.identity = d.identity
      /\ k.keys = [y \in DOMAIN d.keys |-> Verifier(d, y)]
      /\ DOMAIN k.routes = LiveRoutes(d) /\ DOMAIN k.deployments = DOMAIN d.deployments
  BY DEF CaptureGatewayRuntime
<1> HIDE DEF k
<1>2. /\ s.organizations = k.organizations /\ s.grants = k.grants /\ s.identity = k.identity
      /\ s.keys = k.keys /\ s.routes = k.routes /\ DOMAIN s.deployments = DOMAIN k.deployments
  BY <1>1 DEF Shows, WithClients, k
<1> QED BY <1>1, <1>2

LEMMA SnapshotRoute ==
    ASSUME NEW d, NEW C, NEW s, Shows(s, d, C), NEW r \in LiveRoutes(d)
    PROVE  /\ s.routes[r].org = d.routes[r].org /\ s.routes[r].ingress = d.routes[r].ingress
           /\ s.routes[r].model = d.routes[r].model /\ s.routes[r].required = d.routes[r].required
           /\ s.routes[r].targets = RouteTargets(d, r) /\ (s.routes[r].active => RouteActive(d, r))
           /\ s.grants = d.grants
<1> DEFINE k == CaptureGatewayRuntime(d)
<1>1. /\ "deployments" \in DOMAIN k
      /\ k.routes[r] = [org |-> d.routes[r].org, ingress |-> d.routes[r].ingress,
         model |-> d.routes[r].model, required |-> d.routes[r].required,
         output |-> d.routes[r].output, active |-> RouteActive(d, r),
         targets |-> RouteTargets(d, r)]
  BY DEF CaptureGatewayRuntime
<1> HIDE DEF k
<1>2. s.routes = k.routes
  BY <1>1 DEF Shows, WithClients, k
<1>3. s.grants = d.grants
  BY SnapshotParts
<1> QED BY <1>1, <1>2, <1>3

LEMMA SnapshotDeployment ==
    ASSUME NEW d, NEW C, NEW s, Shows(s, d, C), NEW x \in DOMAIN d.deployments
    PROVE  LET w == d.deployments[x] IN
           /\ s.deployments[x].org = w.org /\ s.deployments[x].caps = w.caps
           /\ s.deployments[x].endpoint = w.endpoint /\ s.deployments[x].transport = w.transport
           /\ s.deployments[x].adapter = d.endpoints[w.endpoint].adapter
           /\ s.deployments[x].kind = d.credentials[w.credential].kind
           /\ s.deployments[x].client = ClientKey(d, x)
           /\ s.deployments[x].operational => Operational(d, x) /\ \E c \in C : c.key = ClientKey(d, x)
<1> DEFINE k == CaptureGatewayRuntime(d)
           w == d.deployments[x]
           row == [org |-> w.org, caps |-> w.caps,
                   endpoint |-> w.endpoint, transport |-> w.transport,
                   adapter |-> d.endpoints[w.endpoint].adapter,
                   kind |-> d.credentials[w.credential].kind,
                   operational |-> Operational(d, x), client |-> ClientKey(d, x)]
<1>1. "deployments" \in DOMAIN k /\ x \in DOMAIN k.deployments /\ k.deployments[x] = row
  BY DEF CaptureGatewayRuntime
<1>2. /\ DOMAIN row = {"org", "caps", "endpoint", "transport", "adapter", "kind", "operational", "client"}
      /\ row.org = w.org /\ row.caps = w.caps
      /\ row.endpoint = w.endpoint /\ row.transport = w.transport
      /\ row.adapter = d.endpoints[w.endpoint].adapter
      /\ row.kind = d.credentials[w.credential].kind
      /\ row.client = ClientKey(d, x) /\ row.operational = Operational(d, x)
  OBVIOUS
<1> DEFINE kept == [z \in DOMAIN k.deployments |->
              [k.deployments[z] EXCEPT !.operational = @ /\ k.deployments[z].client \in {c.key : c \in C}]]
<1>0. s = [k EXCEPT !.deployments = kept]
  BY DEF Shows, WithClients
<1> HIDE DEF k, row
<1>3. s.deployments[x] = [row EXCEPT !.operational = @ /\ k.deployments[x].client \in {c.key : c \in C}]
  <2>1. kept[x] = [row EXCEPT !.operational = @ /\ k.deployments[x].client \in {c.key : c \in C}]
    BY <1>1
  <2> HIDE DEF kept
  <2> QED BY <1>0, <1>1, <2>1
<1> DEFINE op == row.operational /\ k.deployments[x].client \in {c.key : c \in C}
<1>4. s.deployments[x] = [row EXCEPT !.operational = op]
  BY <1>3
<1>5. op => Operational(d, x) /\ \E c \in C : c.key = ClientKey(d, x)
  BY <1>1, <1>2
<1> HIDE DEF op, w
<1>6. /\ s.deployments[x].org = row.org /\ s.deployments[x].caps = row.caps
      /\ s.deployments[x].endpoint = row.endpoint /\ s.deployments[x].transport = row.transport
      /\ s.deployments[x].adapter = row.adapter /\ s.deployments[x].kind = row.kind
      /\ s.deployments[x].client = row.client /\ s.deployments[x].operational = op
  BY <1>2, <1>4
<1> QED BY <1>2, <1>5, <1>6 DEF w

\* What the builder makes of tables that fit.
LEMMA SnapshotsFit ==
    ASSUME NEW d, TablesFit(d), NEW C, NEW s, Shows(s, d, C)
    PROVE  SnapshotFits(s)
<1> SUFFICES ASSUME NEW r \in DOMAIN s.routes, NEW t \in s.routes[r].targets
             PROVE  LET w == s.routes[r]
                        x == s.deployments[t.deployment] IN
                    /\ t.output \in Nat \cup {None}
                    /\ Compatibility(w.ingress, x.adapter, x.kind, x.transport) # {}
                    /\ x.org \in {None, w.org}
                    /\ x.operational /\ x.org # None => x.endpoint \in s.grants[x.org].endpoints
  BY DEF SnapshotFits
<1>1. r \in LiveRoutes(d) /\ s.grants = d.grants
  BY SnapshotParts
<1>2. /\ s.routes[r].org = d.routes[r].org /\ s.routes[r].ingress = d.routes[r].ingress
      /\ s.routes[r].targets = RouteTargets(d, r)
  BY <1>1, SnapshotRoute
<1>3. t \in EnabledTargets(d.routes[r])
  BY <1>2 DEF RouteTargets
<1>4. RouteFits(d, d.routes[r]) /\ d.routes[r].status # "draft"
  BY <1>1 DEF LiveRoutes, TablesFit, RowTables, RowFits
<1>5. /\ t.output \in Nat \cup {None} /\ t.deployment \in DOMAIN d.deployments /\ TargetFits(d, d.routes[r], t)
  BY <1>3, <1>4 DEF RouteFits, RouteRow, TargetRow, EnabledTargets
<1> DEFINE x == s.deployments[t.deployment]
           w == d.deployments[t.deployment]
<1>6. /\ x.org = w.org /\ x.endpoint = w.endpoint /\ x.transport = w.transport
      /\ x.adapter = d.endpoints[w.endpoint].adapter
      /\ x.kind = d.credentials[w.credential].kind
      /\ x.operational => Operational(d, t.deployment)
  BY <1>5, SnapshotDeployment
<1>7. x.operational /\ x.org # None => x.endpoint \in s.grants[x.org].endpoints
  BY <1>1, <1>6 DEF Operational, AllowedByGrants
<1> QED BY <1>2, <1>5, <1>6, <1>7 DEF TargetFits

LEMMA Compiles ==
    ASSUME TablesFit(db), NEW prior, NEW unread, \A p \in prior : ClientFits(p), NEW new,
           new = Compiled(prior, unread)
    PROVE  /\ new.revision = revision /\ SnapshotFits(new.snapshot)
           /\ \A c \in new.clients : ClientFits(c)
           /\ Shows(new.snapshot, db, new.clients) /\ new.clients \subseteq Builds(db)
<1>1. /\ new.revision = revision /\ new.clients = BuildCredentialClients(db, prior, unread)
      /\ Shows(new.snapshot, db, new.clients)
  BY DEF Compiled, Shows
<1>2. \A c \in new.clients : c \in Builds(db) /\ ClientFits(c)
  BY <1>1, ClientsBuilt
<1> QED BY <1>1, <1>2, SnapshotsFit

LEMMA RuntimeInit == CatalogInit => RuntimeInv
<1> SUFFICES ASSUME CatalogInit PROVE RuntimeInv
  OBVIOUS
<1>1. TablesFit(db) /\ revision = 1 /\ runtime = Compiled({}, {})
  BY DbInit DEF CatalogInit, DbInv
<1>2. /\ runtime.revision = revision /\ SnapshotFits(runtime.snapshot)
      /\ \A c \in runtime.clients : ClientFits(c)
      /\ Shows(runtime.snapshot, db, runtime.clients) /\ runtime.clients \subseteq Builds(db)
  BY <1>1, Compiles
<1> QED BY <1>1, <1>2 DEF RuntimeInv

LEMMA RuntimeNext == ASSUME DbInv, RuntimeInv, [CatalogNext]_catalogVars PROVE RuntimeInv'
<1>1. CASE Commits
  BY <1>1 DEF Commits, RuntimeInv
<1>2. CASE Keeps
  BY <1>2 DEF Keeps, RuntimeInv
<1>3. CASE PublishSnapshot
  <2>1. PICK unread : runtime' = Compiled(runtime.clients, unread)
    BY <1>3 DEF PublishSnapshot
  <2>2. db' = db /\ revision' = revision
    BY <1>3 DEF PublishSnapshot
  <2>3. TablesFit(db) /\ \A p \in runtime.clients : ClientFits(p)
    BY DEF DbInv, RuntimeInv
  <2>4. /\ runtime'.revision = revision /\ SnapshotFits(runtime'.snapshot)
        /\ \A c \in runtime'.clients : ClientFits(c)
        /\ Shows(runtime'.snapshot, db, runtime'.clients) /\ runtime'.clients \subseteq Builds(db)
    BY <2>1, <2>3, Compiles
  <2> QED BY <2>2, <2>4 DEF RuntimeInv
<1> QED BY <1>1, <1>2, <1>3, RevisionSteps

LEMMA RuntimeAlwaysFits == CatalogSpec => [](DbInv /\ RuntimeInv)
<1>1. CatalogInit => DbInv /\ RuntimeInv
  BY DbInit, RuntimeInit
<1>2. DbInv /\ RuntimeInv /\ [CatalogNext]_catalogVars => (DbInv /\ RuntimeInv)'
  BY DbNext, RuntimeNext
<1> QED BY <1>1, <1>2, PTL DEF CatalogSpec

\* A principal's organization is active and is not the deployment's own scope.
LEMMA AuthenticatedOrganization ==
    ASSUME NEW s, NEW q, NEW p \in AuthenticateIdentity(s, q) PROVE p.org \in s.organizations
BY DEF AuthenticateIdentity

\* The target that makes a route ready is a candidate unless a request's bound or
\* the target's health is against it.
LEMMA ReadyCandidates ==
    ASSUME RuntimeInv, NEW r \in DOMAIN runtime.snapshot.routes, NEW o, RequiredRouteReady(runtime, r),
           runtime.snapshot.routes[r].org \in {None, o}
    PROVE  \E t \in runtime.snapshot.routes[r].targets, m \in {"json", "sse", "websocket"} :
             \A i \in {q.intent : q \in Requests}, x \in Exclusions :
               LET intent == [i EXCEPT !.mode = m] IN
               \/ <<r, t.deployment>> \in x
               \/ t.output # None /\ ~(RequestedBound(runtime.snapshot, o, r, intent) <= t.output)
               \/ t \in Candidates(runtime, x, o, r, intent, runtime.snapshot.routes[r].required)
<1> DEFINE s == runtime.snapshot
           w == s.routes[r]
           d(t) == s.deployments[t.deployment]
<1>1. PICK t \in w.targets :
          /\ d(t).operational /\ w.required \subseteq d(t).caps
          /\ d(t).client \in {c.key : c \in runtime.clients}
          /\ w.org # None =>
                IF d(t).org = None THEN t.deployment \in s.grants[w.org].deployments
                ELSE d(t).org = w.org /\ d(t).endpoint \in s.grants[w.org].endpoints
  BY DEF RequiredRouteReady
<1>2. /\ t.output \in Nat \cup {None}
      /\ Compatibility(w.ingress, d(t).adapter, d(t).kind, d(t).transport) # {}
  BY <1>1 DEF RuntimeInv, SnapshotFits
<1>3. PICK e \in Compatibility(w.ingress, d(t).adapter, d(t).kind, d(t).transport) : TRUE
  BY <1>2
<1>4. PICK m \in {"json", "sse", "websocket"} : Supports(e, m)
  BY DEF Supports
<1>5. ASSUME NEW q \in Requests, NEW x \in Exclusions, <<r, t.deployment>> \notin x,
             ~(t.output # None /\ ~(RequestedBound(s, o, r, [q.intent EXCEPT !.mode = m]) <= t.output))
      PROVE  t \in Candidates(runtime, x, o, r, [q.intent EXCEPT !.mode = m], w.required)
  <2> DEFINE intent == [q.intent EXCEPT !.mode = m]
  <2>1. intent.mode = m
    BY InputAssumption
  <2> HIDE DEF intent
  <2>2. t.output # None => RequestedBound(s, o, r, intent) <= t.output
    BY <1>5 DEF intent
  <2>3. w.org # None /\ d(t).org = None => t.deployment \in s.grants[o].deployments
    BY <1>1
  <2>4. t \in Candidates(runtime, x, o, r, intent, w.required)
    BY <1>1, <1>3, <1>4, <1>5, <2>1, <2>2, <2>3 DEF Candidates
  <2> QED BY <2>4 DEF intent
<1> QED BY <1>5

LEMMA CandidateReady ==
    ASSUME RuntimeInv, NEW r \in DOMAIN runtime.snapshot.routes, NEW o \in runtime.snapshot.organizations,
           runtime.snapshot.routes[r].org \in {None, o}, runtime.snapshot.routes[r].active,
           NEW x, NEW intent, NEW caps,
           NEW t \in Candidates(runtime, x, o, r, intent, runtime.snapshot.routes[r].required \cup caps)
    PROVE  RequiredRouteReady(runtime, r)
<1> DEFINE s == runtime.snapshot
           w == s.routes[r]
           d == s.deployments[t.deployment]
<1>1. /\ t \in w.targets /\ d.operational /\ w.required \subseteq d.caps
      /\ (w.org # None /\ d.org = None) => t.deployment \in s.grants[o].deployments
      /\ d.client \in {c.key : c \in runtime.clients}
  BY DEF Candidates
<1>2. /\ d.org \in {None, w.org}
      /\ d.operational /\ d.org # None => d.endpoint \in s.grants[d.org].endpoints
  BY <1>1 DEF RuntimeInv, SnapshotFits
<1>3. w.org # None => IF d.org = None THEN t.deployment \in s.grants[w.org].deployments
                      ELSE d.org = w.org /\ d.endpoint \in s.grants[w.org].endpoints
  BY <1>1, <1>2
<1> QED BY <1>1, <1>3 DEF RequiredRouteReady

\* What a model resolves to is active and visible to the organization.
LEMMA ResolvedVisible ==
    ASSUME NEW s, NEW o, NEW ingress, NEW model, NEW r \in ResolveRoute(s, o, ingress, model)
    PROVE  /\ r \in DOMAIN s.routes /\ s.routes[r].active /\ s.routes[r].org \in {None, o}
BY DEF ResolveRoute

LEMMA AdmittedReady ==
    ASSUME RuntimeInv, NEW q, NEW x, NEW a \in AuthenticateAndAdmit(runtime, x, q)
    PROVE  RequiredRouteReady(runtime, a.route)
<1> DEFINE s == runtime.snapshot
<1>1. PICK p \in AuthenticateIdentity(s, q) : \E r \in ResolveRoute(s, p.org, q.family, q.intent.model) :
        a = [org |-> p.org, principal |-> p, route |-> r,
             candidates |-> Candidates(runtime, x, p.org, r, q.intent, s.routes[r].required \cup q.intent.caps)]
  BY DEF AuthenticateAndAdmit
<1>2. PICK r \in ResolveRoute(s, p.org, q.family, q.intent.model) :
        a = [org |-> p.org, principal |-> p, route |-> r,
             candidates |-> Candidates(runtime, x, p.org, r, q.intent, s.routes[r].required \cup q.intent.caps)]
  BY <1>1
<1>3. PICK t \in Candidates(runtime, x, p.org, r, q.intent, s.routes[r].required \cup q.intent.caps) : TRUE
  BY <1>2 DEF AuthenticateAndAdmit
<1>4. p.org \in s.organizations
  BY AuthenticatedOrganization
<1>5. a.route = r
  BY <1>2
<1>6. /\ r \in DOMAIN s.routes /\ s.routes[r].active /\ s.routes[r].org \in {None, p.org}
  BY ResolvedVisible
<1>7. RequiredRouteReady(runtime, r)
  BY <1>3, <1>4, <1>6, CandidateReady
<1> QED BY <1>5, <1>7

\* A turn has the credential of the socket's request and the intent that the
\* connection was accepted for.
LEMMA TurnOfSocket ==
    ASSUME RuntimeInv, NEW q \in Requests, NEW x, NEW r \in DOMAIN runtime.snapshot.routes,
           NEW p \in AuthenticateIdentity(runtime.snapshot, SocketRequest(q)),
           AllowsScopes(p, {"invoke", "stream"}), WebsocketRoute(runtime, x, p, r)
    PROVE  TurnAdmitted(q, x, p, r)
<1> DEFINE s == runtime.snapshot
           w == s.routes[r]
           intent == TurnIntent(w.model)
           turn == [SocketRequest(q) EXCEPT !.intent = intent]
<1>1. turn.family = "responses" /\ turn.headers = q.headers /\ turn.intent = intent
  BY InputAssumption DEF SocketRequest
<1>2. SocketRequest(q).family = "responses" /\ SocketRequest(q).headers = q.headers
  BY InputAssumption DEF SocketRequest
<1>3. /\ intent.model = w.model /\ intent.scopes = {"invoke", "stream"} /\ intent.caps = {"streaming"}
  BY DEF TurnIntent
<1>4. /\ w.active /\ w.ingress = "responses"
      /\ w.org = p.org \/ GrantOf(s, p.org, r) # {}
      /\ AllowsRoute(p, r) /\ AllowsCapabilities(p, intent.caps)
      /\ \A g \in GrantOf(s, p.org, r) : GrantAllows(g, intent.caps)
      /\ Candidates(runtime, x, p.org, r, intent, w.required \cup intent.caps) # {}
  BY DEF WebsocketRoute
<1> HIDE DEF turn, intent
<1>5. p \in AuthenticateIdentity(s, turn)
  <2>1. ExtractCredential(turn) = ExtractCredential(SocketRequest(q))
    BY <1>1, <1>2 DEF ExtractCredential, ProviderKey
  <2> QED BY <1>1, <1>2, <2>1 DEF AuthenticateIdentity
<1>6. ASSUME r \in ResolveRoute(s, p.org, "responses", w.model) PROVE TurnAdmitted(q, x, p, r)
  <2> DEFINE a == [org |-> p.org, principal |-> p, route |-> r,
                   candidates |-> Candidates(runtime, x, p.org, r, intent, w.required \cup intent.caps)]
  <2>1. /\ a.org = p.org /\ a.principal = p /\ a.route = r
        /\ a.candidates = Candidates(runtime, x, p.org, r, intent, w.required \cup intent.caps)
    OBVIOUS
  <2> DEFINE F(b, y) == [org |-> b.org, principal |-> b, route |-> y,
                         candidates |-> Candidates(runtime, x, b.org, y, turn.intent,
                                                   s.routes[y].required \cup turn.intent.caps)]
             R(b) == {F(b, y) : y \in ResolveRoute(s, b.org, turn.family, turn.intent.model)}
  <2>4. a = F(p, r) /\ r \in ResolveRoute(s, p.org, turn.family, turn.intent.model)
    BY <1>1, <1>3, <1>6
  <2>5. a \in R(p)
    <3> HIDE DEF a, F
    <3> QED BY <2>4
  <2>2. a \in UNION {R(b) : b \in AuthenticateIdentity(s, turn)}
    <3> HIDE DEF a, F, R
    <3> QED BY <1>5, <2>5
  <2> HIDE DEF a
  <2>3. a \in AuthenticateAndAdmit(runtime, x, turn)
    BY <1>1, <1>3, <1>4, <2>1, <2>2 DEF AuthenticateAndAdmit
  <2> QED BY <2>1, <2>3 DEF TurnAdmitted, turn, intent
<1>7. ASSUME r \notin ResolveRoute(s, p.org, "responses", w.model) PROVE TurnAdmitted(q, x, p, r)
  <2> DEFINE own == {y \in DOMAIN s.routes :
                        /\ s.routes[y].org = p.org /\ s.routes[y].ingress = "responses"
                        /\ s.routes[y].model = w.model /\ s.routes[y].active}
  <2>1. w.org # p.org
    BY <1>4, <1>7 DEF ResolveRoute
  <2>2. w.org = None /\ r \in DOMAIN s.grants[p.org].routes
    BY <1>4, <2>1 DEF GrantOf
  <2>3. own # {}
    BY <1>4, <1>7, <2>2 DEF ResolveRoute
  <2>4. PICK y \in own : TRUE
    BY <2>3
  <2>5. y \in ResolveRoute(s, p.org, "responses", w.model) /\ s.routes[y].org = p.org
    BY <2>4 DEF ResolveRoute
  <2> QED BY <2>2, <2>5 DEF TurnAdmitted
<1> QED BY <1>6, <1>7

LEMMA WebsocketReady ==
    ASSUME RuntimeInv, NEW q \in Requests, NEW x, AuthenticateWebsocketConnection(runtime, x, q)
    PROVE  \E p \in AuthenticateIdentity(runtime.snapshot, SocketRequest(q)), r \in DOMAIN runtime.snapshot.routes :
              RequiredRouteReady(runtime, r) /\ TurnAdmitted(q, x, p, r)
<1> DEFINE s == runtime.snapshot
<1>1. PICK p \in AuthenticateIdentity(s, SocketRequest(q)) :
        /\ AllowsScopes(p, {"invoke", "stream"})
        /\ \E r \in DOMAIN s.routes : WebsocketRoute(runtime, x, p, r)
  BY DEF AuthenticateWebsocketConnection
<1>2. PICK r \in DOMAIN s.routes : WebsocketRoute(runtime, x, p, r)
  BY <1>1
<1> DEFINE intent == TurnIntent(s.routes[r].model)
<1>3. /\ s.routes[r].active
      /\ s.routes[r].org = p.org \/ GrantOf(s, p.org, r) # {}
      /\ Candidates(runtime, x, p.org, r, intent, s.routes[r].required \cup intent.caps) # {}
  BY <1>2 DEF WebsocketRoute
<1>4. p.org \in s.organizations
  BY AuthenticatedOrganization
<1>5. s.routes[r].org \in {None, p.org}
  BY <1>3 DEF GrantOf
<1> HIDE DEF intent
<1>6. PICK t \in Candidates(runtime, x, p.org, r, intent, s.routes[r].required \cup intent.caps) : TRUE
  BY <1>3
<1>7. RequiredRouteReady(runtime, r)
  BY <1>3, <1>4, <1>5, <1>6, CandidateReady
<1>8. TurnAdmitted(q, x, p, r)
  BY <1>1, <1>2, TurnOfSocket
<1> QED BY <1>7, <1>8

\* A route that is ready lacks a candidate only where health or a request's bound
\* is against its target, what is admitted goes to a ready route, and a WebSocket is
\* accepted only if a turn on it would be admitted to one, also on a snapshot that is
\* not the latest (required_route_ready, order_candidates, authenticate_and_admit,
\* authenticate_websocket_connection).
THEOREM ReadinessAlwaysAgrees == CatalogSpec => []ReadinessAgrees
<1>1. RuntimeInv => ReadinessAgrees
  BY ReadyCandidates, AdmittedReady, WebsocketReady DEF ReadinessAgrees
<1> QED BY <1>1, RuntimeAlwaysFits, PTL

-----------------------------------------------------------------------------
\* Admission on the latest snapshot.

\* What the candidates of an admitted request may be.
LEMMA CandidateEntitled ==
    ASSUME TablesFit(db), NEW s, NEW C, Shows(s, db, C), C \subseteq Builds(db), \A c \in C : ClientFits(c),
           NEW run, run.snapshot = s, run.clients = C,
           NEW o, NEW r \in LiveRoutes(db), db.routes[r].org \in {None, o},
           NEW excluded, NEW intent, NEW caps,
           NEW t \in Candidates(run, excluded, o, r, intent, s.routes[r].required \cup caps)
    PROVE  DeploymentEntitled(o, r, t.deployment, caps)
<1> DEFINE x == t.deployment
           w == db.deployments[x]
           e == db.endpoints[w.endpoint]
           n == db.networks[e.network]
           row == s.deployments[x]
<1>1. /\ t \in s.routes[r].targets /\ row.operational /\ s.routes[r].required \cup caps \subseteq row.caps
      /\ (s.routes[r].org # None /\ row.org = None) => x \in s.grants[o].deployments
  BY DEF Candidates
<1>2. /\ s.routes[r].org = db.routes[r].org /\ s.routes[r].required = db.routes[r].required
      /\ s.routes[r].targets = RouteTargets(db, r) /\ s.grants = db.grants
  BY SnapshotRoute
<1>3. t \in EnabledTargets(db.routes[r]) /\ RouteFits(db, db.routes[r]) /\ db.routes[r].status # "draft"
  BY <1>1, <1>2 DEF RouteTargets, LiveRoutes, TablesFit, RowTables, RowFits
<1>4. x \in DOMAIN db.deployments /\ w.org \in {None, db.routes[r].org}
  BY <1>3 DEF RouteFits, RouteRow, EnabledTargets, TargetFits
<1>5. /\ row.org = w.org /\ row.caps = w.caps
      /\ Operational(db, x) /\ \E c \in C : c.key = ClientKey(db, x)
  BY <1>1, <1>4, SnapshotDeployment
<1>6. /\ w.status = "active" /\ e.status = "active" /\ n.status = "active"
      /\ db.credentials[w.credential].ready /\ db.credentials[w.credential].admin
      /\ w.pricing = None \/ db.pricings[db.versions[w.pricing].policy].status = "active"
      /\ w.org # None => w.endpoint \in db.grants[w.org].endpoints
  BY <1>5 DEF Operational, LoadedOperational, AllowedByGrants, Active, CredentialReady, NetworkOf
<1>7. ~n.proxy /\ e.host \notin n.denied
  <2>1. PICK c \in C : c.key = ClientKey(db, x)
    BY <1>5
  <2>2. PICK y : c = [key |-> ClientKey(db, y), build |-> ClientBuild(db, y)]
    BY DEF Builds
  <2>3. c.build = ClientBuild(db, x)
    <3>1. c.key = ClientKey(db, y) /\ c.build = ClientBuild(db, y)
      BY <2>2
    <3> QED BY <2>1, <3>1, ClientsAgree
  <2>4. NetworkValid(c.build.network) /\ EndpointAllowed(c.build.network, c.build.host)
    BY DEF ClientFits
  <2>5. c.build.host = e.host /\ c.build.network = NetworkConfiguration(n)
    BY <2>3 DEF ClientBuild, NetworkOf
  <2>6. NetworkConfiguration(n).proxy = n.proxy /\ NetworkConfiguration(n).denied = n.denied
    BY DEF NetworkConfiguration
  <2>7. "name" \notin n.denied
    BY <1>4, DeploymentsLoad DEF NetworkOf, NetworkRow
  <2> QED BY <2>4, <2>5, <2>6, <2>7 DEF NetworkValid, EndpointAllowed, ResolverAllows
<1>8. caps \cup db.routes[r].required \subseteq w.caps
  BY <1>1, <1>2, <1>5
<1>9. IF w.org = None THEN db.routes[r].org = None \/ x \in db.grants[o].deployments
      ELSE w.org = o /\ db.routes[r].org = o /\ w.endpoint \in db.grants[o].endpoints
  BY <1>1, <1>2, <1>4, <1>5, <1>6
<1> QED BY <1>6, <1>7, <1>8, <1>9 DEF DeploymentEntitled

\* The route a model resolves to.
LEMMA ResolvedEntitled ==
    ASSUME TablesFit(db), NEW s, NEW C, Shows(s, db, C), NEW o \in s.organizations, NEW ingress, NEW model,
           NEW r \in ResolveRoute(s, o, ingress, model), NEW caps,
           \A g \in GrantOf(s, o, r) : GrantAllows(g, caps)
    PROVE  RouteEntitled(o, r, caps) /\ r \in LiveRoutes(db) /\ db.routes[r].org \in {None, o}
<1>1. /\ s.organizations = {x \in DOMAIN db.organizations : Active(db.organizations[x])}
      /\ s.grants = db.grants /\ DOMAIN s.routes = LiveRoutes(db)
  BY SnapshotParts
<1>2. o \in DOMAIN db.organizations /\ o # None /\ db.organizations[o].status = "active"
  BY <1>1 DEF TablesFit, Active
<1>3. /\ r \in DOMAIN s.routes /\ s.routes[r].active
      /\ \/ s.routes[r].org = o
         \/ s.routes[r].org = None /\ r \in DOMAIN s.grants[o].routes
  BY DEF ResolveRoute
<1>4. s.routes[r].org = db.routes[r].org /\ RouteActive(db, r)
  <2>1. r \in LiveRoutes(db)
    BY <1>1, <1>3
  <2> QED BY <1>3, <2>1, SnapshotRoute
<1> DEFINE w == db.routes[r]
<1>5. /\ w.status = "active" /\ db.reliabilities[w.reliability].status = "active"
      /\ w.org # None => w.reliability \in db.grants[w.org].reliabilities
  BY <1>3, <1>4 DEF RouteActive, Active
<1>6. ASSUME w.org = None
      PROVE  /\ r \in DOMAIN db.grants[o].routes
             /\ db.grants[o].routes[r].caps = None \/ caps \subseteq db.grants[o].routes[r].caps
  <2>1. s.routes[r].org = None /\ r \in DOMAIN s.grants[o].routes
    BY <1>2, <1>3, <1>4, <1>6
  <2>2. s.grants[o].routes[r] \in GrantOf(s, o, r)
    BY <2>1 DEF GrantOf
  <2> QED BY <1>1, <2>1, <2>2 DEF GrantAllows
<1>7. w.org # None => w.org = o
  BY <1>3, <1>4
<1> QED BY <1>1, <1>2, <1>3, <1>5, <1>6, <1>7 DEF RouteEntitled

\* A gateway key's principal: what its row and the sections of its organization's policy leave.
LEMMA KeyEntitled ==
    ASSUME TablesFit(db), NEW s, NEW C, Shows(s, db, C), NEW k, NEW p \in AuthenticateGatewayKey(s, k),
           NEW r, NEW scopes, NEW caps,
           AllowsRoute(p, r), AllowsScopes(p, scopes), AllowsCapabilities(p, caps)
    PROVE  LET x == db.keys[k]
               y == db.organizations[p.org].policy[x.class] IN
           /\ x.status = "active" /\ x.org = p.org /\ r \in x.routes
           /\ y.enabled /\ r \in y.routes
           /\ scopes \subseteq x.scopes \cap y.scopes /\ caps \subseteq y.caps
<1> DEFINE x == db.keys[k]
           y == db.organizations[x.org].policy[x.class]
           v == s.keys[k]
<1>1. /\ k \in DOMAIN s.keys /\ v.active /\ p.org = v.org
      /\ p.scopes = {v.scopes} /\ p.caps = {v.caps} /\ p.routes = {v.routes}
  BY DEF AuthenticateGatewayKey
<1>2. s.keys = [z \in DOMAIN db.keys |-> Verifier(db, z)]
  BY SnapshotParts
<1>3. k \in DOMAIN db.keys /\ v = Verifier(db, k)
  BY <1>1, <1>2
<1>0. y \in PolicySections(db, k)
  BY DEF PolicySections
<1>4. /\ v.org = x.org /\ v.routes = KeyRoutes(db, k) /\ v.scopes = KeyScopes(db, k)
      /\ \A c \in v.caps : c \in y.caps
      /\ v.active => x.status = "active" /\ y.enabled
  <2> DEFINE P == PolicySections(db, k)
             caps1 == {c \in UNION {z.caps : z \in P} : \A z \in P : c \in z.caps}
             act == /\ Active(db.keys[k]) /\ Active(db.organizations[db.keys[k].org])
                    /\ \A z \in P : z.enabled
                    /\ KeyScopes(db, k) # {} /\ KeyRoutes(db, k) # {}
  <2>1. v = [org |-> db.keys[k].org, routes |-> KeyRoutes(db, k), scopes |-> KeyScopes(db, k),
             caps |-> caps1, active |-> act]
    BY <1>3 DEF Verifier
  <2>2. caps1 \subseteq y.caps /\ (act => x.status = "active" /\ y.enabled)
    BY <1>0 DEF Active
  <2> HIDE DEF caps1, act, v
  <2>3. v.org = x.org /\ v.routes = KeyRoutes(db, k) /\ v.scopes = KeyScopes(db, k) /\ v.caps = caps1
        /\ v.active = act
    BY <2>1
  <2> QED BY <2>2, <2>3
<1>5. r \in v.routes
  <2>1. KeyRow(db, x)
    BY <1>3 DEF TablesFit, RowTables, RowFits
  <2>2. KeyRoutes(db, k) \in SUBSET x.routes
    BY DEF KeyRoutes
  <2> QED BY <1>1, <1>4, <2>1, <2>2 DEF KeyRow, AllowsRoute, RouteCeilingAllows
<1>6. r \in x.routes /\ r \in y.routes
  BY <1>4, <1>5 DEF KeyRoutes, PolicySections
<1>7. scopes \subseteq v.scopes /\ caps \subseteq v.caps
  BY <1>1 DEF AllowsScopes, AllowsCapabilities
<1>8. \A z \in v.scopes : z \in x.scopes /\ z \in y.scopes
  BY <1>4 DEF KeyScopes, PolicySections
<1> QED BY <1>1, <1>4, <1>6, <1>7, <1>8

\* A token's principal: a member's, within what the issuer allows.
LEMMA TokenEntitled ==
    ASSUME TablesFit(db), NEW s, NEW C, Shows(s, db, C), NEW c, NEW header,
           NEW p \in AuthenticateDirectJwt(s, c, header), NEW scopes, AllowsScopes(p, scopes)
    PROVE  /\ <<p.org, db.identity.bindings[<<c.issuer, c.subject>>]>> \in DOMAIN db.identity.members
           /\ db.identity.issuers[c.issuer].llm
           /\ scopes \subseteq db.identity.issuers[c.issuer].scopes
<1> DEFINE i == s.identity
           issuer == i.issuers[c.issuer]
           user == i.bindings[<<c.issuer, c.subject>>]
<1>1. i = db.identity
  BY SnapshotParts
<1>2. /\ issuer.llm /\ <<c.issuer, c.subject>> \in DOMAIN i.bindings
      /\ \E z \in SelectedOrganization(issuer, c.claims, header) \X DeriveLlmCeiling(issuer, c.claims) :
            /\ <<z[1], user>> \in DOMAIN i.members
            /\ p.org = z[1] /\ z[2].scopes \in p.scopes
  <2> DEFINE S == {z \in SelectedOrganization(issuer, c.claims, header) \X DeriveLlmCeiling(issuer, c.claims) :
                      <<z[1], user>> \in DOMAIN i.members}
             made1(z) == [org |-> z[1], scopes |-> {z[2].scopes, i.members[<<z[1], user>>].scopes},
                          caps |-> {z[2].caps, i.members[<<z[1], user>>].caps},
                          routes |-> {z[2].routes, i.members[<<z[1], user>>].routes}]
  <2>1. /\ issuer.llm /\ <<c.issuer, c.subject>> \in DOMAIN i.bindings
        /\ p \in {made1(z) : z \in S}
    BY DEF AuthenticateDirectJwt
  <2>2. PICK z \in S : p = made1(z)
    BY <2>1
  <2>3. p.org = z[1] /\ z[2].scopes \in p.scopes
    BY <2>2
  <2> QED BY <2>1, <2>3
<1>3. PICK o, l : l \in DeriveLlmCeiling(issuer, c.claims) /\
            <<o, user>> \in DOMAIN i.members /\ p.org = o /\ l.scopes \in p.scopes
  BY <1>2
<1>4. l.scopes = Narrowed(issuer, c.claims, "scopes", issuer.scopes)
  BY <1>3 DEF DeriveLlmCeiling
<1>5. issuer.scopes # AllRoutes
  <2>1. c.issuer \in DOMAIN i.issuers
    BY <1>1, <1>2 DEF TablesFit, IdentityRows
  <2> QED BY <1>1, <2>1 DEF TablesFit, IdentityRows
<1>6. l.scopes \subseteq issuer.scopes
  BY <1>4, <1>5 DEF Narrowed
<1> QED BY <1>1, <1>2, <1>3, <1>6 DEF AllowsScopes

LEMMA CredentialsEntitled ==
    ASSUME TablesFit(db), NEW s, NEW C, Shows(s, db, C), NEW q, NEW p \in AuthenticateIdentity(s, q), NEW r,
           AllowsRoute(p, r), AllowsScopes(p, q.intent.scopes), AllowsCapabilities(p, q.intent.caps)
    PROVE  CredentialEntitled(q, p.org, r)
<1>1. PICK c \in ExtractCredential(q) :
        p \in IF c.type = "key" THEN AuthenticateGatewayKey(s, c.key)
              ELSE AuthenticateDirectJwt(s, c, q.headers.organization)
  BY DEF AuthenticateIdentity
<1>2. c # None /\ \E h \in {"authorization", "xApiKey", "xGoogApiKey"} : c = q.headers[h]
  BY DEF ExtractCredential, ProviderKey
<1>3. CASE c.type = "key"
  <2> DEFINE x == db.keys[c.key]
             y == db.organizations[p.org].policy[x.class]
  <2>1. /\ x.status = "active" /\ x.org = p.org /\ r \in x.routes
        /\ y.enabled /\ r \in y.routes
        /\ q.intent.scopes \subseteq x.scopes \cap y.scopes /\ q.intent.caps \subseteq y.caps
    BY <1>1, <1>3, KeyEntitled
  <2> QED BY <1>2, <1>3, <2>1 DEF CredentialEntitled
<1>4. CASE c.type # "key"
  BY <1>1, <1>2, <1>4, TokenEntitled DEF CredentialEntitled
<1> QED BY <1>3, <1>4

LEMMA AdmissionEntitled ==
    ASSUME DbInv, RuntimeInv, runtime.revision = revision, NEW q, NEW x,
           NEW a \in AuthenticateAndAdmit(runtime, x, q)
    PROVE  /\ RouteEntitled(a.org, a.route, q.intent.caps)
           /\ CredentialEntitled(q, a.org, a.route)
           /\ \A t \in a.candidates : DeploymentEntitled(a.org, a.route, t.deployment, q.intent.caps)
<1> DEFINE s == runtime.snapshot
           C == runtime.clients
<1>1. /\ TablesFit(db) /\ Shows(s, db, C) /\ C \subseteq Builds(db) /\ \A c \in C : ClientFits(c)
  BY DEF DbInv, RuntimeInv
<1>2. PICK p, r :
        /\ p \in AuthenticateIdentity(s, q) /\ r \in ResolveRoute(s, p.org, q.family, q.intent.model)
        /\ a = [org |-> p.org, principal |-> p, route |-> r,
                candidates |-> Candidates(runtime, x, p.org, r, q.intent,
                                          s.routes[r].required \cup q.intent.caps)]
        /\ AllowsRoute(a.principal, a.route)
        /\ AllowsScopes(a.principal, q.intent.scopes)
        /\ AllowsCapabilities(a.principal, q.intent.caps)
        /\ \A g \in GrantOf(s, a.org, a.route) : GrantAllows(g, q.intent.caps)
  BY DEF AuthenticateAndAdmit
<1>3. /\ a.org = p.org /\ a.principal = p /\ a.route = r
      /\ a.candidates = Candidates(runtime, x, p.org, r, q.intent, s.routes[r].required \cup q.intent.caps)
  BY <1>2
<1>4. p.org \in s.organizations
  BY <1>2, AuthenticatedOrganization
<1>5. RouteEntitled(p.org, r, q.intent.caps) /\ r \in LiveRoutes(db) /\ db.routes[r].org \in {None, p.org}
  <2>1. \A g \in GrantOf(s, p.org, r) : GrantAllows(g, q.intent.caps)
    BY <1>2, <1>3
  <2>2. r \in ResolveRoute(s, p.org, q.family, q.intent.model)
    BY <1>2
  <2> HIDE DEF s, C
  <2> QED BY <1>1, <1>4, <2>1, <2>2, ResolvedEntitled
<1>6. CredentialEntitled(q, p.org, r)
  <2>1. AllowsRoute(p, r) /\ AllowsScopes(p, q.intent.scopes) /\ AllowsCapabilities(p, q.intent.caps)
    BY <1>2, <1>3
  <2>2. p \in AuthenticateIdentity(s, q)
    BY <1>2
  <2> HIDE DEF s, C
  <2> QED BY <1>1, <2>1, <2>2, CredentialsEntitled
<1>7. ASSUME NEW t \in a.candidates PROVE DeploymentEntitled(p.org, r, t.deployment, q.intent.caps)
  <2>1. t \in Candidates(runtime, x, p.org, r, q.intent, s.routes[r].required \cup q.intent.caps)
    BY <1>3
  <2>2. s = runtime.snapshot /\ C = runtime.clients
    OBVIOUS
  <2> HIDE DEF s, C
  <2> QED BY <1>1, <1>5, <2>1, <2>2, CandidateEntitled
<1> QED BY <1>3, <1>5, <1>6, <1>7

\* On the latest snapshot a request reaches what the tables entitle it to and
\* nothing else, with clients that are those of the tables though some outlived
\* several publications (runtime/builder.rs, authenticate_and_admit,
\* build_credential_clients).
THEOREM AdmissionAlwaysEntitled == CatalogSpec => []AdmittedIsEntitled
<1>1. DbInv /\ RuntimeInv => AdmittedIsEntitled
  <2>1. RuntimeInv /\ runtime.revision = revision => runtime.clients \subseteq Builds(db)
    BY DEF RuntimeInv
  <2> QED BY <2>1, AdmissionEntitled DEF AdmittedIsEntitled
<1> QED BY <1>1, RuntimeAlwaysFits, PTL

==================================================================================
