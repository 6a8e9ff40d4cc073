---------------------------- MODULE UsagePipeline ----------------------------
(***************************************************************************)
(* The usage pipeline of one gateway process (gateway/usage.rs).           *)
(*                                                                         *)
(* Terminal facts of requests and attempts are merged into two bounded     *)
(* maps, sealed into immutable batches and written by one transaction per  *)
(* batch that also inserts a receipt.  The acknowledgement of a commit can *)
(* be lost, so a batch is retried until a receipt or its age settles it;   *)
(* receipts are pruned in turn.  Time is counted in hourly buckets.        *)
(***************************************************************************)
EXTENDS Integers, FiniteSets

CONSTANTS
    Dimensions,       \* the keys of facts, apart from family and bucket
    MaxKeys,          \* max_aggregate_keys
    MaxPending,       \* max_pending_batches
    MaxMerged,        \* bound: facts one key can count (numeric limits)
    AcceptWindow,     \* a batch older than this is not written: 7 days
    ReceiptWindow,    \* receipts are kept for so long: 8 days
    FlushTimeout,     \* an attempt to write a batch is given up after this
    Skew,             \* bound: distance of the process clock from PostgreSQL's
    MaxFacts,         \* bound: facts recorded
    MaxEpochs,        \* bound: processes, one after the other
    MaxTime           \* bound: last instant

ASSUME UsageAssumption ==
    /\ MaxKeys \in Nat \ {0} /\ MaxPending \in Nat \ {0} /\ MaxMerged \in Nat \ {0}
    /\ AcceptWindow \in Nat /\ ReceiptWindow \in Nat /\ FlushTimeout \in Nat /\ Skew \in Nat
    /\ AcceptWindow + FlushTimeout <= ReceiptWindow
    /\ MaxFacts \in Nat /\ MaxEpochs \in Nat \ {0} /\ MaxTime \in Nat

Families == {"logical", "attempt"}

VARIABLES
    now,        \* the clock of PostgreSQL
    epoch,      \* source_epoch: the process that runs
    agg,        \* UsageState: active facts, pending batches, next sequence, lost facts
    flush,      \* the batch flush_once is writing, under flush_lock
    mode,       \* running, closing (flush_all of the shutdown), ended or aborted
    closing,    \* flush_all: where it is, and the status it compares with
    limbo,      \* transactions given up whose COMMIT may still be executed
    receipts,   \* aggregate_flush_receipts
    applied,    \* how often the tables count each fact
    recorded,   \* facts recorded so far, and by earlier processes
    earlier

memory == <<epoch, agg, flush, mode, closing>>
tables == <<limbo, receipts, applied>>
vars == <<now, memory, tables, recorded, earlier>>

NoBatch == [seq |-> 0, facts |-> {}]
Unlocked == [on |-> FALSE, batch |-> NoBatch, started |-> 0]
NotClosing == [step |-> "flush", pending |-> 0, logical |-> 0, attempt |-> 0, clean |-> TRUE]
EmptyState == [active |-> {}, pending |-> {}, next |-> 0, lost |-> 0]

Init ==
    /\ now = 0
    /\ epoch = 1
    /\ agg = EmptyState
    /\ flush = Unlocked
    /\ mode = "running"
    /\ closing = NotClosing
    /\ limbo = {} /\ receipts = {}
    /\ applied = [i \in 1 .. MaxFacts |-> 0]
    /\ recorded = 0 /\ earlier = 0

-----------------------------------------------------------------------------
(* Recording                                                                *)

\* One of the two maps, and the keys of its facts.
Of(s, family) == {f \in s.active : f.family = family}
KeyOf(f) == <<f.dimension, f.bucket>>
KeysOf(s, family) == {KeyOf(f) : f \in Of(s, family)}

\* seal_logical, seal_attempts and push_batch
Seal(s, family) ==
    IF Of(s, family) = {} \/ Cardinality(s.pending) >= MaxPending THEN s
    ELSE [s EXCEPT !.active = @ \ Of(s, family),
                   !.pending = @ \cup {[seq |-> s.next, facts |-> Of(s, family)]},
                   !.next = @ + 1]

\* merge_logical, merge_attempt: a sum past its limit loses the fact.
Merge(s, f) ==
    IF Cardinality({g \in Of(s, f.family) : KeyOf(g) = KeyOf(f)}) >= MaxMerged
    THEN [s EXCEPT !.lost = @ + 1]
    ELSE [s EXCEPT !.active = @ \cup {f}]

\* Mutant: a full queue drops the fact without counting it.
AddedUncounted(s, f) ==
    IF KeyOf(f) \notin KeysOf(s, f.family) /\ Cardinality(KeysOf(s, f.family)) >= MaxKeys
    THEN IF Cardinality(s.pending) >= MaxPending THEN s
         ELSE Merge(Seal(s, f.family), f)
    ELSE Merge(s, f)

\* A new key in a full map seals it first; with a full queue the fact is lost.
Added(s, f) ==
    IF KeyOf(f) \notin KeysOf(s, f.family) /\ Cardinality(KeysOf(s, f.family)) >= MaxKeys
    THEN IF Cardinality(s.pending) >= MaxPending THEN [s EXCEPT !.lost = @ + 1]
         ELSE Merge(Seal(s, f.family), f)
    ELSE Merge(s, f)

\* record_logical, record_attempt, with the hour of the process clock.
Record(family, dimension, bucket) ==
    /\ mode = "running" /\ recorded < MaxFacts
    /\ recorded' = recorded + 1
    /\ agg' = Added(agg, [id |-> recorded + 1, family |-> family,
                          dimension |-> dimension, bucket |-> bucket])
    /\ UNCHANGED <<now, epoch, flush, mode, closing, tables, earlier>>

-----------------------------------------------------------------------------
(* Flushing: the periodic task, an operator's flush and the shutdown all    *)
(* run flush_once under flush_lock.                                         *)

IsFront(b, s) == b \in s.pending /\ \A c \in s.pending : b.seq <= c.seq

SealedBoth == Seal(Seal(agg, "logical"), "attempt")

\* flush_all goes on to compare after each flush_once.
FlushReturns(clean) ==
    closing' = IF mode = "closing" THEN [closing EXCEPT !.step = "after", !.clean = @ /\ clean]
               ELSE closing

FlushStart ==
    /\ ~flush.on
    /\ mode = "running" \/ (mode = "closing" /\ closing.step = "flush")
    /\ agg' = SealedBoth
    /\ \/ SealedBoth.pending = {} /\ UNCHANGED flush /\ FlushReturns(TRUE)
       \/ \E b \in SealedBoth.pending :
              /\ IsFront(b, SealedBoth)
              /\ flush' = [on |-> TRUE, batch |-> b, started |-> now]
              /\ UNCHANGED closing
    /\ UNCHANGED <<now, epoch, mode, tables, recorded, earlier>>

\* Mutant: the bucket of a process whose clock is ahead is written at once.
FutureBucketNever(b, at) == FALSE

\* flush_batch looks at the buckets before it looks for a receipt.
Expired(b, at) == \E f \in b.facts : f.bucket < at - AcceptWindow
FutureBucket(b, at) == \E f \in b.facts : f.bucket > at
Eligible == flush.on /\ ~Expired(flush.batch, flush.started) /\ ~FutureBucket(flush.batch, flush.started)

ReceiptOf(b) == {r \in receipts : r.epoch = epoch /\ r.seq = b.seq}
InLimbo(b) == \E l \in limbo : l.epoch = epoch /\ l.seq = b.seq
Receipt(b) == [epoch |-> epoch, seq |-> b.seq, facts |-> b.facts, at |-> flush.started]

\* The rows of a batch, added to what the tables count.
Counted(r) == [i \in 1 .. MaxFacts |-> IF \E f \in r.facts : f.id = i THEN applied[i] + 1 ELSE applied[i]]

Popped == [agg EXCEPT !.pending = @ \ {flush.batch}]

Discarded == [Popped EXCEPT !.lost = @ + Cardinality(flush.batch.facts)]

Released(clean) ==
    /\ flush.on
    /\ flush' = Unlocked
    /\ FlushReturns(clean)
    /\ UNCHANGED <<now, epoch, mode, recorded, earlier>>

FlushExpired ==
    /\ Released(TRUE)
    /\ Expired(flush.batch, flush.started)
    /\ agg' = Discarded
    /\ UNCHANGED tables

\* The insertion of the receipt and of the rows succeeded before the timeout:
\* no receipt of the batch is committed, nor inserted by a transaction in limbo.
Inserted ==
    /\ Eligible
    /\ now <= flush.started + FlushTimeout
    /\ ReceiptOf(flush.batch) = {} /\ ~InLimbo(flush.batch)

FlushCommit ==
    /\ Released(TRUE)
    /\ Inserted
    /\ receipts' = receipts \cup {Receipt(flush.batch)}
    /\ applied' = Counted(Receipt(flush.batch))
    /\ agg' = Popped
    /\ UNCHANGED limbo

\* The receipt says that an earlier attempt was committed.
FlushReplayed ==
    /\ Released(TRUE)
    /\ Eligible
    /\ \E r \in ReceiptOf(flush.batch) : r.facts = flush.batch.facts
    /\ agg' = Popped
    /\ UNCHANGED tables

\* COMMIT was sent and its answer did not arrive in time.
FlushUnacknowledged ==
    /\ Released(FALSE)
    /\ Inserted
    /\ limbo' = limbo \cup {Receipt(flush.batch)}
    /\ UNCHANGED <<agg, receipts, applied>>

\* An error, a timeout, an operator's connection that goes away, or a bucket
\* ahead of the database: the batch keeps its identity for the next attempt.
FlushFails ==
    /\ Released(FALSE)
    /\ UNCHANGED <<agg, tables>>

LimboCommits(l) ==
    /\ limbo' = limbo \ {l}
    /\ receipts' = receipts \cup {l}
    /\ applied' = Counted(l)
    /\ UNCHANGED <<now, memory, recorded, earlier>>

LimboAborts(l) ==
    /\ limbo' = limbo \ {l}
    /\ UNCHANGED <<now, memory, receipts, applied, recorded, earlier>>

\* prune_usage and guard_aggregate_receipt_retention
Prunable(r) == r.at < now - ReceiptWindow

PruneUsage ==
    /\ \E r \in receipts : Prunable(r)
    /\ receipts' = {r \in receipts : ~Prunable(r)}
    /\ UNCHANGED <<now, memory, limbo, applied, recorded, earlier>>

-----------------------------------------------------------------------------
(* Shutdown and restart                                                     *)

\* status(): what flush_all compares.
Status == [step |-> "flush", pending |-> Cardinality(agg.pending),
           logical |-> Cardinality(KeysOf(agg, "logical")),
           attempt |-> Cardinality(KeysOf(agg, "attempt")), clean |-> closing.clean]

\* shutdown_bounded, once requests are drained and no flush is under way.
Shutdown ==
    /\ mode = "running" /\ ~flush.on
    /\ mode' = "closing"
    /\ closing' = Status
    /\ UNCHANGED <<now, epoch, agg, flush, tables, recorded, earlier>>

\* Mutant: never without everything written.
StalledNever == FALSE

\* flush_all gives up when flush_once made no progress.
Stalled ==
    /\ Status.pending >= closing.pending
    /\ Status.logical >= closing.logical
    /\ Status.attempt >= closing.attempt

Drained == agg.active = {} /\ agg.pending = {}

FlushAllCompares ==
    /\ mode = "closing" /\ closing.step = "after"
    /\ IF Drained \/ Stalled
       THEN mode' = "ended" /\ UNCHANGED closing
       ELSE closing' = Status /\ UNCHANGED mode
    /\ UNCHANGED <<now, epoch, agg, flush, tables, recorded, earlier>>

\* join_bounded aborts the task at the end of its grace.
Abort ==
    /\ mode = "closing"
    /\ mode' = "aborted"
    /\ flush' = Unlocked
    /\ UNCHANGED <<now, epoch, agg, closing, tables, recorded, earlier>>

\* The process ends, by a crash too, and the next one starts with nothing.
Restart ==
    /\ epoch < MaxEpochs
    /\ epoch' = epoch + 1
    /\ agg' = EmptyState
    /\ flush' = Unlocked
    /\ mode' = "running"
    /\ closing' = NotClosing
    /\ earlier' = recorded
    /\ UNCHANGED <<now, tables, recorded>>

Tick == now < MaxTime /\ now' = now + 1 /\ UNCHANGED <<memory, tables, recorded, earlier>>

-----------------------------------------------------------------------------
FlushSettles == FlushExpired \/ FlushCommit \/ FlushReplayed
FlushEnds == FlushSettles \/ FlushUnacknowledged \/ FlushFails
Limbo == \E l \in limbo : LimboCommits(l) \/ LimboAborts(l)

Next ==
    \/ \E family \in Families, d \in Dimensions, bucket \in now - Skew .. now + Skew :
           bucket <= MaxTime /\ Record(family, d, bucket)
    \/ FlushStart \/ FlushExpired \/ FlushCommit \/ FlushReplayed \/ FlushUnacknowledged \/ FlushFails
    \/ \E l \in limbo : LimboCommits(l) \/ LimboAborts(l)
    \/ PruneUsage \/ Shutdown \/ FlushAllCompares \/ Abort \/ Restart \/ Tick

Spec == Init /\ [][Next]_vars

\* The task flushes at every interval and ends what it started, by its timeout
\* if not otherwise: nothing is assumed of PostgreSQL.
TaskFairness == WF_vars(FlushStart) /\ WF_vars(FlushEnds) /\ WF_vars(FlushAllCompares)

\* Besides, PostgreSQL is reachable again and again, and time goes on.
StoreFairness == SF_vars(FlushSettles) /\ WF_vars(Limbo) /\ WF_vars(Tick)

TaskSpec == Spec /\ TaskFairness

-----------------------------------------------------------------------------
(* Properties                                                               *)

Fact == [id : 1 .. MaxFacts, family : Families, dimension : Dimensions, bucket : Int]
Batch == [seq : Nat, facts : SUBSET Fact]
Written == [epoch : Nat, seq : Nat, facts : SUBSET Fact, at : Nat]

InMemory == {f.id : f \in agg.active \cup UNION {b.facts : b \in agg.pending}}

\* "retaining receipts eight days past commit fences delayed replay even after a
\* receipt is pruned": whatever commits late or without an answer, is retried,
\* pruned or left by an earlier process, no fact is counted twice.
AppliedOnce == \A i \in 1 .. MaxFacts : applied[i] <= 1

\* A fact of this process that is neither in memory, nor written, nor in a
\* transaction without an answer, is one of those counted as lost; and a shutdown
\* whose flushes all succeeded leaves nothing in memory, whatever the two maps and
\* the queue held when it started.
LossIsCounted ==
    LET inLimbo == {f.id : f \in UNION {l.facts : l \in limbo}}
        gone    == {i \in earlier + 1 .. recorded :
                       applied[i] = 0 /\ i \notin InMemory /\ i \notin inLimbo}
    IN  /\ Cardinality(gone) <= agg.lost
        /\ mode = "ended" /\ closing.clean => Drained

\* flush_all ends, also while PostgreSQL is not reachable; with PostgreSQL
\* reachable again and again a running process gets rid of every fact in memory
\* once recording pauses: no batch blocks the ones behind it.
FactsSettle ==
    /\ mode = "closing" ~> mode # "closing"
    /\ StoreFairness => []<>(InMemory = {} \/ mode # "running")
=============================================================================
