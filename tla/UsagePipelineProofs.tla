------------------------- MODULE UsagePipelineProofs -------------------------
(***************************************************************************)
(* No usage fact is counted twice, for every number of facts, keys,        *)
(* batches and processes, and for every choice of the replay and receipt   *)
(* windows in which a batch expires a flush timeout before its receipt.    *)
(*                                                                         *)
(* The invariant says who may still write a fact.  Batches in memory and   *)
(* transactions with a COMMIT on its way are apart from each other; a      *)
(* batch whose facts were already counted has its receipt, or is so old    *)
(* that flush_batch refuses it before it looks for one.                    *)
(*                                                                         *)
(* Nor is one lost in silence: LossInv counts, against the counter of lost *)
(* facts, what is neither in memory nor in a table, and ClosingInv says    *)
(* how memory compares with the status the shutdown took.                  *)
(***************************************************************************)
EXTENDS UsagePipeline, FiniteSetTheorems, TLAPS

Apart(F, G) == \A f \in F, g \in G : f.id # g.id

IsState(s) ==
    /\ s = [active |-> s.active, pending |-> s.pending, next |-> s.next, lost |-> s.lost]
    /\ s.active \in SUBSET Fact /\ s.pending \in SUBSET Batch /\ s.next \in Nat

TablesType ==
    /\ now \in Nat /\ epoch \in Nat /\ recorded \in Nat
    /\ limbo \in SUBSET Written /\ receipts \in SUBSET Written
    /\ applied \in [1 .. MaxFacts -> Nat]

\* The facts in the maps are new: nothing else holds them, no table counts them.
ActiveNew(s, n) ==
    /\ \A f \in s.active : f.id <= n /\ applied[f.id] = 0
    /\ \A f, g \in s.active : f.id = g.id => f = g

\* Batches have facts and sequence numbers of their own.
BatchesApart(s, n) ==
    \A b \in s.pending :
        /\ b.facts # {} /\ b.seq < s.next
        /\ \A f \in b.facts : f.id <= n
        /\ Apart(b.facts, s.active)
        /\ \A c \in s.pending : b.seq = c.seq \/ ~Apart(b.facts, c.facts) => b = c

\* What was sent to PostgreSQL: each with facts of its own, shared at most with
\* the batch it was made from, and not later than it says.
SentApart(s, n) ==
    \A r \in limbo \cup receipts :
        /\ r.facts # {} /\ r.epoch <= epoch
        /\ r.epoch = epoch => r.seq < s.next
        /\ \A f \in r.facts : f.id <= n /\ f.bucket <= r.at
        /\ Apart(r.facts, s.active)
        /\ \A w \in limbo \cup receipts : r # w => Apart(r.facts, w.facts)
        /\ \A b \in s.pending :
               IF r.epoch = epoch /\ r.seq = b.seq THEN r.facts = b.facts
               ELSE Apart(r.facts, b.facts)

\* The batch is past the receipt window.
Old(b) == \E f \in b.facts : f.bucket < now - ReceiptWindow

\* A batch that was counted has a receipt or is old.
Fenced(s) ==
    \A b \in s.pending :
        (\E f \in b.facts : applied[f.id] # 0) => ReceiptOf(b) # {} \/ Old(b)

LimboUncounted == \A l \in limbo : \A f \in l.facts : applied[f.id] = 0

CountedOnce(n) ==
    \A i \in 1 .. MaxFacts : applied[i] <= 1 /\ (i > n => applied[i] = 0)

FlushingPending ==
    flush.on => flush.batch \in agg.pending /\ flush.started \in Nat /\ flush.started <= now

Memory(s, n) ==
    /\ IsState(s) /\ ActiveNew(s, n) /\ BatchesApart(s, n) /\ SentApart(s, n) /\ Fenced(s)

IInv ==
    /\ TablesType
    /\ Memory(agg, recorded)
    /\ LimboUncounted
    /\ CountedOnce(recorded)
    /\ FlushingPending

-----------------------------------------------------------------------------
(* Sealing and merging                                                      *)

\* Sealing a map moves its facts to a batch of their own.
LEMMA SealKeeps ==
    ASSUME TablesType, NEW n \in Nat, NEW s, NEW family, Memory(s, n)
    PROVE  /\ Memory(Seal(s, family), n)
           /\ Seal(s, family).active \subseteq s.active
           /\ s.pending \subseteq Seal(s, family).pending
<1> DEFINE F == Of(s, family)
           b0 == [seq |-> s.next, facts |-> F]
           t == [active |-> s.active \ F, pending |-> s.pending \cup {b0},
                 next |-> s.next + 1, lost |-> s.lost]
<1>1. CASE Seal(s, family) = s
  BY <1>1
<1>2. CASE Seal(s, family) # s
  <2>1. IsState(s) BY DEF Memory
  <2>2. Seal(s, family) = t /\ F # {}
    BY <1>2, <2>1 DEF Seal, IsState
  <2>3. F \subseteq s.active /\ F \in SUBSET Fact
    BY <2>1 DEF Of, IsState
  <2>4. b0 \in Batch
    BY <2>1, <2>3 DEF Batch, IsState
  <2>5. IsState(t)
    BY <2>1, <2>3, <2>4 DEF IsState
  <2>6. ActiveNew(t, n)
    BY DEF ActiveNew, Memory
  <2>7. BatchesApart(t, n)
    <3>1. \A b \in s.pending : Apart(b.facts, F) /\ b.seq # s.next
      BY <2>1, <2>3 DEF Memory, BatchesApart, Apart, IsState, Batch
    <3>2. Apart(F, t.active)
      BY <2>3 DEF Memory, ActiveNew, Apart
    <3>3. \A f \in F : f.id <= n
      BY <2>3 DEF Memory, ActiveNew
    <3>4. \A b \in s.pending : b.facts # {} /\ b.seq < s.next + 1 /\ Apart(b.facts, t.active)
                               /\ \A f \in b.facts : f.id <= n
      BY <2>1 DEF Memory, BatchesApart, Apart, IsState, Batch
    <3>5. \A b \in s.pending : \A c \in s.pending : b.seq = c.seq \/ ~Apart(b.facts, c.facts) => b = c
      BY DEF Memory, BatchesApart
    <3>6. \A b \in s.pending : Apart(F, b.facts)
      BY <3>1 DEF Apart
    <3>7. SUFFICES ASSUME NEW b \in t.pending
                   PROVE  /\ b.facts # {} /\ b.seq < t.next
                          /\ \A f \in b.facts : f.id <= n
                          /\ Apart(b.facts, t.active)
                          /\ \A c \in t.pending : b.seq = c.seq \/ ~Apart(b.facts, c.facts) => b = c
      BY DEF BatchesApart
    <3>8. CASE b = b0
      BY <3>8, <3>1, <3>2, <3>3, <3>6, <2>1, <2>2 DEF IsState
    <3>9. CASE b \in s.pending
      BY <3>9, <3>1, <3>4, <3>5, <3>6
    <3> QED BY <3>7, <3>8, <3>9
  <2>8. SentApart(t, n)
    <3>1. SUFFICES ASSUME NEW r \in limbo \cup receipts
                   PROVE  /\ r.facts # {} /\ r.epoch <= epoch
                          /\ r.epoch = epoch => r.seq < t.next
                          /\ \A f \in r.facts : f.id <= n /\ f.bucket <= r.at
                          /\ Apart(r.facts, t.active)
                          /\ \A w \in limbo \cup receipts : r # w => Apart(r.facts, w.facts)
                          /\ \A b \in t.pending :
                                 IF r.epoch = epoch /\ r.seq = b.seq THEN r.facts = b.facts
                                 ELSE Apart(r.facts, b.facts)
      BY DEF SentApart
    <3>2. /\ r.facts # {} /\ r.epoch <= epoch
          /\ r.epoch = epoch => r.seq < s.next
          /\ \A f \in r.facts : f.id <= n /\ f.bucket <= r.at
          /\ Apart(r.facts, s.active)
          /\ \A w \in limbo \cup receipts : r # w => Apart(r.facts, w.facts)
          /\ \A b \in s.pending :
                 IF r.epoch = epoch /\ r.seq = b.seq THEN r.facts = b.facts
                 ELSE Apart(r.facts, b.facts)
      BY DEF Memory, SentApart
    <3>3. r.seq \in Nat /\ s.next \in Nat
      BY <2>1 DEF TablesType, Written, IsState
    <3>4. Apart(r.facts, F) /\ Apart(r.facts, t.active)
      BY <3>2, <2>3 DEF Apart
    <3>5. r.epoch = epoch => r.seq # s.next
      BY <3>2, <3>3
    <3> QED BY <3>2, <3>3, <3>4, <3>5
  <2>9. Fenced(t)
    <3>1. \A f \in F : applied[f.id] = 0
      BY <2>3 DEF Memory, ActiveNew
    <3> QED BY <3>1 DEF Memory, Fenced
  <2> QED BY <2>2, <2>5, <2>6, <2>7, <2>8, <2>9 DEF Memory
<1> QED BY <1>1, <1>2

\* A new fact is merged or lost.
LEMMA MergeKeeps ==
    ASSUME TablesType, NEW n \in Nat, NEW s, NEW f \in Fact, f.id = n + 1,
           Memory(s, n), CountedOnce(n)
    PROVE  /\ Memory(Merge(s, f), n + 1)
           /\ Merge(s, f).pending = s.pending
<1>1. IsState(s) BY DEF Memory
<1>2. PICK t : t = Merge(s, f) OBVIOUS
<1>3. /\ t = [active |-> t.active, pending |-> s.pending, next |-> s.next, lost |-> t.lost]
      /\ t.active = s.active \/ t.active = s.active \cup {f}
  BY <1>1, <1>2 DEF Merge, IsState
<1>4. IsState(t)
  BY <1>1, <1>3 DEF IsState
<1>5. applied[f.id] = 0
  BY DEF CountedOnce, Fact
<1>6. \A g \in s.active : g.id \in Nat /\ g.id <= n
  BY <1>1 DEF Memory, ActiveNew, IsState, Fact
<1>7. ActiveNew(t, n + 1)
  BY <1>3, <1>5, <1>6 DEF Memory, ActiveNew
<1>8. \A b \in s.pending : \A g \in b.facts : g.id \in Nat /\ g.id <= n
  BY <1>1 DEF Memory, BatchesApart, IsState, Batch, Fact
<1>9. \A r \in limbo \cup receipts : \A g \in r.facts : g.id \in Nat /\ g.id <= n
  BY DEF Memory, SentApart, TablesType, Written, Fact
<1>10. BatchesApart(t, n + 1)
  <2>1. \A b \in s.pending : Apart(b.facts, t.active)
    BY <1>3, <1>8 DEF Memory, BatchesApart, Apart
  <2> QED BY <1>3, <1>8, <2>1 DEF Memory, BatchesApart
<1>11. SentApart(t, n + 1)
  <2>1. \A r \in limbo \cup receipts : Apart(r.facts, t.active)
    BY <1>3, <1>9 DEF Memory, SentApart, Apart
  <2> QED BY <1>3, <1>9, <2>1 DEF Memory, SentApart
<1>12. Fenced(t)
  BY <1>3 DEF Memory, Fenced
<1> QED BY <1>2, <1>3, <1>4, <1>7, <1>10, <1>11, <1>12 DEF Memory

-----------------------------------------------------------------------------
(* The steps                                                                *)

LEMMA RecordKeeps ==
    ASSUME IInv, NEW family \in Families, NEW d \in Dimensions, NEW bucket \in Int,
           Record(family, d, bucket)
    PROVE  IInv'
<1> DEFINE f == [id |-> recorded + 1, family |-> family, dimension |-> d, bucket |-> bucket]
<1> USE UsageAssumption
<1>1. recorded \in Nat /\ recorded + 1 \in 1 .. MaxFacts
  BY DEF IInv, TablesType, Record
<1>2. f \in Fact
  BY <1>1 DEF Fact
<1>3. Memory(agg, recorded) /\ CountedOnce(recorded) /\ TablesType
  BY DEF IInv
<1>4. Memory(Seal(agg, family), recorded) /\ agg.pending \subseteq Seal(agg, family).pending
  BY <1>1, <1>3, SealKeeps
<1>5. /\ Memory(Merge(agg, f), recorded + 1) /\ Merge(agg, f).pending = agg.pending
      /\ Memory(Merge(Seal(agg, family), f), recorded + 1)
      /\ Merge(Seal(agg, family), f).pending = Seal(agg, family).pending
  <2>1. f.id = recorded + 1 OBVIOUS
  <2> HIDE DEF f
  <2> QED BY <1>1, <1>2, <1>3, <1>4, <2>1, MergeKeeps
<1>6. Memory([agg EXCEPT !.lost = @ + 1], recorded + 1)
  <2>1. IsState([agg EXCEPT !.lost = @ + 1]) BY <1>3 DEF Memory, IsState
  <2>2. /\ [agg EXCEPT !.lost = @ + 1].active = agg.active
        /\ [agg EXCEPT !.lost = @ + 1].pending = agg.pending
        /\ [agg EXCEPT !.lost = @ + 1].next = agg.next
    BY <1>3 DEF Memory, IsState
  <2>3. /\ \A g \in agg.active : g.id \in Nat
        /\ \A b \in agg.pending : \A g \in b.facts : g.id \in Nat
        /\ \A r \in limbo \cup receipts : \A g \in r.facts : g.id \in Nat
    <3>1. \A g \in Fact : g.id \in Nat
      BY DEF Fact
    <3>2. agg.active \subseteq Fact /\ \A b \in agg.pending : b.facts \subseteq Fact
      BY <1>3 DEF Memory, IsState, Batch
    <3>3. \A r \in limbo \cup receipts : r.facts \subseteq Fact
      BY <1>3 DEF TablesType, Written
    <3> QED BY <3>1, <3>2, <3>3
  <2>4. ActiveNew([agg EXCEPT !.lost = @ + 1], recorded + 1)
    BY <1>1, <1>3, <2>2, <2>3 DEF Memory, ActiveNew
  <2>5. BatchesApart([agg EXCEPT !.lost = @ + 1], recorded + 1)
    BY <1>1, <1>3, <2>2, <2>3 DEF Memory, BatchesApart
  <2>6. SentApart([agg EXCEPT !.lost = @ + 1], recorded + 1)
    BY <1>1, <1>3, <2>2, <2>3 DEF Memory, SentApart
  <2>7. Fenced([agg EXCEPT !.lost = @ + 1])
    BY <1>3, <2>2 DEF Memory, Fenced
  <2> QED BY <2>1, <2>4, <2>5, <2>6, <2>7 DEF Memory
<1>7. Memory(Added(agg, f), recorded + 1) /\ agg.pending \subseteq Added(agg, f).pending
  <2>1. f.family = family OBVIOUS
  <2>2. [agg EXCEPT !.lost = @ + 1].pending = agg.pending BY <1>3 DEF Memory, IsState
  <2> HIDE DEF f
  <2> QED BY <1>4, <1>5, <1>6, <2>1, <2>2 DEF Added
<1>8. /\ agg' = Added(agg, f) /\ recorded' = recorded + 1
      /\ UNCHANGED <<now, epoch, flush, limbo, receipts, applied>>
  BY DEF Record, tables
<1> HIDE DEF f
<1>9. Memory(agg, recorded)'
  BY <1>7, <1>8 DEF Memory, IsState, ActiveNew, BatchesApart, SentApart, Fenced, ReceiptOf, Old
<1>10. CountedOnce(recorded)'
  BY <1>1, <1>3, <1>8 DEF CountedOnce
<1> QED
  BY <1>1, <1>7, <1>8, <1>9, <1>10 DEF IInv, TablesType, LimboUncounted, FlushingPending

LEMMA FlushStartKeeps ==
    ASSUME IInv, FlushStart
    PROVE  IInv'
<1>1. TablesType /\ recorded \in Nat /\ Memory(agg, recorded)
  BY DEF IInv, TablesType
<1>2. Memory(Seal(agg, "logical"), recorded)
  BY <1>1, SealKeeps
<1>3. Memory(SealedBoth, recorded)
  BY <1>1, <1>2, SealKeeps DEF SealedBoth
<1>4. agg' = SealedBoth /\ UNCHANGED <<now, epoch, limbo, receipts, applied, recorded>>
  BY DEF FlushStart, tables
<1>5. Memory(agg, recorded)'
  BY <1>3, <1>4 DEF Memory, IsState, ActiveNew, BatchesApart, SentApart, Fenced, ReceiptOf, Old
<1>6. FlushingPending'
  <2>1. CASE UNCHANGED flush
    <3>1. ~flush'.on BY <2>1 DEF FlushStart
    <3> QED BY <3>1 DEF FlushingPending
  <2>2. CASE \E b \in SealedBoth.pending : flush' = [on |-> TRUE, batch |-> b, started |-> now]
    BY <1>1, <1>4, <2>2 DEF FlushingPending, TablesType
  <2> QED BY <2>1, <2>2 DEF FlushStart
<1> QED BY <1>4, <1>5, <1>6 DEF IInv, TablesType, LimboUncounted, CountedOnce

\* What ends a flush and writes nothing: memory loses at most the batch.
LEMMA FlushDropsKeeps ==
    ASSUME IInv, NEW clean, Released(clean), UNCHANGED tables,
           agg' \in {agg, Popped, Discarded}
    PROVE  IInv'
<1>1. /\ UNCHANGED <<now, epoch, recorded, limbo, receipts, applied>>
      /\ ~flush'.on
  BY DEF Released, Unlocked, tables
<1>2. IsState(agg) BY DEF IInv, Memory
<1>3. /\ agg'.active = agg.active /\ agg'.next = agg.next
      /\ agg'.pending \subseteq agg.pending
      /\ agg' = [active |-> agg'.active, pending |-> agg'.pending,
                 next |-> agg'.next, lost |-> agg'.lost]
  BY <1>2 DEF IsState, Popped, Discarded
<1>4. IsState(agg)' /\ ActiveNew(agg, recorded)'
  BY <1>1, <1>2, <1>3 DEF IInv, Memory, IsState, ActiveNew
<1>5. BatchesApart(agg, recorded)'
  BY <1>1, <1>3 DEF IInv, Memory, BatchesApart
<1>6. SentApart(agg, recorded)'
  BY <1>1, <1>3 DEF IInv, Memory, SentApart
<1>7. Fenced(agg)'
  BY <1>1, <1>3 DEF IInv, Memory, Fenced, ReceiptOf, Old
<1> QED
  BY <1>1, <1>4, <1>5, <1>6, <1>7
  DEF IInv, Memory, TablesType, LimboUncounted, CountedOnce, FlushingPending

\* The batch that flush_once is about to write has not been counted.
LEMMA InsertedIsNew ==
    ASSUME IInv, Inserted
    PROVE  /\ flush.batch \in agg.pending /\ flush.batch \in Batch
           /\ Receipt(flush.batch) \in Written
           /\ \A f \in flush.batch.facts :
                  applied[f.id] = 0 /\ f.id \in 1 .. MaxFacts /\ f.bucket <= flush.started
           /\ \A r \in limbo \cup receipts :
                  Apart(r.facts, flush.batch.facts) /\ ~(r.epoch = epoch /\ r.seq = flush.batch.seq)
<1> USE UsageAssumption
<1>1. flush.batch \in agg.pending /\ flush.started \in Nat
  BY DEF Inserted, Eligible, IInv, FlushingPending
<1>2. flush.batch \in Batch
  BY <1>1 DEF IInv, Memory, IsState
<1>3. Receipt(flush.batch) \in Written
  BY <1>1, <1>2 DEF Receipt, Written, Batch, IInv, TablesType
<1>4. \A f \in flush.batch.facts : f.id \in 1 .. MaxFacts /\ f.bucket \in Int
  BY <1>2 DEF Batch, Fact
<1>5. \A f \in flush.batch.facts : f.bucket <= flush.started /\ f.bucket >= flush.started - AcceptWindow
  BY <1>1, <1>4 DEF Inserted, Eligible, Expired, FutureBucket
<1>6. ~Old(flush.batch)
  BY <1>1, <1>4, <1>5 DEF Old, Inserted, IInv, TablesType
<1>7. ReceiptOf(flush.batch) = {}
  BY DEF Inserted
<1>8. \A f \in flush.batch.facts : applied[f.id] = 0
  BY <1>1, <1>6, <1>7 DEF IInv, Memory, Fenced
<1>9. \A r \in limbo \cup receipts : ~(r.epoch = epoch /\ r.seq = flush.batch.seq)
  BY <1>7 DEF ReceiptOf, InLimbo, Inserted
<1>10. \A r \in limbo \cup receipts : Apart(r.facts, flush.batch.facts)
  BY <1>1, <1>9 DEF IInv, Memory, SentApart
<1> QED BY <1>1, <1>2, <1>3, <1>4, <1>5, <1>8, <1>9, <1>10

LEMMA FlushCommitKeeps ==
    ASSUME IInv, FlushCommit
    PROVE  IInv'
<1> DEFINE b0 == flush.batch
           r0 == Receipt(b0)
<1>1. /\ b0 \in agg.pending /\ b0 \in Batch /\ r0 \in Written
      /\ \A f \in b0.facts : applied[f.id] = 0 /\ f.id \in 1 .. MaxFacts /\ f.bucket <= flush.started
      /\ \A r \in limbo \cup receipts :
             Apart(r.facts, b0.facts) /\ ~(r.epoch = epoch /\ r.seq = b0.seq)
  BY InsertedIsNew DEF FlushCommit
<1>2. r0 = [epoch |-> epoch, seq |-> b0.seq, facts |-> b0.facts, at |-> flush.started]
  BY DEF Receipt
<1>3. /\ receipts' = receipts \cup {r0} /\ applied' = Counted(r0) /\ agg' = Popped
      /\ UNCHANGED <<now, epoch, recorded, limbo>> /\ ~flush'.on
  BY DEF FlushCommit, Released, Unlocked
<1> HIDE DEF b0, r0
<1>4. IsState(agg) /\ TablesType BY DEF IInv, Memory
<1>5. /\ agg'.active = agg.active /\ agg'.next = agg.next
      /\ agg'.pending = agg.pending \ {b0}
      /\ agg' = [active |-> agg'.active, pending |-> agg'.pending,
                 next |-> agg'.next, lost |-> agg'.lost]
  BY <1>3, <1>4 DEF IsState, Popped, b0
<1>6. \A i \in 1 .. MaxFacts : applied'[i] = IF \E f \in b0.facts : f.id = i THEN applied[i] + 1 ELSE applied[i]
  BY <1>2, <1>3 DEF Counted
<1>7. TablesType'
  BY <1>1, <1>3, <1>4, <1>2 DEF TablesType, Counted
<1>8. /\ Apart(b0.facts, agg.active)
      /\ \A f \in b0.facts : f.id <= recorded
      /\ b0.facts # {} /\ b0.seq < agg.next
      /\ \A c \in agg'.pending : Apart(b0.facts, c.facts) /\ b0.seq # c.seq
  BY <1>1, <1>5 DEF IInv, Memory, BatchesApart
<1>9. ActiveNew(agg, recorded)' /\ IsState(agg)'
  <2>1. \A f \in agg.active : f.id \in 1 .. MaxFacts /\ applied'[f.id] = applied[f.id]
    BY <1>4, <1>6, <1>8 DEF IsState, Fact, Apart
  <2> QED BY <1>3, <1>4, <1>5, <2>1 DEF IInv, Memory, ActiveNew, IsState
<1>10. BatchesApart(agg, recorded)'
  BY <1>3, <1>5 DEF IInv, Memory, BatchesApart
<1>11. SentApart(agg, recorded)'
  <2>1. SUFFICES ASSUME NEW r \in limbo \cup receipts \cup {r0}
                 PROVE  /\ r.facts # {} /\ r.epoch <= epoch
                        /\ r.epoch = epoch => r.seq < agg.next
                        /\ \A f \in r.facts : f.id <= recorded /\ f.bucket <= r.at
                        /\ Apart(r.facts, agg.active)
                        /\ \A w \in limbo \cup receipts \cup {r0} : r # w => Apart(r.facts, w.facts)
                        /\ \A b \in agg'.pending :
                               IF r.epoch = epoch /\ r.seq = b.seq THEN r.facts = b.facts
                               ELSE Apart(r.facts, b.facts)
    BY <1>3, <1>5 DEF SentApart
  <2>2. \A w \in limbo \cup receipts : Apart(r0.facts, w.facts) /\ Apart(w.facts, r0.facts)
    BY <1>1, <1>2 DEF Apart
  <2>3. CASE r = r0
    BY <2>3, <2>2, <1>1, <1>2, <1>8, <1>4 DEF TablesType
  <2>4. CASE r \in limbo \cup receipts
    BY <2>4, <2>2, <1>5 DEF IInv, Memory, SentApart
  <2> QED BY <2>1, <2>3, <2>4
<1>12. Fenced(agg)'
  <2>1. \A c \in agg'.pending : \A f \in c.facts : f.id \in 1 .. MaxFacts /\ applied'[f.id] = applied[f.id]
    BY <1>4, <1>5, <1>6, <1>8 DEF IsState, Batch, Fact, Apart
  <2>2. \A c \in agg'.pending : ReceiptOf(c) # {} => ReceiptOf(c)' # {}
    BY <1>3 DEF ReceiptOf
  <2> QED BY <2>1, <2>2, <1>3, <1>5 DEF IInv, Memory, Fenced, Old
<1>13. LimboUncounted'
  BY <1>1, <1>3, <1>4, <1>6 DEF IInv, LimboUncounted, Apart, TablesType, Written, Fact
<1>14. CountedOnce(recorded)'
  BY <1>1, <1>3, <1>4, <1>6, <1>8 DEF IInv, CountedOnce, TablesType
<1> QED
  BY <1>3, <1>7, <1>9, <1>10, <1>11, <1>12, <1>13, <1>14 DEF IInv, Memory, FlushingPending

LEMMA FlushUnacknowledgedKeeps ==
    ASSUME IInv, FlushUnacknowledged
    PROVE  IInv'
<1> DEFINE b0 == flush.batch
           r0 == Receipt(b0)
<1>1. /\ b0 \in agg.pending /\ b0 \in Batch /\ r0 \in Written
      /\ \A f \in b0.facts : applied[f.id] = 0 /\ f.id \in 1 .. MaxFacts /\ f.bucket <= flush.started
      /\ \A r \in limbo \cup receipts :
             Apart(r.facts, b0.facts) /\ ~(r.epoch = epoch /\ r.seq = b0.seq)
  BY InsertedIsNew DEF FlushUnacknowledged
<1>2. r0 = [epoch |-> epoch, seq |-> b0.seq, facts |-> b0.facts, at |-> flush.started]
  BY DEF Receipt
<1>3. limbo' = limbo \cup {r0} /\ UNCHANGED <<now, epoch, recorded, receipts, applied, agg>> /\ ~flush'.on
  BY DEF FlushUnacknowledged, Released, Unlocked
<1> HIDE DEF b0, r0
<1>4. IsState(agg) /\ TablesType BY DEF IInv, Memory
<1>5. /\ Apart(b0.facts, agg.active)
      /\ \A f \in b0.facts : f.id <= recorded
      /\ b0.facts # {} /\ b0.seq < agg.next
      /\ \A c \in agg.pending : c # b0 => Apart(b0.facts, c.facts) /\ b0.seq # c.seq
  BY <1>1 DEF IInv, Memory, BatchesApart
<1>6. SentApart(agg, recorded)'
  <2>1. SUFFICES ASSUME NEW r \in limbo \cup receipts \cup {r0}
                 PROVE  /\ r.facts # {} /\ r.epoch <= epoch
                        /\ r.epoch = epoch => r.seq < agg.next
                        /\ \A f \in r.facts : f.id <= recorded /\ f.bucket <= r.at
                        /\ Apart(r.facts, agg.active)
                        /\ \A w \in limbo \cup receipts \cup {r0} : r # w => Apart(r.facts, w.facts)
                        /\ \A b \in agg.pending :
                               IF r.epoch = epoch /\ r.seq = b.seq THEN r.facts = b.facts
                               ELSE Apart(r.facts, b.facts)
    BY <1>3 DEF SentApart
  <2>2. \A w \in limbo \cup receipts : Apart(r0.facts, w.facts) /\ Apart(w.facts, r0.facts)
    BY <1>1, <1>2 DEF Apart
  <2>3. CASE r = r0
    BY <2>3, <2>2, <1>1, <1>2, <1>5, <1>4 DEF TablesType
  <2>4. CASE r \in limbo \cup receipts
    BY <2>4, <2>2 DEF IInv, Memory, SentApart
  <2> QED BY <2>1, <2>3, <2>4
<1>7. /\ IsState(agg)' /\ ActiveNew(agg, recorded)' /\ BatchesApart(agg, recorded)' /\ Fenced(agg)'
  BY <1>3 DEF IInv, Memory, IsState, ActiveNew, BatchesApart, Fenced, ReceiptOf, Old
<1>8. TablesType' /\ LimboUncounted' /\ CountedOnce(recorded)'
  BY <1>1, <1>2, <1>3 DEF IInv, TablesType, LimboUncounted, CountedOnce
<1> QED BY <1>3, <1>6, <1>7, <1>8 DEF IInv, Memory, FlushingPending

LEMMA LimboCommitsKeeps ==
    ASSUME IInv, NEW l \in limbo, LimboCommits(l)
    PROVE  IInv'
<1>1. /\ limbo' = limbo \ {l} /\ receipts' = receipts \cup {l} /\ applied' = Counted(l)
      /\ UNCHANGED <<now, epoch, agg, flush, recorded>>
  BY DEF LimboCommits, memory
<1>2. IsState(agg) /\ TablesType BY DEF IInv, Memory
<1>3. l \in Written /\ l.facts \subseteq Fact
  BY <1>2 DEF TablesType, Written
<1>4. \A f \in l.facts : f.id \in 1 .. MaxFacts /\ applied[f.id] = 0 /\ f.id <= recorded
  BY <1>3 DEF IInv, LimboUncounted, Memory, SentApart, Fact
<1>5. \A i \in 1 .. MaxFacts : applied'[i] = IF \E f \in l.facts : f.id = i THEN applied[i] + 1 ELSE applied[i]
  BY <1>1 DEF Counted
<1>6. TablesType'
  BY <1>1, <1>2 DEF TablesType, Counted
<1>7. limbo' \cup receipts' = limbo \cup receipts
  BY <1>1
<1>8. Apart(l.facts, agg.active)
  BY DEF IInv, Memory, SentApart
<1>9. ActiveNew(agg, recorded)'
  <2>1. \A f \in agg.active : f.id \in 1 .. MaxFacts /\ applied'[f.id] = applied[f.id]
    BY <1>2, <1>5, <1>8 DEF IsState, Fact, Apart
  <2> QED BY <1>1, <2>1 DEF IInv, Memory, ActiveNew
<1>10. IsState(agg)' /\ BatchesApart(agg, recorded)' /\ SentApart(agg, recorded)'
  BY <1>1, <1>7 DEF IInv, Memory, IsState, BatchesApart, SentApart
<1>11. Fenced(agg)'
  <2>1. SUFFICES ASSUME NEW b \in agg.pending, \E f \in b.facts : applied'[f.id] # 0
                 PROVE  ReceiptOf(b)' # {} \/ Old(b)'
    BY <1>1 DEF Fenced
  <2>2. CASE l.epoch = epoch /\ l.seq = b.seq
    BY <1>1, <2>2 DEF ReceiptOf
  <2>3. CASE ~(l.epoch = epoch /\ l.seq = b.seq)
    <3>1. Apart(l.facts, b.facts)
      BY <2>3 DEF IInv, Memory, SentApart
    <3>2. \A f \in b.facts : f.id \in 1 .. MaxFacts
      BY <1>2 DEF IsState, Batch, Fact
    <3>3. \A f \in b.facts : applied'[f.id] = applied[f.id]
      BY <3>1, <3>2, <1>5 DEF Apart
    <3>4. ReceiptOf(b) # {} \/ Old(b)
      BY <2>1, <3>3 DEF IInv, Memory, Fenced
    <3> QED BY <1>1, <3>4 DEF ReceiptOf, Old
  <2> QED BY <2>2, <2>3
<1>12. LimboUncounted'
  <2>1. SUFFICES ASSUME NEW k \in limbo, k # l, NEW f \in k.facts
                 PROVE  applied'[f.id] = 0
    BY <1>1 DEF LimboUncounted
  <2>2. Apart(l.facts, k.facts)
    BY <2>1 DEF IInv, Memory, SentApart
  <2>3. f.id \in 1 .. MaxFacts
    BY <1>2 DEF TablesType, Written, Fact
  <2> QED BY <1>5, <2>2, <2>3 DEF IInv, LimboUncounted, Apart
<1>13. CountedOnce(recorded)'
  BY <1>1, <1>2, <1>4, <1>5 DEF IInv, CountedOnce, TablesType
<1>14. FlushingPending'
  BY <1>1 DEF IInv, FlushingPending
<1> QED BY <1>6, <1>9, <1>10, <1>11, <1>12, <1>13, <1>14 DEF IInv, Memory

LEMMA LimboAbortsKeeps ==
    ASSUME IInv, NEW l \in limbo, LimboAborts(l)
    PROVE  IInv'
<1>1. limbo' = limbo \ {l} /\ UNCHANGED <<now, epoch, agg, flush, recorded, receipts, applied>>
  BY DEF LimboAborts, memory
<1>2. Memory(agg, recorded)'
  BY <1>1 DEF IInv, Memory, IsState, ActiveNew, BatchesApart, SentApart, Fenced, ReceiptOf, Old
<1> QED
  BY <1>1, <1>2 DEF IInv, TablesType, LimboUncounted, CountedOnce, FlushingPending

\* A receipt that is pruned leaves its batch too old to be written.
LEMMA PruneKeeps ==
    ASSUME IInv, PruneUsage
    PROVE  IInv'
<1> USE UsageAssumption
<1>1. /\ receipts' = {r \in receipts : ~Prunable(r)}
      /\ UNCHANGED <<now, epoch, agg, flush, recorded, limbo, applied>>
  BY DEF PruneUsage, memory
<1>2. TablesType /\ IsState(agg) BY DEF IInv, Memory
<1>3. Fenced(agg)'
  <2>1. SUFFICES ASSUME NEW b \in agg.pending, \E f \in b.facts : applied[f.id] # 0,
                        ReceiptOf(b)' = {}
                 PROVE  Old(b)
    BY <1>1 DEF Fenced, Old
  <2>2. ReceiptOf(b) # {} \/ Old(b)
    BY <2>1 DEF IInv, Memory, Fenced
  <2>3. CASE ReceiptOf(b) # {}
    <3>1. PICK r \in receipts : r.epoch = epoch /\ r.seq = b.seq
      BY <2>3 DEF ReceiptOf
    <3>2. Prunable(r)
      BY <1>1, <2>1, <3>1 DEF ReceiptOf
    <3>3. r.facts = b.facts /\ r.facts # {} /\ \A f \in r.facts : f.bucket <= r.at
      BY <3>1 DEF IInv, Memory, SentApart
    <3>4. r.at \in Nat /\ r.facts \subseteq Fact
      BY <1>2 DEF TablesType, Written
    <3>5. PICK f \in b.facts : f.bucket <= r.at /\ f.bucket \in Int
      BY <3>3, <3>4 DEF Fact
    <3>6. f.bucket < now - ReceiptWindow
      BY <1>2, <3>2, <3>4, <3>5 DEF Prunable, TablesType
    <3> QED BY <3>6 DEF Old
  <2> QED BY <2>2, <2>3
<1>4. IsState(agg)' /\ ActiveNew(agg, recorded)' /\ BatchesApart(agg, recorded)' /\ SentApart(agg, recorded)'
  BY <1>1 DEF IInv, Memory, IsState, ActiveNew, BatchesApart, SentApart
<1> QED
  BY <1>1, <1>3, <1>4 DEF IInv, Memory, TablesType, LimboUncounted, CountedOnce, FlushingPending

LEMMA RestartKeeps ==
    ASSUME IInv, Restart
    PROVE  IInv'
<1>1. /\ epoch' = epoch + 1 /\ agg' = EmptyState /\ flush' = Unlocked
      /\ UNCHANGED <<now, recorded, limbo, receipts, applied>>
  BY DEF Restart, tables
<1>2. TablesType BY DEF IInv
<1>3. agg'.active = {} /\ agg'.pending = {} /\ agg'.next = 0 /\ IsState(agg')
  BY <1>1 DEF EmptyState, IsState
<1>4. \A r \in limbo \cup receipts : r.epoch \in Nat /\ r.epoch <= epoch
  BY <1>2 DEF TablesType, Written, IInv, Memory, SentApart
<1>5. SentApart(agg, recorded)'
  BY <1>1, <1>2, <1>3, <1>4 DEF IInv, Memory, SentApart, Apart, TablesType
<1>6. IsState(agg)' /\ ActiveNew(agg, recorded)' /\ BatchesApart(agg, recorded)' /\ Fenced(agg)'
  BY <1>3 DEF IsState, ActiveNew, BatchesApart, Fenced
<1> QED
  BY <1>1, <1>2, <1>5, <1>6
  DEF IInv, Memory, TablesType, LimboUncounted, CountedOnce, FlushingPending, Unlocked

LEMMA TickKeeps ==
    ASSUME IInv, Tick
    PROVE  IInv'
<1> USE UsageAssumption
<1>1. now' = now + 1 /\ UNCHANGED <<epoch, agg, flush, recorded, limbo, receipts, applied>>
  BY DEF Tick, memory, tables
<1>2. TablesType /\ IsState(agg) BY DEF IInv, Memory
<1>3. Fenced(agg)'
  <2>1. \A b \in agg.pending : \A f \in b.facts : f.bucket \in Int
    BY <1>2 DEF IsState, Batch, Fact
  <2>2. \A b \in agg.pending : Old(b) => Old(b)'
    BY <1>1, <1>2, <2>1 DEF Old, TablesType
  <2>3. \A b \in agg.pending : ReceiptOf(b)' = ReceiptOf(b)
    BY <1>1 DEF ReceiptOf
  <2> QED BY <1>1, <2>2, <2>3 DEF IInv, Memory, Fenced
<1>4. IsState(agg)' /\ ActiveNew(agg, recorded)' /\ BatchesApart(agg, recorded)' /\ SentApart(agg, recorded)'
  BY <1>1 DEF IInv, Memory, IsState, ActiveNew, BatchesApart, SentApart
<1>5. FlushingPending'
  BY <1>1, <1>2 DEF IInv, FlushingPending, TablesType
<1> QED
  BY <1>1, <1>2, <1>3, <1>4, <1>5 DEF IInv, Memory, TablesType, LimboUncounted, CountedOnce

\* Steps of the shutdown, which change neither memory nor tables.
LEMMA OthersKeep ==
    ASSUME IInv, UNCHANGED <<now, epoch, agg, tables, recorded>>,
           UNCHANGED flush \/ flush' = Unlocked
    PROVE  IInv'
<1>1. Memory(agg, recorded)'
  BY DEF IInv, Memory, IsState, ActiveNew, BatchesApart, SentApart, Fenced, ReceiptOf, Old, tables
<1> QED
  BY <1>1 DEF IInv, TablesType, LimboUncounted, CountedOnce, FlushingPending, Unlocked, tables

-----------------------------------------------------------------------------
(* The theorems                                                             *)

\* In every reachable state of the pipeline, a batch in memory that was already
\* counted has its receipt or is too old to be written again.
THEOREM PipelineInvariant == Spec => []IInv
<1>1. Init => IInv
  <2> SUFFICES ASSUME Init PROVE IInv
    OBVIOUS
  <2> USE UsageAssumption
  <2>1. agg.active = {} /\ agg.pending = {} /\ agg.next = 0 /\ IsState(agg)
    BY DEF Init, EmptyState, IsState
  <2>2. TablesType
    BY DEF Init, TablesType
  <2>3. Memory(agg, recorded)
    BY <2>1 DEF Init, Memory, ActiveNew, BatchesApart, SentApart, Fenced
  <2>4. LimboUncounted /\ CountedOnce(recorded)
    BY DEF Init, LimboUncounted, CountedOnce
  <2>5. FlushingPending
    BY DEF Init, FlushingPending, Unlocked
  <2> QED BY <2>2, <2>3, <2>4, <2>5 DEF IInv
<1>2. IInv /\ [Next]_vars => IInv'
  <2> SUFFICES ASSUME IInv, [Next]_vars PROVE IInv'
    OBVIOUS
  <2>1. CASE \E family \in Families, d \in Dimensions, bucket \in now - Skew .. now + Skew :
                 bucket <= MaxTime /\ Record(family, d, bucket)
    <3>1. PICK family \in Families, d \in Dimensions, bucket \in now - Skew .. now + Skew :
              Record(family, d, bucket)
      BY <2>1
    <3>2. bucket \in Int
      BY UsageAssumption DEF IInv, TablesType
    <3> QED BY <3>1, <3>2, RecordKeeps
  <2>2. CASE FlushStart
    BY <2>2, FlushStartKeeps
  <2>3. CASE FlushExpired
    BY <2>3, FlushDropsKeeps DEF FlushExpired
  <2>4. CASE FlushCommit
    BY <2>4, FlushCommitKeeps
  <2>5. CASE FlushReplayed
    BY <2>5, FlushDropsKeeps DEF FlushReplayed
  <2>6. CASE FlushUnacknowledged
    BY <2>6, FlushUnacknowledgedKeeps
  <2>7. CASE FlushFails
    <3>1. agg' = agg /\ UNCHANGED tables /\ Released(FALSE)
      BY <2>7 DEF FlushFails, tables
    <3> QED BY <3>1, FlushDropsKeeps
  <2>8. CASE \E l \in limbo : LimboCommits(l) \/ LimboAborts(l)
    BY <2>8, LimboCommitsKeeps, LimboAbortsKeeps
  <2>9. CASE PruneUsage
    BY <2>9, PruneKeeps
  <2>10. CASE Shutdown \/ FlushAllCompares \/ Abort
    BY <2>10, OthersKeep DEF Shutdown, FlushAllCompares, Abort, tables
  <2>11. CASE Restart
    BY <2>11, RestartKeeps
  <2>12. CASE Tick
    BY <2>12, TickKeeps
  <2>13. CASE UNCHANGED vars
    BY <2>13, OthersKeep DEF vars, memory, tables
  <2> QED
    BY <2>1, <2>2, <2>3, <2>4, <2>5, <2>6, <2>7, <2>8, <2>9, <2>10, <2>11, <2>12, <2>13 DEF Next
<1> QED BY <1>1, <1>2, PTL DEF Spec

\* No usage fact is counted twice, whatever is retried, committed late, pruned
\* or left behind by an earlier process.
THEOREM CountedAtMostOnce == Spec => []AppliedOnce
<1>1. IInv => AppliedOnce
  BY DEF IInv, CountedOnce, AppliedOnce
<1> QED BY <1>1, PipelineInvariant, PTL

-----------------------------------------------------------------------------
(* What is lost, and what a shutdown leaves                                 *)

All(s) == s.active \cup UNION {b.facts : b \in s.pending}
Ids(F) == {f.id : f \in F}

Finite(s) ==
    /\ IsFiniteSet(s.active) /\ IsFiniteSet(s.pending)
    /\ \A b \in s.pending : IsFiniteSet(b.facts)

\* Recorded by this process, in no table and no longer in memory.
Absent == {i \in earlier + 1 .. recorded : applied[i] = 0 /\ i \notin InMemory}

ReceiptsCounted == \A r \in receipts : \A f \in r.facts : applied[f.id] # 0

\* Also what a transaction without an answer may still write is counted as lost
\* when its batch leaves memory, so that its abort loses nothing more.
LossInv ==
    /\ earlier \in Nat /\ recorded <= MaxFacts /\ agg.lost \in Nat
    /\ Finite(agg)
    /\ ReceiptsCounted
    /\ Cardinality(Absent) <= agg.lost

LEMMA InMemoryIds == InMemory = Ids(All(agg))
BY DEF InMemory, Ids, All

LEMMA AbsentFinite ==
    ASSUME IInv, LossInv
    PROVE  IsFiniteSet(Absent) /\ Cardinality(Absent) \in Nat
<1>1. earlier + 1 \in Int /\ recorded \in Int
  BY DEF IInv, TablesType, LossInv
<1>2. IsFiniteSet(earlier + 1 .. recorded)
  BY <1>1, FS_Interval
<1>3. Absent \in SUBSET (earlier + 1 .. recorded)
  BY DEF Absent
<1> QED BY <1>2, <1>3, FS_Subset, FS_CardinalityType

\* Losing facts and counting at least as many.
LEMMA AbsentGrows ==
    ASSUME IInv, LossInv, NEW S, IsFiniteSet(S), NEW m \in Nat, Cardinality(S) <= m,
           Absent' \subseteq Absent \cup S, agg'.lost = agg.lost + m
    PROVE  agg'.lost \in Nat /\ Cardinality(Absent)' <= agg'.lost
<1>1. IsFiniteSet(Absent) /\ Cardinality(Absent) \in Nat /\ Cardinality(Absent) <= agg.lost
      /\ agg.lost \in Nat
  BY AbsentFinite DEF LossInv
<1>2. /\ IsFiniteSet(Absent \cup S)
      /\ Cardinality(Absent \cup S) = Cardinality(Absent) + Cardinality(S) - Cardinality(Absent \cap S)
  BY <1>1, FS_Union
<1>3. IsFiniteSet(Absent \cap S)
  BY <1>1, FS_Intersection
<1>4. Cardinality(Absent \cap S) \in Nat /\ Cardinality(S) \in Nat /\ Cardinality(Absent \cup S) \in Nat
  BY <1>2, <1>3, FS_CardinalityType
<1>5. IsFiniteSet(Absent') /\ Cardinality(Absent') <= Cardinality(Absent \cup S)
  BY <1>2, FS_Subset
<1>6. Cardinality(Absent') \in Nat
  BY <1>5, FS_CardinalityType
<1>7. Cardinality(Absent') <= agg.lost + m
  BY <1>1, <1>2, <1>4, <1>5, <1>6
<1> QED BY <1>1, <1>7

LEMMA AbsentKept ==
    ASSUME IInv, LossInv, Absent' \subseteq Absent, agg'.lost = agg.lost
    PROVE  agg'.lost \in Nat /\ Cardinality(Absent)' <= agg'.lost
<1>1. IsFiniteSet({}) /\ Cardinality({}) = 0
  BY FS_EmptySet
<1>2. agg'.lost = agg.lost + 0
  BY DEF LossInv
<1> QED BY <1>1, <1>2, AbsentGrows

\* The names and the keys of facts are not more than the facts.
LEMMA NamesOf ==
    ASSUME NEW F, IsFiniteSet(F)
    PROVE  /\ IsFiniteSet(Ids(F)) /\ Cardinality(Ids(F)) <= Cardinality(F)
           /\ IsFiniteSet({KeyOf(f) : f \in F})
<1>1. [f \in F |-> f.id] \in Surjection(F, Ids(F))
  BY DEF Surjection, Ids
<1>2. [f \in F |-> KeyOf(f)] \in Surjection(F, {KeyOf(f) : f \in F})
  BY DEF Surjection
<1> QED BY <1>1, <1>2, FS_Surjection

\* Sealing moves facts, and merging adds the fact or counts it.
LEMMA SealFits ==
    ASSUME NEW s, NEW family, IsState(s), Finite(s)
    PROVE  /\ Finite(Seal(s, family)) /\ All(Seal(s, family)) = All(s)
           /\ Seal(s, family).lost = s.lost /\ IsState(Seal(s, family))
<1> DEFINE F == Of(s, family)
           b0 == [seq |-> s.next, facts |-> F]
           t == [active |-> s.active \ F, pending |-> s.pending \cup {b0},
                 next |-> s.next + 1, lost |-> s.lost]
<1>1. CASE Seal(s, family) = s
  BY <1>1
<1>2. CASE Seal(s, family) # s
  <2>1. Seal(s, family) = t
    BY <1>2 DEF Seal, IsState
  <2>2. F \subseteq s.active /\ b0.facts = F
    BY DEF Of
  <2>3. IsFiniteSet(F) /\ IsFiniteSet(s.active \ F)
    <3>1. F \in SUBSET s.active /\ s.active \ F \in SUBSET s.active
      BY <2>2
    <3> QED BY <3>1, FS_Subset DEF Finite
  <2>4. b0 \in Batch
    BY <2>2 DEF IsState, Batch
  <2>5. IsState(t)
    BY <2>4 DEF IsState
  <2> HIDE DEF b0
  <2>6. IsFiniteSet(s.pending \cup {b0})
    BY FS_AddElement DEF Finite
  <2>7. Finite(t)
    BY <2>2, <2>3, <2>6 DEF Finite
  <2>8. All(t) = All(s)
    BY <2>2 DEF All
  <2> QED BY <2>1, <2>5, <2>7, <2>8
<1> QED BY <1>1, <1>2

LEMMA MergeFits ==
    ASSUME NEW s, NEW f, IsState(s), Finite(s)
    PROVE  /\ Finite(Merge(s, f))
           /\ \/ All(Merge(s, f)) = All(s) \cup {f} /\ Merge(s, f).lost = s.lost
              \/ All(Merge(s, f)) = All(s) /\ Merge(s, f).lost = s.lost + 1
<1>1. PICK t : t = Merge(s, f)
  OBVIOUS
<1>2. \/ /\ t.active = s.active /\ t.pending = s.pending /\ t.lost = s.lost + 1
      \/ /\ t.active = s.active \cup {f} /\ t.pending = s.pending /\ t.lost = s.lost
  BY <1>1 DEF Merge, IsState
<1>3. IsFiniteSet(s.active \cup {f})
  BY FS_AddElement DEF Finite
<1>4. Finite(t)
  BY <1>2, <1>3 DEF Finite
<1>5. \/ All(t) = All(s) \cup {f} /\ t.lost = s.lost
      \/ All(t) = All(s) /\ t.lost = s.lost + 1
  BY <1>2 DEF All
<1> QED BY <1>1, <1>4, <1>5

LEMMA RecordLoss ==
    ASSUME IInv, LossInv, NEW family \in Families, NEW d \in Dimensions, NEW bucket \in Int,
           Record(family, d, bucket)
    PROVE  LossInv'
<1> DEFINE f == [id |-> recorded + 1, family |-> family, dimension |-> d, bucket |-> bucket]
<1>1. /\ agg' = Added(agg, f) /\ recorded' = recorded + 1 /\ recorded < MaxFacts
      /\ UNCHANGED <<receipts, applied, earlier>>
  BY DEF Record, tables
<1>2. /\ IsState(agg) /\ Finite(agg) /\ recorded \in Nat /\ earlier \in Nat /\ agg.lost \in Nat
      /\ MaxFacts \in Nat
  BY UsageAssumption DEF IInv, TablesType, Memory, LossInv
<1>3. f.id = recorded + 1 /\ f.family = family
  OBVIOUS
<1> HIDE DEF f
<1>4. /\ Finite(Seal(agg, family)) /\ All(Seal(agg, family)) = All(agg)
      /\ Seal(agg, family).lost = agg.lost /\ IsState(Seal(agg, family))
  BY <1>2, SealFits
<1>5. /\ [agg EXCEPT !.lost = @ + 1].active = agg.active
      /\ [agg EXCEPT !.lost = @ + 1].pending = agg.pending
      /\ [agg EXCEPT !.lost = @ + 1].lost = agg.lost + 1
  BY <1>2 DEF IsState
<1>6. /\ Finite(agg')
      /\ \/ All(agg') = All(agg) \cup {f} /\ agg'.lost = agg.lost
         \/ All(agg') = All(agg) /\ agg'.lost = agg.lost + 1
  <2>1. CASE agg' = [agg EXCEPT !.lost = @ + 1]
    BY <1>2, <1>5, <2>1 DEF Finite, All
  <2>2. CASE agg' = Merge(Seal(agg, family), f)
    BY <1>2, <1>4, <2>2, MergeFits
  <2>3. CASE agg' = Merge(agg, f)
    BY <1>2, <2>3, MergeFits
  <2> QED BY <1>1, <1>3, <2>1, <2>2, <2>3 DEF Added
<1>7. ASSUME NEW i \in Absent' PROVE i \in Absent \/ i = recorded + 1
  <2>1. i \in earlier + 1 .. recorded + 1 /\ applied[i] = 0 /\ i \notin Ids(All(agg'))
    BY <1>1, InMemoryIds DEF Absent, InMemory, Ids, All
  <2>2. i \notin Ids(All(agg))
    BY <1>6, <2>1 DEF Ids
  <2>3. i \in earlier + 1 .. recorded \/ i = recorded + 1
    BY <1>2, <2>1
  <2> QED BY <2>1, <2>2, <2>3, InMemoryIds DEF Absent
<1>8. agg'.lost \in Nat /\ Cardinality(Absent)' <= agg'.lost
  <2>1. CASE All(agg') = All(agg) \cup {f} /\ agg'.lost = agg.lost
    <3>1. recorded + 1 \in Ids(All(agg'))
      BY <1>3, <2>1 DEF Ids
    <3>2. recorded + 1 \notin Absent'
      BY <3>1 DEF Absent, InMemory, Ids, All
    <3> QED BY <1>7, <2>1, <3>2, AbsentKept
  <2>2. CASE agg'.lost = agg.lost + 1
    <3>1. IsFiniteSet({recorded + 1}) /\ Cardinality({recorded + 1}) = 1
      BY FS_Singleton
    <3>2. Absent' \subseteq Absent \cup {recorded + 1}
      BY <1>7
    <3> QED BY <2>2, <3>1, <3>2, AbsentGrows
  <2> QED BY <1>6, <2>1, <2>2
<1> QED BY <1>1, <1>2, <1>6, <1>8 DEF LossInv, Finite, ReceiptsCounted

LEMMA FlushStartLoss == ASSUME IInv, LossInv, FlushStart PROVE LossInv'
<1>1. agg' = SealedBoth /\ UNCHANGED <<receipts, applied, earlier, recorded>>
  BY DEF FlushStart, tables
<1>2. IsState(agg) /\ Finite(agg)
  BY DEF IInv, Memory, LossInv
<1>3. /\ Finite(Seal(agg, "logical")) /\ All(Seal(agg, "logical")) = All(agg)
      /\ Seal(agg, "logical").lost = agg.lost /\ IsState(Seal(agg, "logical"))
  BY <1>2, SealFits
<1>4. Finite(SealedBoth) /\ All(SealedBoth) = All(agg) /\ SealedBoth.lost = agg.lost
  BY <1>3, SealFits DEF SealedBoth
<1>5. Absent' = Absent
  BY <1>1, <1>4, InMemoryIds DEF Absent, InMemory, Ids, All
<1>6. agg'.lost \in Nat /\ Cardinality(Absent)' <= agg'.lost
  BY <1>1, <1>4, <1>5, AbsentKept
<1> QED BY <1>1, <1>4, <1>6 DEF LossInv, Finite, ReceiptsCounted

\* Memory without the batch that is written or discarded.
LEMMA PoppedFits ==
    ASSUME IInv, LossInv, flush.on
    PROVE  /\ Popped.lost = agg.lost /\ Finite(Popped) /\ IsState(Popped)
           /\ Popped.active = agg.active /\ Popped.pending = agg.pending \ {flush.batch}
           /\ All(agg) \subseteq All(Popped) \cup flush.batch.facts
           /\ flush.batch \in agg.pending /\ IsFiniteSet(flush.batch.facts)
           /\ \A f \in flush.batch.facts : f.id \in 1 .. MaxFacts
<1>1. flush.batch \in agg.pending /\ IsState(agg)
  BY DEF IInv, FlushingPending, Memory
<1>2. /\ Popped.lost = agg.lost /\ Popped.active = agg.active /\ IsState(Popped)
      /\ Popped.pending = agg.pending \ {flush.batch}
  <2> DEFINE P == agg.pending \ {flush.batch}
             t == [active |-> agg.active, pending |-> P, next |-> agg.next, lost |-> agg.lost]
  <2>1. Popped = t
    BY <1>1 DEF Popped, IsState
  <2>2. P \in SUBSET Batch /\ agg.active \in SUBSET Fact /\ agg.next \in Nat
    BY <1>1 DEF IsState
  <2> HIDE DEF P
  <2>3. IsState(t) /\ t.lost = agg.lost /\ t.active = agg.active /\ t.pending = P
    BY <2>2 DEF IsState
  <2> QED BY <2>1, <2>3 DEF P
<1>3. IsFiniteSet(agg.pending \ {flush.batch})
  BY FS_RemoveElement DEF LossInv, Finite
<1>4. Finite(Popped)
  BY <1>2, <1>3 DEF LossInv, Finite
<1>5. All(agg) \subseteq All(Popped) \cup flush.batch.facts
  BY <1>2 DEF All
<1>6. IsFiniteSet(flush.batch.facts) /\ \A f \in flush.batch.facts : f.id \in 1 .. MaxFacts
  BY <1>1 DEF LossInv, Finite, IsState, Batch, Fact
<1> QED BY <1>1, <1>2, <1>4, <1>5, <1>6

\* A batch that is discarded is counted as lost, fact by fact.
LEMMA FlushExpiredLoss == ASSUME IInv, LossInv, FlushExpired PROVE LossInv'
<1> DEFINE F == flush.batch.facts
<1>1. /\ flush.on /\ agg' = Discarded /\ UNCHANGED <<receipts, applied, earlier, recorded>>
  BY DEF FlushExpired, Released, tables
<1>2. /\ Popped.lost = agg.lost /\ Finite(Popped) /\ IsState(Popped)
      /\ All(agg) \subseteq All(Popped) \cup F /\ IsFiniteSet(F)
  BY <1>1, PoppedFits
<1>3. /\ agg'.active = Popped.active /\ agg'.pending = Popped.pending
      /\ agg'.lost = agg.lost + Cardinality(F)
  BY <1>1, <1>2 DEF Discarded, IsState
<1>4. All(agg') = All(Popped) /\ Finite(agg')
  BY <1>2, <1>3 DEF All, Finite
<1>5. Absent' \subseteq Absent \cup Ids(F)
  BY <1>1, <1>2, <1>4, InMemoryIds DEF Absent, InMemory, Ids, All
<1>6. /\ IsFiniteSet(Ids(F)) /\ Cardinality(Ids(F)) <= Cardinality(F) /\ Cardinality(F) \in Nat
  BY <1>2, NamesOf, FS_CardinalityType
<1>7. agg'.lost \in Nat /\ Cardinality(Absent)' <= agg'.lost
  BY <1>3, <1>5, <1>6, AbsentGrows
<1> QED BY <1>1, <1>4, <1>7 DEF LossInv, Finite, ReceiptsCounted

\* Facts that leave memory are counted by the tables.
LEMMA CountedLoss ==
    ASSUME IInv, LossInv, flush.on, agg' = Popped, UNCHANGED <<earlier, recorded>>,
           \A i \in 1 .. MaxFacts : applied'[i] # 0 <=>
               applied[i] # 0 \/ i \in Ids(flush.batch.facts),
           \A r \in receipts' : r \in receipts \/ r.facts = flush.batch.facts
    PROVE  LossInv'
<1> DEFINE F == flush.batch.facts
<1>1. /\ Popped.lost = agg.lost /\ Finite(Popped) /\ All(agg) \subseteq All(Popped) \cup F
      /\ \A f \in F : f.id \in 1 .. MaxFacts
  BY PoppedFits
<1>2. earlier \in Nat /\ recorded \in Nat /\ recorded <= MaxFacts /\ MaxFacts \in Nat
  BY UsageAssumption DEF LossInv, IInv, TablesType
<1>3. ASSUME NEW i \in Absent' PROVE i \in Absent
  <2>1. i \in earlier + 1 .. recorded /\ applied'[i] = 0 /\ i \notin Ids(All(Popped))
    BY <1>3, InMemoryIds DEF Absent, InMemory, Ids, All
  <2>2. i \in 1 .. MaxFacts
    BY <1>2, <2>1
  <2>3. applied[i] = 0 /\ i \notin Ids(F)
    BY <2>1, <2>2
  <2>4. i \notin Ids(All(agg))
    BY <1>1, <2>1, <2>3 DEF Ids
  <2> QED BY <2>1, <2>3, <2>4, InMemoryIds DEF Absent
<1>4. agg'.lost \in Nat /\ Cardinality(Absent)' <= agg'.lost
  BY <1>1, <1>3, AbsentKept
<1>5. ReceiptsCounted'
  <2>1. \A r \in receipts : \A f \in r.facts : f.id \in 1 .. MaxFacts
    BY DEF IInv, TablesType, Written, Fact
  <2> QED BY <1>1, <2>1 DEF LossInv, ReceiptsCounted, Ids
<1> QED BY <1>1, <1>4, <1>5 DEF LossInv, Finite

LEMMA FlushCommitLoss == ASSUME IInv, LossInv, FlushCommit PROVE LossInv'
<1>1. /\ flush.on /\ agg' = Popped /\ UNCHANGED <<earlier, recorded>>
      /\ receipts' = receipts \cup {Receipt(flush.batch)} /\ applied' = Counted(Receipt(flush.batch))
  BY DEF FlushCommit, Released
<1>2. Receipt(flush.batch).facts = flush.batch.facts
  BY DEF Receipt
<1>3. \A i \in 1 .. MaxFacts : applied'[i] # 0 <=>
          applied[i] # 0 \/ i \in Ids(flush.batch.facts)
  BY <1>1, <1>2 DEF Counted, Ids, IInv, TablesType
<1> QED BY <1>1, <1>2, <1>3, CountedLoss

LEMMA FlushReplayedLoss == ASSUME IInv, LossInv, FlushReplayed PROVE LossInv'
<1>1. /\ flush.on /\ agg' = Popped /\ UNCHANGED <<earlier, recorded, receipts, applied>>
      /\ \E r \in receipts : r.facts = flush.batch.facts
  BY DEF FlushReplayed, Released, ReceiptOf, tables
<1>2. \A f \in flush.batch.facts : applied[f.id] # 0
  BY <1>1 DEF LossInv, ReceiptsCounted
<1>3. \A i \in 1 .. MaxFacts : applied'[i] # 0 <=>
          applied[i] # 0 \/ i \in Ids(flush.batch.facts)
  BY <1>1, <1>2 DEF Ids
<1> QED BY <1>1, <1>3, CountedLoss

\* A commit that arrives late counts more, and nothing else touches memory.
LEMMA LimboCommitsLoss ==
    ASSUME IInv, LossInv, NEW l \in limbo, LimboCommits(l) PROVE LossInv'
<1>1. /\ receipts' = receipts \cup {l} /\ applied' = Counted(l)
      /\ UNCHANGED <<agg, earlier, recorded>>
  BY DEF LimboCommits, memory
<1>2. /\ applied \in [1 .. MaxFacts -> Nat] /\ l.facts \in SUBSET Fact
      /\ \A r \in receipts : r.facts \in SUBSET Fact
  BY DEF IInv, TablesType, Written
<1>3. \A i \in 1 .. MaxFacts : /\ applied[i] # 0 => applied'[i] # 0
                               /\ (\E f \in l.facts : f.id = i) => applied'[i] # 0
  BY <1>1, <1>2 DEF Counted
<1>4. ReceiptsCounted'
  BY <1>1, <1>2, <1>3 DEF LossInv, ReceiptsCounted, Fact
<1>5. Absent' \subseteq Absent
  <2>1. \A i \in earlier + 1 .. recorded : i \in 1 .. MaxFacts
    BY UsageAssumption DEF LossInv, IInv, TablesType
  <2> QED BY <1>1, <1>3, <2>1 DEF Absent, InMemory
<1>6. agg'.lost \in Nat /\ Cardinality(Absent)' <= agg'.lost
  BY <1>1, <1>5, AbsentKept
<1> QED BY <1>1, <1>4, <1>6 DEF LossInv, Finite

\* A new process has recorded nothing.
LEMMA RestartLoss == ASSUME IInv, LossInv, Restart PROVE LossInv'
<1>1. /\ agg' = EmptyState /\ earlier' = recorded /\ UNCHANGED <<recorded, receipts, applied>>
  BY DEF Restart, tables
<1>2. recorded \in Nat
  BY DEF IInv, TablesType
<1>3. Absent' = {} /\ Cardinality(Absent') = 0
  BY <1>1, <1>2, FS_EmptySet DEF Absent
<1>4. agg'.active = {} /\ agg'.pending = {} /\ agg'.lost = 0
  BY <1>1 DEF EmptyState
<1>5. Finite(agg')
  BY <1>4, FS_EmptySet DEF Finite
<1> QED BY <1>1, <1>2, <1>3, <1>4, <1>5 DEF LossInv, Finite, ReceiptsCounted

\* Time, pruning, transactions that abort, failed attempts and the shutdown.
LEMMA OthersLoss ==
    ASSUME IInv, LossInv, UNCHANGED <<agg, applied, earlier, recorded>>, receipts' \subseteq receipts
    PROVE  LossInv'
<1>1. Absent' = Absent
  BY DEF Absent, InMemory
<1> QED BY <1>1 DEF LossInv, Finite, ReceiptsCounted

LEMMA LossStep == ASSUME IInv, LossInv, [Next]_vars PROVE LossInv'
<1>1. CASE \E family \in Families, d \in Dimensions, bucket \in now - Skew .. now + Skew :
               bucket <= MaxTime /\ Record(family, d, bucket)
  <2>1. PICK family \in Families, d \in Dimensions, bucket \in now - Skew .. now + Skew :
            Record(family, d, bucket)
    BY <1>1
  <2>2. bucket \in Int
    BY UsageAssumption DEF IInv, TablesType
  <2> QED BY <2>1, <2>2, RecordLoss
<1>2. CASE \E l \in limbo : LimboCommits(l)
  BY <1>2, LimboCommitsLoss
<1>3. CASE \/ FlushUnacknowledged \/ FlushFails \/ \E l \in limbo : LimboAborts(l)
           \/ PruneUsage \/ Shutdown \/ FlushAllCompares \/ Abort \/ Tick \/ UNCHANGED vars
  <2>1. UNCHANGED <<agg, applied, earlier, recorded>> /\ receipts' \subseteq receipts
    BY <1>3 DEF FlushUnacknowledged, FlushFails, Released, LimboAborts, PruneUsage, Shutdown,
                FlushAllCompares, Abort, Tick, memory, tables, vars
  <2> QED BY <2>1, OthersLoss
<1> QED
  BY <1>1, <1>2, <1>3, FlushStartLoss, FlushExpiredLoss, FlushCommitLoss, FlushReplayedLoss, RestartLoss
  DEF Next

-----------------------------------------------------------------------------
(* The shutdown: flush_all compares what status() said before a flush with  *)
(* what it says after.  While a batch is written, memory is not behind the  *)
(* earlier status in all three counts; once the batch is gone it is ahead,  *)
(* so a flush that succeeded stalls only with nothing left.                 *)

Modes == {"running", "closing", "ended", "aborted"}
Closing == [step : {"flush", "after"}, pending : Nat, logical : Nat, attempt : Nat, clean : BOOLEAN]

SameAsStatus ==
    /\ closing.pending = Status.pending
    /\ closing.logical = Status.logical /\ closing.attempt = Status.attempt

Ahead ==
    \/ Status.pending <= closing.pending
    \/ Status.logical < closing.logical \/ Status.attempt < closing.attempt

ClosingInv ==
    /\ mode \in Modes /\ closing \in Closing
    /\ mode = "closing" /\ closing.step = "flush" => IF flush.on THEN Ahead ELSE SameAsStatus
    /\ mode = "closing" /\ closing.step = "after" =>
           ~flush.on /\ (closing.clean => Drained \/ ~Stalled)
    /\ mode = "ended" => ~flush.on /\ (closing.clean => Drained)

\* Sealing does nothing, or empties one map and leaves the other.
LEMMA SealEffect ==
    ASSUME NEW s, NEW family, IsState(s)
    PROVE  /\ s.pending \subseteq Seal(s, family).pending
           /\ \/ /\ Seal(s, family) = s
                 /\ Of(s, family) = {} \/ Cardinality(s.pending) >= MaxPending
              \/ /\ Of(s, family) # {} /\ Seal(s, family).pending # {}
                 /\ Of(Seal(s, family), family) = {}
                 /\ \A g : g # family => Of(Seal(s, family), g) = Of(s, g)
<1> DEFINE F == Of(s, family)
           b0 == [seq |-> s.next, facts |-> F]
           t == [active |-> s.active \ F, pending |-> s.pending \cup {b0},
                 next |-> s.next + 1, lost |-> s.lost]
<1>1. CASE F = {} \/ Cardinality(s.pending) >= MaxPending
  BY <1>1 DEF Seal
<1>2. CASE ~(F = {} \/ Cardinality(s.pending) >= MaxPending)
  <2>1. Seal(s, family) = t
    BY <1>2 DEF Seal, IsState
  <2>2. Of(t, family) = {} /\ \A g : g # family => Of(t, g) = Of(s, g)
    BY DEF Of
  <2>3. s.pending \subseteq t.pending /\ t.pending # {}
    OBVIOUS
  <2> QED BY <1>2, <2>1, <2>2, <2>3
<1> QED BY <1>1, <1>2

\* The counts of a state are numbers, and none says that a map is empty.
LEMMA KeysCounted ==
    ASSUME NEW s, NEW family, Finite(s)
    PROVE  /\ Cardinality(KeysOf(s, family)) \in Nat
           /\ Cardinality(KeysOf(s, family)) = 0 <=> Of(s, family) = {}
           /\ Cardinality(s.pending) \in Nat
<1>1. Of(s, family) \in SUBSET s.active
  BY DEF Of
<1>2. IsFiniteSet(KeysOf(s, family))
  BY <1>1, FS_Subset, NamesOf DEF Finite, KeysOf
<1>3. KeysOf(s, family) = {} <=> Of(s, family) = {}
  BY DEF KeysOf
<1> QED BY <1>2, <1>3, FS_EmptySet, FS_CardinalityType DEF Finite

\* What flush_once seals at its start.
LEMMA SealedEffect ==
    ASSUME IsState(agg), Finite(agg)
    PROVE  /\ IsState(SealedBoth) /\ Finite(SealedBoth)
           /\ SealedBoth.pending = {} => SealedBoth.active = {}
           /\ \/ SealedBoth = agg
              \/ Cardinality(KeysOf(SealedBoth, "logical")) < Cardinality(KeysOf(agg, "logical"))
              \/ Cardinality(KeysOf(SealedBoth, "attempt")) < Cardinality(KeysOf(agg, "attempt"))
<1> DEFINE s == Seal(agg, "logical")
           t == Seal(s, "attempt")
<1>1. IsState(s) /\ Finite(s)
  BY SealFits
<1>2. IsState(t) /\ Finite(t) /\ SealedBoth = t
  BY <1>1, SealFits DEF SealedBoth
<1>3. /\ agg.pending \subseteq s.pending
      /\ \/ s = agg /\ (Of(agg, "logical") = {} \/ Cardinality(agg.pending) >= MaxPending)
         \/ /\ Of(agg, "logical") # {} /\ s.pending # {} /\ Of(s, "logical") = {}
            /\ Of(s, "attempt") = Of(agg, "attempt")
  BY SealEffect
<1>4. /\ s.pending \subseteq t.pending
      /\ \/ t = s /\ (Of(s, "attempt") = {} \/ Cardinality(s.pending) >= MaxPending)
         \/ /\ Of(s, "attempt") # {} /\ t.pending # {} /\ Of(t, "attempt") = {}
            /\ Of(t, "logical") = Of(s, "logical")
  BY <1>1, SealEffect
<1> HIDE DEF s, t
<1>5. ASSUME t.pending = {} PROVE t.active = {}
  <2>1. agg.pending = {} /\ s.pending = {} /\ Cardinality(s.pending) = 0
    BY <1>3, <1>4, <1>5, FS_EmptySet
  <2>2. ~(Cardinality(s.pending) >= MaxPending) /\ ~(Cardinality(agg.pending) >= MaxPending)
    BY <2>1, UsageAssumption
  <2>3. s = agg /\ t = s /\ Of(t, "logical") = {} /\ Of(t, "attempt") = {}
    BY <1>3, <1>4, <1>5, <2>1, <2>2
  <2>4. \A f \in t.active : f.family = "logical" \/ f.family = "attempt"
    BY <1>2 DEF IsState, Fact, Families
  <2> QED BY <2>3, <2>4 DEF Of
<1>6. CASE s # agg
  <2>1. Of(agg, "logical") # {} /\ Of(t, "logical") = {}
    BY <1>3, <1>4, <1>6
  <2>2. Cardinality(KeysOf(t, "logical")) = 0 /\ Cardinality(KeysOf(agg, "logical")) # 0
        /\ Cardinality(KeysOf(agg, "logical")) \in Nat
    BY <1>2, <2>1, KeysCounted
  <2> QED BY <1>2, <1>5, <2>2
<1>7. CASE s = agg /\ t # s
  <2>1. Of(agg, "attempt") # {} /\ Of(t, "attempt") = {}
    BY <1>4, <1>7
  <2>2. Cardinality(KeysOf(t, "attempt")) = 0 /\ Cardinality(KeysOf(agg, "attempt")) # 0
        /\ Cardinality(KeysOf(agg, "attempt")) \in Nat
    BY <1>2, <2>1, KeysCounted
  <2> QED BY <1>2, <1>5, <2>2
<1> QED BY <1>2, <1>5, <1>6, <1>7

\* Memory, the lock and the shutdown as they were; or no shutdown under way.
LEMMA OthersClosing ==
    ASSUME ClosingInv, UNCHANGED <<agg, flush, mode, closing>>
    PROVE  ClosingInv'
BY DEF ClosingInv, SameAsStatus, Ahead, Stalled, Drained, Status

LEMMA NoShutdown ==
    ASSUME mode' \in {"running", "aborted"}, closing' \in Closing
    PROVE  ClosingInv'
BY DEF ClosingInv, Modes

LEMMA StatusTyped ==
    ASSUME LossInv
    PROVE  /\ Status.pending = Cardinality(agg.pending) /\ Status.pending \in Nat
           /\ Status.logical = Cardinality(KeysOf(agg, "logical")) /\ Status.logical \in Nat
           /\ Status.attempt = Cardinality(KeysOf(agg, "attempt")) /\ Status.attempt \in Nat
           /\ Status.clean = closing.clean /\ Status.step = "flush"
           /\ closing.clean \in BOOLEAN => Status \in Closing
<1>1. /\ Status.pending = Cardinality(agg.pending)
      /\ Status.logical = Cardinality(KeysOf(agg, "logical"))
      /\ Status.attempt = Cardinality(KeysOf(agg, "attempt"))
      /\ Status.clean = closing.clean /\ Status.step = "flush"
  BY DEF Status
<1>2. Status.pending \in Nat /\ Status.logical \in Nat /\ Status.attempt \in Nat
  BY <1>1, KeysCounted DEF LossInv
<1>3. Status = [step |-> "flush", pending |-> Status.pending, logical |-> Status.logical,
                attempt |-> Status.attempt, clean |-> closing.clean]
  BY DEF Status
<1>4. ASSUME closing.clean \in BOOLEAN PROVE Status \in Closing
  BY <1>2, <1>3, <1>4 DEF Closing
<1> QED BY <1>1, <1>2, <1>4

\* flush_all goes on to compare, with memory drained or ahead of the status, or
\* with a flush that failed.
LEMMA FlushReturnsCloses ==
    ASSUME ClosingInv, NEW clean \in BOOLEAN, FlushReturns(clean), UNCHANGED mode, ~flush'.on,
           mode # "ended",
           mode = "closing" /\ clean =>
               \/ Drained'
               \/ Status.pending' < closing.pending
               \/ Status.logical' < closing.logical \/ Status.attempt' < closing.attempt,
           Status.pending' \in Nat, Status.logical' \in Nat, Status.attempt' \in Nat
    PROVE  ClosingInv'
<1>1. CASE mode # "closing"
  <2>1. closing' = closing /\ mode' # "closing" /\ mode' # "ended" /\ mode' \in Modes
    BY <1>1 DEF FlushReturns, ClosingInv
  <2> QED BY <2>1 DEF ClosingInv
<1>2. CASE mode = "closing"
  <2>1. /\ closing'.step = "after" /\ closing'.clean = (closing.clean /\ clean)
        /\ closing'.pending = closing.pending /\ closing'.logical = closing.logical
        /\ closing'.attempt = closing.attempt
        /\ closing' = [step |-> "after", pending |-> closing.pending, logical |-> closing.logical,
                       attempt |-> closing.attempt, clean |-> (closing.clean /\ clean)]
    BY <1>2 DEF FlushReturns, ClosingInv, Closing
  <2>2. closing.pending \in Nat /\ closing.logical \in Nat /\ closing.attempt \in Nat
    BY DEF ClosingInv, Closing
  <2>3. closing' \in Closing
    <3>1. closing.clean \in BOOLEAN
      BY DEF ClosingInv, Closing
    <3>2. (closing.clean /\ clean) \in BOOLEAN
      BY <3>1
    <3> DEFINE c == (closing.clean /\ clean)
    <3> HIDE DEF c
    <3>3. c \in BOOLEAN
      BY <3>2 DEF c
    <3>4. [step |-> "after", pending |-> closing.pending, logical |-> closing.logical,
           attempt |-> closing.attempt, clean |-> c] \in Closing
      BY <2>2, <3>3 DEF Closing
    <3> QED BY <2>1, <3>4 DEF c
  <2>4. ASSUME closing'.clean PROVE Drained' \/ ~Stalled'
    <3>1. clean
      BY <2>1, <2>4
    <3>2. \/ Drained'
          \/ Status.pending' < closing'.pending
          \/ Status.logical' < closing'.logical \/ Status.attempt' < closing'.attempt
      BY <1>2, <2>1, <3>1
    <3>3. Stalled' => /\ Status.pending' >= closing'.pending
                      /\ Status.logical' >= closing'.logical
                      /\ Status.attempt' >= closing'.attempt
      BY DEF Stalled
    <3> QED BY <2>1, <2>2, <3>2, <3>3
  <2>5. mode' = "closing"
    BY <1>2
  <2> QED BY <2>1, <2>3, <2>4, <2>5 DEF ClosingInv, Modes
<1> QED BY <1>1, <1>2

LEMMA FlushStartClosing ==
    ASSUME IInv, LossInv, LossInv', ClosingInv, FlushStart
    PROVE  ClosingInv'
<1>1. /\ agg' = SealedBoth /\ UNCHANGED mode /\ ~flush.on
      /\ mode = "running" \/ (mode = "closing" /\ closing.step = "flush")
  BY DEF FlushStart
<1>2. /\ SealedBoth.pending = {} => SealedBoth.active = {}
      /\ \/ SealedBoth = agg
         \/ Cardinality(KeysOf(SealedBoth, "logical")) < Cardinality(KeysOf(agg, "logical"))
         \/ Cardinality(KeysOf(SealedBoth, "attempt")) < Cardinality(KeysOf(agg, "attempt"))
  BY SealedEffect DEF IInv, Memory, LossInv
<1>3. /\ Status.pending = Cardinality(agg.pending) /\ Status.pending \in Nat
      /\ Status.logical = Cardinality(KeysOf(agg, "logical")) /\ Status.logical \in Nat
      /\ Status.attempt = Cardinality(KeysOf(agg, "attempt")) /\ Status.attempt \in Nat
  BY StatusTyped
<1>4. /\ Status.pending' = Cardinality(agg'.pending)
      /\ Status.logical' = Cardinality(KeysOf(agg', "logical"))
      /\ Status.attempt' = Cardinality(KeysOf(agg', "attempt"))
  BY DEF Status
<1>5. /\ Status.pending' \in Nat /\ Status.logical' \in Nat /\ Status.attempt' \in Nat
  BY <1>4, KeysCounted DEF LossInv
<1>6. CASE SealedBoth.pending = {} /\ UNCHANGED flush /\ FlushReturns(TRUE)
  <2>1. Drained' /\ ~flush'.on /\ mode # "ended"
    BY <1>1, <1>2, <1>6 DEF Drained
  <2> QED BY <1>1, <1>5, <1>6, <2>1, FlushReturnsCloses
<1>7. CASE flush'.on /\ UNCHANGED closing
  <2>1. mode = "closing" => SameAsStatus
    BY <1>1 DEF ClosingInv
  <2>2. \/ Status.pending' = Status.pending
        \/ Status.logical' < Status.logical \/ Status.attempt' < Status.attempt
    BY <1>1, <1>2, <1>3, <1>4
  <2>3. mode = "closing" => \/ Status.pending' <= closing.pending
                            \/ Status.logical' < closing.logical
                            \/ Status.attempt' < closing.attempt
    BY <1>3, <1>5, <2>1, <2>2 DEF SameAsStatus
  <2>4. mode = "closing" => Ahead'
    BY <1>7, <2>3 DEF Ahead
  <2> QED BY <1>1, <1>7, <2>4 DEF ClosingInv
<1>8. CASE ~(SealedBoth.pending = {} /\ UNCHANGED flush /\ FlushReturns(TRUE))
  <2>1. PICK b \in SealedBoth.pending :
            flush' = [on |-> TRUE, batch |-> b, started |-> now] /\ UNCHANGED closing
    BY <1>8 DEF FlushStart
  <2>2. flush'.on
    BY <2>1
  <2> QED BY <1>7, <2>1, <2>2
<1> QED BY <1>6, <1>8

\* A settled batch leaves memory: one batch fewer, and the maps as they were.
LEMMA SettledClosing ==
    ASSUME IInv, LossInv, LossInv', ClosingInv, Released(TRUE),
           agg'.active = agg.active, agg'.pending = agg.pending \ {flush.batch}
    PROVE  ClosingInv'
<1>1. /\ flush.on /\ ~flush'.on /\ UNCHANGED mode /\ FlushReturns(TRUE)
  BY DEF Released, Unlocked
<1>2. /\ Status.pending = Cardinality(agg.pending) /\ Status.pending \in Nat
      /\ Status.logical = Cardinality(KeysOf(agg, "logical")) /\ Status.logical \in Nat
      /\ Status.attempt = Cardinality(KeysOf(agg, "attempt")) /\ Status.attempt \in Nat
  BY StatusTyped
<1>3. /\ Status.pending' = Cardinality(agg'.pending)
      /\ Status.logical' = Cardinality(KeysOf(agg', "logical"))
      /\ Status.attempt' = Cardinality(KeysOf(agg', "attempt"))
  BY DEF Status
<1>4. /\ Status.pending' \in Nat /\ Status.logical' \in Nat /\ Status.attempt' \in Nat
  BY <1>3, KeysCounted DEF LossInv
<1>5. flush.batch \in agg.pending /\ IsFiniteSet(agg.pending)
  BY <1>1, PoppedFits DEF LossInv, Finite
<1>6. Cardinality(agg'.pending) = Cardinality(agg.pending) - 1
  BY <1>5, FS_RemoveElement
<1>7. KeysOf(agg', "logical") = KeysOf(agg, "logical") /\ KeysOf(agg', "attempt") = KeysOf(agg, "attempt")
  BY DEF KeysOf, Of
<1>8. mode # "ended" /\ (mode = "closing" => closing.step = "flush" /\ Ahead)
  BY <1>1 DEF ClosingInv, Closing
<1>9. closing.pending \in Nat /\ closing.logical \in Nat /\ closing.attempt \in Nat
  BY DEF ClosingInv, Closing
<1>10. mode = "closing" => \/ Status.pending' < closing.pending
                           \/ Status.logical' < closing.logical \/ Status.attempt' < closing.attempt
  BY <1>2, <1>3, <1>4, <1>6, <1>7, <1>8, <1>9 DEF Ahead
<1> QED BY <1>1, <1>4, <1>8, <1>10, FlushReturnsCloses

LEMMA FailedClosing ==
    ASSUME LossInv', ClosingInv, Released(FALSE)
    PROVE  ClosingInv'
<1>1. /\ flush.on /\ ~flush'.on /\ UNCHANGED mode /\ FlushReturns(FALSE)
  BY DEF Released, Unlocked
<1>2. mode # "ended"
  BY <1>1 DEF ClosingInv
<1>3. /\ Status.pending' = Cardinality(agg'.pending)
      /\ Status.logical' = Cardinality(KeysOf(agg', "logical"))
      /\ Status.attempt' = Cardinality(KeysOf(agg', "attempt"))
  BY DEF Status
<1>4. /\ Status.pending' \in Nat /\ Status.logical' \in Nat /\ Status.attempt' \in Nat
  BY <1>3, KeysCounted DEF LossInv
<1> QED BY <1>1, <1>2, <1>4, FlushReturnsCloses

LEMMA ShutdownClosing == ASSUME LossInv, ClosingInv, Shutdown PROVE ClosingInv'
<1>1. mode' = "closing" /\ closing' = Status /\ ~flush'.on /\ UNCHANGED agg
  BY DEF Shutdown
<1>2. closing' \in Closing /\ closing'.step = "flush"
  BY <1>1, StatusTyped DEF ClosingInv, Closing
<1>3. SameAsStatus'
  BY <1>1 DEF SameAsStatus, Status
<1> QED BY <1>1, <1>2, <1>3 DEF ClosingInv, Modes

LEMMA FlushAllComparesClosing ==
    ASSUME LossInv, ClosingInv, FlushAllCompares PROVE ClosingInv'
<1>1. /\ mode = "closing" /\ closing.step = "after" /\ UNCHANGED <<agg, flush>> /\ ~flush.on
      /\ closing.clean => Drained \/ ~Stalled
  BY DEF FlushAllCompares, ClosingInv
<1>2. CASE mode' = "ended" /\ UNCHANGED closing /\ (Drained \/ Stalled)
  <2>1. closing.clean => Drained
    BY <1>1, <1>2
  <2>2. closing'.clean => Drained'
    BY <1>1, <1>2, <2>1 DEF Drained
  <2> QED BY <1>1, <1>2, <2>2 DEF ClosingInv, Modes
<1>3. CASE closing' = Status /\ UNCHANGED mode
  <2>1. closing' \in Closing /\ closing'.step = "flush"
    BY <1>3, StatusTyped DEF ClosingInv, Closing
  <2>2. SameAsStatus'
    BY <1>1, <1>3 DEF SameAsStatus, Status
  <2> QED BY <1>1, <1>3, <2>1, <2>2 DEF ClosingInv, Modes
<1> QED BY <1>2, <1>3 DEF FlushAllCompares

LEMMA ClosingStep == ASSUME IInv, LossInv, LossInv', ClosingInv, [Next]_vars PROVE ClosingInv'
<1>1. CASE \E family \in Families, d \in Dimensions, bucket \in now - Skew .. now + Skew :
               bucket <= MaxTime /\ Record(family, d, bucket)
  <2>1. mode' = "running" /\ closing' = closing
    BY <1>1 DEF Record
  <2> QED BY <2>1, NoShutdown DEF ClosingInv
<1>2. CASE FlushExpired \/ FlushCommit \/ FlushReplayed
  <2>1. Released(TRUE) /\ (agg' = Popped \/ agg' = Discarded)
    BY <1>2 DEF FlushExpired, FlushCommit, FlushReplayed
  <2>2. /\ Popped.active = agg.active /\ Popped.pending = agg.pending \ {flush.batch}
        /\ IsState(Popped)
    BY <2>1, PoppedFits DEF Released
  <2>3. Discarded.active = Popped.active /\ Discarded.pending = Popped.pending
    BY <2>2 DEF Discarded, IsState
  <2> QED BY <2>1, <2>2, <2>3, SettledClosing
<1>3. CASE FlushUnacknowledged \/ FlushFails
  BY <1>3, FailedClosing DEF FlushUnacknowledged, FlushFails
<1>4. CASE (\E l \in limbo : LimboCommits(l) \/ LimboAborts(l)) \/ PruneUsage \/ Tick \/ UNCHANGED vars
  <2>1. UNCHANGED <<agg, flush, mode, closing>>
    BY <1>4 DEF LimboCommits, LimboAborts, PruneUsage, Tick, memory, vars
  <2> QED BY <2>1, OthersClosing
<1>5. CASE Abort
  BY <1>5, NoShutdown DEF Abort, ClosingInv
<1>6. CASE Restart
  BY <1>6, NoShutdown DEF Restart, Closing, NotClosing
<1> QED
  BY <1>1, <1>2, <1>3, <1>4, <1>5, <1>6, FlushStartClosing, ShutdownClosing, FlushAllComparesClosing
  DEF Next

\* Whatever is sealed, written, discarded, retried or left behind, memory stays
\* bounded, what the receipts name is in the tables, the lost facts are counted,
\* and flush_all never stalls after a flush that succeeded.
THEOREM LossInvariant == Spec => [](LossInv /\ ClosingInv)
<1>1. Init => LossInv /\ ClosingInv
  <2> SUFFICES ASSUME Init PROVE LossInv /\ ClosingInv
    OBVIOUS
  <2>1. agg.active = {} /\ agg.pending = {} /\ agg.lost = 0 /\ recorded = 0 /\ earlier = 0
        /\ receipts = {}
    BY DEF Init, EmptyState
  <2>2. Finite(agg)
    BY <2>1, FS_EmptySet DEF Finite
  <2>3. Absent = {} /\ Cardinality(Absent) = 0
    BY <2>1, FS_EmptySet DEF Absent
  <2>4. LossInv
    BY <2>1, <2>2, <2>3, UsageAssumption DEF LossInv, ReceiptsCounted
  <2>5. ClosingInv
    BY DEF Init, ClosingInv, Modes, Closing, NotClosing
  <2> QED BY <2>4, <2>5
<1>2. IInv /\ LossInv /\ ClosingInv /\ [Next]_vars => (LossInv /\ ClosingInv)'
  BY LossStep, ClosingStep
<1> QED BY <1>1, <1>2, PipelineInvariant, PTL DEF Spec

\* A fact of this process that is nowhere is one of the facts counted as lost,
\* and a shutdown whose flushes all succeeded leaves nothing in memory: push_batch,
\* flush_once and flush_all account for whatever record_logical and record_attempt
\* took.
THEOREM LossIsAlwaysCounted == Spec => []LossIsCounted
<1>1. ASSUME IInv, LossInv, ClosingInv PROVE LossIsCounted
  <2> DEFINE inLimbo == {f.id : f \in UNION {l.facts : l \in limbo}}
             gone == {i \in earlier + 1 .. recorded :
                          applied[i] = 0 /\ i \notin InMemory /\ i \notin inLimbo}
  <2>1. gone \subseteq Absent
    BY DEF Absent
  <2>2. IsFiniteSet(gone) /\ Cardinality(gone) <= Cardinality(Absent)
    BY <1>1, <2>1, AbsentFinite, FS_Subset
  <2>3. Cardinality(gone) \in Nat /\ Cardinality(Absent) \in Nat /\ agg.lost \in Nat
    BY <1>1, <2>2, AbsentFinite, FS_CardinalityType DEF LossInv
  <2>4. Cardinality(gone) <= agg.lost
    BY <1>1, <2>2, <2>3 DEF LossInv
  <2> HIDE DEF gone
  <2>5. mode = "ended" /\ closing.clean => Drained
    BY <1>1 DEF ClosingInv
  <2> QED BY <2>4, <2>5 DEF LossIsCounted, gone
<1> QED BY <1>1, LossInvariant, PipelineInvariant, PTL

=============================================================================
