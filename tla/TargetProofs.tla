------------------------------ MODULE TargetProofs ------------------------------
(***************************************************************************)
(* Circuits and capacity, for every set of targets, domains and attempts,  *)
(* every policy and every size of the tables; and probes and shared        *)
(* summaries, for every set of processes and bindings and every policy.    *)
(*                                                                         *)
(* A half-open slot is counted exactly because a token names the open      *)
(* period that gave it and no later period has the same name: a period     *)
(* ends after every instant at which a token could be taken (TokensAgree). *)
(* A table that forgets an entry forgets no slot and no permit, because it *)
(* only forgets what counts none (EntriesAgree, PermitsAgree).             *)
(*                                                                         *)
(* What a probe found is bounded from the other end: whoever still owns    *)
(* the lease observed within it, so the lease ends at most Interval after  *)
(* what was found (ResultFound), the summary at most SummaryTtl later      *)
(* (SummaryFound), and whoever reads it uses it no longer than it has left *)
(* and the call took (ReadFound, ObservationFound).                        *)
(***************************************************************************)
EXTENDS TargetCircuit, TargetProbe, FiniteSetTheorems, TLAPS

-----------------------------------------------------------------------------
(* The inductive invariant                                                  *)

Entry == [tracked : BOOLEAN, failures : Nat, successes : Nat, open : Nat, inflight : Nat,
          recovery : Nat, reopen : Nat, touched : Nat]
Semaphore == [tracked : BOOLEAN, free : Nat]
States == {"idle", "admitted", "inflight"}
Attempt == [state : States, target : Candidates, tokens : [Domains -> Nat]]

TypeOK ==
    /\ now \in Nat \ {0}
    /\ circuit \in [Domains -> Entry]
    /\ semaphore \in [Ids -> Semaphore]
    /\ attempt \in [Attempts -> Attempt]

\* A domain the table does not know is closed and counts nobody.
EntriesAgree == \A d \in Domains : ~circuit[d].tracked => circuit[d] = FreshEntry

\* Tokens are of the target's domains and of open periods that had elapsed.
TokensAgree ==
    /\ \A a \in Attempts : attempt[a].state = "idle" => attempt[a] = NoAttempt
    /\ \A a \in Attempts, d \in Domains : attempt[a].tokens[d] # 0 =>
           d \in Domain(attempt[a].target) /\ attempt[a].tokens[d] <= now

\* A half-open slot for every attempt of the present open period.
SlotsAgree == \A d \in Domains : circuit[d].inflight = Cardinality(Probing(d))

\* A permit for every attempt in flight; what the table does not know has them all.
PermitsAgree ==
    \A i \in Ids : /\ semaphore[i].free + Cardinality(Holders(i)) = Limit
                   /\ ~semaphore[i].tracked => semaphore[i].free = Limit

IInv == TypeOK /\ EntriesAgree /\ TokensAgree /\ SlotsAgree /\ PermitsAgree

-----------------------------------------------------------------------------
(* Entries                                                                  *)

LEMMA FreshTyped == FreshEntry \in Entry /\ FreshEntry.open = 0 /\ FreshEntry.inflight = 0
BY DEF FreshEntry, Entry

LEMMA NoAttemptTyped ==
    NoAttempt \in Attempt /\ NoAttempt.state = "idle" /\ \A d \in Domains : NoAttempt.tokens[d] = 0
<1>1. (CHOOSE c \in Candidates : TRUE) \in Candidates
    BY CircuitAssumption
<1>2. NoTokens \in [Domains -> Nat] /\ \A d \in Domains : NoTokens[d] = 0
    BY DEF NoTokens
<1> DEFINE c == CHOOSE c \in Candidates : TRUE
<1>3. NoAttempt = [state |-> "idle", target |-> c, tokens |-> NoTokens]
    BY DEF NoAttempt
<1> HIDE DEF c
<1>q. QED
    BY <1>1, <1>2, <1>3 DEF Attempt, States, c

LEMMA TouchedTyped ==
    ASSUME NEW e \in Entry, now \in Nat
    PROVE  /\ FinishRecovery(e) \in Entry /\ Touched(e) \in Entry
           /\ FinishRecovery(e).open = e.open /\ FinishRecovery(e).inflight = e.inflight
           /\ FinishRecovery(e).tracked = e.tracked
           /\ Touched(e).open = e.open /\ Touched(e).inflight = e.inflight /\ Touched(e).tracked
<1> DEFINE f == FinishRecovery(e)
<1>1. /\ f \in Entry /\ f.open = e.open /\ f.inflight = e.inflight /\ f.tracked = e.tracked
    BY DEF FinishRecovery, Entry
<1>2. Touched(e) = [f EXCEPT !.tracked = TRUE, !.touched = now]
    BY DEF Touched
<1> HIDE DEF f
<1>q. QED
    BY <1>1, <1>2 DEF Entry, f

LEMMA EnteredTyped ==
    ASSUME NEW e \in Entry, now \in Nat
    PROVE  /\ Entered(e) \in Entry /\ Entered(e).tracked /\ Entered(e).open = e.open
           /\ Entered(e).inflight = IF e.open # 0 THEN e.inflight + 1 ELSE e.inflight
<1>1. Touched(e) \in Entry /\ Touched(e).inflight = e.inflight /\ Touched(e).open = e.open /\ Touched(e).tracked
    BY TouchedTyped
<1>2. Touched(e).inflight + 1 \in Nat
    BY <1>1 DEF Entry
<1>q. QED
    BY <1>1, <1>2 DEF Entered, Entry

\* Doubling a duration never makes it nothing.
LEMMA PowerPositive == ASSUME NEW n \in Nat PROVE 2 ^ n \in Nat \ {0}
<1>1. IsFiniteSet(1 .. n) /\ Cardinality(1 .. n) = n
    BY FS_Interval
<1>2. IsFiniteSet(SUBSET (1 .. n)) /\ Cardinality(SUBSET (1 .. n)) = 2 ^ n
    BY <1>1, FS_SUBSET
<1>3. Cardinality(SUBSET (1 .. n)) \in Nat
    BY <1>2, FS_CardinalityType
<1>4. SUBSET (1 .. n) # {}
    OBVIOUS
<1>5. Cardinality(SUBSET (1 .. n)) # 0
    BY <1>2, <1>4, FS_EmptySet
<1>q. QED
    BY <1>2, <1>3, <1>5

LEMMA CooldownPositive == ASSUME NEW reopen \in Nat PROVE Cooldown(reopen) \in Nat \ {0}
<1> DEFINE n == IF reopen < 63 THEN reopen ELSE 63
           p == 2 ^ n
           doubled == OpenDuration * p
<1>1. n \in Nat
    OBVIOUS
<1>2. p \in Nat \ {0}
    BY <1>1, PowerPositive
<1>3. OpenDuration \in Nat \ {0} /\ MaxOpenDuration \in Nat \ {0}
    BY CircuitAssumption
<1>4. Cooldown(reopen) = IF doubled < MaxOpenDuration THEN doubled ELSE MaxOpenDuration
    BY DEF Cooldown
<1> HIDE DEF p, n
<1>5. doubled \in Nat \ {0}
    BY <1>2, <1>3
<1>q. QED
    BY <1>3, <1>4, <1>5

\* A success leaves the slots and the period, or closes a half-open circuit.
LEMMA SucceededTyped ==
    ASSUME NEW e \in Entry, NEW halfOpen \in BOOLEAN, now \in Nat, e.tracked
    PROVE  /\ Succeeded(e, halfOpen) \in Entry /\ Succeeded(e, halfOpen).tracked
           /\ \/ Succeeded(e, halfOpen).open = e.open /\ Succeeded(e, halfOpen).inflight = e.inflight
              \/ halfOpen /\ Succeeded(e, halfOpen).open = 0 /\ Succeeded(e, halfOpen).inflight = 0
<1> DEFINE x == Succeeded(e, halfOpen)
           rec == now + RecoveryDuration
           n == IF halfOpen THEN e.successes + 1 ELSE 0
<1>1. e.successes + 1 \in Nat /\ rec \in Nat /\ n \in Nat
    BY CircuitAssumption DEF Entry
<1>2. CASE halfOpen /\ e.successes + 1 >= SuccessThreshold
    <2>1. x = [e EXCEPT !.failures = 0, !.successes = 0, !.open = 0, !.inflight = 0, !.recovery = rec]
        BY <1>2 DEF x, Succeeded
    <2> HIDE DEF x, rec
    <2>2. x \in Entry
        BY <1>1, <2>1 DEF Entry
    <2>3. /\ x.open = 0 /\ x.inflight = 0 /\ x.tracked = e.tracked
        BY <2>1 DEF Entry
    <2>q. QED
        BY <1>2, <2>2, <2>3 DEF x
<1>3. CASE ~(halfOpen /\ e.successes + 1 >= SuccessThreshold)
    <2>1. x = [e EXCEPT !.failures = 0, !.successes = n]
        BY <1>3 DEF x, Succeeded
    <2> HIDE DEF x, n
    <2>2. x \in Entry
        BY <1>1, <2>1 DEF Entry
    <2>3. /\ x.open = e.open /\ x.inflight = e.inflight /\ x.tracked = e.tracked
        BY <2>1 DEF Entry
    <2>q. QED
        BY <2>2, <2>3 DEF x
<1>q. QED
    BY <1>2, <1>3

\* A failure leaves the slots and the period, or begins one that ends later.
LEMMA FailedTyped ==
    ASSUME NEW e \in Entry, NEW halfOpen \in BOOLEAN, now \in Nat, e.tracked
    PROVE  /\ Failed(e, halfOpen) \in Entry /\ Failed(e, halfOpen).tracked
           /\ \/ Failed(e, halfOpen).open = e.open /\ Failed(e, halfOpen).inflight = e.inflight
              \/ Failed(e, halfOpen).open > now /\ Failed(e, halfOpen).inflight = 0
<1> DEFINE x == Failed(e, halfOpen)
           cool == Cooldown(e.reopen)
           next == now + cool
           m == e.reopen + 1
           n == e.failures + 1
<1>1. e.reopen \in Nat /\ m \in Nat /\ n \in Nat
    BY DEF Entry
<1>2. cool \in Nat \ {0}
    BY <1>1, CooldownPositive
<1> HIDE DEF cool
<1>3. next \in Nat /\ next > now
    BY <1>2
<1>4. CASE halfOpen \/ e.recovery > now \/ e.failures + 1 >= FailureThreshold
    <2>1. x = [e EXCEPT !.failures = 0, !.successes = 0, !.inflight = 0, !.recovery = 0,
                        !.open = next, !.reopen = m]
        BY <1>4 DEF x, Failed, cool
    <2> HIDE DEF x, next, m
    <2>2. x \in Entry
        BY <1>1, <1>3, <2>1 DEF Entry
    <2>3. /\ x.open = next /\ x.inflight = 0 /\ x.tracked = e.tracked
        BY <2>1 DEF Entry
    <2>q. QED
        BY <1>3, <2>2, <2>3 DEF x
<1>5. CASE ~(halfOpen \/ e.recovery > now \/ e.failures + 1 >= FailureThreshold)
    <2>1. x = [e EXCEPT !.failures = n, !.successes = 0]
        BY <1>5 DEF x, Failed
    <2> HIDE DEF x, n
    <2>2. x \in Entry
        BY <1>1, <2>1 DEF Entry
    <2>3. /\ x.open = e.open /\ x.inflight = e.inflight /\ x.tracked = e.tracked
        BY <2>1 DEF Entry
    <2>q. QED
        BY <2>2, <2>3 DEF x
<1>q. QED
    BY <1>4, <1>5

-----------------------------------------------------------------------------
(* Counting                                                                 *)

LEMMA CountsFinite ==
    /\ \A d \in Domains : IsFiniteSet(Probing(d)) /\ Cardinality(Probing(d)) \in Nat
    /\ \A i \in Ids : IsFiniteSet(Holders(i)) /\ Cardinality(Holders(i)) \in Nat
<1>1. \A d \in Domains : Probing(d) \in SUBSET Attempts
    BY DEF Probing
<1>2. \A i \in Ids : Holders(i) \in SUBSET Attempts
    BY DEF Holders
<1>q. QED
    BY <1>1, <1>2, FS_Subset, FS_CardinalityType, CircuitAssumption

\* What nobody holds a token of, no attempt has entered.
LEMMA NobodyProbes ==
    ASSUME IInv, NEW d \in Domains
    PROVE  circuit[d].inflight = 0 <=> Probing(d) = {}
<1>1. circuit[d].inflight = Cardinality(Probing(d))
    BY DEF IInv, SlotsAgree
<1>q. QED
    BY <1>1, CountsFinite, FS_EmptySet

\* Forgetting entries that hold nothing.
LEMMA EvictedFits ==
    ASSUME IInv
    PROVE  /\ Evicted \in [Domains -> Entry]
           /\ \A d \in Domains : \/ Evicted[d] = circuit[d]
                                 \/ Evicted[d] = FreshEntry /\ ~Kept(circuit[d])
BY FreshTyped DEF IInv, TypeOK, Evicted

-----------------------------------------------------------------------------
(* What a step may do to a domain                                           *)

\* Nobody enters or leaves d; its entry may be forgotten.
Keeps(d) ==
    \/ circuit'[d].open = circuit[d].open /\ circuit'[d].inflight = circuit[d].inflight
    \/ circuit'[d].open = 0 /\ circuit'[d].inflight = 0 /\ ~Kept(circuit[d])

\* Attempt a leaves d, closes it with a success of the present period, or opens it.
Leaves(a, d) ==
    \/ /\ circuit'[d].open = circuit[d].open
       /\ circuit'[d].inflight = IF a \in Probing(d) THEN circuit[d].inflight - 1 ELSE circuit[d].inflight
    \/ circuit'[d].open = 0 /\ circuit'[d].inflight = 0 /\ a \in Probing(d)
    \/ circuit'[d].open > now /\ circuit'[d].inflight = 0

\* Steps of no attempt: looking, forgetting, refusing, and time.
LEMMA QuietPreserves ==
    ASSUME IInv, circuit' \in [Domains -> Entry], EntriesAgree', \A d \in Domains : Keeps(d),
           now' \in {now, now + 1}, UNCHANGED <<semaphore, attempt>>
    PROVE  IInv'
<1>1. TypeOK'
    BY DEF IInv, TypeOK
<1>2. now \in Nat /\ now' >= now
    BY DEF IInv, TypeOK
<1>3. TokensAgree'
    <2>1. \A a \in Attempts, d \in Domains : attempt[a].tokens[d] \in Nat
        BY DEF IInv, TypeOK, Attempt
    <2>q. QED
        BY <1>1, <1>2, <2>1 DEF IInv, TokensAgree, TypeOK
<1>4. ASSUME NEW d \in Domains PROVE circuit'[d].inflight = Cardinality(Probing(d)')
    <2>1. CASE circuit'[d].open = circuit[d].open /\ circuit'[d].inflight = circuit[d].inflight
        BY <2>1 DEF IInv, SlotsAgree, Probing
    <2>2. CASE circuit'[d].open = 0 /\ circuit'[d].inflight = 0
        <3>1. Probing(d)' = {}
            BY <2>2 DEF Probing
        <3>q. QED
            BY <2>2, <3>1, FS_EmptySet
    <2>q. QED
        BY <2>1, <2>2 DEF Keeps
<1>5. SlotsAgree'
    BY <1>4 DEF SlotsAgree
<1>6. PermitsAgree'
    BY DEF IInv, PermitsAgree, Holders
<1>q. QED
    BY <1>1, <1>3, <1>5, <1>6 DEF IInv

\* An attempt that was admitted or in flight ends.
LEMMA EndPreserves ==
    ASSUME IInv, NEW a \in Attempts, attempt' = [attempt EXCEPT ![a] = NoAttempt], now' = now,
           circuit' \in [Domains -> Entry], EntriesAgree', \A d \in Domains : Leaves(a, d),
           semaphore' \in [Ids -> Semaphore], PermitsAgree'
    PROVE  IInv'
<1>1. /\ attempt' \in [Attempts -> Attempt]
      /\ \A b \in Attempts : attempt'[b] = IF b = a THEN NoAttempt ELSE attempt[b]
    BY NoAttemptTyped DEF IInv, TypeOK
<1>2. TypeOK'
    BY <1>1 DEF IInv, TypeOK
<1>3. TokensAgree'
    BY <1>1, NoAttemptTyped DEF IInv, TokensAgree
<1>4. ASSUME NEW d \in Domains PROVE circuit'[d].inflight = Cardinality(Probing(d)')
    <2>1. CASE /\ circuit'[d].open = circuit[d].open
               /\ circuit'[d].inflight =
                      IF a \in Probing(d) THEN circuit[d].inflight - 1 ELSE circuit[d].inflight
        <3>1. Probing(d)' = Probing(d) \ {a}
            BY <1>1, <2>1, NoAttemptTyped DEF Probing
        <3>2. circuit[d].inflight = Cardinality(Probing(d))
            BY DEF IInv, SlotsAgree
        <3>3. Cardinality(Probing(d) \ {a}) =
                  IF a \in Probing(d) THEN Cardinality(Probing(d)) - 1 ELSE Cardinality(Probing(d))
            BY CountsFinite, FS_RemoveElement
        <3>q. QED
            BY <2>1, <3>1, <3>2, <3>3
    <2>2. CASE circuit'[d].open = 0 /\ circuit'[d].inflight = 0
        <3>1. Probing(d)' = {}
            BY <2>2 DEF Probing
        <3>q. QED
            BY <2>2, <3>1, FS_EmptySet
    <2>3. CASE circuit'[d].open > now /\ circuit'[d].inflight = 0
        <3>1. \A b \in Attempts : attempt'[b].tokens[d] # 0 => attempt'[b].tokens[d] <= now
            BY <1>1, NoAttemptTyped DEF IInv, TokensAgree
        <3>2. now \in Nat /\ circuit'[d].open \in Nat /\ \A b \in Attempts : attempt'[b].tokens[d] \in Nat
            BY <1>2 DEF IInv, TypeOK, Entry, Attempt
        <3>3. Probing(d)' = {}
            BY <2>3, <3>1, <3>2 DEF Probing
        <3>q. QED
            BY <2>3, <3>3, FS_EmptySet
    <2>q. QED
        BY <2>1, <2>2, <2>3 DEF Leaves
<1>5. SlotsAgree'
    BY <1>4 DEF SlotsAgree
<1>q. QED
    BY <1>2, <1>3, <1>5 DEF IInv

-----------------------------------------------------------------------------
(* Passing the circuits                                                     *)

\* What the entries are after a full table forgot, and the domains that are
\* touched: a refusal, or a table that stays full.
LEMMA TouchingFits ==
    ASSUME IInv, now' = now, circuit' \in [Domains -> Entry],
           \A d \in Domains : \/ circuit'[d] = Evicted[d]
                              \/ circuit'[d] = Touched(Evicted[d])
                              \/ Evicted[d].tracked /\ circuit'[d] = [Evicted[d] EXCEPT !.touched = now]
    PROVE  EntriesAgree' /\ \A d \in Domains : Keeps(d)
<1>1. now \in Nat /\ circuit \in [Domains -> Entry]
    BY DEF IInv, TypeOK
<1>2. SUFFICES ASSUME NEW d \in Domains
               PROVE  (~circuit'[d].tracked => circuit'[d] = FreshEntry) /\ Keeps(d)
    BY DEF EntriesAgree
<1>3. Evicted[d] \in Entry /\ (Evicted[d] = circuit[d] \/ (Evicted[d] = FreshEntry /\ ~Kept(circuit[d])))
    BY EvictedFits
<1>4. /\ circuit'[d].open = Evicted[d].open /\ circuit'[d].inflight = Evicted[d].inflight
      /\ circuit'[d] = Evicted[d] \/ circuit'[d].tracked
    <2>1. CASE circuit'[d] = Evicted[d]
        BY <2>1
    <2>2. CASE circuit'[d] = Touched(Evicted[d])
        BY <1>1, <1>3, <2>2, TouchedTyped
    <2>3. CASE Evicted[d].tracked /\ circuit'[d] = [Evicted[d] EXCEPT !.touched = now]
        BY <1>3, <2>3 DEF Entry
    <2>q. QED
        BY <2>1, <2>2, <2>3
<1>5. ~circuit'[d].tracked => circuit'[d] = FreshEntry
    BY <1>3, <1>4 DEF IInv, EntriesAgree
<1>6. Keeps(d)
    BY <1>3, <1>4, FreshTyped DEF Keeps
<1>q. QED
    BY <1>5, <1>6

LEMMA RefusedFits ==
    ASSUME IInv, NEW c \in Candidates, now' = now,
           circuit' = Evicted \/ \E i \in DOMAIN DomainsOf[c] : Refused(c, i)
    PROVE  circuit' \in [Domains -> Entry] /\ EntriesAgree' /\ \A d \in Domains : Keeps(d)
<1>1. now \in Nat /\ Evicted \in [Domains -> Entry]
    BY EvictedFits DEF IInv, TypeOK
<1>2. CASE circuit' = Evicted
    BY <1>1, <1>2, TouchingFits
<1>3. ASSUME NEW i \in DOMAIN DomainsOf[c], Refused(c, i)
      PROVE  circuit' \in [Domains -> Entry] /\ EntriesAgree' /\ \A d \in Domains : Keeps(d)
    <2>1. circuit' = [d \in Domains |->
              IF \E j \in 1 .. i : DomainsOf[c][j] = d THEN Touched(Evicted[d])
              ELSE IF d \in Domain(c) /\ Evicted[d].tracked THEN [Evicted[d] EXCEPT !.touched = now]
              ELSE Evicted[d]]
        BY <1>3 DEF Refused
    <2>2. ASSUME NEW d \in Domains
          PROVE  /\ Touched(Evicted[d]) \in Entry /\ [Evicted[d] EXCEPT !.touched = now] \in Entry
                 /\ Evicted[d] \in Entry
        BY <1>1, TouchedTyped DEF Entry
    <2>3. circuit' \in [Domains -> Entry]
        BY <2>1, <2>2
    <2>q. QED
        BY <2>1, <2>3, TouchingFits
<1>q. QED
    BY <1>2, <1>3

\* Every open domain counts the attempt, which had no token before.
LEMMA AdmittedPreserves ==
    ASSUME IInv, NEW a \in Attempts, NEW c \in Candidates, attempt[a].state = "idle",
           Admitted(a, c), UNCHANGED <<now, semaphore>>
    PROVE  IInv' /\ \A d \in Domains : circuit'[d].open = Evicted[d].open
<1> DEFINE given == [d \in Domains |-> IF d \in Domain(c) THEN Evicted[d].open ELSE 0]
           v == [state |-> "admitted", target |-> c, tokens |-> given]
<1>1. /\ now \in Nat \ {0} /\ circuit \in [Domains -> Entry] /\ attempt \in [Attempts -> Attempt]
      /\ Evicted \in [Domains -> Entry] /\ semaphore \in [Ids -> Semaphore]
    BY EvictedFits DEF IInv, TypeOK
<1>2. /\ \A d \in Domain(c) : ~Refuses(Evicted[d])
      /\ circuit' = [d \in Domains |-> IF d \in Domain(c) THEN Entered(Evicted[d]) ELSE Evicted[d]]
      /\ attempt' = [attempt EXCEPT ![a] = v]
    BY DEF Admitted
<1>3. \A d \in Domains : /\ Entered(Evicted[d]) \in Entry /\ Entered(Evicted[d]).tracked
                         /\ Entered(Evicted[d]).open = Evicted[d].open
                         /\ Entered(Evicted[d]).inflight =
                                IF Evicted[d].open # 0 THEN Evicted[d].inflight + 1 ELSE Evicted[d].inflight
    BY <1>1, EnteredTyped
<1>4. circuit' \in [Domains -> Entry]
    BY <1>1, <1>2, <1>3
<1>5. \A d \in Domains : circuit'[d].open = Evicted[d].open
    BY <1>2, <1>3
<1>6. given \in [Domains -> Nat] /\ \A d \in Domains : given[d] = IF d \in Domain(c) THEN Evicted[d].open ELSE 0
    BY <1>1 DEF Entry
<1> HIDE DEF given
<1>7. v \in Attempt /\ v.state = "admitted" /\ v.target = c /\ v.tokens = given
    BY <1>6 DEF Attempt, States
<1> HIDE DEF v
<1>8. /\ attempt' \in [Attempts -> Attempt]
      /\ \A b \in Attempts : attempt'[b] = IF b = a THEN v ELSE attempt[b]
    BY <1>1, <1>2, <1>7
<1>9. TypeOK'
    BY <1>1, <1>4, <1>8 DEF TypeOK
<1>10. EntriesAgree'
    <2>1. ASSUME NEW d \in Domains PROVE ~circuit'[d].tracked => circuit'[d] = FreshEntry
        BY <1>2, <1>3, EvictedFits DEF IInv, EntriesAgree
    <2>q. QED
        BY <2>1 DEF EntriesAgree
<1>11. TokensAgree'
    <2>1. ASSUME NEW d \in Domains, given[d] # 0 PROVE d \in Domain(c) /\ given[d] <= now
        <3>1. d \in Domain(c) /\ given[d] = Evicted[d].open /\ ~Refuses(Evicted[d])
            BY <1>2, <1>6, <2>1
        <3>2. ~(Evicted[d].open > now) /\ Evicted[d].open \in Nat
            BY <1>1, <2>1, <3>1 DEF Refuses, Entry
        <3>q. QED
            BY <1>1, <3>1, <3>2
    <2>2. \A b \in Attempts : attempt'[b].state = "idle" => attempt'[b] = NoAttempt
        BY <1>7, <1>8 DEF IInv, TokensAgree
    <2>3. \A b \in Attempts, d \in Domains : attempt'[b].tokens[d] # 0 =>
              d \in Domain(attempt'[b].target) /\ attempt'[b].tokens[d] <= now
        BY <1>7, <1>8, <2>1 DEF IInv, TokensAgree
    <2>q. QED
        BY <2>2, <2>3 DEF TokensAgree, Domain
<1>12. attempt[a] = NoAttempt
    BY DEF IInv, TokensAgree
<1>13. ASSUME NEW d \in Domains PROVE circuit'[d].inflight = Cardinality(Probing(d)')
    <2>1. CASE Evicted[d] = circuit[d]
        <3>1. circuit[d].inflight = Cardinality(Probing(d)) /\ a \notin Probing(d)
            BY <1>12, NoAttemptTyped DEF IInv, SlotsAgree, Probing
        <3>2. CASE d \in Domain(c) /\ circuit[d].open # 0
            <4>1. Probing(d)' = Probing(d) \cup {a}
                BY <1>5, <1>6, <1>7, <1>8, <2>1, <3>2 DEF Probing
            <4>2. Cardinality(Probing(d) \cup {a}) = Cardinality(Probing(d)) + 1
                BY <3>1, CountsFinite, FS_AddElement
            <4>3. circuit'[d].inflight = circuit[d].inflight + 1
                BY <1>2, <1>3, <2>1, <3>2
            <4>q. QED
                BY <3>1, <4>1, <4>2, <4>3
        <3>3. CASE ~(d \in Domain(c) /\ circuit[d].open # 0)
            <4>1. given[d] = 0 /\ circuit'[d].inflight = circuit[d].inflight
                BY <1>2, <1>3, <1>6, <2>1, <3>3
            <4>2. Probing(d)' = Probing(d)
                BY <1>5, <1>7, <1>8, <1>12, <2>1, <4>1, NoAttemptTyped DEF Probing
            <4>q. QED
                BY <3>1, <4>1, <4>2
        <3>q. QED
            BY <3>2, <3>3
    <2>2. CASE Evicted[d] = FreshEntry
        <3>1. circuit'[d].open = 0 /\ circuit'[d].inflight = 0
            BY <1>2, <1>3, <2>2, FreshTyped
        <3>2. Probing(d)' = {}
            BY <3>1 DEF Probing
        <3>q. QED
            BY <3>1, <3>2, FS_EmptySet
    <2>q. QED
        BY <2>1, <2>2, EvictedFits
<1>14. SlotsAgree'
    BY <1>13 DEF SlotsAgree
<1>15. PermitsAgree'
    <2>1. ASSUME NEW i \in Ids PROVE Holders(i)' = Holders(i)
        BY <1>7, <1>8, <1>12, NoAttemptTyped DEF Holders, IdsOf, Domain
    <2>q. QED
        BY <2>1 DEF IInv, PermitsAgree
<1>q. QED
    BY <1>5, <1>9, <1>10, <1>11, <1>14, <1>15 DEF IInv

-----------------------------------------------------------------------------
(* Leaving the circuits                                                     *)

\* Who probes a domain has a token of it, and the table knows the domain.
LEMMA ProbingHolds ==
    ASSUME IInv, NEW a \in Attempts, NEW d \in Domains
    PROVE  /\ HoldsToken(a, d) <=> a \in Probing(d)
           /\ a \in Probing(d) => /\ d \in Domain(attempt[a].target) /\ circuit[d].tracked
                                  /\ circuit[d].inflight > 0 /\ attempt[a].tokens[d] # 0
                                  /\ circuit[d].open # 0 /\ circuit[d].open <= now
<1>1. HoldsToken(a, d) <=> a \in Probing(d)
    BY DEF HoldsToken, Probing
<1>2. circuit[d] \in Entry /\ circuit[d].inflight \in Nat
    BY DEF IInv, TypeOK, Entry
<1>3. ASSUME a \in Probing(d)
      PROVE  /\ d \in Domain(attempt[a].target) /\ circuit[d].tracked
             /\ circuit[d].inflight > 0 /\ attempt[a].tokens[d] # 0
             /\ circuit[d].open # 0 /\ circuit[d].open <= now
    <2>1. attempt[a].tokens[d] # 0 /\ attempt[a].tokens[d] = circuit[d].open
        BY <1>3 DEF Probing
    <2>2. d \in Domain(attempt[a].target) /\ attempt[a].tokens[d] <= now
        BY <2>1 DEF IInv, TokensAgree
    <2>3. circuit[d].tracked
        BY <2>1, FreshTyped DEF IInv, EntriesAgree
    <2>4. circuit[d].inflight # 0
        BY <1>3, NobodyProbes
    <2>q. QED
        BY <1>2, <2>1, <2>2, <2>3, <2>4
<1>q. QED
    BY <1>1, <1>3

LEMMA ReleasedFits ==
    ASSUME IInv, NEW a \in Attempts, circuit' = Released(a)
    PROVE  circuit' \in [Domains -> Entry] /\ EntriesAgree' /\ \A d \in Domains : Leaves(a, d)
<1>1. now \in Nat /\ circuit \in [Domains -> Entry]
    BY DEF IInv, TypeOK
<1>2. ASSUME NEW d \in Domains
      PROVE  /\ circuit'[d] \in Entry /\ (~circuit'[d].tracked => circuit'[d] = FreshEntry)
             /\ Leaves(a, d)
    <2> DEFINE n == IF HoldsToken(a, d) /\ circuit[d].inflight > 0
                    THEN circuit[d].inflight - 1 ELSE circuit[d].inflight
    <2>1. CASE d \notin Domain(attempt[a].target) \/ ~circuit[d].tracked
        <3>1. circuit'[d] = circuit[d]
            BY <2>1 DEF Released
        <3>2. a \notin Probing(d)
            BY <2>1, ProbingHolds
        <3>q. QED
            BY <1>1, <3>1, <3>2 DEF Leaves, IInv, EntriesAgree
    <2>2. CASE ~(d \notin Domain(attempt[a].target) \/ ~circuit[d].tracked)
        <3>1. circuit'[d] = [circuit[d] EXCEPT !.touched = now, !.inflight = n]
            BY <1>1, <2>2 DEF Released, Entry
        <3>2. n = IF a \in Probing(d) THEN circuit[d].inflight - 1 ELSE circuit[d].inflight
            BY ProbingHolds
        <3>3. circuit[d].inflight \in Nat
            BY <1>1 DEF Entry
        <3>4. n \in Nat
            BY <3>3
        <3> HIDE DEF n
        <3>5. /\ circuit'[d] \in Entry /\ circuit'[d].open = circuit[d].open
              /\ circuit'[d].inflight = n /\ circuit'[d].tracked = circuit[d].tracked
            BY <1>1, <3>1, <3>4 DEF Entry
        <3>q. QED
            BY <2>2, <3>2, <3>5 DEF Leaves
    <2>q. QED
        BY <2>1, <2>2
<1>3. circuit' \in [Domains -> Entry]
    <2>1. circuit' = [d \in Domains |-> circuit'[d]]
        BY DEF Released
    <2>q. QED
        BY <1>2, <2>1
<1>q. QED
    BY <1>2, <1>3 DEF EntriesAgree

LEMMA ObservedFits ==
    ASSUME IInv, NEW a \in Attempts, NEW success \in BOOLEAN, circuit' = Observed(a, success)
    PROVE  circuit' \in [Domains -> Entry] /\ EntriesAgree' /\ \A d \in Domains : Leaves(a, d)
<1>1. now \in Nat /\ circuit \in [Domains -> Entry]
    BY DEF IInv, TypeOK
<1>2. ASSUME NEW d \in Domains
      PROVE  /\ circuit'[d] \in Entry /\ (~circuit'[d].tracked => circuit'[d] = FreshEntry)
             /\ Leaves(a, d)
    <2> DEFINE seen == Touched(circuit[d])
               halfOpen == attempt[a].tokens[d] # 0
               n == seen.inflight - 1
               taken == IF HoldsToken(a, d) /\ seen.inflight > 0
                        THEN [seen EXCEPT !.inflight = n] ELSE seen
    <2>1. CASE d \notin Domain(attempt[a].target) \/ ~circuit[d].tracked
        <3>1. circuit'[d] = circuit[d]
            BY <2>1 DEF Observed
        <3>2. a \notin Probing(d)
            BY <2>1, ProbingHolds
        <3>q. QED
            BY <1>1, <3>1, <3>2 DEF Leaves, IInv, EntriesAgree
    <2>2. CASE ~(d \notin Domain(attempt[a].target) \/ ~circuit[d].tracked)
        <3>1. /\ seen \in Entry /\ seen.open = circuit[d].open /\ seen.inflight = circuit[d].inflight
              /\ seen.tracked /\ seen.inflight \in Nat
            BY <1>1, TouchedTyped DEF Entry
        <3>2. circuit'[d] = IF ~Counts(a, d) THEN seen
                            ELSE IF success THEN Succeeded(taken, halfOpen) ELSE Failed(taken, halfOpen)
            BY <2>2 DEF Observed
        <3> HIDE DEF seen
        <3>3. HoldsToken(a, d) /\ seen.inflight > 0 => n \in Nat
            BY <3>1
        <3>4. /\ taken \in Entry /\ taken.open = circuit[d].open /\ taken.tracked
              /\ taken.inflight = IF a \in Probing(d) THEN circuit[d].inflight - 1 ELSE circuit[d].inflight
            <4>1. CASE a \in Probing(d)
                <5>1. n \in Nat /\ n = circuit[d].inflight - 1 /\ taken = [seen EXCEPT !.inflight = n]
                    BY <3>1, <3>3, <4>1, ProbingHolds
                <5> HIDE DEF n, taken
                <5>q. QED
                    BY <3>1, <4>1, <5>1 DEF Entry
            <4>2. CASE a \notin Probing(d)
                BY <3>1, <4>2, ProbingHolds
            <4>q. QED
                BY <4>1, <4>2
        <3>5. halfOpen \in BOOLEAN
            OBVIOUS
        <3>6. Counts(a, d) /\ halfOpen => a \in Probing(d)
            BY ProbingHolds DEF Counts
        <3>7. ~Counts(a, d) => a \notin Probing(d)
            BY ProbingHolds DEF Counts
        <3> HIDE DEF taken, halfOpen
        <3>8. CASE ~Counts(a, d)
            BY <3>1, <3>2, <3>7, <3>8 DEF Leaves
        <3>9. CASE Counts(a, d) /\ success
            <4>1. circuit'[d] = Succeeded(taken, halfOpen)
                BY <3>2, <3>9
            <4>2. /\ circuit'[d] \in Entry /\ circuit'[d].tracked
                  /\ \/ circuit'[d].open = taken.open /\ circuit'[d].inflight = taken.inflight
                     \/ halfOpen /\ circuit'[d].open = 0 /\ circuit'[d].inflight = 0
                BY <1>1, <3>4, <3>5, <4>1, SucceededTyped
            <4>q. QED
                BY <3>4, <3>6, <3>9, <4>2 DEF Leaves
        <3>10. CASE Counts(a, d) /\ ~success
            <4>1. circuit'[d] = Failed(taken, halfOpen)
                BY <3>2, <3>10
            <4>2. /\ circuit'[d] \in Entry /\ circuit'[d].tracked
                  /\ \/ circuit'[d].open = taken.open /\ circuit'[d].inflight = taken.inflight
                     \/ circuit'[d].open > now /\ circuit'[d].inflight = 0
                BY <1>1, <3>4, <3>5, <4>1, FailedTyped
            <4>q. QED
                BY <3>4, <4>2 DEF Leaves
        <3>q. QED
            BY <3>8, <3>9, <3>10
    <2>q. QED
        BY <2>1, <2>2
<1>3. circuit' \in [Domains -> Entry]
    <2>1. circuit' = [d \in Domains |-> circuit'[d]]
        BY DEF Observed
    <2>q. QED
        BY <1>2, <2>1
<1>q. QED
    BY <1>2, <1>3 DEF EntriesAgree

-----------------------------------------------------------------------------
(* Permits                                                                  *)

\* Looking up the semaphores of a target changes no count: what is forgotten
\* or created has all its permits.
LEMMA LookedUpFits ==
    ASSUME IInv, NEW c
    PROVE  /\ LookedUp(c) \in [Ids -> Semaphore]
           /\ \A i \in Ids : /\ LookedUp(c)[i].free = semaphore[i].free
                             /\ ~LookedUp(c)[i].tracked => LookedUp(c)[i].free = Limit
<1> DEFINE table(k) == {i \in Ids : KindOf[i] = k /\ semaphore[i].tracked}
           full(k) == /\ \E i \in IdsOf(c) : KindOf[i] = k /\ ~semaphore[i].tracked
                      /\ Cardinality(table(k)) >= MaxSemaphores
           kept(k) == {i \in table(k) : full(k) => ~Forgets(i)}
           known(i) == \/ i \in kept(KindOf[i])
                       \/ i \in IdsOf(c) /\ Cardinality(kept(KindOf[i])) < MaxSemaphores
<1>1. LookedUp(c) = [i \in Ids |-> IF i \in kept(KindOf[i]) THEN semaphore[i]
                                   ELSE [tracked |-> known(i), free |-> Limit]]
    BY DEF LookedUp
<1>2. \A i : known(i) \in BOOLEAN
    OBVIOUS
<1>3. semaphore \in [Ids -> Semaphore] /\ Limit \in Nat
    BY CircuitAssumption DEF IInv, TypeOK
<1>4. ASSUME NEW i \in Ids, i \notin kept(KindOf[i]) PROVE semaphore[i].free = Limit
    <2>1. CASE ~semaphore[i].tracked
        BY <2>1 DEF IInv, PermitsAgree
    <2>2. CASE semaphore[i].tracked
        <3>1. Holders(i) = {}
            BY <1>4, <2>2 DEF Forgets
        <3>2. Cardinality(Holders(i)) = 0
            BY <3>1, FS_EmptySet
        <3>3. semaphore[i].free + Cardinality(Holders(i)) = Limit /\ semaphore[i].free \in Nat
            BY <1>3 DEF IInv, PermitsAgree, Semaphore
        <3>q. QED
            BY <3>2, <3>3
    <2>q. QED
        BY <2>1, <2>2
<1>5. ASSUME NEW i \in Ids, i \in kept(KindOf[i]) PROVE semaphore[i].tracked
    BY <1>5
<1> HIDE DEF known, kept
<1>6. ASSUME NEW i \in Ids
      PROVE  /\ LookedUp(c)[i] \in Semaphore /\ LookedUp(c)[i].free = semaphore[i].free
             /\ ~LookedUp(c)[i].tracked => LookedUp(c)[i].free = Limit
    <2>1. CASE i \in kept(KindOf[i])
        BY <1>1, <1>3, <1>5, <2>1
    <2>2. CASE i \notin kept(KindOf[i])
        <3>1. LookedUp(c)[i] = [tracked |-> known(i), free |-> Limit]
            BY <1>1, <2>2
        <3>q. QED
            BY <1>2, <1>3, <1>4, <2>2, <3>1 DEF Semaphore
    <2>q. QED
        BY <2>1, <2>2
<1>7. LookedUp(c) \in [Ids -> Semaphore]
    <2>1. LookedUp(c) = [i \in Ids |-> LookedUp(c)[i]]
        BY <1>1
    <2>q. QED
        BY <1>6, <2>1
<1>q. QED
    BY <1>6, <1>7

\* A permit of every ceiling of the target is taken.
LEMMA TakenPreserves ==
    ASSUME IInv, NEW a \in Attempts, NEW table \in [Ids -> Semaphore],
           \A i \in Ids : table[i].free = semaphore[i].free /\ (~table[i].tracked => table[i].free = Limit),
           attempt[a].state = "admitted",
           \A i \in IdsOf(attempt[a].target) : table[i].tracked /\ table[i].free > 0,
           semaphore' = [i \in Ids |-> IF i \in IdsOf(attempt[a].target)
                                       THEN [table[i] EXCEPT !.free = @ - 1] ELSE table[i]],
           attempt' = [attempt EXCEPT ![a].state = "inflight"], UNCHANGED <<now, circuit>>
    PROVE  IInv'
<1> DEFINE c == attempt[a].target
<1>1. /\ now \in Nat \ {0} /\ circuit \in [Domains -> Entry] /\ attempt \in [Attempts -> Attempt]
      /\ semaphore \in [Ids -> Semaphore]
    BY DEF IInv, TypeOK
<1>2. /\ attempt' \in [Attempts -> Attempt]
      /\ \A b \in Attempts : /\ attempt'[b].tokens = attempt[b].tokens
                             /\ attempt'[b].target = attempt[b].target
                             /\ b # a => attempt'[b] = attempt[b]
      /\ attempt'[a].state = "inflight"
    BY <1>1 DEF Attempt, States
<1>3. ASSUME NEW i \in Ids
      PROVE  /\ semaphore'[i] \in Semaphore
             /\ semaphore'[i].free = IF i \in IdsOf(c) THEN semaphore[i].free - 1 ELSE semaphore[i].free
             /\ ~semaphore'[i].tracked => i \notin IdsOf(c) /\ semaphore'[i].free = Limit
    <2> DEFINE n == table[i].free - 1
    <2>1. CASE i \in IdsOf(c)
        <3>1. n \in Nat /\ n = semaphore[i].free - 1 /\ table[i].tracked
            BY <2>1 DEF Semaphore
        <3>2. semaphore'[i] = [table[i] EXCEPT !.free = n]
            BY <2>1
        <3> HIDE DEF n
        <3>q. QED
            BY <2>1, <3>1, <3>2 DEF Semaphore
    <2>2. CASE i \notin IdsOf(c)
        BY <2>2
    <2>q. QED
        BY <2>1, <2>2
<1>4. semaphore' \in [Ids -> Semaphore]
    <2>1. semaphore' = [i \in Ids |-> semaphore'[i]]
        OBVIOUS
    <2>q. QED
        BY <1>3, <2>1
<1>5. TypeOK'
    BY <1>1, <1>2, <1>4 DEF TypeOK
<1>6. EntriesAgree'
    BY DEF IInv, EntriesAgree
<1>7. TokensAgree'
    BY <1>2 DEF IInv, TokensAgree
<1>8. SlotsAgree'
    <2>1. ASSUME NEW d \in Domains PROVE Probing(d)' = Probing(d)
        BY <1>2 DEF Probing
    <2>q. QED
        BY <2>1 DEF IInv, SlotsAgree
<1>9. \A b \in Attempts : /\ IdsOf(attempt'[b].target) = IdsOf(attempt[b].target)
                            /\ attempt'[b].state = IF b = a THEN "inflight" ELSE attempt[b].state
    BY <1>2
<1>10. ASSUME NEW i \in Ids
      PROVE  /\ semaphore'[i].free + Cardinality(Holders(i)') = Limit
             /\ ~semaphore'[i].tracked => semaphore'[i].free = Limit
    <2>1. /\ a \notin Holders(i) /\ semaphore[i].free + Cardinality(Holders(i)) = Limit
          /\ semaphore[i].free \in Nat
        BY <1>1 DEF Holders, IInv, PermitsAgree, Semaphore
    <2>2. CASE i \in IdsOf(c)
        <3>1. Holders(i)' = Holders(i) \cup {a}
            BY <1>9, <2>2 DEF Holders
        <3>2. Cardinality(Holders(i) \cup {a}) = Cardinality(Holders(i)) + 1
            BY <2>1, CountsFinite, FS_AddElement
        <3>3. semaphore'[i].free = semaphore[i].free - 1 /\ semaphore'[i].tracked
            BY <1>3, <2>2
        <3>4. Cardinality(Holders(i)) \in Nat /\ Limit \in Nat
            BY CountsFinite, CircuitAssumption
        <3>5. semaphore'[i].free + Cardinality(Holders(i)') = Limit
            BY <2>1, <3>1, <3>2, <3>3, <3>4
        <3>q. QED
            BY <3>3, <3>5
    <2>3. CASE i \notin IdsOf(c)
        <3>1. Holders(i)' = Holders(i)
            BY <1>9, <2>1, <2>3 DEF Holders
        <3>q. QED
            BY <1>3, <2>1, <2>3, <3>1
    <2>q. QED
        BY <2>2, <2>3
<1>11. PermitsAgree'
    BY <1>10 DEF PermitsAgree
<1>q. QED
    BY <1>5, <1>6, <1>7, <1>8, <1>11 DEF IInv

LEMMA AcquireCapacityPreserves ==
    ASSUME IInv, NEW a \in Attempts, AcquireCapacity(a)
    PROVE  /\ IInv'
           /\ \/ UNCHANGED circuit
              \/ attempt' = [attempt EXCEPT ![a] = NoAttempt] /\ \A d \in Domains : Leaves(a, d)
<1> DEFINE c == attempt[a].target
           table == LookedUp(c)
           fits == \A i \in IdsOf(c) : table[i].tracked /\ table[i].free > 0
<1>1. /\ table \in [Ids -> Semaphore]
      /\ \A i \in Ids : table[i].free = semaphore[i].free /\ (~table[i].tracked => table[i].free = Limit)
    BY LookedUpFits
<1>2. attempt[a].state = "admitted" /\ now' = now
    BY DEF AcquireCapacity
<1>3. CASE /\ fits
           /\ semaphore' = [i \in Ids |-> IF i \in IdsOf(c) THEN [table[i] EXCEPT !.free = @ - 1]
                                          ELSE table[i]]
           /\ attempt' = [attempt EXCEPT ![a].state = "inflight"]
           /\ UNCHANGED circuit
    <2> HIDE DEF table
    <2>q. QED
        BY <1>1, <1>2, <1>3, TakenPreserves
<1>4. CASE /\ ~fits
           /\ circuit' = Released(a)
           /\ attempt' = [attempt EXCEPT ![a] = NoAttempt]
           /\ semaphore' = table
    <2>1. circuit' \in [Domains -> Entry] /\ EntriesAgree' /\ \A d \in Domains : Leaves(a, d)
        BY <1>4, ReleasedFits
    <2>2. ASSUME NEW i \in Ids PROVE Holders(i)' = Holders(i)
        BY <1>2, <1>4, NoAttemptTyped DEF Holders, IInv, TypeOK
    <2>3. PermitsAgree'
        BY <1>1, <1>4, <2>2 DEF IInv, PermitsAgree
    <2> HIDE DEF table, fits
    <2>4. semaphore' \in [Ids -> Semaphore]
        BY <1>1, <1>4
    <2>5. IInv'
        BY <1>2, <1>4, <2>1, <2>3, <2>4, EndPreserves
    <2>q. QED
        BY <1>4, <2>1, <2>5
<1>q. QED
    BY <1>3, <1>4 DEF AcquireCapacity

\* The permits of the attempt come back.
LEMMA EndsFits ==
    ASSUME IInv, NEW a \in Attempts, Ends(a)
    PROVE  /\ attempt' = [attempt EXCEPT ![a] = NoAttempt] /\ now' = now
           /\ semaphore' \in [Ids -> Semaphore] /\ PermitsAgree'
<1>1. /\ attempt \in [Attempts -> Attempt] /\ semaphore \in [Ids -> Semaphore]
    BY DEF IInv, TypeOK
<1>2. /\ attempt' = [attempt EXCEPT ![a] = NoAttempt] /\ now' = now
      /\ semaphore' = [i \in Ids |-> IF a \in Holders(i) THEN [semaphore[i] EXCEPT !.free = @ + 1]
                                     ELSE semaphore[i]]
    BY DEF Ends
<1>3. ASSUME NEW i \in Ids
      PROVE  /\ semaphore'[i] \in Semaphore
             /\ semaphore'[i].free + Cardinality(Holders(i)') = Limit
             /\ ~semaphore'[i].tracked => semaphore'[i].free = Limit
    <2> DEFINE n == semaphore[i].free + 1
    <2>1. /\ semaphore[i].free + Cardinality(Holders(i)) = Limit /\ semaphore[i].free \in Nat
          /\ ~semaphore[i].tracked => semaphore[i].free = Limit
        BY <1>1 DEF IInv, PermitsAgree, Semaphore
    <2>2. Holders(i)' = Holders(i) \ {a}
        BY <1>1, <1>2, NoAttemptTyped DEF Holders
    <2>3. Cardinality(Holders(i) \ {a}) =
              IF a \in Holders(i) THEN Cardinality(Holders(i)) - 1 ELSE Cardinality(Holders(i))
        BY CountsFinite, FS_RemoveElement
    <2>4. CASE a \in Holders(i)
        <3>1. Cardinality(Holders(i)) # 0
            BY <2>4, CountsFinite, FS_EmptySet
        <3>2. semaphore[i].tracked
            BY <2>1, <3>1, CountsFinite
        <3>3. n \in Nat /\ semaphore'[i] = [semaphore[i] EXCEPT !.free = n]
            BY <1>2, <2>1, <2>4
        <3>4. n + Cardinality(Holders(i)') = Limit
            BY <2>1, <2>2, <2>3, <2>4, CountsFinite
        <3> HIDE DEF n
        <3>q. QED
            BY <1>1, <3>2, <3>3, <3>4 DEF Semaphore
    <2>5. CASE a \notin Holders(i)
        BY <1>1, <1>2, <2>1, <2>2, <2>3, <2>5
    <2>q. QED
        BY <2>4, <2>5
<1>4. semaphore' \in [Ids -> Semaphore]
    <2>1. semaphore' = [i \in Ids |-> semaphore'[i]]
        BY <1>2
    <2>q. QED
        BY <1>3, <2>1
<1>q. QED
    BY <1>2, <1>3, <1>4 DEF PermitsAgree

-----------------------------------------------------------------------------
(* Every step                                                               *)

\* The open period of d stays, or its entry is forgotten, or an attempt leaves it.
Moves(d) ==
    \/ circuit'[d].open = circuit[d].open
    \/ ~Kept(circuit[d])
    \/ \E a \in Attempts : attempt'[a].state = "idle" /\ Leaves(a, d)

\* An attempt that ended is idle, so that the domains it left have moved.
LEMMA EndMoves ==
    ASSUME IInv, NEW a \in Attempts, attempt' = [attempt EXCEPT ![a] = NoAttempt],
           \A d \in Domains : Leaves(a, d)
    PROVE  \A d \in Domains : Moves(d)
<1>1. attempt'[a].state = "idle"
    BY NoAttemptTyped DEF IInv, TypeOK
<1>q. QED
    BY <1>1 DEF Moves

LEMMA TickPreserves == ASSUME IInv, Tick PROVE IInv' /\ \A d \in Domains : Moves(d)
<1>1. now' = now + 1 /\ UNCHANGED <<circuit, semaphore, attempt>>
    BY DEF Tick
<1>2. circuit' \in [Domains -> Entry] /\ EntriesAgree' /\ \A d \in Domains : Keeps(d)
    BY <1>1 DEF IInv, TypeOK, EntriesAgree, Keeps
<1>3. now' \in {now, now + 1}
    BY <1>1
<1>4. IInv'
    BY <1>1, <1>2, <1>3, QuietPreserves
<1>q. QED
    BY <1>1, <1>4 DEF Moves

LEMMA LocalHealthPreserves ==
    ASSUME IInv, NEW c \in Candidates, LocalHealth(c)
    PROVE  IInv' /\ \A d \in Domains : Moves(d)
<1>1. now \in Nat /\ circuit \in [Domains -> Entry]
    BY DEF IInv, TypeOK
<1>2. /\ circuit' = [d \in Domains |-> IF d \in Domain(c) /\ circuit[d].tracked
                                       THEN FinishRecovery(circuit[d]) ELSE circuit[d]]
      /\ now' = now /\ UNCHANGED <<semaphore, attempt>>
    BY DEF LocalHealth
<1>3. ASSUME NEW d \in Domains
      PROVE  /\ circuit'[d] \in Entry /\ circuit'[d].open = circuit[d].open
             /\ circuit'[d].inflight = circuit[d].inflight
             /\ ~circuit'[d].tracked => circuit'[d] = FreshEntry
    <2>1. CASE d \in Domain(c) /\ circuit[d].tracked
        <3>1. circuit'[d] = FinishRecovery(circuit[d])
            BY <1>2, <2>1
        <3>q. QED
            BY <1>1, <2>1, <3>1, TouchedTyped
    <2>2. CASE ~(d \in Domain(c) /\ circuit[d].tracked)
        BY <1>1, <1>2, <2>2 DEF IInv, EntriesAgree
    <2>q. QED
        BY <2>1, <2>2
<1>4. circuit' \in [Domains -> Entry]
    <2>1. circuit' = [d \in Domains |-> circuit'[d]]
        BY <1>2
    <2>q. QED
        BY <1>3, <2>1
<1>5. EntriesAgree' /\ \A d \in Domains : Keeps(d)
    BY <1>3 DEF EntriesAgree, Keeps
<1>6. IInv'
    BY <1>2, <1>4, <1>5, QuietPreserves
<1>q. QED
    BY <1>3, <1>6 DEF Moves

\* A refusal and a table that stays full leave everybody's tokens.
LEMMA QuietMoves == ASSUME NEW d, Keeps(d) PROVE Moves(d)
BY DEF Keeps, Moves

LEMMA AcquireCircuitsPreserves ==
    ASSUME IInv, NEW a \in Attempts, NEW c \in Candidates, AcquireCircuits(a, c)
    PROVE  IInv' /\ \A d \in Domains : Moves(d)
<1>1. attempt[a].state = "idle" /\ now' = now /\ semaphore' = semaphore
    BY DEF AcquireCircuits
<1>2. now' \in {now, now + 1}
    BY <1>1
<1>3. CASE circuit' = Evicted /\ UNCHANGED attempt
    <2>1. circuit' \in [Domains -> Entry]
        BY <1>3, EvictedFits
    <2>2. EntriesAgree' /\ \A d \in Domains : Keeps(d)
        BY <1>1, <1>3, <2>1, TouchingFits
    <2>3. IInv'
        BY <1>1, <1>2, <1>3, <2>1, <2>2, QuietPreserves
    <2>q. QED
        BY <2>2, <2>3, QuietMoves
<1>4. CASE Admitted(a, c)
    <2>1. IInv' /\ \A d \in Domains : circuit'[d].open = Evicted[d].open
        BY <1>1, <1>4, AdmittedPreserves
    <2>q. QED
        BY <2>1, EvictedFits DEF Moves
<1>5. ASSUME NEW i \in DOMAIN DomainsOf[c], Refused(c, i)
      PROVE  IInv' /\ \A d \in Domains : Moves(d)
    <2>1. UNCHANGED attempt
        BY <1>5 DEF Refused
    <2>2. circuit' \in [Domains -> Entry] /\ EntriesAgree' /\ \A d \in Domains : Keeps(d)
        BY <1>1, <1>5, RefusedFits
    <2>3. IInv'
        BY <1>1, <1>2, <2>1, <2>2, QuietPreserves
    <2>q. QED
        BY <2>2, <2>3, QuietMoves
<1>q. QED
    BY <1>3, <1>4, <1>5 DEF AcquireCircuits

LEMMA NextPreserves == ASSUME IInv, [Next]_vars PROVE IInv' /\ \A d \in Domains : Moves(d)
<1>1. CASE UNCHANGED vars
    BY <1>1 DEF vars, IInv, TypeOK, EntriesAgree, TokensAgree, SlotsAgree, PermitsAgree,
                Probing, Holders, Moves
<1>2. CASE Tick
    BY <1>2, TickPreserves
<1>3. ASSUME NEW c \in Candidates, LocalHealth(c) PROVE IInv' /\ \A d \in Domains : Moves(d)
    BY <1>3, LocalHealthPreserves
<1>4. ASSUME NEW c \in Candidates, NEW a \in Attempts, AcquireCircuits(a, c)
      PROVE  IInv' /\ \A d \in Domains : Moves(d)
    BY <1>4, AcquireCircuitsPreserves
<1>5. ASSUME NEW a \in Attempts, AcquireCapacity(a) PROVE IInv' /\ \A d \in Domains : Moves(d)
    <2>1. CASE UNCHANGED circuit
        BY <1>5, <2>1, AcquireCapacityPreserves DEF Moves
    <2>2. CASE attempt' = [attempt EXCEPT ![a] = NoAttempt] /\ \A d \in Domains : Leaves(a, d)
        BY <1>5, <2>2, AcquireCapacityPreserves, EndMoves
    <2>q. QED
        BY <1>5, <2>1, <2>2, AcquireCapacityPreserves
<1>6. ASSUME NEW a \in Attempts, Drop(a) PROVE IInv' /\ \A d \in Domains : Moves(d)
    <2>1. Ends(a) /\ circuit' = Released(a)
        BY <1>6 DEF Drop
    <2>2. circuit' \in [Domains -> Entry] /\ EntriesAgree' /\ \A d \in Domains : Leaves(a, d)
        BY <2>1, ReleasedFits
    <2>3. /\ attempt' = [attempt EXCEPT ![a] = NoAttempt] /\ now' = now
          /\ semaphore' \in [Ids -> Semaphore] /\ PermitsAgree'
        BY <2>1, EndsFits
    <2>q. QED
        BY <2>2, <2>3, EndPreserves, EndMoves
<1>7. ASSUME NEW a \in Attempts, NEW success \in BOOLEAN, Observe(a, success)
      PROVE  IInv' /\ \A d \in Domains : Moves(d)
    <2>1. Ends(a) /\ circuit' = Observed(a, success)
        BY <1>7 DEF Observe
    <2>2. circuit' \in [Domains -> Entry] /\ EntriesAgree' /\ \A d \in Domains : Leaves(a, d)
        BY <2>1, ObservedFits
    <2>3. /\ attempt' = [attempt EXCEPT ![a] = NoAttempt] /\ now' = now
          /\ semaphore' \in [Ids -> Semaphore] /\ PermitsAgree'
        BY <2>1, EndsFits
    <2>q. QED
        BY <2>2, <2>3, EndPreserves, EndMoves
<1>q. QED
    BY <1>1, <1>2, <1>3, <1>4, <1>5, <1>6, <1>7 DEF Next

LEMMA InitEstablishes == Init => IInv
<1> SUFFICES ASSUME Init PROVE IInv
    OBVIOUS
<1>1. TypeOK
    <2>1. now = 1 /\ circuit = [d \in Domains |-> FreshEntry] /\ attempt = [a \in Attempts |-> NoAttempt]
        BY DEF Init
    <2>2. semaphore \in [Ids -> Semaphore]
        BY CircuitAssumption DEF Init, Semaphore
    <2>q. QED
        BY <2>1, <2>2, FreshTyped, NoAttemptTyped DEF TypeOK
<1>2. EntriesAgree
    BY DEF Init, EntriesAgree
<1>3. TokensAgree
    BY NoAttemptTyped DEF Init, TokensAgree
<1>4. SlotsAgree
    <2>1. ASSUME NEW d \in Domains PROVE Probing(d) = {}
        BY NoAttemptTyped DEF Init, Probing
    <2>2. \A d \in Domains : circuit[d].inflight = 0
        BY FreshTyped DEF Init
    <2>q. QED
        BY <2>1, <2>2, FS_EmptySet DEF SlotsAgree
<1>5. PermitsAgree
    <2>1. ASSUME NEW i \in Ids PROVE Holders(i) = {}
        BY NoAttemptTyped DEF Init, Holders
    <2>2. \A i \in Ids : Cardinality(Holders(i)) = 0
        BY <2>1, FS_EmptySet
    <2>3. \A i \in Ids : semaphore[i].free = Limit
        BY DEF Init
    <2>q. QED
        BY <2>1, <2>2, <2>3, CircuitAssumption DEF PermitsAgree
<1>q. QED
    BY <1>1, <1>2, <1>3, <1>4, <1>5 DEF IInv

-----------------------------------------------------------------------------
(* The results                                                              *)

\* Entries, tokens, slots and permits agree in every state that the circuits and
\* the in-flight ceilings of protection.rs can reach.
THEOREM CircuitInvariant == Spec => []IInv
<1>1. Init => IInv
    BY InitEstablishes
<1>2. IInv /\ [Next]_vars => IInv'
    BY NextPreserves
<1>q. QED
    BY <1>1, <1>2, PTL DEF Spec

\* Every counter, instant and number of free permits is a natural number: what
\* protection.rs subtracts from is never zero.
THEOREM TypeCorrect == Spec => []TypeOK
<1>1. IInv => TypeOK
    BY DEF IInv
<1>q. QED
    BY <1>1, CircuitInvariant, PTL

\* half_open_in_flight counts the attempts of the present open period, and the free
\* permits of a ceiling are those nobody holds: release_circuit_tokens and the
\* observations give back what acquire_circuits took, and no table loses any.
THEOREM PermitsAlwaysConserved == Spec => []PermitsConserved
<1>1. ASSUME IInv PROVE PermitsConserved
    <2>1. \A d \in Domains : circuit[d].inflight = Cardinality(Probing(d))
        BY <1>1 DEF IInv, SlotsAgree
    <2>2. \A i \in Ids : semaphore[i].free \in Nat
        BY <1>1 DEF IInv, TypeOK, Semaphore
    <2>3. \A i \in Ids : semaphore[i].free + Cardinality(Holders(i)) = Limit
        BY <1>1 DEF IInv, PermitsAgree
    <2>q. QED
        BY <2>1, <2>2, <2>3 DEF PermitsConserved
<1>2. IInv => PermitsConserved
    BY <1>1
<1>q. QED
    BY <1>2, CircuitInvariant, PTL

\* A circuit in use closes only on the result of an attempt that its present open
\* period admitted: observe_circuits compares the token with the period.
THEOREM ClosesOnlyOnOwnEvidence == Spec => ClosesOnOwnEvidence
<1> DEFINE Evidence ==
        \A d \in Domains :
          circuit[d].open # 0 /\ circuit'[d].open = 0 /\ InUse(d) =>
              /\ circuit[d].open <= now
              /\ \E a \in Probing(d) : attempt'[a].state = "idle"
<1>1. ASSUME IInv, [Next]_vars, NEW d \in Domains,
             circuit[d].open # 0, circuit'[d].open = 0, InUse(d)
      PROVE  circuit[d].open <= now /\ \E a \in Probing(d) : attempt'[a].state = "idle"
    <2>1. Moves(d) /\ now \in Nat /\ circuit[d].inflight \in Nat
        BY <1>1, NextPreserves DEF IInv, TypeOK, Entry
    <2>2. Kept(circuit[d])
        <3>1. Probing(d) # {} => circuit[d].inflight > 0
            BY <1>1, <2>1, NobodyProbes
        <3>q. QED
            BY <1>1, <3>1 DEF InUse, Kept
    <2>3. PICK a \in Attempts : attempt'[a].state = "idle" /\ Leaves(a, d)
        BY <1>1, <2>1, <2>2 DEF Moves
    <2>4. a \in Probing(d)
        BY <1>1, <2>1, <2>3 DEF Leaves
    <2>q. QED
        BY <1>1, <2>3, <2>4, ProbingHolds
<1>2. IInv /\ [Next]_vars => [Evidence]_vars
    BY <1>1 DEF Evidence
<1> HIDE DEF Evidence
<1>3. Spec => [][Evidence]_vars
    BY <1>2, CircuitInvariant, PTL DEF Spec
<1>q. QED
    BY <1>3 DEF Evidence, ClosesOnOwnEvidence

-----------------------------------------------------------------------------
(* Target probes and shared health                                           *)

WaitRow == [at : {"lease", "granted", "refused", "read", "request"}, binding : Bindings,
            token : Nat, since : Nat]
CaptureRow == [at : {"capture"}, captured : Revisions]
AnsweredRow == [at : {"answered"}, binding : Bindings, token : Nat,
                outcome : {"success", "failure", "no_evidence"}, captured : Revisions]
PutRow == [at : {"put"}, binding : Bindings, token : Nat, effect : SUBSET BOOLEAN, observed : Nat]
SeenRow == [at : {"seen"}, binding : Bindings, since : Nat, effect : SUBSET BOOLEAN, remaining : Int]

PlanRow == [revision : Revisions \cup {0}, binding : Bindings \cup {None}]
LeaseRow == [owner : Nat, until : Nat]
SharedRow == [effect : SUBSET BOOLEAN, observed : Nat, until : Nat]
ObservationRow == [binding : Bindings, effect : SUBSET BOOLEAN, own : BOOLEAN, fresh : Int]

\* A probe that holds a lease token.
HasToken(row) == row.at \in {"lease", "granted", "refused", "read", "request", "answered", "put"}

\* What may go with a state of unfitness of a binding: it was found no earlier
\* than this many instants before t.
FoundSince(b, t, span) == evidence[b] # None /\ t <= evidence[b] + span

\* A stored summary was observed before, and outlives what was found by at most
\* the interval its probe may take and its own lifetime.
SummaryFound(b) ==
    shared[b] # None =>
        /\ shared[b] \in SharedRow /\ shared[b].observed <= instant
        /\ FALSE \in shared[b].effect => FoundSince(b, shared[b].until, Interval + SummaryTtl)

\* An observation is not used longer than UseSpan after what was found.
ObservationFound(p) ==
    observation[p] # None =>
        /\ observation[p] \in ObservationRow
        /\ FALSE \in observation[p].effect =>
              FoundSince(observation[p].binding, observation[p].fresh, UseSpan)

LeaseShape(b) ==
    /\ lease[b] \in LeaseRow /\ lease[b].owner <= tokens
    /\ lease[b] # NoLease => instant < lease[b].until /\ lease[b].until <= instant + Interval

\* A result to be shared whose probe still has the lease is newer than the stored
\* summary, and was observed within the lease.
ResultFound(x) ==
    LET row == probe[x]
        b == row.binding
    IN  /\ row.observed <= instant
        /\ lease[b].owner = row.token =>
              /\ shared[b] # None => shared[b].observed <= row.observed
              /\ lease[b].until <= row.observed + Interval
        /\ FALSE \in row.effect => evidence[b] # None /\ row.observed <= evidence[b]

\* A summary that was read has no more time left than it had.
ReadFound(x) ==
    LET row == probe[x]
    IN  FALSE \in row.effect => FoundSince(row.binding, row.since + row.remaining, Interval + SummaryTtl)

ProbeFound(x) ==
    /\ probe[x] \in {Idle} \cup CaptureRow \cup WaitRow \cup AnsweredRow \cup PutRow \cup SeenRow
    /\ HasToken(probe[x]) => probe[x].token \in 1 .. tokens
    /\ probe[x].at \in {"lease", "granted", "refused", "read", "request", "seen"} => probe[x].since <= instant
    /\ probe[x].at = "put" => ResultFound(x)
    /\ probe[x].at = "seen" => ReadFound(x)

ProbesType ==
    /\ instant \in Nat /\ tokens \in Nat
    /\ published \in [Processes -> Revisions] /\ plan \in [Processes -> PlanRow]
    /\ DOMAIN probe = Probes /\ DOMAIN lease = Bindings /\ DOMAIN shared = Bindings
    /\ DOMAIN observation = Processes /\ DOMAIN evidence = Bindings
    /\ \A b \in Bindings : evidence[b] # None => evidence[b] \in Nat /\ evidence[b] <= instant

\* No two probes have the same token.
TokensDiffer ==
    \A x, y \in Probes : x # y /\ HasToken(probe[x]) /\ HasToken(probe[y]) => probe[x].token # probe[y].token

ProbeInv ==
    /\ ProbesType /\ TokensDiffer
    /\ \A b \in Bindings : LeaseShape(b) /\ SummaryFound(b)
    /\ \A p \in Processes : ObservationFound(p)
    /\ \A x \in Probes : ProbeFound(x)

-----------------------------------------------------------------------------
(* What the steps of others leave                                            *)

\* What was found stays found: evidence only moves forward.
EvidenceGrows == \A b \in Bindings : evidence[b] # None => evidence'[b] # None /\ evidence'[b] >= evidence[b]

\* Time, tokens and evidence go on.
Onward ==
    /\ instant' \in Nat /\ instant' >= instant /\ tokens' \in Nat /\ tokens' >= tokens
    /\ DOMAIN evidence' = Bindings /\ EvidenceGrows
    /\ \A b \in Bindings : evidence'[b] # None => evidence'[b] \in Nat /\ evidence'[b] <= instant'

\* The spans of the policy are numbers.
LEMMA SpansTyped ==
    /\ Interval \in Nat /\ Interval > 0 /\ SummaryTtl \in Nat /\ StaleAfter \in Nat /\ CommandTimeout \in Nat
    /\ UseSpan \in Nat /\ UseSpan >= StaleAfter /\ UseSpan >= Interval + SummaryTtl + CommandTimeout
<1>1. Interval \in Nat /\ Interval > 0 /\ SummaryTtl \in Nat /\ StaleAfter \in Nat /\ CommandTimeout \in Nat
    BY ProbeAssumption
<1> QED BY <1>1 DEF UseSpan

\* The model's own lease, plan and token bounds of a probe that did not move.
LEMMA OthersKept ==
    ASSUME ProbeInv, Onward, NEW y \in Probes, probe'[y] = probe[y],
           \A b \in Bindings : \/ lease'[b] = lease[b]
                               \/ HasToken(probe[y]) => lease'[b].owner # probe[y].token,
           \A b \in Bindings : \/ shared'[b] = shared[b] \/ shared'[b] = None
                               \/ HasToken(probe[y]) => lease'[b].owner # probe[y].token
    PROVE  ProbeFound(y)'
<1> DEFINE r == probe[y]
           b == r.binding
<1>1. /\ ProbeFound(y) /\ instant \in Nat /\ tokens \in Nat
      /\ \A c \in Bindings : evidence[c] # None => evidence[c] \in Nat /\ evidence[c] <= instant
      /\ \A c \in Bindings : LeaseShape(c) /\ SummaryFound(c)
    BY DEF ProbeInv, ProbesType
<1>2. /\ instant' \in Nat /\ instant' >= instant /\ tokens' \in Nat /\ tokens' >= tokens
      /\ \A c \in Bindings : evidence[c] # None =>
            evidence'[c] # None /\ evidence'[c] >= evidence[c] /\ evidence'[c] \in Nat
    BY DEF Onward, EvidenceGrows
<1>3. HasToken(r) => r.token \in 1 .. tokens'
    BY <1>1, <1>2 DEF ProbeFound
<1>4. r.at \in {"lease", "granted", "refused", "read", "request", "seen"} => r.since <= instant'
    <2>1. SUFFICES ASSUME r.at \in {"lease", "granted", "refused", "read", "request", "seen"}
          PROVE r.since <= instant'
        OBVIOUS
    <2>2. r \in WaitRow \/ r \in SeenRow
        BY <1>1, <2>1 DEF ProbeFound, Idle, WaitRow, CaptureRow, AnsweredRow, PutRow, SeenRow
    <2>3. r.since \in Nat
        BY <2>2 DEF WaitRow, SeenRow
    <2> QED BY <1>1, <1>2, <2>1, <2>3 DEF ProbeFound
<1>5. ASSUME r.at = "put"  PROVE ResultFound(y)'
    <2>1. r \in PutRow
        BY <1>1, <1>5 DEF ProbeFound, Idle, WaitRow, CaptureRow, AnsweredRow, PutRow, SeenRow
    <2>2. b \in Bindings /\ r.token \in Nat /\ r.observed \in Nat
        BY <2>1 DEF PutRow
    <2>3. ResultFound(y)
        BY <1>1, <1>5 DEF ProbeFound
    <2>4. HasToken(r)
        BY <1>5 DEF HasToken
    <2>5. lease'[b].owner = r.token => /\ lease'[b] = lease[b]
                                       /\ shared'[b] = shared[b] \/ shared'[b] = None
        BY <2>2, <2>4
    <2>6. r.observed <= instant'
        BY <1>1, <1>2, <2>2, <2>3 DEF ResultFound
    <2>7. FALSE \in r.effect => evidence'[b] # None /\ r.observed <= evidence'[b]
        BY <1>1, <1>2, <2>2, <2>3 DEF ResultFound
    <2>8. lease'[b].owner = r.token => /\ shared'[b] # None => shared'[b].observed <= r.observed
                                       /\ lease'[b].until <= r.observed + Interval
        BY <2>3, <2>5 DEF ResultFound
    <2> QED BY <2>6, <2>7, <2>8 DEF ResultFound
<1>6. ASSUME r.at = "seen"  PROVE ReadFound(y)'
    <2>1. r \in SeenRow
        BY <1>1, <1>6 DEF ProbeFound, Idle, WaitRow, CaptureRow, AnsweredRow, PutRow, SeenRow
    <2>2. b \in Bindings /\ r.since + r.remaining \in Int
        BY <2>1 DEF SeenRow
    <2>3. FALSE \in r.effect => evidence[b] # None /\ r.since + r.remaining <= evidence[b] + (Interval + SummaryTtl)
        BY <1>1, <1>6 DEF ProbeFound, ReadFound, FoundSince
    <2>4. FALSE \in r.effect => evidence'[b] # None /\ r.since + r.remaining <= evidence'[b] + (Interval + SummaryTtl)
        BY <1>1, <1>2, <2>2, <2>3, SpansTyped
    <2> QED BY <2>4 DEF ReadFound, FoundSince
<1> QED BY <1>1, <1>3, <1>4, <1>5, <1>6 DEF ProbeFound

\* What is stored of a binding stays founded.
LEMMA SummaryKept ==
    ASSUME ProbeInv, Onward, NEW b \in Bindings, shared'[b] = shared[b] \/ shared'[b] = None
    PROVE  SummaryFound(b)'
<1>1. CASE shared'[b] = None
    BY <1>1 DEF SummaryFound
<1>2. CASE shared'[b] = shared[b] /\ shared[b] # None
    <2>1. SummaryFound(b) /\ instant \in Nat
          /\ (evidence[b] # None => evidence[b] \in Nat /\ evidence'[b] # None /\ evidence'[b] >= evidence[b])
          /\ (evidence'[b] # None => evidence'[b] \in Nat)
        BY DEF ProbeInv, ProbesType, Onward, EvidenceGrows
    <2> DEFINE s == shared[b]
    <2>2. s \in SharedRow /\ s.observed <= instant
        BY <1>2, <2>1 DEF SummaryFound
    <2>3. s.observed \in Nat /\ s.until \in Nat
        BY <2>2 DEF SharedRow
    <2>4. FALSE \in s.effect => evidence[b] # None /\ s.until <= evidence[b] + (Interval + SummaryTtl)
        BY <1>2, <2>1 DEF SummaryFound, FoundSince
    <2> HIDE DEF s
    <2>5. s.observed <= instant'
        BY <2>1, <2>2, <2>3 DEF Onward
    <2>6. FALSE \in s.effect => evidence'[b] # None /\ s.until <= evidence'[b] + (Interval + SummaryTtl)
        BY <2>1, <2>3, <2>4, SpansTyped
    <2> QED BY <1>2, <2>2, <2>5, <2>6 DEF SummaryFound, FoundSince, s
<1> QED BY <1>1, <1>2

\* What a process holds stays founded.
LEMMA ObservationKept ==
    ASSUME ProbeInv, Onward, NEW p \in Processes, observation'[p] = observation[p] \/ observation'[p] = None
    PROVE  ObservationFound(p)'
<1>1. CASE observation'[p] = None
    BY <1>1 DEF ObservationFound
<1>2. CASE observation'[p] = observation[p] /\ observation[p] # None
    <2> DEFINE o == observation[p]
               b == o.binding
    <2>1. o \in ObservationRow
          /\ (FALSE \in o.effect => evidence[b] # None /\ o.fresh <= evidence[b] + UseSpan)
        BY <1>2 DEF ProbeInv, ObservationFound, FoundSince
    <2>2. b \in Bindings /\ o.fresh \in Int
        BY <2>1 DEF ObservationRow
    <2>3. (evidence[b] # None => evidence[b] \in Nat /\ evidence'[b] # None /\ evidence'[b] >= evidence[b])
          /\ (evidence'[b] # None => evidence'[b] \in Nat)
        BY <2>2 DEF ProbeInv, ProbesType, Onward, EvidenceGrows
    <2>4. FALSE \in o.effect => evidence'[b] # None /\ o.fresh <= evidence'[b] + UseSpan
        BY <2>1, <2>2, <2>3, SpansTyped
    <2> QED BY <1>2, <2>1, <2>4 DEF ObservationFound, FoundSince
<1> QED BY <1>1, <1>2

\* Leases of a step that takes no time and gives none.
LEMMA LeaseKept ==
    ASSUME ProbeInv, NEW b \in Bindings, lease'[b] = lease[b], instant' = instant,
           tokens' \in Nat, tokens' >= tokens
    PROVE  LeaseShape(b)'
<1>1. LeaseShape(b) /\ tokens \in Nat
    BY DEF ProbeInv, ProbesType
<1>2. lease[b].owner \in Nat
    BY <1>1 DEF LeaseShape, LeaseRow
<1> QED BY <1>1, <1>2 DEF LeaseShape

\* Nothing found, nothing lost.
LEMMA SameEvidence ==
    ASSUME ProbeInv, evidence' = evidence, instant' = instant, tokens' \in Nat, tokens' >= tokens
    PROVE  Onward
<1>1. \A b \in Bindings : evidence[b] # None => evidence[b] \in Nat /\ evidence[b] <= instant
    BY DEF ProbeInv, ProbesType
<1>2. instant \in Nat /\ DOMAIN evidence = Bindings
    BY DEF ProbeInv, ProbesType
<1> QED BY <1>1, <1>2 DEF Onward, EvidenceGrows


\* The fields of a probe at a step of its task.
LEMMA RowKinds ==
    ASSUME ProbeInv, NEW x \in Probes
    PROVE  /\ probe[x].at \in {"lease", "granted", "refused", "read", "request"} => probe[x] \in WaitRow
           /\ probe[x].at = "capture" => probe[x] \in CaptureRow
           /\ probe[x].at = "answered" => probe[x] \in AnsweredRow
           /\ probe[x].at = "put" => probe[x] \in PutRow
           /\ probe[x].at = "seen" => probe[x] \in SeenRow
           /\ HasToken(probe[x]) => probe[x].token \in 1 .. tokens
           /\ x[1] \in Processes /\ ProbeFound(x)
<1>1. ProbeFound(x)
    BY DEF ProbeInv
<1>2. x[1] \in Processes
    BY ProbeAssumption DEF Probes
<1> QED BY <1>1, <1>2 DEF ProbeFound, Idle, WaitRow, CaptureRow, AnsweredRow, PutRow, SeenRow

\* One task moves: what it becomes is founded, the tokens stay different, and
\* the lease and the summary that change are not those of another task.
LEMMA TaskMoves ==
    ASSUME ProbeInv, Onward, NEW x \in Probes, NEW row, probe' = [probe EXCEPT ![x] = row], ProbeFound(x)',
           HasToken(row) => \A y \in Probes \ {x} : HasToken(probe[y]) => row.token # probe[y].token,
           published' \in [Processes -> Revisions], plan' \in [Processes -> PlanRow],
           DOMAIN lease' = Bindings, DOMAIN shared' = Bindings, DOMAIN observation' = Processes,
           \A b \in Bindings : LeaseShape(b)' /\ SummaryFound(b)',
           \A p \in Processes : ObservationFound(p)',
           \A y \in Probes \ {x} : HasToken(probe[y]) => \A b \in Bindings :
               /\ lease'[b] = lease[b] \/ lease'[b].owner # probe[y].token
               /\ shared'[b] = shared[b] \/ shared'[b] = None \/ lease'[b].owner # probe[y].token
    PROVE  ProbeInv'
<1>1. DOMAIN probe = Probes /\ DOMAIN probe' = Probes /\ probe'[x] = row
      /\ \A y \in Probes \ {x} : probe'[y] = probe[y]
    BY DEF ProbeInv, ProbesType
<1>2. ASSUME NEW y \in Probes \ {x}  PROVE ProbeFound(y)'
    <2>1. probe'[y] = probe[y]
        BY <1>1
    <2>2. \A b \in Bindings : lease'[b] = lease[b] \/ (HasToken(probe[y]) => lease'[b].owner # probe[y].token)
        OBVIOUS
    <2>3. \A b \in Bindings : shared'[b] = shared[b] \/ shared'[b] = None
                              \/ (HasToken(probe[y]) => lease'[b].owner # probe[y].token)
        OBVIOUS
    <2> QED BY <2>1, <2>2, <2>3, OthersKept
<1>3. TokensDiffer'
    BY <1>1 DEF ProbeInv, TokensDiffer
<1>4. ProbesType'
    BY <1>1 DEF ProbesType, Onward
<1> QED BY <1>2, <1>3, <1>4 DEF ProbeInv

\* A task moves without a call that writes to Redis, and observes nothing.
LEMMA QuietTask ==
    ASSUME ProbeInv, NEW x \in Probes, NEW row, probe' = [probe EXCEPT ![x] = row],
           ProbeFound(x)', tokens' \in Nat, tokens' >= tokens,
           HasToken(row) => \A y \in Probes \ {x} : HasToken(probe[y]) => row.token # probe[y].token,
           UNCHANGED <<instant, published, lease, shared, evidence>>,
           plan' \in [Processes -> PlanRow], DOMAIN observation' = Processes,
           \A p \in Processes : ObservationFound(p)'
    PROVE  ProbeInv'
<1>1. Onward
    BY SameEvidence
<1>2. \A b \in Bindings : LeaseShape(b)' /\ SummaryFound(b)'
    BY <1>1, LeaseKept, SummaryKept
<1>3. /\ published' \in [Processes -> Revisions] /\ DOMAIN lease' = Bindings /\ DOMAIN shared' = Bindings
      /\ lease' = lease /\ shared' = shared
    BY DEF ProbeInv, ProbesType
<1> QED BY <1>1, <1>2, <1>3, TaskMoves

\* The tokens a task keeps are its own.
LEMMA OwnToken ==
    ASSUME ProbeInv, NEW x \in Probes, HasToken(probe[x]), NEW y \in Probes \ {x}, HasToken(probe[y])
    PROVE  probe[x].token # probe[y].token
BY DEF ProbeInv, TokensDiffer

\* A waiting task goes on to another step, with the time the step began.
LEMMA WaitingTask ==
    ASSUME ProbeInv, NEW x \in Probes, probe[x] \in WaitRow, NEW row \in WaitRow,
           row.token = probe[x].token, row.since <= instant, probe' = [probe EXCEPT ![x] = row],
           UNCHANGED <<instant, published, plan, tokens, lease, shared, observation, evidence>>
    PROVE  ProbeInv'
<1>1. HasToken(probe[x]) /\ HasToken(row)
    BY DEF WaitRow, HasToken
<1>2. probe[x].token \in 1 .. tokens /\ instant \in Nat /\ tokens \in Nat /\ DOMAIN probe = Probes
    BY <1>1, RowKinds DEF ProbeInv, ProbesType
<1>3. probe'[x] = row
    BY <1>2
<1>4. ProbeFound(x)'
    BY <1>1, <1>2, <1>3 DEF ProbeFound, WaitRow
<1>5. \A y \in Probes \ {x} : HasToken(probe[y]) => row.token # probe[y].token
    BY <1>1, OwnToken
<1>6. plan' \in [Processes -> PlanRow] /\ DOMAIN observation' = Processes
    BY DEF ProbeInv, ProbesType
<1>7. \A p \in Processes : ObservationFound(p)'
    BY <1>2, SameEvidence, ObservationKept
<1>8. tokens' \in Nat /\ tokens' >= tokens /\ UNCHANGED <<instant, published, lease, shared, evidence>>
    BY <1>2
<1> QED BY <1>4, <1>5, <1>6, <1>7, <1>8, QuietTask

\* A task is over.
LEMMA TaskEnds ==
    ASSUME ProbeInv, NEW x \in Probes, probe' = [probe EXCEPT ![x] = Idle],
           UNCHANGED <<instant, published, tokens, lease, shared, evidence>>,
           plan' \in [Processes -> PlanRow], DOMAIN observation' = Processes,
           \A p \in Processes : ObservationFound(p)'
    PROVE  ProbeInv'
<1>1. DOMAIN probe = Probes /\ tokens \in Nat
    BY DEF ProbeInv, ProbesType
<1>2. probe'[x] = Idle
    BY <1>1
<1>3. ProbeFound(x)' /\ ~HasToken(Idle)
    BY <1>2 DEF ProbeFound, HasToken, Idle
<1>4. tokens' \in Nat /\ tokens' >= tokens
    BY <1>1
<1> HIDE DEF Idle
<1> QED BY <1>3, <1>4, QuietTask

\* A task starts with a new token.
LEMMA TaskStarts ==
    ASSUME ProbeInv, NEW x \in Probes, NEW b \in Bindings, tokens' = tokens + 1,
           probe' = [probe EXCEPT ![x] = [at |-> "lease", binding |-> b, token |-> tokens + 1, since |-> instant]],
           UNCHANGED <<instant, published, lease, shared, evidence>>,
           plan' \in [Processes -> PlanRow], DOMAIN observation' = Processes,
           \A p \in Processes : ObservationFound(p)'
    PROVE  ProbeInv'
<1> DEFINE row == [at |-> "lease", binding |-> b, token |-> tokens + 1, since |-> instant]
<1>1. DOMAIN probe = Probes /\ tokens \in Nat /\ instant \in Nat
    BY DEF ProbeInv, ProbesType
<1>2. row \in WaitRow /\ row.token = tokens + 1 /\ row.since = instant /\ row.at = "lease"
    BY <1>1 DEF WaitRow
<1>3. probe' = [probe EXCEPT ![x] = row]
    OBVIOUS
<1> HIDE DEF row
<1>4. probe'[x] = row
    BY <1>1, <1>3
<1>5. ProbeFound(x)'
    BY <1>1, <1>2, <1>4 DEF ProbeFound
<1>6. \A y \in Probes \ {x} : HasToken(probe[y]) => row.token # probe[y].token
    BY <1>1, <1>2, RowKinds
<1>7. tokens' \in Nat /\ tokens' >= tokens
    BY <1>1
<1> QED BY <1>3, <1>5, <1>6, <1>7, QuietTask

\* The plan of a published or captured revision.
LEMMA PlanTyped ==
    ASSUME ProbeInv, NEW p \in Processes, NEW r \in Revisions, RefreshProbePlan(p, r)
    PROVE  /\ plan' \in [Processes -> PlanRow] /\ plan'[p].binding \in Bindings \cup {None}
           /\ Retained(p, r) = observation[p] \/ Retained(p, r) = None
<1>1. plan \in [Processes -> PlanRow]
    BY DEF ProbeInv, ProbesType
<1>2. BindingOf[r] \in Bindings \cup {None}
    BY ProbeAssumption
<1>3. Planned(p, r) \in PlanRow
    BY <1>1, <1>2 DEF Planned, PlanRow
<1> QED BY <1>1, <1>3 DEF RefreshProbePlan, Retained, PlanRow


\* No task moves.
LEMMA NoTask ==
    ASSUME ProbeInv, UNCHANGED <<instant, probe, tokens, lease, shared, evidence>>,
           published' \in [Processes -> Revisions], plan' \in [Processes -> PlanRow],
           DOMAIN observation' = Processes, \A p \in Processes : ObservationFound(p)'
    PROVE  ProbeInv'
<1>1. Onward /\ tokens' \in Nat /\ tokens' >= tokens
    BY SameEvidence DEF ProbeInv, ProbesType
<1>2. \A b \in Bindings : LeaseShape(b)' /\ SummaryFound(b)'
    BY <1>1, LeaseKept, SummaryKept
<1>3. \A y \in Probes : ProbeFound(y)'
    BY <1>1, OthersKept
<1>4. TokensDiffer' /\ ProbesType'
    BY <1>1 DEF ProbeInv, ProbesType, TokensDiffer, Onward
<1> QED BY <1>2, <1>3, <1>4 DEF ProbeInv

\* Holding on to what is observed, or forgetting it.
LEMMA ObservationsKept ==
    ASSUME ProbeInv, Onward, NEW p \in Processes, NEW o,
           o = observation[p] \/ o = None \/ (observation'[p] = o => ObservationFound(p)'),
           observation' = [observation EXCEPT ![p] = o]
    PROVE  DOMAIN observation' = Processes /\ \A q \in Processes : ObservationFound(q)'
<1>1. DOMAIN observation = Processes
    BY DEF ProbeInv, ProbesType
<1>2. DOMAIN observation' = Processes /\ observation'[p] = o
      /\ \A q \in Processes \ {p} : observation'[q] = observation[q]
    BY <1>1
<1>3. \A q \in Processes \ {p} : ObservationFound(q)'
    BY <1>2, ObservationKept
<1>4. ObservationFound(p)'
    BY <1>2, ObservationKept
<1> QED BY <1>2, <1>3, <1>4

\* refresh_probe_plan, in the worker's loop.
LEMMA LoopRefreshPreserves ==
    ASSUME ProbeInv, NEW p \in Workers, LoopRefresh(p)
    PROVE  ProbeInv'
<1>1. p \in Processes /\ published[p] \in Revisions
    BY ProbeAssumption DEF ProbeInv, ProbesType
<1>2. /\ RefreshProbePlan(p, published[p])
      /\ observation' = [observation EXCEPT ![p] = Retained(p, published[p])]
      /\ UNCHANGED <<instant, published, probe, tokens, lease, shared, evidence>>
    BY DEF LoopRefresh
<1>3. /\ plan' \in [Processes -> PlanRow]
      /\ Retained(p, published[p]) = observation[p] \/ Retained(p, published[p]) = None
    BY <1>1, <1>2, PlanTyped
<1>4. Onward /\ published' \in [Processes -> Revisions]
    BY <1>2, SameEvidence DEF ProbeInv, ProbesType
<1>5. DOMAIN observation' = Processes /\ \A q \in Processes : ObservationFound(q)'
    BY <1>1, <1>2, <1>3, <1>4, ObservationsKept
<1> QED BY <1>2, <1>3, <1>4, <1>5, NoTask

\* A step that takes no time leaves what is observed as it is.
LEMMA SameObservations ==
    ASSUME ProbeInv, UNCHANGED <<instant, published, plan, observation, evidence>>, tokens' \in Nat, tokens' >= tokens
    PROVE  /\ published' \in [Processes -> Revisions] /\ plan' \in [Processes -> PlanRow]
           /\ DOMAIN observation' = Processes /\ \A p \in Processes : ObservationFound(p)'
<1>1. \A p \in Processes : ObservationFound(p)'
    BY SameEvidence, ObservationKept
<1> QED BY <1>1 DEF ProbeInv, ProbesType

\* The schedule starts the probe of a planned binding, or no probe at all.
LEMMA LoopSchedulePreserves ==
    ASSUME ProbeInv, NEW p \in Workers, LoopSchedule(p)
    PROVE  ProbeInv'
<1>0. p \in Processes /\ <<p, "worker">> \in Probes
    BY ProbeAssumption DEF Probes
<1>1. /\ UNCHANGED <<instant, published, plan, lease, shared, observation, evidence>>
      /\ \/ UNCHANGED <<probe, tokens>>
         \/ plan[p].binding # None /\ Started(p, "worker")
    BY DEF LoopSchedule
<1>2. tokens \in Nat /\ plan[p].binding \in Bindings \cup {None}
    BY <1>0 DEF ProbeInv, ProbesType, PlanRow
<1>3. CASE UNCHANGED <<probe, tokens>>
    <2>1. tokens' \in Nat /\ tokens' >= tokens
        BY <1>2, <1>3
    <2> QED BY <1>1, <1>3, <2>1, SameObservations, NoTask
<1>4. CASE plan[p].binding # None /\ Started(p, "worker")
    <2>1. tokens' \in Nat /\ tokens' >= tokens /\ tokens' = tokens + 1 /\ plan[p].binding \in Bindings
        BY <1>2, <1>4 DEF Started
    <2>2. probe' = [probe EXCEPT ![<<p, "worker">>] =
              [at |-> "lease", binding |-> plan[p].binding, token |-> tokens + 1, since |-> instant]]
        BY <1>4 DEF Started
    <2>3. /\ plan' \in [Processes -> PlanRow]
          /\ DOMAIN observation' = Processes /\ \A q \in Processes : ObservationFound(q)'
        BY <1>1, <2>1, SameObservations
    <2> DEFINE x == <<p, "worker">>
               b == plan[p].binding
    <2>4. x \in Probes /\ b \in Bindings
        BY <1>0, <2>1
    <2>5. probe' = [probe EXCEPT ![x] = [at |-> "lease", binding |-> b, token |-> tokens + 1, since |-> instant]]
        BY <2>2
    <2> HIDE DEF x, b
    <2> QED BY <1>1, <2>1, <2>3, <2>4, <2>5, TaskStarts
<1> QED BY <1>1, <1>3, <1>4

\* probe_now captures a snapshot.
LEMMA BeginProbeNowPreserves ==
    ASSUME ProbeInv, NEW p \in Operators, BeginProbeNow(p)
    PROVE  ProbeInv'
<1> DEFINE x == <<p, "operator">>
           row == [at |-> "capture", captured |-> published[p]]
<1>1. p \in Processes /\ x \in Probes
    BY ProbeAssumption DEF Probes
<1>2. /\ probe' = [probe EXCEPT ![x] = row]
      /\ UNCHANGED <<instant, published, plan, tokens, lease, shared, observation, evidence>>
    BY DEF BeginProbeNow
<1>3. row \in CaptureRow /\ ~HasToken(row) /\ row.at = "capture"
    BY <1>1 DEF ProbeInv, ProbesType, CaptureRow, HasToken
<1>4. tokens' \in Nat /\ tokens' >= tokens /\ DOMAIN probe = Probes
    BY <1>2 DEF ProbeInv, ProbesType
<1> HIDE DEF x, row
<1>5. probe'[x] = row
    BY <1>1, <1>2, <1>4
<1>6. ProbeFound(x)'
    BY <1>3, <1>5 DEF ProbeFound
<1>7. /\ plan' \in [Processes -> PlanRow]
      /\ DOMAIN observation' = Processes /\ \A q \in Processes : ObservationFound(q)'
    BY <1>2, <1>4, SameObservations
<1> QED BY <1>1, <1>2, <1>3, <1>4, <1>6, <1>7, QuietTask

\* probe_now refreshes the plan with it and starts, or finds no target.
LEMMA ProbeNowPreserves ==
    ASSUME ProbeInv, NEW p \in Operators, ProbeNow(p)
    PROVE  ProbeInv'
<1> DEFINE x == <<p, "operator">>
           r == probe[x].captured
           b == plan'[p].binding
<1>1. p \in Processes /\ x \in Probes
    BY ProbeAssumption DEF Probes
<1>2. /\ probe[x].at = "capture" /\ RefreshProbePlan(p, r)
      /\ observation' = [observation EXCEPT ![p] = Retained(p, r)]
      /\ UNCHANGED <<instant, published, lease, shared, evidence>>
      /\ \/ probe' = [probe EXCEPT ![x] = Idle] /\ UNCHANGED tokens
         \/ /\ b # None /\ tokens' = tokens + 1
            /\ probe' = [probe EXCEPT ![x] = [at |-> "lease", binding |-> b, token |-> tokens + 1, since |-> instant]]
    BY DEF ProbeNow
<1> HIDE DEF x
<1>3. r \in Revisions
    BY <1>1, <1>2, RowKinds DEF CaptureRow
<1>4. /\ plan' \in [Processes -> PlanRow] /\ b \in Bindings \cup {None}
      /\ Retained(p, r) = observation[p] \/ Retained(p, r) = None
    BY <1>1, <1>2, <1>3, PlanTyped
<1> HIDE DEF r, b
<1>5. tokens \in Nat /\ tokens' \in Nat /\ tokens' >= tokens
    BY <1>2 DEF ProbeInv, ProbesType
<1>6. Onward
    BY <1>2, <1>5, SameEvidence
<1>7. DOMAIN observation' = Processes /\ \A q \in Processes : ObservationFound(q)'
    BY <1>1, <1>2, <1>4, <1>6, ObservationsKept
<1>8. CASE probe' = [probe EXCEPT ![x] = Idle] /\ UNCHANGED tokens
    BY <1>1, <1>2, <1>4, <1>7, <1>8, TaskEnds
<1>9. CASE /\ b # None /\ tokens' = tokens + 1
           /\ probe' = [probe EXCEPT ![x] = [at |-> "lease", binding |-> b, token |-> tokens + 1, since |-> instant]]
    <2>1. b \in Bindings
        BY <1>4, <1>9
    <2> QED BY <1>1, <1>2, <1>4, <1>7, <1>9, <2>1, TaskStarts
<1> QED BY <1>2, <1>8, <1>9

\* Another snapshot is published.
LEMMA PublishKeeps ==
    ASSUME ProbeInv, NEW p \in Processes, Publish(p)
    PROVE  ProbeInv'
<1>1. /\ published' = [published EXCEPT ![p] = @ + 1] /\ published[p] + 1 \in Revisions
      /\ UNCHANGED <<instant, plan, probe, tokens, lease, shared, observation, evidence>>
    BY DEF Publish
<1>2. published' \in [Processes -> Revisions] /\ tokens' \in Nat /\ tokens' >= tokens
      /\ plan' \in [Processes -> PlanRow] /\ DOMAIN observation' = Processes
    BY <1>1 DEF ProbeInv, ProbesType
<1>3. \A q \in Processes : ObservationFound(q)'
    BY <1>1, <1>2, SameEvidence, ObservationKept
<1> QED BY <1>1, <1>2, <1>3, NoTask


-----------------------------------------------------------------------------
(* The steps of one probe                                                    *)

\* The lease is given to the task that asks when nobody has it.
LEMMA TryAcquirePreserves ==
    ASSUME ProbeInv, NEW x \in Probes, TryAcquireLease(x)
    PROVE  ProbeInv'
<1> DEFINE r == probe[x]
           b == r.binding
<1>1. /\ r.at = "lease" /\ UNCHANGED <<instant, published, plan, tokens, shared, observation, evidence>>
    BY DEF TryAcquireLease, At
<1>2. r \in WaitRow /\ r.token \in 1 .. tokens /\ tokens \in Nat /\ instant \in Nat /\ r.since <= instant
      /\ DOMAIN probe = Probes
    BY <1>1, RowKinds DEF HasToken, ProbeInv, ProbesType, ProbeFound
<1>3. b \in Bindings /\ r.token \in Nat /\ r.since \in Nat
    BY <1>2 DEF WaitRow
<1>4. CASE lease[b] = NoLease
    <2> DEFINE row == [r EXCEPT !.at = "granted"]
               l == [owner |-> r.token, until |-> instant + Interval]
    <2>1. lease' = [lease EXCEPT ![b] = l] /\ probe' = [probe EXCEPT ![x].at = "granted"]
        BY <1>4 DEF TryAcquireLease, Goto
    <2>2. probe' = [probe EXCEPT ![x] = row]
        BY <2>1
    <2>3. row \in WaitRow /\ row.token = r.token /\ row.since = r.since /\ HasToken(row) /\ HasToken(r)
        BY <1>1, <1>2 DEF WaitRow, HasToken
    <2>4. l \in LeaseRow /\ l.owner = r.token /\ l.until = instant + Interval
        BY <1>2, <1>3, SpansTyped DEF LeaseRow
    <2> HIDE DEF row, l
    <2>5. probe'[x] = row /\ row.at # "put" /\ row.at # "seen"
        BY <1>2, <2>2, <2>3 DEF WaitRow
    <2>6. Onward
        BY <1>1, <1>2, SameEvidence
    <2>7. ProbeFound(x)'
        BY <1>1, <1>2, <2>3, <2>5 DEF ProbeFound
    <2>8. \A c \in Bindings : lease'[c] = IF c = b THEN l ELSE lease[c]
        BY <2>1 DEF ProbeInv, ProbesType
    <2>9. DOMAIN lease' = Bindings /\ DOMAIN shared' = Bindings /\ shared' = shared
          /\ tokens' \in Nat /\ tokens' >= tokens
        BY <1>1, <2>1 DEF ProbeInv, ProbesType
    <2>10. ASSUME NEW c \in Bindings  PROVE LeaseShape(c)' /\ SummaryFound(c)'
        <3>1. SummaryFound(c)'
            BY <2>6, <2>9, SummaryKept
        <3>2. CASE c # b
            BY <1>1, <2>8, <2>9, <3>1, <3>2, LeaseKept
        <3>3. CASE c = b
            <4>1. lease'[c] = l
                BY <2>8, <3>3
            <4>2. l.owner <= tokens' /\ instant' < l.until /\ l.until <= instant' + Interval
                BY <1>1, <1>2, <2>4, SpansTyped
            <4> QED BY <2>4, <3>1, <4>1, <4>2 DEF LeaseShape
        <3> QED BY <3>2, <3>3
    <2>11. /\ published' \in [Processes -> Revisions] /\ plan' \in [Processes -> PlanRow]
           /\ DOMAIN observation' = Processes /\ \A p \in Processes : ObservationFound(p)'
        BY <1>1, <2>9, SameObservations
    <2>12. \A y \in Probes \ {x} : HasToken(probe[y]) => row.token # probe[y].token
        BY <2>3, OwnToken
    <2>13. \A y \in Probes \ {x} : HasToken(probe[y]) => \A c \in Bindings :
               lease'[c] = lease[c] \/ lease'[c].owner # probe[y].token
        BY <2>3, <2>4, <2>8, <2>12
    <2> QED BY <2>2, <2>6, <2>7, <2>9, <2>10, <2>11, <2>12, <2>13, TaskMoves
<1>5. CASE lease[b] # NoLease
    <2> DEFINE row == [r EXCEPT !.at = "refused"]
    <2>1. UNCHANGED lease /\ probe' = [probe EXCEPT ![x].at = "refused"]
        BY <1>5 DEF TryAcquireLease, Goto
    <2>2. probe' = [probe EXCEPT ![x] = row]
        BY <2>1
    <2>3. row \in WaitRow /\ row.token = r.token /\ row.since = r.since
        BY <1>2 DEF WaitRow
    <2> HIDE DEF row
    <2> QED BY <1>1, <1>2, <2>1, <2>2, <2>3, WaitingTask
<1> QED BY <1>4, <1>5

\* A task is given up.
LEMMA AbandonPreserves ==
    ASSUME ProbeInv, NEW x \in Probes, Abandon(x)
    PROVE  ProbeInv'
<1>1. /\ probe' = [probe EXCEPT ![x] = Idle]
      /\ UNCHANGED <<instant, published, plan, tokens, lease, shared, observation, evidence>>
    BY DEF Abandon, End
<1>2. tokens' \in Nat /\ tokens' >= tokens
    BY <1>1 DEF ProbeInv, ProbesType
<1> QED BY <1>1, <1>2, SameObservations, TaskEnds

\* The permit is given, or the summary of the lease's owner is asked for.
LEMMA CallPreserves ==
    ASSUME ProbeInv, NEW x \in Probes, Permitted(x) \/ BeginSync(x)
    PROVE  ProbeInv'
<1> DEFINE r == probe[x]
           step == IF r.at = "granted" THEN "request" ELSE "read"
           row == [r EXCEPT !.at = step, !.since = instant]
<1>1. /\ r.at \in {"granted", "refused"}
      /\ UNCHANGED <<instant, published, plan, tokens, lease, shared, observation, evidence>>
    BY DEF Permitted, BeginSync, At
<1>2. r \in WaitRow /\ instant \in Nat
    BY <1>1, RowKinds DEF ProbeInv, ProbesType
<1>3. probe' = [probe EXCEPT ![x] = row]
    BY DEF Permitted, BeginSync, At
<1>4. step \in {"request", "read"}
    OBVIOUS
<1> HIDE DEF step
<1>5. row \in WaitRow /\ row.token = r.token /\ row.since = instant
    BY <1>2, <1>4 DEF WaitRow
<1>6. row.since <= instant
    BY <1>2, <1>5
<1> HIDE DEF row
<1> QED BY <1>1, <1>2, <1>3, <1>5, <1>6, WaitingTask

\* A task that has a lease token and stops waiting for the lease keeps the token.
LEMMA AnswerPreserves ==
    ASSUME ProbeInv, NEW x \in Probes, Answer(x)
    PROVE  ProbeInv'
<1> DEFINE r == probe[x]
<1>1. PICK outcome \in {"success", "failure", "no_evidence"} :
          /\ r.at = "request"
          /\ probe' = [probe EXCEPT ![x] =
                 [at |-> "answered", binding |-> r.binding, token |-> r.token,
                  outcome |-> outcome, captured |-> published[x[1]]]]
          /\ UNCHANGED <<instant, published, plan, tokens, lease, shared, observation, evidence>>
    BY DEF Answer, At
<1> DEFINE row == [at |-> "answered", binding |-> r.binding, token |-> r.token,
                   outcome |-> outcome, captured |-> published[x[1]]]
<1>2. r \in WaitRow /\ r.token \in 1 .. tokens /\ x[1] \in Processes /\ DOMAIN probe = Probes
      /\ tokens \in Nat /\ published[x[1]] \in Revisions
    BY <1>1, RowKinds DEF HasToken, ProbeInv, ProbesType
<1>3. probe' = [probe EXCEPT ![x] = row]
    BY <1>1
<1>4. row \in AnsweredRow /\ row.token = r.token /\ row.at = "answered"
    BY <1>2 DEF WaitRow, AnsweredRow
<1> HIDE DEF row
<1>5. HasToken(row) /\ HasToken(r)
    BY <1>1, <1>4 DEF HasToken
<1>6. probe'[x] = row
    BY <1>2, <1>3
<1>7. ProbeFound(x)'
    BY <1>1, <1>2, <1>4, <1>6 DEF ProbeFound
<1>8. \A y \in Probes \ {x} : HasToken(probe[y]) => row.token # probe[y].token
    BY <1>4, <1>5, OwnToken
<1>9. tokens' \in Nat /\ tokens' >= tokens
    BY <1>1, <1>2
<1>10. /\ plan' \in [Processes -> PlanRow]
       /\ DOMAIN observation' = Processes /\ \A q \in Processes : ObservationFound(q)'
    BY <1>1, <1>9, SameObservations
<1> QED BY <1>1, <1>3, <1>7, <1>8, <1>9, <1>10, QuietTask

\* The effects are Booleans.
LEMMA EffectTyped == \A h : Effect(h) \in SUBSET BOOLEAN
BY DEF Effect

\* record_observation: what is kept out here is evidence from now on, and the
\* result that will be sent is newer than all that is stored.
LEMMA RecordPreserves ==
    ASSUME ProbeInv, NEW x \in Probes, HasToken(probe[x]), probe[x].binding \in Bindings, NEW kept, NEW h,
           kept = observation[x[1]] \/ kept = None, RecordObservation(x, kept, h),
           UNCHANGED <<instant, published, tokens, lease, shared>>, plan' \in [Processes -> PlanRow]
    PROVE  ProbeInv'
<1> DEFINE p == x[1]
           r == probe[x]
           b == r.binding
           eff == Effect(h)
           own == [binding |-> b, effect |-> eff, own |-> TRUE, fresh |-> instant + StaleAfter]
           row == [at |-> "put", binding |-> b, token |-> r.token, effect |-> eff, observed |-> instant]
<1>1. /\ \E o \in {own, kept} : observation' = [observation EXCEPT ![p] = o]
      /\ probe' = [probe EXCEPT ![x] = row]
      /\ evidence' = IF FALSE \in eff THEN [evidence EXCEPT ![b] = instant] ELSE evidence
    BY DEF RecordObservation, StoreObservation
<1>2. eff \in SUBSET BOOLEAN
    BY EffectTyped
<1> HIDE DEF eff
<1>3. r.token \in 1 .. tokens /\ tokens \in Nat /\ instant \in Nat /\ p \in Processes /\ DOMAIN probe = Probes
      /\ DOMAIN evidence = Bindings /\ DOMAIN lease = Bindings /\ DOMAIN shared = Bindings
      /\ \A c \in Bindings : evidence[c] # None => evidence[c] \in Nat /\ evidence[c] <= instant
    BY RowKinds DEF ProbeInv, ProbesType
<1>4. row \in PutRow /\ row.token = r.token /\ row.at = "put" /\ row.binding = b /\ row.effect = eff
      /\ row.observed = instant
    BY <1>2, <1>3 DEF PutRow
<1>5. own \in ObservationRow /\ own.binding = b /\ own.effect = eff /\ own.fresh = instant + StaleAfter
    BY <1>2, <1>3, SpansTyped DEF ObservationRow
<1> HIDE DEF row, own, b, r
<1>6. b \in Bindings
    BY DEF b, r
<1>7. \A c \in Bindings : evidence'[c] = IF c = b /\ FALSE \in eff THEN instant ELSE evidence[c]
    BY <1>1, <1>3
<1>8. Onward
    <2>1. DOMAIN evidence' = Bindings
        BY <1>1, <1>3
    <2>2. instant # None
        BY <1>3, ProbeAssumption
    <2>3. ASSUME NEW c \in Bindings
          PROVE  /\ evidence[c] # None => evidence'[c] # None /\ evidence'[c] >= evidence[c]
                 /\ evidence'[c] # None => evidence'[c] \in Nat /\ evidence'[c] <= instant'
        <3>1. instant' = instant
            OBVIOUS
        <3>2. evidence[c] # None => evidence[c] \in Nat /\ evidence[c] <= instant
            BY <1>3
        <3>3. CASE c = b /\ FALSE \in eff
            <4>1. evidence'[c] = instant
                BY <1>7, <3>3
            <4> QED BY <1>3, <2>2, <3>1, <3>2, <4>1
        <3>4. CASE ~(c = b /\ FALSE \in eff)
            <4>1. evidence'[c] = evidence[c]
                BY <1>7, <3>4
            <4> QED BY <3>1, <3>2, <4>1
        <3> QED BY <3>3, <3>4
    <2>4. instant' \in Nat /\ instant' >= instant /\ tokens' \in Nat /\ tokens' >= tokens
        BY <1>3
    <2> QED BY <2>1, <2>3, <2>4 DEF Onward, EvidenceGrows
<1>9. FALSE \in eff => evidence'[b] = instant /\ instant # None
    BY <1>3, <1>6, <1>7, ProbeAssumption
<1>10. PICK o \in {own, kept} : observation' = [observation EXCEPT ![p] = o]
    BY <1>1
<1>11. observation'[p] = own => ObservationFound(p)'
    <2>1. SUFFICES ASSUME observation'[p] = own  PROVE ObservationFound(p)'
        OBVIOUS
    <2>2. FALSE \in eff => evidence'[b] # None /\ own.fresh <= evidence'[b] + UseSpan
        BY <1>3, <1>5, <1>9, SpansTyped
    <2> QED BY <1>5, <2>1, <2>2 DEF ObservationFound, FoundSince
<1>12. DOMAIN observation' = Processes /\ \A q \in Processes : ObservationFound(q)'
    BY <1>3, <1>8, <1>10, <1>11, ObservationsKept DEF p
<1>13. probe'[x] = row /\ HasToken(row)
    BY <1>1, <1>3, <1>4 DEF HasToken
<1>14. ResultFound(x)'
    <2>1. LeaseShape(b) /\ SummaryFound(b)
        BY <1>6 DEF ProbeInv
    <2>2. lease[b].owner = row.token => lease[b] # NoLease
        BY <1>3, <1>4 DEF NoLease
    <2>3. lease[b].owner = row.token => lease[b].until <= row.observed + Interval
        BY <1>4, <2>1, <2>2 DEF LeaseShape
    <2>4. shared[b] # None => shared[b].observed <= row.observed
        BY <1>4, <2>1 DEF SummaryFound
    <2>5. FALSE \in row.effect => evidence'[b] # None /\ row.observed <= evidence'[b]
        BY <1>3, <1>4, <1>9
    <2>6. row.observed <= instant'
        BY <1>3, <1>4
    <2> QED BY <1>4, <1>13, <2>3, <2>4, <2>5, <2>6 DEF ResultFound
<1>15. ProbeFound(x)'
    BY <1>3, <1>4, <1>13, <1>14 DEF ProbeFound, r
<1>16. \A y \in Probes \ {x} : HasToken(probe[y]) => row.token # probe[y].token
    BY <1>4, OwnToken DEF r
<1>17. \A c \in Bindings : LeaseShape(c)' /\ SummaryFound(c)'
    BY <1>3, <1>8, LeaseKept, SummaryKept
<1>18. /\ published' \in [Processes -> Revisions] /\ DOMAIN lease' = Bindings /\ DOMAIN shared' = Bindings
       /\ lease' = lease /\ shared' = shared
    BY <1>3 DEF ProbeInv, ProbesType
<1> QED BY <1>1, <1>8, <1>12, <1>15, <1>16, <1>17, <1>18, TaskMoves

\* A circuit that is not closed answers for the request.
LEMMA CircuitOpenPreserves ==
    ASSUME ProbeInv, NEW x \in Probes, CircuitOpen(x)
    PROVE  ProbeInv'
<1>1. PICK h \in {"open", "half_open", "recovering"} : RecordObservation(x, observation[x[1]], h)
    BY DEF CircuitOpen
<1>2. probe[x].at = "granted" /\ UNCHANGED <<instant, published, plan, tokens, lease, shared>>
    BY DEF CircuitOpen, At
<1>3. HasToken(probe[x]) /\ probe[x].binding \in Bindings
    BY <1>2, RowKinds DEF HasToken, WaitRow
<1>4. plan' \in [Processes -> PlanRow]
    BY <1>2 DEF ProbeInv, ProbesType
<1> QED BY <1>1, <1>2, <1>3, <1>4, RecordPreserves

\* The result counts when its binding is still planned.
LEMMA FinishPreserves ==
    ASSUME ProbeInv, NEW x \in Probes, Finish(x)
    PROVE  ProbeInv'
<1> DEFINE p == x[1]
           c == probe[x].captured
           kept == Retained(p, c)
<1>1. /\ probe[x].at = "answered" /\ RefreshProbePlan(p, c)
      /\ UNCHANGED <<instant, published, tokens, lease, shared>>
      /\ \/ End(x) /\ observation' = [observation EXCEPT ![p] = kept] /\ UNCHANGED evidence
         \/ \E h \in AfterPermit(probe[x].outcome) : RecordObservation(x, kept, h)
    BY DEF Finish, At
<1>2. HasToken(probe[x]) /\ probe[x].binding \in Bindings /\ c \in Revisions /\ p \in Processes
    BY <1>1, RowKinds DEF HasToken, AnsweredRow
<1>3. plan' \in [Processes -> PlanRow] /\ (kept = observation[p] \/ kept = None)
    BY <1>1, <1>2, PlanTyped
<1> HIDE DEF kept, c
<1>4. CASE End(x) /\ observation' = [observation EXCEPT ![p] = kept] /\ UNCHANGED evidence
    <2>1. tokens' \in Nat /\ tokens' >= tokens
        BY <1>1 DEF ProbeInv, ProbesType
    <2>2. Onward
        BY <1>1, <1>4, <2>1, SameEvidence
    <2>3. DOMAIN observation' = Processes /\ \A q \in Processes : ObservationFound(q)'
        BY <1>2, <1>3, <1>4, <2>2, ObservationsKept
    <2> QED BY <1>1, <1>3, <1>4, <2>3, TaskEnds DEF End
<1>5. ASSUME NEW h, RecordObservation(x, kept, h)  PROVE ProbeInv'
    BY <1>1, <1>2, <1>3, <1>5, RecordPreserves
<1> QED BY <1>1, <1>4, <1>5


\* What SummariesMoveForward says of one step.
SummariesForward ==
    \A b \in Bindings : shared[b] # None /\ shared'[b] \notin {None, shared[b]} =>
        shared'[b].observed >= shared[b].observed

\* TARGET_HEALTH_PUT_SCRIPT: the owner of the lease stores what it observed
\* within the lease; anybody else stores nothing.
LEMMA PutPreserves ==
    ASSUME ProbeInv, NEW x \in Probes, PutTargetHealthSummary(x)
    PROVE  ProbeInv' /\ SummariesForward
<1> DEFINE r == probe[x]
           b == r.binding
           s == [effect |-> r.effect, observed |-> r.observed, until |-> instant + SummaryTtl]
<1>1. /\ r.at = "put" /\ probe' = [probe EXCEPT ![x] = Idle]
      /\ shared' = IF lease[b].owner = r.token THEN [shared EXCEPT ![b] = s] ELSE shared
      /\ UNCHANGED <<instant, published, plan, tokens, lease, observation, evidence>>
    BY DEF PutTargetHealthSummary, OwnsLease, At, End
<1>2. r \in PutRow /\ r.token \in 1 .. tokens /\ HasToken(r) /\ ResultFound(x) /\ tokens \in Nat /\ instant \in Nat
      /\ DOMAIN probe = Probes /\ DOMAIN lease = Bindings /\ DOMAIN shared = Bindings
    BY <1>1, RowKinds DEF HasToken, ProbeFound, ProbeInv, ProbesType
<1>3. b \in Bindings /\ r.effect \in SUBSET BOOLEAN /\ r.observed \in Nat
    BY <1>2 DEF PutRow
<1>4. Onward /\ tokens' \in Nat /\ tokens' >= tokens
    BY <1>1, <1>2, SameEvidence
<1>5. s \in SharedRow /\ s.effect = r.effect /\ s.observed = r.observed /\ s.until = instant + SummaryTtl
    BY <1>2, <1>3, SpansTyped DEF SharedRow
<1> HIDE DEF s
<1>6. CASE lease[b].owner # r.token
    <2>1. shared' = shared
        BY <1>1, <1>6
    <2>2. ProbeInv'
        BY <1>1, <1>4, <2>1, SameObservations, TaskEnds
    <2> QED BY <2>1, <2>2 DEF SummariesForward
<1>7. CASE lease[b].owner = r.token
    <2>1. \A c \in Bindings : shared'[c] = IF c = b THEN s ELSE shared[c]
        BY <1>1, <1>2, <1>7
    <2>2. LeaseShape(b) /\ lease[b] # NoLease
        BY <1>2, <1>3, <1>7 DEF ProbeInv, NoLease
    <2>3. lease[b].until \in Nat /\ instant < lease[b].until /\ lease[b].until <= r.observed + Interval
        BY <1>2, <1>7, <2>2 DEF LeaseShape, LeaseRow, ResultFound
    <2>4. r.observed <= instant /\ (shared[b] # None => shared[b].observed <= r.observed)
          /\ (FALSE \in r.effect => evidence[b] # None /\ r.observed <= evidence[b])
        BY <1>2, <1>7 DEF ResultFound
    <2>5. evidence[b] # None => evidence[b] \in Nat
        BY <1>3 DEF ProbeInv, ProbesType
    <2>6. FALSE \in r.effect => s.until <= evidence[b] + (Interval + SummaryTtl)
        BY <1>2, <1>3, <1>5, <2>3, <2>4, <2>5, SpansTyped
    <2>7. ASSUME NEW c \in Bindings  PROVE LeaseShape(c)' /\ SummaryFound(c)'
        <3>1. LeaseShape(c)'
            BY <1>1, <1>4, LeaseKept
        <3>2. CASE c # b
            BY <1>4, <2>1, <3>1, <3>2, SummaryKept
        <3>3. CASE c = b
            <4>1. shared'[c] = s
                BY <2>1, <3>3
            <4>2. s.observed <= instant'
                BY <1>1, <1>5, <2>4
            <4>3. FALSE \in s.effect => evidence'[c] # None /\ s.until <= evidence'[c] + (Interval + SummaryTtl)
                BY <1>1, <1>5, <2>4, <2>6, <3>3
            <4> QED BY <1>5, <3>1, <4>1, <4>2, <4>3 DEF SummaryFound, FoundSince
        <3> QED BY <3>2, <3>3
    <2>8. probe'[x] = Idle /\ ~HasToken(Idle)
        BY <1>1, <1>2 DEF HasToken, Idle
    <2>9. ProbeFound(x)'
        BY <2>8 DEF ProbeFound, HasToken, Idle
    <2>10. DOMAIN lease' = Bindings /\ DOMAIN shared' = Bindings /\ lease' = lease
        BY <1>1, <1>2
    <2>11. /\ published' \in [Processes -> Revisions] /\ plan' \in [Processes -> PlanRow]
           /\ DOMAIN observation' = Processes /\ \A p \in Processes : ObservationFound(p)'
        BY <1>1, <1>4, SameObservations
    <2>12. \A y \in Probes \ {x} : HasToken(probe[y]) => \A c \in Bindings :
               shared'[c] = shared[c] \/ lease'[c].owner # probe[y].token
        BY <1>2, <1>7, <2>1, <2>10, OwnToken
    <2>13. probe' = [probe EXCEPT ![x] = Idle]
        BY <1>1
    <2> HIDE DEF Idle
    <2>14. ProbeInv'
        BY <1>4, <2>7, <2>8, <2>9, <2>10, <2>11, <2>12, <2>13, TaskMoves
    <2>15. SummariesForward
        BY <1>3, <1>5, <2>1, <2>4 DEF SummariesForward
    <2> QED BY <2>14, <2>15
<1> QED BY <1>6, <1>7

\* The summary is read with the time it has left.
LEMMA GetPreserves ==
    ASSUME ProbeInv, NEW x \in Probes, GetTargetHealthSummary(x)
    PROVE  ProbeInv'
<1> DEFINE r == probe[x]
           b == r.binding
           s == shared[b]
           left == s.until - instant
           row == [at |-> "seen", binding |-> b, since |-> r.since, effect |-> s.effect, remaining |-> left]
<1>1. /\ r.at = "read" /\ s # None /\ probe' = [probe EXCEPT ![x] = row]
      /\ UNCHANGED <<instant, published, plan, tokens, lease, shared, observation, evidence>>
    BY DEF GetTargetHealthSummary, At
<1>2. r \in WaitRow /\ r.since <= instant /\ instant \in Nat /\ tokens \in Nat /\ DOMAIN probe = Probes
    BY <1>1, RowKinds DEF ProbeFound, ProbeInv, ProbesType
<1>3. b \in Bindings /\ r.since \in Nat
    BY <1>2 DEF WaitRow
<1>4. s \in SharedRow /\ (FALSE \in s.effect => evidence[b] # None /\ s.until <= evidence[b] + (Interval + SummaryTtl))
    BY <1>1, <1>3 DEF ProbeInv, SummaryFound, FoundSince
<1>5. s.until \in Nat /\ s.effect \in SUBSET BOOLEAN /\ (evidence[b] # None => evidence[b] \in Nat)
    BY <1>3, <1>4 DEF SharedRow, ProbeInv, ProbesType
<1>6. left \in Int /\ r.since + left <= s.until
    BY <1>2, <1>3, <1>5
<1>7. FALSE \in s.effect => evidence[b] # None /\ r.since + left <= evidence[b] + (Interval + SummaryTtl)
    BY <1>3, <1>4, <1>5, <1>6, SpansTyped
<1> HIDE DEF left
<1>8. row \in SeenRow /\ row.at = "seen" /\ row.binding = b /\ row.since = r.since /\ row.effect = s.effect
      /\ row.remaining = left
    BY <1>3, <1>5, <1>6 DEF SeenRow
<1> HIDE DEF row
<1>9. probe'[x] = row /\ ~HasToken(row)
    BY <1>1, <1>2, <1>8 DEF HasToken
<1>10. ReadFound(x)'
    BY <1>1, <1>7, <1>8, <1>9 DEF ReadFound, FoundSince
<1>11. ProbeFound(x)'
    BY <1>1, <1>2, <1>8, <1>9, <1>10 DEF ProbeFound
<1>12. tokens' \in Nat /\ tokens' >= tokens
    BY <1>1, <1>2
<1>13. /\ plan' \in [Processes -> PlanRow]
       /\ DOMAIN observation' = Processes /\ \A q \in Processes : ObservationFound(q)'
    BY <1>1, <1>12, SameObservations
<1> QED BY <1>1, <1>9, <1>11, <1>12, <1>13, QuietTask

\* sync_shared_observation: what was read is used no longer than it had left.
LEMMA SyncPreserves ==
    ASSUME ProbeInv, NEW x \in Probes, SyncSharedObservation(x)
    PROVE  ProbeInv'
<1> DEFINE p == x[1]
           r == probe[x]
           b == r.binding
           span == IF r.remaining < StaleAfter THEN r.remaining ELSE StaleAfter
           new == [binding |-> b, effect |-> r.effect, own |-> FALSE, fresh |-> instant + span]
<1>1. /\ r.at = "seen" /\ InTime(x) /\ probe' = [probe EXCEPT ![x] = Idle]
      /\ \E o \in {new, observation[p]} : observation' = [observation EXCEPT ![p] = o]
      /\ UNCHANGED <<instant, published, plan, tokens, lease, shared, evidence>>
    BY DEF SyncSharedObservation, StoreObservation, At, End
<1>2. r \in SeenRow /\ r.since <= instant /\ instant \in Nat /\ p \in Processes /\ ReadFound(x)
    BY <1>1, RowKinds DEF ProbeFound, ProbeInv, ProbesType
<1>3. b \in Bindings /\ r.since \in Nat /\ r.effect \in SUBSET BOOLEAN /\ r.remaining \in Int
    BY <1>2 DEF SeenRow
<1>4. FALSE \in r.effect => evidence[b] # None /\ evidence[b] \in Nat
                            /\ r.since + r.remaining <= evidence[b] + (Interval + SummaryTtl)
    BY <1>2, <1>3 DEF ReadFound, FoundSince, ProbeInv, ProbesType
<1>5. instant - r.since <= CommandTimeout
    BY <1>1 DEF InTime
<1>6. span \in Int /\ span <= r.remaining
    BY <1>3, SpansTyped
<1> HIDE DEF span
<1>7. FALSE \in r.effect => instant + span <= evidence[b] + UseSpan
    BY <1>2, <1>3, <1>4, <1>5, <1>6, SpansTyped
<1>8. new \in ObservationRow /\ new.binding = b /\ new.effect = r.effect /\ new.fresh = instant + span
    BY <1>2, <1>3, <1>6 DEF ObservationRow
<1> HIDE DEF new
<1>9. Onward /\ tokens' \in Nat /\ tokens' >= tokens
    BY <1>1, SameEvidence DEF ProbeInv, ProbesType
<1>10. PICK o \in {new, observation[p]} : observation' = [observation EXCEPT ![p] = o]
    BY <1>1
<1>11. observation'[p] = new => ObservationFound(p)'
    BY <1>1, <1>4, <1>7, <1>8 DEF ObservationFound, FoundSince
<1>12. DOMAIN observation' = Processes /\ \A q \in Processes : ObservationFound(q)'
    BY <1>2, <1>9, <1>10, <1>11, ObservationsKept
<1>13. plan' \in [Processes -> PlanRow]
    BY <1>1 DEF ProbeInv, ProbesType
<1> QED BY <1>1, <1>12, <1>13, TaskEnds

\* Time passes; Redis forgets leases and summaries that have expired.
LEMMA ProbeTickPreserves ==
    ASSUME ProbeInv, ProbeTick
    PROVE  ProbeInv' /\ SummariesForward
<1>1. /\ instant' = instant + 1
      /\ lease' = [b \in Bindings |-> IF lease[b].until <= instant + 1 THEN NoLease ELSE lease[b]]
      /\ shared' = [b \in Bindings |-> IF shared[b] = None THEN None
                                       ELSE IF shared[b].until <= instant + 1 THEN None ELSE shared[b]]
      /\ UNCHANGED <<published, plan, probe, tokens, observation, evidence>>
    BY DEF ProbeTick
<1>2. instant \in Nat /\ tokens \in Nat /\ DOMAIN evidence = Bindings
      /\ \A b \in Bindings : evidence[b] # None => evidence[b] \in Nat /\ evidence[b] <= instant
    BY DEF ProbeInv, ProbesType
<1>3. Onward
    BY <1>1, <1>2 DEF Onward, EvidenceGrows
<1>4. \A b \in Bindings : shared'[b] = shared[b] \/ shared'[b] = None
    BY <1>1
<1>5. \A b \in Bindings : lease'[b] = lease[b] \/ lease'[b] = NoLease
    BY <1>1
<1>6. ASSUME NEW b \in Bindings  PROVE LeaseShape(b)' /\ SummaryFound(b)'
    <2>1. SummaryFound(b)'
        BY <1>3, <1>4, SummaryKept
    <2>2. LeaseShape(b) /\ lease'[b] = IF lease[b].until <= instant + 1 THEN NoLease ELSE lease[b]
        BY <1>1 DEF ProbeInv
    <2>3. NoLease \in LeaseRow /\ NoLease.owner <= tokens'
        BY <1>1, <1>2 DEF NoLease, LeaseRow
    <2>4. CASE lease[b].until <= instant + 1
        BY <2>1, <2>2, <2>3, <2>4 DEF LeaseShape
    <2>5. CASE ~(lease[b].until <= instant + 1)
        <3>1. lease[b] \in LeaseRow /\ lease[b].owner <= tokens
              /\ (lease[b] # NoLease => instant < lease[b].until /\ lease[b].until <= instant + Interval)
            BY <2>2 DEF LeaseShape
        <3>2. lease[b].until \in Nat
            BY <3>1 DEF LeaseRow
        <3>3. lease[b] # NoLease => instant' < lease[b].until /\ lease[b].until <= instant' + Interval
            BY <1>1, <1>2, <2>5, <3>1, <3>2, SpansTyped
        <3>4. lease'[b] = lease[b]
            BY <2>2, <2>5
        <3> QED BY <1>1, <2>1, <3>1, <3>3, <3>4 DEF LeaseShape
    <2> QED BY <2>4, <2>5
<1>7. ASSUME NEW y \in Probes  PROVE ProbeFound(y)'
    <2>1. HasToken(probe[y]) => probe[y].token # 0
        BY <1>2, RowKinds
    <2>2. NoLease.owner = 0
        BY DEF NoLease
    <2>3. \A b \in Bindings : lease'[b] = lease[b] \/ (HasToken(probe[y]) => lease'[b].owner # probe[y].token)
        BY <1>5, <2>1, <2>2
    <2> QED BY <1>1, <1>3, <1>4, <2>3, OthersKept
<1>8. \A p \in Processes : ObservationFound(p)'
    BY <1>1, <1>3, ObservationKept
<1>9. TokensDiffer' /\ ProbesType'
    BY <1>1, <1>2, <1>3 DEF ProbeInv, ProbesType, TokensDiffer, Onward
<1>10. SummariesForward
    BY <1>4 DEF SummariesForward
<1> QED BY <1>6, <1>7, <1>8, <1>9, <1>10 DEF ProbeInv

-----------------------------------------------------------------------------
(* The theorems                                                              *)

LEMMA ProbeInitEstablishes == ProbeInit => ProbeInv
<1> SUFFICES ASSUME ProbeInit  PROVE ProbeInv
    OBVIOUS
<1>1. ProbesType
    BY ProbeAssumption DEF ProbeInit, ProbesType, PlanRow
<1>2. TokensDiffer
    BY DEF ProbeInit, TokensDiffer, HasToken, Idle
<1>3. \A b \in Bindings : LeaseShape(b) /\ SummaryFound(b)
    BY DEF ProbeInit, LeaseShape, SummaryFound, NoLease, LeaseRow
<1>4. \A p \in Processes : ObservationFound(p)
    BY DEF ProbeInit, ObservationFound
<1>5. \A x \in Probes : ProbeFound(x)
    BY DEF ProbeInit, ProbeFound, HasToken, Idle
<1> QED BY <1>1, <1>2, <1>3, <1>4, <1>5 DEF ProbeInv

LEMMA ProbeNextPreserves == ProbeInv /\ [ProbeNext]_probeVars => ProbeInv' /\ SummariesForward
<1> SUFFICES ASSUME ProbeInv, [ProbeNext]_probeVars  PROVE ProbeInv' /\ SummariesForward
    OBVIOUS
<1>0. shared' = shared => SummariesForward
    BY DEF SummariesForward
<1>1. CASE ProbeTick
    BY <1>1, ProbeTickPreserves
<1>2. ASSUME NEW p \in Processes, Publish(p)  PROVE ProbeInv' /\ SummariesForward
    BY <1>0, <1>2, PublishKeeps DEF Publish
<1>3. ASSUME NEW p \in Workers, LoopRefresh(p) \/ LoopSchedule(p)  PROVE ProbeInv' /\ SummariesForward
    BY <1>0, <1>3, LoopRefreshPreserves, LoopSchedulePreserves DEF LoopRefresh, LoopSchedule
<1>4. ASSUME NEW p \in Operators, BeginProbeNow(p) \/ ProbeNow(p)  PROVE ProbeInv' /\ SummariesForward
    BY <1>0, <1>4, BeginProbeNowPreserves, ProbeNowPreserves DEF BeginProbeNow, ProbeNow
<1>5. ASSUME NEW x \in Probes,
             \/ TryAcquireLease(x) \/ Abandon(x) \/ Permitted(x) \/ CircuitOpen(x) \/ Answer(x) \/ Finish(x)
             \/ BeginSync(x) \/ GetTargetHealthSummary(x) \/ SyncSharedObservation(x)
      PROVE ProbeInv' /\ SummariesForward
    <2>1. shared' = shared
        BY <1>5 DEF TryAcquireLease, Abandon, Permitted, CircuitOpen, Answer, Finish, BeginSync,
                    GetTargetHealthSummary, SyncSharedObservation
    <2>2. ProbeInv'
        BY <1>5, TryAcquirePreserves, AbandonPreserves, CallPreserves, CircuitOpenPreserves, AnswerPreserves,
           FinishPreserves, GetPreserves, SyncPreserves
    <2> QED BY <1>0, <2>1, <2>2
<1>6. ASSUME NEW x \in Probes, PutTargetHealthSummary(x)  PROVE ProbeInv' /\ SummariesForward
    BY <1>6, PutPreserves
<1>7. CASE UNCHANGED probeVars
    <2>1. UNCHANGED <<instant, published, plan, probe, tokens, lease, shared, observation, evidence>>
        BY <1>7 DEF probeVars
    <2>2. tokens' \in Nat /\ tokens' >= tokens
        BY <2>1 DEF ProbeInv, ProbesType
    <2>3. /\ published' \in [Processes -> Revisions] /\ plan' \in [Processes -> PlanRow]
          /\ DOMAIN observation' = Processes /\ \A p \in Processes : ObservationFound(p)'
        BY <2>1, <2>2, SameObservations
    <2> QED BY <1>0, <2>1, <2>3, NoTask
<1> QED BY <1>1, <1>2, <1>3, <1>4, <1>5, <1>6, <1>7 DEF ProbeNext

\* The inductive invariant of probes, leases, summaries and observations.
THEOREM ProbeInvariant == ProbeSpec => []ProbeInv
BY ProbeInitEstablishes, ProbeNextPreserves, PTL DEF ProbeSpec

\* Nobody is kept from a target whose circuits let it through without a probe of
\* this very binding that found it unfit at most UseSpan ago, whatever was bound
\* anew, however late an answer or a summary comes, for any policy and processes.
THEOREM ExclusionAlwaysFounded == ProbeSpec => []ExclusionHasEvidence
<1>1. ProbeInv => ExclusionHasEvidence
    <2> SUFFICES ASSUME ProbeInv, NEW p \in Processes, NEW b \in Bindings,
                        NEW h \in Categories \ {"open", "recovering"}, FALSE \in AllowsCandidate(p, b, h)
        PROVE evidence[b] # None /\ (evidence[b] # None => instant - evidence[b] <= UseSpan)
        BY DEF ExclusionHasEvidence
    <2> DEFINE o == observation[p]
    <2>1. LocalHealthDecision(h) = {}
        BY DEF LocalHealthDecision
    <2>2. o # None /\ FALSE \in ObservationAllowsCandidate(o, b)
        BY <2>1 DEF AllowsCandidate
    <2>3. o.binding = b /\ ~(instant >= o.fresh) /\ FALSE \in o.effect
        BY <2>2 DEF ObservationAllowsCandidate
    <2>4. o \in ObservationRow /\ evidence[b] # None /\ o.fresh <= evidence[b] + UseSpan
        BY <2>2, <2>3 DEF ProbeInv, ObservationFound, FoundSince
    <2>5. o.fresh \in Int /\ evidence[b] \in Nat /\ instant \in Nat
        BY <2>4 DEF ObservationRow, ProbeInv, ProbesType
    <2> QED BY <2>3, <2>4, <2>5, SpansTyped
<1> QED BY <1>1, ProbeInvariant, PTL

\* A stored summary is only replaced by one that was observed no earlier, because
\* it is written by the owner of the lease, who observed within the lease.
THEOREM SummariesOnlyForward == ProbeSpec => SummariesMoveForward
<1>1. ProbeInv /\ [ProbeNext]_probeVars
      => [\A b \in Bindings : shared[b] # None /\ shared'[b] \notin {None, shared[b]} =>
              shared'[b].observed >= shared[b].observed]_probeVars
    BY ProbeNextPreserves DEF SummariesForward
<1> QED BY <1>1, ProbeInvariant, PTL DEF ProbeSpec, SummariesMoveForward

=============================================================================
