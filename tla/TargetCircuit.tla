---------------------------- MODULE TargetCircuit ----------------------------
(***************************************************************************)
(* Target protection of one gateway process (gateway/protection.rs):       *)
(* circuit breakers and in-flight ceilings of the failure domains that     *)
(* targets share.                                                          *)
(*                                                                         *)
(* An attempt passes the circuits of its target's domains under one lock   *)
(* and takes capacity under others.  In a half-open circuit it holds a     *)
(* token, the open_until it was admitted under, so that its result can be  *)
(* told from the results of an earlier or a later open period.  It ends by *)
(* an observation or is dropped: a refusal, a cancellation, a client error.*)
(***************************************************************************)
EXTENDS Integers, FiniteSets, Sequences

CONSTANTS
    Attempts,         \* attempts and probes in flight, reused when they end
    Candidates,       \* targets
    Domains,          \* circuit domains: an endpoint, credential or deployment
                      \* with the versions it is bound to
    DomainsOf,        \* the domains of each target, in the code's order
    Ids,              \* capacity domains
    IdOf,             \* the capacity domain of each circuit domain
    KindOf,           \* the table each capacity domain is kept in
    Limit,            \* in-flight ceiling of a capacity domain
    FailureThreshold, SuccessThreshold, HalfOpenMax,
    OpenDuration, MaxOpenDuration, RecoveryDuration,   \* CircuitPolicySnapshot
    MaxTracked,       \* MAX_TRACKED_DOMAINS for the circuit table, and for
    MaxSemaphores,    \* each table of semaphores
    IdleSpan,         \* an entry untouched for so long may be forgotten
    MaxTime           \* bound: last instant

ASSUME CircuitAssumption ==
    /\ IsFiniteSet(Attempts) /\ IsFiniteSet(Domains) /\ IsFiniteSet(Ids)
    /\ DomainsOf \in [Candidates -> Seq(Domains)]
    /\ IdOf \in [Domains -> Ids]
    /\ Limit \in Nat /\ IdleSpan \in Nat /\ MaxTracked \in Nat /\ MaxSemaphores \in Nat
    /\ Candidates # {}
    /\ FailureThreshold \in Nat \ {0} /\ SuccessThreshold \in Nat \ {0}
    /\ HalfOpenMax \in Nat \ {0}
    /\ OpenDuration \in Nat \ {0} /\ RecoveryDuration \in Nat
    /\ MaxOpenDuration \in Nat /\ OpenDuration <= MaxOpenDuration
    /\ MaxTime \in Nat \ {0}

VARIABLES
    now,
    circuit,    \* CircuitStates.entries; tracked is false for no entry
    semaphore,  \* CapacityDomain.entries: free permits, or untracked
    attempt     \* who is in flight, for which target and with which tokens

vars == <<now, circuit, semaphore, attempt>>

\* Instants are positive: 0 is None.
FreshEntry == [tracked |-> FALSE, failures |-> 0, successes |-> 0, open |-> 0,
               inflight |-> 0, recovery |-> 0, reopen |-> 0, touched |-> 0]

NoTokens == [d \in Domains |-> 0]

\* An attempt that is not in flight.
NoAttempt == [state |-> "idle", target |-> CHOOSE c \in Candidates : TRUE, tokens |-> NoTokens]

Domain(c) == {DomainsOf[c][i] : i \in DOMAIN DomainsOf[c]}

Init ==
    /\ now = 1
    /\ circuit = [d \in Domains |-> FreshEntry]
    /\ semaphore = [i \in Ids |-> [tracked |-> FALSE, free |-> Limit]]
    /\ attempt = [a \in Attempts |-> NoAttempt]

-----------------------------------------------------------------------------
(* Circuits                                                                 *)

\* finish_recovery_if_elapsed
FinishRecovery(e) ==
    IF e.recovery # 0 /\ e.recovery <= now
    THEN [e EXCEPT !.recovery = 0, !.reopen = 0]
    ELSE e

Tracked(entries) == {d \in Domains : entries[d].tracked}

\* A full table forgets the entries that hold nothing and were not used lately.
Kept(e) == e.inflight > 0 \/ e.open > now \/ now - e.touched < IdleSpan

Evicted ==
    IF Cardinality(Tracked(circuit)) < MaxTracked THEN circuit
    ELSE [d \in Domains |-> IF Kept(circuit[d]) THEN circuit[d] ELSE FreshEntry]

\* The table has no room for the domains of c.
TableFull(c) ==
    /\ \E d \in Domain(c) : ~Evicted[d].tracked
    /\ Cardinality(Tracked(Evicted)) + Len(DomainsOf[c]) > MaxTracked

\* The circuit of a domain refuses an attempt.
Refuses(e) == e.open # 0 /\ (e.open > now \/ e.inflight >= HalfOpenMax)

\* An entry an attempt went past, and one that it holds a token of.
Touched(e) == [FinishRecovery(e) EXCEPT !.tracked = TRUE, !.touched = now]
Entered(e) == IF e.open # 0 THEN [Touched(e) EXCEPT !.inflight = @ + 1] ELSE Touched(e)

\* acquire_circuits refuses at the i-th domain: it and the ones before it are
\* touched, and giving the tokens back touches the entries of the others.
Refused(c, i) ==
    /\ Refuses(Evicted[DomainsOf[c][i]])
    /\ \A j \in 1 .. i - 1 : ~Refuses(Evicted[DomainsOf[c][j]])
    /\ circuit' = [d \in Domains |->
           IF \E j \in 1 .. i : DomainsOf[c][j] = d THEN Touched(Evicted[d])
           ELSE IF d \in Domain(c) /\ Evicted[d].tracked THEN [Evicted[d] EXCEPT !.touched = now]
           ELSE Evicted[d]]
    /\ UNCHANGED attempt

\* acquire_circuits admits: every open domain counts the attempt.
Admitted(a, c) ==
    /\ \A d \in Domain(c) : ~Refuses(Evicted[d])
    /\ circuit' = [d \in Domains |-> IF d \in Domain(c) THEN Entered(Evicted[d]) ELSE Evicted[d]]
    /\ attempt' = [attempt EXCEPT ![a] =
           [state |-> "admitted", target |-> c,
            tokens |-> [d \in Domains |-> IF d \in Domain(c) THEN Evicted[d].open ELSE 0]]]

AcquireCircuits(a, c) ==
    /\ attempt[a].state = "idle"
    /\ \/ TableFull(c) /\ circuit' = Evicted /\ UNCHANGED attempt
       \/ ~TableFull(c) /\ (Admitted(a, c) \/ \E i \in DOMAIN DomainsOf[c] : Refused(c, i))
    /\ UNCHANGED <<now, semaphore>>

\* Mutant: a token is given back without looking at the open period.
HoldsAnyToken(a, d) == attempt[a].tokens[d] # 0

\* The attempt was counted by the circuit's present open period.
HoldsToken(a, d) == attempt[a].tokens[d] # 0 /\ circuit[d].open = attempt[a].tokens[d]

\* release_circuit_tokens
Released(a) ==
    [d \in Domains |->
        IF d \notin Domain(attempt[a].target) \/ ~circuit[d].tracked THEN circuit[d]
        ELSE [circuit[d] EXCEPT !.touched = now,
                  !.inflight = IF HoldsToken(a, d) /\ @ > 0 THEN @ - 1 ELSE @]]

\* circuit_cooldown
Cooldown(reopen) ==
    LET doubled == OpenDuration * 2 ^ (IF reopen < 63 THEN reopen ELSE 63)
    IN  IF doubled < MaxOpenDuration THEN doubled ELSE MaxOpenDuration

\* observe_circuits, success: enough half-open evidence starts the recovery.
Succeeded(e, halfOpen) ==
    IF halfOpen /\ e.successes + 1 >= SuccessThreshold
    THEN [e EXCEPT !.failures = 0, !.successes = 0, !.open = 0, !.inflight = 0,
                   !.recovery = now + RecoveryDuration]
    ELSE [e EXCEPT !.failures = 0, !.successes = IF halfOpen THEN @ + 1 ELSE 0]

\* observe_circuits, failure: in a half-open or recovering circuit, or at the
\* threshold, it opens for a longer time than before.
Failed(e, halfOpen) ==
    IF halfOpen \/ e.recovery > now \/ e.failures + 1 >= FailureThreshold
    THEN [e EXCEPT !.failures = 0, !.successes = 0, !.inflight = 0, !.recovery = 0,
                   !.open = now + Cooldown(e.reopen), !.reopen = @ + 1]
    ELSE [e EXCEPT !.failures = @ + 1, !.successes = 0]

\* Mutant: a result of an earlier open period is applied.
CountsLate(a, d) == attempt[a].tokens[d] # 0 \/ circuit[d].open = 0

\* A result is applied in the open period that admitted the attempt, or to a
\* closed circuit by an attempt that no open period admitted.
Counts(a, d) == HoldsToken(a, d) \/ (attempt[a].tokens[d] = 0 /\ circuit[d].open = 0)

Observed(a, success) ==
    [d \in Domains |->
        IF d \notin Domain(attempt[a].target) \/ ~circuit[d].tracked THEN circuit[d]
        ELSE LET seen     == Touched(circuit[d])
                 halfOpen == attempt[a].tokens[d] # 0
                 taken    == IF HoldsToken(a, d) /\ seen.inflight > 0
                             THEN [seen EXCEPT !.inflight = @ - 1] ELSE seen
             IN  IF ~Counts(a, d) THEN seen
                 ELSE IF success THEN Succeeded(taken, halfOpen) ELSE Failed(taken, halfOpen)]

-----------------------------------------------------------------------------
(* Capacity                                                                 *)

IdsOf(c) == {IdOf[d] : d \in Domain(c)}

Holders(i) == {a \in Attempts : attempt[a].state = "inflight" /\ i \in IdsOf(attempt[a].target)}

\* A full table forgets the semaphores nobody holds.
Forgets(i) == Holders(i) = {}

\* CapacityDomain::try_acquire, once for each table: what the table holds when
\* an unknown id of target c has been looked up in it.
LookedUp(c) ==
    LET table(k) == {i \in Ids : KindOf[i] = k /\ semaphore[i].tracked}
        full(k)  == /\ \E i \in IdsOf(c) : KindOf[i] = k /\ ~semaphore[i].tracked
                    /\ Cardinality(table(k)) >= MaxSemaphores
        kept(k)  == {i \in table(k) : full(k) => ~Forgets(i)}
        known(i) == \/ i \in kept(KindOf[i])
                    \/ i \in IdsOf(c) /\ Cardinality(kept(KindOf[i])) < MaxSemaphores
    IN  [i \in Ids |-> IF i \in kept(KindOf[i]) THEN semaphore[i]
                       ELSE [tracked |-> known(i), free |-> Limit]]

\* Every ceiling has room; otherwise the attempt gives its tokens back.
AcquireCapacity(a) ==
    LET c     == attempt[a].target
        table == LookedUp(c)
        fits  == \A i \in IdsOf(c) : table[i].tracked /\ table[i].free > 0
    IN  /\ attempt[a].state = "admitted"
        /\ \/ /\ fits
              /\ semaphore' = [i \in Ids |-> IF i \in IdsOf(c) THEN [table[i] EXCEPT !.free = @ - 1]
                                             ELSE table[i]]
              /\ attempt' = [attempt EXCEPT ![a].state = "inflight"]
              /\ UNCHANGED circuit
           \/ /\ ~fits
              /\ circuit' = Released(a)
              /\ attempt' = [attempt EXCEPT ![a] = NoAttempt]
              /\ semaphore' = table
        /\ UNCHANGED now

-----------------------------------------------------------------------------
(* The end of an attempt                                                    *)

Ends(a) ==
    /\ attempt[a].state = "inflight"
    /\ attempt' = [attempt EXCEPT ![a] = NoAttempt]
    /\ semaphore' = [i \in Ids |-> IF a \in Holders(i) THEN [semaphore[i] EXCEPT !.free = @ + 1]
                                   ELSE semaphore[i]]
    /\ UNCHANGED now

\* TargetAttemptPermit::success and ::failure
Observe(a, success) == Ends(a) /\ circuit' = Observed(a, success)

\* The permit is dropped without an observation.
Drop(a) == Ends(a) /\ circuit' = Released(a)

\* local_health finishes the recoveries it meets.
LocalHealth(c) ==
    /\ circuit' = [d \in Domains |-> IF d \in Domain(c) /\ circuit[d].tracked
                                     THEN FinishRecovery(circuit[d]) ELSE circuit[d]]
    /\ UNCHANGED <<now, semaphore, attempt>>

Tick == now < MaxTime /\ now' = now + 1 /\ UNCHANGED <<circuit, semaphore, attempt>>

Next ==
    \/ Tick
    \/ \E c \in Candidates : LocalHealth(c) \/ \E a \in Attempts : AcquireCircuits(a, c)
    \/ \E a \in Attempts :
           \/ AcquireCapacity(a) \/ Drop(a)
           \/ \E success \in BOOLEAN : Observe(a, success)

Spec == Init /\ [][Next]_vars

-----------------------------------------------------------------------------
(* Properties                                                               *)

\* The attempts the present open period of d admitted and that have not ended.
Probing(d) == {a \in Attempts : attempt[a].tokens[d] # 0 /\ attempt[a].tokens[d] = circuit[d].open}

\* half_open_in_flight is exactly the number of attempts that the present open
\* period admitted, whatever ended late, was dropped or refused for capacity:
\* no half-open slot is leaked and none is counted twice.  Nor is a permit of the
\* in-flight ceilings, also when a full table forgets semaphores.
PermitsConserved ==
    /\ \A d \in Domains : circuit[d].inflight = Cardinality(Probing(d))
    /\ \A i \in Ids : semaphore[i].free >= 0 /\ semaphore[i].free + Cardinality(Holders(i)) = Limit

\* What a full table must not forget.
InUse(d) == circuit[d].open > now \/ Probing(d) # {} \/ now - circuit[d].touched < IdleSpan

\* A circuit that is in use closes only after its cooldown, in a step that ends an
\* attempt its own open period admitted: the late end of an attempt of an earlier
\* period cannot close it, though that was a success.
ClosesOnOwnEvidence ==
    [][\A d \in Domains :
          circuit[d].open # 0 /\ circuit'[d].open = 0 /\ InUse(d) =>
              /\ circuit[d].open <= now
              /\ \E a \in Probing(d) : attempt'[a].state = "idle"]_vars

=============================================================================
