--------------------------- MODULE BudgetAllowance ---------------------------
(***************************************************************************)
(* Paired budget allowances: the Redis ledgers and grants of the           *)
(* coordinator (adapters/coordinator.rs) and the process-local grants,     *)
(* reservations and debts of gateway admission (gateway/admission.rs).     *)
(*                                                                         *)
(* A grant charges every enforcing ledger of a key/origin pair at once.    *)
(* A process reserves attempts against its grants without Redis, settles   *)
(* actual cost, turns an overrun into local debt, and returns what a grant *)
(* has left.  Calls, acknowledgements and whole processes may be lost.     *)
(***************************************************************************)
EXTENDS Integers, FiniteSets, FiniteSetsExt

CONSTANTS
    Processes,      \* server processes
    Attempts,       \* concurrent physical attempts
    Ledgers,        \* one per enforcing budget policy and epoch
    PolicyPairs,    \* sets of ledgers: key policy with the origin policy of a candidate
    Limit,          \* limit_cost_nanos of each ledger
    Slice,          \* max_slice_nanos of each ledger
    Estimates,      \* estimated costs of an attempt
    Actuals,        \* actual costs of an attempt
    RecoveryAllowance, \* allowance_authorized by a coordinator recovery
    MaxGrants,      \* bound: grants ever requested
    MaxSettled,     \* bound: attempts ever settled
    MaxFaults,      \* bound: crashes and lost calls
    MaxRecoveries   \* bound: coordinator recoveries

ASSUME BudgetAssumption ==
    /\ IsFiniteSet(Processes) /\ IsFiniteSet(Attempts) /\ "none" \notin Processes
    /\ PolicyPairs \subseteq (SUBSET Ledgers) \ {{}}
    /\ Limit \in [Ledgers -> Nat] /\ Slice \in [Ledgers -> Nat \ {0}]
    /\ Estimates \subseteq Nat /\ Actuals \subseteq Nat /\ RecoveryAllowance \in Nat
    /\ \A l \in Ledgers : RecoveryAllowance <= Limit[l]
    /\ MaxGrants \in Nat /\ MaxSettled \in Nat /\ MaxFaults \in Nat /\ MaxRecoveries \in Nat

VARIABLES
    charged,     \* Redis: charged_nanos of each ledger
    recovery,    \* Redis: recovery_generation of each ledger
    receipts,    \* Redis: the grant hashes
    known,       \* process: recovery generations of its runtime snapshot
    held,        \* process: LocalBudgetGrant of each grant id
    debts,       \* process: budget_debts
    returns,     \* process: frozen grants of the return pass that is running
    closing,     \* process: shutdown has been requested
    attempts,    \* process: attempts and their AttemptReservation
    granted,     \* grant ids used so far
    settled,     \* history: attempts settled so far
    spent,       \* history: actual cost settled for each enforcing ledger
    forgotten,   \* history: debt lost with its process
    faults

vars == <<charged, recovery, receipts, known, held, debts, returns, closing,
          attempts, granted, settled, spent, forgotten, faults>>
redisVars   == <<charged, recovery, receipts>>
historyVars == <<settled, spent, forgotten>>

GrantIds == 1 .. MaxGrants
Zero == [l \in Ledgers |-> 0]
Positive(n) == IF n > 0 THEN n ELSE 0
Least(a, b) == IF a <= b THEN a ELSE b
Greatest(a, b) == IF a >= b THEN a ELSE b
Sum(f, S) == MapThenSumSet(LAMBDA x : f[x], S)

NoReceipt == [present |-> FALSE, returned |-> FALSE, amount |-> Zero, credit |-> Zero]
NotHeld == [proc |-> "none", sides |-> {}, generation |-> Zero, remaining |-> Zero,
            inUse |-> 0, returning |-> FALSE, life |-> "expired"]
NoAttempt == [step |-> "idle", proc |-> "none", policies |-> {}, estimate |-> Zero,
              generation |-> Zero, grant |-> 0, reply |-> "none"]

\* The sides of an attempt's BudgetPairKey: enforcing_budget_side leaves a
\* policy out of the pair when its estimate is zero.
SidesOf(policies, estimate) == {l \in policies : estimate[l] > 0}
Sides(a) == SidesOf(attempts[a].policies, attempts[a].estimate)

\* The recovery generations in the policy references of a BudgetPairKey, taken
\* from the runtime snapshot the attempt started with.
References(p, sides) == [l \in Ledgers |-> IF l \in sides THEN known[p][l] ELSE 0]

\* The local grants of an attempt's exact BudgetPairKey.
GrantsOfPair(a) ==
    {g \in GrantIds : /\ held[g].proc = attempts[a].proc
                      /\ held[g].sides = Sides(a)
                      /\ held[g].generation = attempts[a].generation}

-----------------------------------------------------------------------------
(* pay_budget_debt over several grants, oldest first                        *)

\* What the grants of S have left for ledger l before grant g is reached.
AheadOf(S, g, l) ==
    Sum([h \in GrantIds |-> IF l \in held[h].sides THEN held[h].remaining[l] ELSE 0],
        {h \in S : h < g})

DebtAfterPaying(p, S) ==
    [l \in Ledgers |-> Positive(debts[p][l] - AheadOf(S, MaxGrants + 1, l))]

RemainingAfterPaying(p, S, g) ==
    [l \in Ledgers |->
        IF g \in S /\ l \in held[g].sides
        THEN Positive(held[g].remaining[l] - Positive(debts[p][l] - AheadOf(S, g, l)))
        ELSE held[g].remaining[l]]

PayDebts(p, S) ==
    [g \in GrantIds |-> [held[g] EXCEPT !.remaining = RemainingAfterPaying(p, S, g)]]

-----------------------------------------------------------------------------
(* reserve_attempt                                                          *)

\* An attempt starts; with no enforcing side it needs no grant.
Begin(a, p, policies, estimate) ==
    /\ attempts[a].step = "idle"
    /\ ~closing[p]
    /\ settled < MaxSettled
    /\ attempts' = [attempts EXCEPT ![a] =
           [step |-> IF SidesOf(policies, estimate) = {} THEN "reserved" ELSE "reserve",
            proc |-> p, policies |-> policies, estimate |-> estimate,
            generation |-> References(p, SidesOf(policies, estimate)),
            grant |-> 0, reply |-> "none"]]
    /\ UNCHANGED <<redisVars, known, held, debts, returns, closing, granted,
                   historyVars, faults>>

Covers(g, a, rest) == \A l \in Sides(a) : rest[l] >= attempts[a].estimate[l]

OpenGrants(mine, next) == {g \in mine : ~next[g].returning}

\* try_reserve_budget: debts are paid from every open grant of the pair; if
\* none is left, the first grant that covers the estimate is used.
TryReserve(a, mine, next, otherwise) ==
    LET p     == attempts[a].proc
        S     == OpenGrants(mine, next)
        owing == \E l \in Sides(a) : debts'[p][l] > 0
        fits  == {g \in S : next[g].life # "expired" /\ Covers(g, a, next[g].remaining)}
    IN  IF owing \/ fits = {}
        THEN /\ held' = next
             /\ attempts' = [attempts EXCEPT ![a] = otherwise]
        ELSE LET g == Min(fits) IN
             /\ held' = [next EXCEPT
                    ![g].remaining = [l \in Ledgers |->
                        IF l \in Sides(a) THEN @[l] - attempts[a].estimate[l] ELSE @[l]],
                    ![g].inUse = @ + 1]
             /\ attempts' = [attempts EXCEPT ![a].step = "reserved", ![a].grant = g]

\* A try that fails: on to the refill lock, to the coordinator, or denied.
NextTry(x) ==
    CASE x.step = "reserve" -> [x EXCEPT !.step = "refill"]
      [] x.step = "refill"  -> [x EXCEPT !.step = "ask"]
      [] OTHER              -> NoAttempt

\* The holder of the refill lock of a's pair.
Refilling(b, a) ==
    /\ attempts[b].step \in {"ask", "asking", "installed"} /\ attempts[b].proc = attempts[a].proc
    /\ Sides(b) = Sides(a)
    /\ attempts[b].generation = attempts[a].generation

\* The first try, before the refill lock, the second one, under it, and the last
\* one, after a grant was installed.
Reserve(a) ==
    LET p == attempts[a].proc
        mine == GrantsOfPair(a)
        open == OpenGrants(mine, held)
    IN  /\ \/ attempts[a].step \in {"reserve", "installed"}
           \/ attempts[a].step = "refill" /\ \A b \in Attempts \ {a} : ~Refilling(b, a)
        /\ debts' = [debts EXCEPT ![p] = DebtAfterPaying(p, open)]
        /\ TryReserve(a, mine, PayDebts(p, open), NextTry(attempts[a]))
        /\ UNCHANGED <<redisVars, known, returns, closing, granted, historyVars, faults>>

\* The refill owner sends one grant request with a fresh id.
AskGrant(a) ==
    /\ attempts[a].step = "ask"
    /\ granted < MaxGrants
    /\ granted' = granted + 1
    /\ attempts' = [attempts EXCEPT ![a].step = "asking", ![a].grant = granted + 1]
    /\ held' = [held EXCEPT ![granted + 1] =
           [NotHeld EXCEPT !.sides = Sides(a), !.generation = attempts[a].generation]]
    /\ UNCHANGED <<redisVars, known, debts, returns, closing, historyVars, faults>>

GrantAmount(a) ==
    [l \in Ledgers |-> IF l \in Sides(a) THEN Greatest(attempts[a].estimate[l], Slice[l]) ELSE 0]

\* validate_side: the generation is the ledger's and the limit has room.
SideAllows(l, generation, amount) ==
    /\ recovery[l] = generation
    /\ charged[l] + amount <= Limit[l]

\* BUDGET_GRANT: both sides are charged or none is.
RedisGrant(a) ==
    LET g == attempts[a].grant
        amount == GrantAmount(a)
    IN  /\ attempts[a].step = "asking" /\ attempts[a].reply = "none"
        /\ IF \A l \in Sides(a) : SideAllows(l, held[g].generation[l], amount[l])
           THEN /\ charged' = [l \in Ledgers |-> charged[l] + amount[l]]
                /\ receipts' = [receipts EXCEPT ![g] =
                       [present |-> TRUE, returned |-> FALSE, amount |-> amount, credit |-> Zero]]
                /\ attempts' = [attempts EXCEPT ![a].reply = "granted"]
           ELSE /\ attempts' = [attempts EXCEPT ![a].reply = "denied"]
                /\ UNCHANGED <<charged, receipts>>
        /\ UNCHANGED <<recovery, known, held, debts, returns, closing, granted,
                       historyVars, faults>>

\* install_budget_grant pays debt from the new grant alone; try_reserve_budget then
\* runs over the whole pair.
InstallGrant(a) ==
    LET p == attempts[a].proc
        g == attempts[a].grant
    IN  /\ attempts[a].step = "asking" /\ attempts[a].reply = "granted"
        /\ held' = [held EXCEPT ![g] = [@ EXCEPT !.proc = p, !.life = "fresh",
               !.remaining = [l \in Ledgers |->
                   Positive(receipts[g].amount[l] -
                            (IF l \in Sides(a) THEN debts[p][l] ELSE 0))]]]
        /\ debts' = [debts EXCEPT ![p] = [l \in Ledgers |->
               IF l \in Sides(a) THEN Positive(@[l] - receipts[g].amount[l]) ELSE @[l]]]
        /\ attempts' = [attempts EXCEPT ![a].step = "installed", ![a].grant = 0, ![a].reply = "none"]
        /\ UNCHANGED <<redisVars, known, returns, closing, granted, historyVars, faults>>

\* The grant is denied, or the caller goes away while it waits: an answer that
\* was already on its way leaves a charged grant nobody holds.
GiveUp(a) ==
    /\ attempts[a].step \in {"reserve", "refill", "ask", "asking"}
    /\ attempts[a].step = "ask" => granted = MaxGrants
    /\ attempts[a].step # "ask" /\ attempts[a].reply # "denied" => faults < MaxFaults
    /\ faults' = IF attempts[a].step = "ask" \/ attempts[a].reply = "denied"
                 THEN faults ELSE faults + 1
    /\ attempts' = [attempts EXCEPT ![a] = NoAttempt]
    /\ UNCHANGED <<redisVars, known, held, debts, returns, closing, granted, historyVars>>

-----------------------------------------------------------------------------
(* AttemptReservation                                                       *)

MarkDispatched(a) ==
    /\ attempts[a].step = "reserved"
    /\ attempts' = [attempts EXCEPT ![a].step = "dispatched"]
    /\ UNCHANGED <<redisVars, known, held, debts, returns, closing, granted,
                   historyVars, faults>>

\* The grant of a's reservation, if its process still holds it, no longer
\* counts a and gets its remainder adjusted.
Unreserve(a, remaining) ==
    LET g == attempts[a].grant IN
    held' = IF g # 0 /\ held[g].proc = attempts[a].proc
            THEN [held EXCEPT ![g].inUse = @ - 1, ![g].remaining = remaining]
            ELSE held

\* definitely_not_dispatched, also on dropping an undispatched reservation.
Release(a) ==
    /\ attempts[a].step \in {"reserved", "dispatched"}
    /\ Unreserve(a, [l \in Ledgers |->
           held[attempts[a].grant].remaining[l] +
           (IF l \in Sides(a) THEN attempts[a].estimate[l] ELSE 0)])
    /\ attempts' = [attempts EXCEPT ![a] = NoAttempt]
    /\ UNCHANGED <<redisVars, known, debts, returns, closing, granted, historyVars, faults>>

\* A dispatched reservation is dropped unsettled: the estimate stays spent.
Abandon(a) ==
    /\ attempts[a].step = "dispatched"
    /\ Unreserve(a, held[attempts[a].grant].remaining)
    /\ attempts' = [attempts EXCEPT ![a] = NoAttempt]
    /\ UNCHANGED <<redisVars, known, debts, returns, closing, granted, historyVars, faults>>

\* settle_budget_side: what the reservation and the grant's remainder do not cover.
Overrun(a, actual, l) ==
    LET g == attempts[a].grant
        left == IF held[g].proc = attempts[a].proc THEN held[g].remaining[l] ELSE 0
    IN  Positive(actual - attempts[a].estimate[l] - left)

\* settle_actual_cost: the difference goes back to the grant or comes from it,
\* and what is left over becomes debt of every side of the pair.
Settle(a, actual) ==
    LET p == attempts[a].proc
        g == attempts[a].grant
    IN  /\ attempts[a].step = "dispatched"
        /\ settled < MaxSettled
        /\ settled' = settled + 1
        /\ spent' = [l \in Ledgers |->
               IF l \in attempts[a].policies THEN spent[l] + actual ELSE spent[l]]
        /\ IF g = 0 THEN UNCHANGED <<held, debts>>
           ELSE /\ Unreserve(a, [l \in Ledgers |->
                       IF l \in Sides(a)
                       THEN Positive(held[g].remaining[l] + attempts[a].estimate[l] - actual)
                       ELSE held[g].remaining[l]])
                /\ debts' = [debts EXCEPT ![p] = [l \in Ledgers |->
                       IF l \in Sides(a) THEN @[l] + Overrun(a, actual, l) ELSE @[l]]]
        /\ attempts' = [attempts EXCEPT ![a] = NoAttempt]
        /\ UNCHANGED <<redisVars, known, returns, closing, granted, forgotten, faults>>

-----------------------------------------------------------------------------
(* return_budget_grants                                                     *)

\* A grant comes within the return-ahead window, then expires.
Age(g) ==
    /\ held[g].proc # "none" /\ held[g].life # "expired"
    /\ held' = [held EXCEPT ![g].life = IF @ = "fresh" THEN "ending" ELSE "expired"]
    /\ UNCHANGED <<redisVars, known, debts, returns, closing, attempts, granted,
                   historyVars, faults>>

\* Mutant: grants that back a live reservation are returned too.
ReturnableInUse(g, p) ==
    /\ held[g].proc = p
    /\ held[g].returning \/ closing[p] \/ held[g].life # "fresh"

\* Mutant: a frozen grant is not offered again.
ReturnableOnce(g, p) ==
    /\ held[g].proc = p
    /\ held[g].inUse = 0 /\ ~held[g].returning
    /\ closing[p] \/ held[g].life # "fresh"

Returnable(g, p) ==
    /\ held[g].proc = p
    /\ held[g].inUse = 0
    /\ held[g].returning \/ closing[p] \/ held[g].life # "fresh"

\* The grants a pass takes: the interval's and the last pass take all of them,
\* the pass at the start of reserve_attempt the expired ones of its pair.
Passes(p) ==
    LET all == {g \in GrantIds : Returnable(g, p)}
        expired == {g \in all : held[g].returning \/ held[g].life = "expired"}
    IN  {all} \cup {expired \cap GrantsOfPair(a) :
                      a \in {b \in Attempts : attempts[b].proc = p
                                               /\ attempts[b].step \in {"reserve", "refill"}}}

\* Mutant: a grant that is offered again pays debt again.
FrozenNowAgain(S) == S

\* The grants a pass freezes; the others were frozen by an earlier one.
FrozenNow(S) == {g \in S : ~held[g].returning}

\* One pass at a time (budget_returns.try_lock): every grant it takes pays debt
\* once and is frozen for good.
FreezeReturns(p, S) ==
    LET new == FrozenNow(S)
        paid == PayDebts(p, new)
    IN  /\ returns[p] = {} /\ S # {}
        /\ held' = [g \in GrantIds |-> [paid[g] EXCEPT !.returning = @ \/ g \in new]]
        /\ debts' = [debts EXCEPT ![p] = DebtAfterPaying(p, new)]
        /\ returns' = [returns EXCEPT ![p] = S]
        /\ UNCHANGED <<redisVars, known, closing, attempts, granted, historyVars, faults>>

\* Mutant: a return that was applied before is applied again.
AlreadyReturnedNever(g) == FALSE

AlreadyReturned(g) == receipts[g].returned

\* BUDGET_RETURN for the frozen remainder: key side first, then the origin
\* side, then the receipt.  A side whose ledger holds less than the credit
\* ends the script as a conflict; what an earlier side was credited stays.
\* "key" is the first side of a pair.
RedisReturn(g) ==
    LET unused == held[g].remaining
        short  == {l \in held[g].sides : charged[l] < unused[l]}
        applied == IF short = {} THEN held[g].sides
                   ELSE IF "key" \in short THEN {} ELSE held[g].sides \cap {"key"}
    IN  IF ~receipts[g].present \/ AlreadyReturned(g)
        THEN UNCHANGED redisVars
        ELSE /\ charged' = [l \in Ledgers |->
                    IF l \in applied THEN charged[l] - unused[l] ELSE charged[l]]
             /\ receipts' = IF short = {}
                    THEN [receipts EXCEPT ![g].returned = TRUE, ![g].credit = unused]
                    ELSE receipts
             /\ UNCHANGED recovery

\* One call of the pass: it is answered, its answer is lost, or it is lost.
ReturnAnswered(p, g) ==
    /\ g \in returns[p]
    /\ RedisReturn(g)
    /\ held' = IF receipts'[g].returned THEN [held EXCEPT ![g] = NotHeld] ELSE held
    /\ returns' = [returns EXCEPT ![p] = @ \ {g}]
    /\ UNCHANGED <<known, debts, closing, attempts, granted, settled, spent, forgotten, faults>>

ReturnUnanswered(p, g) ==
    /\ g \in returns[p]
    /\ faults < MaxFaults
    /\ faults' = faults + 1
    /\ RedisReturn(g) \/ UNCHANGED redisVars
    /\ returns' = [returns EXCEPT ![p] = @ \ {g}]
    /\ UNCHANGED <<known, held, debts, closing, attempts, granted, settled, spent, forgotten>>

-----------------------------------------------------------------------------
(* Process and coordinator lifecycle                                        *)

\* shutdown_bounded: the last pass closes every idle grant.
Close(p) ==
    /\ ~closing[p]
    /\ closing' = [closing EXCEPT ![p] = TRUE]
    /\ UNCHANGED <<redisVars, known, held, debts, returns, attempts, granted,
                   historyVars, faults>>

\* A process dies, or ends after its last pass, and starts empty.
Restart(p) ==
    /\ faults < MaxFaults
    /\ faults' = faults + 1
    /\ held' = [g \in GrantIds |-> IF held[g].proc = p THEN NotHeld ELSE held[g]]
    /\ forgotten' = [l \in Ledgers |-> forgotten[l] + debts[p][l]]
    /\ debts' = [debts EXCEPT ![p] = Zero]
    /\ returns' = [returns EXCEPT ![p] = {}]
    /\ closing' = [closing EXCEPT ![p] = FALSE]
    /\ attempts' = [a \in Attempts |-> IF attempts[a].proc = p THEN NoAttempt ELSE attempts[a]]
    /\ known' = [known EXCEPT ![p] = recovery]
    /\ UNCHANGED <<redisVars, granted, settled, spent>>

\* RECOVERY_INSTALL: the ledger restarts with only the authorised allowance.
InstallRecovery(l) ==
    /\ Sum(recovery, Ledgers) < MaxRecoveries
    /\ recovery' = [recovery EXCEPT ![l] = @ + 1]
    /\ charged' = [charged EXCEPT ![l] = Limit[l] - RecoveryAllowance]
    /\ UNCHANGED <<receipts, known, held, debts, returns, closing, attempts, granted,
                   historyVars, faults>>

\* The new recovery generation reaches a process with its runtime snapshot.
LearnRecovery(p) ==
    /\ known[p] # recovery
    /\ known' = [known EXCEPT ![p] = recovery]
    /\ UNCHANGED <<redisVars, held, debts, returns, closing, attempts, granted,
                   historyVars, faults>>

-----------------------------------------------------------------------------
Init ==
    /\ charged = Zero /\ recovery = Zero
    /\ receipts = [g \in GrantIds |-> NoReceipt]
    /\ known = [p \in Processes |-> Zero]
    /\ held = [g \in GrantIds |-> NotHeld]
    /\ debts = [p \in Processes |-> Zero]
    /\ returns = [p \in Processes |-> {}]
    /\ closing = [p \in Processes |-> FALSE]
    /\ attempts = [a \in Attempts |-> NoAttempt]
    /\ granted = 0 /\ settled = 0 /\ faults = 0
    /\ spent = Zero /\ forgotten = Zero

BeginAny(a) ==
    \E p \in Processes, policies \in PolicyPairs, e \in [Ledgers -> Estimates \cup {0}] :
        /\ \A l \in Ledgers : (l \in policies => e[l] \in Estimates) /\ (l \notin policies => e[l] = 0)
        /\ Begin(a, p, policies, e)

Finish(a) == Release(a) \/ Abandon(a) \/ \E actual \in Actuals : Settle(a, actual)

Next ==
    \/ \E a \in Attempts :
           \/ BeginAny(a) \/ Reserve(a) \/ AskGrant(a) \/ RedisGrant(a) \/ InstallGrant(a)
           \/ GiveUp(a) \/ MarkDispatched(a) \/ Finish(a)
    \/ \E g \in GrantIds : Age(g)
    \/ \E p \in Processes :
           \/ \E S \in Passes(p) : FreezeReturns(p, S)
           \/ Close(p) \/ Restart(p) \/ LearnRecovery(p)
           \/ \E g \in GrantIds : ReturnAnswered(p, g) \/ ReturnUnanswered(p, g)
    \/ \E l \in Ledgers : InstallRecovery(l)

\* The return interval fires every 15 seconds and its calls are answered or
\* time out; grants reach their expiry; a dispatched attempt ends.
Fairness ==
    /\ \A p \in Processes : WF_vars(\E S \in Passes(p) : FreezeReturns(p, S))
    /\ \A p \in Processes, g \in GrantIds : WF_vars(ReturnAnswered(p, g))
    /\ \A g \in GrantIds : WF_vars(Age(g))
    /\ \A a \in Attempts : WF_vars(MarkDispatched(a)) /\ WF_vars(Finish(a))

Spec == Init /\ [][Next]_vars
FairSpec == Spec /\ Fairness

-----------------------------------------------------------------------------
(* Properties                                                               *)

\* The reservations a process holds on ledger l.
Reserved(l) ==
    Sum([a \in Attempts |->
            IF attempts[a].step \in {"reserved", "dispatched"} THEN attempts[a].estimate[l] ELSE 0],
        Attempts)

\* settle_actual_cost, pay_budget_debt and BUDGET_RETURN together: what was
\* settled plus what live attempts reserve never exceeds what Redis keeps
\* charged plus the debt that is still owed or died with its process, until a
\* recovery replaces the charges.
SpendingIsCovered ==
    recovery = Zero => \A l \in Ledgers :
        spent[l] + Reserved(l) <=
            charged[l] + Sum([p \in Processes |-> debts[p][l]], Processes) + forgotten[l]

\* AttemptReservation: a live reservation's grant is still held, is not frozen
\* for return and counts exactly its reservations.
ReservationsAreBacked ==
    \A g \in GrantIds :
        LET users == {a \in Attempts : attempts[a].grant = g
                                         /\ attempts[a].step \in {"reserved", "dispatched"}}
        IN  /\ held[g].inUse = Cardinality(users)
            /\ users # {} => ~held[g].returning
                             /\ \A a \in users : held[g].proc = attempts[a].proc

\* BUDGET_GRANT and BUDGET_RETURN keep every ledger between zero and its limit,
\* recoveries and returns of older grants included; without a recovery its charge
\* is exactly what was granted less what each grant returned once, however often
\* calls are retried.
LedgerConserved ==
    \A l \in Ledgers :
        /\ charged[l] \in 0 .. Limit[l]
        /\ recovery = Zero =>
              charged[l] = Sum([g \in GrantIds |-> receipts[g].amount[l] - receipts[g].credit[l]], GrantIds)

\* Redis refuses to take grant g back: a recovery left a side less than it returns.
ReturnConflicts(g) == \E l \in held[g].sides : charged[l] < held[g].remaining[l]

\* run_budget_returns: a held grant whose process keeps running is returned
\* sooner or later, lost answers notwithstanding, unless its return conflicts.
GrantsAreReturned ==
    \A g \in GrantIds :
        (held[g].proc # "none") ~> (held[g].proc = "none" \/ ReturnConflicts(g))

=============================================================================
