--------------------------- MODULE AdmissionProofs ---------------------------
(***************************************************************************)
(* Budget allowances, for every set of ledgers, attempts and processes,    *)
(* every limit and slice and every number of grants and faults.            *)
(*                                                                         *)
(* The properties are about sums, so the first part shows what a sum over  *)
(* a finite set is: there is no smallest set for which it is otherwise.    *)
(* A reservation is backed because a grant knows its reservations (Backed) *)
(* and is frozen only without any.  Spending is covered because what each  *)
(* grant has left is spent from what it charged, debt for debt (Covered),  *)
(* and a return cannot conflict before a recovery because no grant has     *)
(* more left than it was charged for (Within).                             *)
(*                                                                         *)
(* The second half is about strict concurrency leases: the two components  *)
(* of admission share no variable, and each specification stands alone.    *)
(***************************************************************************)
EXTENDS BudgetAllowance, StrictLease, FiniteSetTheorems, TLAPS

-----------------------------------------------------------------------------
(* Sums                                                                     *)

First(s) == CHOOSE x \in s : TRUE

\* g sums f over every subset of S, an element at a time.
Sums(g, f, S) ==
    g = [s \in SUBSET S |-> IF s = {} THEN 0 ELSE f[First(s)] + g[s \ {First(s)}]]

\* A set of subsets has a smallest one.
LEMMA Smallest ==
    ASSUME NEW S, IsFiniteSet(S), NEW T, T \subseteq SUBSET S, T # {}
    PROVE  \E s \in T : \A t \in T : t \subseteq s => t = s
<1>1. FiniteSubsetsOf(S) = SUBSET S
  BY FS_FiniteSubsetsOfFinite
<1>2. IsWellFoundedOn(StrictSubsetOrdering(S), SUBSET S)
  BY <1>1, FS_StrictSubsetOrderingWellFounded
<1>3. PICK s \in T : \A t \in T : ~(<<t, s>> \in StrictSubsetOrdering(S))
  BY <1>2, WFMin
<1>4. ASSUME NEW t \in T, t \subseteq s PROVE t = s
  BY <1>3, <1>4 DEF StrictSubsetOrdering
<1> QED BY <1>3, <1>4

LEMMA FirstIn == ASSUME NEW s, s # {} PROVE First(s) \in s
BY DEF First

LEMMA SumIs ==
    ASSUME NEW f, NEW S, NEW h, Sums(h, f, S), \A g : Sums(g, f, S) => g = h
    PROVE  Sum(f, S) = h[S]
<1>1. Sum(f, S) = (CHOOSE g : Sums(g, f, S))[S]
  BY DEF Sum, MapThenSumSet, MapThenFoldSet, Sums, First
<1>2. Sums((CHOOSE g : Sums(g, f, S)), f, S)
  OBVIOUS
<1> QED BY <1>1, <1>2

\* Two of them agree wherever both sum.
LEMMA SumsAgree ==
    ASSUME NEW f, NEW A, NEW B, IsFiniteSet(A), NEW g, NEW h, Sums(g, f, A), Sums(h, f, B)
    PROVE  \A s \in SUBSET A : s \in SUBSET B => g[s] = h[s]
<1> DEFINE T == {s \in SUBSET A : s \in SUBSET B /\ g[s] # h[s]}
<1>1. SUFFICES ASSUME T # {} PROVE FALSE
  OBVIOUS
<1>2. PICK s \in T : \A t \in T : t \subseteq s => t = s
  <2>1. T \subseteq SUBSET A
    OBVIOUS
  <2> HIDE DEF T
  <2> QED BY <1>1, <2>1, Smallest
<1>3. /\ g[s] = IF s = {} THEN 0 ELSE f[First(s)] + g[s \ {First(s)}]
      /\ h[s] = IF s = {} THEN 0 ELSE f[First(s)] + h[s \ {First(s)}]
  BY DEF Sums
<1>4. s # {} /\ First(s) \in s
  BY <1>3, FirstIn
<1>5. g[s \ {First(s)}] = h[s \ {First(s)}]
  BY <1>2, <1>4
<1> QED BY <1>3, <1>4, <1>5

LEMMA SumsExist ==
    ASSUME NEW f, NEW S, IsFiniteSet(S)
    PROVE  \E g : Sums(g, f, S)
<1> DEFINE T == {s \in SUBSET S : ~\E g : Sums(g, f, s)}
<1>1. SUFFICES ASSUME T # {} PROVE FALSE
  OBVIOUS
<1>2. PICK s \in T : \A t \in T : t \subseteq s => t = s
  <2>1. T \subseteq SUBSET S
    OBVIOUS
  <2> HIDE DEF T
  <2> QED BY <1>1, <2>1, Smallest
<1>3. \A x \in s : \E g : Sums(g, f, s \ {x})
  BY <1>2
<1> DEFINE G(x) == CHOOSE g : Sums(g, f, s \ {x})
<1>4. \A x \in s : Sums(G(x), f, s \ {x})
  BY <1>3
<1>5. \A x \in s : IsFiniteSet(s \ {x})
  BY FS_Subset
<1> HIDE DEF G
<1>6. \A x, y \in s : \A t \in SUBSET (s \ {x}) : t \in SUBSET (s \ {y}) => G(x)[t] = G(y)[t]
  <2> SUFFICES ASSUME NEW x \in s, NEW y \in s, NEW t \in SUBSET (s \ {x}), t \in SUBSET (s \ {y})
               PROVE  G(x)[t] = G(y)[t]
    OBVIOUS
  <2>1. Sums(G(x), f, s \ {x}) /\ Sums(G(y), f, s \ {y}) /\ IsFiniteSet(s \ {x})
    BY <1>4, <1>5
  <2> HIDE DEF T
  <2> QED BY <2>1, SumsAgree
<1> DEFINE Miss(t) == CHOOSE x \in s : x \notin t
           Sub(t) == G(Miss(t))[t]
           g == [t \in SUBSET s |->
                    IF t = {} THEN 0
                    ELSE f[First(t)] + Sub(t \ {First(t)})]
<1>7. \A t \in SUBSET s : t # s => Miss(t) \in s /\ t \in SUBSET (s \ {Miss(t)})
  OBVIOUS
<1>8. \A t \in SUBSET s : t # s => g[t] = Sub(t)
  <2> SUFFICES ASSUME NEW t \in SUBSET s, t # s PROVE g[t] = Sub(t)
    OBVIOUS
  <2> DEFINE m == Miss(t)
  <2>1. m \in s /\ t \in SUBSET (s \ {m})
    BY <1>7
  <2>2. Sub(t) = IF t = {} THEN 0 ELSE f[First(t)] + G(m)[t \ {First(t)}]
    BY <1>4, <2>1 DEF Sums
  <2>3. ASSUME t # {} PROVE Sub(t \ {First(t)}) = G(m)[t \ {First(t)}]
    <3> DEFINE u == t \ {First(t)}
               n == Miss(u)
    <3>1. u \in SUBSET s /\ u # s
      BY <2>1
    <3>2. n \in s /\ u \in SUBSET (s \ {n})
      BY <1>7, <3>1
    <3>3. u \in SUBSET (s \ {m})
      BY <2>1
    <3> HIDE DEF u, n, m, Miss
    <3>4. G(n)[u] = G(m)[u]
      BY <1>6, <2>1, <3>2, <3>3
    <3> QED BY <3>4 DEF u, n
  <2> HIDE DEF Sub, m
  <2> QED BY <2>2, <2>3
<1>9. \A t \in SUBSET s : t # {} => t \ {First(t)} \in SUBSET s /\ t \ {First(t)} # s
  BY FirstIn
<1> HIDE DEF Sub
<1>10. g = [t \in SUBSET s |-> IF t = {} THEN 0 ELSE f[First(t)] + g[t \ {First(t)}]]
  <2>1. \A t \in SUBSET s : g[t] = IF t = {} THEN 0 ELSE f[First(t)] + g[t \ {First(t)}]
    BY <1>8, <1>9
  <2> DEFINE k == [t \in SUBSET s |-> IF t = {} THEN 0 ELSE f[First(t)] + g[t \ {First(t)}]]
  <2>2. \A t \in SUBSET s : g[t] = k[t]
    BY <2>1
  <2> QED BY <2>2
<1>11. Sums(g, f, s)
  BY <1>10 DEF Sums
<1> QED BY <1>11

LEMMA SumsUnique ==
    ASSUME NEW f, NEW S, IsFiniteSet(S), NEW g, NEW h, Sums(g, f, S), Sums(h, f, S)
    PROVE  g = h
<1>1. \A s \in SUBSET S : g[s] = h[s]
  BY SumsAgree
<1>2. g = [s \in SUBSET S |-> g[s]] /\ h = [s \in SUBSET S |-> h[s]]
  BY DEF Sums
<1> QED BY <1>1, <1>2

LEMMA SumStep ==
    ASSUME NEW f, NEW S, IsFiniteSet(S)
    PROVE  /\ Sum(f, {}) = 0
           /\ S # {} => Sum(f, S) = f[First(S)] + Sum(f, S \ {First(S)})
<1>1. \A T : IsFiniteSet(T) => \E h : Sums(h, f, T) /\ Sum(f, T) = h[T]
  <2> SUFFICES ASSUME NEW T, IsFiniteSet(T) PROVE \E h : Sums(h, f, T) /\ Sum(f, T) = h[T]
    OBVIOUS
  <2>1. PICK h : Sums(h, f, T)
    BY SumsExist
  <2> QED BY <2>1, SumsUnique, SumIs
<1>2. Sum(f, {}) = 0
  <2>1. PICK h : Sums(h, f, {}) /\ Sum(f, {}) = h[{}]
    BY <1>1, FS_EmptySet
  <2> QED BY <2>1 DEF Sums
<1>3. ASSUME S # {} PROVE Sum(f, S) = f[First(S)] + Sum(f, S \ {First(S)})
  <2> DEFINE T == S \ {First(S)}
  <2>1. IsFiniteSet(T) /\ T \in SUBSET S
    BY FS_Subset
  <2>2. PICK h : Sums(h, f, S) /\ Sum(f, S) = h[S]
    BY <1>1
  <2>3. PICK k : Sums(k, f, T) /\ Sum(f, T) = k[T]
    BY <1>1, <2>1
  <2>4. h[T] = k[T]
    BY <2>1, <2>2, <2>3, SumsAgree
  <2>5. h[S] = f[First(S)] + h[T]
    BY <1>3, <2>2 DEF Sums
  <2> QED BY <2>2, <2>3, <2>4, <2>5
<1> QED BY <1>2, <1>3

\* The order in which elements are summed does not matter.
LEMMA SumElement ==
    ASSUME NEW f, NEW S, IsFiniteSet(S), \A x \in S : f[x] \in Int
    PROVE  /\ Sum(f, S) \in Int
           /\ \A x \in S : Sum(f, S) = f[x] + Sum(f, S \ {x})
<1> DEFINE Good(s) == Sum(f, s) \in Int /\ \A x \in s : Sum(f, s) = f[x] + Sum(f, s \ {x})
           T == {s \in SUBSET S : ~Good(s)}
<1>1. SUFFICES ASSUME T # {} PROVE FALSE
  OBVIOUS
<1>2. PICK s \in T : \A t \in T : t \subseteq s => t = s
  <2>1. T \subseteq SUBSET S
    OBVIOUS
  <2> HIDE DEF T
  <2> QED BY <1>1, <2>1, Smallest
<1>3. \A t \in SUBSET s : t # s => Good(t)
  BY <1>2
<1>4. IsFiniteSet(s) /\ s \in SUBSET S /\ ~Good(s)
  BY FS_Subset
<1> DEFINE c == First(s)
<1>5. s # {} => c \in s /\ Sum(f, s) = f[c] + Sum(f, s \ {c})
  BY <1>4, SumStep, FirstIn
<1>6. Sum(f, {}) = 0
  BY <1>4, SumStep
<1>7. s # {}
  <2>1. ASSUME s = {} PROVE Good(s)
    BY <1>6, <2>1
  <2> QED BY <1>4, <2>1
<1>8. Sum(f, s \ {c}) \in Int /\ f[c] \in Int
  BY <1>3, <1>4, <1>5, <1>7
<1>9. ASSUME NEW x \in s, x # c PROVE Sum(f, s) = f[x] + Sum(f, s \ {x})
  <2> DEFINE u == (s \ {c}) \ {x}
  <2>1. Sum(f, s \ {c}) = f[x] + Sum(f, u)
    BY <1>3, <1>5, <1>7, <1>9
  <2>2. u = (s \ {x}) \ {c}
    OBVIOUS
  <2>3. Sum(f, s \ {x}) = f[c] + Sum(f, u) /\ Good(u)
    <3>1. Good(s \ {x})
      BY <1>3, <1>9
    <3>2. c \in s \ {x}
      BY <1>5, <1>7, <1>9
    <3>3. Good(u)
      BY <1>3, <1>5, <1>7
    <3> QED BY <2>2, <3>1, <3>2, <3>3
  <2>4. f[x] \in Int /\ Sum(f, u) \in Int
    BY <1>4, <2>3
  <2> HIDE DEF c, u, Good
  <2> QED BY <1>5, <1>7, <1>8, <2>1, <2>3, <2>4
<1>10. Good(s)
  <2> HIDE DEF c
  <2> QED BY <1>5, <1>7, <1>8, <1>9
<1> QED BY <1>4, <1>10

LEMMA SumMono ==
    ASSUME NEW f, NEW g, NEW S, IsFiniteSet(S),
           \A x \in S : f[x] \in Int /\ g[x] \in Int /\ f[x] <= g[x]
    PROVE  Sum(f, S) <= Sum(g, S)
<1> DEFINE T == {s \in SUBSET S : ~(Sum(f, s) <= Sum(g, s))}
<1>1. SUFFICES ASSUME T # {} PROVE FALSE
  OBVIOUS
<1>2. PICK s \in T : \A t \in T : t \subseteq s => t = s
  <2>1. T \subseteq SUBSET S
    OBVIOUS
  <2> HIDE DEF T
  <2> QED BY <1>1, <2>1, Smallest
<1>3. IsFiniteSet(s) /\ s \in SUBSET S /\ ~(Sum(f, s) <= Sum(g, s))
  BY FS_Subset
<1>4. Sum(f, {}) = 0 /\ Sum(g, {}) = 0
  BY SumStep
<1>5. PICK x \in s : TRUE
  BY <1>3, <1>4
<1>6. Sum(f, s \ {x}) <= Sum(g, s \ {x})
  BY <1>2
<1>7. /\ Sum(f, s) = f[x] + Sum(f, s \ {x}) /\ Sum(g, s) = g[x] + Sum(g, s \ {x})
  BY <1>3, SumElement
<1>8. Sum(f, s \ {x}) \in Int /\ Sum(g, s \ {x}) \in Int
  <2>1. IsFiniteSet(s \ {x}) /\ \A y \in s \ {x} : f[y] \in Int /\ g[y] \in Int
    BY <1>3, FS_Subset
  <2> QED BY <2>1, SumElement
<1>9. f[x] \in Int /\ g[x] \in Int /\ f[x] <= g[x]
  BY <1>3
<1> HIDE DEF T
<1> QED BY <1>3, <1>6, <1>7, <1>8, <1>9

LEMMA SumSame ==
    ASSUME NEW f, NEW g, NEW S, IsFiniteSet(S), \A x \in S : f[x] \in Int /\ f[x] = g[x]
    PROVE  Sum(f, S) = Sum(g, S)
<1>1. Sum(f, S) <= Sum(g, S) /\ Sum(g, S) <= Sum(f, S)
  BY SumMono
<1>2. Sum(f, S) \in Int /\ Sum(g, S) \in Int
  BY SumElement
<1> QED BY <1>1, <1>2

\* One term changes.
LEMMA SumChange ==
    ASSUME NEW f, NEW g, NEW S, IsFiniteSet(S), NEW e \in S,
           \A x \in S : f[x] \in Int, g[e] \in Int, \A x \in S : x # e => g[x] = f[x]
    PROVE  Sum(g, S) = Sum(f, S) - f[e] + g[e]
<1>1. IsFiniteSet(S \ {e})
  BY FS_Subset
<1>2. Sum(f, S \ {e}) = Sum(g, S \ {e}) /\ Sum(f, S \ {e}) \in Int
  BY <1>1, SumSame, SumElement
<1>3. Sum(f, S) = f[e] + Sum(f, S \ {e}) /\ f[e] \in Int
  BY SumElement
<1>4. \A x \in S : g[x] \in Int
  OBVIOUS
<1>5. Sum(g, S) = g[e] + Sum(g, S \ {e})
  BY <1>4, SumElement
<1> QED BY <1>2, <1>3, <1>5

LEMMA SumNat ==
    ASSUME NEW f, NEW S, IsFiniteSet(S), \A x \in S : f[x] \in Nat
    PROVE  Sum(f, S) \in Nat /\ \A x \in S : f[x] <= Sum(f, S)
<1> DEFINE z == [x \in S |-> 0]
<1>1. \A x \in S : f[x] \in Int /\ z[x] \in Int /\ z[x] <= f[x]
  OBVIOUS
<1>2. \A s \in SUBSET S : IsFiniteSet(s) /\ Sum(z, s) <= Sum(f, s) /\ Sum(f, s) \in Int
  BY <1>1, FS_Subset, SumMono, SumElement
<1> DEFINE T == {s \in SUBSET S : Sum(z, s) # 0}
<1>3. T = {}
  <2>1. SUFFICES ASSUME T # {} PROVE FALSE
    OBVIOUS
  <2>2. PICK s \in T : \A t \in T : t \subseteq s => t = s
    <3>1. T \subseteq SUBSET S
      OBVIOUS
    <3> HIDE DEF T
    <3> QED BY <2>1, <3>1, Smallest
  <2>3. IsFiniteSet(s) /\ Sum(z, {}) = 0
    BY FS_Subset, SumStep
  <2>4. PICK x \in s : TRUE
    BY <2>3
  <2>5. Sum(z, s \ {x}) = 0
    BY <2>2
  <2>6. Sum(z, s) = z[x] + Sum(z, s \ {x})
    BY <2>3, SumElement
  <2> QED BY <2>5, <2>6
<1>4. \A s \in SUBSET S : Sum(f, s) >= 0
  BY <1>2, <1>3
<1>5. ASSUME NEW x \in S PROVE f[x] <= Sum(f, S)
  <2>1. Sum(f, S) = f[x] + Sum(f, S \ {x})
    BY SumElement
  <2>2. Sum(f, S \ {x}) \in Int /\ Sum(f, S \ {x}) >= 0
    BY <1>2, <1>4
  <2> QED BY <2>1, <2>2
<1>6. Sum(f, S) \in Nat
  BY <1>2, <1>4
<1> QED BY <1>5, <1>6

LEMMA SumZero ==
    ASSUME NEW f, NEW S, IsFiniteSet(S), \A x \in S : f[x] = 0
    PROVE  Sum(f, S) = 0
<1> DEFINE T == {s \in SUBSET S : Sum(f, s) # 0}
<1>1. SUFFICES ASSUME T # {} PROVE FALSE
  OBVIOUS
<1>2. PICK s \in T : \A t \in T : t \subseteq s => t = s
  <2>1. T \subseteq SUBSET S
    OBVIOUS
  <2> HIDE DEF T
  <2> QED BY <1>1, <2>1, Smallest
<1>3. IsFiniteSet(s) /\ Sum(f, {}) = 0
  BY FS_Subset, SumStep
<1>4. PICK x \in s : TRUE
  BY <1>3
<1>5. Sum(f, s \ {x}) = 0
  BY <1>2
<1>6. Sum(f, s) = f[x] + Sum(f, s \ {x})
  BY <1>3, SumElement
<1> QED BY <1>5, <1>6

LEMMA SumSplit ==
    ASSUME NEW f, NEW S, IsFiniteSet(S), \A x \in S : f[x] \in Int, NEW R \in SUBSET S
    PROVE  Sum(f, S) = Sum(f, R) + Sum(f, S \ R)
<1> DEFINE T == {s \in SUBSET S : R \subseteq s /\ Sum(f, s) # Sum(f, R) + Sum(f, s \ R)}
<1>1. SUFFICES ASSUME T # {} PROVE FALSE
  OBVIOUS
<1>2. PICK s \in T : \A t \in T : t \subseteq s => t = s
  <2>1. T \subseteq SUBSET S
    OBVIOUS
  <2> HIDE DEF T
  <2> QED BY <1>1, <2>1, Smallest
<1>3. IsFiniteSet(s) /\ IsFiniteSet(R) /\ IsFiniteSet(s \ R)
  BY FS_Subset
<1>4. Sum(f, R) \in Int /\ Sum(f, {}) = 0
  BY <1>3, SumElement, SumStep
<1>5. s # R
  <2>1. R \ R = {}
    OBVIOUS
  <2> QED BY <1>4, <2>1
<1>6. PICK x \in s : x \notin R
  BY <1>5
<1>7. (s \ {x}) \ R = (s \ R) \ {x} /\ x \in s \ R
  BY <1>6
<1>8. Sum(f, s \ {x}) = Sum(f, R) + Sum(f, (s \ R) \ {x})
  <2>1. Sum(f, s \ {x}) = Sum(f, R) + Sum(f, (s \ {x}) \ R)
    BY <1>2, <1>6
  <2> HIDE DEF T
  <2> QED BY <1>7, <2>1
<1>9. Sum(f, s) = f[x] + Sum(f, s \ {x}) /\ Sum(f, s \ R) = f[x] + Sum(f, (s \ R) \ {x})
  BY <1>3, <1>7, SumElement
<1>10. f[x] \in Int /\ Sum(f, (s \ R) \ {x}) \in Int
  <2>1. IsFiniteSet((s \ R) \ {x})
    BY <1>3, FS_Subset
  <2> QED BY <2>1, SumElement
<1>11. Sum(f, s) # Sum(f, R) + Sum(f, s \ R)
  OBVIOUS
<1> HIDE DEF T
<1> QED BY <1>4, <1>7, <1>8, <1>9, <1>10, <1>11


-----------------------------------------------------------------------------
(* The local part: grants, their reservations and the calls about them      *)

Amounts == [Ledgers -> Nat]
Steps == {"idle", "reserve", "refill", "ask", "asking", "installed", "reserved", "dispatched"}
Receipt == [present : BOOLEAN, returned : BOOLEAN, amount : Amounts, credit : Amounts]
LocalGrant == [proc : Processes \cup {"none"}, sides : SUBSET Ledgers, generation : Amounts,
               remaining : Amounts, inUse : Nat, returning : BOOLEAN,
               life : {"fresh", "ending", "expired"}]
Attempt == [step : Steps, proc : Processes \cup {"none"}, policies : SUBSET Ledgers,
            estimate : Amounts, generation : Amounts, grant : 0 .. MaxGrants,
            reply : {"none", "granted", "denied"}]

Live(x) == x.step \in {"reserved", "dispatched"}
SidesIn(x) == SidesOf(x.policies, x.estimate)
Users(at, g) == {a \in Attempts : at[a].grant = g /\ Live(at[a])}

\* An attempt's step says what it may hold.
AttemptFits(x, n) ==
    /\ x.step = "idle" => x = NoAttempt
    /\ x.step # "idle" => x.proc \in Processes
    /\ x.step \in {"reserve", "refill", "ask", "installed"} => x.grant = 0 /\ x.reply = "none"
    /\ x.step = "asking" => x.grant \in 1 .. n
    /\ Live(x) /\ x.grant = 0 => \A l \in Ledgers : x.estimate[l] = 0
    /\ \A l \in Ledgers : l \notin x.policies => x.estimate[l] = 0

\* What an attempt waits for is about a grant of its own, which nobody holds.
AskedFits(x, y, r) ==
    /\ y.proc = "none" /\ y.sides = SidesIn(x)
    /\ x.reply = "none" => r = NoReceipt
    /\ x.reply = "granted" =>
           /\ r.present /\ ~r.returned
           /\ \A l \in Ledgers : l \notin SidesIn(x) => r.amount[l] = 0

GrantFits(g, y, r, n) ==
    /\ g > n => y = NotHeld
    /\ y.proc = "none" => y.remaining = Zero /\ ~y.returning
    /\ y.proc # "none" =>
           /\ r.present
           /\ r.returned => y.returning
           /\ \A l \in Ledgers : l \notin y.sides => y.remaining[l] = 0

\* A grant counts its reservations, and they found it open.
Backed(g, y, at) ==
    /\ y.inUse = Cardinality(Users(at, g))
    /\ \A a \in Users(at, g) :
           ~y.returning /\ y.proc = at[a].proc /\ y.sides = SidesIn(at[a])

ReceiptFits(g, r, n) ==
    /\ g > n => r = NoReceipt
    /\ ~r.present => r = NoReceipt
    /\ ~r.returned => r.credit = Zero
    /\ \A l \in Ledgers : r.credit[l] <= r.amount[l]

Asks(at, a, g) == at[a].step = "asking" /\ at[a].grant = g
AskedOnce(at) == \A a, b \in Attempts : \A g \in GrantIds : Asks(at, a, g) /\ Asks(at, b, g) => a = b

LocalTypes(h, at, rc, n) ==
    /\ h \in [GrantIds -> LocalGrant] /\ at \in [Attempts -> Attempt]
    /\ rc \in [GrantIds -> Receipt] /\ n \in 0 .. MaxGrants

Local(h, at, rc, n) ==
    /\ LocalTypes(h, at, rc, n)
    /\ \A a \in Attempts : AttemptFits(at[a], n)
    /\ \A a \in Attempts, g \in GrantIds : Asks(at, a, g) => AskedFits(at[a], h[g], rc[g])
    /\ AskedOnce(at)
    /\ \A g \in GrantIds : GrantFits(g, h[g], rc[g], n)
    /\ \A g \in GrantIds : Backed(g, h[g], at)
    /\ \A g \in GrantIds : ReceiptFits(g, rc[g], n)

\* A pass works on grants that its process has frozen.
ReturnsFit(h, ret) ==
    \A p \in Processes, g \in GrantIds : g \in ret[p] => h[g].proc = p /\ h[g].returning

LEMMA ZeroTyped == Zero \in Amounts
BY DEF Zero, Amounts

LEMMA NoneTyped ==
    /\ NoReceipt \in Receipt /\ NotHeld \in LocalGrant /\ NoAttempt \in Attempt
    /\ ~Live(NoAttempt) /\ NoAttempt.step # "asking" /\ NoAttempt.grant = 0
<1>1. MaxGrants \in Nat
  BY BudgetAssumption
<1> QED BY <1>1, ZeroTyped DEF NoReceipt, NotHeld, NoAttempt, Receipt, LocalGrant, Attempt, Steps, Live

LEMMA UsersCount ==
    ASSUME NEW at, NEW g
    PROVE  IsFiniteSet(Users(at, g)) /\ Cardinality(Users(at, g)) \in Nat
<1>1. IsFiniteSet(Users(at, g))
  BY FS_Subset, BudgetAssumption DEF Users
<1> QED BY <1>1, FS_CardinalityType

\* An attempt without a reservation of a grant moves on to none either.
LEMMA QuietStep ==
    ASSUME NEW h, NEW at, NEW rc, NEW n, Local(h, at, rc, n), NEW a \in Attempts,
           NEW at2 \in [Attempts -> Attempt], \A b \in Attempts : b # a => at2[b] = at[b],
           Live(at[a]) => at[a].grant = 0, Live(at2[a]) => at2[a].grant = 0,
           at2[a].step # "asking", AttemptFits(at2[a], n)
    PROVE  Local(h, at2, rc, n)
<1>1. LocalTypes(h, at2, rc, n)
  BY DEF Local, LocalTypes
<1>2. \A b \in Attempts, g \in GrantIds : Asks(at2, b, g) => b # a /\ Asks(at, b, g)
  BY DEF Asks
<1>3. \A g \in GrantIds : Users(at2, g) = Users(at, g)
  BY DEF Users, GrantIds
<1>4. \A g \in GrantIds : Backed(g, h[g], at2)
  <2> SUFFICES ASSUME NEW g \in GrantIds PROVE Backed(g, h[g], at2)
    OBVIOUS
  <2>1. a \notin Users(at, g)
    BY DEF Users, GrantIds
  <2>2. \A b \in Users(at, g) : at2[b] = at[b]
    BY <2>1 DEF Users
  <2> QED BY <1>3, <2>2 DEF Local, Backed
<1>5. \A b \in Attempts : AttemptFits(at2[b], n)
  BY DEF Local
<1>6. AskedOnce(at2)
  BY <1>2 DEF Local, AskedOnce
<1>7. \A b \in Attempts, g \in GrantIds : Asks(at2, b, g) => AskedFits(at2[b], h[g], rc[g])
  BY <1>2 DEF Local
<1> QED BY <1>1, <1>4, <1>5, <1>6, <1>7 DEF Local

\* A live attempt goes on with its reservation.
LEMMA KeepStep ==
    ASSUME NEW h, NEW at, NEW rc, NEW n, Local(h, at, rc, n), NEW a \in Attempts,
           NEW at2 \in [Attempts -> Attempt], \A b \in Attempts : b # a => at2[b] = at[b],
           Live(at[a]), Live(at2[a]), AttemptFits(at2[a], n),
           at2[a].grant = at[a].grant, at2[a].proc = at[a].proc, SidesIn(at2[a]) = SidesIn(at[a])
    PROVE  Local(h, at2, rc, n)
<1>1. LocalTypes(h, at2, rc, n)
  BY DEF Local, LocalTypes
<1>2. \A b \in Attempts, g \in GrantIds : Asks(at2, b, g) => b # a /\ Asks(at, b, g)
  BY DEF Asks, Live
<1>3. \A g \in GrantIds : Users(at2, g) = Users(at, g)
  BY DEF Users
<1>4. \A g \in GrantIds : Backed(g, h[g], at2)
  <2>1. \A b \in Attempts : at2[b].proc = at[b].proc /\ SidesIn(at2[b]) = SidesIn(at[b])
    OBVIOUS
  <2>2. \A g \in GrantIds : Users(at, g) \subseteq Attempts
    BY DEF Users
  <2> QED BY <1>3, <2>1, <2>2 DEF Local, Backed
<1>5. \A b \in Attempts : AttemptFits(at2[b], n)
  BY DEF Local
<1>6. AskedOnce(at2)
  BY <1>2 DEF Local, AskedOnce
<1>7. \A b \in Attempts, g \in GrantIds : Asks(at2, b, g) => AskedFits(at2[b], h[g], rc[g])
  BY <1>2 DEF Local
<1> QED BY <1>1, <1>4, <1>5, <1>6, <1>7 DEF Local

\* Grants lose some of what they have left, age, or are frozen without users.
LEMMA PaidStep ==
    ASSUME NEW h, NEW at, NEW rc, NEW n, Local(h, at, rc, n),
           NEW h2 \in [GrantIds -> LocalGrant],
           \A g \in GrantIds :
               /\ h2[g].proc = h[g].proc /\ h2[g].sides = h[g].sides /\ h2[g].inUse = h[g].inUse
               /\ h[g].proc = "none" => h2[g] = h[g]
               /\ h[g].returning => h2[g].returning
               /\ h2[g].returning => h[g].returning \/ h[g].inUse = 0
               /\ \A l \in Ledgers : h2[g].remaining[l] <= h[g].remaining[l]
    PROVE  Local(h2, at, rc, n)
<1>1. LocalTypes(h2, at, rc, n)
  BY DEF Local, LocalTypes
<1>2. ASSUME NEW g \in GrantIds PROVE GrantFits(g, h2[g], rc[g], n)
  <2>1. GrantFits(g, h[g], rc[g], n)
    BY DEF Local
  <2>2. g > n => h2[g] = NotHeld
    BY <2>1 DEF GrantFits, NotHeld
  <2>3. h2[g].proc = "none" => h2[g].remaining = Zero /\ ~h2[g].returning
    BY <2>1 DEF GrantFits
  <2>4. ASSUME h2[g].proc # "none", NEW l \in Ledgers, l \notin h2[g].sides
        PROVE  h2[g].remaining[l] = 0
    <3>1. h[g].remaining[l] = 0
      BY <2>1, <2>4 DEF GrantFits
    <3>2. h2[g].remaining[l] \in Nat
      BY DEF LocalGrant, Amounts
    <3>3. h2[g].remaining[l] <= h[g].remaining[l]
      OBVIOUS
    <3> QED BY <3>1, <3>2, <3>3
  <2>5. h2[g].proc # "none" => rc[g].present /\ (rc[g].returned => h2[g].returning)
    BY <2>1 DEF GrantFits
  <2> QED BY <2>2, <2>3, <2>4, <2>5 DEF GrantFits
<1>3. ASSUME NEW g \in GrantIds PROVE Backed(g, h2[g], at)
  <2>1. Backed(g, h[g], at) /\ IsFiniteSet(Users(at, g))
    BY UsersCount DEF Local
  <2>2. h[g].inUse = 0 => Users(at, g) = {}
    BY <2>1, FS_EmptySet DEF Backed
  <2> QED BY <2>1, <2>2 DEF Backed
<1>4. ASSUME NEW b \in Attempts, NEW g \in GrantIds, Asks(at, b, g)
      PROVE  AskedFits(at[b], h2[g], rc[g])
  <2>1. AskedFits(at[b], h[g], rc[g])
    BY <1>4 DEF Local
  <2>2. h2[g] = h[g]
    BY <2>1 DEF AskedFits
  <2> QED BY <2>1, <2>2
<1> QED BY <1>1, <1>2, <1>3, <1>4 DEF Local

\* An attempt reserves against an open grant of its pair.
LEMMA TakeStep ==
    ASSUME NEW h, NEW at, NEW rc, NEW n, Local(h, at, rc, n),
           NEW a \in Attempts, NEW g \in GrantIds,
           NEW h2 \in [GrantIds -> LocalGrant], NEW at2 \in [Attempts -> Attempt],
           \A b \in Attempts : b # a => at2[b] = at[b], \A k \in GrantIds : k # g => h2[k] = h[k],
           ~Live(at[a]), Live(at2[a]), at2[a].grant = g, AttemptFits(at2[a], n),
           at2[a].proc = h[g].proc, SidesIn(at2[a]) = h[g].sides,
           h[g].proc # "none", ~h[g].returning,
           h2[g].proc = h[g].proc, h2[g].sides = h[g].sides, ~h2[g].returning,
           h2[g].inUse = h[g].inUse + 1,
           \A l \in Ledgers : h2[g].remaining[l] <= h[g].remaining[l]
    PROVE  Local(h2, at2, rc, n)
<1>1. LocalTypes(h2, at2, rc, n)
  BY DEF Local, LocalTypes
<1>2. \A b \in Attempts, k \in GrantIds : Asks(at2, b, k) => b # a /\ Asks(at, b, k)
  BY DEF Asks, Live
<1>3. \A k \in GrantIds : Users(at2, k) = IF k = g THEN Users(at, k) \cup {a} ELSE Users(at, k)
  BY DEF Users
<1>4. a \notin Users(at, g)
  BY DEF Users
<1>5. ASSUME NEW k \in GrantIds PROVE Backed(k, h2[k], at2)
  <2>1. Backed(k, h[k], at)
    BY DEF Local
  <2>2. \A b \in Users(at, k) : b # a => at2[b] = at[b]
    BY DEF Users
  <2>3. CASE k # g
    <3>1. a \notin Users(at2, k) /\ Users(at2, k) = Users(at, k)
      BY <1>3, <2>3 DEF Users
    <3> QED BY <2>1, <2>2, <2>3, <3>1 DEF Backed
  <2>4. CASE k = g
    <3>1. Cardinality(Users(at, g) \cup {a}) = Cardinality(Users(at, g)) + 1
      BY <1>4, UsersCount, FS_AddElement
    <3>2. h2[g].inUse = Cardinality(Users(at2, g))
      BY <1>3, <2>1, <2>4, <3>1 DEF Backed
    <3>3. \A b \in Users(at2, g) :
             ~h2[g].returning /\ h2[g].proc = at2[b].proc /\ h2[g].sides = SidesIn(at2[b])
      <4>1. ASSUME NEW b \in Users(at, g)
            PROVE  ~h2[g].returning /\ h2[g].proc = at2[b].proc /\ h2[g].sides = SidesIn(at2[b])
        BY <1>4, <2>1, <2>2, <2>4 DEF Backed
      <4> QED BY <1>3, <4>1
    <3> QED BY <2>4, <3>2, <3>3 DEF Backed
  <2> QED BY <2>3, <2>4
<1>6. ASSUME NEW k \in GrantIds PROVE GrantFits(k, h2[k], rc[k], n)
  <2>1. GrantFits(k, h[k], rc[k], n)
    BY DEF Local
  <2>2. CASE k = g
    <3>1. ~(g > n)
      BY <2>1, <2>2 DEF GrantFits, NotHeld
    <3>2. rc[g].present /\ ~rc[g].returned
      BY <2>1, <2>2 DEF GrantFits
    <3>3. ASSUME NEW l \in Ledgers, l \notin h2[g].sides PROVE h2[g].remaining[l] = 0
      <4>1. h[g].remaining[l] = 0
        BY <2>1, <2>2, <3>3 DEF GrantFits
      <4>2. h2[g].remaining[l] \in Nat /\ h2[g].remaining[l] <= h[g].remaining[l]
        BY DEF LocalGrant, Amounts
      <4> QED BY <4>1, <4>2
    <3> QED BY <2>2, <3>1, <3>2, <3>3 DEF GrantFits
  <2> QED BY <2>1, <2>2
<1>7. ASSUME NEW b \in Attempts, NEW k \in GrantIds, Asks(at2, b, k)
      PROVE  AskedFits(at2[b], h2[k], rc[k])
  <2>1. AskedFits(at[b], h[k], rc[k]) /\ at2[b] = at[b]
    BY <1>2, <1>7 DEF Local
  <2>2. k # g
    BY <2>1 DEF AskedFits
  <2> QED BY <2>1, <2>2
<1>8. \A b \in Attempts : AttemptFits(at2[b], n)
  BY DEF Local
<1>9. AskedOnce(at2)
  BY <1>2 DEF Local, AskedOnce
<1> QED BY <1>1, <1>5, <1>6, <1>7, <1>8, <1>9 DEF Local

\* A reservation ends; its grant counts one less.
LEMMA FreeStep ==
    ASSUME NEW h, NEW at, NEW rc, NEW n, Local(h, at, rc, n), NEW a \in Attempts,
           NEW h2 \in [GrantIds -> LocalGrant], NEW at2 \in [Attempts -> Attempt],
           \A b \in Attempts : b # a => at2[b] = at[b], at2[a] = NoAttempt,
           NEW g \in GrantIds, at[a].grant = g, Live(at[a]),
           \A k \in GrantIds : k # g => h2[k] = h[k],
           h2[g].proc = h[g].proc, h2[g].sides = h[g].sides, h2[g].returning = h[g].returning,
           h2[g].inUse = h[g].inUse - 1,
           \A l \in Ledgers : l \notin h[g].sides => h2[g].remaining[l] = h[g].remaining[l]
    PROVE  Local(h2, at2, rc, n)
<1>1. LocalTypes(h2, at2, rc, n)
  BY DEF Local, LocalTypes
<1>2. \A b \in Attempts, k \in GrantIds : Asks(at2, b, k) => b # a /\ Asks(at, b, k)
  BY NoneTyped DEF Asks
<1>3. \A k \in GrantIds : Users(at2, k) = IF k = g THEN Users(at, k) \ {a} ELSE Users(at, k)
  BY NoneTyped DEF Users
<1>4. a \in Users(at, g) /\ at[a].proc \in Processes
  BY DEF Users, Local, AttemptFits, Live
<1>5. h[g].proc = at[a].proc /\ h[g].proc # "none" /\ ~h[g].returning
  BY <1>4, BudgetAssumption DEF Local, Backed
<1>6. ASSUME NEW k \in GrantIds PROVE Backed(k, h2[k], at2)
  <2>1. Backed(k, h[k], at)
    BY DEF Local
  <2>2. \A b \in Users(at, k) : b # a => at2[b] = at[b]
    BY DEF Users
  <2>3. CASE k # g
    <3>1. a \notin Users(at2, k) /\ Users(at2, k) = Users(at, k)
      BY <1>3, <2>3, NoneTyped DEF Users
    <3> QED BY <2>1, <2>2, <2>3, <3>1 DEF Backed
  <2>4. CASE k = g
    <3>1. Cardinality(Users(at, g) \ {a}) = Cardinality(Users(at, g)) - 1
      BY <1>4, UsersCount, FS_RemoveElement
    <3>2. h2[g].inUse = Cardinality(Users(at2, g))
      BY <1>3, <2>1, <2>4, <3>1 DEF Backed
    <3>3. \A b \in Users(at2, g) :
             ~h2[g].returning /\ h2[g].proc = at2[b].proc /\ h2[g].sides = SidesIn(at2[b])
      BY <1>3, <2>1, <2>2, <2>4 DEF Backed
    <3> QED BY <2>4, <3>2, <3>3 DEF Backed
  <2> QED BY <2>3, <2>4
<1>7. ASSUME NEW k \in GrantIds PROVE GrantFits(k, h2[k], rc[k], n)
  <2>1. GrantFits(k, h[k], rc[k], n)
    BY DEF Local
  <2>2. CASE k = g
    <3>1. ~(g > n)
      BY <1>5, <2>1, <2>2 DEF GrantFits, NotHeld
    <3> QED BY <1>5, <2>1, <2>2, <3>1 DEF GrantFits
  <2> QED BY <2>1, <2>2
<1>8. ASSUME NEW b \in Attempts, NEW k \in GrantIds, Asks(at2, b, k)
      PROVE  AskedFits(at2[b], h2[k], rc[k])
  <2>1. AskedFits(at[b], h[k], rc[k]) /\ at2[b] = at[b]
    BY <1>2, <1>8 DEF Local
  <2>2. k # g
    BY <1>5, <2>1 DEF AskedFits
  <2> QED BY <2>1, <2>2
<1>9. \A b \in Attempts : AttemptFits(at2[b], n)
  <2>1. AttemptFits(NoAttempt, n)
    BY NoneTyped DEF AttemptFits, NoAttempt, Live, Zero
  <2> QED BY <2>1 DEF Local
<1>10. AskedOnce(at2)
  BY <1>2 DEF Local, AskedOnce
<1> QED BY <1>1, <1>6, <1>7, <1>8, <1>9, <1>10 DEF Local

LEMMA IdleFits == ASSUME NEW n PROVE AttemptFits(NoAttempt, n)
BY NoneTyped DEF AttemptFits, NoAttempt, Live, Zero

\* A refill owner takes a fresh grant id.
LEMMA AskStep ==
    ASSUME NEW h, NEW at, NEW rc, NEW n, Local(h, at, rc, n), NEW a \in Attempts,
           n < MaxGrants, at[a].step = "ask",
           NEW h2 \in [GrantIds -> LocalGrant], NEW at2 \in [Attempts -> Attempt],
           \A b \in Attempts : b # a => at2[b] = at[b],
           \A k \in GrantIds : k # n + 1 => h2[k] = h[k],
           at2[a].step = "asking", at2[a].grant = n + 1, at2[a].reply = "none",
           at2[a].proc = at[a].proc, at2[a].policies = at[a].policies,
           at2[a].estimate = at[a].estimate,
           h2[n + 1].proc = "none", h2[n + 1].sides = SidesIn(at[a]),
           h2[n + 1].remaining = Zero, ~h2[n + 1].returning, h2[n + 1].inUse = 0
    PROVE  Local(h2, at2, rc, n + 1)
<1>0. n \in Nat /\ MaxGrants \in Nat /\ n + 1 \in GrantIds
  BY BudgetAssumption DEF Local, LocalTypes, GrantIds
<1> DEFINE g == n + 1
<1>1. LocalTypes(h2, at2, rc, n + 1)
  BY <1>0 DEF Local, LocalTypes
<1>2. h[g] = NotHeld /\ rc[g] = NoReceipt
  <2>1. GrantFits(g, h[g], rc[g], n) /\ ReceiptFits(g, rc[g], n) /\ g > n
    BY <1>0 DEF Local
  <2> QED BY <2>1 DEF GrantFits, ReceiptFits
<1>3. \A b \in Attempts : \A k \in GrantIds : Asks(at, b, k) => b # a /\ k # g
  <2> SUFFICES ASSUME NEW b \in Attempts, NEW k \in GrantIds, Asks(at, b, k) PROVE b # a /\ k # g
    OBVIOUS
  <2>1. k \in 1 .. n
    BY DEF Local, AttemptFits, Asks
  <2> QED BY <1>0, <2>1 DEF Asks
<1>4. \A b \in Attempts, k \in GrantIds :
         Asks(at2, b, k) => (b = a /\ k = g) \/ (b # a /\ k # g /\ Asks(at, b, k))
  BY <1>3 DEF Asks
<1>5. \A k \in GrantIds : Users(at2, k) = Users(at, k)
  BY DEF Users, Live
<1>6. Users(at, g) = {}
  <2>1. Backed(g, h[g], at) /\ IsFiniteSet(Users(at, g))
    BY <1>0, UsersCount DEF Local
  <2> QED BY <1>2, <2>1, FS_EmptySet DEF Backed, NotHeld
<1>7. ASSUME NEW k \in GrantIds PROVE Backed(k, h2[k], at2)
  <2>1. Backed(k, h[k], at)
    BY DEF Local
  <2>2. CASE k = g
    BY <1>5, <1>6, <2>2, FS_EmptySet DEF Backed
  <2>3. CASE k # g
    <3>1. \A b \in Users(at, k) : at2[b] = at[b]
      BY DEF Users, Live
    <3> QED BY <1>5, <2>1, <2>3, <3>1 DEF Backed
  <2> QED BY <2>2, <2>3
<1>8. ASSUME NEW k \in GrantIds PROVE GrantFits(k, h2[k], rc[k], n + 1)
  <2>1. GrantFits(k, h[k], rc[k], n)
    BY DEF Local
  <2>2. k > n + 1 => k > n /\ k # g
    BY <1>0 DEF GrantIds
  <2>3. CASE k = g
    <3>1. ~(g > n + 1)
      BY <1>0
    <3> QED BY <2>3, <3>1 DEF GrantFits
  <2> QED BY <2>1, <2>2, <2>3 DEF GrantFits
<1>9. ASSUME NEW k \in GrantIds PROVE ReceiptFits(k, rc[k], n + 1)
  <2>1. k > n + 1 => k > n
    BY <1>0 DEF GrantIds
  <2> QED BY <2>1 DEF Local, ReceiptFits
<1>10. ASSUME NEW b \in Attempts, NEW k \in GrantIds, Asks(at2, b, k)
       PROVE  AskedFits(at2[b], h2[k], rc[k])
  <2>1. CASE b = a /\ k = g
    BY <1>2, <2>1 DEF AskedFits, SidesIn
  <2>2. CASE b # a /\ k # g /\ Asks(at, b, k)
    BY <2>2 DEF Local
  <2> QED BY <1>4, <1>10, <2>1, <2>2
<1>11. ASSUME NEW b \in Attempts PROVE AttemptFits(at2[b], n + 1)
  <2>1. AttemptFits(at[b], n)
    BY DEF Local
  <2>2. CASE b = a
    <3>1. n + 1 \in 1 .. n + 1
      BY <1>0
    <3> QED BY <2>1, <2>2, <3>1 DEF AttemptFits, Live
  <2>3. CASE b # a
    <3>1. \A m : m \in 1 .. n => m \in 1 .. n + 1
      BY <1>0
    <3> QED BY <2>1, <2>3, <3>1 DEF AttemptFits
  <2> QED BY <2>2, <2>3
<1>12. AskedOnce(at2)
  BY <1>4 DEF Local, AskedOnce
<1> QED BY <1>1, <1>7, <1>8, <1>9, <1>10, <1>11, <1>12 DEF Local

\* The answer of BUDGET_GRANT: a receipt for the grant that was asked for, or none.
LEMMA AnswerStep ==
    ASSUME NEW h, NEW at, NEW rc, NEW n, Local(h, at, rc, n), NEW a \in Attempts, NEW g \in GrantIds,
           Asks(at, a, g), NEW rc2 \in [GrantIds -> Receipt], NEW at2 \in [Attempts -> Attempt],
           \A b \in Attempts : b # a => at2[b] = at[b],
           \A k \in GrantIds : k # g => rc2[k] = rc[k],
           at2[a].step = "asking", at2[a].grant = g, at2[a].reply # "none",
           at2[a].proc = at[a].proc, at2[a].policies = at[a].policies,
           at2[a].estimate = at[a].estimate,
           rc2[g] = rc[g] \/ ReceiptFits(g, rc2[g], n),
           at2[a].reply = "granted" =>
               /\ rc2[g].present /\ ~rc2[g].returned
               /\ \A l \in Ledgers : l \notin SidesIn(at[a]) => rc2[g].amount[l] = 0
    PROVE  Local(h, at2, rc2, n)
<1>1. LocalTypes(h, at2, rc2, n)
  BY DEF Local, LocalTypes
<1>2. AttemptFits(at[a], n) /\ AskedFits(at[a], h[g], rc[g]) /\ g \in 1 .. n
  BY DEF Local, Asks, AttemptFits
<1>3. \A b \in Attempts, k \in GrantIds :
         Asks(at2, b, k) => Asks(at, b, k) /\ ((b = a /\ k = g) \/ (b # a /\ k # g))
  <2> SUFFICES ASSUME NEW b \in Attempts, NEW k \in GrantIds, Asks(at2, b, k)
               PROVE  Asks(at, b, k) /\ ((b = a /\ k = g) \/ (b # a /\ k # g))
    OBVIOUS
  <2>1. Asks(at, b, k)
    BY DEF Asks
  <2> QED BY <2>1 DEF Local, AskedOnce, Asks
<1>4. \A k \in GrantIds : Users(at2, k) = Users(at, k)
  BY DEF Users, Live, Asks
<1>5. ASSUME NEW k \in GrantIds PROVE Backed(k, h[k], at2)
  <2>1. Backed(k, h[k], at)
    BY DEF Local
  <2>2. \A b \in Users(at, k) : at2[b] = at[b]
    BY DEF Users, Live, Asks
  <2> QED BY <1>4, <2>1, <2>2 DEF Backed
<1>6. ASSUME NEW k \in GrantIds PROVE GrantFits(k, h[k], rc2[k], n) /\ ReceiptFits(k, rc2[k], n)
  <2>1. GrantFits(k, h[k], rc[k], n) /\ ReceiptFits(k, rc[k], n)
    BY DEF Local
  <2>2. h[g].proc = "none"
    BY <1>2 DEF AskedFits
  <2> QED BY <2>1, <2>2 DEF GrantFits
<1>7. ASSUME NEW b \in Attempts, NEW k \in GrantIds, Asks(at2, b, k)
       PROVE  AskedFits(at2[b], h[k], rc2[k])
  <2>1. CASE b = a /\ k = g
    BY <1>2, <2>1 DEF AskedFits, SidesIn
  <2>2. CASE b # a /\ k # g
    BY <1>3, <1>7, <2>2 DEF Local
  <2> QED BY <1>3, <1>7, <2>1, <2>2
<1>8. ASSUME NEW b \in Attempts PROVE AttemptFits(at2[b], n)
  <2>1. CASE b = a
    BY <1>2, <2>1 DEF AttemptFits, Live, Asks
  <2> QED BY <2>1 DEF Local
<1>9. AskedOnce(at2)
  BY <1>3 DEF Local, AskedOnce
<1> QED BY <1>1, <1>5, <1>6, <1>7, <1>8, <1>9 DEF Local

\* The process of an answered call holds its grant; the attempt tries again.
LEMMA HoldStep ==
    ASSUME NEW h, NEW at, NEW rc, NEW n, Local(h, at, rc, n), NEW a \in Attempts, NEW g \in GrantIds,
           Asks(at, a, g), at[a].reply = "granted",
           NEW h2 \in [GrantIds -> LocalGrant], NEW at2 \in [Attempts -> Attempt],
           \A b \in Attempts : b # a => at2[b] = at[b],
           \A k \in GrantIds : k # g => h2[k] = h[k],
           at2[a].step = "installed", AttemptFits(at2[a], n),
           h2[g].proc \in Processes, h2[g].sides = h[g].sides, h2[g].inUse = h[g].inUse,
           \A l \in Ledgers : h2[g].remaining[l] <= rc[g].amount[l]
    PROVE  Local(h2, at2, rc, n)
<1>1. LocalTypes(h2, at2, rc, n)
  BY DEF Local, LocalTypes
<1>2. AttemptFits(at[a], n) /\ AskedFits(at[a], h[g], rc[g]) /\ g \in 1 .. n
  BY DEF Local, Asks, AttemptFits
<1>3. \A b \in Attempts, k \in GrantIds : Asks(at2, b, k) => Asks(at, b, k) /\ b # a /\ k # g
  <2> SUFFICES ASSUME NEW b \in Attempts, NEW k \in GrantIds, Asks(at2, b, k)
               PROVE  Asks(at, b, k) /\ b # a /\ k # g
    OBVIOUS
  <2>1. Asks(at, b, k) /\ b # a
    BY DEF Asks
  <2> QED BY <2>1 DEF Local, AskedOnce
<1>4. \A k \in GrantIds : Users(at2, k) = Users(at, k)
  BY DEF Users, Live, Asks
<1>5. Users(at, g) = {}
  <2>1. Backed(g, h[g], at) /\ h[g].proc = "none"
    BY <1>2 DEF Local, AskedFits
  <2>2. \A b \in Users(at, g) : at[b].proc \in Processes
    BY DEF Users, Local, AttemptFits, Live
  <2> QED BY <2>1, <2>2, BudgetAssumption DEF Backed
<1>6. ASSUME NEW k \in GrantIds PROVE Backed(k, h2[k], at2)
  <2>1. Backed(k, h[k], at)
    BY DEF Local
  <2>2. \A b \in Users(at, k) : at2[b] = at[b]
    BY DEF Users, Live, Asks
  <2>3. CASE k = g
    BY <1>4, <1>5, <2>1, <2>3 DEF Backed
  <2>4. CASE k # g
    BY <1>4, <2>1, <2>2, <2>4 DEF Backed
  <2> QED BY <2>3, <2>4
<1>7. ASSUME NEW k \in GrantIds PROVE GrantFits(k, h2[k], rc[k], n)
  <2>1. CASE k = g
    <3>1. g \in 1 .. n /\ n \in Nat /\ ~(g > n)
      BY <1>2 DEF Local, LocalTypes
    <3>2. h2[g].proc # "none"
      BY BudgetAssumption
    <3>3. rc[g].present /\ ~rc[g].returned
      BY <1>2 DEF AskedFits
    <3>4. ASSUME NEW l \in Ledgers, l \notin h2[g].sides PROVE h2[g].remaining[l] = 0
      <4>1. rc[g].amount[l] = 0
        BY <1>2, <3>4 DEF AskedFits
      <4>2. h2[g].remaining[l] \in Nat /\ h2[g].remaining[l] <= rc[g].amount[l]
        BY DEF LocalGrant, Amounts
      <4> QED BY <4>1, <4>2
    <3> QED BY <2>1, <3>1, <3>2, <3>3, <3>4 DEF GrantFits
  <2> QED BY <2>1 DEF Local
<1>8. ASSUME NEW b \in Attempts, NEW k \in GrantIds, Asks(at2, b, k)
       PROVE  AskedFits(at2[b], h2[k], rc[k])
  BY <1>3, <1>8 DEF Local
<1>9. \A b \in Attempts : AttemptFits(at2[b], n)
  BY DEF Local
<1>10. AskedOnce(at2)
  BY <1>3 DEF Local, AskedOnce
<1> QED BY <1>1, <1>6, <1>7, <1>8, <1>9, <1>10 DEF Local

\* BUDGET_RETURN marks the receipt of a frozen grant.
LEMMA ReturnStep ==
    ASSUME NEW h, NEW at, NEW rc, NEW n, Local(h, at, rc, n), NEW g \in GrantIds,
           h[g].proc # "none", h[g].returning,
           NEW rc2 \in [GrantIds -> Receipt], \A k \in GrantIds : k # g => rc2[k] = rc[k],
           rc2[g].present, rc2[g].returned, rc2[g].amount = rc[g].amount,
           \A l \in Ledgers : rc2[g].credit[l] <= rc[g].amount[l]
    PROVE  Local(h, at, rc2, n)
<1>1. LocalTypes(h, at, rc2, n)
  BY DEF Local, LocalTypes
<1>2. ASSUME NEW k \in GrantIds PROVE GrantFits(k, h[k], rc2[k], n) /\ ReceiptFits(k, rc2[k], n)
  <2>1. GrantFits(k, h[k], rc[k], n) /\ ReceiptFits(k, rc[k], n)
    BY DEF Local
  <2>2. CASE k = g
    <3>1. ~(g > n)
      BY <2>1, <2>2 DEF GrantFits, NotHeld
    <3>2. GrantFits(k, h[k], rc2[k], n)
      BY <2>1, <2>2 DEF GrantFits
    <3>3. ReceiptFits(k, rc2[k], n)
      BY <2>2, <3>1 DEF ReceiptFits
    <3> QED BY <3>2, <3>3
  <2> QED BY <2>1, <2>2
<1>3. ASSUME NEW b \in Attempts, NEW k \in GrantIds, Asks(at, b, k)
      PROVE  AskedFits(at[b], h[k], rc2[k])
  <2>1. AskedFits(at[b], h[k], rc[k])
    BY <1>3 DEF Local
  <2>2. k # g
    BY <2>1 DEF AskedFits
  <2> QED BY <2>1, <2>2
<1> QED BY <1>1, <1>2, <1>3 DEF Local

\* A returned grant is forgotten.
LEMMA DropStep ==
    ASSUME NEW h, NEW at, NEW rc, NEW n, Local(h, at, rc, n), NEW g \in GrantIds,
           h[g].returning, h[g].proc # "none", NEW h2 \in [GrantIds -> LocalGrant],
           \A k \in GrantIds : k # g => h2[k] = h[k], h2[g] = NotHeld
    PROVE  Local(h2, at, rc, n)
<1>1. LocalTypes(h2, at, rc, n)
  BY DEF Local, LocalTypes
<1>2. ASSUME NEW k \in GrantIds PROVE GrantFits(k, h2[k], rc[k], n) /\ Backed(k, h2[k], at)
  <2>1. GrantFits(k, h[k], rc[k], n) /\ Backed(k, h[k], at)
    BY DEF Local
  <2>2. CASE k = g
    <3>1. Users(at, g) = {}
      BY <2>1, <2>2 DEF Backed
    <3>2. Backed(k, h2[k], at)
      BY <2>2, <3>1, FS_EmptySet DEF Backed, NotHeld
    <3>3. GrantFits(k, h2[k], rc[k], n)
      BY <2>2 DEF GrantFits, NotHeld
    <3> QED BY <3>2, <3>3
  <2> QED BY <2>1, <2>2
<1>3. ASSUME NEW b \in Attempts, NEW k \in GrantIds, Asks(at, b, k)
      PROVE  AskedFits(at[b], h2[k], rc[k])
  <2>1. AskedFits(at[b], h[k], rc[k])
    BY <1>3 DEF Local
  <2>2. k # g
    BY <2>1 DEF AskedFits
  <2> QED BY <2>1, <2>2
<1> QED BY <1>1, <1>2, <1>3 DEF Local

\* A process loses its grants and its attempts.
LEMMA LoseStep ==
    ASSUME NEW h, NEW at, NEW rc, NEW n, Local(h, at, rc, n), NEW p \in Processes,
           NEW h2 \in [GrantIds -> LocalGrant], NEW at2 \in [Attempts -> Attempt],
           \A k \in GrantIds : h2[k] = IF h[k].proc = p THEN NotHeld ELSE h[k],
           \A b \in Attempts : at2[b] = IF at[b].proc = p THEN NoAttempt ELSE at[b]
    PROVE  Local(h2, at2, rc, n)
<1>1. LocalTypes(h2, at2, rc, n)
  BY DEF Local, LocalTypes
<1>2. \A b \in Attempts, k \in GrantIds : Asks(at2, b, k) => Asks(at, b, k) /\ at2[b] = at[b]
  BY NoneTyped DEF Asks
<1>3. \A k \in GrantIds : Users(at2, k) = {b \in Users(at, k) : at[b].proc # p}
  BY NoneTyped DEF Users
<1>4. ASSUME NEW k \in GrantIds PROVE GrantFits(k, h2[k], rc[k], n) /\ Backed(k, h2[k], at2)
  <2>1. GrantFits(k, h[k], rc[k], n) /\ Backed(k, h[k], at)
    BY DEF Local
  <2>2. CASE h[k].proc = p
    <3>1. Users(at2, k) = {}
      BY <1>3, <2>1, <2>2 DEF Backed
    <3>2. Backed(k, h2[k], at2)
      BY <2>2, <3>1, FS_EmptySet DEF Backed, NotHeld
    <3>3. GrantFits(k, h2[k], rc[k], n)
      BY <2>2 DEF GrantFits, NotHeld
    <3> QED BY <3>2, <3>3
  <2>3. CASE h[k].proc # p
    <3>1. \A b \in Users(at, k) : at[b].proc # p
      BY <2>1, <2>3 DEF Backed
    <3>2. Users(at2, k) = Users(at, k)
      BY <1>3, <3>1
    <3>3. \A b \in Users(at, k) : at2[b] = at[b]
      BY <3>1 DEF Users
    <3> QED BY <2>1, <2>3, <3>2, <3>3 DEF Backed
  <2> QED BY <2>2, <2>3
<1>5. ASSUME NEW b \in Attempts, NEW k \in GrantIds, Asks(at2, b, k)
      PROVE  AskedFits(at2[b], h2[k], rc[k])
  <2>1. AskedFits(at[b], h[k], rc[k])
    BY <1>2, <1>5 DEF Local
  <2>2. h2[k] = h[k]
    BY <2>1, BudgetAssumption DEF AskedFits
  <2> QED BY <1>2, <1>5, <2>1, <2>2
<1>6. \A b \in Attempts : AttemptFits(at2[b], n)
  BY IdleFits DEF Local
<1>7. AskedOnce(at2)
  BY <1>2 DEF Local, AskedOnce
<1> QED BY <1>1, <1>4, <1>5, <1>6, <1>7 DEF Local


-----------------------------------------------------------------------------
(* Money: what grants have left, what is reserved and what is owed          *)

Spend(x, l) == IF Live(x) THEN x.estimate[l] ELSE 0
ReservedIn(at, l) == Sum([a \in Attempts |-> Spend(at[a], l)], Attempts)
UseOf(at, g, l) == Sum([a \in Attempts |-> IF at[a].grant = g THEN Spend(at[a], l) ELSE 0], Attempts)

\* An answer is on its way to the process that asked for grant g.
Pending(at, g) == \E a \in Attempts : Asks(at, a, g) /\ at[a].reply = "granted"

\* What is left of grant g that its process may still spend.
Open(h, at, rc, g, l) ==
    IF h[g].proc # "none" THEN IF rc[g].returned THEN 0 ELSE h[g].remaining[l]
    ELSE IF Pending(at, g) THEN rc[g].amount[l] ELSE 0

OpenIn(h, at, rc, l) == Sum([g \in GrantIds |-> Open(h, at, rc, g, l)], GrantIds)
Owed(d, l) == Sum([p \in Processes |-> d[p][l]], Processes)
GrantedIn(rc, l) == Sum([g \in GrantIds |-> rc[g].amount[l] - rc[g].credit[l]], GrantIds)

\* A grant that was not returned has left and reserved no more than it charged.
Within(h, at, rc) ==
    \A g \in GrantIds, l \in Ledgers :
        h[g].proc # "none" /\ ~rc[g].returned =>
            h[g].remaining[l] + UseOf(at, g, l) <= rc[g].amount[l]

\* What was settled, is reserved or may still be reserved has been charged or is owed.
Covered(h, at, rc, d, ch, sp, fo) ==
    \A l \in Ledgers :
        sp[l] + ReservedIn(at, l) + OpenIn(h, at, rc, l) <= ch[l] + Owed(d, l) + fo[l]

\* The charge of a ledger is what was granted less what was returned.
Charged(rc, ch) == \A l \in Ledgers : ch[l] = GrantedIn(rc, l)

LEMMA FiniteIds == IsFiniteSet(GrantIds) /\ IsFiniteSet(Attempts) /\ IsFiniteSet(Processes)
BY BudgetAssumption, FS_Interval DEF GrantIds

LEMMA SpendTyped ==
    ASSUME NEW at \in [Attempts -> Attempt], NEW l \in Ledgers
    PROVE  /\ \A a \in Attempts : Spend(at[a], l) \in Nat
           /\ ReservedIn(at, l) \in Nat
           /\ \A g : UseOf(at, g, l) \in Nat
<1>1. \A a \in Attempts : Spend(at[a], l) \in Nat
  BY DEF Spend, Attempt, Amounts
<1>2. ReservedIn(at, l) \in Nat
  BY <1>1, FiniteIds, SumNat DEF ReservedIn
<1>3. ASSUME NEW g PROVE UseOf(at, g, l) \in Nat
  <2> DEFINE f == [a \in Attempts |-> IF at[a].grant = g THEN Spend(at[a], l) ELSE 0]
  <2>1. \A a \in Attempts : f[a] \in Nat
    BY <1>1
  <2> HIDE DEF f
  <2>2. Sum(f, Attempts) \in Nat
    BY <2>1, FiniteIds, SumNat
  <2> QED BY <2>2 DEF f, UseOf
<1> QED BY <1>1, <1>2, <1>3

\* One attempt changes what it spends.
LEMMA SpendChange ==
    ASSUME NEW at \in [Attempts -> Attempt], NEW at2 \in [Attempts -> Attempt],
           NEW a \in Attempts, \A b \in Attempts : b # a => at2[b] = at[b], NEW l \in Ledgers
    PROVE  /\ ReservedIn(at2, l) = ReservedIn(at, l) - Spend(at[a], l) + Spend(at2[a], l)
           /\ \A g : UseOf(at2, g, l) = UseOf(at, g, l)
                        - (IF at[a].grant = g THEN Spend(at[a], l) ELSE 0)
                        + (IF at2[a].grant = g THEN Spend(at2[a], l) ELSE 0)
<1>1. \A b \in Attempts : Spend(at[b], l) \in Int /\ Spend(at2[b], l) \in Int
  BY SpendTyped
<1>2. ReservedIn(at2, l) = ReservedIn(at, l) - Spend(at[a], l) + Spend(at2[a], l)
  <2> DEFINE f == [b \in Attempts |-> Spend(at[b], l)]
             f2 == [b \in Attempts |-> Spend(at2[b], l)]
  <2>1. f[a] = Spend(at[a], l) /\ f2[a] = Spend(at2[a], l) /\ f2[a] \in Int
        /\ (\A b \in Attempts : f[b] \in Int) /\ \A b \in Attempts : b # a => f2[b] = f[b]
    BY <1>1
  <2> HIDE DEF f, f2
  <2>2. Sum(f2, Attempts) = Sum(f, Attempts) - f[a] + f2[a]
    BY <2>1, FiniteIds, SumChange
  <2> QED BY <2>1, <2>2 DEF f, f2, ReservedIn
<1>3. ASSUME NEW g
      PROVE  UseOf(at2, g, l) = UseOf(at, g, l)
                        - (IF at[a].grant = g THEN Spend(at[a], l) ELSE 0)
                        + (IF at2[a].grant = g THEN Spend(at2[a], l) ELSE 0)
  <2> DEFINE f == [b \in Attempts |-> IF at[b].grant = g THEN Spend(at[b], l) ELSE 0]
             f2 == [b \in Attempts |-> IF at2[b].grant = g THEN Spend(at2[b], l) ELSE 0]
  <2>1. /\ f[a] = (IF at[a].grant = g THEN Spend(at[a], l) ELSE 0)
        /\ f2[a] = (IF at2[a].grant = g THEN Spend(at2[a], l) ELSE 0) /\ f2[a] \in Int
        /\ (\A b \in Attempts : f[b] \in Int) /\ \A b \in Attempts : b # a => f2[b] = f[b]
    BY <1>1
  <2> HIDE DEF f, f2
  <2>2. Sum(f2, Attempts) = Sum(f, Attempts) - f[a] + f2[a]
    BY <2>1, FiniteIds, SumChange
  <2>3. UseOf(at2, g, l) = Sum(f2, Attempts) /\ UseOf(at, g, l) = Sum(f, Attempts)
    BY DEF f, f2, UseOf
  <2> QED BY <2>1, <2>2, <2>3
<1> QED BY <1>2, <1>3

\* Only reservations use a grant.
LEMMA UnusedGrant ==
    ASSUME NEW at \in [Attempts -> Attempt], NEW g, Users(at, g) = {}, NEW l \in Ledgers
    PROVE  UseOf(at, g, l) = 0
<1> DEFINE f == [b \in Attempts |-> IF at[b].grant = g THEN Spend(at[b], l) ELSE 0]
<1>1. \A b \in Attempts : f[b] = 0
  BY DEF Users, Spend
<1> HIDE DEF f
<1>2. Sum(f, Attempts) = 0
  BY <1>1, FiniteIds, SumZero
<1> QED BY <1>2 DEF f, UseOf

LEMMA OpenTyped ==
    ASSUME NEW h, NEW at, NEW rc, NEW n, LocalTypes(h, at, rc, n), NEW l \in Ledgers
    PROVE  /\ \A g \in GrantIds : Open(h, at, rc, g, l) \in Nat /\ h[g].remaining[l] \in Nat
                                    /\ rc[g].amount[l] \in Nat /\ rc[g].credit[l] \in Nat
           /\ OpenIn(h, at, rc, l) \in Nat
<1>1. ASSUME NEW g \in GrantIds
      PROVE  h[g].remaining[l] \in Nat /\ rc[g].amount[l] \in Nat /\ rc[g].credit[l] \in Nat
  BY DEF LocalTypes, LocalGrant, Receipt, Amounts
<1>2. \A g \in GrantIds : Open(h, at, rc, g, l) \in Nat
  BY <1>1 DEF Open
<1>3. OpenIn(h, at, rc, l) \in Nat
  BY <1>2, FiniteIds, SumNat DEF OpenIn
<1> QED BY <1>1, <1>2, <1>3

\* What is open changes at one grant.
LEMMA OpenChange ==
    ASSUME NEW h, NEW at, NEW rc, NEW n, LocalTypes(h, at, rc, n),
           NEW h2, NEW at2, NEW rc2, NEW n2, LocalTypes(h2, at2, rc2, n2),
           NEW g \in GrantIds, NEW l \in Ledgers,
           \A k \in GrantIds : k # g => Open(h2, at2, rc2, k, l) = Open(h, at, rc, k, l)
    PROVE  OpenIn(h2, at2, rc2, l) =
               OpenIn(h, at, rc, l) - Open(h, at, rc, g, l) + Open(h2, at2, rc2, g, l)
<1> DEFINE f == [k \in GrantIds |-> Open(h, at, rc, k, l)]
           f2 == [k \in GrantIds |-> Open(h2, at2, rc2, k, l)]
<1>1. /\ f[g] = Open(h, at, rc, g, l) /\ f2[g] = Open(h2, at2, rc2, g, l)
      /\ \A k \in GrantIds : k # g => f2[k] = f[k]
  OBVIOUS
<1>2. (\A k \in GrantIds : f[k] \in Int) /\ f2[g] \in Int
  BY OpenTyped
<1> HIDE DEF f, f2
<1>3. Sum(f2, GrantIds) = Sum(f, GrantIds) - f[g] + f2[g]
  BY <1>1, <1>2, FiniteIds, SumChange
<1> QED BY <1>1, <1>3 DEF f, f2, OpenIn

LEMMA OpenLess ==
    ASSUME NEW h, NEW at, NEW rc, NEW n, LocalTypes(h, at, rc, n),
           NEW h2, NEW at2, NEW rc2, NEW n2, LocalTypes(h2, at2, rc2, n2), NEW l \in Ledgers,
           \A k \in GrantIds : Open(h2, at2, rc2, k, l) <= Open(h, at, rc, k, l)
    PROVE  OpenIn(h2, at2, rc2, l) <= OpenIn(h, at, rc, l)
<1> DEFINE f == [k \in GrantIds |-> Open(h, at, rc, k, l)]
           f2 == [k \in GrantIds |-> Open(h2, at2, rc2, k, l)]
<1>1. \A k \in GrantIds : f2[k] \in Int /\ f[k] \in Int /\ f2[k] <= f[k]
  BY OpenTyped
<1> HIDE DEF f, f2
<1>2. Sum(f2, GrantIds) <= Sum(f, GrantIds)
  BY <1>1, FiniteIds, SumMono
<1> QED BY <1>2 DEF f, f2, OpenIn

LEMMA OwedTyped ==
    ASSUME NEW d \in [Processes -> Amounts], NEW l \in Ledgers
    PROVE  Owed(d, l) \in Nat /\ \A p \in Processes : d[p][l] \in Nat
<1>1. \A p \in Processes : d[p][l] \in Nat
  BY DEF Amounts
<1>2. Owed(d, l) \in Nat
  BY <1>1, FiniteIds, SumNat DEF Owed
<1> QED BY <1>1, <1>2

LEMMA OwedChange ==
    ASSUME NEW d \in [Processes -> Amounts], NEW d2 \in [Processes -> Amounts],
           NEW p \in Processes, \A q \in Processes : q # p => d2[q] = d[q], NEW l \in Ledgers
    PROVE  Owed(d2, l) = Owed(d, l) - d[p][l] + d2[p][l]
<1> DEFINE f == [q \in Processes |-> d[q][l]]
           f2 == [q \in Processes |-> d2[q][l]]
<1>1. f[p] = d[p][l] /\ f2[p] = d2[p][l] /\ \A q \in Processes : q # p => f2[q] = f[q]
  OBVIOUS
<1>2. (\A q \in Processes : f[q] \in Int) /\ f2[p] \in Int
  BY OwedTyped
<1> HIDE DEF f, f2
<1>3. Sum(f2, Processes) = Sum(f, Processes) - f[p] + f2[p]
  BY <1>1, <1>2, FiniteIds, SumChange
<1> QED BY <1>1, <1>3 DEF f, f2, Owed


\* The typing facts of one ledger, for the arithmetic below.
LEMMA LedgerTyped ==
    ASSUME NEW h, NEW at, NEW rc, NEW n, LocalTypes(h, at, rc, n),
           NEW d \in [Processes -> Amounts], NEW ch \in Amounts, NEW sp \in Amounts,
           NEW fo \in Amounts, NEW l \in Ledgers
    PROVE  /\ sp[l] \in Nat /\ ch[l] \in Nat /\ fo[l] \in Nat /\ Owed(d, l) \in Nat
           /\ ReservedIn(at, l) \in Nat /\ OpenIn(h, at, rc, l) \in Nat
<1>1. sp[l] \in Nat /\ ch[l] \in Nat /\ fo[l] \in Nat
  BY DEF Amounts
<1>2. at \in [Attempts -> Attempt]
  BY DEF LocalTypes
<1> QED BY <1>1, <1>2, OwedTyped, SpendTyped, OpenTyped

\* Covered follows when no ledger needs more than it gets.
LEMMA CoverFrom ==
    ASSUME NEW h, NEW at, NEW rc, NEW n, LocalTypes(h, at, rc, n),
           NEW h2, NEW at2, NEW rc2, NEW n2, LocalTypes(h2, at2, rc2, n2),
           NEW d \in [Processes -> Amounts], NEW ch \in Amounts, NEW sp \in Amounts,
           NEW fo \in Amounts, NEW d2 \in [Processes -> Amounts], NEW ch2 \in Amounts,
           NEW sp2 \in Amounts, NEW fo2 \in Amounts,
           Covered(h, at, rc, d, ch, sp, fo),
           \A l \in Ledgers :
               (sp2[l] - sp[l]) + (ReservedIn(at2, l) - ReservedIn(at, l))
                   + (OpenIn(h2, at2, rc2, l) - OpenIn(h, at, rc, l))
               <= (ch2[l] - ch[l]) + (Owed(d2, l) - Owed(d, l)) + (fo2[l] - fo[l])
    PROVE  Covered(h2, at2, rc2, d2, ch2, sp2, fo2)
<1> SUFFICES ASSUME NEW l \in Ledgers
             PROVE  sp2[l] + ReservedIn(at2, l) + OpenIn(h2, at2, rc2, l)
                        <= ch2[l] + Owed(d2, l) + fo2[l]
  BY DEF Covered
<1>1. sp[l] + ReservedIn(at, l) + OpenIn(h, at, rc, l) <= ch[l] + Owed(d, l) + fo[l]
  BY DEF Covered
<1>2. /\ sp[l] \in Nat /\ ch[l] \in Nat /\ fo[l] \in Nat /\ Owed(d, l) \in Nat
      /\ ReservedIn(at, l) \in Nat /\ OpenIn(h, at, rc, l) \in Nat
  BY LedgerTyped
<1>3. /\ sp2[l] \in Nat /\ ch2[l] \in Nat /\ fo2[l] \in Nat /\ Owed(d2, l) \in Nat
      /\ ReservedIn(at2, l) \in Nat /\ OpenIn(h2, at2, rc2, l) \in Nat
  BY LedgerTyped
<1>4. (sp2[l] - sp[l]) + (ReservedIn(at2, l) - ReservedIn(at, l))
          + (OpenIn(h2, at2, rc2, l) - OpenIn(h, at, rc, l))
      <= (ch2[l] - ch[l]) + (Owed(d2, l) - Owed(d, l)) + (fo2[l] - fo[l])
  OBVIOUS
<1> QED BY <1>1, <1>2, <1>3, <1>4

\* A grant that somebody asks for is not held, so nothing of it is open twice.
LEMMA PendingUnheld ==
    ASSUME NEW h, NEW at, NEW rc, NEW n, Local(h, at, rc, n), NEW g \in GrantIds, Pending(at, g)
    PROVE  h[g].proc = "none"
BY DEF Pending, Local, AskedFits

\* A reservation without a grant reserves nothing.
LEMMA NothingWithoutGrant ==
    ASSUME NEW x \in Attempt, NEW n, AttemptFits(x, n), Live(x) => x.grant = 0, NEW l \in Ledgers
    PROVE  Spend(x, l) = 0
BY DEF AttemptFits, Spend

\* An attempt without a reservation of a grant moves on.
LEMMA QuietMoney ==
    ASSUME NEW h, NEW at, NEW rc, NEW n, Local(h, at, rc, n), NEW a \in Attempts,
           NEW at2, Local(h, at2, rc, n), \A b \in Attempts : b # a => at2[b] = at[b],
           Live(at[a]) => at[a].grant = 0, Live(at2[a]) => at2[a].grant = 0,
           at2[a].step # "asking"
    PROVE  /\ Within(h, at, rc) => Within(h, at2, rc)
           /\ \A l \in Ledgers : ReservedIn(at2, l) = ReservedIn(at, l)
                                 /\ OpenIn(h, at2, rc, l) <= OpenIn(h, at, rc, l)
<1>1. at \in [Attempts -> Attempt] /\ at2 \in [Attempts -> Attempt]
      /\ LocalTypes(h, at, rc, n) /\ LocalTypes(h, at2, rc, n)
  BY DEF Local, LocalTypes
<1>2. \A l \in Ledgers : Spend(at[a], l) = 0 /\ Spend(at2[a], l) = 0
  <2>1. AttemptFits(at[a], n) /\ AttemptFits(at2[a], n) /\ at[a] \in Attempt /\ at2[a] \in Attempt
    BY <1>1 DEF Local
  <2> QED BY <2>1, NothingWithoutGrant
<1>3. ASSUME NEW l \in Ledgers
      PROVE  ReservedIn(at2, l) = ReservedIn(at, l) /\ \A g : UseOf(at2, g, l) = UseOf(at, g, l)
  <2>1. ReservedIn(at, l) \in Nat /\ \A g : UseOf(at, g, l) \in Nat
    BY <1>1, SpendTyped
  <2>2. Spend(at[a], l) = 0 /\ Spend(at2[a], l) = 0
    BY <1>2
  <2>3. /\ ReservedIn(at2, l) = ReservedIn(at, l) - Spend(at[a], l) + Spend(at2[a], l)
        /\ \A g : UseOf(at2, g, l) = UseOf(at, g, l)
                        - (IF at[a].grant = g THEN Spend(at[a], l) ELSE 0)
                        + (IF at2[a].grant = g THEN Spend(at2[a], l) ELSE 0)
    BY <1>1, SpendChange
  <2> QED BY <2>1, <2>2, <2>3
<1>4. \A g \in GrantIds : Pending(at2, g) => Pending(at, g)
  BY DEF Pending, Asks
<1>5. ASSUME NEW l \in Ledgers PROVE OpenIn(h, at2, rc, l) <= OpenIn(h, at, rc, l)
  <2>1. \A g \in GrantIds : Open(h, at2, rc, g, l) <= Open(h, at, rc, g, l)
    <3> SUFFICES ASSUME NEW g \in GrantIds PROVE Open(h, at2, rc, g, l) <= Open(h, at, rc, g, l)
      OBVIOUS
    <3>1. h[g].remaining[l] \in Nat /\ rc[g].amount[l] \in Nat
      BY <1>1, OpenTyped
    <3> QED BY <3>1, <1>4 DEF Open
  <2> QED BY <2>1, <1>1, OpenLess
<1>6. Within(h, at, rc) => Within(h, at2, rc)
  BY <1>3 DEF Within
<1> QED BY <1>3, <1>5, <1>6

\* A live attempt goes on with its reservation.
LEMMA KeepMoney ==
    ASSUME NEW h, NEW at, NEW rc, NEW n, Local(h, at, rc, n), NEW a \in Attempts,
           NEW at2, Local(h, at2, rc, n), \A b \in Attempts : b # a => at2[b] = at[b],
           Live(at[a]), Live(at2[a]), at2[a].grant = at[a].grant, at2[a].estimate = at[a].estimate
    PROVE  /\ Within(h, at, rc) => Within(h, at2, rc)
           /\ \A l \in Ledgers : ReservedIn(at2, l) = ReservedIn(at, l)
                                 /\ OpenIn(h, at2, rc, l) <= OpenIn(h, at, rc, l)
<1>1. at \in [Attempts -> Attempt] /\ at2 \in [Attempts -> Attempt]
      /\ LocalTypes(h, at, rc, n) /\ LocalTypes(h, at2, rc, n)
  BY DEF Local, LocalTypes
<1>2. \A l \in Ledgers : Spend(at2[a], l) = Spend(at[a], l) /\ Spend(at[a], l) \in Nat
  BY <1>1, SpendTyped DEF Spend
<1>3. ASSUME NEW l \in Ledgers
      PROVE  ReservedIn(at2, l) = ReservedIn(at, l) /\ \A g : UseOf(at2, g, l) = UseOf(at, g, l)
  <2>1. ReservedIn(at, l) \in Nat /\ \A g : UseOf(at, g, l) \in Nat
    BY <1>1, SpendTyped
  <2>2. Spend(at2[a], l) = Spend(at[a], l) /\ Spend(at[a], l) \in Nat
    BY <1>2
  <2>3. /\ ReservedIn(at2, l) = ReservedIn(at, l) - Spend(at[a], l) + Spend(at2[a], l)
        /\ \A g : UseOf(at2, g, l) = UseOf(at, g, l)
                        - (IF at[a].grant = g THEN Spend(at[a], l) ELSE 0)
                        + (IF at2[a].grant = g THEN Spend(at2[a], l) ELSE 0)
    BY <1>1, SpendChange
  <2> QED BY <2>1, <2>2, <2>3
<1>4. \A g \in GrantIds : Pending(at2, g) => Pending(at, g)
  BY DEF Pending, Asks, Live
<1>5. ASSUME NEW l \in Ledgers PROVE OpenIn(h, at2, rc, l) <= OpenIn(h, at, rc, l)
  <2>1. \A g \in GrantIds : Open(h, at2, rc, g, l) <= Open(h, at, rc, g, l)
    <3> SUFFICES ASSUME NEW g \in GrantIds PROVE Open(h, at2, rc, g, l) <= Open(h, at, rc, g, l)
      OBVIOUS
    <3>1. h[g].remaining[l] \in Nat /\ rc[g].amount[l] \in Nat
      BY <1>1, OpenTyped
    <3> QED BY <3>1, <1>4 DEF Open
  <2> QED BY <2>1, <1>1, OpenLess
<1>6. Within(h, at, rc) => Within(h, at2, rc)
  BY <1>3 DEF Within
<1> QED BY <1>3, <1>5, <1>6

\* Grants lose some of what they have left.
LEMMA PaidMoney ==
    ASSUME NEW h, NEW at, NEW rc, NEW n, Local(h, at, rc, n), NEW h2, Local(h2, at, rc, n),
           \A g \in GrantIds :
               /\ h2[g].proc = h[g].proc
               /\ \A l \in Ledgers : h2[g].remaining[l] <= h[g].remaining[l]
    PROVE  /\ Within(h, at, rc) => Within(h2, at, rc)
           /\ \A l \in Ledgers : OpenIn(h2, at, rc, l) <= OpenIn(h, at, rc, l)
<1>1. at \in [Attempts -> Attempt] /\ LocalTypes(h, at, rc, n) /\ LocalTypes(h2, at, rc, n)
  BY DEF Local, LocalTypes
<1>2. ASSUME NEW g \in GrantIds, NEW l \in Ledgers
      PROVE  /\ h[g].remaining[l] \in Nat /\ h2[g].remaining[l] \in Nat
             /\ rc[g].amount[l] \in Nat /\ UseOf(at, g, l) \in Nat
             /\ h2[g].remaining[l] <= h[g].remaining[l]
  <2>1. h[g].remaining[l] \in Nat /\ h2[g].remaining[l] \in Nat /\ rc[g].amount[l] \in Nat
    BY <1>1, OpenTyped
  <2>2. UseOf(at, g, l) \in Nat
    BY <1>1, SpendTyped
  <2> QED BY <2>1, <2>2
<1>3. ASSUME Within(h, at, rc) PROVE Within(h2, at, rc)
  <2> SUFFICES ASSUME NEW g \in GrantIds, NEW l \in Ledgers, h2[g].proc # "none", ~rc[g].returned
               PROVE  h2[g].remaining[l] + UseOf(at, g, l) <= rc[g].amount[l]
    BY DEF Within
  <2>1. h[g].remaining[l] + UseOf(at, g, l) <= rc[g].amount[l]
    BY <1>3 DEF Within
  <2>2. /\ h[g].remaining[l] \in Nat /\ h2[g].remaining[l] \in Nat
        /\ rc[g].amount[l] \in Nat /\ UseOf(at, g, l) \in Nat
        /\ h2[g].remaining[l] <= h[g].remaining[l]
    BY <1>2
  <2> QED BY <2>1, <2>2
<1>4. ASSUME NEW l \in Ledgers PROVE OpenIn(h2, at, rc, l) <= OpenIn(h, at, rc, l)
  <2>1. \A g \in GrantIds : Open(h2, at, rc, g, l) <= Open(h, at, rc, g, l)
    BY <1>2 DEF Open
  <2> QED BY <2>1, <1>1, OpenLess
<1> QED BY <1>3, <1>4

\* One grant and the attempt that uses it.
LEMMA GrantMoney ==
    ASSUME NEW h, NEW at, NEW rc, NEW n, Local(h, at, rc, n), Within(h, at, rc),
           NEW h2, NEW at2, Local(h2, at2, rc, n), NEW a \in Attempts, NEW g \in GrantIds,
           \A b \in Attempts : b # a => at2[b] = at[b], \A k \in GrantIds : k # g => h2[k] = h[k],
           h2[g].proc = h[g].proc, h[g].proc # "none", ~rc[g].returned,
           Live(at[a]) => at[a].grant = g, Live(at2[a]) => at2[a].grant = g,
           at[a].step = "asking" => at[a].reply # "granted", at2[a].step # "asking",
           \A l \in Ledgers : h2[g].remaining[l] + Spend(at2[a], l)
                                <= h[g].remaining[l] + Spend(at[a], l)
    PROVE  /\ Within(h2, at2, rc)
           /\ \A l \in Ledgers :
                 /\ ReservedIn(at2, l) = ReservedIn(at, l) - Spend(at[a], l) + Spend(at2[a], l)
                 /\ OpenIn(h2, at2, rc, l) =
                        OpenIn(h, at, rc, l) - h[g].remaining[l] + h2[g].remaining[l]
<1>1. /\ at \in [Attempts -> Attempt] /\ at2 \in [Attempts -> Attempt]
      /\ LocalTypes(h, at, rc, n) /\ LocalTypes(h2, at2, rc, n)
  BY DEF Local, LocalTypes
<1>2. ASSUME NEW l \in Ledgers
      PROVE  /\ ReservedIn(at2, l) = ReservedIn(at, l) - Spend(at[a], l) + Spend(at2[a], l)
             /\ \A k \in GrantIds : UseOf(at2, k, l) = UseOf(at, k, l)
                  - (IF k = g THEN Spend(at[a], l) ELSE 0) + (IF k = g THEN Spend(at2[a], l) ELSE 0)
  <2>1. /\ ReservedIn(at2, l) = ReservedIn(at, l) - Spend(at[a], l) + Spend(at2[a], l)
        /\ \A k : UseOf(at2, k, l) = UseOf(at, k, l)
                        - (IF at[a].grant = k THEN Spend(at[a], l) ELSE 0)
                        + (IF at2[a].grant = k THEN Spend(at2[a], l) ELSE 0)
    BY <1>1, SpendChange
  <2>2. /\ ~Live(at[a]) => Spend(at[a], l) = 0
        /\ ~Live(at2[a]) => Spend(at2[a], l) = 0
    BY DEF Spend
  <2> QED BY <2>1, <2>2
<1>3. ASSUME NEW k \in GrantIds, NEW l \in Ledgers, h2[k].proc # "none", ~rc[k].returned
      PROVE  h2[k].remaining[l] + UseOf(at2, k, l) <= rc[k].amount[l]
  <2>1. h[k].remaining[l] + UseOf(at, k, l) <= rc[k].amount[l]
    BY <1>3 DEF Within
  <2>2. /\ h[k].remaining[l] \in Nat /\ h2[k].remaining[l] \in Nat /\ rc[k].amount[l] \in Nat
    BY <1>1, OpenTyped
  <2>3. UseOf(at, k, l) \in Nat /\ Spend(at[a], l) \in Nat /\ Spend(at2[a], l) \in Nat
    BY <1>1, SpendTyped
  <2>4. UseOf(at2, k, l) = UseOf(at, k, l)
                  - (IF k = g THEN Spend(at[a], l) ELSE 0) + (IF k = g THEN Spend(at2[a], l) ELSE 0)
    BY <1>2
  <2>5. IF k = g THEN h2[k].remaining[l] + Spend(at2[a], l) <= h[k].remaining[l] + Spend(at[a], l)
        ELSE h2[k].remaining[l] = h[k].remaining[l]
    OBVIOUS
  <2> QED BY <2>1, <2>2, <2>3, <2>4, <2>5
<1>4. \A k \in GrantIds : Pending(at2, k) <=> Pending(at, k)
  BY DEF Pending, Asks
<1>5. ASSUME NEW l \in Ledgers
      PROVE  OpenIn(h2, at2, rc, l) = OpenIn(h, at, rc, l) - h[g].remaining[l] + h2[g].remaining[l]
  <2>1. \A k \in GrantIds : k # g => Open(h2, at2, rc, k, l) = Open(h, at, rc, k, l)
    BY <1>4 DEF Open
  <2>2. Open(h, at, rc, g, l) = h[g].remaining[l] /\ Open(h2, at2, rc, g, l) = h2[g].remaining[l]
    BY DEF Open
  <2> QED BY <1>1, <2>1, <2>2, OpenChange
<1> QED BY <1>2, <1>3, <1>5 DEF Within

\* Attempts that spend nothing before and after.
LEMMA SpendSame ==
    ASSUME NEW at \in [Attempts -> Attempt], NEW at2 \in [Attempts -> Attempt], NEW a \in Attempts,
           \A b \in Attempts : b # a => at2[b] = at[b], ~Live(at[a]), ~Live(at2[a]), NEW l \in Ledgers
    PROVE  ReservedIn(at2, l) = ReservedIn(at, l) /\ \A g : UseOf(at2, g, l) = UseOf(at, g, l)
<1>1. Spend(at[a], l) = 0 /\ Spend(at2[a], l) = 0
  BY DEF Spend
<1>2. ReservedIn(at, l) \in Nat /\ \A g : UseOf(at, g, l) \in Nat
  BY SpendTyped
<1>3. /\ ReservedIn(at2, l) = ReservedIn(at, l) - Spend(at[a], l) + Spend(at2[a], l)
      /\ \A g : UseOf(at2, g, l) = UseOf(at, g, l)
                        - (IF at[a].grant = g THEN Spend(at[a], l) ELSE 0)
                        + (IF at2[a].grant = g THEN Spend(at2[a], l) ELSE 0)
  BY SpendChange
<1> QED BY <1>1, <1>2, <1>3

\* A fresh grant id costs nothing yet.
LEMMA AskMoney ==
    ASSUME NEW h, NEW at, NEW rc, NEW n, Local(h, at, rc, n), NEW h2, NEW at2, NEW n2,
           Local(h2, at2, rc, n2), NEW a \in Attempts,
           \A b \in Attempts : b # a => at2[b] = at[b],
           \A k \in GrantIds : h2[k].proc = h[k].proc /\ h2[k].remaining = h[k].remaining,
           ~Live(at[a]), ~Live(at2[a]), at[a].step # "asking", at2[a].reply # "granted"
    PROVE  /\ Within(h, at, rc) => Within(h2, at2, rc)
           /\ \A l \in Ledgers : ReservedIn(at2, l) = ReservedIn(at, l)
                                 /\ OpenIn(h2, at2, rc, l) <= OpenIn(h, at, rc, l)
<1>1. /\ at \in [Attempts -> Attempt] /\ at2 \in [Attempts -> Attempt]
      /\ LocalTypes(h, at, rc, n) /\ LocalTypes(h2, at2, rc, n2)
  BY DEF Local, LocalTypes
<1>2. \A l \in Ledgers : ReservedIn(at2, l) = ReservedIn(at, l)
                         /\ \A g : UseOf(at2, g, l) = UseOf(at, g, l)
  BY <1>1, SpendSame
<1>3. \A g \in GrantIds : Pending(at2, g) => Pending(at, g)
  BY DEF Pending, Asks
<1>4. ASSUME NEW l \in Ledgers PROVE OpenIn(h2, at2, rc, l) <= OpenIn(h, at, rc, l)
  <2>1. \A g \in GrantIds : Open(h2, at2, rc, g, l) <= Open(h, at, rc, g, l)
    <3> SUFFICES ASSUME NEW g \in GrantIds PROVE Open(h2, at2, rc, g, l) <= Open(h, at, rc, g, l)
      OBVIOUS
    <3>1. h[g].remaining[l] \in Nat /\ rc[g].amount[l] \in Nat
      BY <1>1, OpenTyped
    <3> QED BY <3>1, <1>3 DEF Open
  <2> QED BY <2>1, <1>1, OpenLess
<1>5. Within(h, at, rc) => Within(h2, at2, rc)
  BY <1>2 DEF Within
<1> QED BY <1>2, <1>4, <1>5

\* A grant is charged when its receipt is written.
LEMMA AnswerMoney ==
    ASSUME NEW h, NEW at, NEW rc, NEW n, Local(h, at, rc, n), NEW at2, NEW rc2,
           Local(h, at2, rc2, n), NEW a \in Attempts, NEW g \in GrantIds, Asks(at, a, g),
           at[a].reply = "none", at2[a].step = "asking", at2[a].grant = g,
           \A b \in Attempts : b # a => at2[b] = at[b],
           \A k \in GrantIds : k # g => rc2[k] = rc[k]
    PROVE  /\ Within(h, at, rc) => Within(h, at2, rc2)
           /\ \A l \in Ledgers :
                 /\ ReservedIn(at2, l) = ReservedIn(at, l)
                 /\ OpenIn(h, at2, rc2, l) <= OpenIn(h, at, rc, l) + rc2[g].amount[l]
<1>1. /\ at \in [Attempts -> Attempt] /\ at2 \in [Attempts -> Attempt]
      /\ LocalTypes(h, at, rc, n) /\ LocalTypes(h, at2, rc2, n)
  BY DEF Local, LocalTypes
<1>2. \A l \in Ledgers : ReservedIn(at2, l) = ReservedIn(at, l)
                         /\ \A k : UseOf(at2, k, l) = UseOf(at, k, l)
  BY <1>1, SpendSame DEF Asks, Live
<1>3. h[g].proc = "none"
  BY DEF Local, AskedFits
<1>4. \A k \in GrantIds : k # g => (Pending(at2, k) => Pending(at, k))
  BY DEF Pending, Asks
<1>5. ~Pending(at, g)
  BY DEF Pending, Local, AskedOnce
<1>6. ASSUME NEW l \in Ledgers
      PROVE  OpenIn(h, at2, rc2, l) <= OpenIn(h, at, rc, l) + rc2[g].amount[l]
  <2> DEFINE f == [k \in GrantIds |-> Open(h, at, rc, k, l)]
             f1 == [f EXCEPT ![g] = rc2[g].amount[l]]
             f2 == [k \in GrantIds |-> Open(h, at2, rc2, k, l)]
  <2>1. \A k \in GrantIds : h[k].remaining[l] \in Nat /\ rc[k].amount[l] \in Nat
                            /\ rc2[k].amount[l] \in Nat
    BY <1>1, OpenTyped
  <2>2. \A k \in GrantIds : Open(h, at, rc, k, l) \in Nat /\ Open(h, at2, rc2, k, l) \in Nat
    BY <1>1, OpenTyped
  <2>3. f[g] = 0
    BY <1>3, <1>5 DEF Open
  <2>4. \A k \in GrantIds : f2[k] <= f1[k]
    <3>1. f2[g] <= rc2[g].amount[l]
      BY <1>3, <2>1 DEF Open
    <3>2. \A k \in GrantIds : k # g => f2[k] <= f[k]
      BY <1>4, <2>1 DEF Open
    <3> QED BY <3>1, <3>2
  <2>5. /\ \A k \in GrantIds : f[k] \in Int /\ f1[k] \in Int /\ f2[k] \in Int
        /\ f1[g] = rc2[g].amount[l] /\ \A k \in GrantIds : k # g => f1[k] = f[k]
    BY <2>1, <2>2
  <2> HIDE DEF f, f1, f2
  <2>6. Sum(f2, GrantIds) <= Sum(f1, GrantIds)
    BY <2>4, <2>5, FiniteIds, SumMono
  <2>7. Sum(f1, GrantIds) = Sum(f, GrantIds) - f[g] + f1[g] /\ Sum(f, GrantIds) \in Int
    BY <2>5, FiniteIds, SumChange, SumElement
  <2>8. OpenIn(h, at2, rc2, l) = Sum(f2, GrantIds) /\ OpenIn(h, at, rc, l) = Sum(f, GrantIds)
    BY DEF f, f2, OpenIn
  <2> QED BY <2>1, <2>3, <2>5, <2>6, <2>7, <2>8
<1>7. Within(h, at, rc) => Within(h, at2, rc2)
  <2> SUFFICES ASSUME Within(h, at, rc), NEW k \in GrantIds, NEW l \in Ledgers,
                      h[k].proc # "none", ~rc2[k].returned
               PROVE  h[k].remaining[l] + UseOf(at2, k, l) <= rc2[k].amount[l]
    BY DEF Within
  <2>1. k # g /\ rc2[k] = rc[k]
    BY <1>3
  <2> QED BY <1>2, <2>1 DEF Within
<1> QED BY <1>2, <1>6, <1>7

\* The process of an answered call holds the grant: debts are paid from it first.
LEMMA HoldMoney ==
    ASSUME NEW h, NEW at, NEW rc, NEW n, Local(h, at, rc, n), NEW h2, NEW at2,
           Local(h2, at2, rc, n), NEW a \in Attempts, NEW g \in GrantIds, Asks(at, a, g),
           at[a].reply = "granted", at2[a].step = "installed",
           \A b \in Attempts : b # a => at2[b] = at[b],
           \A k \in GrantIds : k # g => h2[k] = h[k], h2[g].proc # "none",
           \A l \in Ledgers : h2[g].remaining[l] <= rc[g].amount[l]
    PROVE  /\ Within(h, at, rc) => Within(h2, at2, rc)
           /\ \A l \in Ledgers :
                 /\ ReservedIn(at2, l) = ReservedIn(at, l)
                 /\ OpenIn(h2, at2, rc, l) =
                        OpenIn(h, at, rc, l) - rc[g].amount[l] + h2[g].remaining[l]
<1>1. /\ at \in [Attempts -> Attempt] /\ at2 \in [Attempts -> Attempt]
      /\ LocalTypes(h, at, rc, n) /\ LocalTypes(h2, at2, rc, n)
  BY DEF Local, LocalTypes
<1>2. \A l \in Ledgers : ReservedIn(at2, l) = ReservedIn(at, l)
                         /\ \A k : UseOf(at2, k, l) = UseOf(at, k, l)
  BY <1>1, SpendSame DEF Asks, Live
<1>3. h[g].proc = "none" /\ ~rc[g].returned
  BY DEF Local, AskedFits
<1>4. \A k \in GrantIds : k # g => (Pending(at2, k) <=> Pending(at, k))
  BY DEF Pending, Asks
<1>5. Pending(at, g)
  BY DEF Pending
<1>6. ASSUME NEW l \in Ledgers
      PROVE  OpenIn(h2, at2, rc, l) = OpenIn(h, at, rc, l) - rc[g].amount[l] + h2[g].remaining[l]
  <2>1. \A k \in GrantIds : k # g => Open(h2, at2, rc, k, l) = Open(h, at, rc, k, l)
    BY <1>4 DEF Open
  <2>2. Open(h, at, rc, g, l) = rc[g].amount[l] /\ Open(h2, at2, rc, g, l) = h2[g].remaining[l]
    BY <1>3, <1>5 DEF Open
  <2> QED BY <1>1, <2>1, <2>2, OpenChange
<1>7. Users(at, g) = {}
  <2>1. Backed(g, h[g], at)
    BY DEF Local
  <2>2. \A b \in Users(at, g) : at[b].proc \in Processes
    BY DEF Users, Local, AttemptFits, Live
  <2> QED BY <1>3, <2>1, <2>2, BudgetAssumption DEF Backed
<1>8. ASSUME Within(h, at, rc), NEW k \in GrantIds, NEW l \in Ledgers,
             h2[k].proc # "none", ~rc[k].returned
      PROVE  h2[k].remaining[l] + UseOf(at2, k, l) <= rc[k].amount[l]
  <2>1. CASE k = g
    <3>1. UseOf(at, g, l) = 0 /\ UseOf(at2, g, l) = UseOf(at, g, l)
      BY <1>1, <1>2, <1>7, UnusedGrant
    <3>2. h2[g].remaining[l] \in Nat /\ rc[g].amount[l] \in Nat
      BY <1>1, OpenTyped
    <3>3. h2[g].remaining[l] <= rc[g].amount[l]
      OBVIOUS
    <3> QED BY <2>1, <3>1, <3>2, <3>3
  <2>2. CASE k # g
    BY <1>2, <1>8, <2>2 DEF Within
  <2> QED BY <2>1, <2>2
<1> QED BY <1>2, <1>6, <1>8 DEF Within

\* BUDGET_RETURN takes back what a frozen grant has left.
LEMMA ReturnMoney ==
    ASSUME NEW h, NEW at, NEW rc, NEW n, Local(h, at, rc, n), NEW rc2, Local(h, at, rc2, n),
           NEW g \in GrantIds, h[g].proc # "none", ~rc[g].returned, rc2[g].returned,
           \A k \in GrantIds : k # g => rc2[k] = rc[k]
    PROVE  /\ Within(h, at, rc) => Within(h, at, rc2)
           /\ \A l \in Ledgers :
                 OpenIn(h, at, rc2, l) = OpenIn(h, at, rc, l) - h[g].remaining[l]
<1>1. LocalTypes(h, at, rc, n) /\ LocalTypes(h, at, rc2, n)
  BY DEF Local
<1>2. ASSUME NEW l \in Ledgers
      PROVE  OpenIn(h, at, rc2, l) = OpenIn(h, at, rc, l) - h[g].remaining[l]
  <2>1. \A k \in GrantIds : k # g => Open(h, at, rc2, k, l) = Open(h, at, rc, k, l)
    BY DEF Open
  <2>2. Open(h, at, rc, g, l) = h[g].remaining[l] /\ Open(h, at, rc2, g, l) = 0
    BY DEF Open
  <2>3. h[g].remaining[l] \in Nat /\ OpenIn(h, at, rc, l) \in Nat
    BY <1>1, OpenTyped
  <2>4. OpenIn(h, at, rc2, l) =
            OpenIn(h, at, rc, l) - Open(h, at, rc, g, l) + Open(h, at, rc2, g, l)
    BY <1>1, <2>1, OpenChange
  <2> QED BY <2>2, <2>3, <2>4
<1>3. Within(h, at, rc) => Within(h, at, rc2)
  BY DEF Within
<1> QED BY <1>2, <1>3

\* A returned grant is forgotten.
LEMMA DropMoney ==
    ASSUME NEW h, NEW at, NEW rc, NEW n, Local(h, at, rc, n), NEW h2, Local(h2, at, rc, n),
           NEW g \in GrantIds, h[g].proc # "none", rc[g].returned, h2[g].proc = "none",
           \A k \in GrantIds : k # g => h2[k] = h[k]
    PROVE  /\ Within(h, at, rc) => Within(h2, at, rc)
           /\ \A l \in Ledgers : OpenIn(h2, at, rc, l) <= OpenIn(h, at, rc, l)
<1>1. LocalTypes(h, at, rc, n) /\ LocalTypes(h2, at, rc, n)
  BY DEF Local
<1>2. ~Pending(at, g)
  BY PendingUnheld
<1>3. ASSUME NEW l \in Ledgers PROVE OpenIn(h2, at, rc, l) <= OpenIn(h, at, rc, l)
  <2>1. \A k \in GrantIds : Open(h2, at, rc, k, l) <= Open(h, at, rc, k, l)
    <3> SUFFICES ASSUME NEW k \in GrantIds PROVE Open(h2, at, rc, k, l) <= Open(h, at, rc, k, l)
      OBVIOUS
    <3>1. Open(h, at, rc, k, l) \in Nat
      BY <1>1, OpenTyped
    <3>2. CASE k = g
      BY <1>2, <3>1, <3>2 DEF Open
    <3>3. CASE k # g
      BY <3>1, <3>3 DEF Open
    <3> QED BY <3>2, <3>3
  <2> QED BY <2>1, <1>1, OpenLess
<1>4. Within(h, at, rc) => Within(h2, at, rc)
  BY DEF Within
<1> QED BY <1>3, <1>4

\* A process loses its grants and its attempts.
LEMMA LoseMoney ==
    ASSUME NEW h, NEW at, NEW rc, NEW n, Local(h, at, rc, n), NEW h2, NEW at2,
           Local(h2, at2, rc, n), NEW p \in Processes,
           \A k \in GrantIds : h2[k] = IF h[k].proc = p THEN NotHeld ELSE h[k],
           \A b \in Attempts : at2[b] = IF at[b].proc = p THEN NoAttempt ELSE at[b]
    PROVE  /\ Within(h, at, rc) => Within(h2, at2, rc)
           /\ \A l \in Ledgers : ReservedIn(at2, l) <= ReservedIn(at, l)
                                 /\ OpenIn(h2, at2, rc, l) <= OpenIn(h, at, rc, l)
<1>1. /\ at \in [Attempts -> Attempt] /\ at2 \in [Attempts -> Attempt]
      /\ LocalTypes(h, at, rc, n) /\ LocalTypes(h2, at2, rc, n)
  BY DEF Local, LocalTypes
<1>2. ASSUME NEW l \in Ledgers, NEW b \in Attempts
      PROVE  /\ Spend(at[b], l) \in Nat /\ Spend(at2[b], l) \in Nat
             /\ Spend(at2[b], l) <= Spend(at[b], l)
             /\ at2[b].grant # at[b].grant => Spend(at2[b], l) = 0
  <2>1. Spend(at[b], l) \in Nat /\ Spend(at2[b], l) \in Nat
    BY <1>1, SpendTyped
  <2>2. Spend(NoAttempt, l) = 0
    BY NoneTyped DEF Spend
  <2>3. at2[b] = at[b] \/ at2[b] = NoAttempt
    OBVIOUS
  <2> QED BY <2>1, <2>2, <2>3
<1>3. ASSUME NEW l \in Ledgers PROVE ReservedIn(at2, l) <= ReservedIn(at, l)
  <2> DEFINE f == [b \in Attempts |-> Spend(at[b], l)]
             f2 == [b \in Attempts |-> Spend(at2[b], l)]
  <2>1. \A b \in Attempts : f2[b] \in Int /\ f[b] \in Int /\ f2[b] <= f[b]
    BY <1>2
  <2> HIDE DEF f, f2
  <2>2. Sum(f2, Attempts) <= Sum(f, Attempts)
    BY <2>1, FiniteIds, SumMono
  <2> QED BY <2>2 DEF f, f2, ReservedIn
<1>4. ASSUME NEW l \in Ledgers, NEW g PROVE UseOf(at2, g, l) <= UseOf(at, g, l)
  <2> DEFINE f == [b \in Attempts |-> IF at[b].grant = g THEN Spend(at[b], l) ELSE 0]
             f2 == [b \in Attempts |-> IF at2[b].grant = g THEN Spend(at2[b], l) ELSE 0]
  <2>1. \A b \in Attempts : f2[b] \in Int /\ f[b] \in Int /\ f2[b] <= f[b]
    BY <1>2
  <2> HIDE DEF f, f2
  <2>2. Sum(f2, Attempts) <= Sum(f, Attempts)
    BY <2>1, FiniteIds, SumMono
  <2> QED BY <2>2 DEF f, f2, UseOf
<1>5. \A g \in GrantIds : Pending(at2, g) => Pending(at, g)
  BY NoneTyped DEF Pending, Asks
<1>6. ASSUME NEW l \in Ledgers PROVE OpenIn(h2, at2, rc, l) <= OpenIn(h, at, rc, l)
  <2>1. \A k \in GrantIds : Open(h2, at2, rc, k, l) <= Open(h, at, rc, k, l)
    <3> SUFFICES ASSUME NEW k \in GrantIds
                 PROVE  Open(h2, at2, rc, k, l) <= Open(h, at, rc, k, l)
      OBVIOUS
    <3>1. /\ h[k].remaining[l] \in Nat /\ rc[k].amount[l] \in Nat
          /\ Open(h, at, rc, k, l) \in Nat
      BY <1>1, OpenTyped
    <3>2. CASE h[k].proc = p
      <4>1. ~Pending(at2, k) /\ h2[k].proc = "none"
        BY <1>5, <3>2, PendingUnheld, BudgetAssumption DEF NotHeld
      <4>2. Open(h2, at2, rc, k, l) = 0
        BY <4>1 DEF Open
      <4> QED BY <3>1, <4>2
    <3>3. CASE h[k].proc # p
      BY <1>5, <3>1, <3>3 DEF Open
    <3> QED BY <3>2, <3>3
  <2> QED BY <2>1, <1>1, OpenLess
<1>7. ASSUME Within(h, at, rc), NEW k \in GrantIds, NEW l \in Ledgers,
             h2[k].proc # "none", ~rc[k].returned
      PROVE  h2[k].remaining[l] + UseOf(at2, k, l) <= rc[k].amount[l]
  <2>1. h2[k] = h[k]
    BY <1>7 DEF NotHeld
  <2>2. h[k].remaining[l] + UseOf(at, k, l) <= rc[k].amount[l]
    BY <1>7, <2>1 DEF Within
  <2>3. /\ h[k].remaining[l] \in Nat /\ rc[k].amount[l] \in Nat
        /\ UseOf(at, k, l) \in Nat /\ UseOf(at2, k, l) \in Nat
    BY <1>1, OpenTyped, SpendTyped
  <2>4. UseOf(at2, k, l) <= UseOf(at, k, l)
    BY <1>4
  <2> QED BY <2>1, <2>2, <2>3, <2>4
<1> QED BY <1>3, <1>6, <1>7 DEF Within


-----------------------------------------------------------------------------
(* Paying debts: what the grants lose is what the debt loses                *)

LEMMA LeastNat == ASSUME NEW T, T \subseteq Nat, T # {} PROVE \E x \in T : \A y \in T : x <= y
<1>1. PICK x \in T : \A y \in T : ~(<<y, x>> \in OpToRel(<, Nat))
  BY NatLessThanWellFounded, WFMin
<1>2. ASSUME NEW y \in T PROVE ~(y < x)
  BY <1>1 DEF OpToRel
<1>3. \A y \in T : x \in Nat /\ y \in Nat
  OBVIOUS
<1> QED BY <1>2, <1>3

LEMMA MinOf == ASSUME NEW T, T \subseteq Nat, T # {} PROVE Min(T) \in T
BY LeastNat DEF Min

Upto(S, m) == {h \in S : h < m}

\* Debt D is paid from f in the order of the ids of S; g is what is left.
LEMMA PayInOrder ==
    ASSUME NEW S, S \subseteq GrantIds, NEW f, NEW g, NEW D \in Nat, \A k \in S : f[k] \in Nat,
           \A k \in S : g[k] = Positive(f[k] - Positive(D - Sum(f, Upto(S, k))))
    PROVE  \A m \in 1 .. MaxGrants + 1 :
               /\ Sum(f, Upto(S, m)) \in Nat
               /\ Sum(g, Upto(S, m)) = Positive(Sum(f, Upto(S, m)) - D)
<1> DEFINE T == {m \in 1 .. MaxGrants + 1 : Sum(g, Upto(S, m)) # Positive(Sum(f, Upto(S, m)) - D)}
<1>0. /\ MaxGrants \in Nat /\ (\A k \in S : k \in 1 .. MaxGrants)
      /\ \A m : IsFiniteSet(Upto(S, m)) /\ Upto(S, m) \subseteq S
  <2>1. IsFiniteSet(S)
    BY FiniteIds, FS_Subset
  <2> QED BY <2>1, BudgetAssumption, FS_Subset DEF GrantIds, Upto
<1>1. \A m : Sum(f, Upto(S, m)) \in Nat
  BY <1>0, SumNat
<1>2. \A k \in S : g[k] \in Int
  <2> SUFFICES ASSUME NEW k \in S PROVE g[k] \in Int
    OBVIOUS
  <2>1. f[k] \in Nat /\ Sum(f, Upto(S, k)) \in Nat
    BY <1>1
  <2>2. g[k] = Positive(f[k] - Positive(D - Sum(f, Upto(S, k))))
    OBVIOUS
  <2> QED BY <2>1, <2>2 DEF Positive
<1>3. T = {}
  <2>1. SUFFICES ASSUME T # {} PROVE FALSE
    OBVIOUS
  <2>2. PICK m \in T : \A k \in T : m <= k
    <3>1. T \subseteq Nat
      BY <1>0
    <3> HIDE DEF T
    <3> QED BY <2>1, <3>1, LeastNat
  <2>3. m \in 1 .. MaxGrants + 1 /\ m \in Nat /\ Sum(g, Upto(S, m)) # Positive(Sum(f, Upto(S, m)) - D)
    BY <1>0
  <2>4. m # 1
    <3>1. Upto(S, 1) = {}
      BY <1>0 DEF Upto
    <3>2. Sum(g, {}) = 0 /\ Sum(f, {}) = 0
      BY SumStep, FS_EmptySet
    <3> HIDE DEF T
    <3>3. ASSUME m = 1 PROVE FALSE
      <4>1. Sum(g, Upto(S, m)) = 0 /\ Sum(f, Upto(S, m)) = 0
        BY <3>1, <3>2, <3>3
      <4>2. Positive(0 - D) = 0
        BY DEF Positive
      <4> QED BY <2>3, <4>1, <4>2
    <3> QED BY <3>3
  <2> DEFINE k == m - 1
  <2>5. k \in 1 .. MaxGrants + 1 /\ k < m /\ k \in Nat /\ m = k + 1
    BY <1>0, <2>3, <2>4
  <2>6. Sum(g, Upto(S, k)) = Positive(Sum(f, Upto(S, k)) - D)
    <3>1. ~(m <= k)
      BY <2>5
    <3>2. k \notin T
      BY <2>2, <3>1
    <3> QED BY <2>5, <3>2
  <2> HIDE DEF k, T
  <2>7. CASE k \notin S
    <3>1. Upto(S, m) = Upto(S, k)
      <4>1. \A h \in S : h < m <=> h < k
        BY <1>0, <2>5, <2>7
      <4> QED BY <4>1 DEF Upto
    <3> QED BY <2>3, <2>6, <3>1
  <2>8. CASE k \in S
    <3>1. /\ k \in Upto(S, m) /\ Upto(S, m) \ {k} = Upto(S, k)
      <4>1. \A h \in S : h < m <=> (h < k \/ h = k)
        BY <1>0, <2>5
      <4>2. ~(k < k)
        BY <2>5
      <4> QED BY <2>8, <4>1, <4>2 DEF Upto
    <3>2. f[k] \in Nat /\ g[k] = Positive(f[k] - Positive(D - Sum(f, Upto(S, k)))) /\ g[k] \in Int
      BY <1>2, <2>8
    <3>3. IsFiniteSet(Upto(S, m)) /\ \A x \in Upto(S, m) : f[x] \in Int /\ g[x] \in Int
      BY <1>0, <1>2
    <3>4. /\ Sum(f, Upto(S, m)) = f[k] + Sum(f, Upto(S, k))
          /\ Sum(g, Upto(S, m)) = g[k] + Sum(g, Upto(S, k))
      BY <3>1, <3>3, SumElement
    <3>5. Sum(f, Upto(S, k)) \in Nat
      BY <1>1
    <3>6. Positive(f[k] - Positive(D - Sum(f, Upto(S, k)))) + Positive(Sum(f, Upto(S, k)) - D)
            = Positive(f[k] + Sum(f, Upto(S, k)) - D)
      BY <3>2, <3>5 DEF Positive
    <3> QED BY <2>3, <2>6, <3>2, <3>4, <3>5, <3>6
  <2> QED BY <2>7, <2>8
<1> QED BY <1>1, <1>3

LEMMA PaidTyped ==
    ASSUME Local(held, attempts, receipts, granted), debts \in [Processes -> Amounts],
           NEW p \in Processes, NEW S, S \subseteq GrantIds
    PROVE  /\ PayDebts(p, S) \in [GrantIds -> LocalGrant] /\ DebtAfterPaying(p, S) \in Amounts
           /\ \A g \in GrantIds :
                 /\ PayDebts(p, S)[g].proc = held[g].proc /\ PayDebts(p, S)[g].sides = held[g].sides
                 /\ PayDebts(p, S)[g].generation = held[g].generation
                 /\ PayDebts(p, S)[g].inUse = held[g].inUse /\ PayDebts(p, S)[g].life = held[g].life
                 /\ PayDebts(p, S)[g].returning = held[g].returning
                 /\ PayDebts(p, S)[g].remaining = RemainingAfterPaying(p, S, g)
                 /\ g \notin S => PayDebts(p, S)[g] = held[g]
                 /\ \A l \in Ledgers : PayDebts(p, S)[g].remaining[l] <= held[g].remaining[l]
<1>1. held \in [GrantIds -> LocalGrant] /\ LocalTypes(held, attempts, receipts, granted)
  BY DEF Local, LocalTypes
<1>2. ASSUME NEW g, NEW l \in Ledgers PROVE AheadOf(S, g, l) \in Nat
  <2> DEFINE f == [h \in GrantIds |-> IF l \in held[h].sides THEN held[h].remaining[l] ELSE 0]
  <2>1. \A h \in GrantIds : f[h] \in Nat
    BY <1>1, OpenTyped
  <2> HIDE DEF f
  <2>2. IsFiniteSet({h \in S : h < g}) /\ \A h \in {k \in S : k < g} : f[h] \in Nat
    BY <2>1, FiniteIds, FS_Subset
  <2>3. Sum(f, {h \in S : h < g}) \in Nat
    BY <2>2, SumNat
  <2> QED BY <2>3 DEF f, AheadOf
<1>3. DebtAfterPaying(p, S) \in Amounts
  <2>1. \A l \in Ledgers : Positive(debts[p][l] - AheadOf(S, MaxGrants + 1, l)) \in Nat
    <3> SUFFICES ASSUME NEW l \in Ledgers
                 PROVE  Positive(debts[p][l] - AheadOf(S, MaxGrants + 1, l)) \in Nat
      OBVIOUS
    <3>1. debts[p][l] \in Nat /\ AheadOf(S, MaxGrants + 1, l) \in Nat
      BY <1>2, OwedTyped
    <3> QED BY <3>1 DEF Positive
  <2> QED BY <2>1 DEF DebtAfterPaying, Amounts
<1>4. ASSUME NEW g \in GrantIds, NEW l \in Ledgers
      PROVE  /\ RemainingAfterPaying(p, S, g)[l] \in Nat
             /\ RemainingAfterPaying(p, S, g)[l] <= held[g].remaining[l]
             /\ g \notin S => RemainingAfterPaying(p, S, g)[l] = held[g].remaining[l]
  <2>1. held[g].remaining[l] \in Nat /\ AheadOf(S, g, l) \in Nat /\ debts[p][l] \in Nat
    BY <1>1, <1>2, OpenTyped, OwedTyped
  <2> QED BY <2>1 DEF RemainingAfterPaying, Positive
<1>5. ASSUME NEW g \in GrantIds PROVE RemainingAfterPaying(p, S, g) \in Amounts
  <2>1. \A l \in Ledgers : RemainingAfterPaying(p, S, g)[l] \in Nat
    BY <1>4
  <2>2. RemainingAfterPaying(p, S, g) = [l \in Ledgers |-> RemainingAfterPaying(p, S, g)[l]]
    BY DEF RemainingAfterPaying
  <2> QED BY <2>1, <2>2 DEF Amounts
<1>6. ASSUME NEW g \in GrantIds
      PROVE  PayDebts(p, S)[g] = [held[g] EXCEPT !.remaining = RemainingAfterPaying(p, S, g)]
  BY DEF PayDebts
<1>7. ASSUME NEW g \in GrantIds, g \notin S PROVE PayDebts(p, S)[g] = held[g]
  <2>1. RemainingAfterPaying(p, S, g) = held[g].remaining
    <3>1. held[g].remaining = [l \in Ledgers |-> held[g].remaining[l]]
      BY <1>1 DEF LocalGrant, Amounts
    <3> QED BY <3>1, <1>7 DEF RemainingAfterPaying
  <2>2. held[g] \in LocalGrant
    BY <1>1
  <2> QED BY <1>6, <2>1, <2>2 DEF LocalGrant
<1>8. ASSUME NEW g \in GrantIds
      PROVE  /\ PayDebts(p, S)[g] \in LocalGrant
             /\ PayDebts(p, S)[g].proc = held[g].proc /\ PayDebts(p, S)[g].sides = held[g].sides
             /\ PayDebts(p, S)[g].generation = held[g].generation
             /\ PayDebts(p, S)[g].inUse = held[g].inUse /\ PayDebts(p, S)[g].life = held[g].life
             /\ PayDebts(p, S)[g].returning = held[g].returning
             /\ PayDebts(p, S)[g].remaining = RemainingAfterPaying(p, S, g)
  <2>1. held[g] \in LocalGrant /\ RemainingAfterPaying(p, S, g) \in Amounts
    BY <1>1, <1>5
  <2> HIDE DEF Amounts
  <2> QED BY <1>6, <2>1 DEF LocalGrant
<1>9. PayDebts(p, S) \in [GrantIds -> LocalGrant]
  <2>1. PayDebts(p, S) = [g \in GrantIds |-> PayDebts(p, S)[g]]
    BY DEF PayDebts
  <2> QED BY <1>8, <2>1
<1> QED BY <1>3, <1>4, <1>7, <1>8, <1>9

\* The grants of S together lose what the debt of their process loses.
LEMMA PaidBalance ==
    ASSUME Local(held, attempts, receipts, granted), debts \in [Processes -> Amounts],
           NEW p \in Processes, NEW S, S \subseteq GrantIds,
           \A g \in S : held[g].proc # "none" /\ ~receipts[g].returned,
           NEW h2, Local(h2, attempts, receipts, granted),
           \A g \in GrantIds : h2[g].proc = held[g].proc
                               /\ h2[g].remaining = RemainingAfterPaying(p, S, g),
           NEW l \in Ledgers
    PROVE  OpenIn(h2, attempts, receipts, l) - OpenIn(held, attempts, receipts, l)
               = DebtAfterPaying(p, S)[l] - debts[p][l]
<1> DEFINE D == debts[p][l]
           F == [k \in GrantIds |-> IF l \in held[k].sides THEN held[k].remaining[l] ELSE 0]
           f == [k \in GrantIds |-> Open(held, attempts, receipts, k, l)]
           f2 == [k \in GrantIds |-> Open(h2, attempts, receipts, k, l)]
<1>1. LocalTypes(held, attempts, receipts, granted) /\ LocalTypes(h2, attempts, receipts, granted)
  BY DEF Local
<1>2. D \in Nat /\ MaxGrants \in Nat
  BY OwedTyped, BudgetAssumption
<1>3. \A k \in S : F[k] \in Nat /\ F[k] = held[k].remaining[l]
  <2> SUFFICES ASSUME NEW k \in S PROVE F[k] \in Nat /\ F[k] = held[k].remaining[l]
    OBVIOUS
  <2>1. held[k].remaining[l] \in Nat
    BY <1>1, OpenTyped
  <2>2. l \notin held[k].sides => held[k].remaining[l] = 0
    BY DEF Local, GrantFits
  <2> QED BY <2>1, <2>2
<1>4. \A k \in S : f[k] = F[k] /\ f2[k] = h2[k].remaining[l]
  BY <1>3 DEF Open
<1>5. \A k \in S : f2[k] = Positive(F[k] - Positive(D - Sum(F, Upto(S, k))))
  <2> SUFFICES ASSUME NEW k \in S
               PROVE  f2[k] = Positive(F[k] - Positive(D - Sum(F, Upto(S, k))))
    OBVIOUS
  <2>1. AheadOf(S, k, l) = Sum(F, Upto(S, k))
    BY DEF AheadOf, Upto
  <2>2. Sum(F, Upto(S, k)) \in Nat
    <3> HIDE DEF F
    <3>1. IsFiniteSet(Upto(S, k)) /\ Upto(S, k) \subseteq S
      BY FiniteIds, FS_Subset DEF Upto
    <3> QED BY <1>3, <3>1, SumNat
  <2>3. CASE l \in held[k].sides
    <3>1. h2[k].remaining[l] = Positive(held[k].remaining[l] - Positive(D - AheadOf(S, k, l)))
      BY <2>3 DEF RemainingAfterPaying
    <3> QED BY <1>3, <1>4, <2>1, <3>1
  <2>4. CASE l \notin held[k].sides
    <3>1. h2[k].remaining[l] = held[k].remaining[l]
      BY <2>4 DEF RemainingAfterPaying
    <3>2. F[k] = 0
      BY <2>4
    <3>3. f2[k] = 0
      BY <1>3, <1>4, <3>1, <3>2
    <3> HIDE DEF F, f2, D
    <3>4. Positive(0 - Positive(D - Sum(F, Upto(S, k)))) = 0
      BY <1>2, <2>2 DEF Positive
    <3> QED BY <3>2, <3>3, <3>4
  <2> QED BY <2>3, <2>4
<1>6. \A k \in GrantIds : f[k] \in Int /\ f2[k] \in Int
  BY <1>1, OpenTyped
<1>7. \A k \in GrantIds \ S : f[k] = f2[k]
  <2> SUFFICES ASSUME NEW k \in GrantIds \ S PROVE f[k] = f2[k]
    OBVIOUS
  <2>1. h2[k].remaining[l] = held[k].remaining[l]
    BY DEF RemainingAfterPaying
  <2> QED BY <2>1 DEF Open
<1>8. Sum(F, Upto(S, MaxGrants + 1)) = AheadOf(S, MaxGrants + 1, l)
  BY DEF AheadOf, Upto
<1>9. Upto(S, MaxGrants + 1) = S
  <2>1. \A h \in S : h \in 1 .. MaxGrants
    BY DEF GrantIds
  <2> QED BY <1>2, <2>1 DEF Upto
<1>10. DebtAfterPaying(p, S)[l] = Positive(D - Sum(F, S))
  BY <1>8, <1>9 DEF DebtAfterPaying
<1>11. OpenIn(h2, attempts, receipts, l) = Sum(f2, GrantIds)
       /\ OpenIn(held, attempts, receipts, l) = Sum(f, GrantIds)
  BY DEF OpenIn
<1> HIDE DEF D, F, f, f2
<1>12. Sum(F, S) \in Nat /\ Sum(f2, S) = Positive(Sum(F, S) - D)
  <2>1. MaxGrants + 1 \in 1 .. MaxGrants + 1
    BY <1>2
  <2>2. \A m \in 1 .. MaxGrants + 1 :
            /\ Sum(F, Upto(S, m)) \in Nat
            /\ Sum(f2, Upto(S, m)) = Positive(Sum(F, Upto(S, m)) - D)
    <3>1. D \in Nat /\ S \subseteq GrantIds
      BY <1>2
    <3>2. \A k \in S : F[k] \in Nat
      BY <1>3
    <3>3. \A k \in S : f2[k] = Positive(F[k] - Positive(D - Sum(F, Upto(S, k))))
      BY <1>5
    <3> HIDE DEF F, f2, D
    <3> QED BY ONLY <3>1, <3>2, <3>3, PayInOrder
  <2> QED BY <1>9, <2>1, <2>2
<1>13. IsFiniteSet(S) /\ IsFiniteSet(GrantIds) /\ IsFiniteSet(GrantIds \ S)
  BY FiniteIds, FS_Subset
<1>14. Sum(f, S) = Sum(F, S)
  BY <1>3, <1>4, <1>6, <1>13, SumSame
<1>15. Sum(f, GrantIds \ S) = Sum(f2, GrantIds \ S) /\ Sum(f, GrantIds \ S) \in Int
  BY <1>6, <1>7, <1>13, SumSame, SumElement
<1>16. /\ Sum(f, GrantIds) = Sum(f, S) + Sum(f, GrantIds \ S)
       /\ Sum(f2, GrantIds) = Sum(f2, S) + Sum(f2, GrantIds \ S)
  BY <1>6, <1>13, SumSplit
<1>17. Positive(Sum(F, S) - D) - Sum(F, S) = Positive(D - Sum(F, S)) - D
  BY <1>2, <1>12 DEF Positive
<1>18. Sum(f2, GrantIds) - Sum(f, GrantIds) = Positive(D - Sum(F, S)) - D
  <2> DEFINE rest == Sum(f, GrantIds \ S)
             paid == Positive(Sum(F, S) - D)
             left == Positive(D - Sum(F, S))
  <2>1. rest \in Int /\ D \in Nat /\ Sum(F, S) \in Nat /\ paid \in Int /\ left \in Int
    BY <1>2, <1>12, <1>15 DEF Positive
  <2>2. Sum(f2, GrantIds) = paid + rest /\ Sum(f, GrantIds) = Sum(F, S) + rest
    BY <1>12, <1>14, <1>15, <1>16
  <2>3. paid - Sum(F, S) = left - D
    BY <1>17
  <2> HIDE DEF rest, paid, left
  <2>4. Sum(f2, GrantIds) - Sum(f, GrantIds) = left - D
    BY <2>1, <2>2, <2>3
  <2> QED BY <2>4 DEF left
<1> QED BY <1>10, <1>11, <1>18 DEF D


-----------------------------------------------------------------------------
(* The inductive invariant                                                  *)

RestTypes ==
    /\ charged \in Amounts /\ recovery \in Amounts /\ spent \in Amounts /\ forgotten \in Amounts
    /\ debts \in [Processes -> Amounts] /\ known \in [Processes -> Amounts]
    /\ returns \in [Processes -> SUBSET GrantIds] /\ closing \in [Processes -> BOOLEAN]
    /\ settled \in Nat /\ faults \in Nat

\* An attempt has an estimate for each of its policies.
EstimateFits(x) ==
    x.step # "idle" => x.policies # {} /\ \A l \in x.policies : x.estimate[l] \in Estimates

\* Before a recovery, charges match receipts; an attempt that is estimated at
\* zero is settled against nothing, so spending is covered without such.
Accounts(h, at, rc, d, ch, rec, sp, fo) ==
    /\ \A l \in Ledgers : ch[l] <= Limit[l]
    /\ rec = Zero => Charged(rc, ch)
    /\ rec = Zero /\ 0 \notin Estimates => Covered(h, at, rc, d, ch, sp, fo)

IInv ==
    /\ RestTypes
    /\ Local(held, attempts, receipts, granted)
    /\ ReturnsFit(held, returns)
    /\ \A a \in Attempts : EstimateFits(attempts[a])
    /\ Within(held, attempts, receipts)
    /\ Accounts(held, attempts, receipts, debts, charged, recovery, spent, forgotten)

\* What each step of a process shows; Redis is left alone.
LEMMA ProcessStep ==
    ASSUME IInv, RestTypes', Local(held', attempts', receipts, granted'), UNCHANGED redisVars,
           ReturnsFit(held', returns'), \A a \in Attempts : EstimateFits(attempts'[a]),
           Within(held', attempts', receipts),
           0 \notin Estimates => \A l \in Ledgers :
               (spent'[l] - spent[l]) + (ReservedIn(attempts', l) - ReservedIn(attempts, l))
                   + (OpenIn(held', attempts', receipts, l) - OpenIn(held, attempts, receipts, l))
               <= (Owed(debts', l) - Owed(debts, l)) + (forgotten'[l] - forgotten[l])
    PROVE  IInv'
<1>1. receipts' = receipts /\ charged' = charged /\ recovery' = recovery
  BY DEF redisVars
<1>2. Local(held', attempts', receipts', granted')
  BY <1>1
<1>3. ASSUME recovery = Zero, 0 \notin Estimates
      PROVE  Covered(held', attempts', receipts, debts', charged, spent', forgotten')
  <2>1. Covered(held, attempts, receipts, debts, charged, spent, forgotten)
    BY <1>3 DEF IInv, Accounts
  <2>2. /\ LocalTypes(held, attempts, receipts, granted)
        /\ LocalTypes(held', attempts', receipts, granted')
    BY DEF IInv, Local
  <2>3. /\ debts \in [Processes -> Amounts] /\ charged \in Amounts /\ spent \in Amounts
        /\ forgotten \in Amounts /\ debts' \in [Processes -> Amounts] /\ spent' \in Amounts
        /\ forgotten' \in Amounts
    BY DEF IInv, RestTypes
  <2>4. \A l \in Ledgers :
               (spent'[l] - spent[l]) + (ReservedIn(attempts', l) - ReservedIn(attempts, l))
                   + (OpenIn(held', attempts', receipts, l) - OpenIn(held, attempts, receipts, l))
               <= (charged[l] - charged[l]) + (Owed(debts', l) - Owed(debts, l))
                   + (forgotten'[l] - forgotten[l])
    <3> SUFFICES ASSUME NEW l \in Ledgers
                 PROVE  (spent'[l] - spent[l]) + (ReservedIn(attempts', l) - ReservedIn(attempts, l))
                   + (OpenIn(held', attempts', receipts, l) - OpenIn(held, attempts, receipts, l))
               <= (charged[l] - charged[l]) + (Owed(debts', l) - Owed(debts, l))
                   + (forgotten'[l] - forgotten[l])
      OBVIOUS
    <3>1. charged[l] \in Nat /\ Owed(debts, l) \in Nat /\ Owed(debts', l) \in Nat
          /\ forgotten[l] \in Nat /\ forgotten'[l] \in Nat
      BY <2>2, <2>3, LedgerTyped
    <3>2. charged[l] - charged[l] = 0
      BY <3>1
    <3> QED BY <1>3, <3>1, <3>2
  <2> QED BY <2>1, <2>2, <2>3, <2>4, CoverFrom
<1>4. Accounts(held', attempts', receipts', debts', charged', recovery', spent', forgotten')
  BY <1>1, <1>3 DEF IInv, Accounts
<1> QED BY <1>1, <1>2, <1>4 DEF IInv

LEMMA CheaperSums ==
    ASSUME NEW h, NEW at, NEW rc, NEW n, Local(h, at, rc, n),
           NEW h2, NEW at2, NEW n2, Local(h2, at2, rc, n2), NEW l \in Ledgers,
           ReservedIn(at2, l) <= ReservedIn(at, l), OpenIn(h2, at2, rc, l) <= OpenIn(h, at, rc, l)
    PROVE  ReservedIn(at2, l) + OpenIn(h2, at2, rc, l) <= ReservedIn(at, l) + OpenIn(h, at, rc, l)
<1>1. LocalTypes(h, at, rc, n) /\ LocalTypes(h2, at2, rc, n2)
      /\ at \in [Attempts -> Attempt] /\ at2 \in [Attempts -> Attempt]
  BY DEF Local, LocalTypes
<1>2. /\ ReservedIn(at, l) \in Nat /\ OpenIn(h, at, rc, l) \in Nat
      /\ ReservedIn(at2, l) \in Nat /\ OpenIn(h2, at2, rc, l) \in Nat
  BY <1>1, SpendTyped, OpenTyped
<1> QED BY <1>2

\* The same for a step that leaves debts and history alone.
LEMMA CheaperStep ==
    ASSUME IInv, RestTypes', Local(held', attempts', receipts, granted'),
           UNCHANGED <<redisVars, debts, spent, forgotten>>,
           ReturnsFit(held', returns'), \A a \in Attempts : EstimateFits(attempts'[a]),
           Within(held', attempts', receipts),
           \A l \in Ledgers : ReservedIn(attempts', l) + OpenIn(held', attempts', receipts, l)
                            <= ReservedIn(attempts, l) + OpenIn(held, attempts, receipts, l)
    PROVE  IInv'
<1>1. ASSUME NEW l \in Ledgers
      PROVE  (spent'[l] - spent[l]) + (ReservedIn(attempts', l) - ReservedIn(attempts, l))
                   + (OpenIn(held', attempts', receipts, l) - OpenIn(held, attempts, receipts, l))
               <= (Owed(debts', l) - Owed(debts, l)) + (forgotten'[l] - forgotten[l])
  <2>1. /\ LocalTypes(held, attempts, receipts, granted)
        /\ LocalTypes(held', attempts', receipts, granted')
    BY DEF IInv, Local
  <2>2. /\ debts \in [Processes -> Amounts] /\ charged \in Amounts /\ spent \in Amounts
        /\ forgotten \in Amounts
    BY DEF IInv, RestTypes
  <2>3. /\ spent[l] \in Nat /\ forgotten[l] \in Nat /\ Owed(debts, l) \in Nat
        /\ ReservedIn(attempts, l) \in Nat /\ OpenIn(held, attempts, receipts, l) \in Nat
    BY <2>1, <2>2, LedgerTyped
  <2>4. ReservedIn(attempts', l) \in Nat /\ OpenIn(held', attempts', receipts, l) \in Nat
    BY <2>1, <2>2, LedgerTyped
  <2>5. spent'[l] - spent[l] = 0 /\ Owed(debts', l) - Owed(debts, l) = 0
        /\ forgotten'[l] - forgotten[l] = 0
    BY <2>3
  <2> QED BY <2>3, <2>4, <2>5
<1> QED BY <1>1, ProcessStep

LEMMA InitEstablishes == Init => IInv
<1> SUFFICES ASSUME Init PROVE IInv
  OBVIOUS
<1>1. RestTypes
  BY ZeroTyped DEF Init, RestTypes
<1>2. LocalTypes(held, attempts, receipts, granted)
  BY NoneTyped, BudgetAssumption DEF Init, LocalTypes
<1>3. \A g \in GrantIds : held[g] = NotHeld /\ receipts[g] = NoReceipt
  BY DEF Init
<1>4. \A a \in Attempts : attempts[a] = NoAttempt
  BY DEF Init
<1>5. /\ \A a \in Attempts : AttemptFits(attempts[a], granted)
      /\ \A a \in Attempts : \A g : ~Asks(attempts, a, g)
      /\ \A g : Users(attempts, g) = {}
  BY <1>4, IdleFits, NoneTyped DEF Asks, Users
<1>6. \A g \in GrantIds : GrantFits(g, held[g], receipts[g], granted)
  <2>1. NotHeld.proc = "none" /\ NotHeld.remaining = Zero /\ ~NotHeld.returning
    BY DEF NotHeld
  <2> QED BY <1>3, <2>1 DEF GrantFits
<1>7. \A g \in GrantIds : Backed(g, held[g], attempts)
  BY <1>3, <1>5, FS_EmptySet DEF Backed, NotHeld
<1>8. \A g \in GrantIds : ReceiptFits(g, receipts[g], granted)
  <2>1. NoReceipt.credit = Zero /\ NoReceipt.amount = Zero
    BY DEF NoReceipt
  <2>2. \A l \in Ledgers : NoReceipt.credit[l] <= NoReceipt.amount[l]
    BY <2>1 DEF Zero
  <2> QED BY <1>3, <2>1, <2>2 DEF ReceiptFits
<1>9. Local(held, attempts, receipts, granted)
  BY <1>2, <1>5, <1>6, <1>7, <1>8 DEF Local, AskedOnce
<1>10. ReturnsFit(held, returns)
  BY DEF Init, ReturnsFit
<1>11. \A a \in Attempts : EstimateFits(attempts[a])
  BY <1>4 DEF EstimateFits, NoAttempt
<1>12. Within(held, attempts, receipts)
  BY <1>3 DEF Within, NotHeld
<1>13. \A l \in Ledgers : charged[l] = 0 /\ spent[l] = 0 /\ forgotten[l] = 0 /\ Limit[l] \in Nat
  BY BudgetAssumption DEF Init, Zero
<1>14. ASSUME NEW l \in Ledgers
       PROVE  /\ GrantedIn(receipts, l) = 0 /\ ReservedIn(attempts, l) = 0
              /\ OpenIn(held, attempts, receipts, l) = 0 /\ Owed(debts, l) = 0
  <2>1. GrantedIn(receipts, l) = 0
    <3> DEFINE f == [g \in GrantIds |-> receipts[g].amount[l] - receipts[g].credit[l]]
    <3>1. \A g \in GrantIds : f[g] = 0
      BY <1>3 DEF NoReceipt, Zero
    <3> HIDE DEF f
    <3>2. Sum(f, GrantIds) = 0
      BY <3>1, FiniteIds, SumZero
    <3> QED BY <3>2 DEF f, GrantedIn
  <2>2. ReservedIn(attempts, l) = 0
    <3> DEFINE f == [a \in Attempts |-> Spend(attempts[a], l)]
    <3>1. \A a \in Attempts : f[a] = 0
      BY <1>4, NoneTyped DEF Spend
    <3> HIDE DEF f
    <3>2. Sum(f, Attempts) = 0
      BY <3>1, FiniteIds, SumZero
    <3> QED BY <3>2 DEF f, ReservedIn
  <2>3. OpenIn(held, attempts, receipts, l) = 0
    <3> DEFINE f == [g \in GrantIds |-> Open(held, attempts, receipts, g, l)]
    <3>1. \A g \in GrantIds : f[g] = 0
      BY <1>3 DEF Open, NotHeld, NoReceipt, Zero
    <3> HIDE DEF f
    <3>2. Sum(f, GrantIds) = 0
      BY <3>1, FiniteIds, SumZero
    <3> QED BY <3>2 DEF f, OpenIn
  <2>4. Owed(debts, l) = 0
    <3> DEFINE f == [p \in Processes |-> debts[p][l]]
    <3>1. \A p \in Processes : f[p] = 0
      BY DEF Init, Zero
    <3> HIDE DEF f
    <3>2. Sum(f, Processes) = 0
      BY <3>1, FiniteIds, SumZero
    <3> QED BY <3>2 DEF f, Owed
  <2> QED BY <2>1, <2>2, <2>3, <2>4
<1>15. Accounts(held, attempts, receipts, debts, charged, recovery, spent, forgotten)
  BY <1>13, <1>14 DEF Accounts, Charged, Covered
<1> QED BY <1>1, <1>9, <1>10, <1>11, <1>12, <1>15 DEF IInv


-----------------------------------------------------------------------------
(* reserve_attempt                                                          *)

\* The estimate of an attempt is on its sides.
LEMMA OffSides ==
    ASSUME NEW x \in Attempt, NEW n, AttemptFits(x, n), NEW l \in Ledgers, l \notin SidesIn(x)
    PROVE  x.estimate[l] = 0
<1>1. x.estimate[l] \in Nat
  BY DEF Attempt, Amounts
<1> QED BY <1>1 DEF AttemptFits, SidesIn, SidesOf

\* An attempt without a reservation of a grant moves on, nothing else does.
LEMMA QuietPreserves ==
    ASSUME IInv, NEW a \in Attempts, NEW x \in Attempt, attempts' \in [Attempts -> Attempt],
           attempts'[a] = x, \A b \in Attempts : b # a => attempts'[b] = attempts[b],
           AttemptFits(x, granted), EstimateFits(x), x.step # "asking",
           Live(attempts[a]) => attempts[a].grant = 0, Live(x) => x.grant = 0,
           UNCHANGED <<redisVars, held, debts, returns, granted, spent, forgotten>>, RestTypes'
    PROVE  IInv'
<1>1. held' = held /\ granted' = granted /\ returns' = returns
  OBVIOUS
<1>2. Local(held', attempts', receipts, granted')
  BY <1>1, QuietStep DEF IInv
<1>3. /\ Within(held, attempts', receipts)
      /\ \A l \in Ledgers : ReservedIn(attempts', l) = ReservedIn(attempts, l)
               /\ OpenIn(held, attempts', receipts, l) <= OpenIn(held, attempts, receipts, l)
  BY <1>1, <1>2, QuietMoney DEF IInv
<1>4. \A b \in Attempts : EstimateFits(attempts'[b])
  BY DEF IInv
<1>5. ReturnsFit(held', returns')
  BY <1>1 DEF IInv
<1>6. ASSUME NEW l \in Ledgers
      PROVE  ReservedIn(attempts', l) + OpenIn(held', attempts', receipts, l)
                 <= ReservedIn(attempts, l) + OpenIn(held, attempts, receipts, l)
  <2>1. ReservedIn(attempts, l) \in Nat
    BY SpendTyped DEF IInv, Local, LocalTypes
  <2>2. ReservedIn(attempts', l) <= ReservedIn(attempts, l)
        /\ OpenIn(held', attempts', receipts, l) <= OpenIn(held, attempts, receipts, l)
    BY <1>1, <1>3, <2>1
  <2> QED BY <1>2, <2>2, CheaperSums DEF IInv
<1> QED BY <1>1, <1>2, <1>3, <1>4, <1>5, <1>6, CheaperStep

LEMMA BeginPreserves ==
    ASSUME NEW a \in Attempts, IInv, BeginAny(a) PROVE IInv'
<1> PICK p \in Processes, policies \in PolicyPairs, e \in [Ledgers -> Estimates \cup {0}] :
        /\ \A l \in Ledgers : (l \in policies => e[l] \in Estimates) /\ (l \notin policies => e[l] = 0)
        /\ Begin(a, p, policies, e)
  BY DEF BeginAny
<1> DEFINE gen == References(p, SidesOf(policies, e))
           x == [step |-> IF SidesOf(policies, e) = {} THEN "reserved" ELSE "reserve",
                 proc |-> p, policies |-> policies, estimate |-> e,
                 generation |-> gen, grant |-> 0, reply |-> "none"]
<1>1. /\ attempts' = [attempts EXCEPT ![a] = x] /\ attempts[a].step = "idle"
      /\ UNCHANGED <<redisVars, known, held, debts, returns, closing, granted, historyVars, faults>>
  BY DEF Begin
<1>2. /\ policies \subseteq Ledgers /\ policies # {}
      /\ e \in Amounts /\ gen \in Amounts /\ MaxGrants \in Nat
  <2>1. e \in Amounts
    <3>1. Estimates \cup {0} \subseteq Nat
      BY BudgetAssumption
    <3> QED BY <3>1 DEF Amounts
  <2>2. gen \in Amounts
    BY DEF IInv, RestTypes, Amounts, References
  <2> QED BY <2>1, <2>2, BudgetAssumption
<1>3. x \in Attempt
  <2> HIDE DEF gen
  <2> QED BY <1>2 DEF Attempt, Steps
<1>4. /\ x.step \in {"reserved", "reserve"} /\ x.proc = p /\ x.policies = policies
      /\ x.estimate = e /\ x.grant = 0 /\ x.reply = "none"
      /\ x.step = "reserved" => SidesOf(policies, e) = {}
  <2> HIDE DEF gen
  <2> QED OBVIOUS
<1> HIDE DEF x, gen
<1>5. AttemptFits(x, granted)
  <2>1. ASSUME x.step = "reserved", NEW l \in Ledgers PROVE e[l] = 0
    <3>1. e[l] \in Nat
      BY <1>2 DEF Amounts
    <3>2. ~(l \in policies /\ e[l] > 0)
      BY <1>4, <2>1 DEF SidesOf
    <3> QED BY <3>1, <3>2
  <2>2. x.step # "idle" /\ x.step # "asking" /\ (Live(x) => x.step = "reserved")
    BY <1>4 DEF Live
  <2> QED BY <1>4, <2>1, <2>2 DEF AttemptFits
<1>6. /\ attempts' \in [Attempts -> Attempt] /\ attempts'[a] = x
      /\ \A b \in Attempts : b # a => attempts'[b] = attempts[b]
  BY <1>1, <1>3 DEF IInv, Local, LocalTypes
<1>7. ~Live(attempts[a]) /\ x.step # "asking"
  BY <1>1, <1>4 DEF Live
<1>8. EstimateFits(x)
  BY <1>2, <1>4 DEF EstimateFits
<1>9. RestTypes'
  BY <1>1 DEF IInv, RestTypes, redisVars, historyVars
<1>10. UNCHANGED <<redisVars, held, debts, returns, granted, spent, forgotten>>
  BY <1>1 DEF historyVars
<1> QED BY <1>3, <1>4, <1>5, <1>6, <1>7, <1>8, <1>9, <1>10, QuietPreserves

\* The attempt gives up: what it had asked for stays charged.
LEMMA GiveUpPreserves ==
    ASSUME NEW a \in Attempts, IInv, GiveUp(a) PROVE IInv'
<1>1. attempts \in [Attempts -> Attempt]
  BY DEF IInv, Local, LocalTypes
<1>2. /\ attempts' \in [Attempts -> Attempt] /\ attempts'[a] = NoAttempt
      /\ \A b \in Attempts : b # a => attempts'[b] = attempts[b]
  BY <1>1, NoneTyped DEF GiveUp
<1>3. ~Live(attempts[a])
  BY DEF GiveUp, Live
<1>4. EstimateFits(NoAttempt)
  BY DEF EstimateFits, NoAttempt
<1>5. faults' \in Nat
  BY DEF GiveUp, IInv, RestTypes
<1>6. RestTypes'
  BY <1>5 DEF GiveUp, IInv, RestTypes, redisVars, historyVars
<1>7. UNCHANGED <<redisVars, held, debts, returns, granted, spent, forgotten>>
  BY DEF GiveUp, historyVars
<1> QED BY <1>2, <1>3, <1>4, <1>6, <1>7, NoneTyped, IdleFits, QuietPreserves

LEMMA MarkDispatchedPreserves ==
    ASSUME NEW a \in Attempts, IInv, MarkDispatched(a) PROVE IInv'
<1>1. attempts \in [Attempts -> Attempt] /\ attempts[a] \in Attempt
  BY DEF IInv, Local, LocalTypes
<1>2. /\ attempts' \in [Attempts -> Attempt]
      /\ attempts'[a] = [attempts[a] EXCEPT !.step = "dispatched"]
      /\ \A b \in Attempts : b # a => attempts'[b] = attempts[b]
  BY <1>1 DEF MarkDispatched, Attempt, Steps
<1> DEFINE x == attempts'[a]
<1>3. /\ x.step = "dispatched" /\ x.proc = attempts[a].proc /\ x.policies = attempts[a].policies
      /\ x.estimate = attempts[a].estimate /\ x.grant = attempts[a].grant
  BY <1>1, <1>2 DEF Attempt
<1>4. Live(attempts[a]) /\ Live(x) /\ attempts[a].step = "reserved"
  BY <1>3 DEF MarkDispatched, Live
<1> HIDE DEF x
<1>5. AttemptFits(x, granted)
  <2>1. AttemptFits(attempts[a], granted)
    BY DEF IInv, Local
  <2> QED BY <1>3, <1>4, <2>1 DEF AttemptFits
<1>6. SidesIn(x) = SidesIn(attempts[a])
  BY <1>3 DEF SidesIn
<1>7. held' = held /\ granted' = granted /\ returns' = returns
      /\ UNCHANGED <<redisVars, debts, spent, forgotten>>
  BY DEF MarkDispatched, historyVars
<1>8. Local(held', attempts', receipts, granted')
  <2>1. attempts'[a] = x
    BY DEF x
  <2>2. Local(held, attempts, receipts, granted)
    BY DEF IInv
  <2>3. Local(held, attempts', receipts, granted)
    BY <1>2, <1>3, <1>4, <1>5, <1>6, <2>1, <2>2, KeepStep
  <2> QED BY <1>7, <2>3
<1>9. /\ Within(held, attempts', receipts)
      /\ \A l \in Ledgers : ReservedIn(attempts', l) = ReservedIn(attempts, l)
               /\ OpenIn(held, attempts', receipts, l) <= OpenIn(held, attempts, receipts, l)
  BY <1>2, <1>3, <1>4, <1>7, <1>8, KeepMoney DEF IInv, x
<1>10. \A b \in Attempts : EstimateFits(attempts'[b])
  <2>1. EstimateFits(x)
    BY <1>3, <1>4 DEF IInv, EstimateFits
  <2> QED BY <1>2, <2>1 DEF IInv, x
<1>11. ReturnsFit(held', returns')
  BY <1>7 DEF IInv
<1>12. ASSUME NEW l \in Ledgers
       PROVE  ReservedIn(attempts', l) + OpenIn(held', attempts', receipts, l)
                 <= ReservedIn(attempts, l) + OpenIn(held, attempts, receipts, l)
  <2>1. ReservedIn(attempts, l) \in Nat
    BY <1>1, SpendTyped
  <2>2. ReservedIn(attempts', l) <= ReservedIn(attempts, l)
        /\ OpenIn(held', attempts', receipts, l) <= OpenIn(held, attempts, receipts, l)
    BY <1>7, <1>9, <2>1
  <2> QED BY <1>8, <2>2, CheaperSums DEF IInv
<1>13. RestTypes'
  BY DEF MarkDispatched, IInv, RestTypes, redisVars, historyVars
<1> QED BY <1>7, <1>8, <1>9, <1>10, <1>11, <1>12, <1>13, CheaperStep

\* The pair of attempt a is tried on the grants h1; at1 is where a stands.
Tries(a, n, h1, at1, mine, otherwise) ==
    /\ Local(h1, at1, receipts, n) /\ Within(h1, at1, receipts)
    /\ attempts \in [Attempts -> Attempt]
    /\ attempts[a].step # "idle" /\ EstimateFits(attempts[a])
    /\ at1[a].step \in {"reserve", "refill", "installed"} /\ at1[a].proc = attempts[a].proc
    /\ at1[a].policies = attempts[a].policies /\ at1[a].estimate = attempts[a].estimate
    /\ \A b \in Attempts : b # a => at1[b] = attempts[b]
    /\ mine \subseteq GrantIds
    /\ \A g \in mine : h1[g].proc = attempts[a].proc /\ h1[g].sides = Sides(a)
    /\ otherwise \in Attempt /\ otherwise.step \in {"idle", "refill", "ask"}
    /\ AttemptFits(otherwise, n) /\ EstimateFits(otherwise)

\* try_reserve_budget leaves what is open and reserved as it was in total.
LEMMA TryPreserves ==
    ASSUME NEW a \in Attempts, NEW n, NEW h1, NEW at1, NEW mine, NEW otherwise,
           Tries(a, n, h1, at1, mine, otherwise), TryReserve(a, mine, h1, otherwise)
    PROVE  /\ Local(held', attempts', receipts, n) /\ Within(held', attempts', receipts)
           /\ \A l \in Ledgers : ReservedIn(attempts', l) + OpenIn(held', attempts', receipts, l)
                                 <= ReservedIn(at1, l) + OpenIn(h1, at1, receipts, l)
           /\ \A b \in Attempts : b # a => attempts'[b] = attempts[b]
           /\ EstimateFits(attempts'[a])
           /\ \A g \in GrantIds : held'[g].proc = h1[g].proc
                                  /\ held'[g].returning = h1[g].returning
<1> DEFINE fits == {g \in OpenGrants(mine, h1) :
                        h1[g].life # "expired" /\ Covers(g, a, h1[g].remaining)}
           owing == \E l \in Sides(a) : debts'[attempts[a].proc][l] > 0
<1>0. Local(h1, at1, receipts, n) /\ Within(h1, at1, receipts) /\ attempts \in [Attempts -> Attempt]
  BY DEF Tries
<1> USE DEF Tries
<1>1. LocalTypes(h1, at1, receipts, n) /\ at1 \in [Attempts -> Attempt]
      /\ h1 \in [GrantIds -> LocalGrant]
  BY DEF Local, LocalTypes
<1>2. ~Live(at1[a]) /\ at1[a].step # "asking"
  BY DEF Live
<1>3. CASE owing \/ fits = {}
  <2>1. held' = h1 /\ attempts' = [attempts EXCEPT ![a] = otherwise]
    BY <1>3 DEF TryReserve
  <2>2. /\ attempts' \in [Attempts -> Attempt] /\ attempts'[a] = otherwise
        /\ \A b \in Attempts : b # a => attempts'[b] = attempts[b] /\ attempts'[b] = at1[b]
    BY <2>1
  <2>3. ~Live(otherwise) /\ otherwise.step # "asking"
    BY DEF Live
  <2>4. Local(h1, attempts', receipts, n)
    BY <1>2, <2>2, <2>3, QuietStep
  <2>5. /\ Within(h1, attempts', receipts)
        /\ \A l \in Ledgers : ReservedIn(attempts', l) = ReservedIn(at1, l)
               /\ OpenIn(h1, attempts', receipts, l) <= OpenIn(h1, at1, receipts, l)
    BY <1>2, <2>2, <2>3, <2>4, QuietMoney
  <2>6. ASSUME NEW l \in Ledgers
        PROVE  ReservedIn(attempts', l) + OpenIn(h1, attempts', receipts, l)
                 <= ReservedIn(at1, l) + OpenIn(h1, at1, receipts, l)
    <3>1. ReservedIn(at1, l) \in Nat
      BY <1>1, SpendTyped
    <3>2. ReservedIn(attempts', l) <= ReservedIn(at1, l)
          /\ OpenIn(h1, attempts', receipts, l) <= OpenIn(h1, at1, receipts, l)
      BY <2>5, <3>1
    <3> QED BY <2>4, <3>2, CheaperSums
  <2> QED BY <2>1, <2>2, <2>4, <2>5, <2>6
<1>4. CASE ~(owing \/ fits = {})
  <2> DEFINE g == Min(fits)
             R == [l \in Ledgers |-> IF l \in Sides(a) THEN h1[g].remaining[l] - attempts[a].estimate[l]
                                     ELSE h1[g].remaining[l]]
             x == [attempts[a] EXCEPT !.step = "reserved", !.grant = g]
  <2>1. g \in fits /\ g \in GrantIds
    <3>1. fits \subseteq GrantIds
      BY DEF OpenGrants
    <3>2. fits \subseteq Nat
      BY <3>1 DEF GrantIds
    <3> HIDE DEF fits
    <3> QED BY <1>4, <3>1, <3>2, MinOf
  <2>2. /\ held' = [h1 EXCEPT ![g].remaining = R, ![g].inUse = @ + 1]
        /\ attempts' = [attempts EXCEPT ![a].step = "reserved", ![a].grant = g]
    BY <1>4 DEF TryReserve
  <2>3. /\ g \in mine /\ ~h1[g].returning /\ h1[g].proc = attempts[a].proc
        /\ h1[g].sides = Sides(a) /\ \A l \in Sides(a) : h1[g].remaining[l] >= attempts[a].estimate[l]
    BY <2>1 DEF OpenGrants, Covers
  <2> HIDE DEF g, fits, owing
  <2>4. attempts[a] \in Attempt /\ g \in 0 .. MaxGrants /\ g # 0
    BY <2>1 DEF GrantIds
  <2>5. x \in Attempt /\ x.step = "reserved" /\ x.grant = g /\ x.proc = attempts[a].proc
        /\ x.policies = attempts[a].policies /\ x.estimate = attempts[a].estimate
    BY <2>4 DEF Attempt, Steps
  <2>6. /\ attempts' \in [Attempts -> Attempt] /\ attempts'[a] = x
        /\ \A b \in Attempts : b # a => attempts'[b] = attempts[b] /\ attempts'[b] = at1[b]
    <3>1. attempts' = [attempts EXCEPT ![a] = x]
      BY <2>2
    <3> HIDE DEF x
    <3> QED BY <2>5, <3>1
  <2> HIDE DEF x
  <2>7. \A l \in Ledgers : /\ x.estimate[l] \in Nat /\ h1[g].remaining[l] \in Nat
                           /\ l \notin Sides(a) => x.estimate[l] = 0
    <3> SUFFICES ASSUME NEW l \in Ledgers
                 PROVE  /\ x.estimate[l] \in Nat /\ h1[g].remaining[l] \in Nat
                        /\ l \notin Sides(a) => x.estimate[l] = 0
      OBVIOUS
    <3>1. x.estimate[l] \in Nat
      BY <2>5 DEF Attempt, Amounts
    <3>2. h1[g].remaining[l] \in Nat
      BY <1>1, <2>1, OpenTyped
    <3>3. AttemptFits(at1[a], n) /\ at1[a] \in Attempt
      BY <1>1 DEF Local
    <3>4. SidesIn(at1[a]) = Sides(a)
      BY DEF SidesIn, Sides
    <3> QED BY <2>5, <3>1, <3>2, <3>3, <3>4, OffSides
  <2>8. R \in Amounts /\ \A l \in Ledgers : R[l] = h1[g].remaining[l] - x.estimate[l]
    <3>1. \A l \in Ledgers : R[l] = h1[g].remaining[l] - x.estimate[l] /\ R[l] \in Nat
      BY <2>3, <2>5, <2>7
    <3> QED BY <3>1 DEF Amounts
  <2> HIDE DEF R
  <2> DEFINE y == [h1[g] EXCEPT !.remaining = R, !.inUse = @ + 1]
  <2>9. y \in LocalGrant /\ y.proc = h1[g].proc /\ y.sides = h1[g].sides
        /\ y.returning = h1[g].returning /\ y.inUse = h1[g].inUse + 1 /\ y.remaining = R
    <3>1. h1[g] \in LocalGrant /\ h1[g].inUse \in Nat /\ h1[g].inUse + 1 \in Nat
      BY <1>1, <2>1 DEF LocalGrant
    <3> HIDE DEF Amounts
    <3> QED BY <2>8, <3>1 DEF LocalGrant
  <2>10. /\ held' \in [GrantIds -> LocalGrant] /\ held'[g] = y
         /\ \A k \in GrantIds : k # g => held'[k] = h1[k]
    <3>1. held' = [h1 EXCEPT ![g] = y]
      BY <2>2
    <3> HIDE DEF y
    <3> QED BY <1>1, <2>1, <2>9, <3>1
  <2> HIDE DEF y
  <2>11. AttemptFits(x, n)
    <3>1. AttemptFits(at1[a], n)
      BY DEF Local
    <3> QED BY <2>4, <2>5, <3>1 DEF AttemptFits, Live
  <2>12. Live(x) /\ SidesIn(x) = Sides(a) /\ h1[g].proc # "none"
    <3>1. at1[a].proc \in Processes
      BY DEF Local, AttemptFits
    <3> QED BY <2>3, <2>5, <3>1, BudgetAssumption DEF Live, SidesIn, Sides
  <2>13. \A l \in Ledgers : held'[g].remaining[l] <= h1[g].remaining[l]
    BY <2>7, <2>8, <2>9, <2>10
  <2>14. Local(held', attempts', receipts, n)
    BY <1>2, <2>1, <2>3, <2>5, <2>6, <2>9, <2>10, <2>11, <2>12, <2>13, TakeStep
  <2>15. ~receipts[g].returned
    BY <2>1, <2>3, <2>12 DEF Local, GrantFits
  <2>16. \A l \in Ledgers : Spend(at1[a], l) = 0 /\ Spend(attempts'[a], l) = x.estimate[l]
    BY <1>2, <2>6, <2>12 DEF Spend
  <2>17. \A l \in Ledgers : held'[g].remaining[l] + Spend(attempts'[a], l)
                             <= h1[g].remaining[l] + Spend(at1[a], l)
    BY <2>7, <2>8, <2>9, <2>10, <2>16
  <2>18. /\ Within(held', attempts', receipts)
         /\ \A l \in Ledgers :
                /\ ReservedIn(attempts', l) =
                       ReservedIn(at1, l) - Spend(at1[a], l) + Spend(attempts'[a], l)
                /\ OpenIn(held', attempts', receipts, l) =
                       OpenIn(h1, at1, receipts, l) - h1[g].remaining[l] + held'[g].remaining[l]
    <3>1. held'[g].proc = h1[g].proc /\ attempts'[a].grant = g /\ attempts'[a].step # "asking"
      BY <2>5, <2>6, <2>9, <2>10
    <3> QED BY <1>2, <2>1, <2>6, <2>10, <2>12, <2>14, <2>15, <2>17, <3>1, GrantMoney
  <2>19. ASSUME NEW l \in Ledgers
         PROVE  ReservedIn(attempts', l) + OpenIn(held', attempts', receipts, l)
                                 <= ReservedIn(at1, l) + OpenIn(h1, at1, receipts, l)
    <3>1. ReservedIn(at1, l) \in Nat /\ OpenIn(h1, at1, receipts, l) \in Nat
      BY <1>1, SpendTyped, OpenTyped
    <3>2. held'[g].remaining[l] = h1[g].remaining[l] - x.estimate[l]
      BY <2>8, <2>9, <2>10
    <3> QED BY <2>7, <2>16, <2>18, <3>1, <3>2
  <2>20. EstimateFits(attempts'[a])
    BY <2>5, <2>6 DEF EstimateFits
  <2>21. \A k \in GrantIds : held'[k].proc = h1[k].proc /\ held'[k].returning = h1[k].returning
    BY <2>9, <2>10
  <2> QED BY <2>6, <2>14, <2>18, <2>19, <2>20, <2>21
<1> QED BY <1>3, <1>4

\* Each of the three tries of an attempt: debts are paid from the pair first.
LEMMA ReservePreserves ==
    ASSUME NEW a \in Attempts, IInv, Reserve(a) PROVE IInv'
<1> DEFINE p == attempts[a].proc
           mine == GrantsOfPair(a)
           open == OpenGrants(mine, held)
           h1 == PayDebts(p, open)
           other == NextTry(attempts[a])
<1>1. /\ attempts[a].step \in {"reserve", "refill", "installed"}
      /\ debts' = [debts EXCEPT ![p] = DebtAfterPaying(p, open)]
      /\ TryReserve(a, mine, h1, other)
      /\ UNCHANGED <<redisVars, known, returns, closing, granted, historyVars, faults>>
  BY DEF Reserve
<1>2. /\ Local(held, attempts, receipts, granted) /\ RestTypes /\ Within(held, attempts, receipts)
      /\ attempts \in [Attempts -> Attempt] /\ attempts[a] \in Attempt
      /\ LocalTypes(held, attempts, receipts, granted) /\ debts \in [Processes -> Amounts]
  BY DEF IInv, Local, LocalTypes, RestTypes
<1>3. p \in Processes /\ AttemptFits(attempts[a], granted)
  BY <1>1, <1>2 DEF Local, AttemptFits
<1>4. /\ mine \subseteq GrantIds /\ open \subseteq GrantIds
      /\ \A g \in mine : held[g].proc = p /\ held[g].sides = Sides(a)
      /\ \A g \in open : g \in mine /\ ~held[g].returning
  BY DEF GrantsOfPair, OpenGrants
<1>5. \A g \in open : held[g].proc # "none" /\ ~receipts[g].returned
  <2> SUFFICES ASSUME NEW g \in open PROVE held[g].proc # "none" /\ ~receipts[g].returned
    OBVIOUS
  <2>1. held[g].proc # "none"
    BY <1>3, <1>4, BudgetAssumption
  <2> HIDE DEF open, mine, p
  <2> QED BY <1>2, <1>4, <2>1 DEF Local, GrantFits
<1> HIDE DEF mine, open, h1, p
<1>6. /\ h1 \in [GrantIds -> LocalGrant] /\ DebtAfterPaying(p, open) \in Amounts
      /\ \A g \in GrantIds :
            /\ h1[g].proc = held[g].proc /\ h1[g].sides = held[g].sides
            /\ h1[g].inUse = held[g].inUse /\ h1[g].returning = held[g].returning
            /\ h1[g].remaining = RemainingAfterPaying(p, open, g)
            /\ g \notin open => h1[g] = held[g]
            /\ \A l \in Ledgers : h1[g].remaining[l] <= held[g].remaining[l]
  BY <1>2, <1>3, <1>4, PaidTyped DEF h1
<1>7. Local(h1, attempts, receipts, granted)
  <2>1. \A g \in GrantIds : held[g].proc = "none" => h1[g] = held[g]
    BY <1>5, <1>6
  <2> QED BY <1>2, <1>6, <2>1, PaidStep
<1>8. Within(h1, attempts, receipts)
  BY <1>2, <1>6, <1>7, PaidMoney
<1>9. \A l \in Ledgers :
          OpenIn(h1, attempts, receipts, l) - OpenIn(held, attempts, receipts, l)
               = DebtAfterPaying(p, open)[l] - debts[p][l]
  BY <1>2, <1>3, <1>4, <1>5, <1>6, <1>7, PaidBalance
<1>10. EstimateFits(attempts[a])
  BY DEF IInv
<1>11. /\ other \in Attempt /\ other.step \in {"idle", "refill", "ask"}
       /\ AttemptFits(other, granted) /\ EstimateFits(other)
  <2>1. CASE attempts[a].step = "installed"
    <3>1. other = NoAttempt
      BY <2>1 DEF NextTry
    <3>2. NoAttempt \in Attempt /\ NoAttempt.step = "idle" /\ AttemptFits(NoAttempt, granted)
          /\ EstimateFits(NoAttempt)
      BY NoneTyped, IdleFits DEF NoAttempt, EstimateFits
    <3> QED BY <3>1, <3>2
  <2>2. CASE attempts[a].step # "installed"
    <3>1. \E st \in {"refill", "ask"} : other = [attempts[a] EXCEPT !.step = st]
      BY <1>1, <2>2 DEF NextTry
    <3>2. /\ other \in Attempt /\ other.step \in {"refill", "ask"}
          /\ other.proc = attempts[a].proc /\ other.grant = attempts[a].grant
          /\ other.policies = attempts[a].policies /\ other.estimate = attempts[a].estimate
          /\ other.reply = attempts[a].reply
      <4> HIDE DEF other
      <4> QED BY <1>2, <3>1 DEF Attempt, Steps
    <3> HIDE DEF other
    <3> QED BY <1>1, <1>3, <1>10, <3>2 DEF AttemptFits, EstimateFits, Live
  <2> QED BY <2>1, <2>2
<1> HIDE DEF other
<1>12. /\ Local(held', attempts', receipts, granted) /\ Within(held', attempts', receipts)
       /\ \A l \in Ledgers : ReservedIn(attempts', l) + OpenIn(held', attempts', receipts, l)
                             <= ReservedIn(attempts, l) + OpenIn(h1, attempts, receipts, l)
       /\ \A b \in Attempts : b # a => attempts'[b] = attempts[b]
       /\ EstimateFits(attempts'[a])
       /\ \A g \in GrantIds : held'[g].proc = h1[g].proc /\ held'[g].returning = h1[g].returning
  <2>1. \A g \in mine : h1[g].proc = attempts[a].proc /\ h1[g].sides = Sides(a)
    BY <1>4, <1>6 DEF p
  <2>2. attempts[a].step # "idle"
    BY <1>1
  <2>3. Tries(a, granted, h1, attempts, mine, other)
    BY <1>1, <1>2, <1>4, <1>7, <1>8, <1>10, <1>11, <2>1, <2>2 DEF Tries
  <2> QED BY <1>1, <2>3, TryPreserves
<1>13. granted' = granted /\ returns' = returns /\ spent' = spent /\ forgotten' = forgotten
       /\ UNCHANGED redisVars
  BY <1>1 DEF historyVars
<1>14. debts' \in [Processes -> Amounts] /\ debts'[p] = DebtAfterPaying(p, open)
       /\ \A q \in Processes : q # p => debts'[q] = debts[q]
  BY <1>1, <1>2, <1>3, <1>6
<1>15. RestTypes'
  BY <1>1, <1>2, <1>14 DEF RestTypes, redisVars, historyVars
<1>16. ReturnsFit(held', returns')
  <2>1. \A g \in GrantIds : held'[g].proc = held[g].proc /\ held'[g].returning = held[g].returning
    BY <1>6, <1>12
  <2> QED BY <1>13, <2>1 DEF IInv, ReturnsFit
<1>17. \A b \in Attempts : EstimateFits(attempts'[b])
  BY <1>12 DEF IInv
<1>18. ASSUME NEW l \in Ledgers
       PROVE  (spent'[l] - spent[l]) + (ReservedIn(attempts', l) - ReservedIn(attempts, l))
                   + (OpenIn(held', attempts', receipts, l) - OpenIn(held, attempts, receipts, l))
               <= (Owed(debts', l) - Owed(debts, l)) + (forgotten'[l] - forgotten[l])
  <2>1. LocalTypes(held', attempts', receipts, granted) /\ LocalTypes(h1, attempts, receipts, granted)
    BY <1>7, <1>12 DEF Local
  <2>2. /\ spent[l] \in Nat /\ forgotten[l] \in Nat /\ Owed(debts, l) \in Nat
        /\ ReservedIn(attempts, l) \in Nat /\ OpenIn(held, attempts, receipts, l) \in Nat
    BY <1>2, LedgerTyped DEF RestTypes
  <2>3. /\ ReservedIn(attempts', l) \in Nat /\ OpenIn(held', attempts', receipts, l) \in Nat
        /\ OpenIn(h1, attempts, receipts, l) \in Nat
    BY <1>2, <2>1, LedgerTyped, OpenTyped DEF RestTypes
  <2>4. Owed(debts', l) = Owed(debts, l) - debts[p][l] + debts'[p][l]
    BY <1>2, <1>3, <1>14, OwedChange
  <2>5. debts[p][l] \in Nat /\ debts'[p][l] \in Nat
    BY <1>2, <1>3, <1>14, OwedTyped
  <2>6. OpenIn(h1, attempts, receipts, l) - OpenIn(held, attempts, receipts, l)
               = debts'[p][l] - debts[p][l]
    BY <1>9, <1>14
  <2>7. ReservedIn(attempts', l) + OpenIn(held', attempts', receipts, l)
            <= ReservedIn(attempts, l) + OpenIn(h1, attempts, receipts, l)
    BY <1>12
  <2>8. spent'[l] - spent[l] = 0 /\ forgotten'[l] - forgotten[l] = 0
    BY <1>13, <2>2
  <2> QED BY <2>2, <2>3, <2>4, <2>5, <2>6, <2>7, <2>8
<1>19. Local(held', attempts', receipts, granted')
  BY <1>12, <1>13
<1> QED BY <1>12, <1>13, <1>15, <1>16, <1>17, <1>18, <1>19, ProcessStep

LEMMA AskGrantPreserves ==
    ASSUME NEW a \in Attempts, IInv, AskGrant(a) PROVE IInv'
<1> DEFINE y == [NotHeld EXCEPT !.sides = Sides(a), !.generation = attempts[a].generation]
           x == [attempts[a] EXCEPT !.step = "asking", !.grant = granted + 1]
<1>1. /\ Local(held, attempts, receipts, granted) /\ attempts \in [Attempts -> Attempt]
      /\ held \in [GrantIds -> LocalGrant] /\ attempts[a] \in Attempt /\ granted \in 0 .. MaxGrants
  BY DEF IInv, Local, LocalTypes
<1>2. /\ attempts[a].step = "ask" /\ granted < MaxGrants /\ granted' = granted + 1
      /\ attempts' = [attempts EXCEPT ![a] = x] /\ held' = [held EXCEPT ![granted + 1] = y]
      /\ UNCHANGED <<redisVars, known, debts, returns, closing, historyVars, faults>>
  BY DEF AskGrant
<1>3. granted + 1 \in GrantIds /\ granted + 1 \in 0 .. MaxGrants /\ granted \in Nat
  BY <1>1, <1>2, BudgetAssumption DEF GrantIds
<1>4. AttemptFits(attempts[a], granted)
  BY <1>1 DEF Local
<1>5. /\ x \in Attempt /\ x.step = "asking" /\ x.grant = granted + 1 /\ x.reply = "none"
      /\ x.proc = attempts[a].proc /\ x.policies = attempts[a].policies
      /\ x.estimate = attempts[a].estimate
  <2>1. attempts[a].reply = "none"
    BY <1>2, <1>4 DEF AttemptFits
  <2> QED BY <1>1, <1>3, <2>1 DEF Attempt, Steps
<1>6. /\ y \in LocalGrant /\ y.proc = "none" /\ y.sides = SidesIn(attempts[a])
      /\ y.remaining = Zero /\ ~y.returning /\ y.inUse = 0
  <2>1. Sides(a) \subseteq Ledgers /\ attempts[a].generation \in Amounts
    BY <1>1 DEF Sides, SidesOf, Attempt
  <2>2. /\ NotHeld \in LocalGrant /\ NotHeld.proc = "none" /\ NotHeld.remaining = Zero
        /\ ~NotHeld.returning /\ NotHeld.inUse = 0
    BY NoneTyped DEF NotHeld
  <2>3. y \in LocalGrant /\ y.proc = NotHeld.proc /\ y.sides = Sides(a)
        /\ y.remaining = NotHeld.remaining /\ y.inUse = NotHeld.inUse
    BY <2>1, <2>2 DEF LocalGrant
  <2>4. y.returning = NotHeld.returning
    BY <2>1, <2>2 DEF LocalGrant
  <2> QED BY <2>2, <2>3, <2>4 DEF SidesIn, Sides
<1> HIDE DEF x, y
<1>7. /\ attempts' \in [Attempts -> Attempt] /\ attempts'[a] = x
      /\ \A b \in Attempts : b # a => attempts'[b] = attempts[b]
      /\ held' \in [GrantIds -> LocalGrant] /\ held'[granted + 1] = y
      /\ \A k \in GrantIds : k # granted + 1 => held'[k] = held[k]
  BY <1>1, <1>2, <1>3, <1>5, <1>6
<1>8. Local(held', attempts', receipts, granted + 1)
  <2>1. /\ attempts[a].step = "ask" /\ granted < MaxGrants
        /\ attempts'[a].step = "asking" /\ attempts'[a].grant = granted + 1
        /\ attempts'[a].reply = "none" /\ attempts'[a].proc = attempts[a].proc
        /\ attempts'[a].policies = attempts[a].policies
        /\ attempts'[a].estimate = attempts[a].estimate
    BY <1>2, <1>5, <1>7
  <2>2. /\ held'[granted + 1].proc = "none" /\ held'[granted + 1].sides = SidesIn(attempts[a])
        /\ held'[granted + 1].remaining = Zero /\ ~held'[granted + 1].returning
        /\ held'[granted + 1].inUse = 0
    BY <1>6, <1>7
  <2>3. /\ \A b \in Attempts : b # a => attempts'[b] = attempts[b]
        /\ \A k \in GrantIds : k # granted + 1 => held'[k] = held[k]
        /\ held' \in [GrantIds -> LocalGrant] /\ attempts' \in [Attempts -> Attempt]
        /\ Local(held, attempts, receipts, granted)
    BY <1>1, <1>7
  <2> QED BY ONLY <2>1, <2>2, <2>3, AskStep
<1>9. held[granted + 1] = NotHeld
  <2>1. granted + 1 > granted
    BY <1>3
  <2> QED BY <1>1, <1>3, <2>1 DEF Local, GrantFits
<1>10. \A k \in GrantIds : held'[k].proc = held[k].proc /\ held'[k].remaining = held[k].remaining
                           /\ held'[k].returning = held[k].returning
  <2>1. NotHeld.proc = "none" /\ NotHeld.remaining = Zero /\ NotHeld.returning = FALSE
    BY DEF NotHeld
  <2>2. y.returning = FALSE
    BY DEF y, NotHeld
  <2> QED BY <1>6, <1>7, <1>9, <2>1, <2>2
<1>11. ~Live(attempts[a]) /\ ~Live(attempts'[a])
  BY <1>2, <1>5, <1>7 DEF Live
<1>12. /\ Within(held', attempts', receipts)
       /\ \A l \in Ledgers : ReservedIn(attempts', l) = ReservedIn(attempts, l)
             /\ OpenIn(held', attempts', receipts, l) <= OpenIn(held, attempts, receipts, l)
  <2>1. attempts[a].step # "asking" /\ attempts'[a].reply # "granted" /\ Within(held, attempts, receipts)
    BY <1>2, <1>5, <1>7 DEF IInv
  <2> QED BY <1>1, <1>7, <1>8, <1>10, <1>11, <2>1, AskMoney
<1>13. ASSUME NEW l \in Ledgers
       PROVE  ReservedIn(attempts', l) + OpenIn(held', attempts', receipts, l)
                 <= ReservedIn(attempts, l) + OpenIn(held, attempts, receipts, l)
  <2>1. ReservedIn(attempts, l) \in Nat
    BY <1>1, SpendTyped
  <2>2. ReservedIn(attempts', l) <= ReservedIn(attempts, l)
        /\ OpenIn(held', attempts', receipts, l) <= OpenIn(held, attempts, receipts, l)
    BY <1>12, <2>1
  <2> QED BY <1>1, <1>8, <2>2, CheaperSums
<1>14. RestTypes'
  BY <1>2 DEF IInv, RestTypes, redisVars, historyVars
<1>15. ReturnsFit(held', returns')
  BY <1>2, <1>10 DEF IInv, ReturnsFit
<1>16. \A b \in Attempts : EstimateFits(attempts'[b])
  <2>1. EstimateFits(x)
    BY <1>2, <1>5 DEF IInv, EstimateFits
  <2> QED BY <1>7, <2>1 DEF IInv
<1>17. UNCHANGED <<redisVars, debts, spent, forgotten>>
  BY <1>2 DEF historyVars
<1>18. Local(held', attempts', receipts, granted')
  BY <1>2, <1>8
<1> QED BY <1>12, <1>13, <1>14, <1>15, <1>16, <1>17, <1>18, CheaperStep

LEMMA GrantedChange ==
    ASSUME NEW rc \in [GrantIds -> Receipt], NEW rc2 \in [GrantIds -> Receipt], NEW g \in GrantIds,
           \A k \in GrantIds : k # g => rc2[k] = rc[k], NEW l \in Ledgers
    PROVE  /\ GrantedIn(rc2, l) = GrantedIn(rc, l) - (rc[g].amount[l] - rc[g].credit[l])
                                     + (rc2[g].amount[l] - rc2[g].credit[l])
           /\ GrantedIn(rc, l) \in Int
<1> DEFINE f == [k \in GrantIds |-> rc[k].amount[l] - rc[k].credit[l]]
           f2 == [k \in GrantIds |-> rc2[k].amount[l] - rc2[k].credit[l]]
<1>1. \A k \in GrantIds : f[k] \in Int /\ f2[k] \in Int
  BY DEF Receipt, Amounts
<1>2. /\ f[g] = rc[g].amount[l] - rc[g].credit[l] /\ f2[g] = rc2[g].amount[l] - rc2[g].credit[l]
      /\ \A k \in GrantIds : k # g => f2[k] = f[k]
  OBVIOUS
<1> HIDE DEF f, f2
<1>3. Sum(f2, GrantIds) = Sum(f, GrantIds) - f[g] + f2[g] /\ Sum(f, GrantIds) \in Int
  BY <1>1, <1>2, FiniteIds, SumChange, SumElement
<1> QED BY <1>2, <1>3 DEF f, f2, GrantedIn

\* BUDGET_GRANT charges every side or none.
LEMMA RedisGrantPreserves ==
    ASSUME NEW a \in Attempts, IInv, RedisGrant(a) PROVE IInv'
<1> DEFINE g == attempts[a].grant
           amount == GrantAmount(a)
           all == \A l \in Sides(a) : SideAllows(l, held[g].generation[l], amount[l])
           r == [present |-> TRUE, returned |-> FALSE, amount |-> amount, credit |-> Zero]
           reply == IF all THEN "granted" ELSE "denied"
           x == [attempts[a] EXCEPT !.reply = reply]
<1>1. /\ Local(held, attempts, receipts, granted) /\ attempts \in [Attempts -> Attempt]
      /\ LocalTypes(held, attempts, receipts, granted)
      /\ receipts \in [GrantIds -> Receipt] /\ attempts[a] \in Attempt /\ granted \in 0 .. MaxGrants
      /\ RestTypes /\ charged \in Amounts
  BY DEF IInv, Local, LocalTypes, RestTypes
<1>2. /\ attempts[a].step = "asking" /\ attempts[a].reply = "none"
      /\ attempts' = [attempts EXCEPT ![a] = x]
      /\ UNCHANGED <<recovery, known, held, debts, returns, closing, granted, historyVars, faults>>
  BY DEF RedisGrant
<1>3. /\ all => /\ charged' = [l \in Ledgers |-> charged[l] + amount[l]]
                /\ receipts' = [receipts EXCEPT ![g] = r]
      /\ ~all => charged' = charged /\ receipts' = receipts
  BY DEF RedisGrant
<1>4. AttemptFits(attempts[a], granted) /\ g \in 1 .. granted /\ g \in GrantIds
      /\ Asks(attempts, a, g) /\ AskedFits(attempts[a], held[g], receipts[g])
  <2>1. AttemptFits(attempts[a], granted) /\ g \in 1 .. granted
    BY <1>1, <1>2 DEF Local, AttemptFits
  <2>2. g \in GrantIds /\ Asks(attempts, a, g)
    BY <1>1, <1>2, <2>1, BudgetAssumption DEF GrantIds, Asks
  <2> QED BY <1>1, <2>1, <2>2 DEF Local
<1>5. /\ amount \in Amounts /\ \A l \in Ledgers : l \notin SidesIn(attempts[a]) => amount[l] = 0
  <2>1. SidesIn(attempts[a]) = Sides(a)
    BY DEF SidesIn, Sides
  <2>2. \A l \in Ledgers : attempts[a].estimate[l] \in Nat /\ Slice[l] \in Nat
    BY <1>1, BudgetAssumption DEF Attempt, Amounts
  <2>3. \A l \in Ledgers : amount[l] \in Nat /\ (l \notin Sides(a) => amount[l] = 0)
    BY <2>2 DEF GrantAmount, Greatest
  <2>4. amount = [l \in Ledgers |-> amount[l]]
    BY DEF GrantAmount
  <2> HIDE DEF amount
  <2> QED BY <2>1, <2>3, <2>4 DEF Amounts
<1>6. ASSUME all, NEW l \in Ledgers PROVE charged[l] + amount[l] <= Limit[l]
  <2>1. CASE l \in Sides(a)
    BY <1>6, <2>1 DEF SideAllows
  <2>2. CASE l \notin Sides(a)
    <3>1. charged[l] <= Limit[l] /\ charged[l] \in Nat
      BY <1>1 DEF IInv, Accounts, Amounts
    <3>2. amount[l] = 0
      BY <1>5, <2>2 DEF SidesIn, Sides
    <3> QED BY <3>1, <3>2
  <2> QED BY <2>1, <2>2
<1>7. /\ x \in Attempt /\ x.step = "asking" /\ x.grant = g /\ x.reply = reply
      /\ x.proc = attempts[a].proc /\ x.policies = attempts[a].policies
      /\ x.estimate = attempts[a].estimate
  <2>1. reply \in {"granted", "denied"}
    OBVIOUS
  <2> HIDE DEF reply
  <2> QED BY <1>1, <1>2, <2>1 DEF Attempt, Steps
<1>8. r \in Receipt /\ r.present /\ ~r.returned /\ r.amount = amount /\ r.credit = Zero
  <2> HIDE DEF amount
  <2> QED BY <1>5, ZeroTyped DEF Receipt
<1>9. reply # "none" /\ (reply = "granted" <=> all)
  OBVIOUS
<1> HIDE DEF x, r, all, reply
<1>10. /\ attempts' \in [Attempts -> Attempt] /\ attempts'[a] = x
       /\ \A b \in Attempts : b # a => attempts'[b] = attempts[b]
  BY <1>1, <1>2, <1>7
<1>11. /\ receipts' \in [GrantIds -> Receipt]
       /\ \A k \in GrantIds : k # g => receipts'[k] = receipts[k]
       /\ all => receipts'[g] = r
       /\ ~all => receipts'[g] = receipts[g]
  BY <1>1, <1>3, <1>4, <1>8
<1> HIDE DEF g
<1>12. ReceiptFits(g, r, granted)
  <2>1. ~(g > granted)
    BY <1>1, <1>4
  <2>2. \A l \in Ledgers : Zero[l] <= amount[l]
    <3> HIDE DEF amount
    <3> QED BY <1>5 DEF Zero, Amounts
  <2> QED BY <1>8, <2>1, <2>2 DEF ReceiptFits
<1>13. Local(held, attempts', receipts', granted)
  <2>1. receipts'[g] = receipts[g] \/ ReceiptFits(g, receipts'[g], granted)
    BY <1>11, <1>12
  <2>2. x.reply = "granted" =>
               /\ receipts'[g].present /\ ~receipts'[g].returned
               /\ \A l \in Ledgers : l \notin SidesIn(attempts[a]) => receipts'[g].amount[l] = 0
    <3> HIDE DEF amount
    <3> QED BY <1>5, <1>7, <1>8, <1>9, <1>11
  <2> QED BY <1>1, <1>4, <1>7, <1>9, <1>10, <1>11, <2>1, <2>2, AnswerStep
<1>14. /\ Within(held, attempts', receipts')
       /\ \A l \in Ledgers :
                 /\ ReservedIn(attempts', l) = ReservedIn(attempts, l)
                 /\ OpenIn(held, attempts', receipts', l)
                        <= OpenIn(held, attempts, receipts, l) + receipts'[g].amount[l]
  <2>1. Within(held, attempts, receipts)
    BY DEF IInv
  <2>2. attempts'[a].step = "asking" /\ attempts'[a].grant = g /\ attempts[a].reply = "none"
    BY <1>2, <1>7, <1>10
  <2> QED BY <1>1, <1>4, <1>10, <1>11, <1>13, <2>1, <2>2, AnswerMoney
<1>15. receipts[g] = NoReceipt
  BY <1>2, <1>4 DEF AskedFits
<1>16. \A l \in Ledgers : /\ charged[l] \in Nat /\ amount[l] \in Nat
                          /\ receipts[g].amount[l] = 0 /\ receipts[g].credit[l] = 0
  <2> HIDE DEF amount
  <2> QED BY <1>1, <1>5, <1>15 DEF NoReceipt, Zero, Amounts
<1>17. \A l \in Ledgers : charged'[l] = charged[l] + (receipts'[g].amount[l] - receipts'[g].credit[l])
  <2>1. CASE all
    <3> HIDE DEF amount
    <3> QED BY <1>3, <1>8, <1>11, <1>16, <2>1 DEF Zero
  <2>2. CASE ~all
    BY <1>3, <1>11, <1>16, <2>2
  <2> QED BY <2>1, <2>2
<1>18. charged' \in Amounts /\ \A l \in Ledgers : charged'[l] <= Limit[l]
  <2>1. CASE all
    <3>1. \A l \in Ledgers : charged[l] + amount[l] \in Nat
      BY <1>16
    <3> HIDE DEF amount
    <3> QED BY <1>3, <1>6, <2>1, <3>1 DEF Amounts
  <2>2. CASE ~all
    BY <1>1, <1>3, <2>2 DEF IInv, Accounts
  <2> QED BY <2>1, <2>2
<1>19. recovery = Zero => Charged(receipts', charged')
  <2> SUFFICES ASSUME recovery = Zero, NEW l \in Ledgers PROVE charged'[l] = GrantedIn(receipts', l)
    BY DEF Charged
  <2>1. charged[l] = GrantedIn(receipts, l)
    BY DEF IInv, Accounts, Charged
  <2>2. /\ GrantedIn(receipts', l) = GrantedIn(receipts, l)
                - (receipts[g].amount[l] - receipts[g].credit[l])
                + (receipts'[g].amount[l] - receipts'[g].credit[l])
        /\ GrantedIn(receipts, l) \in Int
    BY <1>1, <1>4, <1>11, GrantedChange
  <2>3. receipts'[g].amount[l] \in Nat /\ receipts'[g].credit[l] \in Nat
    BY <1>4, <1>11 DEF Receipt, Amounts
  <2> QED BY <1>16, <1>17, <2>1, <2>2, <2>3
<1>20. ASSUME recovery = Zero, 0 \notin Estimates
       PROVE  Covered(held, attempts', receipts', debts, charged', spent, forgotten)
  <2>1. Covered(held, attempts, receipts, debts, charged, spent, forgotten)
    BY <1>20 DEF IInv, Accounts
  <2>2. LocalTypes(held, attempts', receipts', granted)
    BY <1>13 DEF Local
  <2>3. ASSUME NEW l \in Ledgers
        PROVE  (spent[l] - spent[l]) + (ReservedIn(attempts', l) - ReservedIn(attempts, l))
                   + (OpenIn(held, attempts', receipts', l) - OpenIn(held, attempts, receipts, l))
               <= (charged'[l] - charged[l]) + (Owed(debts, l) - Owed(debts, l))
                   + (forgotten[l] - forgotten[l])
    <3>1. /\ spent[l] \in Nat /\ charged[l] \in Nat /\ forgotten[l] \in Nat /\ Owed(debts, l) \in Nat
          /\ ReservedIn(attempts, l) \in Nat /\ OpenIn(held, attempts, receipts, l) \in Nat
      BY <1>1, LedgerTyped DEF RestTypes
    <3>2. ReservedIn(attempts', l) \in Nat /\ OpenIn(held, attempts', receipts', l) \in Nat
      BY <1>1, <2>2, LedgerTyped DEF RestTypes
    <3>3. receipts'[g].amount[l] \in Nat /\ receipts'[g].credit[l] \in Nat
      BY <1>4, <1>11 DEF Receipt, Amounts
    <3>4. receipts'[g].credit[l] = 0
      BY <1>8, <1>11, <1>16 DEF Zero
    <3>5. ReservedIn(attempts', l) = ReservedIn(attempts, l)
          /\ OpenIn(held, attempts', receipts', l)
                        <= OpenIn(held, attempts, receipts, l) + receipts'[g].amount[l]
      BY <1>14
    <3>6. charged'[l] = charged[l] + (receipts'[g].amount[l] - receipts'[g].credit[l])
      BY <1>17
    <3> QED BY <3>1, <3>2, <3>3, <3>4, <3>5, <3>6
  <2>4. /\ debts \in [Processes -> Amounts] /\ charged \in Amounts /\ spent \in Amounts
        /\ forgotten \in Amounts
    BY <1>1 DEF RestTypes
  <2> QED BY <1>1, <1>18, <2>1, <2>2, <2>3, <2>4, CoverFrom
<1>21. Accounts(held, attempts', receipts', debts, charged', recovery, spent, forgotten)
  BY <1>18, <1>19, <1>20 DEF Accounts
<1>22. RestTypes'
  BY <1>1, <1>2, <1>18 DEF RestTypes, historyVars
<1>23. \A b \in Attempts : EstimateFits(attempts'[b])
  <2>1. EstimateFits(x)
    BY <1>2, <1>7 DEF IInv, EstimateFits
  <2> QED BY <1>10, <2>1 DEF IInv
<1>24. held' = held /\ granted' = granted /\ returns' = returns /\ debts' = debts
       /\ recovery' = recovery /\ spent' = spent /\ forgotten' = forgotten
  BY <1>2 DEF historyVars
<1>25. ReturnsFit(held', returns')
  BY <1>24 DEF IInv
<1> QED BY <1>13, <1>14, <1>21, <1>22, <1>23, <1>24, <1>25 DEF IInv

\* install_budget_grant: the new grant is held, and its share of the debt is paid.
LEMMA InstallGrantPreserves ==
    ASSUME NEW a \in Attempts, IInv, InstallGrant(a) PROVE IInv'
<1> DEFINE p == attempts[a].proc
           g == attempts[a].grant
           rest == [l \in Ledgers |-> Positive(receipts[g].amount[l] -
                                         (IF l \in Sides(a) THEN debts[p][l] ELSE 0))]
           y == [held[g] EXCEPT !.proc = p, !.life = "fresh", !.remaining = rest]
           h1 == [held EXCEPT ![g] = y]
           x == [attempts[a] EXCEPT !.step = "installed", !.grant = 0, !.reply = "none"]
           at1 == [attempts EXCEPT ![a] = x]
           left == [l \in Ledgers |-> IF l \in Sides(a)
                                      THEN Positive(debts[p][l] - receipts[g].amount[l])
                                      ELSE debts[p][l]]
<1>1. /\ attempts[a].step = "asking" /\ attempts[a].reply = "granted"
      /\ debts' = [debts EXCEPT ![p] = left]
      /\ held' = h1 /\ attempts' = at1
      /\ UNCHANGED <<redisVars, known, returns, closing, granted, historyVars, faults>>
  BY DEF InstallGrant
<1>2. /\ Local(held, attempts, receipts, granted) /\ RestTypes /\ Within(held, attempts, receipts)
      /\ attempts \in [Attempts -> Attempt] /\ attempts[a] \in Attempt
      /\ held \in [GrantIds -> LocalGrant] /\ receipts \in [GrantIds -> Receipt]
      /\ LocalTypes(held, attempts, receipts, granted) /\ debts \in [Processes -> Amounts]
  BY DEF IInv, Local, LocalTypes, RestTypes
<1>3. /\ p \in Processes /\ AttemptFits(attempts[a], granted) /\ g \in GrantIds
      /\ Asks(attempts, a, g) /\ AskedFits(attempts[a], held[g], receipts[g])
  <2>1. p \in Processes /\ AttemptFits(attempts[a], granted) /\ g \in 1 .. granted
    BY <1>1, <1>2 DEF Local, AttemptFits
  <2>2. g \in GrantIds /\ Asks(attempts, a, g)
    BY <1>1, <1>2, <2>1, BudgetAssumption DEF GrantIds, Asks, LocalTypes
  <2> QED BY <1>2, <2>1, <2>2 DEF Local
<1>4. /\ held[g].proc = "none" /\ held[g].sides = Sides(a) /\ ~held[g].returning
      /\ \A l \in Ledgers : l \notin Sides(a) => receipts[g].amount[l] = 0
  <2>1. GrantFits(g, held[g], receipts[g], granted)
    BY <1>2, <1>3 DEF Local
  <2> HIDE DEF g
  <2> QED BY <1>1, <1>3, <2>1 DEF AskedFits, GrantFits, SidesIn, Sides
<1>5. \A l \in Ledgers : receipts[g].amount[l] \in Nat /\ debts[p][l] \in Nat
  <2> HIDE DEF g, p
  <2> QED BY <1>2, <1>3 DEF Receipt, Amounts
<1>6. /\ rest \in Amounts /\ left \in Amounts
      /\ \A l \in Ledgers : /\ rest[l] <= receipts[g].amount[l]
                            /\ rest[l] - receipts[g].amount[l] = left[l] - debts[p][l]
  <2>1. ASSUME NEW l \in Ledgers
        PROVE  /\ rest[l] \in Nat /\ left[l] \in Nat /\ rest[l] <= receipts[g].amount[l]
               /\ rest[l] - receipts[g].amount[l] = left[l] - debts[p][l]
    <3>1. receipts[g].amount[l] \in Nat /\ debts[p][l] \in Nat
      BY <1>5
    <3>2. l \notin Sides(a) => receipts[g].amount[l] = 0
      BY <1>4
    <3>3. /\ rest[l] = Positive(receipts[g].amount[l] - (IF l \in Sides(a) THEN debts[p][l] ELSE 0))
          /\ left[l] = IF l \in Sides(a) THEN Positive(debts[p][l] - receipts[g].amount[l])
                       ELSE debts[p][l]
      OBVIOUS
    <3> HIDE DEF rest, left, p, g
    <3> QED BY <3>1, <3>2, <3>3 DEF Positive
  <2>2. rest = [l \in Ledgers |-> rest[l]] /\ left = [l \in Ledgers |-> left[l]]
    OBVIOUS
  <2> HIDE DEF rest, left
  <2> QED BY <2>1, <2>2 DEF Amounts
<1> HIDE DEF rest, left
<1>7. /\ y \in LocalGrant /\ y.proc = p /\ y.sides = held[g].sides /\ y.inUse = held[g].inUse
      /\ y.remaining = rest /\ y.life = "fresh"
  BY <1>2, <1>3, <1>6 DEF LocalGrant
<1>8. y.returning = held[g].returning
  BY <1>2, <1>3, <1>6 DEF LocalGrant
<1>9. /\ x \in Attempt /\ x.step = "installed" /\ x.grant = 0 /\ x.reply = "none"
      /\ x.proc = attempts[a].proc /\ x.policies = attempts[a].policies
      /\ x.estimate = attempts[a].estimate
  <2>1. 0 \in 0 .. MaxGrants
    BY BudgetAssumption
  <2> QED BY <1>2, <2>1 DEF Attempt, Steps
<1>10. AttemptFits(x, granted)
  <2> HIDE DEF x
  <2> QED BY <1>1, <1>3, <1>9 DEF AttemptFits, Live
<1> HIDE DEF x, y
<1>11. /\ at1 \in [Attempts -> Attempt] /\ at1[a] = x
       /\ \A b \in Attempts : b # a => at1[b] = attempts[b]
       /\ h1 \in [GrantIds -> LocalGrant] /\ h1[g] = y
       /\ \A k \in GrantIds : k # g => h1[k] = held[k]
  BY <1>2, <1>3, <1>7, <1>9
<1> HIDE DEF at1, h1
<1>12. Local(h1, at1, receipts, granted)
  <2>1. /\ attempts[a].reply = "granted" /\ at1[a].step = "installed" /\ AttemptFits(at1[a], granted)
        /\ h1[g].proc \in Processes /\ h1[g].sides = held[g].sides /\ h1[g].inUse = held[g].inUse
        /\ \A l \in Ledgers : h1[g].remaining[l] <= receipts[g].amount[l]
    BY <1>1, <1>3, <1>6, <1>7, <1>9, <1>10, <1>11
  <2> HIDE DEF g
  <2> QED BY ONLY <1>2, <1>3, <1>11, <2>1, HoldStep
<1>13. /\ Within(h1, at1, receipts)
       /\ \A l \in Ledgers :
             /\ ReservedIn(at1, l) = ReservedIn(attempts, l)
             /\ OpenIn(h1, at1, receipts, l) =
                    OpenIn(held, attempts, receipts, l) - receipts[g].amount[l] + h1[g].remaining[l]
  <2>1. /\ attempts[a].reply = "granted" /\ at1[a].step = "installed" /\ h1[g].proc # "none"
        /\ \A l \in Ledgers : h1[g].remaining[l] <= receipts[g].amount[l]
    BY <1>1, <1>3, <1>6, <1>7, <1>9, <1>11, BudgetAssumption
  <2> HIDE DEF g
  <2> QED BY ONLY <1>2, <1>3, <1>11, <1>12, <2>1, HoldMoney
<1>14. held' = h1 /\ attempts' = at1
  BY <1>1
<1>15. granted' = granted /\ returns' = returns /\ spent' = spent /\ forgotten' = forgotten
       /\ UNCHANGED redisVars
  BY <1>1 DEF historyVars
<1>16. debts' \in [Processes -> Amounts] /\ debts'[p] = left
       /\ \A q \in Processes : q # p => debts'[q] = debts[q]
  BY <1>1, <1>2, <1>3, <1>6
<1> HIDE DEF p, g
<1>17. RestTypes'
  BY <1>1, <1>2, <1>16 DEF RestTypes, redisVars, historyVars
<1>18. ReturnsFit(held', returns')
  <2> SUFFICES ASSUME NEW q \in Processes, NEW k \in GrantIds, k \in returns[q]
               PROVE  held'[k].proc = q /\ held'[k].returning
    BY <1>15 DEF ReturnsFit
  <2>1. held[k].proc = q /\ held[k].returning
    BY DEF IInv, ReturnsFit
  <2>2. k # g
    BY <1>4, <2>1
  <2> QED BY <1>11, <1>14, <2>1, <2>2
<1>19. \A b \in Attempts : EstimateFits(attempts'[b])
  <2>1. EstimateFits(attempts[a])
    BY DEF IInv
  <2>2. EstimateFits(x)
    BY <1>1, <1>9, <2>1 DEF EstimateFits
  <2> QED BY <1>11, <1>14, <2>2 DEF IInv
<1>20. ASSUME NEW l \in Ledgers
       PROVE  (spent'[l] - spent[l]) + (ReservedIn(attempts', l) - ReservedIn(attempts, l))
                   + (OpenIn(held', attempts', receipts, l) - OpenIn(held, attempts, receipts, l))
               <= (Owed(debts', l) - Owed(debts, l)) + (forgotten'[l] - forgotten[l])
  <2>1. LocalTypes(held', attempts', receipts, granted) /\ LocalTypes(h1, at1, receipts, granted)
    BY <1>12, <1>14 DEF Local
  <2>2. /\ spent[l] \in Nat /\ forgotten[l] \in Nat /\ Owed(debts, l) \in Nat
        /\ ReservedIn(attempts, l) \in Nat /\ OpenIn(held, attempts, receipts, l) \in Nat
    BY <1>2, LedgerTyped DEF RestTypes
  <2>3. /\ ReservedIn(attempts', l) \in Nat /\ OpenIn(held', attempts', receipts, l) \in Nat
        /\ OpenIn(h1, at1, receipts, l) \in Nat /\ ReservedIn(at1, l) \in Nat
    BY <1>2, <2>1, LedgerTyped DEF RestTypes
  <2>4. Owed(debts', l) = Owed(debts, l) - debts[p][l] + debts'[p][l]
    BY <1>2, <1>3, <1>16, OwedChange
  <2>5. debts[p][l] \in Nat /\ debts'[p][l] \in Nat /\ receipts[g].amount[l] \in Nat
    BY <1>2, <1>3, <1>5, <1>16, OwedTyped
  <2>6. rest[l] - receipts[g].amount[l] = debts'[p][l] - debts[p][l] /\ rest[l] \in Nat
    BY <1>6, <1>16 DEF Amounts
  <2>7. OpenIn(h1, at1, receipts, l) =
            OpenIn(held, attempts, receipts, l) - receipts[g].amount[l] + rest[l]
    BY <1>7, <1>11, <1>13
  <2>8. ReservedIn(attempts', l) + OpenIn(held', attempts', receipts, l)
            <= ReservedIn(attempts, l) + OpenIn(h1, at1, receipts, l)
    BY <1>13, <1>14, <2>3
  <2>9. spent'[l] - spent[l] = 0 /\ forgotten'[l] - forgotten[l] = 0
    BY <1>15, <2>2
  <2> QED BY <2>2, <2>3, <2>4, <2>5, <2>6, <2>7, <2>8, <2>9
<1>21. Local(held', attempts', receipts, granted') /\ Within(held', attempts', receipts)
  BY <1>12, <1>13, <1>14, <1>15
<1> QED BY <1>14, <1>15, <1>17, <1>18, <1>19, <1>20, <1>21, ProcessStep



-----------------------------------------------------------------------------
(* AttemptReservation                                                       *)

\* A reservation of a grant keeps it held and open.
LEMMA Reserves ==
    ASSUME Local(held, attempts, receipts, granted), NEW a \in Attempts, Live(attempts[a]),
           attempts[a].grant # 0
    PROVE  /\ attempts[a].grant \in GrantIds /\ attempts[a].proc \in Processes
           /\ held[attempts[a].grant].proc = attempts[a].proc
           /\ ~held[attempts[a].grant].returning
           /\ held[attempts[a].grant].sides = SidesIn(attempts[a])
           /\ held[attempts[a].grant].inUse \in Nat \ {0}
           /\ ~receipts[attempts[a].grant].returned
<1> DEFINE g == attempts[a].grant
<1>1. /\ attempts[a] \in Attempt /\ held \in [GrantIds -> LocalGrant]
      /\ AttemptFits(attempts[a], granted)
  BY DEF Local, LocalTypes
<1>2. g \in GrantIds
  BY <1>1, BudgetAssumption DEF Attempt, GrantIds
<1>3. attempts[a].proc \in Processes
  BY <1>1 DEF AttemptFits, Live
<1>4. a \in Users(attempts, g)
  BY DEF Users
<1> HIDE DEF g
<1>5. Backed(g, held[g], attempts) /\ GrantFits(g, held[g], receipts[g], granted)
  BY <1>2 DEF Local
<1>6. /\ held[g].proc = attempts[a].proc /\ ~held[g].returning
      /\ held[g].sides = SidesIn(attempts[a]) /\ held[g].inUse = Cardinality(Users(attempts, g))
  BY <1>4, <1>5 DEF Backed
<1>7. Cardinality(Users(attempts, g)) \in Nat \ {0}
  BY <1>4, UsersCount, FS_EmptySet
<1>8. held[g].proc # "none"
  BY <1>3, <1>6, BudgetAssumption
<1>9. ~receipts[g].returned
  BY <1>5, <1>6, <1>8 DEF GrantFits
<1> QED BY <1>2, <1>3, <1>6, <1>7, <1>9 DEF g

\* A reservation ends: its grant gets rest back, its process owes what left adds.
Frees(a, rest, left) ==
    LET g == attempts[a].grant
        p == attempts[a].proc
    IN  /\ Live(attempts[a]) /\ g # 0
        /\ held' = [held EXCEPT ![g].inUse = @ - 1, ![g].remaining = rest]
        /\ attempts' = [attempts EXCEPT ![a] = NoAttempt]
        /\ debts' = [debts EXCEPT ![p] = left]
        /\ rest \in Amounts /\ left \in Amounts /\ spent' \in Amounts
        /\ \A l \in Ledgers :
               /\ rest[l] <= held[g].remaining[l] + attempts[a].estimate[l]
               /\ l \notin SidesIn(attempts[a]) => rest[l] = held[g].remaining[l]
               /\ 0 \notin Estimates =>
                      (spent'[l] - spent[l]) - attempts[a].estimate[l]
                          + (rest[l] - held[g].remaining[l])
                      <= left[l] - debts[p][l]
        /\ UNCHANGED <<redisVars, returns, granted, forgotten>> /\ RestTypes'

LEMMA FreePreserves ==
    ASSUME NEW a \in Attempts, IInv, NEW rest, NEW left, Frees(a, rest, left) PROVE IInv'
<1> DEFINE g == attempts[a].grant
           p == attempts[a].proc
           y == [held[g] EXCEPT !.inUse = @ - 1, !.remaining = rest]
<1>1. /\ Live(attempts[a]) /\ g # 0 /\ held' = [held EXCEPT ![g] = y]
      /\ attempts' = [attempts EXCEPT ![a] = NoAttempt]
      /\ debts' = [debts EXCEPT ![p] = left]
      /\ rest \in Amounts /\ left \in Amounts /\ spent' \in Amounts
      /\ UNCHANGED <<redisVars, returns, granted, forgotten>> /\ RestTypes'
  BY DEF Frees
<1>2. \A l \in Ledgers :
          /\ rest[l] <= held[g].remaining[l] + attempts[a].estimate[l]
          /\ l \notin SidesIn(attempts[a]) => rest[l] = held[g].remaining[l]
          /\ 0 \notin Estimates =>
                 (spent'[l] - spent[l]) - attempts[a].estimate[l] + (rest[l] - held[g].remaining[l])
                 <= left[l] - debts[p][l]
  BY DEF Frees
<1>3. /\ Local(held, attempts, receipts, granted) /\ RestTypes /\ Within(held, attempts, receipts)
      /\ attempts \in [Attempts -> Attempt] /\ attempts[a] \in Attempt
      /\ held \in [GrantIds -> LocalGrant]
      /\ LocalTypes(held, attempts, receipts, granted) /\ debts \in [Processes -> Amounts]
  BY DEF IInv, Local, LocalTypes, RestTypes
<1>4. /\ g \in GrantIds /\ p \in Processes /\ held[g].proc = p /\ ~held[g].returning
      /\ held[g].sides = SidesIn(attempts[a]) /\ held[g].inUse \in Nat \ {0}
      /\ ~receipts[g].returned
  BY <1>1, <1>3, Reserves
<1>5. /\ y \in LocalGrant /\ y.proc = held[g].proc /\ y.sides = held[g].sides
      /\ y.inUse = held[g].inUse - 1 /\ y.remaining = rest
  <2>1. held[g].inUse - 1 \in Nat
    BY <1>4
  <2> QED BY <1>1, <1>3, <1>4, <2>1 DEF LocalGrant
<1>6. y.returning = held[g].returning
  BY <1>3, <1>4 DEF LocalGrant
<1> HIDE DEF y, g, p
<1>7. /\ attempts' \in [Attempts -> Attempt] /\ attempts'[a] = NoAttempt
      /\ \A b \in Attempts : b # a => attempts'[b] = attempts[b]
      /\ held' \in [GrantIds -> LocalGrant] /\ held'[g] = y
      /\ \A k \in GrantIds : k # g => held'[k] = held[k]
  BY <1>1, <1>3, <1>4, <1>5, NoneTyped
<1>8. attempts[a].grant = g
  BY DEF g
<1>9. Local(held', attempts', receipts, granted)
  <2>1. /\ held'[g].proc = held[g].proc /\ held'[g].sides = held[g].sides
        /\ held'[g].returning = held[g].returning /\ held'[g].inUse = held[g].inUse - 1
        /\ \A l \in Ledgers : l \notin held[g].sides => held'[g].remaining[l] = held[g].remaining[l]
    BY <1>2, <1>4, <1>5, <1>6, <1>7 DEF g
  <2>2. /\ Local(held, attempts, receipts, granted) /\ Live(attempts[a])
        /\ attempts' \in [Attempts -> Attempt] /\ held' \in [GrantIds -> LocalGrant]
        /\ \A b \in Attempts : b # a => attempts'[b] = attempts[b]
        /\ \A k \in GrantIds : k # g => held'[k] = held[k]
        /\ attempts'[a] = NoAttempt /\ g \in GrantIds
    BY <1>1, <1>3, <1>4, <1>7
  <2> QED BY ONLY a \in Attempts, <1>8, <2>1, <2>2, FreeStep
<1>10. /\ ~Live(attempts'[a]) /\ attempts'[a].step # "asking"
       /\ attempts[a].step # "asking"
       /\ \A l \in Ledgers : Spend(attempts'[a], l) = 0 /\ Spend(attempts[a], l) = attempts[a].estimate[l]
                             /\ attempts[a].estimate[l] \in Nat
  <2>1. \A l \in Ledgers : attempts[a].estimate[l] \in Nat
    BY <1>3 DEF Attempt, Amounts
  <2>2. ~Live(attempts'[a]) /\ attempts'[a].step # "asking"
    BY <1>7, NoneTyped
  <2>3. attempts[a].step # "asking"
    BY <1>1 DEF Live
  <2> QED BY <1>1, <2>1, <2>2, <2>3 DEF Spend
<1>11. \A l \in Ledgers : held[g].remaining[l] \in Nat /\ rest[l] \in Nat
  BY <1>1, <1>3, <1>4 DEF LocalGrant, Amounts
<1>12. /\ Within(held', attempts', receipts)
       /\ \A l \in Ledgers :
              /\ ReservedIn(attempts', l) = ReservedIn(attempts, l) - Spend(attempts[a], l)
                                              + Spend(attempts'[a], l)
              /\ OpenIn(held', attempts', receipts, l) =
                     OpenIn(held, attempts, receipts, l) - held[g].remaining[l] + held'[g].remaining[l]
  <2>1. \A l \in Ledgers : held'[g].remaining[l] + Spend(attempts'[a], l)
                              <= held[g].remaining[l] + Spend(attempts[a], l)
    BY <1>2, <1>5, <1>7, <1>10, <1>11 DEF g
  <2>2. /\ held'[g].proc = held[g].proc /\ held[g].proc # "none"
        /\ Live(attempts[a]) => attempts[a].grant = g
        /\ Live(attempts'[a]) => attempts'[a].grant = g
        /\ attempts[a].step = "asking" => attempts[a].reply # "granted"
    BY <1>4, <1>5, <1>7, <1>8, <1>10, BudgetAssumption
  <2> QED BY ONLY <1>3, <1>4, <1>7, <1>9, <1>10, <2>1, <2>2, GrantMoney
<1>13. debts' \in [Processes -> Amounts] /\ debts'[p] = left
       /\ \A q \in Processes : q # p => debts'[q] = debts[q]
  BY <1>1, <1>3, <1>4
<1>14. ASSUME NEW l \in Ledgers, 0 \notin Estimates
       PROVE  (spent'[l] - spent[l]) + (ReservedIn(attempts', l) - ReservedIn(attempts, l))
                   + (OpenIn(held', attempts', receipts, l) - OpenIn(held, attempts, receipts, l))
               <= (Owed(debts', l) - Owed(debts, l)) + (forgotten'[l] - forgotten[l])
  <2>1. /\ spent[l] \in Nat /\ forgotten[l] \in Nat /\ Owed(debts, l) \in Nat
        /\ ReservedIn(attempts, l) \in Nat /\ OpenIn(held, attempts, receipts, l) \in Nat
    BY <1>3, LedgerTyped DEF RestTypes
  <2>2. Owed(debts', l) = Owed(debts, l) - debts[p][l] + left[l]
    BY <1>3, <1>4, <1>13, OwedChange
  <2>3. spent'[l] \in Nat /\ debts[p][l] \in Nat /\ left[l] \in Nat
    BY <1>1, <1>3, <1>4, OwedTyped DEF Amounts
  <2>4. (spent'[l] - spent[l]) - attempts[a].estimate[l] + (rest[l] - held[g].remaining[l])
                 <= left[l] - debts[p][l]
    BY <1>2, <1>14
  <2>5. /\ ReservedIn(attempts', l) = ReservedIn(attempts, l) - attempts[a].estimate[l]
        /\ OpenIn(held', attempts', receipts, l)
               = OpenIn(held, attempts, receipts, l) - held[g].remaining[l] + rest[l]
    <3>1. /\ ReservedIn(attempts', l) = ReservedIn(attempts, l) - Spend(attempts[a], l)
                                              + Spend(attempts'[a], l)
          /\ OpenIn(held', attempts', receipts, l) =
                     OpenIn(held, attempts, receipts, l) - held[g].remaining[l] + held'[g].remaining[l]
      BY <1>12
    <3>2. held'[g].remaining[l] = rest[l]
      BY <1>5, <1>7
    <3> QED BY <1>10, <2>1, <3>1, <3>2
  <2>6. forgotten'[l] = forgotten[l] /\ attempts[a].estimate[l] \in Nat
        /\ held[g].remaining[l] \in Nat /\ rest[l] \in Nat
    BY <1>1, <1>10, <1>11
  <2> QED BY <2>1, <2>2, <2>3, <2>4, <2>5, <2>6
<1>15. ReturnsFit(held', returns')
  <2>1. \A k \in GrantIds : held'[k].proc = held[k].proc /\ held'[k].returning = held[k].returning
    BY <1>5, <1>6, <1>7
  <2> QED BY <1>1, <2>1 DEF IInv, ReturnsFit
<1>16. \A b \in Attempts : EstimateFits(attempts'[b])
  <2>1. EstimateFits(NoAttempt)
    BY DEF EstimateFits, NoAttempt
  <2> QED BY <1>7, <2>1 DEF IInv
<1>17. Local(held', attempts', receipts, granted') /\ UNCHANGED redisVars
  BY <1>1, <1>9
<1> QED BY <1>1, <1>12, <1>14, <1>15, <1>16, <1>17, ProcessStep

\* A reservation that needed no grant ends.
LEMMA EndsWithoutGrant ==
    ASSUME NEW a \in Attempts, IInv, attempts[a].grant = 0,
           attempts' = [attempts EXCEPT ![a] = NoAttempt],
           UNCHANGED <<redisVars, held, debts, returns, granted, spent, forgotten>>, RestTypes'
    PROVE  IInv'
<1>1. attempts \in [Attempts -> Attempt]
  BY DEF IInv, Local, LocalTypes
<1>2. /\ attempts' \in [Attempts -> Attempt] /\ attempts'[a] = NoAttempt
      /\ \A b \in Attempts : b # a => attempts'[b] = attempts[b]
  BY <1>1, NoneTyped
<1>3. EstimateFits(NoAttempt)
  BY DEF EstimateFits, NoAttempt
<1> QED BY <1>2, <1>3, NoneTyped, IdleFits, QuietPreserves

\* definitely_not_dispatched gives the estimate back to the grant.
LEMMA ReleasePreserves ==
    ASSUME NEW a \in Attempts, IInv, Release(a) PROVE IInv'
<1> DEFINE g == attempts[a].grant
           p == attempts[a].proc
           rest == [l \in Ledgers |-> held[g].remaining[l]
                                        + (IF l \in Sides(a) THEN attempts[a].estimate[l] ELSE 0)]
<1>1. /\ Live(attempts[a]) /\ Unreserve(a, rest)
      /\ attempts' = [attempts EXCEPT ![a] = NoAttempt]
      /\ UNCHANGED <<redisVars, known, debts, returns, closing, granted, historyVars, faults>>
  BY DEF Release, Live
<1>2. /\ Local(held, attempts, receipts, granted) /\ RestTypes
      /\ attempts \in [Attempts -> Attempt] /\ attempts[a] \in Attempt
      /\ held \in [GrantIds -> LocalGrant] /\ debts \in [Processes -> Amounts]
  BY DEF IInv, Local, LocalTypes, RestTypes
<1>3. RestTypes' /\ spent' = spent /\ forgotten' = forgotten
  BY <1>1, <1>2 DEF RestTypes, redisVars, historyVars
<1>4. CASE g = 0
  <2>1. held' = held
    BY <1>1, <1>4 DEF Unreserve
  <2> QED BY <1>1, <1>3, <1>4, <2>1, EndsWithoutGrant
<1>5. CASE g # 0
  <2>1. g \in GrantIds /\ p \in Processes /\ held[g].proc = p
    BY <1>1, <1>2, <1>5, Reserves
  <2>2. held' = [held EXCEPT ![g].inUse = @ - 1, ![g].remaining = rest]
    BY <1>1, <1>5, <2>1 DEF Unreserve
  <2>3. debts' = [debts EXCEPT ![p] = debts[p]] /\ debts[p] \in Amounts /\ spent' \in Amounts
    BY <1>1, <1>2, <1>3, <2>1 DEF RestTypes
  <2>4. \A l \in Ledgers : /\ held[g].remaining[l] \in Nat /\ attempts[a].estimate[l] \in Nat
                           /\ spent[l] \in Nat /\ debts[p][l] \in Nat
    BY <1>2, <2>1 DEF RestTypes, LocalGrant, Attempt, Amounts
  <2>5. AttemptFits(attempts[a], granted)
    BY <1>2 DEF Local
  <2>6. \A l \in Ledgers : l \notin SidesIn(attempts[a]) => attempts[a].estimate[l] = 0
    BY <1>2, <2>5, OffSides
  <2>7. Sides(a) = SidesIn(attempts[a])
    BY DEF Sides, SidesIn
  <2>8. \A l \in Ledgers : rest[l] = held[g].remaining[l] + attempts[a].estimate[l]
                           /\ rest[l] \in Nat
    BY <2>4, <2>6, <2>7
  <2>9. rest \in Amounts
    BY <2>8 DEF Amounts
  <2> HIDE DEF rest
  <2>10. \A l \in Ledgers :
           /\ rest[l] <= held[g].remaining[l] + attempts[a].estimate[l]
           /\ l \notin SidesIn(attempts[a]) => rest[l] = held[g].remaining[l]
           /\ (spent'[l] - spent[l]) - attempts[a].estimate[l] + (rest[l] - held[g].remaining[l])
                <= debts[p][l] - debts[p][l]
    BY <1>3, <2>4, <2>6, <2>8
  <2>11. Frees(a, rest, debts[p])
    BY <1>1, <1>3, <1>5, <2>2, <2>3, <2>9, <2>10 DEF Frees
  <2> QED BY <2>11, FreePreserves
<1> QED BY <1>4, <1>5

\* A dispatched reservation that is dropped leaves its estimate spent.
LEMMA AbandonPreserves ==
    ASSUME NEW a \in Attempts, IInv, Abandon(a) PROVE IInv'
<1> DEFINE g == attempts[a].grant
           p == attempts[a].proc
           rest == held[g].remaining
<1>1. /\ Live(attempts[a]) /\ Unreserve(a, rest)
      /\ attempts' = [attempts EXCEPT ![a] = NoAttempt]
      /\ UNCHANGED <<redisVars, known, debts, returns, closing, granted, historyVars, faults>>
  BY DEF Abandon, Live
<1>2. /\ Local(held, attempts, receipts, granted) /\ RestTypes
      /\ attempts \in [Attempts -> Attempt] /\ attempts[a] \in Attempt
      /\ held \in [GrantIds -> LocalGrant] /\ debts \in [Processes -> Amounts]
  BY DEF IInv, Local, LocalTypes, RestTypes
<1>3. RestTypes' /\ spent' = spent /\ forgotten' = forgotten
  BY <1>1, <1>2 DEF RestTypes, redisVars, historyVars
<1>4. CASE g = 0
  <2>1. held' = held
    BY <1>1, <1>4 DEF Unreserve
  <2> QED BY <1>1, <1>3, <1>4, <2>1, EndsWithoutGrant
<1>5. CASE g # 0
  <2>1. g \in GrantIds /\ p \in Processes /\ held[g].proc = p
    BY <1>1, <1>2, <1>5, Reserves
  <2>2. held' = [held EXCEPT ![g].inUse = @ - 1, ![g].remaining = rest]
    BY <1>1, <1>5, <2>1 DEF Unreserve
  <2>3. debts' = [debts EXCEPT ![p] = debts[p]] /\ debts[p] \in Amounts /\ spent' \in Amounts
    BY <1>1, <1>2, <1>3, <2>1 DEF RestTypes
  <2>4. \A l \in Ledgers : /\ rest[l] \in Nat /\ attempts[a].estimate[l] \in Nat
                           /\ spent[l] \in Nat /\ debts[p][l] \in Nat
    BY <1>2, <2>1 DEF RestTypes, LocalGrant, Attempt, Amounts
  <2>5. rest \in Amounts
    BY <1>2, <2>1 DEF LocalGrant
  <2>6. \A l \in Ledgers :
           /\ rest[l] <= held[g].remaining[l] + attempts[a].estimate[l]
           /\ l \notin SidesIn(attempts[a]) => rest[l] = held[g].remaining[l]
           /\ (spent'[l] - spent[l]) - attempts[a].estimate[l] + (rest[l] - held[g].remaining[l])
                <= debts[p][l] - debts[p][l]
    BY <1>3, <2>4
  <2>7. Frees(a, rest, debts[p])
    BY <1>1, <1>3, <1>5, <2>2, <2>3, <2>5, <2>6 DEF Frees
  <2> QED BY <2>7, FreePreserves
<1> QED BY <1>4, <1>5

\* Every ledger of an attempt without a grant is estimated at zero.
LEMMA GrantlessIsFree ==
    ASSUME NEW x \in Attempt, NEW n, AttemptFits(x, n), EstimateFits(x), Live(x), x.grant = 0
    PROVE  0 \in Estimates
<1>1. PICK l \in x.policies : x.estimate[l] \in Estimates
  BY DEF EstimateFits, Live
<1>2. l \in Ledgers
  BY <1>1 DEF Attempt
<1>3. x.estimate[l] = 0
  BY <1>2 DEF AttemptFits
<1> QED BY <1>1, <1>3

\* A cost comes from the reservation, then from the rest, then it is owed.
LEMMA SettledOnce ==
    ASSUME NEW rest \in Nat, NEW estimate \in Nat, NEW actual \in Nat
    PROVE  /\ Positive(rest + estimate - actual) \in Nat
           /\ Positive(rest + estimate - actual) <= rest + estimate
           /\ Positive(actual - estimate - rest) \in Nat
           /\ actual - estimate + (Positive(rest + estimate - actual) - rest)
                  = Positive(actual - estimate - rest)
BY DEF Positive

\* settle_actual_cost: what the reservation and the rest do not cover becomes debt.
LEMMA SettlePreserves ==
    ASSUME NEW a \in Attempts, NEW actual \in Actuals, IInv, Settle(a, actual) PROVE IInv'
<1> DEFINE g == attempts[a].grant
           p == attempts[a].proc
           paid == [l \in Ledgers |-> IF l \in attempts[a].policies THEN spent[l] + actual
                                      ELSE spent[l]]
           rest == [l \in Ledgers |->
                       IF l \in Sides(a)
                       THEN Positive(held[g].remaining[l] + attempts[a].estimate[l] - actual)
                       ELSE held[g].remaining[l]]
           left == [l \in Ledgers |-> IF l \in Sides(a) THEN debts[p][l] + Overrun(a, actual, l)
                                      ELSE debts[p][l]]
<1>1. /\ Live(attempts[a]) /\ spent' = paid /\ settled' = settled + 1
      /\ attempts' = [attempts EXCEPT ![a] = NoAttempt]
      /\ g = 0 => UNCHANGED <<held, debts>>
      /\ g # 0 => Unreserve(a, rest) /\ debts' = [debts EXCEPT ![p] = left]
      /\ UNCHANGED <<redisVars, known, returns, closing, granted, forgotten, faults>>
  BY DEF Settle, Live
<1>2. /\ Local(held, attempts, receipts, granted) /\ RestTypes /\ settled \in Nat
      /\ attempts \in [Attempts -> Attempt] /\ attempts[a] \in Attempt
      /\ held \in [GrantIds -> LocalGrant] /\ debts \in [Processes -> Amounts]
      /\ AttemptFits(attempts[a], granted) /\ EstimateFits(attempts[a])
      /\ Within(held, attempts, receipts)
  BY DEF IInv, Local, LocalTypes, RestTypes
<1>3. actual \in Nat /\ \A l \in Ledgers : spent[l] \in Nat /\ attempts[a].estimate[l] \in Nat
  BY <1>2, BudgetAssumption DEF RestTypes, Amounts, Attempt
<1>4. \A l \in Ledgers : /\ paid[l] = IF l \in attempts[a].policies THEN spent[l] + actual ELSE spent[l]
                         /\ paid[l] \in Nat
  BY <1>3
<1>5. paid \in Amounts
  BY <1>4 DEF Amounts
<1> HIDE DEF paid
<1>6. CASE g = 0
  <2>1. 0 \in Estimates
    BY <1>1, <1>2, <1>6, GrantlessIsFree
  <2>2. /\ attempts' \in [Attempts -> Attempt] /\ attempts'[a] = NoAttempt
        /\ \A b \in Attempts : b # a => attempts'[b] = attempts[b]
        /\ ~Live(attempts'[a]) /\ attempts'[a].step # "asking" /\ AttemptFits(attempts'[a], granted)
    BY <1>1, <1>2, NoneTyped, IdleFits
  <2>3. held' = held /\ debts' = debts /\ returns' = returns /\ granted' = granted
        /\ UNCHANGED redisVars
    BY <1>1, <1>6
  <2>4. Local(held', attempts', receipts, granted')
    BY <1>2, <1>6, <2>2, <2>3, QuietStep
  <2>5. Within(held', attempts', receipts)
    BY <1>2, <1>6, <2>2, <2>3, <2>4, QuietMoney
  <2>6. \A b \in Attempts : EstimateFits(attempts'[b])
    <3>1. EstimateFits(NoAttempt)
      BY DEF EstimateFits, NoAttempt
    <3> QED BY <2>2, <3>1 DEF IInv
  <2>7. ReturnsFit(held', returns')
    BY <2>3 DEF IInv
  <2>8. RestTypes'
    BY <1>1, <1>2, <1>5, <2>3 DEF RestTypes, redisVars
  <2> QED BY <2>1, <2>3, <2>4, <2>5, <2>6, <2>7, <2>8, ProcessStep
<1>7. CASE g # 0
  <2>1. g \in GrantIds /\ p \in Processes /\ held[g].proc = p
    BY <1>1, <1>2, <1>7, Reserves
  <2>2. held' = [held EXCEPT ![g].inUse = @ - 1, ![g].remaining = rest]
    BY <1>1, <1>7, <2>1 DEF Unreserve
  <2>3. \A l \in Ledgers : held[g].remaining[l] \in Nat /\ debts[p][l] \in Nat
    BY <1>2, <2>1 DEF RestTypes, LocalGrant, Amounts
  <2>4. \A l \in Ledgers : l \notin SidesIn(attempts[a]) => attempts[a].estimate[l] = 0
    BY <1>2, OffSides
  <2>5. Sides(a) = SidesIn(attempts[a])
    BY DEF Sides, SidesIn
  <2>6. \A l \in Ledgers : Overrun(a, actual, l)
                             = Positive(actual - attempts[a].estimate[l] - held[g].remaining[l])
    BY <2>1 DEF Overrun
  <2>7. ASSUME NEW l \in Ledgers
        PROVE  /\ rest[l] \in Nat /\ left[l] \in Nat
               /\ rest[l] <= held[g].remaining[l] + attempts[a].estimate[l]
               /\ l \notin Sides(a) => rest[l] = held[g].remaining[l] /\ left[l] = debts[p][l]
               /\ l \in Sides(a) => actual - attempts[a].estimate[l] + (rest[l] - held[g].remaining[l])
                                      = left[l] - debts[p][l]
    <3>1. /\ rest[l] = IF l \in Sides(a)
                       THEN Positive(held[g].remaining[l] + attempts[a].estimate[l] - actual)
                       ELSE held[g].remaining[l]
          /\ left[l] = IF l \in Sides(a)
                       THEN debts[p][l] + Positive(actual - attempts[a].estimate[l] - held[g].remaining[l])
                       ELSE debts[p][l]
      BY <2>6
    <3>2. /\ held[g].remaining[l] \in Nat /\ debts[p][l] \in Nat /\ actual \in Nat
          /\ attempts[a].estimate[l] \in Nat
      BY <1>3, <2>3
    <3> HIDE DEF rest, left, g, p
    <3>3. CASE l \in Sides(a)
      <4>1. /\ rest[l] = Positive(held[g].remaining[l] + attempts[a].estimate[l] - actual)
            /\ left[l] = debts[p][l]
                            + Positive(actual - attempts[a].estimate[l] - held[g].remaining[l])
        BY <3>1, <3>3
      <4>2. /\ rest[l] \in Nat /\ rest[l] <= held[g].remaining[l] + attempts[a].estimate[l]
            /\ Positive(actual - attempts[a].estimate[l] - held[g].remaining[l]) \in Nat
            /\ actual - attempts[a].estimate[l] + (rest[l] - held[g].remaining[l])
                   = Positive(actual - attempts[a].estimate[l] - held[g].remaining[l])
        <5> DEFINE r == held[g].remaining[l]
                   e == attempts[a].estimate[l]
        <5>1. r \in Nat /\ e \in Nat /\ actual \in Nat
          BY <3>2
        <5> HIDE DEF r, e
        <5>2. /\ Positive(r + e - actual) \in Nat /\ Positive(r + e - actual) <= r + e
              /\ Positive(actual - e - r) \in Nat
              /\ actual - e + (Positive(r + e - actual) - r) = Positive(actual - e - r)
          BY ONLY <5>1, SettledOnce
        <5> QED BY <4>1, <5>2 DEF r, e
      <4> QED BY <3>2, <3>3, <4>1, <4>2
    <3>4. CASE l \notin Sides(a)
      BY <3>1, <3>2, <3>4
    <3> QED BY <3>3, <3>4
  <2>8. rest \in Amounts /\ left \in Amounts
    BY <2>7 DEF Amounts
  <2>9. ASSUME NEW l \in Ledgers, 0 \notin Estimates, l \notin Sides(a)
        PROVE  l \notin attempts[a].policies
    <3>1. attempts[a].estimate[l] = 0
      BY <2>4, <2>5, <2>9
    <3>2. attempts[a].step # "idle"
      BY <1>1 DEF Live
    <3> QED BY <1>2, <2>9, <3>1, <3>2 DEF EstimateFits
  <2>10. \A l \in Sides(a) : l \in attempts[a].policies
    BY DEF Sides, SidesOf
  <2> HIDE DEF rest, left
  <2>11. ASSUME NEW l \in Ledgers, 0 \notin Estimates
         PROVE  (spent'[l] - spent[l]) - attempts[a].estimate[l] + (rest[l] - held[g].remaining[l])
                    <= left[l] - debts[p][l]
    <3>1. CASE l \in Sides(a)
      <4>1. spent'[l] = spent[l] + actual
        BY <1>1, <1>4, <2>10, <3>1
      <4>2. actual - attempts[a].estimate[l] + (rest[l] - held[g].remaining[l])
                                      = left[l] - debts[p][l]
        BY <2>7, <3>1
      <4>3. /\ rest[l] \in Nat /\ left[l] \in Nat /\ actual \in Nat /\ spent[l] \in Nat
            /\ attempts[a].estimate[l] \in Nat /\ held[g].remaining[l] \in Nat /\ debts[p][l] \in Nat
        BY <1>3, <2>3, <2>7
      <4> QED BY <4>1, <4>2, <4>3
    <3>2. CASE l \notin Sides(a)
      <4>1. spent'[l] = spent[l]
        BY <1>1, <1>4, <2>9, <2>11, <3>2
      <4>2. rest[l] = held[g].remaining[l] /\ left[l] = debts[p][l] /\ attempts[a].estimate[l] = 0
        BY <2>4, <2>5, <2>7, <3>2
      <4>3. spent[l] \in Nat /\ held[g].remaining[l] \in Nat /\ debts[p][l] \in Nat
        BY <1>3, <2>3
      <4> QED BY <4>1, <4>2, <4>3
    <3> QED BY <3>1, <3>2
  <2>12. debts' = [debts EXCEPT ![p] = left] /\ debts' \in [Processes -> Amounts]
    BY <1>1, <1>2, <1>7, <2>8
  <2>13. RestTypes'
    BY <1>1, <1>2, <1>5, <2>12 DEF RestTypes, redisVars
  <2>14. \A l \in Ledgers :
             /\ rest[l] <= held[g].remaining[l] + attempts[a].estimate[l]
             /\ l \notin SidesIn(attempts[a]) => rest[l] = held[g].remaining[l]
    BY <2>5, <2>7
  <2>15. UNCHANGED <<redisVars, returns, granted, forgotten>> /\ spent' \in Amounts
    BY <1>1, <1>5
  <2>16. Frees(a, rest, left)
    BY <1>1, <1>7, <2>2, <2>8, <2>11, <2>12, <2>13, <2>14, <2>15 DEF Frees
  <2> QED BY <2>16, FreePreserves
<1> QED BY <1>6, <1>7



-----------------------------------------------------------------------------
(* return_budget_grants                                                     *)

\* A step that leaves attempts, Redis and what is spent alone.
LEMMA LessOpen ==
    ASSUME IInv, RestTypes', Local(held', attempts, receipts, granted),
           UNCHANGED <<redisVars, attempts, granted, debts, spent, forgotten>>,
           ReturnsFit(held', returns'), Within(held', attempts, receipts),
           \A l \in Ledgers : OpenIn(held', attempts, receipts, l)
                                <= OpenIn(held, attempts, receipts, l)
    PROVE  IInv'
<1>1. attempts' = attempts /\ granted' = granted
  OBVIOUS
<1>2. Local(held, attempts, receipts, granted) /\ attempts \in [Attempts -> Attempt]
  BY DEF IInv, Local, LocalTypes
<1>3. \A b \in Attempts : EstimateFits(attempts'[b])
  BY <1>1 DEF IInv
<1>4. ASSUME NEW l \in Ledgers
      PROVE  ReservedIn(attempts', l) + OpenIn(held', attempts', receipts, l)
                 <= ReservedIn(attempts, l) + OpenIn(held, attempts, receipts, l)
  <2>1. ReservedIn(attempts, l) <= ReservedIn(attempts, l)
    BY <1>2, SpendTyped
  <2> QED BY <1>1, <1>2, <2>1, CheaperSums
<1>5. Local(held', attempts', receipts, granted') /\ Within(held', attempts', receipts)
  BY <1>1
<1> QED BY <1>3, <1>4, <1>5, CheaperStep

\* A grant grows old.
LEMMA AgePreserves ==
    ASSUME NEW g \in GrantIds, IInv, Age(g) PROVE IInv'
<1> DEFINE y == [held[g] EXCEPT !.life = IF @ = "fresh" THEN "ending" ELSE "expired"]
<1>1. /\ Local(held, attempts, receipts, granted) /\ held \in [GrantIds -> LocalGrant]
      /\ Within(held, attempts, receipts)
  BY DEF IInv, Local, LocalTypes
<1>2. /\ held[g].proc # "none" /\ held' = [held EXCEPT ![g] = y]
      /\ UNCHANGED <<redisVars, known, debts, returns, closing, attempts, granted,
                     historyVars, faults>>
  BY DEF Age
<1>3. /\ y \in LocalGrant /\ y.proc = held[g].proc /\ y.sides = held[g].sides
      /\ y.inUse = held[g].inUse /\ y.remaining = held[g].remaining
  BY <1>1 DEF LocalGrant
<1>4. y.returning = held[g].returning
  BY <1>1 DEF LocalGrant
<1> HIDE DEF y
<1>5. /\ held' \in [GrantIds -> LocalGrant] /\ held'[g] = y
      /\ \A k \in GrantIds : k # g => held'[k] = held[k]
  BY <1>1, <1>2, <1>3
<1>6. \A k \in GrantIds :
          /\ held'[k].proc = held[k].proc /\ held'[k].sides = held[k].sides
          /\ held'[k].inUse = held[k].inUse /\ held'[k].remaining = held[k].remaining
          /\ held'[k].returning = held[k].returning
          /\ held[k].proc = "none" => held'[k] = held[k]
  BY <1>2, <1>3, <1>4, <1>5
<1>7. \A k \in GrantIds : \A l \in Ledgers : held'[k].remaining[l] <= held[k].remaining[l]
  <2>1. \A k \in GrantIds : \A l \in Ledgers : held[k].remaining[l] \in Nat
    BY <1>1 DEF LocalGrant, Amounts
  <2> QED BY <1>6, <2>1
<1>8. Local(held', attempts, receipts, granted)
  BY <1>1, <1>5, <1>6, <1>7, PaidStep
<1>9. /\ Within(held', attempts, receipts)
      /\ \A l \in Ledgers : OpenIn(held', attempts, receipts, l) <= OpenIn(held, attempts, receipts, l)
  BY <1>1, <1>6, <1>7, <1>8, PaidMoney
<1>10. RestTypes'
  BY <1>2 DEF IInv, RestTypes, redisVars, historyVars
<1>11. ReturnsFit(held', returns')
  BY <1>2, <1>6 DEF IInv, ReturnsFit
<1>12. UNCHANGED <<redisVars, attempts, granted, debts, spent, forgotten>>
  BY <1>2 DEF historyVars
<1> QED BY <1>8, <1>9, <1>10, <1>11, <1>12, LessOpen

\* The grants a pass takes pay debt once and are frozen.
LEMMA FreezePreserves ==
    ASSUME NEW p \in Processes, NEW S \in Passes(p), IInv, FreezeReturns(p, S) PROVE IInv'
<1> DEFINE new == FrozenNow(S)
           paid == PayDebts(p, new)
<1>1. /\ held' = [g \in GrantIds |-> [paid[g] EXCEPT !.returning = @ \/ g \in new]]
      /\ debts' = [debts EXCEPT ![p] = DebtAfterPaying(p, new)]
      /\ returns' = [returns EXCEPT ![p] = S]
      /\ UNCHANGED <<redisVars, known, closing, attempts, granted, historyVars, faults>>
  BY DEF FreezeReturns
<1>2. /\ Local(held, attempts, receipts, granted) /\ RestTypes /\ Within(held, attempts, receipts)
      /\ held \in [GrantIds -> LocalGrant] /\ debts \in [Processes -> Amounts]
      /\ attempts \in [Attempts -> Attempt] /\ ReturnsFit(held, returns)
  BY DEF IInv, Local, LocalTypes, RestTypes
<1>3. S \subseteq GrantIds /\ \A g \in S : held[g].proc = p /\ held[g].inUse = 0
  BY DEF Passes, Returnable
<1>4. new \subseteq S /\ \A g \in S : g \in new <=> ~held[g].returning
  BY DEF FrozenNow
<1> HIDE DEF new
<1>5. new \subseteq GrantIds
  BY <1>3, <1>4
<1>6. \A g \in new : held[g].proc # "none" /\ ~receipts[g].returned
  <2> SUFFICES ASSUME NEW g \in new PROVE held[g].proc # "none" /\ ~receipts[g].returned
    OBVIOUS
  <2>1. held[g].proc # "none" /\ ~held[g].returning
    BY <1>3, <1>4, BudgetAssumption
  <2> QED BY <1>2, <1>5, <2>1 DEF Local, GrantFits
<1>7. /\ paid \in [GrantIds -> LocalGrant] /\ DebtAfterPaying(p, new) \in Amounts
      /\ \A g \in GrantIds :
             /\ paid[g].proc = held[g].proc /\ paid[g].sides = held[g].sides
             /\ paid[g].inUse = held[g].inUse /\ paid[g].returning = held[g].returning
             /\ paid[g].remaining = RemainingAfterPaying(p, new, g)
             /\ g \notin new => paid[g] = held[g]
             /\ \A l \in Ledgers : paid[g].remaining[l] <= held[g].remaining[l]
  BY <1>2, <1>5, PaidTyped
<1> HIDE DEF paid
<1>8. ASSUME NEW g \in GrantIds
      PROVE  /\ held'[g] \in LocalGrant
             /\ held'[g].proc = held[g].proc /\ held'[g].sides = held[g].sides
             /\ held'[g].inUse = held[g].inUse /\ held'[g].remaining = paid[g].remaining
             /\ held'[g].returning <=> held[g].returning \/ g \in new
             /\ g \notin new => held'[g] = held[g]
  <2>1. held'[g] = [paid[g] EXCEPT !.returning = @ \/ g \in new] /\ paid[g] \in LocalGrant
    BY <1>1, <1>7
  <2>2. (paid[g].returning \/ g \in new) \in BOOLEAN
    OBVIOUS
  <2>3. held'[g] \in LocalGrant /\ held'[g].proc = paid[g].proc /\ held'[g].sides = paid[g].sides
        /\ held'[g].inUse = paid[g].inUse /\ held'[g].remaining = paid[g].remaining
    BY <2>1, <2>2 DEF LocalGrant
  <2>4. held'[g].returning = (paid[g].returning \/ g \in new)
    BY <2>1 DEF LocalGrant
  <2>5. g \notin new => held'[g] = paid[g]
    BY <2>1 DEF LocalGrant
  <2> QED BY <1>7, <2>3, <2>4, <2>5
<1>9. held' \in [GrantIds -> LocalGrant]
  BY <1>1, <1>8
<1>10. \A g \in GrantIds :
           /\ held'[g].proc = held[g].proc /\ held'[g].sides = held[g].sides
           /\ held'[g].inUse = held[g].inUse
           /\ held[g].proc = "none" => held'[g] = held[g]
           /\ held[g].returning => held'[g].returning
           /\ held'[g].returning => held[g].returning \/ held[g].inUse = 0
           /\ \A l \in Ledgers : held'[g].remaining[l] <= held[g].remaining[l]
  BY <1>3, <1>4, <1>6, <1>7, <1>8
<1>11. Local(held', attempts, receipts, granted)
  BY <1>2, <1>9, <1>10, PaidStep
<1>12. Within(held', attempts, receipts)
  BY <1>2, <1>10, <1>11, PaidMoney
<1>13. \A l \in Ledgers : OpenIn(held', attempts, receipts, l) - OpenIn(held, attempts, receipts, l)
                            = DebtAfterPaying(p, new)[l] - debts[p][l]
  <2>1. \A g \in GrantIds : held'[g].proc = held[g].proc
                            /\ held'[g].remaining = RemainingAfterPaying(p, new, g)
    BY <1>7, <1>8
  <2> QED BY <1>2, <1>5, <1>6, <1>11, <2>1, PaidBalance
<1>14. debts' \in [Processes -> Amounts] /\ debts'[p] = DebtAfterPaying(p, new)
       /\ \A q \in Processes : q # p => debts'[q] = debts[q]
  BY <1>1, <1>2, <1>7
<1>15. returns' \in [Processes -> SUBSET GrantIds] /\ returns'[p] = S
       /\ \A q \in Processes : q # p => returns'[q] = returns[q]
  BY <1>1, <1>2, <1>3 DEF RestTypes
<1>16. attempts' = attempts /\ granted' = granted /\ spent' = spent /\ forgotten' = forgotten
       /\ UNCHANGED redisVars
  BY <1>1 DEF historyVars
<1>17. RestTypes'
  BY <1>1, <1>2, <1>14, <1>15 DEF RestTypes, redisVars, historyVars
<1>18. ReturnsFit(held', returns')
  <2> SUFFICES ASSUME NEW q \in Processes, NEW g \in GrantIds, g \in returns'[q]
               PROVE  held'[g].proc = q /\ held'[g].returning
    BY DEF ReturnsFit
  <2>1. CASE q = p
    BY <1>3, <1>4, <1>8, <1>15, <2>1
  <2>2. CASE q # p
    BY <1>2, <1>8, <1>15, <2>2 DEF ReturnsFit
  <2> QED BY <2>1, <2>2
<1>19. ASSUME NEW l \in Ledgers
       PROVE  (spent'[l] - spent[l]) + (ReservedIn(attempts', l) - ReservedIn(attempts, l))
                   + (OpenIn(held', attempts', receipts, l) - OpenIn(held, attempts, receipts, l))
               <= (Owed(debts', l) - Owed(debts, l)) + (forgotten'[l] - forgotten[l])
  <2>1. LocalTypes(held', attempts, receipts, granted) /\ LocalTypes(held, attempts, receipts, granted)
    BY <1>2, <1>11 DEF Local
  <2>2. /\ spent[l] \in Nat /\ forgotten[l] \in Nat /\ Owed(debts, l) \in Nat
        /\ ReservedIn(attempts, l) \in Nat /\ OpenIn(held, attempts, receipts, l) \in Nat
    <3>1. /\ debts \in [Processes -> Amounts] /\ charged \in Amounts /\ spent \in Amounts
          /\ forgotten \in Amounts /\ LocalTypes(held, attempts, receipts, granted)
      BY <1>2, <2>1 DEF RestTypes
    <3> QED BY ONLY <3>1, l \in Ledgers, LedgerTyped
  <2>3. OpenIn(held', attempts, receipts, l) \in Nat
    BY <2>1, OpenTyped
  <2>4. Owed(debts', l) = Owed(debts, l) - debts[p][l] + debts'[p][l]
    BY <1>2, <1>14, OwedChange
  <2>5. debts[p][l] \in Nat /\ debts'[p][l] \in Nat
    BY <1>2, <1>14, OwedTyped
  <2>6. OpenIn(held', attempts, receipts, l) - OpenIn(held, attempts, receipts, l)
           = debts'[p][l] - debts[p][l]
    BY <1>13, <1>14
  <2>7. spent'[l] = spent[l] /\ forgotten'[l] = forgotten[l] /\ attempts' = attempts
    BY <1>16
  <2> QED BY <2>2, <2>3, <2>4, <2>5, <2>6, <2>7
<1>20. \A b \in Attempts : EstimateFits(attempts'[b])
  BY <1>16 DEF IInv
<1>21. Local(held', attempts', receipts, granted') /\ Within(held', attempts', receipts)
  BY <1>11, <1>12, <1>16
<1> QED BY <1>16, <1>17, <1>18, <1>19, <1>20, <1>21, ProcessStep

\* BUDGET_RETURN credits what the frozen grant has left, once; before a recovery
\* the charge covers it.
LEMMA RedisReturnHolds ==
    ASSUME IInv, NEW g \in GrantIds, held[g].proc # "none", held[g].returning,
           RedisReturn(g) \/ UNCHANGED redisVars
    PROVE  /\ recovery' = recovery /\ charged' \in Amounts
           /\ Local(held, attempts, receipts', granted) /\ Within(held, attempts, receipts')
           /\ Accounts(held, attempts, receipts', debts, charged', recovery, spent, forgotten)
<1> DEFINE unused == held[g].remaining
           short == {l \in held[g].sides : charged[l] < unused[l]}
           applied == IF short = {} THEN held[g].sides
                      ELSE IF "key" \in short THEN {} ELSE held[g].sides \cap {"key"}
           r == [receipts[g] EXCEPT !.returned = TRUE, !.credit = unused]
<1>1. /\ Local(held, attempts, receipts, granted) /\ RestTypes /\ Within(held, attempts, receipts)
      /\ held \in [GrantIds -> LocalGrant] /\ receipts \in [GrantIds -> Receipt]
      /\ attempts \in [Attempts -> Attempt] /\ LocalTypes(held, attempts, receipts, granted)
      /\ Accounts(held, attempts, receipts, debts, charged, recovery, spent, forgotten)
      /\ debts \in [Processes -> Amounts] /\ charged \in Amounts /\ spent \in Amounts
      /\ forgotten \in Amounts
  BY DEF IInv, Local, LocalTypes, RestTypes
<1>2. CASE UNCHANGED redisVars
  <2>1. recovery' = recovery /\ charged' = charged /\ receipts' = receipts
    BY <1>2 DEF redisVars
  <2> QED BY <1>1, <2>1
<1>3. CASE /\ receipts[g].present /\ ~receipts[g].returned /\ recovery' = recovery
           /\ charged' = [l \in Ledgers |-> IF l \in applied THEN charged[l] - unused[l]
                                            ELSE charged[l]]
           /\ receipts' = IF short = {} THEN [receipts EXCEPT ![g] = r] ELSE receipts
  <2>1. GrantFits(g, held[g], receipts[g], granted) /\ ReceiptFits(g, receipts[g], granted)
    BY <1>1 DEF Local
  <2>2. \A l \in Ledgers : l \notin held[g].sides => unused[l] = 0
    BY <2>1 DEF GrantFits
  <2>3. \A l \in Ledgers : /\ unused[l] \in Nat /\ receipts[g].amount[l] \in Nat /\ charged[l] \in Nat
                           /\ receipts[g].credit[l] = 0
    BY <1>1, <1>3, <2>1 DEF LocalGrant, Receipt, Amounts, ReceiptFits, Zero
  <2>4. \A l \in Ledgers : unused[l] <= receipts[g].amount[l]
    <3> SUFFICES ASSUME NEW l \in Ledgers PROVE unused[l] <= receipts[g].amount[l]
      OBVIOUS
    <3>1. unused[l] + UseOf(attempts, g, l) <= receipts[g].amount[l]
      BY <1>1, <1>3 DEF Within
    <3>2. UseOf(attempts, g, l) \in Nat
      BY <1>1, SpendTyped
    <3> QED BY <2>3, <3>1, <3>2
  <2>5. \A l \in applied : l \in Ledgers /\ ~(charged[l] < unused[l])
    BY <1>1 DEF LocalGrant
  <2>6. \A l \in Ledgers : charged'[l] \in Nat /\ charged'[l] <= Limit[l]
    <3> SUFFICES ASSUME NEW l \in Ledgers PROVE charged'[l] \in Nat /\ charged'[l] <= Limit[l]
      OBVIOUS
    <3>1. charged[l] <= Limit[l] /\ Limit[l] \in Nat
      BY <1>1, BudgetAssumption DEF Accounts
    <3>2. CASE l \in applied
      <4>1. charged'[l] = charged[l] - unused[l] /\ ~(charged[l] < unused[l])
        BY <1>3, <2>5, <3>2
      <4> HIDE DEF unused
      <4> QED BY <2>3, <3>1, <4>1
    <3>3. CASE l \notin applied
      BY <1>3, <2>3, <3>1, <3>3
    <3> QED BY <3>2, <3>3
  <2>7. charged' \in Amounts
    BY <1>3, <2>6 DEF Amounts
  <2>8. recovery = Zero => short = {}
    <3> SUFFICES ASSUME recovery = Zero, NEW l \in Ledgers PROVE ~(charged[l] < unused[l])
      BY <1>1 DEF LocalGrant
    <3> DEFINE f == [k \in GrantIds |-> receipts[k].amount[l] - receipts[k].credit[l]]
    <3>1. charged[l] = Sum(f, GrantIds)
      BY <1>1 DEF Accounts, Charged, GrantedIn
    <3>2. \A k \in GrantIds : f[k] \in Nat
      <4> SUFFICES ASSUME NEW k \in GrantIds PROVE receipts[k].amount[l] - receipts[k].credit[l] \in Nat
        OBVIOUS
      <4>1. receipts[k].amount[l] \in Nat /\ receipts[k].credit[l] \in Nat
        BY <1>1 DEF Receipt, Amounts
      <4>2. receipts[k].credit[l] <= receipts[k].amount[l]
        BY <1>1 DEF Local, ReceiptFits
      <4> QED BY <4>1, <4>2
    <3>3. f[g] = receipts[g].amount[l]
      BY <2>3
    <3> HIDE DEF f, unused
    <3>4. f[g] <= Sum(f, GrantIds)
      BY <3>2, FiniteIds, SumNat
    <3> QED BY <2>3, <2>4, <3>1, <3>3, <3>4
  <2>9. CASE short # {}
    <3>1. receipts' = receipts
      BY <1>3, <2>9
    <3>2. Accounts(held, attempts, receipts', debts, charged', recovery, spent, forgotten)
      BY <2>6, <2>8, <2>9 DEF Accounts
    <3> QED BY <1>1, <1>3, <2>7, <3>1, <3>2
  <2>10. CASE short = {}
    <3>1. \A l \in Ledgers : charged'[l] = charged[l] - unused[l]
      <4> SUFFICES ASSUME NEW l \in Ledgers PROVE charged'[l] = charged[l] - unused[l]
        OBVIOUS
      <4>1. CASE l \in held[g].sides
        BY <1>3, <2>10, <4>1
      <4>2. CASE l \notin held[g].sides
        BY <1>3, <2>2, <2>3, <2>10, <4>2
      <4> QED BY <4>1, <4>2
    <3>2. r \in Receipt /\ r.amount = receipts[g].amount /\ r.credit = unused
      BY <1>1 DEF Receipt, LocalGrant
    <3>3. r.present = receipts[g].present /\ r.returned = TRUE
      BY <1>1 DEF Receipt
    <3> HIDE DEF r
    <3>4. /\ receipts' \in [GrantIds -> Receipt] /\ receipts'[g] = r
          /\ \A k \in GrantIds : k # g => receipts'[k] = receipts[k]
      BY <1>1, <1>3, <2>10, <3>2
    <3> HIDE DEF unused, short, applied
    <3>5. Local(held, attempts, receipts', granted)
      <4>1. /\ receipts'[g].present /\ receipts'[g].returned
            /\ receipts'[g].amount = receipts[g].amount
            /\ \A l \in Ledgers : receipts'[g].credit[l] <= receipts[g].amount[l]
        BY <1>3, <2>4, <3>2, <3>3, <3>4
      <4> QED BY <1>1, <3>4, <4>1, ReturnStep
    <3>6. /\ Within(held, attempts, receipts')
          /\ \A l \in Ledgers : OpenIn(held, attempts, receipts', l)
                                  = OpenIn(held, attempts, receipts, l) - held[g].remaining[l]
      <4>1. /\ receipts'[g].returned /\ ~receipts[g].returned /\ held[g].proc # "none"
            /\ Local(held, attempts, receipts, granted) /\ Within(held, attempts, receipts)
            /\ \A k \in GrantIds : k # g => receipts'[k] = receipts[k]
        BY <1>1, <1>3, <3>3, <3>4
      <4> QED BY ONLY <3>5, <4>1, g \in GrantIds, ReturnMoney
    <3>7. recovery = Zero => Charged(receipts', charged')
      <4> SUFFICES ASSUME recovery = Zero, NEW l \in Ledgers PROVE charged'[l] = GrantedIn(receipts', l)
        BY DEF Charged
      <4>1. charged[l] = GrantedIn(receipts, l)
        BY <1>1 DEF Accounts, Charged
      <4>2. /\ GrantedIn(receipts', l) = GrantedIn(receipts, l)
                 - (receipts[g].amount[l] - receipts[g].credit[l])
                 + (receipts'[g].amount[l] - receipts'[g].credit[l])
            /\ GrantedIn(receipts, l) \in Int
        BY <1>1, <3>4, GrantedChange
      <4>3. receipts'[g].amount[l] = receipts[g].amount[l] /\ receipts'[g].credit[l] = unused[l]
        BY <3>2, <3>4
      <4> QED BY <2>3, <3>1, <4>1, <4>2, <4>3
    <3>8. ASSUME recovery = Zero, 0 \notin Estimates
          PROVE  Covered(held, attempts, receipts', debts, charged', spent, forgotten)
      <4>1. Covered(held, attempts, receipts, debts, charged, spent, forgotten)
        BY <1>1, <3>8 DEF Accounts
      <4>2. LocalTypes(held, attempts, receipts', granted)
        BY <3>5 DEF Local
      <4>3. ASSUME NEW l \in Ledgers
            PROVE  (spent[l] - spent[l]) + (ReservedIn(attempts, l) - ReservedIn(attempts, l))
                       + (OpenIn(held, attempts, receipts', l) - OpenIn(held, attempts, receipts, l))
                   <= (charged'[l] - charged[l]) + (Owed(debts, l) - Owed(debts, l))
                       + (forgotten[l] - forgotten[l])
        <5>1. /\ spent[l] \in Nat /\ charged[l] \in Nat /\ forgotten[l] \in Nat
              /\ Owed(debts, l) \in Nat /\ ReservedIn(attempts, l) \in Nat
              /\ OpenIn(held, attempts, receipts, l) \in Nat
          BY ONLY <1>1, l \in Ledgers, LedgerTyped
        <5>2. OpenIn(held, attempts, receipts', l) = OpenIn(held, attempts, receipts, l) - unused[l]
          BY <3>6 DEF unused
        <5>3. charged'[l] = charged[l] - unused[l] /\ unused[l] \in Nat
          BY <2>3, <3>1
        <5> QED BY <5>1, <5>2, <5>3
      <4> QED BY <1>1, <2>7, <4>1, <4>2, <4>3, CoverFrom
    <3>9. Accounts(held, attempts, receipts', debts, charged', recovery, spent, forgotten)
      BY <2>6, <3>7, <3>8 DEF Accounts
    <3> QED BY <1>3, <2>7, <3>5, <3>6, <3>9
  <2> QED BY <2>9, <2>10
<1>4. CASE RedisReturn(g) /\ ~(UNCHANGED redisVars)
  <2>1. RedisReturn(g) /\ ~(~receipts[g].present \/ AlreadyReturned(g))
    BY <1>4 DEF RedisReturn
  <2>2. recovery' = recovery /\ receipts[g].present /\ ~receipts[g].returned
    BY <2>1 DEF RedisReturn, AlreadyReturned
  <2>3. [receipts EXCEPT ![g].returned = TRUE, ![g].credit = unused] = [receipts EXCEPT ![g] = r]
    BY <1>1
  <2>4. /\ charged' = [l \in Ledgers |-> IF l \in applied THEN charged[l] - unused[l] ELSE charged[l]]
        /\ receipts' = IF short = {} THEN [receipts EXCEPT ![g].returned = TRUE, ![g].credit = unused]
                       ELSE receipts
    BY <2>1 DEF RedisReturn
  <2> QED BY <1>3, <2>2, <2>3, <2>4
<1> QED BY <1>2, <1>4

\* A grant that was returned leaves its process.
LEMMA ReturnAnsweredPreserves ==
    ASSUME NEW p \in Processes, NEW g \in GrantIds, IInv, ReturnAnswered(p, g) PROVE IInv'
<1>1. /\ g \in returns[p] /\ RedisReturn(g) /\ returns' = [returns EXCEPT ![p] = @ \ {g}]
      /\ held' = IF receipts'[g].returned THEN [held EXCEPT ![g] = NotHeld] ELSE held
      /\ UNCHANGED <<known, debts, closing, attempts, granted, settled, spent, forgotten, faults>>
  BY DEF ReturnAnswered
<1>2. /\ RestTypes /\ ReturnsFit(held, returns) /\ held \in [GrantIds -> LocalGrant]
      /\ returns \in [Processes -> SUBSET GrantIds]
      /\ debts \in [Processes -> Amounts] /\ spent \in Amounts /\ forgotten \in Amounts
  BY DEF IInv, Local, LocalTypes, RestTypes
<1>3. held[g].proc = p /\ held[g].returning /\ held[g].proc # "none"
  BY <1>1, <1>2, BudgetAssumption DEF ReturnsFit
<1>4. /\ recovery' = recovery /\ charged' \in Amounts
      /\ Local(held, attempts, receipts', granted) /\ Within(held, attempts, receipts')
      /\ Accounts(held, attempts, receipts', debts, charged', recovery, spent, forgotten)
  BY <1>1, <1>3, RedisReturnHolds
<1>5. /\ Local(held', attempts, receipts', granted) /\ Within(held', attempts, receipts')
      /\ \A l \in Ledgers : OpenIn(held', attempts, receipts', l)
                              <= OpenIn(held, attempts, receipts', l)
      /\ \A k \in GrantIds : k # g => held'[k] = held[k]
  <2>1. CASE receipts'[g].returned
    <3>1. /\ held' \in [GrantIds -> LocalGrant] /\ held'[g] = NotHeld
          /\ \A k \in GrantIds : k # g => held'[k] = held[k]
      BY <1>1, <1>2, <2>1, NoneTyped
    <3>2. Local(held', attempts, receipts', granted)
      BY <1>3, <1>4, <3>1, DropStep
    <3>3. held'[g].proc = "none"
      BY <3>1 DEF NotHeld
    <3>4. /\ Within(held, attempts, receipts') => Within(held', attempts, receipts')
          /\ \A l \in Ledgers : OpenIn(held', attempts, receipts', l)
                                  <= OpenIn(held, attempts, receipts', l)
      BY ONLY <1>3, <1>4, <2>1, <3>1, <3>2, <3>3, g \in GrantIds, DropMoney
    <3> QED BY <1>4, <3>1, <3>2, <3>4
  <2>2. CASE ~receipts'[g].returned
    <3>1. held' = held
      BY <1>1, <2>2
    <3>2. \A l \in Ledgers : OpenIn(held, attempts, receipts', l) \in Nat
      BY <1>4, OpenTyped DEF Local
    <3> QED BY <1>4, <3>1, <3>2
  <2> QED BY <2>1, <2>2
<1>6. Accounts(held', attempts, receipts', debts, charged', recovery, spent, forgotten)
  <2>1. ASSUME recovery = Zero, 0 \notin Estimates
        PROVE  Covered(held', attempts, receipts', debts, charged', spent, forgotten)
    <3>1. Covered(held, attempts, receipts', debts, charged', spent, forgotten)
      BY <1>4, <2>1 DEF Accounts
    <3>2. LocalTypes(held, attempts, receipts', granted) /\ LocalTypes(held', attempts, receipts', granted)
      BY <1>4, <1>5 DEF Local
    <3>3. ASSUME NEW l \in Ledgers
          PROVE  (spent[l] - spent[l]) + (ReservedIn(attempts, l) - ReservedIn(attempts, l))
                     + (OpenIn(held', attempts, receipts', l) - OpenIn(held, attempts, receipts', l))
                 <= (charged'[l] - charged'[l]) + (Owed(debts, l) - Owed(debts, l))
                     + (forgotten[l] - forgotten[l])
      <4>1. /\ spent[l] \in Nat /\ charged'[l] \in Nat /\ forgotten[l] \in Nat
            /\ Owed(debts, l) \in Nat /\ ReservedIn(attempts, l) \in Nat
            /\ OpenIn(held, attempts, receipts', l) \in Nat
        BY ONLY <1>2, <1>4, <3>2, l \in Ledgers, LedgerTyped
      <4>2. OpenIn(held', attempts, receipts', l) \in Nat
        BY <3>2, OpenTyped
      <4>3. OpenIn(held', attempts, receipts', l) <= OpenIn(held, attempts, receipts', l)
        BY <1>5
      <4> QED BY <4>1, <4>2, <4>3
    <3> QED BY <1>2, <1>4, <3>1, <3>2, <3>3, CoverFrom
  <2> QED BY <1>4, <2>1 DEF Accounts
<1>7. /\ returns' \in [Processes -> SUBSET GrantIds] /\ returns'[p] = returns[p] \ {g}
      /\ \A q \in Processes : q # p => returns'[q] = returns[q]
  BY <1>1, <1>2
<1>8. ReturnsFit(held', returns')
  <2> SUFFICES ASSUME NEW q \in Processes, NEW k \in GrantIds, k \in returns'[q]
               PROVE  held'[k].proc = q /\ held'[k].returning
    BY DEF ReturnsFit
  <2>1. k \in returns[q] /\ held[k].proc = q /\ held[k].returning
    BY <1>2, <1>7 DEF ReturnsFit
  <2>2. k # g
    BY <1>3, <1>7, <2>1
  <2> QED BY <1>5, <2>1, <2>2
<1>9. attempts' = attempts /\ granted' = granted /\ debts' = debts /\ spent' = spent
      /\ forgotten' = forgotten
  BY <1>1
<1>10. RestTypes'
  BY <1>1, <1>2, <1>4, <1>7 DEF RestTypes
<1>11. \A b \in Attempts : EstimateFits(attempts'[b])
  BY <1>9 DEF IInv
<1> QED BY <1>4, <1>5, <1>6, <1>8, <1>9, <1>10, <1>11 DEF IInv

\* A call whose answer is lost, and a call that is lost.
LEMMA ReturnUnansweredPreserves ==
    ASSUME NEW p \in Processes, NEW g \in GrantIds, IInv, ReturnUnanswered(p, g) PROVE IInv'
<1>1. g \in returns[p]
  BY DEF ReturnUnanswered
<1>2. RestTypes /\ ReturnsFit(held, returns) /\ returns \in [Processes -> SUBSET GrantIds]
  BY DEF IInv, RestTypes
<1>3. held[g].proc = p /\ held[g].returning /\ held[g].proc # "none"
  BY <1>1, <1>2, BudgetAssumption DEF ReturnsFit
<1>4. /\ recovery' = recovery /\ charged' \in Amounts
      /\ Local(held, attempts, receipts', granted) /\ Within(held, attempts, receipts')
      /\ Accounts(held, attempts, receipts', debts, charged', recovery, spent, forgotten)
  BY <1>3, RedisReturnHolds DEF ReturnUnanswered
<1>5. /\ returns' \in [Processes -> SUBSET GrantIds] /\ returns'[p] = returns[p] \ {g}
      /\ \A q \in Processes : q # p => returns'[q] = returns[q]
  BY <1>2 DEF ReturnUnanswered
<1>6. attempts' = attempts /\ granted' = granted /\ debts' = debts /\ spent' = spent
      /\ forgotten' = forgotten /\ held' = held
  BY DEF ReturnUnanswered
<1>7. ReturnsFit(held', returns')
  BY <1>2, <1>5, <1>6 DEF ReturnsFit
<1>8. RestTypes'
  BY <1>2, <1>4, <1>5 DEF RestTypes, ReturnUnanswered
<1>9. \A b \in Attempts : EstimateFits(attempts'[b])
  BY <1>6 DEF IInv
<1> QED BY <1>4, <1>6, <1>7, <1>8, <1>9 DEF IInv



-----------------------------------------------------------------------------
(* Process and coordinator lifecycle                                        *)

\* Steps that touch neither money nor grants: Close, LearnRecovery, no step at all.
LEMMA NothingMoves ==
    ASSUME IInv, UNCHANGED <<redisVars, held, attempts, granted, debts, returns, spent, forgotten>>,
           RestTypes'
    PROVE  IInv'
<1>1. /\ held' = held /\ attempts' = attempts /\ granted' = granted /\ debts' = debts
      /\ returns' = returns /\ spent' = spent /\ forgotten' = forgotten
      /\ receipts' = receipts /\ charged' = charged /\ recovery' = recovery
  BY DEF redisVars
<1> QED BY <1>1 DEF IInv

LEMMA ClosePreserves ==
    ASSUME NEW p \in Processes, IInv, Close(p) PROVE IInv'
<1>1. RestTypes'
  BY DEF Close, IInv, RestTypes, redisVars, historyVars
<1> QED BY <1>1, NothingMoves DEF Close, historyVars

LEMMA LearnRecoveryPreserves ==
    ASSUME NEW p \in Processes, IInv, LearnRecovery(p) PROVE IInv'
<1>1. RestTypes'
  BY DEF LearnRecovery, IInv, RestTypes, redisVars, historyVars
<1> QED BY <1>1, NothingMoves DEF LearnRecovery, historyVars

\* What a dead process held is lost; Redis keeps it charged.
LEMMA RestartPreserves ==
    ASSUME NEW p \in Processes, IInv, Restart(p) PROVE IInv'
<1>1. /\ held' = [g \in GrantIds |-> IF held[g].proc = p THEN NotHeld ELSE held[g]]
      /\ forgotten' = [l \in Ledgers |-> forgotten[l] + debts[p][l]]
      /\ debts' = [debts EXCEPT ![p] = Zero] /\ returns' = [returns EXCEPT ![p] = {}]
      /\ closing' = [closing EXCEPT ![p] = FALSE] /\ known' = [known EXCEPT ![p] = recovery]
      /\ attempts' = [a \in Attempts |-> IF attempts[a].proc = p THEN NoAttempt ELSE attempts[a]]
      /\ faults' = faults + 1 /\ UNCHANGED <<redisVars, granted, settled, spent>>
  BY DEF Restart
<1>2. /\ Local(held, attempts, receipts, granted) /\ RestTypes /\ Within(held, attempts, receipts)
      /\ held \in [GrantIds -> LocalGrant] /\ attempts \in [Attempts -> Attempt]
      /\ debts \in [Processes -> Amounts] /\ ReturnsFit(held, returns)
      /\ charged \in Amounts /\ spent \in Amounts /\ forgotten \in Amounts
      /\ LocalTypes(held, attempts, receipts, granted)
  BY DEF IInv, Local, LocalTypes, RestTypes
<1>3. /\ held' \in [GrantIds -> LocalGrant] /\ attempts' \in [Attempts -> Attempt]
      /\ \A k \in GrantIds : held'[k] = IF held[k].proc = p THEN NotHeld ELSE held[k]
      /\ \A b \in Attempts : attempts'[b] = IF attempts[b].proc = p THEN NoAttempt ELSE attempts[b]
  BY <1>1, <1>2, NoneTyped
<1>4. Local(held', attempts', receipts, granted)
  BY ONLY <1>2, <1>3, p \in Processes, LoseStep
<1>5. /\ Within(held', attempts', receipts)
      /\ \A l \in Ledgers : ReservedIn(attempts', l) <= ReservedIn(attempts, l)
             /\ OpenIn(held', attempts', receipts, l) <= OpenIn(held, attempts, receipts, l)
  BY ONLY <1>2, <1>3, <1>4, p \in Processes, LoseMoney
<1>6. \A l \in Ledgers : forgotten[l] \in Nat /\ debts[p][l] \in Nat
  BY <1>2 DEF Amounts
<1>7. forgotten' \in Amounts /\ \A l \in Ledgers : forgotten'[l] = forgotten[l] + debts[p][l]
  BY <1>1, <1>6 DEF Amounts
<1>8. debts' \in [Processes -> Amounts] /\ debts'[p] = Zero
      /\ \A q \in Processes : q # p => debts'[q] = debts[q]
  BY <1>1, <1>2, ZeroTyped
<1>9. returns' \in [Processes -> SUBSET GrantIds] /\ returns'[p] = {}
      /\ \A q \in Processes : q # p => returns'[q] = returns[q]
  BY <1>1, <1>2 DEF RestTypes
<1>10. /\ known' \in [Processes -> Amounts] /\ closing' \in [Processes -> BOOLEAN]
       /\ faults' \in Nat /\ charged' = charged /\ recovery' = recovery /\ spent' = spent
       /\ settled' = settled /\ granted' = granted
  BY <1>1, <1>2 DEF RestTypes, redisVars
<1>11. RestTypes'
  BY <1>2, <1>7, <1>8, <1>9, <1>10 DEF RestTypes
<1>12. ReturnsFit(held', returns')
  <2> SUFFICES ASSUME NEW q \in Processes, NEW k \in GrantIds, k \in returns'[q]
               PROVE  held'[k].proc = q /\ held'[k].returning
    BY DEF ReturnsFit
  <2>1. q # p
    BY <1>9
  <2>2. held[k].proc = q /\ held[k].returning
    BY <1>2, <1>9, <2>1 DEF ReturnsFit
  <2> QED BY <1>3, <2>1, <2>2
<1>13. \A b \in Attempts : EstimateFits(attempts'[b])
  <2>1. EstimateFits(NoAttempt)
    BY DEF EstimateFits, NoAttempt
  <2> QED BY <1>3, <2>1 DEF IInv
<1>14. ASSUME NEW l \in Ledgers
       PROVE  (spent'[l] - spent[l]) + (ReservedIn(attempts', l) - ReservedIn(attempts, l))
                   + (OpenIn(held', attempts', receipts, l) - OpenIn(held, attempts, receipts, l))
               <= (Owed(debts', l) - Owed(debts, l)) + (forgotten'[l] - forgotten[l])
  <2>1. /\ spent[l] \in Nat /\ charged[l] \in Nat /\ forgotten[l] \in Nat /\ Owed(debts, l) \in Nat
        /\ ReservedIn(attempts, l) \in Nat /\ OpenIn(held, attempts, receipts, l) \in Nat
    BY ONLY <1>2, l \in Ledgers, LedgerTyped
  <2>2. ReservedIn(attempts', l) \in Nat /\ OpenIn(held', attempts', receipts, l) \in Nat
    BY <1>3, <1>4, SpendTyped, OpenTyped DEF Local
  <2>3. Owed(debts', l) = Owed(debts, l) - debts[p][l] + debts'[p][l]
    BY <1>2, <1>8, OwedChange
  <2>4. debts'[p][l] = 0 /\ debts[p][l] \in Nat
    BY <1>6, <1>8 DEF Zero
  <2>5. ReservedIn(attempts', l) <= ReservedIn(attempts, l)
        /\ OpenIn(held', attempts', receipts, l) <= OpenIn(held, attempts, receipts, l)
    BY <1>5
  <2>6. spent'[l] = spent[l] /\ forgotten'[l] = forgotten[l] + debts[p][l]
    BY <1>7, <1>10
  <2> QED BY <2>1, <2>2, <2>3, <2>4, <2>5, <2>6
<1>15. Local(held', attempts', receipts, granted') /\ UNCHANGED redisVars
  BY <1>1, <1>4, <1>10
<1> QED BY <1>5, <1>11, <1>12, <1>13, <1>14, <1>15, ProcessStep

\* RECOVERY_INSTALL replaces the charge of one ledger.
LEMMA InstallRecoveryPreserves ==
    ASSUME NEW l \in Ledgers, IInv, InstallRecovery(l) PROVE IInv'
<1>1. /\ recovery' = [recovery EXCEPT ![l] = @ + 1]
      /\ charged' = [charged EXCEPT ![l] = Limit[l] - RecoveryAllowance]
      /\ UNCHANGED <<receipts, known, held, debts, returns, closing, attempts, granted,
                     historyVars, faults>>
  BY DEF InstallRecovery
<1>2. RestTypes /\ \A k \in Ledgers : charged[k] <= Limit[k] /\ recovery[k] \in Nat /\ charged[k] \in Nat
  BY DEF IInv, RestTypes, Accounts, Amounts
<1>3. RecoveryAllowance \in Nat /\ Limit[l] \in Nat /\ RecoveryAllowance <= Limit[l]
  BY BudgetAssumption
<1>4. Limit[l] - RecoveryAllowance \in Nat /\ Limit[l] - RecoveryAllowance <= Limit[l]
  BY <1>3
<1>5. charged' \in Amounts /\ \A k \in Ledgers : charged'[k] <= Limit[k]
  BY <1>1, <1>2, <1>4 DEF RestTypes, Amounts
<1>6. recovery' \in Amounts /\ recovery'[l] > 0
  BY <1>1, <1>2 DEF RestTypes, Amounts
<1>7. recovery' # Zero
  BY <1>6 DEF Zero
<1>8. Accounts(held, attempts, receipts, debts, charged', recovery', spent, forgotten)
  BY <1>5, <1>7 DEF Accounts
<1>9. /\ receipts' = receipts /\ held' = held /\ debts' = debts /\ returns' = returns
      /\ attempts' = attempts /\ granted' = granted /\ spent' = spent /\ forgotten' = forgotten
  BY <1>1 DEF historyVars
<1>10. RestTypes'
  BY <1>1, <1>2, <1>5, <1>6 DEF RestTypes, historyVars
<1> QED BY <1>8, <1>9, <1>10 DEF IInv

-----------------------------------------------------------------------------
(* Theorems                                                                 *)

\* Every step of admission, of a return pass and of the coordinator keeps IInv.
LEMMA NextPreserves == IInv /\ [Next]_vars => IInv'
<1> SUFFICES ASSUME IInv, [Next]_vars PROVE IInv'
  OBVIOUS
<1>1. ASSUME NEW a \in Attempts,
             \/ BeginAny(a) \/ Reserve(a) \/ AskGrant(a) \/ RedisGrant(a) \/ InstallGrant(a)
             \/ GiveUp(a) \/ MarkDispatched(a)
      PROVE  IInv'
  BY <1>1, BeginPreserves, ReservePreserves, AskGrantPreserves, RedisGrantPreserves,
     InstallGrantPreserves, GiveUpPreserves, MarkDispatchedPreserves
<1>2. ASSUME NEW a \in Attempts, Finish(a) PROVE IInv'
  BY <1>2, ReleasePreserves, AbandonPreserves, SettlePreserves DEF Finish
<1>3. ASSUME NEW g \in GrantIds, Age(g) PROVE IInv'
  BY <1>3, AgePreserves
<1>4. ASSUME NEW p \in Processes, NEW S \in Passes(p), FreezeReturns(p, S) PROVE IInv'
  BY <1>4, FreezePreserves
<1>5. ASSUME NEW p \in Processes, Close(p) \/ Restart(p) \/ LearnRecovery(p) PROVE IInv'
  BY <1>5, ClosePreserves, RestartPreserves, LearnRecoveryPreserves
<1>6. ASSUME NEW p \in Processes, NEW g \in GrantIds, ReturnAnswered(p, g) \/ ReturnUnanswered(p, g)
      PROVE  IInv'
  BY <1>6, ReturnAnsweredPreserves, ReturnUnansweredPreserves
<1>7. ASSUME NEW l \in Ledgers, InstallRecovery(l) PROVE IInv'
  BY <1>7, InstallRecoveryPreserves
<1>8. CASE UNCHANGED vars
  <2>1. /\ UNCHANGED <<redisVars, held, attempts, granted, debts, returns, spent, forgotten>>
        /\ UNCHANGED <<known, closing, settled, faults>>
    BY <1>8 DEF vars, redisVars
  <2>2. RestTypes'
    BY <2>1 DEF IInv, RestTypes, redisVars
  <2> QED BY <2>1, <2>2, NothingMoves
<1> QED BY <1>1, <1>2, <1>3, <1>4, <1>5, <1>6, <1>7, <1>8 DEF Next

\* The inductive invariant of paired budget allowances: grants back their
\* reservations, receipts match charges and, before a recovery, money is conserved.
THEOREM BudgetInvariant == Spec => []IInv
<1>1. Init => IInv
  BY InitEstablishes
<1>2. IInv /\ [Next]_vars => IInv'
  BY NextPreserves
<1> QED BY <1>1, <1>2, PTL DEF Spec

\* BUDGET_GRANT and BUDGET_RETURN keep every ledger between zero and its limit and
\* its charge, before a recovery, at what was granted less what came back once.
THEOREM LedgerHolds == Spec => []LedgerConserved
<1>1. IInv => LedgerConserved
  <2> SUFFICES ASSUME IInv, NEW l \in Ledgers
               PROVE  /\ charged[l] \in 0 .. Limit[l]
                      /\ recovery = Zero => charged[l] = GrantedIn(receipts, l)
    BY DEF LedgerConserved, GrantedIn
  <2>1. charged[l] \in Nat /\ Limit[l] \in Nat /\ charged[l] <= Limit[l]
    BY BudgetAssumption DEF IInv, RestTypes, Accounts, Amounts
  <2>2. recovery = Zero => charged[l] = GrantedIn(receipts, l)
    BY DEF IInv, Accounts, Charged
  <2> QED BY <2>1, <2>2
<1> QED BY <1>1, BudgetInvariant, PTL

\* A live AttemptReservation's grant is held by its process, is not frozen for
\* return and counts exactly its reservations.
THEOREM ReservationsHold == Spec => []ReservationsAreBacked
<1>1. IInv => ReservationsAreBacked
  <2> SUFFICES ASSUME IInv, NEW g \in GrantIds
               PROVE  /\ held[g].inUse = Cardinality(Users(attempts, g))
                      /\ Users(attempts, g) # {} =>
                             /\ ~held[g].returning
                             /\ \A a \in Users(attempts, g) : held[g].proc = attempts[a].proc
    BY DEF ReservationsAreBacked, Users, Live
  <2>1. Backed(g, held[g], attempts)
    BY DEF IInv, Local
  <2> QED BY <2>1 DEF Backed
<1> QED BY <1>1, BudgetInvariant, PTL

\* settle_actual_cost, pay_budget_debt and BUDGET_RETURN together: before a
\* recovery, what was settled or is reserved is charged, owed or lost with a process,
\* when no attempt is estimated at zero.
THEOREM SpendingHolds ==
    ASSUME 0 \notin Estimates PROVE Spec => []SpendingIsCovered
<1>1. IInv => SpendingIsCovered
  <2> SUFFICES ASSUME IInv, recovery = Zero, NEW l \in Ledgers
               PROVE  spent[l] + Reserved(l) <= charged[l] + Owed(debts, l) + forgotten[l]
    BY DEF SpendingIsCovered, Owed
  <2>1. Reserved(l) = ReservedIn(attempts, l)
    BY DEF Reserved, ReservedIn, Spend, Live
  <2>2. spent[l] + ReservedIn(attempts, l) + OpenIn(held, attempts, receipts, l)
          <= charged[l] + Owed(debts, l) + forgotten[l]
    BY DEF IInv, Accounts, Covered
  <2>3. /\ LocalTypes(held, attempts, receipts, granted) /\ debts \in [Processes -> Amounts]
        /\ charged \in Amounts /\ spent \in Amounts /\ forgotten \in Amounts
    BY DEF IInv, Local, RestTypes
  <2>4. /\ spent[l] \in Nat /\ charged[l] \in Nat /\ forgotten[l] \in Nat /\ Owed(debts, l) \in Nat
        /\ ReservedIn(attempts, l) \in Nat /\ OpenIn(held, attempts, receipts, l) \in Nat
    BY ONLY <2>3, l \in Ledgers, LedgerTyped
  <2> QED BY <2>1, <2>2, <2>4
<1> QED BY <1>1, BudgetInvariant, PTL

-----------------------------------------------------------------------------
(* Strict concurrency leases, the other half of admission                    *)
(*                                                                           *)
(* The limit is a statement about processes; Redis only bounds its sorted    *)
(* set.  What connects the two is that a deadline lies in a millisecond      *)
(* before the one its lease expires in (LeaseOutlives), which no script of   *)
(* another request can disturb: scripts remove expired leases only.          *)

Leased == {r \in Requests : leases[r] # 0}

\* An acquisition started no later than now.
StartedBefore ==
    \A r \in Requests : request[r].step # "idle" => request[r].started.ms <= now.ms

\* The lease outlives what its request may use of it, from the script on.
LeaseOutlives ==
    \A r \in Requests :
        LET q == request[r] IN
        /\ q.step = "acquired" /\ now.ms <= q.started.ms + q.remaining
           => leases[r] > q.started.ms + q.remaining
        /\ q.step = "running" => Before(now, q.deadline) /\ leases[r] > q.deadline.ms

\* The sorted set never holds more than the limit.
SetBounded == Cardinality(Leased) <= ConcurrencyLimit

LeaseInv == LeaseTypeOK /\ StartedBefore /\ LeaseOutlives /\ SetBounded

-----------------------------------------------------------------------------

\* A subset of the leased requests is finite and within the limit.
LEMMA WithinLimit ==
    ASSUME NEW S, NEW T, T \subseteq Requests, S \subseteq T, Cardinality(T) <= ConcurrencyLimit
    PROVE  IsFiniteSet(S) /\ Cardinality(S) <= ConcurrencyLimit
<1> USE LeaseAssumption
<1>1. IsFiniteSet(T)
    BY FS_Subset
<1>2. IsFiniteSet(S) /\ Cardinality(S) <= Cardinality(T)
    BY <1>1, FS_Subset
<1>3. Cardinality(S) \in Nat /\ Cardinality(T) \in Nat
    BY <1>1, <1>2, FS_CardinalityType
<1>q. QED
    BY <1>2, <1>3

\* At first there is no lease.
LEMMA LeaseInitKeeps ==
    LeaseInit => LeaseInv
<1> USE LeaseAssumption
<1> SUFFICES ASSUME LeaseInit PROVE LeaseInv
    OBVIOUS
<1>1. LeaseTypeOK
    BY DEF LeaseInit, LeaseTypeOK, Time, NoRequest
<1>2. StartedBefore /\ LeaseOutlives
    BY DEF LeaseInit, StartedBefore, LeaseOutlives, NoRequest
<1>3. Leased = {}
    BY DEF LeaseInit, Leased
<1>4. SetBounded
    BY <1>3, FS_EmptySet DEF SetBounded
<1>q. QED
    BY <1>1, <1>2, <1>4 DEF LeaseInv

\* Time advances by less than a millisecond or into the next one.
LEMMA TickKeeps ==
    LeaseInv /\ Tick => LeaseInv'
<1> USE LeaseAssumption
<1> SUFFICES ASSUME LeaseInv, Tick PROVE LeaseInv'
    OBVIOUS
<1> USE DEF LeaseInv
<1>1. now' \in Time /\ now'.ms <= MaxMillis /\ now.ms <= now'.ms
    BY DEF Tick, LeaseTypeOK, Time
<1>2. UNCHANGED <<leases, request, losses>>
    BY DEF Tick
<1>3. LeaseTypeOK'
    BY <1>1, <1>2 DEF LeaseTypeOK
<1>4. StartedBefore'
    BY <1>1, <1>2 DEF StartedBefore, LeaseTypeOK, Time
<1>5. \A r \in Requests : request[r].step = "running" => Before(now', request[r].deadline)
    BY DEF Tick
<1>6. LeaseOutlives'
    BY <1>1, <1>2, <1>5 DEF LeaseOutlives, LeaseTypeOK, Time
<1>7. SetBounded'
    BY <1>2 DEF SetBounded, Leased
<1>q. QED
    BY <1>3, <1>4, <1>6, <1>7

\* The script removes expired leases and adds one only below the limit.
LEMMA AcquireKeeps ==
    ASSUME NEW r \in Requests PROVE LeaseInv /\ Acquire(r) => LeaseInv'
<1> USE LeaseAssumption
<1> SUFFICES ASSUME LeaseInv, Acquire(r) PROVE LeaseInv'
    OBVIOUS
<1> USE DEF LeaseInv
<1>0. now' = now /\ losses' = losses /\ request[r].step = "asked"
      /\ now \in Time /\ leases \in [Requests -> 0 .. MaxMillis + LeaseMillis]
    BY DEF Acquire, LeaseTypeOK
<1>1. \A q \in Requests : q # r /\ leases[q] > now.ms => leases'[q] = leases[q]
    BY <1>0 DEF Acquire, Unexpired
<1>2. \A q \in Requests : q # r => request'[q] = request[q]
    BY DEF Acquire, LeaseTypeOK
<1>3. Unexpired \subseteq Leased /\ Leased \subseteq Requests
    BY <1>0 DEF Unexpired, Leased, Time
<1>4. IsFiniteSet(Unexpired) /\ Cardinality(Unexpired) \in Nat
      /\ Cardinality(Unexpired) <= ConcurrencyLimit
    BY <1>3, WithinLimit, FS_CardinalityType DEF SetBounded
<1>5. CASE MayAcquire
    <2>1. leases' = [q \in Requests |->
              IF q = r THEN now.ms + LeaseMillis ELSE IF q \in Unexpired THEN leases[q] ELSE 0]
          /\ request' = [request EXCEPT ![r].step = "acquired",
                                        ![r].remaining = Remaining(now.ms + LeaseMillis)]
        BY <1>5 DEF Acquire
    <2>2. Remaining(now.ms + LeaseMillis) = LeaseMillis - 1
        BY <1>0 DEF Remaining, Time
    <2>3. LeaseTypeOK'
        <3>1. /\ LeaseMillis - 1 \in 0 .. LeaseMillis - 1
              /\ now.ms + LeaseMillis \in 0 .. MaxMillis + LeaseMillis
            BY <1>0 DEF LeaseTypeOK, Time
        <3>2. leases' \in [Requests -> 0 .. MaxMillis + LeaseMillis]
            BY <1>0, <2>1, <3>1
        <3>3. request' \in [Requests -> [step : {"idle", "asked", "acquired", "running", "dropped"},
                                        started : Time, remaining : 0 .. LeaseMillis - 1,
                                        deadline : Time]]
            BY <2>1, <2>2, <3>1 DEF LeaseTypeOK
        <3>q. QED
            BY <1>0, <3>2, <3>3 DEF LeaseTypeOK
    <2>4. request'[r].step = "acquired" /\ request'[r].remaining = LeaseMillis - 1
          /\ request'[r].started = request[r].started /\ leases'[r] = now.ms + LeaseMillis
        BY <2>1, <2>2 DEF LeaseTypeOK
    <2>5. StartedBefore'
        BY <1>0, <1>2, <2>4 DEF StartedBefore
    <2>6. LeaseOutlives'
        <3> SUFFICES ASSUME NEW q \in Requests
                     PROVE  /\ request'[q].step = "acquired"
                               /\ now.ms <= request'[q].started.ms + request'[q].remaining
                               => leases'[q] > request'[q].started.ms + request'[q].remaining
                            /\ request'[q].step = "running" =>
                               Before(now, request'[q].deadline)
                               /\ leases'[q] > request'[q].deadline.ms
            BY <1>0 DEF LeaseOutlives, Before
        <3>1. CASE q = r
            <4>1. request[r].started.ms \in Nat /\ request[r].started.ms <= now.ms /\ now.ms \in Nat
                BY <1>0 DEF StartedBefore, LeaseTypeOK, Time
            <4>q. QED
                BY <3>1, <4>1, <2>4
        <3>2. CASE q # r
            BY <3>2, <1>0, <1>1, <1>2 DEF LeaseOutlives, Before, LeaseTypeOK, Time
        <3>q. QED
            BY <3>1, <3>2
    <2>7. SetBounded'
        <3>1. Leased' \subseteq Unexpired \cup {r}
            BY <2>1 DEF Leased
        <3>2. IsFiniteSet(Unexpired \cup {r})
              /\ Cardinality(Unexpired \cup {r}) \in Nat
              /\ Cardinality(Unexpired \cup {r}) <= Cardinality(Unexpired) + 1
            <4> DEFINE S == Unexpired
            <4>1. IsFiniteSet(S) /\ Cardinality(S) \in Nat
                BY <1>4
            <4> HIDE DEF S
            <4>2. /\ IsFiniteSet(S \cup {r})
                  /\ Cardinality(S \cup {r}) = IF r \in S THEN Cardinality(S) ELSE Cardinality(S) + 1
                BY <4>1, FS_AddElement
            <4>q. QED
                BY <4>1, <4>2, FS_CardinalityType DEF S
        <3>3. Cardinality(Unexpired \cup {r}) <= ConcurrencyLimit
            <4>1. Cardinality(Unexpired) < ConcurrencyLimit
                BY <1>5 DEF MayAcquire
            <4>q. QED
                BY <3>2, <1>4, <4>1
        <3>4. Unexpired \cup {r} \subseteq Requests
            BY DEF Unexpired
        <3>q. QED
            BY <3>1, <3>3, <3>4, WithinLimit DEF SetBounded
    <2>q. QED
        BY <2>3, <2>5, <2>6, <2>7
<1>6. CASE ~MayAcquire
    <2>1. leases' = [q \in Requests |-> IF q \in Unexpired THEN leases[q] ELSE 0]
          /\ request' = [request EXCEPT ![r] = NoRequest]
        BY <1>6 DEF Acquire
    <2>2. LeaseTypeOK'
        BY <1>0, <2>1 DEF LeaseTypeOK, Time, NoRequest
    <2>3. request'[r].step = "idle"
        BY <2>1 DEF LeaseTypeOK, NoRequest
    <2>4. StartedBefore'
        BY <1>0, <1>2, <2>3 DEF StartedBefore
    <2>5. LeaseOutlives'
        <3> SUFFICES ASSUME NEW q \in Requests, q # r
                     PROVE  /\ request[q].step = "acquired"
                               /\ now.ms <= request[q].started.ms + request[q].remaining
                               => leases'[q] > request[q].started.ms + request[q].remaining
                            /\ request[q].step = "running" =>
                               Before(now, request[q].deadline)
                               /\ leases'[q] > request[q].deadline.ms
            BY <1>0, <1>2, <2>3 DEF LeaseOutlives, Before
        <3>q. QED
            BY <1>0, <1>1 DEF LeaseOutlives, Before, LeaseTypeOK, Time
    <2>6. Leased' \subseteq Leased
        BY <2>1, <1>3 DEF Leased
    <2>7. SetBounded'
        BY <2>6, <1>3, WithinLimit DEF SetBounded
    <2>q. QED
        BY <2>2, <2>4, <2>5, <2>7
<1>q. QED
    BY <1>5, <1>6

\* The steps of one process disturb only its own request and its own lease.
LEMMA RequestKeeps ==
    ASSUME NEW r \in Requests
    PROVE  LeaseInv /\ (Ask(r) \/ Answer(r) \/ EndRequest(r)
                         \/ DropPermit(r) \/ Vanish(r) \/ Reclaim(r))
           => LeaseInv'
<1> USE LeaseAssumption
<1> SUFFICES ASSUME LeaseInv, Ask(r) \/ Answer(r) \/ EndRequest(r)
                              \/ DropPermit(r) \/ Vanish(r) \/ Reclaim(r)
             PROVE  LeaseInv'
    OBVIOUS
<1> USE DEF LeaseInv
<1>0. now' = now /\ now \in Time /\ leases \in [Requests -> 0 .. MaxMillis + LeaseMillis]
    BY DEF LeaseTypeOK, Ask, Answer, EndRequest, DropPermit, Vanish,
       Reclaim
<1>1. \A q \in Requests \ {r} : request'[q] = request[q] /\ leases'[q] = leases[q]
    BY DEF LeaseTypeOK, Ask, Answer, EndRequest, DropPermit, Vanish,
       Reclaim
<1>2. leases'[r] = leases[r] \/ leases'[r] = 0
    BY <1>0 DEF Ask, Answer, EndRequest, DropPermit, Vanish, Reclaim
<1>3. /\ request'[r].step # "acquired"
      /\ request'[r].step = "running" =>
            Before(now, request'[r].deadline) /\ leases'[r] > request'[r].deadline.ms
      /\ request'[r].step # "idle" => request'[r].started.ms <= now.ms
    <2>1. CASE Ask(r)
        BY <2>1, <1>0 DEF Ask, LeaseTypeOK, Time
    <2>2. CASE Answer(r)
        <3>1. request[r].started \in Time /\ request[r].remaining \in Nat
            BY DEF LeaseTypeOK
        <3>2. Deadline(r) \in Time
              /\ Deadline(r).ms = request[r].started.ms + request[r].remaining
            BY <3>1 DEF Deadline, Time
        <3>3. Before(now, Deadline(r)) => now.ms <= Deadline(r).ms
            BY <3>2, <1>0 DEF Before, Time
        <3>4. Before(now, Deadline(r)) => leases[r] > Deadline(r).ms
            BY <2>2, <3>2, <3>3 DEF LeaseOutlives, Answer
        <3>5. request'[r].deadline = Deadline(r) /\ leases' = leases
              /\ request'[r].started = request[r].started
              /\ request'[r].step = IF Before(now, Deadline(r)) THEN "running" ELSE "dropped"
            BY <2>2 DEF Answer, LeaseTypeOK
        <3>6. request[r].started.ms <= now.ms
            BY <2>2 DEF Answer, StartedBefore
        <3>q. QED
            BY <3>4, <3>5, <3>6
    <2>3. CASE EndRequest(r)
        BY <2>3 DEF EndRequest, LeaseTypeOK, StartedBefore
    <2>4. CASE DropPermit(r) \/ Vanish(r)
        BY <2>4 DEF DropPermit, Vanish, LeaseTypeOK, NoRequest
    <2>5. CASE Reclaim(r)
        BY <2>5 DEF Reclaim
    <2>q. QED
        BY <2>1, <2>2, <2>3, <2>4, <2>5
<1>4. StartedBefore'
    BY <1>0, <1>1, <1>3 DEF StartedBefore
<1>5. LeaseOutlives'
    <2>1. ASSUME NEW q \in Requests, q # r
          PROVE  /\ request'[q].step = "acquired"
                    /\ now'.ms <= request'[q].started.ms + request'[q].remaining
                    => leases'[q] > request'[q].started.ms + request'[q].remaining
                 /\ request'[q].step = "running" =>
                    Before(now', request'[q].deadline) /\ leases'[q] > request'[q].deadline.ms
        BY <2>1, <1>0, <1>1 DEF LeaseOutlives
    <2>q. QED
        BY <2>1, <1>0, <1>3 DEF LeaseOutlives
<1>6. LeaseTypeOK'
    <2>1. CASE Answer(r)
        <3>1. Deadline(r) \in Time
            BY DEF Deadline, LeaseTypeOK, Time
        <3>q. QED
            BY <2>1, <3>1 DEF LeaseTypeOK, Answer
    <2>2. CASE Ask(r)
        BY <2>2 DEF LeaseTypeOK, Ask
    <2>3. CASE EndRequest(r)
        BY <2>3 DEF LeaseTypeOK, EndRequest
    <2>4. CASE DropPermit(r)
        BY <2>4 DEF LeaseTypeOK, DropPermit, NoRequest, Time
    <2>5. CASE Vanish(r)
        BY <2>5 DEF LeaseTypeOK, Vanish, NoRequest, Time
    <2>6. CASE Reclaim(r)
        BY <2>6 DEF LeaseTypeOK, Reclaim
    <2>q. QED
        BY <2>1, <2>2, <2>3, <2>4, <2>5, <2>6
<1>7. SetBounded'
    <2>1. Leased' \subseteq Leased /\ Leased \subseteq Requests
        BY <1>1, <1>2 DEF Leased
    <2>q. QED
        BY <2>1, WithinLimit DEF SetBounded
<1>q. QED
    BY <1>4, <1>5, <1>6, <1>7

\* Every reachable state has a bounded lease set whose leases outlive their
\* requests (STRICT_CONCURRENCY, acquire_strict_concurrency, RequestLifetime).
THEOREM LeaseInvariant ==
    LeaseSpec => []LeaseInv
<1> USE LeaseAssumption
<1>1. LeaseInit => LeaseInv
    BY LeaseInitKeeps
<1>2. LeaseInv /\ [LeaseNext]_leaseVars => LeaseInv'
    <2> SUFFICES ASSUME LeaseInv, [LeaseNext]_leaseVars PROVE LeaseInv'
        OBVIOUS
    <2>1. CASE Tick
        BY <2>1, TickKeeps
    <2>2. ASSUME NEW r \in Requests, Acquire(r) PROVE LeaseInv'
        BY <2>2, AcquireKeeps
    <2>3. ASSUME NEW r \in Requests,
                 Ask(r) \/ Answer(r) \/ EndRequest(r) \/ DropPermit(r)
                 \/ Vanish(r) \/ Reclaim(r)
          PROVE  LeaseInv'
        BY <2>3, RequestKeeps
    <2>4. CASE UNCHANGED leaseVars
        BY <2>4 DEF leaseVars, LeaseInv, LeaseTypeOK, StartedBefore, LeaseOutlives, Before,
           SetBounded, Leased
    <2>q. QED
        BY <2>1, <2>2, <2>3, <2>4 DEF LeaseNext
<1>q. QED
    BY <1>1, <1>2, PTL DEF LeaseSpec

\* Every variable stays in its domain, for every bound.
THEOREM LeaseTypes ==
    LeaseSpec => []LeaseTypeOK
<1> USE LeaseAssumption
<1>1. LeaseInv => LeaseTypeOK
    BY DEF LeaseInv
<1>q. QED
    BY <1>1, LeaseInvariant, PTL

\* A running request still holds its lease, whatever delayed the script and
\* its answer.
THEOREM RequestsEndBeforeReclaim ==
    LeaseSpec => []RunsUnderLease
<1> USE LeaseAssumption
<1>1. LeaseInv => RunsUnderLease
    <2> SUFFICES ASSUME LeaseInv, NEW r \in Requests, request[r].step = "running"
                 PROVE  leases[r] > now.ms
        BY DEF RunsUnderLease, Running
    <2>1. Before(now, request[r].deadline) /\ leases[r] > request[r].deadline.ms
        BY DEF LeaseInv, LeaseOutlives
    <2>2. now.ms \in Nat /\ request[r].deadline.ms \in Nat /\ leases[r] \in Int
        BY DEF LeaseInv, LeaseTypeOK, Time
    <2>q. QED
        BY <2>1, <2>2 DEF Before
<1>q. QED
    BY <1>1, LeaseInvariant, PTL

\* The fleet never runs more requests of a key than its concurrency_limit.
THEOREM LimitHolds ==
    LeaseSpec => []StrictLimit
<1> USE LeaseAssumption
<1>1. LeaseInv => StrictLimit
    <2> SUFFICES ASSUME LeaseInv PROVE Cardinality(Running) <= ConcurrencyLimit
        BY DEF StrictLimit
    <2>1. Running \subseteq Leased
        <3> SUFFICES ASSUME NEW r \in Requests, request[r].step = "running"
                     PROVE  leases[r] # 0
            BY DEF Running, Leased
        <3>1. leases[r] > request[r].deadline.ms /\ request[r].deadline.ms \in Nat
            BY DEF LeaseInv, LeaseOutlives, LeaseTypeOK, Time
        <3>q. QED
            BY <3>1
    <2>2. Leased \subseteq Requests
        BY DEF Leased
    <2>q. QED
        BY <2>1, <2>2, WithinLimit DEF LeaseInv, SetBounded
<1>q. QED
    BY <1>1, LeaseInvariant, PTL

=============================================================================
