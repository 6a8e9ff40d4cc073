----------------------- MODULE PolicyActivationProofs -----------------------
(***************************************************************************)
(* Proofs about the activation handshake, for every set of workers and     *)
(* every bound.  Order keeps workers, recoveries and the active pointer    *)
(* behind the activation row they were read from; Pinned says that an      *)
(* activated candidate holds the policy hash until it is durable; Phase    *)
(* ties the policy hash to the state of the row while nothing disturbed    *)
(* Redis.  AllowanceInv orders what workers and Redis hold before the      *)
(* recoveries of a version, whatever disturbed Redis.                      *)
(***************************************************************************)
EXTENDS PolicyActivation, TLAPS

Steps == {"idle", "call", "finalize", "persist"}

\* The records keep their fields.
Shape ==
    /\ DOMAIN worker = Workers
    /\ \A w \in Workers : DOMAIN worker[w] = {"step", "gen", "state", "recovery"}
    /\ DOMAIN hash = {"state", "fence", "desiredRecovery", "active", "activeRecovery",
                      "fingerprint", "prior", "priorRecovery", "cutoff"}
    /\ DOMAIN activation = {"gen", "state", "deadline"}
    /\ versions \in [Generations -> [epoch : Epochs \cup {"none"},
                                     mode : {"enforce", "record_only", "none"}]]
    /\ \A g \in Generations : g <= latest => versions[g].epoch \in Epochs
    /\ \A r \in recoveries : DOMAIN r = {"epoch", "number", "gen", "installed"}

\* A row whose state has reached that of the work s.
Reached(s) ==
    /\ s = "coordinator_staged" =>
           activation.state \in {"coordinator_staged", "coordinator_armed", "active", "finalized"}
    /\ s = "coordinator_armed" =>
           activation.state \in {"coordinator_armed", "active", "finalized"}
    /\ s = "active" => activation.state \in {"active", "finalized"}

Durable == activation.state \in {"active", "finalized"}

\* What a worker holds was read from the current row or an older one.
WorkerOrder(w) ==
    /\ worker[w].step \in Steps /\ worker[w].state \in Unfinished \cup {"none"}
    /\ worker[w].step # "idle" => worker[w].gen \in 1 .. activation.gen /\ worker[w].state # "none"
    /\ worker[w].step # "idle" /\ worker[w].gen = activation.gen => Reached(worker[w].state)
    /\ worker[w].step = "finalize" => worker[w].state = "active"

Order ==
    /\ \A w \in Workers : WorkerOrder(w)
    /\ \A r \in recoveries : r.gen \in 1 .. latest /\ (r.gen = activation.gen => Durable)
    /\ policy.active # 0 /\ policy.active = activation.gen => Durable
    /\ activation.state # "none" => activation.gen # 0
    /\ losses \in Nat

\* Between ACTIVATE and its durable activation nobody else can move the hash.
Pinned ==
    losses = 0 =>
        \A w \in Workers :
            (/\ worker[w].step = "persist" /\ worker[w].state = "coordinator_armed"
             /\ worker[w].gen = activation.gen /\ activation.state = "coordinator_armed")
            => /\ hash.fence = activation.gen /\ hash.active = activation.gen
               /\ hash.state = "active"

TypeInv == TypeOK /\ Shape
SafeInv == TypeInv /\ Order /\ Pinned

-----------------------------------------------------------------------------
\* Init establishes the invariant.
LEMMA InitSafe == Init => SafeInv
<1> SUFFICES ASSUME Init PROVE SafeInv
    OBVIOUS
<1> USE ActivationAssumption DEF Init, Generations, Unfinished, EmptyHash, Idle
<1>1. TypeOK
    BY DEF TypeOK
<1>2. Shape
    BY DEF Shape
<1>3. Order
    BY DEF Order, WorkerOrder, Steps
<1>4. Pinned
    BY DEF Pinned
<1> QED BY <1>1, <1>2, <1>3, <1>4 DEF SafeInv, TypeInv

-----------------------------------------------------------------------------
\* A worker that gets its answer keeps its work or becomes idle; the others
\* are untouched.
Follows(u) ==
    /\ DOMAIN worker'[u] = {"step", "gen", "state", "recovery"}
    /\ \/ worker'[u].step = worker[u].step \/ worker'[u].step \in {"idle", "persist"}
       \/ worker'[u].step = "finalize" /\ worker[u].state = "active"
    /\ \/ worker'[u].step = "idle" /\ worker'[u].state = "none" /\ worker'[u].gen = 0
          /\ worker'[u].recovery = 0
       \/ /\ worker[u].step # "idle" \/ worker'[u] = worker[u]
          /\ worker'[u].state = worker[u].state /\ worker'[u].gen = worker[u].gen
          /\ worker'[u].recovery = worker[u].recovery

LEMMA AnsweredEffect ==
    ASSUME Shape, NEW w \in Workers, NEW step, Answered(w, step), worker[w].step # "idle",
           step \in {"idle", "persist"} \/ (step = "finalize" /\ worker[w].state = "active")
    PROVE  /\ DOMAIN worker' = Workers
           /\ worker'[w].step = step
           /\ \A u \in Workers : u # w => worker'[u] = worker[u]
           /\ \A u \in Workers : Follows(u)
<1>1. DOMAIN worker' = Workers /\ \A u \in Workers : u # w => worker'[u] = worker[u]
    BY DEF Answered, Shape
<1>2. worker'[w].step = step /\ Follows(w)
  <2>1. CASE step = "idle"
      BY <2>1 DEF Answered, Shape, Idle, Follows
  <2>2. CASE step # "idle"
      BY <2>2 DEF Answered, Shape, Follows
  <2> QED BY <2>1, <2>2
<1>3. \A u \in Workers : u # w => Follows(u)
    BY <1>1 DEF Follows, Shape
<1> QED BY <1>1, <1>2, <1>3

\* Workers that follow their work stay in order while the row stands still.
LEMMA FollowKeepsOrder ==
    ASSUME SafeInv, UNCHANGED activation, \A u \in Workers : Follows(u)
    PROVE  \A w \in Workers : WorkerOrder(w)'
<1> SUFFICES ASSUME NEW w \in Workers PROVE WorkerOrder(w)'
    OBVIOUS
<1>1. WorkerOrder(w) /\ Follows(w)
    BY DEF SafeInv, Order
<1>2. Reached(worker[w].state)' <=> Reached(worker'[w].state)
    BY DEF Reached
<1> QED BY <1>1, <1>2 DEF WorkerOrder, Follows, Reached, Steps

HashTyped ==
    /\ hash.fence \in 0 .. latest /\ hash.active \in 0 .. latest
    /\ hash.prior \in 0 .. latest /\ hash.cutoff \in 0 .. latest
    /\ hash.state \in {"none", "staged", "armed", "active", "finalized"}
    /\ DOMAIN hash = {"state", "fence", "desiredRecovery", "active", "activeRecovery",
                      "fingerprint", "prior", "priorRecovery", "cutoff"}

\* The generations that workers and recoveries hold have been written.
LEMMA Written ==
    ASSUME SafeInv
    PROVE  /\ latest \in Nat /\ latest <= MaxGeneration /\ MaxGeneration \in Nat
           /\ activation.gen \in Nat /\ activation.gen <= latest
           /\ policy.active \in Nat /\ policy.active <= latest
           /\ HashTyped
           /\ \A w \in Workers : worker[w].gen \in Nat /\ worker[w].gen <= latest
           /\ \A w \in Workers : worker[w].step # "idle" => worker[w].gen >= 1
BY ActivationAssumption DEF SafeInv, TypeInv, TypeOK, Shape, HashTyped, Order, WorkerOrder

\* A step of a worker that leaves PostgreSQL alone keeps types and order.
LEMMA CallKeepsOrder ==
    ASSUME SafeInv, UNCHANGED <<pgVars, elapsed, losses>>, HashTyped',
           DOMAIN worker' = Workers, \A u \in Workers : Follows(u)
    PROVE  TypeInv' /\ Order'
<1>1. UNCHANGED <<policy, versions, latest, activation, recoveries>>
    BY DEF pgVars
<1>2. \A w \in Workers : worker'[w].gen \in 0 .. latest'
    BY <1>1 DEF SafeInv, TypeInv, TypeOK, Follows
<1>3. TypeOK'
    BY <1>1, <1>2 DEF SafeInv, TypeInv, TypeOK, HashTyped
<1>4. Shape'
    BY <1>1 DEF SafeInv, TypeInv, Shape, HashTyped, Follows
<1>5. \A w \in Workers : WorkerOrder(w)'
    BY <1>1, FollowKeepsOrder
<1>6. Order'
    BY <1>1, <1>5 DEF SafeInv, Order, Durable
<1> QED BY <1>3, <1>4, <1>6 DEF TypeInv

\* The fields each script leaves in the policy hash.
Fields(h, state, fence, active, prior, cutoff, desiredRecovery, activeRecovery, priorRecovery) ==
    /\ DOMAIN h = DOMAIN hash
    /\ h.state = state /\ h.fence = fence /\ h.active = active
    /\ h.prior = prior /\ h.cutoff = cutoff
    /\ h.desiredRecovery = desiredRecovery /\ h.activeRecovery = activeRecovery
    /\ h.priorRecovery = priorRecovery

LEMMA HashFields ==
    ASSUME HashTyped, NEW x
    PROVE  /\ hash.fence = 0 =>
                 Fields(StagedHash(x), "staged", x.gen, hash.active, hash.prior, hash.cutoff,
                        x.recovery, hash.activeRecovery, hash.priorRecovery)
           /\ Fields(ArmedHash, "armed", hash.fence, hash.active, hash.prior, hash.cutoff,
                     hash.desiredRecovery, hash.activeRecovery, hash.priorRecovery)
           /\ ~AlreadyActivated(x) =>
                 Fields(ActivatedHash(x), "active", hash.fence, x.gen, hash.active, 0,
                        hash.desiredRecovery, x.recovery, hash.activeRecovery)
           /\ Fields(RetiringHash(x), hash.state, hash.fence, hash.active, hash.prior, x.gen,
                     hash.desiredRecovery, hash.activeRecovery, hash.priorRecovery)
           /\ Fields(FinalizedHash, "finalized", 0, hash.active, 0, 0,
                     0, hash.activeRecovery, 0)
<1>1. hash.fence = 0 =>
          Fields(StagedHash(x), "staged", x.gen, hash.active, hash.prior, hash.cutoff,
                 x.recovery, hash.activeRecovery, hash.priorRecovery)
    BY DEF StagedHash, HashTyped, Fields
<1>2. Fields(ArmedHash, "armed", hash.fence, hash.active, hash.prior, hash.cutoff,
             hash.desiredRecovery, hash.activeRecovery, hash.priorRecovery)
    BY DEF ArmedHash, HashTyped, Fields
<1>3. ~AlreadyActivated(x) =>
          Fields(ActivatedHash(x), "active", hash.fence, x.gen, hash.active, 0,
                 hash.desiredRecovery, x.recovery, hash.activeRecovery)
    BY DEF ActivatedHash, HashTyped, Fields
<1>4. Fields(RetiringHash(x), hash.state, hash.fence, hash.active, hash.prior, x.gen,
             hash.desiredRecovery, hash.activeRecovery, hash.priorRecovery)
    BY DEF RetiringHash, HashTyped, Fields
<1>5. Fields(FinalizedHash, "finalized", 0, hash.active, 0, 0,
             0, hash.activeRecovery, 0)
    BY DEF FinalizedHash, HashTyped, Fields
<1> QED BY <1>1, <1>2, <1>3, <1>4, <1>5

\* What a script call of worker w that keeps SafeInv has to show: a typed hash,
\* and that a pinned hash stays as it is.
LEMMA CallSafe ==
    ASSUME SafeInv, NEW w \in Workers, worker[w].step # "idle",
           NEW step, Answered(w, step),
           step \in {"idle", "persist"} \/ (step = "finalize" /\ worker[w].state = "active"),
           UNCHANGED <<pgVars, elapsed, losses>>, HashTyped',
           (/\ hash.fence = activation.gen /\ hash.active = activation.gen
            /\ hash.state = "active" /\ hash.fence # 0
            /\ activation.state = "coordinator_armed")
               => (/\ hash'.fence = hash.fence /\ hash'.active = hash.active
                   /\ hash'.state = "active"),
           (step = "persist" /\ worker[w].state = "coordinator_armed")
               => (/\ hash'.fence = worker[w].gen /\ hash'.active = worker[w].gen
                   /\ hash'.state = "active")
    PROVE  SafeInv'
<1>1. UNCHANGED <<activation, latest>>
    BY DEF pgVars
<1>2. /\ DOMAIN worker' = Workers /\ worker'[w].step = step
      /\ \A u \in Workers : u # w => worker'[u] = worker[u]
      /\ \A u \in Workers : Follows(u)
    BY AnsweredEffect DEF SafeInv, TypeInv
<1>3. TypeInv' /\ Order'
    BY <1>2, CallKeepsOrder
<1>4. Pinned'
  <2> SUFFICES ASSUME losses' = 0, NEW u \in Workers,
                      worker'[u].step = "persist", worker'[u].state = "coordinator_armed",
                      worker'[u].gen = activation'.gen,
                      activation'.state = "coordinator_armed"
               PROVE  /\ hash'.fence = activation'.gen /\ hash'.active = activation'.gen
                      /\ hash'.state = "active"
      BY DEF Pinned
  <2>1. CASE u = w
    <3>1. step = "persist" /\ worker[w].state = "coordinator_armed"
          /\ worker[w].gen = activation.gen
        BY <2>1, <1>1, <1>2 DEF Follows
    <3> QED BY <3>1, <1>1
  <2>2. CASE u # w
    <3>1. /\ worker[u].step = "persist" /\ worker[u].state = "coordinator_armed"
          /\ worker[u].gen = activation.gen /\ activation.state = "coordinator_armed"
          /\ losses = 0
        BY <2>2, <1>1, <1>2
    <3>2. /\ hash.fence = activation.gen /\ hash.active = activation.gen
          /\ hash.state = "active"
        BY <3>1 DEF SafeInv, Pinned
    <3>3. hash.fence # 0
        BY <3>1, <3>2, Written DEF SafeInv, Order, WorkerOrder
    <3> QED BY <1>1, <3>1, <3>2, <3>3
  <2> QED BY <2>1, <2>2
<1> QED BY <1>3, <1>4 DEF SafeInv

\* STAGE cannot touch a pinned hash: its state is neither staged nor armed.
LEMMA StageSafe == ASSUME SafeInv, NEW w \in Workers, Stage(w) PROVE SafeInv'
<1>1. worker[w].step # "idle" /\ UNCHANGED <<pgVars, elapsed, losses>>
    BY DEF Stage, Calls
<1>2. HashTyped /\ worker[w].gen \in 0 .. latest /\ worker[w].gen >= 1 /\ latest' = latest
    BY <1>1, Written DEF pgVars
<1>3. CASE StageAccepts(worker[w]) /\ hash' = StagedHash(worker[w]) /\ Answered(w, "persist")
  <2>1. CASE hash.fence = 0
    <3>1. Fields(hash', "staged", worker[w].gen, hash.active, hash.prior, hash.cutoff,
                 worker[w].recovery, hash.activeRecovery, hash.priorRecovery)
        BY <1>2, <1>3, <2>1, HashFields
    <3>2. HashTyped'
        BY <1>2, <3>1 DEF HashTyped, Fields
    <3>3. worker[w].state # "coordinator_armed"
        BY DEF Stage, Calls
    <3> QED BY <1>1, <1>3, <2>1, <3>2, <3>3, CallSafe
  <2>2. CASE hash.fence # 0
    <3>1. hash' = hash
        BY <1>3, <2>2 DEF StagedHash
    <3>2. HashTyped'
        BY <1>2, <3>1 DEF HashTyped
    <3>3. worker[w].state # "coordinator_armed"
        BY DEF Stage, Calls
    <3> QED BY <1>1, <1>3, <3>1, <3>2, <3>3, CallSafe
  <2> QED BY <2>1, <2>2
<1>4. CASE Answered(w, "idle") /\ UNCHANGED hash
    BY <1>1, <1>2, <1>4, CallSafe DEF HashTyped
<1> QED BY <1>3, <1>4 DEF Stage, redisVars

\* ARM cannot touch a pinned hash: its state is neither staged nor armed.
LEMMA ArmSafe == ASSUME SafeInv, NEW w \in Workers, Arm(w) PROVE SafeInv'
<1>1. worker[w].step # "idle" /\ UNCHANGED <<pgVars, elapsed, losses>>
    BY DEF Arm, Calls
<1>2. HashTyped /\ worker[w].gen \in 0 .. latest /\ worker[w].gen >= 1 /\ latest' = latest
    BY <1>1, Written DEF pgVars
<1>3. CASE ArmAccepts(worker[w]) /\ hash' = ArmedHash /\ Answered(w, "persist")
  <2>1. Fields(hash', "armed", hash.fence, hash.active, hash.prior, hash.cutoff,
               hash.desiredRecovery, hash.activeRecovery, hash.priorRecovery)
      BY <1>2, <1>3, HashFields
  <2>2. HashTyped'
      BY <1>2, <2>1 DEF HashTyped, Fields
  <2>3. worker[w].state # "coordinator_armed" /\ hash.state # "active"
      BY <1>3 DEF Arm, Calls, ArmAccepts
  <2> QED BY <1>1, <1>3, <2>2, <2>3, CallSafe
<1>4. CASE Answered(w, "idle") /\ UNCHANGED hash
    BY <1>1, <1>2, <1>4, CallSafe DEF HashTyped
<1> QED BY <1>3, <1>4 DEF Arm

\* ACTIVATE either finds its own activation or pins the hash itself.
LEMMA ActivateSafe == ASSUME SafeInv, NEW w \in Workers, Activate(w) PROVE SafeInv'
<1>1. worker[w].step # "idle" /\ UNCHANGED <<pgVars, elapsed, losses>>
    BY DEF Activate, Calls
<1>2. HashTyped /\ worker[w].gen \in 0 .. latest /\ worker[w].gen >= 1 /\ latest' = latest
    BY <1>1, Written DEF pgVars
<1>3. CASE ActivateAccepts(worker[w]) /\ hash' = ActivatedHash(worker[w])
           /\ Answered(w, "persist")
  <2>1. CASE AlreadyActivated(worker[w])
    <3>1. hash' = hash
        BY <1>3, <2>1 DEF ActivatedHash
    <3>2. HashTyped'
        BY <1>2, <3>1 DEF HashTyped
    <3>3. hash.fence = worker[w].gen /\ hash.active = worker[w].gen /\ hash.state = "active"
        BY <1>3, <2>1 DEF ActivateAccepts, AlreadyActivated
    <3> QED BY <1>1, <1>3, <3>1, <3>2, <3>3, CallSafe
  <2>2. CASE ~AlreadyActivated(worker[w])
    <3>1. Fields(hash', "active", hash.fence, worker[w].gen, hash.active, 0,
                 hash.desiredRecovery, worker[w].recovery, hash.activeRecovery)
        BY <1>2, <1>3, <2>2, HashFields
    <3>2. HashTyped'
        BY <1>2, <3>1, Written DEF HashTyped, Fields
    <3>3. hash.fence = worker[w].gen /\ hash.state = "armed"
        BY <1>3, <2>2 DEF ActivateAccepts
    <3>4. hash'.fence = worker[w].gen /\ hash'.active = worker[w].gen /\ hash'.state = "active"
        BY <3>1, <3>3 DEF Fields
    <3> QED BY <1>1, <1>3, <3>2, <3>3, <3>4, CallSafe
  <2> QED BY <2>1, <2>2
<1>4. CASE Answered(w, "idle") /\ UNCHANGED hash
    BY <1>1, <1>2, <1>4, CallSafe DEF HashTyped
<1> QED BY <1>3, <1>4 DEF Activate

\* RETIRE leaves what is pinned as it is.
LEMMA RetireSafe == ASSUME SafeInv, NEW w \in Workers, Retire(w) PROVE SafeInv'
<1>1. worker[w].step # "idle" /\ UNCHANGED <<pgVars, elapsed, losses>>
    BY DEF Retire, Calls
<1>2. HashTyped /\ worker[w].gen \in 0 .. latest /\ worker[w].gen >= 1 /\ latest' = latest
    BY <1>1, Written DEF pgVars
<1>3. worker[w].state = "active"
    BY DEF Retire, Calls
<1>4. CASE /\ RetireAccepts(worker[w]) /\ hash' = RetiringHash(worker[w])
           /\ Answered(w, IF worker[w].gen \in elapsed THEN "finalize" ELSE "idle")
  <2>1. Fields(hash', hash.state, hash.fence, hash.active, hash.prior, worker[w].gen,
               hash.desiredRecovery, hash.activeRecovery, hash.priorRecovery)
      BY <1>2, <1>4, HashFields
  <2>2. HashTyped'
      BY <1>2, <2>1 DEF HashTyped, Fields
  <2>3. PICK step \in {"idle", "finalize"} : Answered(w, step)
      BY <1>4
  <2>4. hash'.fence = hash.fence /\ hash'.active = hash.active /\ hash'.state = hash.state
      BY <2>1 DEF Fields
  <2> QED BY <1>1, <1>3, <2>2, <2>3, <2>4, CallSafe
<1>5. CASE Answered(w, "idle") /\ UNCHANGED hash
    BY <1>1, <1>2, <1>5, CallSafe DEF HashTyped
<1> QED BY <1>4, <1>5 DEF Retire

\* FINALIZE of the pinned candidate needs a row that is already durable.
LEMMA FinalizeSafe == ASSUME SafeInv, NEW w \in Workers, Finalize(w) PROVE SafeInv'
<1>1. worker[w].step # "idle" /\ UNCHANGED <<pgVars, elapsed, losses>>
    BY DEF Finalize, Calls
<1>2. HashTyped /\ worker[w].gen \in 0 .. latest /\ worker[w].gen >= 1 /\ latest' = latest
    BY <1>1, Written DEF pgVars
<1>3. worker[w].state = "active"
    BY DEF Finalize, SafeInv, Order, WorkerOrder
<1>4. CASE FinalizeAccepts(worker[w]) /\ hash' = FinalizedHash /\ Answered(w, "persist")
  <2>1. Fields(hash', "finalized", 0, hash.active, 0, 0, 0, hash.activeRecovery, 0)
      BY <1>2, <1>4, HashFields
  <2>2. HashTyped'
      BY <1>2, <2>1, Written DEF HashTyped, Fields
  <2>3. ~(hash.fence = activation.gen /\ activation.state = "coordinator_armed")
      BY <1>1, <1>3, <1>4 DEF FinalizeAccepts, SafeInv, Order, WorkerOrder, Reached
  <2> QED BY <1>1, <1>3, <1>4, <2>2, <2>3, CallSafe
<1>5. CASE Answered(w, "idle") /\ UNCHANGED hash
    BY <1>1, <1>2, <1>5, CallSafe DEF HashTyped
<1> QED BY <1>4, <1>5 DEF Finalize

\* A worker that gives up changes nothing but itself.
LEMMA AbandonSafe == ASSUME SafeInv, NEW w \in Workers, Abandon(w) PROVE SafeInv'
<1>1. /\ worker[w].step # "idle" /\ UNCHANGED <<pgVars, elapsed, losses>>
      /\ Answered(w, "idle") /\ UNCHANGED hash /\ latest' = latest
    BY DEF Abandon, redisVars, pgVars
<1>2. HashTyped'
    BY <1>1, Written DEF HashTyped
<1> QED BY <1>1, <1>2, CallSafe

\* A freshly loaded work is the current row's.
LEMMA LoadSafe == ASSUME SafeInv, NEW w \in Workers, Load(w) PROVE SafeInv'
<1>1. UNCHANGED <<policy, versions, latest, activation, recoveries, hash, elapsed, losses>>
    BY DEF Load, pgVars, redisVars
<1>2. /\ activation.state \in Unfinished /\ activation.gen # 0
      /\ activation.gen \in 0 .. latest /\ latest \in Nat
    BY Written DEF Load, ActivationUnfinished, Unfinished, SafeInv, Order
<1>3. /\ DOMAIN worker' = Workers
      /\ \A u \in Workers : u # w => worker'[u] = worker[u]
      /\ worker'[w].step = "call" /\ worker'[w].gen = activation.gen
      /\ worker'[w].state = activation.state
      /\ DOMAIN worker'[w] = {"step", "gen", "state", "recovery"}
    BY DEF Load, SafeInv, TypeInv, Shape
<1>4. TypeOK'
    BY <1>1, <1>2, <1>3 DEF SafeInv, TypeInv, TypeOK
<1>5. Shape'
    BY <1>1, <1>3 DEF SafeInv, TypeInv, Shape
<1>6. \A u \in Workers : WorkerOrder(u)'
  <2>1. WorkerOrder(w)'
      BY <1>1, <1>2, <1>3 DEF WorkerOrder, Reached, Steps, Unfinished
  <2>2. \A u \in Workers : u # w => WorkerOrder(u)'
      BY <1>1, <1>3 DEF SafeInv, Order, WorkerOrder, Reached
  <2> QED BY <2>1, <2>2
<1>7. Order'
    BY <1>1, <1>6 DEF SafeInv, Order, Durable
<1>8. Pinned'
    BY <1>1, <1>3 DEF SafeInv, Pinned
<1> QED BY <1>4, <1>5, <1>7, <1>8 DEF SafeInv, TypeInv

\* Persisting moves the row on, never back.
LEMMA PersistSafe == ASSUME SafeInv, NEW w \in Workers, Persist(w) PROVE SafeInv'
<1>1. UNCHANGED <<versions, latest, recoveries, hash, elapsed, losses>>
    BY DEF Persist, redisVars
<1>2. /\ DOMAIN worker' = Workers /\ worker'[w].step = "idle"
      /\ \A u \in Workers : u # w => worker'[u] = worker[u]
      /\ \A u \in Workers : Follows(u)
    BY AnsweredEffect DEF Persist, SafeInv, TypeInv
<1>3. /\ activation.gen \in 0 .. latest /\ latest \in Nat
      /\ worker[w].gen >= 1 /\ worker[w].gen \in 0 .. latest
    BY Written DEF Persist
<1>4. \A u \in Workers : worker'[u].gen \in 0 .. latest'
    BY <1>1, <1>2 DEF SafeInv, TypeInv, TypeOK, Follows
<1>5. CASE UNCHANGED <<activation, policy>>
  <2>1. TypeOK'
      BY <1>1, <1>4, <1>5 DEF SafeInv, TypeInv, TypeOK
  <2>2. Shape'
      BY <1>1, <1>2, <1>5 DEF SafeInv, TypeInv, Shape, Follows
  <2>3. Order'
      BY <1>1, <1>2, <1>5, FollowKeepsOrder DEF SafeInv, Order, Durable
  <2>4. Pinned'
      BY <1>1, <1>2, <1>5 DEF SafeInv, Pinned
  <2> QED BY <2>1, <2>2, <2>3, <2>4 DEF SafeInv, TypeInv
<1>6. CASE /\ PersistMatches(worker[w])
           /\ activation' = [activation EXCEPT !.state = NextState(worker[w].state)]
           /\ policy' = IF worker[w].state = "coordinator_armed"
                        THEN [policy EXCEPT !.active = worker[w].gen] ELSE policy
  <2>1. worker[w].state = activation.state /\ worker[w].gen = activation.gen
        /\ activation.state \in Unfinished
    <3>1. worker[w].state \in Unfinished
        BY DEF Persist, SafeInv, Order, WorkerOrder
    <3> QED BY <1>6, <3>1 DEF PersistMatches
  <2>2. /\ activation'.gen = activation.gen /\ DOMAIN activation' = DOMAIN activation
        /\ activation'.state = NextState(activation.state)
      BY <1>6, <2>1 DEF SafeInv, TypeInv, Shape
  <2>3. /\ activation.state = "desired" => activation'.state = "coordinator_staged"
        /\ activation.state = "coordinator_staged" => activation'.state = "coordinator_armed"
        /\ activation.state = "coordinator_armed" => activation'.state = "active"
        /\ activation.state = "active" => activation'.state = "finalized"
      BY <2>2 DEF NextState
  <2>4. /\ policy' \in [status : {"active", "suspended"}, desired : 0 .. latest, active : 0 .. latest]
        /\ policy'.active = IF activation.state = "coordinator_armed"
                            THEN activation.gen ELSE policy.active
      BY <1>3, <1>6, <2>1 DEF SafeInv, TypeInv, TypeOK
  <2>5. TypeOK'
    <3>1. activation'.state \in Unfinished \cup {"none", "finalized"}
        BY <2>1, <2>3 DEF Unfinished
    <3> QED BY <1>1, <1>4, <2>2, <2>4, <3>1 DEF SafeInv, TypeInv, TypeOK
  <2>6. Shape'
      BY <1>1, <1>2, <2>2 DEF SafeInv, TypeInv, Shape, Follows
  <2>7. \A u \in Workers : WorkerOrder(u)'
    <3> SUFFICES ASSUME NEW u \in Workers PROVE WorkerOrder(u)'
        OBVIOUS
    <3>2. CASE u = w
        BY <1>2, <3>2 DEF WorkerOrder, Steps, Follows, SafeInv, Order
    <3>3. CASE u # w
      <4>1. worker'[u] = worker[u] /\ WorkerOrder(u)
          BY <1>2, <3>3 DEF SafeInv, Order
      <4>2. Reached(worker[u].state) => Reached(worker[u].state)'
          BY <2>1, <2>3, <4>1 DEF Reached, Unfinished
      <4> QED BY <2>2, <4>1, <4>2 DEF WorkerOrder
    <3> QED BY <3>2, <3>3
  <2>8. Order'
    <3>1. Durable => Durable'
        BY <2>1, <2>3 DEF Durable, Unfinished
    <3>2. policy'.active # 0 /\ policy'.active = activation'.gen => Durable'
        BY <2>1, <2>2, <2>3, <2>4, <3>1 DEF SafeInv, Order, Durable
    <3> QED BY <1>1, <1>3, <2>1, <2>2, <2>7, <3>1, <3>2 DEF SafeInv, Order
  <2>9. Pinned'
    <3>1. ASSUME NEW u \in Workers, worker'[u].step = "persist",
                 worker'[u].state = "coordinator_armed", worker'[u].gen = activation'.gen,
                 activation'.state = "coordinator_armed"
          PROVE  FALSE
      <4>1. u # w /\ worker'[u] = worker[u] /\ WorkerOrder(u)
          BY <1>2, <3>1 DEF SafeInv, Order
      <4>2. activation.state = "coordinator_staged"
          BY <2>1, <2>3, <3>1 DEF Unfinished
      <4> QED BY <2>2, <3>1, <4>1, <4>2 DEF WorkerOrder, Reached
    <3> QED BY <3>1 DEF Pinned
  <2> QED BY <2>5, <2>6, <2>8, <2>9 DEF SafeInv, TypeInv
<1> QED BY <1>5, <1>6 DEF Persist

\* A new version gets a generation above everything anyone holds.
LEMMA UpdateSafe ==
    ASSUME SafeInv, NEW status \in Statuses, NEW mode \in Modes, NEW epoch \in Epochs,
           NEW tightening \in BOOLEAN, Update(status, mode, epoch, tightening)
    PROVE  SafeInv'
<1> USE ActivationAssumption
<1>1. UNCHANGED <<recoveries, hash, worker, elapsed, losses>>
    BY DEF Update, redisVars
<1>2. /\ latest \in Nat /\ latest' = latest + 1 /\ latest + 1 \in Generations
      /\ latest' \in 0 .. MaxGeneration
      /\ activation.gen \in Nat /\ activation.gen <= latest
      /\ policy.active \in Nat /\ policy.active <= latest
    BY Written DEF Update, Generations
<1>3. 0 .. latest \subseteq 0 .. latest' /\ 1 .. latest \subseteq 1 .. latest'
    BY <1>2
<1>4. \/ /\ activation'.gen = latest + 1 /\ activation'.state = "desired"
         /\ DOMAIN activation' = {"gen", "state", "deadline"}
         /\ policy' = [policy EXCEPT !.status = status, !.desired = latest + 1]
         /\ ~ActivationUnfinished
      \/ /\ UNCHANGED activation
         /\ \E a \in {policy.active, latest + 1} :
                policy' = [status |-> status, desired |-> latest + 1, active |-> a]
    BY DEF Update
<1>5. /\ policy' \in [status : {"active", "suspended"}, desired : 0 .. latest', active : 0 .. latest']
      /\ policy'.active = policy.active \/ (policy'.active = latest + 1 /\ UNCHANGED activation)
  <2>1. /\ policy \in [status : {"active", "suspended"}, desired : 0 .. latest, active : 0 .. latest]
        /\ status \in {"active", "suspended"} /\ latest + 1 \in 0 .. latest'
      BY <1>2 DEF SafeInv, TypeInv, TypeOK
  <2>2. CASE policy' = [policy EXCEPT !.status = status, !.desired = latest + 1]
      BY <1>3, <2>1, <2>2
  <2>3. CASE UNCHANGED activation
      BY <1>3, <1>4, <2>1, <2>2, <2>3
  <2> QED BY <1>4, <2>2, <2>3
<1>6. TypeOK'
  <2>1. HashTyped
      BY Written
  <2>2. activation'.gen \in 0 .. latest'
      BY <1>2, <1>4
  <2>3. activation'.state \in Unfinished \cup {"none", "finalized"}
      BY <1>4 DEF SafeInv, TypeInv, TypeOK, Unfinished
  <2>4. hash'.fence \in 0 .. latest' /\ hash'.active \in 0 .. latest'
        /\ hash'.prior \in 0 .. latest' /\ hash'.cutoff \in 0 .. latest'
        /\ hash'.state \in {"none", "staged", "armed", "active", "finalized"}
      BY <1>1, <1>3, <2>1 DEF HashTyped
  <2>5. \A w \in Workers : worker'[w].gen \in 0 .. latest'
      BY <1>1, <1>3 DEF SafeInv, TypeInv, TypeOK
  <2> QED BY <1>1, <1>2, <1>5, <2>2, <2>3, <2>4, <2>5 DEF TypeOK, SafeInv, TypeInv
<1>7. Shape'
  <2>1. /\ versions' \in [Generations -> [epoch : Epochs \cup {"none"},
                                          mode : {"enforce", "record_only", "none"}]]
        /\ versions'[latest + 1].epoch = epoch
        /\ \A g \in Generations : g # latest + 1 => versions'[g] = versions[g]
    <3>1. [epoch |-> epoch, mode |-> mode]
              \in [epoch : Epochs \cup {"none"}, mode : {"enforce", "record_only", "none"}]
        OBVIOUS
    <3>2. versions' = [versions EXCEPT ![latest + 1] = [epoch |-> epoch, mode |-> mode]]
        BY DEF Update
    <3> QED BY <1>2, <3>1, <3>2 DEF SafeInv, TypeInv, Shape
  <2>2. ASSUME NEW g \in Generations, g <= latest' PROVE versions'[g].epoch \in Epochs
    <3>1. CASE g = latest + 1
        BY <2>1, <3>1
    <3>2. CASE g # latest + 1
      <4>1. g <= latest
          BY <1>2, <2>2, <3>2 DEF Generations
      <4> QED BY <2>1, <3>2, <4>1 DEF SafeInv, TypeInv, Shape
    <3> QED BY <3>1, <3>2
  <2>3. DOMAIN activation' = {"gen", "state", "deadline"}
      BY <1>4 DEF SafeInv, TypeInv, Shape
  <2> QED BY <1>1, <2>1, <2>2, <2>3 DEF SafeInv, TypeInv, Shape
<1>8. \A w \in Workers : WorkerOrder(w)'
  <2> SUFFICES ASSUME NEW w \in Workers PROVE WorkerOrder(w)'
      OBVIOUS
  <2>1. WorkerOrder(w)
      BY DEF SafeInv, Order
  <2>2. CASE UNCHANGED activation
      BY <1>1, <2>1, <2>2 DEF WorkerOrder, Reached
  <2>3. CASE activation'.gen = latest + 1
      BY <1>1, <1>2, <2>1, <2>3 DEF WorkerOrder
  <2> QED BY <1>4, <2>2, <2>3
<1>9. Order'
  <2>1. \A r \in recoveries' : r.gen \in 1 .. latest' /\ (r.gen = activation'.gen => Durable')
      BY <1>1, <1>2, <1>3, <1>4 DEF SafeInv, Order, Durable
  <2>2. policy'.active # 0 /\ policy'.active = activation'.gen => Durable'
      BY <1>2, <1>4, <1>5 DEF SafeInv, Order, Durable
  <2>3. activation'.state # "none" => activation'.gen # 0
      BY <1>2, <1>4 DEF SafeInv, Order
  <2> QED BY <1>1, <1>8, <2>1, <2>2, <2>3 DEF SafeInv, Order
<1>10. Pinned'
  <2>1. CASE UNCHANGED activation
      BY <1>1, <2>1 DEF SafeInv, Pinned
  <2>2. CASE activation'.state = "desired"
      BY <2>2 DEF Pinned
  <2> QED BY <1>4, <2>1, <2>2
<1> QED BY <1>6, <1>7, <1>9, <1>10 DEF SafeInv, TypeInv

\* Time passing touches neither the row's state nor the hash.
LEMMA TimeSafe == ASSUME SafeInv, DeadlinePasses \/ CutoffPasses PROVE SafeInv'
<1>1. UNCHANGED <<policy, versions, latest, recoveries, hash, worker, losses>>
    BY DEF DeadlinePasses, CutoffPasses, pgVars, redisVars
<1>2. /\ activation'.gen = activation.gen /\ activation'.state = activation.state
      /\ DOMAIN activation' = DOMAIN activation /\ elapsed' \subseteq Generations
  <2>1. CASE DeadlinePasses
      BY <2>1 DEF DeadlinePasses, SafeInv, TypeInv, TypeOK, Shape
  <2>2. CASE CutoffPasses
    <3>1. activation.gen # 0 /\ UNCHANGED activation
          /\ elapsed' = elapsed \cup {activation.gen}
        BY <2>2 DEF CutoffPasses, pgVars, SafeInv, Order
    <3>2. activation.gen \in Generations
        BY <3>1, Written DEF Generations
    <3> QED BY <3>1, <3>2 DEF SafeInv, TypeInv, TypeOK
  <2> QED BY <2>1, <2>2
<1>3. TypeOK'
    BY <1>1, <1>2 DEF SafeInv, TypeInv, TypeOK
<1>4. Shape'
    BY <1>1, <1>2 DEF SafeInv, TypeInv, Shape
<1>5. Order'
    BY <1>1, <1>2 DEF SafeInv, Order, WorkerOrder, Reached, Durable
<1>6. Pinned'
    BY <1>1, <1>2 DEF SafeInv, Pinned
<1> QED BY <1>3, <1>4, <1>5, <1>6 DEF SafeInv, TypeInv

\* A recovery is recorded for the active version, which is durable.
LEMMA CreateRecoverySafe == ASSUME SafeInv, CreateRecovery PROVE SafeInv'
<1>1. UNCHANGED <<policy, versions, latest, activation, hash, worker, elapsed, losses>>
    BY DEF CreateRecovery, redisVars
<1>2. PICK n : recoveries' = recoveries \cup
          {[epoch |-> versions[policy.active].epoch, number |-> n,
            gen |-> policy.active, installed |-> FALSE]}
    BY DEF CreateRecovery
<1>3. policy.active \in 1 .. latest /\ (policy.active = activation.gen => Durable)
    BY Written DEF CreateRecovery, SafeInv, Order
<1>4. TypeOK'
    BY <1>1 DEF SafeInv, TypeInv, TypeOK
<1>5. Shape'
    BY <1>1, <1>2 DEF SafeInv, TypeInv, Shape
<1>6. \A r \in recoveries' : r.gen \in 1 .. latest /\ (r.gen = activation.gen => Durable)
    BY <1>2, <1>3 DEF SafeInv, Order
<1>7. Order'
    BY <1>1, <1>6 DEF SafeInv, Order, WorkerOrder, Reached, Durable
<1>8. Pinned'
    BY <1>1 DEF SafeInv, Pinned
<1> QED BY <1>4, <1>5, <1>7, <1>8 DEF SafeInv, TypeInv

\* A recovery cannot install over a pinned hash: its version would be durable.
LEMMA InstallRecoverySafe ==
    ASSUME SafeInv, NEW r \in recoveries, InstallRecovery(r) PROVE SafeInv'
<1>1. UNCHANGED <<policy, versions, latest, activation, worker, elapsed, losses>>
    BY DEF InstallRecovery
<1>2. r.gen \in 1 .. latest /\ (r.gen = activation.gen => Durable) /\ HashTyped
      /\ DOMAIN r = {"epoch", "number", "gen", "installed"} /\ latest \in Nat
    BY Written DEF SafeInv, Order, TypeInv, Shape
<1>3. \/ UNCHANGED hash
      \/ /\ DOMAIN hash' = DOMAIN hash
         /\ hash'.active = r.gen /\ hash'.state = "finalized" /\ hash'.fence = hash.fence
         /\ hash'.prior = hash.prior /\ hash'.cutoff = hash.cutoff
         /\ hash.active # 0 => hash.active = r.gen
    BY <1>2 DEF InstallRecovery, RecoveryAccepts, redisVars, HashTyped
<1>4. recoveries' = recoveries
      \/ recoveries' = (recoveries \ {r}) \cup {[r EXCEPT !.installed = TRUE]}
    BY DEF InstallRecovery
<1>5. \A x \in recoveries' : /\ DOMAIN x = {"epoch", "number", "gen", "installed"}
                             /\ x.gen \in 1 .. latest /\ (x.gen = activation.gen => Durable)
  <2>1. LET x == [r EXCEPT !.installed = TRUE] IN DOMAIN x = DOMAIN r /\ x.gen = r.gen
      BY <1>2
  <2> QED BY <1>2, <1>4, <2>1 DEF SafeInv, Order, TypeInv, Shape
<1>6. HashTyped'
    BY <1>1, <1>2, <1>3 DEF HashTyped
<1>7. TypeOK'
    BY <1>1, <1>6 DEF SafeInv, TypeInv, TypeOK, HashTyped
<1>8. Shape'
    BY <1>1, <1>5, <1>6 DEF SafeInv, TypeInv, Shape, HashTyped
<1>9. Order'
    BY <1>1, <1>5 DEF SafeInv, Order, WorkerOrder, Reached, Durable
<1>10. Pinned'
  <2>1. CASE UNCHANGED hash
      BY <1>1, <2>1 DEF SafeInv, Pinned
  <2>2. CASE hash.active # 0 => hash.active = r.gen
    <3>1. ASSUME losses = 0, NEW w \in Workers, worker[w].step = "persist",
                 worker[w].state = "coordinator_armed", worker[w].gen = activation.gen,
                 activation.state = "coordinator_armed"
          PROVE  FALSE
      <4>1. hash.active = activation.gen
          BY <3>1 DEF SafeInv, Pinned
      <4>2. activation.gen >= 1
          BY <3>1, Written DEF SafeInv, Order, WorkerOrder
      <4> QED BY <1>2, <2>2, <3>1, <4>1, <4>2, Written DEF Durable
    <3> QED BY <1>1, <3>1 DEF Pinned
  <2> QED BY <1>3, <2>1, <2>2
<1> QED BY <1>7, <1>8, <1>9, <1>10 DEF SafeInv, TypeInv

\* Losing the Redis state ends what Pinned promises.
LEMMA LoseStateSafe == ASSUME SafeInv, LoseState PROVE SafeInv'
<1>1. /\ UNCHANGED <<policy, versions, latest, activation, recoveries, worker, elapsed>>
      /\ hash' = EmptyHash
    BY DEF LoseState, pgVars
<1>2. HashTyped'
  <2>1. latest' \in Nat
      BY <1>1, Written
  <2> QED BY <1>1, <2>1 DEF HashTyped, EmptyHash
<1>3. TypeOK'
    BY <1>1, <1>2 DEF SafeInv, TypeInv, TypeOK, HashTyped
<1>4. Shape'
    BY <1>1, <1>2 DEF SafeInv, TypeInv, Shape, HashTyped
<1>5. Order'
  <2>1. losses' \in Nat
      BY DEF LoseState, SafeInv, Order
  <2> QED BY <1>1, <2>1 DEF SafeInv, Order, WorkerOrder, Reached, Durable
<1>6. Pinned'
  <2>1. losses \in Nat => losses' # 0
      BY DEF LoseState
  <2> QED BY <2>1 DEF Pinned, SafeInv, Order
<1> QED BY <1>3, <1>4, <1>5, <1>6 DEF SafeInv, TypeInv

-----------------------------------------------------------------------------
\* SafeInv is inductive.
LEMMA SafeStep == SafeInv /\ [Next]_vars => SafeInv'
<1> SUFFICES ASSUME SafeInv, [Next]_vars PROVE SafeInv'
    OBVIOUS
<1>1. CASE \E status \in Statuses, mode \in Modes, epoch \in Epochs, tightening \in BOOLEAN :
               Update(status, mode, epoch, tightening)
    BY <1>1, UpdateSafe
<1>2. CASE DeadlinePasses \/ CutoffPasses
    BY <1>2, TimeSafe
<1>3. ASSUME NEW w \in Workers, WorkerStep(w) \/ Abandon(w) PROVE SafeInv'
    BY <1>3, LoadSafe, StageSafe, ArmSafe, ActivateSafe, RetireSafe, FinalizeSafe,
       PersistSafe, AbandonSafe DEF WorkerStep
<1>4. CASE CreateRecovery
    BY <1>4, CreateRecoverySafe
<1>5. CASE \E r \in recoveries : InstallRecovery(r)
    BY <1>5, InstallRecoverySafe
<1>6. CASE LoseState
    BY <1>6, LoseStateSafe
<1>7. CASE UNCHANGED vars
  <2>1. UNCHANGED <<policy, versions, latest, activation, recoveries, hash, worker,
                    elapsed, losses>>
      BY <1>7 DEF vars
  <2>2. TypeOK' /\ Shape'
      BY <2>1 DEF SafeInv, TypeInv, TypeOK, Shape
  <2>3. Order' /\ Pinned'
      BY <2>1 DEF SafeInv, Order, WorkerOrder, Reached, Durable, Pinned
  <2> QED BY <2>2, <2>3 DEF SafeInv, TypeInv
<1> QED BY <1>1, <1>2, <1>3, <1>4, <1>5, <1>6, <1>7 DEF Next

\* Workers, recoveries and pointers never run ahead of the activation row, and
\* an activated candidate keeps the policy hash until it is durable.
THEOREM HandshakeInvariant == Spec => []SafeInv
BY InitSafe, SafeStep, PTL DEF Spec

\* The type invariant, for every set of workers and every bound.
THEOREM TypeCorrect == Spec => []TypeOK
<1>1. SafeInv => TypeOK
    BY DEF SafeInv, TypeInv
<1> QED BY <1>1, HandshakeInvariant, PTL

\* activate_policy_durably publishes only what Redis is allocating from,
\* whatever late workers and recoveries do in between.
THEOREM DurableActivationIsBacked == Spec => DurableAfterCoordinator
<1> DEFINE A == \A g \in Generations :
                    (activation.state = "coordinator_armed" /\ activation'.state = "active"
                        /\ policy'.active = g /\ losses = 0)
                        => hash.active = g /\ hash.state = "active"
<1>1. SafeInv /\ [Next]_vars => [A]_vars
  <2> SUFFICES ASSUME SafeInv, [Next]_vars, activation.state = "coordinator_armed",
                      activation'.state = "active", losses = 0
               PROVE  hash.active = policy'.active /\ hash.state = "active"
      OBVIOUS
  <2>1. PICK w \in Workers : Persist(w)
    <3>1. ~UNCHANGED activation
        OBVIOUS
    <3>2. activation'.state # "desired"
        OBVIOUS
    <3>3. ~DeadlinePasses
        BY DEF DeadlinePasses, SafeInv, TypeInv, Shape
    <3>4. ASSUME NEW status, NEW mode, NEW epoch, NEW tightening,
                 Update(status, mode, epoch, tightening)
          PROVE  FALSE
        BY <3>1, <3>2, <3>4 DEF Update
    <3>5. ASSUME NEW w \in Workers, Load(w) \/ Stage(w) \/ Arm(w) \/ Activate(w)
                                   \/ Retire(w) \/ Finalize(w) \/ Abandon(w)
          PROVE  FALSE
        BY <3>1, <3>5 DEF Load, Stage, Arm, Activate, Retire, Finalize, Abandon, pgVars
    <3>6. ASSUME CutoffPasses \/ CreateRecovery \/ LoseState
                 \/ \E r \in recoveries : InstallRecovery(r)
          PROVE  FALSE
        BY <3>1, <3>6 DEF CutoffPasses, CreateRecovery, LoseState, InstallRecovery, pgVars
    <3>7. Next
        BY <3>1 DEF vars
    <3> QED BY <3>3, <3>4, <3>5, <3>6, <3>7 DEF Next, WorkerStep
  <2>2. /\ PersistMatches(worker[w]) /\ worker[w].step = "persist"
        /\ policy' = IF worker[w].state = "coordinator_armed"
                     THEN [policy EXCEPT !.active = worker[w].gen] ELSE policy
      BY <2>1 DEF Persist
  <2>3. worker[w].state = "coordinator_armed" /\ worker[w].gen = activation.gen
      BY <2>2 DEF PersistMatches
  <2>4. policy'.active = activation.gen
      BY <2>2, <2>3 DEF SafeInv, TypeInv, TypeOK
  <2> QED BY <2>2, <2>3, <2>4 DEF SafeInv, Pinned
<1> QED BY <1>1, HandshakeInvariant, PTL DEF Spec, DurableAfterCoordinator

-----------------------------------------------------------------------------
(* Allocation while nothing disturbs Redis                                  *)

Calm == losses = 0 /\ recoveries = {} /\ ~late

\* Nobody has heard of a recovery generation.
NoRecovery ==
    /\ \A w \in Workers : worker[w].recovery = 0
    /\ hash.desiredRecovery = 0 /\ hash.activeRecovery = 0 /\ hash.priorRecovery = 0
    /\ DOMAIN ledger = Epochs
    /\ \A e \in Epochs : ledger[e].present => ledger[e].recovery = 0

\* The policy hash is at most one script ahead of the activation row.
RowPhase ==
    LET g == activation.gen IN
    /\ activation.state = "none" => hash.fence = 0
    /\ activation.state = "desired" => hash.fence = 0 \/ (hash.fence = g /\ hash.state = "staged")
    /\ activation.state = "coordinator_staged" =>
           hash.fence = g /\ hash.state \in {"staged", "armed"}
    /\ activation.state = "coordinator_armed" =>
           /\ hash.fence = g
           /\ \/ hash.state = "armed"
              \/ hash.state = "active" /\ hash.active = g /\ hash.cutoff = 0
    /\ activation.state = "active" =>
           /\ hash.active = g
           /\ (hash.fence = g /\ hash.state = "active") \/ (hash.fence = 0 /\ hash.state = "finalized")
    /\ activation.state = "finalized" =>
           hash.active = g /\ hash.fence = 0 /\ hash.state = "finalized"

\* The version PostgreSQL enforces is the active one of the hash, or the prior
\* one while the row does not record the activation yet.
Pointer ==
    Enforced => \/ hash.active = policy.active
                \/ /\ activation.state = "coordinator_armed"
                   /\ hash.state = "active" /\ hash.prior = policy.active

HasLedger(g) == g # 0 => ledger[versions[g].epoch].present
Backed == HasLedger(hash.active) /\ HasLedger(hash.prior) /\ HasLedger(hash.fence)

Phase == NoRecovery /\ RowPhase /\ Pointer /\ Backed

\* Init has an empty hash, no row and no enforced version.
LEMMA InitCalm == Init => Phase
<1> SUFFICES ASSUME Init PROVE Phase
    OBVIOUS
<1> USE DEF Init, EmptyHash, Idle, NoLedger
<1>1. NoRecovery
    BY DEF NoRecovery
<1>2. RowPhase
    BY DEF RowPhase
<1>3. Pointer
    BY DEF Pointer, Enforced
<1>4. Backed
    BY DEF Backed, HasLedger
<1> QED BY <1>1, <1>2, <1>3, <1>4 DEF Phase

\* Without recoveries the highest generation is zero.
LEMMA NoRecoveryIsZero ==
    ASSUME recoveries = {}
    PROVE  /\ \A e : HighestRecovery(e) = 0
           /\ \A g : SnapshotRecovery(g) = 0
<1>1. Max({0}) = 0
    BY DEF Max
<1>2. ASSUME NEW e PROVE HighestRecovery(e) = 0
  <2>1. {r.number : r \in {x \in recoveries : x.epoch = e}} = {}
      OBVIOUS
  <2> QED BY <1>1, <2>1 DEF HighestRecovery
<1>3. ASSUME NEW g PROVE SnapshotRecovery(g) = 0
  <2>1. {r.number : r \in {x \in recoveries : x.epoch = versions[g].epoch /\ x.gen = g}} = {}
      OBVIOUS
  <2>2. {0} \cup {} = {0}
      OBVIOUS
  <2> QED BY <1>1, <2>1, <2>2 DEF SnapshotRecovery
<1> QED BY <1>2, <1>3

\* A candidate in the hash is the current one, and so is a worker it matches.
LEMMA CalmFence ==
    ASSUME SafeInv, Phase
    PROVE  /\ hash.fence \in {0, activation.gen}
           /\ \A w \in Workers : worker[w].step # "idle" /\ hash.fence = worker[w].gen =>
                  worker[w].gen = activation.gen /\ Reached(worker[w].state)
<1>1. hash.fence \in {0, activation.gen}
    BY DEF SafeInv, TypeInv, TypeOK, Unfinished, Phase, RowPhase
<1> QED BY <1>1, Written DEF SafeInv, Order, WorkerOrder

\* Steps that leave PostgreSQL and Redis alone keep the phase.
LEMMA CalmUnchanged ==
    ASSUME SafeInv, Phase, UNCHANGED <<policy, versions, activation, hash, ledger>>,
           \A w \in Workers : worker'[w].recovery \in {0, worker[w].recovery}
    PROVE  Phase'
<1>1. NoRecovery'
    BY DEF Phase, NoRecovery
<1>2. RowPhase'
    BY DEF Phase, RowPhase
<1>3. Pointer'
    BY DEF Phase, Pointer, Enforced
<1>4. Backed'
    BY DEF Phase, Backed, HasLedger
<1> QED BY <1>1, <1>2, <1>3, <1>4 DEF Phase

\* A script that rewrites the hash keeps the phase if the parts of it do.
LEMMA CalmAnswered ==
    ASSUME SafeInv, Phase, NEW w \in Workers, worker[w].step # "idle",
           NEW step, Answered(w, step),
           step \in {"idle", "persist"} \/ (step = "finalize" /\ worker[w].state = "active")
    PROVE  \A u \in Workers : worker'[u].recovery = 0
<1>1. \A u \in Workers : Follows(u)
    BY AnsweredEffect DEF SafeInv, TypeInv
<1> QED BY <1>1 DEF Follows, Phase, NoRecovery

\* STAGE: the candidate is still desired, or the hash already holds it.
LEMMA StageCalm ==
    ASSUME SafeInv, Phase, ~late', NEW w \in Workers, Stage(w) PROVE Phase'
<1>1. /\ UNCHANGED <<policy, versions, latest, activation, recoveries, losses>>
      /\ worker[w].step # "idle" /\ worker[w].state = "desired"
    BY DEF Stage, Calls, pgVars
<1>2. CASE Answered(w, "idle") /\ UNCHANGED <<hash, ledger>>
    BY <1>1, <1>2, CalmAnswered, CalmUnchanged
<1>3. CASE /\ StageAccepts(worker[w]) /\ hash' = StagedHash(worker[w])
           /\ ledger' = StagedLedger(worker[w]) /\ Answered(w, "persist")
  <2>0. \A u \in Workers : worker'[u].recovery = 0
      BY <1>1, <1>3, CalmAnswered
  <2>1. CASE hash.fence # 0
    <3>1. hash' = hash /\ ledger' = ledger
        BY <1>3, <2>1 DEF StagedHash, StagedLedger
    <3> QED BY <1>1, <2>0, <3>1, CalmUnchanged
  <2>2. CASE hash.fence = 0
    <3>1. Fields(hash', "staged", worker[w].gen, hash.active, hash.prior, hash.cutoff,
                 worker[w].recovery, hash.activeRecovery, hash.priorRecovery)
        BY <1>3, <2>2, Written, HashFields
    <3>2. worker[w].gen = activation.gen /\ activation.state = "desired"
        BY <2>2 DEF Stage, StageAccepts, StillDesired
    <3>3. /\ worker[w].gen \in Generations /\ worker[w].gen <= latest
          /\ worker[w].recovery = 0
        BY <1>1, Written DEF Generations, Phase, NoRecovery
    <3>4. versions[worker[w].gen].epoch \in Epochs
        BY <3>3 DEF SafeInv, TypeInv, Shape
    <3>5. /\ DOMAIN ledger' = Epochs /\ ledger'[versions[worker[w].gen].epoch].present
          /\ \A e \in Epochs : ledger[e].present => ledger'[e] = ledger[e]
          /\ \A e \in Epochs : ledger'[e].present => ledger'[e].recovery = 0
      <4>1. CASE ledger[versions[worker[w].gen].epoch].present
          BY <1>3, <3>4, <4>1 DEF StagedLedger, Phase, NoRecovery
      <4>2. CASE ~ledger[versions[worker[w].gen].epoch].present
        <5>1. ledger' = [ledger EXCEPT ![versions[worker[w].gen].epoch] =
                  [present |-> TRUE, recovery |-> worker[w].recovery, opened |-> "uncharged"]]
            BY <1>3, <2>2, <4>2 DEF StagedLedger
        <5> QED BY <3>3, <3>4, <4>2, <5>1 DEF Phase, NoRecovery
      <4> QED BY <4>1, <4>2
    <3>6. NoRecovery'
        BY <2>0, <3>1, <3>3, <3>5 DEF Phase, NoRecovery, Fields
    <3>7. RowPhase'
        BY <1>1, <3>1, <3>2 DEF RowPhase, Fields
    <3>8. Pointer'
        BY <1>1, <3>1, <3>2 DEF Phase, Pointer, Enforced, Fields
    <3>9. Backed'
      <4>1. \A g \in 1 .. latest : versions[g].epoch \in Epochs
          BY Written DEF SafeInv, TypeInv, Shape, Generations
      <4>2. hash.active \in 0 .. latest /\ hash.prior \in 0 .. latest /\ latest \in Nat
          BY Written DEF HashTyped
      <4>3. HasLedger(hash.active)' /\ HasLedger(hash.prior)'
          BY <1>1, <3>1, <3>5, <4>1, <4>2 DEF Phase, Backed, HasLedger, Fields
      <4>4. HasLedger(hash.fence)'
          BY <1>1, <3>1, <3>5 DEF HasLedger, Fields
      <4> QED BY <4>3, <4>4 DEF Backed
    <3> QED BY <3>6, <3>7, <3>8, <3>9 DEF Phase
  <2> QED BY <2>1, <2>2
<1> QED BY <1>2, <1>3 DEF Stage, redisVars

\* ARM: the row is staged or armed, so the hash may be armed.
LEMMA ArmCalm == ASSUME SafeInv, Phase, NEW w \in Workers, Arm(w) PROVE Phase'
<1>1. /\ UNCHANGED <<policy, versions, latest, activation, recoveries, losses, ledger>>
      /\ worker[w].step # "idle"
    BY DEF Arm, Calls, pgVars
<1>2. CASE Answered(w, "idle") /\ UNCHANGED hash
    BY <1>1, <1>2, CalmAnswered, CalmUnchanged
<1>3. CASE ArmAccepts(worker[w]) /\ hash' = ArmedHash /\ Answered(w, "persist")
  <2>1. \A u \in Workers : worker'[u].recovery = 0
      BY <1>1, <1>3, CalmAnswered
  <2>2. Fields(hash', "armed", hash.fence, hash.active, hash.prior, hash.cutoff,
               hash.desiredRecovery, hash.activeRecovery, hash.priorRecovery)
      BY <1>3, Written, HashFields
  <2>3. /\ activation.state \in {"coordinator_staged", "coordinator_armed"}
        /\ hash.fence = activation.gen /\ hash.state # "active"
    <3>1. hash.fence = worker[w].gen /\ hash.state \in {"staged", "armed"}
          /\ worker[w].state = "coordinator_staged"
        BY <1>3 DEF Arm, Calls, ArmAccepts
    <3>2. worker[w].gen = activation.gen /\ Reached(worker[w].state) /\ worker[w].gen >= 1
        BY <1>1, <3>1, CalmFence, Written
    <3> QED BY <3>1, <3>2 DEF Reached, Phase, RowPhase
  <2>4. NoRecovery'
      BY <1>1, <2>1, <2>2 DEF Phase, NoRecovery, Fields
  <2>5. RowPhase'
      BY <1>1, <2>2, <2>3 DEF Phase, RowPhase, Fields
  <2>6. Pointer'
      BY <1>1, <2>2, <2>3 DEF Phase, Pointer, Enforced, RowPhase, Fields
  <2>7. Backed'
      BY <1>1, <2>2, <2>3 DEF Phase, Backed, HasLedger, Fields
  <2> QED BY <2>4, <2>5, <2>6, <2>7 DEF Phase
<1> QED BY <1>2, <1>3 DEF Arm

\* ACTIVATE: the version PostgreSQL enforces becomes the prior one.
LEMMA ActivateCalm == ASSUME SafeInv, Phase, NEW w \in Workers, Activate(w) PROVE Phase'
<1>1. /\ UNCHANGED <<policy, versions, latest, activation, recoveries, losses, ledger>>
      /\ worker[w].step # "idle"
    BY DEF Activate, Calls, pgVars
<1>2. CASE Answered(w, "idle") /\ UNCHANGED hash
    BY <1>1, <1>2, CalmAnswered, CalmUnchanged
<1>3. CASE ActivateAccepts(worker[w]) /\ hash' = ActivatedHash(worker[w])
           /\ Answered(w, "persist")
  <2>1. \A u \in Workers : worker'[u].recovery = 0
      BY <1>1, <1>3, CalmAnswered
  <2>2. CASE AlreadyActivated(worker[w])
      BY <1>1, <1>3, <2>1, <2>2, CalmUnchanged DEF ActivatedHash
  <2>3. CASE ~AlreadyActivated(worker[w])
    <3>1. Fields(hash', "active", hash.fence, worker[w].gen, hash.active, 0,
                 hash.desiredRecovery, worker[w].recovery, hash.activeRecovery)
        BY <1>3, <2>3, Written, HashFields
    <3>2. hash.fence = worker[w].gen /\ hash.state = "armed"
          /\ worker[w].state = "coordinator_armed"
        BY <1>3, <2>3 DEF Activate, Calls, ActivateAccepts
    <3>3. worker[w].gen = activation.gen /\ activation.state = "coordinator_armed"
      <4>1. worker[w].gen = activation.gen /\ Reached(worker[w].state) /\ worker[w].gen >= 1
          BY <1>1, <3>2, CalmFence, Written
      <4> QED BY <3>2, <4>1 DEF Reached, Phase, RowPhase
    <3>4. NoRecovery'
        BY <1>1, <2>1, <3>1 DEF Phase, NoRecovery, Fields
    <3>5. RowPhase'
        BY <1>1, <3>1, <3>2, <3>3 DEF Phase, RowPhase, Fields
    <3>6. Pointer'
        BY <1>1, <3>1, <3>2, <3>3 DEF Phase, Pointer, Enforced, Fields
    <3>7. Backed'
        BY <1>1, <3>1, <3>2 DEF Phase, Backed, HasLedger, Fields
    <3> QED BY <3>4, <3>5, <3>6, <3>7 DEF Phase
  <2> QED BY <2>2, <2>3
<1> QED BY <1>2, <1>3 DEF Activate

\* RETIRE: the row is durable, so the cutoff binds no enforced version.
LEMMA RetireCalm == ASSUME SafeInv, Phase, NEW w \in Workers, Retire(w) PROVE Phase'
<1>1. /\ UNCHANGED <<policy, versions, latest, activation, recoveries, losses, ledger>>
      /\ worker[w].step # "idle" /\ worker[w].state = "active"
    BY DEF Retire, Calls, pgVars
<1>2. CASE Answered(w, "idle") /\ UNCHANGED hash
    BY <1>1, <1>2, CalmAnswered, CalmUnchanged
<1>3. CASE /\ RetireAccepts(worker[w]) /\ hash' = RetiringHash(worker[w])
           /\ \E step \in {"idle", "finalize"} : Answered(w, step)
  <2>1. \A u \in Workers : worker'[u].recovery = 0
      BY <1>1, <1>3, CalmAnswered
  <2>2. Fields(hash', hash.state, hash.fence, hash.active, hash.prior, worker[w].gen,
               hash.desiredRecovery, hash.activeRecovery, hash.priorRecovery)
      BY <1>3, Written, HashFields
  <2>3. activation.state = "active"
    <3>1. hash.fence = worker[w].gen
        BY <1>3 DEF RetireAccepts
    <3>2. worker[w].gen = activation.gen /\ Reached(worker[w].state) /\ worker[w].gen >= 1
        BY <1>1, <3>1, CalmFence, Written
    <3> QED BY <1>1, <3>1, <3>2 DEF Reached, Phase, RowPhase
  <2>4. NoRecovery'
      BY <1>1, <2>1, <2>2 DEF Phase, NoRecovery, Fields
  <2>5. RowPhase'
      BY <1>1, <2>2, <2>3 DEF Phase, RowPhase, Fields
  <2>6. Pointer'
      BY <1>1, <2>2, <2>3 DEF Phase, Pointer, Enforced, RowPhase, Fields
  <2>7. Backed'
      BY <1>1, <2>2, <2>3 DEF Phase, Backed, HasLedger, Fields
  <2> QED BY <2>4, <2>5, <2>6, <2>7 DEF Phase
<1> QED BY <1>2, <1>3 DEF Retire

\* FINALIZE: the row is durable and only its version stays in the hash.
LEMMA FinalizeCalm == ASSUME SafeInv, Phase, NEW w \in Workers, Finalize(w) PROVE Phase'
<1>1. /\ UNCHANGED <<policy, versions, latest, activation, recoveries, losses, ledger>>
      /\ worker[w].step # "idle" /\ worker[w].state = "active"
    BY DEF Finalize, Calls, pgVars, SafeInv, Order, WorkerOrder
<1>2. CASE Answered(w, "idle") /\ UNCHANGED hash
    BY <1>1, <1>2, CalmAnswered, CalmUnchanged
<1>3. CASE FinalizeAccepts(worker[w]) /\ hash' = FinalizedHash /\ Answered(w, "persist")
  <2>1. \A u \in Workers : worker'[u].recovery = 0
      BY <1>1, <1>3, CalmAnswered
  <2>2. Fields(hash', "finalized", 0, hash.active, 0, 0, 0, hash.activeRecovery, 0)
      BY <1>3, Written, HashFields
  <2>3. activation.state = "active"
    <3>1. hash.fence = worker[w].gen
        BY <1>3 DEF FinalizeAccepts
    <3>2. worker[w].gen = activation.gen /\ Reached(worker[w].state) /\ worker[w].gen >= 1
        BY <1>1, <3>1, CalmFence, Written
    <3> QED BY <1>1, <3>1, <3>2 DEF Reached, Phase, RowPhase
  <2>4. NoRecovery'
      BY <1>1, <2>1, <2>2 DEF Phase, NoRecovery, Fields
  <2>5. RowPhase'
      BY <1>1, <2>2, <2>3 DEF Phase, RowPhase, Fields
  <2>6. Pointer'
      BY <1>1, <2>2, <2>3 DEF Phase, Pointer, Enforced, RowPhase, Fields
  <2>7. Backed'
      BY <1>1, <2>2, <2>3 DEF Phase, Backed, HasLedger, Fields
  <2> QED BY <2>4, <2>5, <2>6, <2>7 DEF Phase
<1> QED BY <1>2, <1>3 DEF Finalize

-----------------------------------------------------------------------------
(* A worker that is about to persist has run its script                     *)

\* The script that moves the row on has left its mark in the hash.
Ran ==
    /\ activation.state = "desired" => hash.fence # 0
    /\ activation.state = "coordinator_staged" => hash.state = "armed"
    /\ activation.state = "active" => hash.fence = 0

\* A worker whose persist would match the row.
Confirms(w) ==
    /\ worker[w].step = "persist" /\ worker[w].gen = activation.gen
    /\ worker[w].state = activation.state

Answers == \A w \in Workers : Confirms(w) => Ran
QuietInv == Calm => Phase /\ Answers

\* A call keeps Answers if it keeps the mark, and leaves one when it succeeds.
LEMMA CallAnswers ==
    ASSUME SafeInv, Answers, NEW w \in Workers, worker[w].step # "idle",
           NEW step, Answered(w, step),
           step \in {"idle", "persist"} \/ (step = "finalize" /\ worker[w].state = "active"),
           UNCHANGED activation, Ran => Ran',
           step = "persist" /\ worker[w].gen = activation.gen
               /\ worker[w].state = activation.state => Ran'
    PROVE  Answers'
<1>1. /\ worker'[w].step = step /\ \A u \in Workers : Follows(u)
      /\ \A u \in Workers : u # w => worker'[u] = worker[u]
    BY AnsweredEffect DEF SafeInv, TypeInv
<1>2. ASSUME NEW u \in Workers, Confirms(u)' PROVE Ran'
  <2>1. CASE u = w
      BY <1>1, <1>2, <2>1 DEF Confirms, Follows
  <2>2. CASE u # w
      BY <1>1, <1>2, <2>2 DEF Confirms, Answers
  <2> QED BY <2>1, <2>2
<1> QED BY <1>2 DEF Answers

\* A worker that gets a conflict or gives up leaves every mark alone.
LEMMA IdleAnswers ==
    ASSUME SafeInv, Answers, NEW w \in Workers, worker[w].step # "idle",
           Answered(w, "idle"), UNCHANGED <<activation, hash>>
    PROVE  Answers'
<1>1. Ran => Ran'
    BY DEF Ran
<1> QED BY <1>1, CallAnswers

\* An accepted STAGE leaves its candidate in the hash.
LEMMA StageAnswers ==
    ASSUME SafeInv, Phase, Answers, ~late', NEW w \in Workers, Stage(w) PROVE Answers'
<1>1. UNCHANGED activation /\ worker[w].step # "idle" /\ worker[w].state = "desired"
    BY DEF Stage, Calls, pgVars
<1>2. CASE Answered(w, "idle") /\ UNCHANGED hash
    BY <1>1, <1>2, IdleAnswers
<1>3. CASE StageAccepts(worker[w]) /\ hash' = StagedHash(worker[w]) /\ Answered(w, "persist")
  <2>1. CASE hash.fence # 0
    <3>1. hash' = hash
        BY <1>3, <2>1 DEF StagedHash
    <3>2. Ran => Ran'
        BY <1>1, <3>1 DEF Ran
    <3>3. worker[w].state = activation.state => Ran'
        BY <1>1, <2>1, <3>1 DEF Ran
    <3> QED BY <1>1, <1>3, <3>2, <3>3, CallAnswers
  <2>2. CASE hash.fence = 0
    <3>1. Fields(hash', "staged", worker[w].gen, hash.active, hash.prior, hash.cutoff,
                 worker[w].recovery, hash.activeRecovery, hash.priorRecovery)
        BY <1>3, <2>2, Written, HashFields
    <3>2. activation.state = "desired" /\ worker[w].gen >= 1
        BY <1>1, <2>2, Written DEF Stage, StageAccepts, StillDesired
    <3>3. hash'.fence # 0
        BY <3>1, <3>2, Written DEF Fields
    <3>4. Ran'
        BY <1>1, <3>2, <3>3 DEF Ran
    <3> QED BY <1>1, <1>3, <3>4, CallAnswers
  <2> QED BY <2>1, <2>2
<1> QED BY <1>2, <1>3 DEF Stage, redisVars

\* An accepted ARM leaves the hash armed.
LEMMA ArmAnswers ==
    ASSUME SafeInv, Phase, Answers, NEW w \in Workers, Arm(w) PROVE Answers'
<1>1. /\ UNCHANGED activation /\ worker[w].step # "idle"
      /\ worker[w].state = "coordinator_staged"
    BY DEF Arm, Calls, pgVars
<1>2. CASE Answered(w, "idle") /\ UNCHANGED hash
    BY <1>1, <1>2, IdleAnswers
<1>3. CASE ArmAccepts(worker[w]) /\ hash' = ArmedHash /\ Answered(w, "persist")
  <2>1. hash'.state = "armed" /\ hash'.fence = hash.fence
      BY <1>3, Written, HashFields DEF Fields
  <2>2. Ran => Ran'
      BY <1>1, <2>1 DEF Ran
  <2>3. worker[w].state = activation.state => Ran'
      BY <1>1, <2>1 DEF Ran
  <2> QED BY <1>1, <1>3, <2>2, <2>3, CallAnswers
<1> QED BY <1>2, <1>3 DEF Arm

\* ACTIVATE only runs for an armed row, which has no mark of its own.
LEMMA ActivateAnswers ==
    ASSUME SafeInv, Phase, Answers, NEW w \in Workers, Activate(w) PROVE Answers'
<1>1. /\ UNCHANGED activation /\ worker[w].step # "idle"
      /\ worker[w].state = "coordinator_armed"
    BY DEF Activate, Calls, pgVars
<1>2. CASE Answered(w, "idle") /\ UNCHANGED hash
    BY <1>1, <1>2, IdleAnswers
<1>3. CASE ActivateAccepts(worker[w]) /\ hash' = ActivatedHash(worker[w])
           /\ Answered(w, "persist")
  <2>1. hash'.fence = hash.fence
    <3>1. CASE AlreadyActivated(worker[w])
        BY <1>3, <3>1 DEF ActivatedHash
    <3>2. CASE ~AlreadyActivated(worker[w])
        BY <1>3, <3>2, Written, HashFields DEF Fields
    <3> QED BY <3>1, <3>2
  <2>2. activation.state # "coordinator_staged"
    <3>1. hash.fence = worker[w].gen
        BY <1>3 DEF ActivateAccepts
    <3>2. Reached(worker[w].state)
        BY <1>1, <3>1, CalmFence
    <3> QED BY <1>1, <3>2 DEF Reached
  <2>3. Ran => Ran'
      BY <1>1, <2>1, <2>2 DEF Ran
  <2>4. worker[w].state = activation.state => Ran'
      BY <1>1, <2>1 DEF Ran
  <2> QED BY <1>1, <1>3, <2>3, <2>4, CallAnswers
<1> QED BY <1>2, <1>3 DEF Activate

\* RETIRE leaves the state and the candidate alone.
LEMMA RetireAnswers ==
    ASSUME SafeInv, Phase, Answers, NEW w \in Workers, Retire(w) PROVE Answers'
<1>1. UNCHANGED activation /\ worker[w].step # "idle" /\ worker[w].state = "active"
    BY DEF Retire, Calls, pgVars
<1>2. CASE Answered(w, "idle") /\ UNCHANGED hash
    BY <1>1, <1>2, IdleAnswers
<1>3. CASE /\ hash' = RetiringHash(worker[w])
           /\ \E step \in {"idle", "finalize"} : Answered(w, step)
  <2>1. hash'.state = hash.state /\ hash'.fence = hash.fence
      BY <1>3, Written, HashFields DEF Fields
  <2>2. Ran => Ran'
      BY <1>1, <2>1 DEF Ran
  <2> QED BY <1>1, <1>3, <2>2, CallAnswers
<1> QED BY <1>2, <1>3 DEF Retire

\* An accepted FINALIZE removes the candidate of an active row.
LEMMA FinalizeAnswers ==
    ASSUME SafeInv, Phase, Answers, NEW w \in Workers, Finalize(w) PROVE Answers'
<1>1. UNCHANGED activation /\ worker[w].step # "idle" /\ worker[w].state = "active"
    BY DEF Finalize, Calls, pgVars, SafeInv, Order, WorkerOrder
<1>2. CASE Answered(w, "idle") /\ UNCHANGED hash
    BY <1>1, <1>2, IdleAnswers
<1>3. CASE FinalizeAccepts(worker[w]) /\ hash' = FinalizedHash /\ Answered(w, "persist")
  <2>1. hash'.fence = 0
      BY <1>3, Written, HashFields DEF Fields
  <2>2. activation.state \in {"active", "finalized"}
    <3>1. hash.fence = worker[w].gen
        BY <1>3 DEF FinalizeAccepts
    <3>2. Reached(worker[w].state)
        BY <1>1, <3>1, CalmFence
    <3> QED BY <1>1, <3>2 DEF Reached
  <2>3. Ran'
      BY <1>1, <2>1, <2>2 DEF Ran
  <2> QED BY <1>1, <1>3, <2>3, CallAnswers
<1> QED BY <1>2, <1>3 DEF Finalize

-----------------------------------------------------------------------------
(* Steps that change PostgreSQL, and the two theorems                       *)

\* Without recoveries a worker loads recovery generation zero.
LEMMA LoadCalm ==
    ASSUME SafeInv, Phase, Answers, recoveries = {}, NEW w \in Workers, Load(w)
    PROVE  Phase' /\ Answers'
<1>1. UNCHANGED <<policy, versions, activation, hash, ledger>>
    BY DEF Load, pgVars, redisVars
<1>2. /\ worker'[w].step = "call" /\ worker'[w].recovery = 0
      /\ \A u \in Workers : u # w => worker'[u] = worker[u]
  <2>1. HighestRecovery(versions[activation.gen].epoch) = 0
      BY NoRecoveryIsZero
  <2> QED BY <2>1 DEF Load, SafeInv, TypeInv, Shape
<1>3. Phase'
    BY <1>1, <1>2, CalmUnchanged
<1>4. Answers'
  <2>1. ASSUME NEW u \in Workers, Confirms(u)' PROVE Ran'
    <3>1. u # w
        BY <1>2, <2>1 DEF Confirms
    <3>2. Confirms(u)
        BY <1>1, <1>2, <2>1, <3>1 DEF Confirms
    <3> QED BY <1>1, <3>2 DEF Answers, Ran
  <2> QED BY <2>1 DEF Answers
<1> QED BY <1>3, <1>4

\* A worker that gives up changes nothing the phase speaks of.
LEMMA AbandonCalm ==
    ASSUME SafeInv, Phase, Answers, NEW w \in Workers, Abandon(w) PROVE Phase' /\ Answers'
<1>1. /\ UNCHANGED <<policy, versions, activation, hash, ledger>>
      /\ worker[w].step # "idle" /\ Answered(w, "idle")
    BY DEF Abandon, pgVars, redisVars
<1>2. Phase'
    BY <1>1, CalmAnswered, CalmUnchanged
<1> QED BY <1>1, <1>2, IdleAnswers

\* The row moves on only to where the hash already is.
LEMMA PersistCalm ==
    ASSUME SafeInv, Phase, Answers, losses = 0, NEW w \in Workers, Persist(w)
    PROVE  Phase' /\ Answers'
<1>1. /\ UNCHANGED <<versions, hash, ledger>> /\ worker[w].step = "persist"
      /\ Answered(w, "idle")
    BY DEF Persist, redisVars
<1>2. CASE UNCHANGED <<activation, policy>>
    BY <1>1, <1>2, CalmAnswered, CalmUnchanged, IdleAnswers
<1>3. CASE /\ PersistMatches(worker[w])
           /\ activation' = [activation EXCEPT !.state = NextState(worker[w].state)]
           /\ policy' = IF worker[w].state = "coordinator_armed"
                        THEN [policy EXCEPT !.active = worker[w].gen] ELSE policy
  <2>1. /\ worker[w].state = activation.state /\ worker[w].gen = activation.gen
        /\ activation.state \in Unfinished
    <3>1. worker[w].state \in Unfinished
        BY <1>1 DEF SafeInv, Order, WorkerOrder
    <3> QED BY <1>3, <3>1 DEF PersistMatches
  <2>2. activation'.gen = activation.gen /\ activation'.state = NextState(activation.state)
      BY <1>3, <2>1 DEF SafeInv, TypeInv, Shape
  <2>3. /\ activation.state = "desired" => activation'.state = "coordinator_staged"
        /\ activation.state = "coordinator_staged" => activation'.state = "coordinator_armed"
        /\ activation.state = "coordinator_armed" => activation'.state = "active"
        /\ activation.state = "active" => activation'.state = "finalized"
      BY <2>2 DEF NextState
  <2>4. /\ activation.state = "coordinator_armed" => policy'.active = activation.gen
        /\ activation.state # "coordinator_armed" => policy' = policy
      BY <1>3, <2>1 DEF SafeInv, TypeInv, TypeOK
  <2>5. Ran
      BY <1>1, <2>1 DEF Answers, Confirms
  <2>6. activation.state = "coordinator_armed" =>
            hash.fence = activation.gen /\ hash.active = activation.gen /\ hash.state = "active"
      BY <1>1, <2>1 DEF SafeInv, Pinned
  <2>7. NoRecovery'
    <3>1. \A u \in Workers : worker'[u].recovery = 0
        BY <1>1, CalmAnswered
    <3> QED BY <1>1, <3>1 DEF Phase, NoRecovery
  <2>8. RowPhase'
    <3>1. CASE activation.state = "desired"
        BY <1>1, <2>2, <2>3, <2>5, <3>1 DEF Phase, RowPhase, Ran
    <3>2. CASE activation.state = "coordinator_staged"
        BY <1>1, <2>2, <2>3, <2>5, <3>2 DEF Phase, RowPhase, Ran
    <3>3. CASE activation.state = "coordinator_armed"
        BY <1>1, <2>2, <2>3, <2>6, <3>3 DEF RowPhase
    <3>4. CASE activation.state = "active"
      <4>1. hash.fence = 0 /\ hash.active = activation.gen
          BY <2>5, <3>4 DEF Phase, RowPhase, Ran
      <4>2. hash.state = "finalized"
          BY <1>1, <2>1, <3>4, <4>1, Written DEF Phase, RowPhase
      <4> QED BY <1>1, <2>2, <2>3, <3>4, <4>1, <4>2 DEF RowPhase
    <3> QED BY <2>1, <3>1, <3>2, <3>3, <3>4 DEF Unfinished
  <2>9. Pointer'
    <3>1. CASE activation.state = "coordinator_armed"
        BY <1>1, <2>4, <2>6, <3>1 DEF Pointer, Enforced
    <3>2. CASE activation.state # "coordinator_armed"
        BY <1>1, <2>4, <3>2 DEF Phase, Pointer, Enforced
    <3> QED BY <3>1, <3>2
  <2>10. Backed'
      BY <1>1 DEF Phase, Backed, HasLedger
  <2>11. Answers'
    <3>1. ASSUME NEW u \in Workers, Confirms(u)' PROVE FALSE
      <4>1. u # w /\ worker'[u] = worker[u] /\ WorkerOrder(u)
          BY <1>1, <3>1, AnsweredEffect DEF Confirms, SafeInv, TypeInv, Order
      <4>2. worker[u].step # "idle" /\ worker[u].gen = activation.gen
            /\ worker[u].state = activation'.state
          BY <2>2, <3>1, <4>1 DEF Confirms
      <4>3. Reached(worker[u].state) /\ worker[u].state \in Unfinished \cup {"none"}
          BY <4>1, <4>2 DEF WorkerOrder
      <4> QED BY <2>1, <2>3, <4>2, <4>3 DEF Reached, Unfinished
    <3> QED BY <3>1 DEF Answers
  <2> QED BY <2>7, <2>8, <2>9, <2>10, <2>11 DEF Phase
<1> QED BY <1>2, <1>3 DEF Persist

\* A new version starts its activation on a hash without candidate, and a
\* version published directly is not enforced.
LEMMA UpdateCalm ==
    ASSUME SafeInv, Phase, Answers, NEW status \in Statuses, NEW mode \in Modes,
           NEW epoch \in Epochs, NEW tightening \in BOOLEAN,
           Update(status, mode, epoch, tightening)
    PROVE  Phase' /\ Answers'
<1>1. UNCHANGED <<hash, ledger, worker>>
    BY DEF Update, redisVars
<1>2. /\ latest + 1 \in Generations
      /\ versions' = [versions EXCEPT ![latest + 1] = [epoch |-> epoch, mode |-> mode]]
    BY Written DEF Update, Generations
<1>3. \A g \in 1 .. latest : versions'[g] = versions[g]
    BY <1>2, Written DEF SafeInv, TypeInv, Shape, Generations
<1>4. versions'[latest + 1].mode = mode
    BY <1>2 DEF SafeInv, TypeInv, Shape
<1>5. NoRecovery'
    BY <1>1 DEF Phase, NoRecovery
<1>6. Backed'
  <2>1. /\ hash.active \in 0 .. latest /\ hash.prior \in 0 .. latest
        /\ hash.fence \in 0 .. latest /\ latest \in Nat
      BY Written DEF HashTyped
  <2> QED BY <1>1, <1>3, <2>1 DEF Phase, Backed, HasLedger
<1>7. policy'.active = policy.active => (Enforced' <=> Enforced)
    BY <1>3, Written DEF Enforced
<1>8. CASE /\ ~ActivationUnfinished
           /\ policy' = [policy EXCEPT !.status = status, !.desired = latest + 1]
           /\ activation' = [gen |-> latest + 1, state |-> "desired",
                             deadline |-> IF tightening THEN "open" ELSE "none"]
  <2>1. activation'.gen = latest + 1 /\ activation'.state = "desired"
      BY <1>8
  <2>2. policy'.active = policy.active
      BY <1>8 DEF SafeInv, TypeInv, TypeOK
  <2>3. activation.state \in {"none", "finalized"}
      BY <1>8 DEF ActivationUnfinished, Unfinished, SafeInv, TypeInv, TypeOK
  <2>4. RowPhase'
    <3>1. hash.fence = 0
        BY <2>3 DEF Phase, RowPhase
    <3> QED BY <1>1, <2>1, <3>1 DEF RowPhase
  <2>5. Pointer'
      BY <1>1, <1>7, <2>2, <2>3 DEF Phase, Pointer
  <2>6. Answers'
    <3>1. ASSUME NEW u \in Workers, Confirms(u)' PROVE FALSE
        BY <1>1, <2>1, <3>1, Written DEF Confirms
    <3> QED BY <3>1 DEF Answers
  <2> QED BY <1>5, <1>6, <2>4, <2>5, <2>6 DEF Phase
<1>9. CASE /\ UNCHANGED activation
           /\ policy' = [status |-> status, desired |-> latest + 1,
                         active |-> IF DirectRecordOnly(mode) THEN latest + 1
                                                              ELSE policy.active]
  <2>1. RowPhase'
      BY <1>1, <1>9 DEF Phase, RowPhase
  <2>2. Pointer'
    <3>1. CASE DirectRecordOnly(mode)
        BY <1>4, <1>9, <3>1 DEF DirectRecordOnly, Pointer, Enforced
    <3>2. CASE ~DirectRecordOnly(mode)
        BY <1>1, <1>7, <1>9, <3>2 DEF Phase, Pointer
    <3> QED BY <3>1, <3>2
  <2>3. Answers'
      BY <1>1, <1>9 DEF Answers, Confirms, Ran
  <2> QED BY <1>5, <1>6, <2>1, <2>2, <2>3 DEF Phase
<1> QED BY <1>8, <1>9 DEF Update

\* Deadlines and cutoffs change neither the row's state nor the hash.
LEMMA TimeCalm ==
    ASSUME SafeInv, Phase, Answers, DeadlinePasses \/ CutoffPasses PROVE Phase' /\ Answers'
<1>1. /\ UNCHANGED <<policy, versions, hash, ledger, worker>>
      /\ activation'.gen = activation.gen /\ activation'.state = activation.state
    BY DEF DeadlinePasses, CutoffPasses, pgVars, redisVars, SafeInv, TypeInv, Shape
<1>2. NoRecovery'
    BY <1>1 DEF Phase, NoRecovery
<1>3. RowPhase'
    BY <1>1 DEF Phase, RowPhase
<1>4. Pointer'
    BY <1>1 DEF Phase, Pointer, Enforced
<1>5. Backed'
    BY <1>1 DEF Phase, Backed, HasLedger
<1>6. Answers'
    BY <1>1 DEF Answers, Confirms, Ran
<1> QED BY <1>2, <1>3, <1>4, <1>5, <1>6 DEF Phase

\* Once Redis was disturbed the history says so for good.
LEMMA CalmBack ==
    ASSUME SafeInv, Next, Calm'
    PROVE  /\ Calm
           /\ ~CreateRecovery /\ ~LoseState /\ ~\E r \in recoveries : InstallRecovery(r)
<1>1. ~CreateRecovery
    BY DEF CreateRecovery, Calm
<1>2. ~LoseState
    BY DEF LoseState, Calm, SafeInv, Order
<1>3. ~\E r \in recoveries : InstallRecovery(r)
    BY DEF InstallRecovery, Calm
<1>4. ASSUME UNCHANGED <<losses, recoveries, late>> PROVE Calm
    BY <1>4, Zenon DEF Calm
<1>5. ASSUME NEW w \in Workers, WorkerStep(w) \/ Abandon(w) PROVE Calm
  <2>1. CASE Stage(w)
    <3>1. UNCHANGED <<losses, recoveries>>
        BY <2>1 DEF Stage, pgVars
    <3>2. (late' = late) \/ (late' = (late \/ (hash.fence = 0 /\ ~StillDesired(worker[w]))))
        BY <2>1, Zenon DEF Stage
    <3>3. ~late'
        BY DEF Calm
    <3>4. ~late
        BY <3>2, <3>3, Zenon
    <3> QED BY <3>1, <3>4 DEF Calm
  <2>2. CASE Load(w) \/ Arm(w) \/ Activate(w) \/ Retire(w) \/ Finalize(w) \/ Persist(w)
             \/ Abandon(w)
    <3>1. UNCHANGED <<losses, recoveries, late>>
        BY <2>2 DEF Load, Arm, Activate, Retire, Finalize, Persist, Abandon, pgVars
    <3> QED BY <1>4, <3>1
  <2> QED BY <1>5, <2>1, <2>2 DEF WorkerStep
<1>6. CASE DeadlinePasses \/ CutoffPasses
  <2>1. UNCHANGED <<losses, recoveries, late>>
      BY <1>6 DEF DeadlinePasses, CutoffPasses, pgVars
  <2> QED BY <1>1, <1>2, <1>3, <1>4, <2>1
<1>7. CASE \E status \in Statuses, mode \in Modes, epoch \in Epochs, tightening \in BOOLEAN :
               Update(status, mode, epoch, tightening)
  <2>1. UNCHANGED <<losses, recoveries, late>>
      BY <1>7 DEF Update
  <2> QED BY <1>1, <1>2, <1>3, <1>4, <2>1
<1> QED BY <1>1, <1>2, <1>3, <1>5, <1>6, <1>7 DEF Next

\* Every step keeps the phase while nothing disturbs Redis.
LEMMA QuietStep == SafeInv /\ QuietInv /\ [Next]_vars => QuietInv'
<1> SUFFICES ASSUME SafeInv, QuietInv, [Next]_vars, Calm' PROVE Phase' /\ Answers'
    BY DEF QuietInv
<1>1. CASE UNCHANGED vars
  <2>1. UNCHANGED <<policy, versions, activation, recoveries, hash, ledger, worker, losses, late>>
      BY <1>1 DEF vars
  <2>2. Phase /\ Answers
      BY <2>1 DEF QuietInv, Calm
  <2>3. Phase'
      BY <2>1, <2>2, CalmUnchanged
  <2> QED BY <2>1, <2>2, <2>3 DEF Answers, Confirms, Ran
<1>2. CASE Next
  <2>1. Calm /\ Phase /\ Answers
      BY <1>2, CalmBack DEF QuietInv
  <2>2. losses = 0 /\ recoveries = {} /\ ~late'
      BY <2>1 DEF Calm
  <2>3. ASSUME NEW w \in Workers, WorkerStep(w) \/ Abandon(w) PROVE Phase' /\ Answers'
    <3>1. CASE Load(w)
        BY <2>1, <2>2, <3>1, LoadCalm
    <3>2. CASE Stage(w)
        BY <2>1, <2>2, <3>2, StageCalm, StageAnswers
    <3>3. CASE Arm(w)
        BY <2>1, <3>3, ArmCalm, ArmAnswers
    <3>4. CASE Activate(w)
        BY <2>1, <3>4, ActivateCalm, ActivateAnswers
    <3>5. CASE Retire(w)
        BY <2>1, <3>5, RetireCalm, RetireAnswers
    <3>6. CASE Finalize(w)
        BY <2>1, <3>6, FinalizeCalm, FinalizeAnswers
    <3>7. CASE Persist(w)
        BY <2>1, <2>2, <3>7, PersistCalm
    <3>8. CASE Abandon(w)
        BY <2>1, <3>8, AbandonCalm
    <3> QED BY <2>3, <3>1, <3>2, <3>3, <3>4, <3>5, <3>6, <3>7, <3>8 DEF WorkerStep
  <2>4. CASE DeadlinePasses \/ CutoffPasses
      BY <2>1, <2>4, TimeCalm
  <2>5. CASE \E status \in Statuses, mode \in Modes, epoch \in Epochs, tightening \in BOOLEAN :
                 Update(status, mode, epoch, tightening)
      BY <2>1, <2>5, UpdateCalm
  <2> QED BY <1>2, <2>3, <2>4, <2>5, CalmBack DEF Next
<1> QED BY <1>1, <1>2

\* The policy hash and the activation row move in step: while Redis is
\* undisturbed the hash is at most one script ahead of the row.
THEOREM PhaseInvariant == Spec => []QuietInv
<1>1. Init => QuietInv
  <2>1. Init => Answers
      BY DEF Init, Answers, Confirms, Idle
  <2> QED BY <2>1, InitCalm DEF QuietInv
<1> QED BY <1>1, QuietStep, HandshakeInvariant, PTL DEF Spec

\* Installing a candidate never disables the version PostgreSQL enforces, for
\* every number of workers, versions, faults and repetitions.
THEOREM ActiveIsNeverDisabled == Spec => []ActiveStaysAllocatable
<1>1. SafeInv /\ QuietInv => ActiveStaysAllocatable
  <2> SUFFICES ASSUME SafeInv, QuietInv, Calm, Enforced
               PROVE  Allocatable(policy.active, SnapshotRecovery(policy.active))
      BY DEF ActiveStaysAllocatable, ActiveIsAllocatable, Calm
  <2>1. Phase /\ SnapshotRecovery(policy.active) = 0
      BY NoRecoveryIsZero DEF QuietInv, Calm
  <2>2. hash.active = policy.active \/ (/\ activation.state = "coordinator_armed"
                                        /\ hash.state = "active" /\ hash.prior = policy.active)
      BY <2>1 DEF Phase, Pointer
  <2>3. /\ policy.active \in 1 .. latest /\ policy.active \in Generations
        /\ versions[policy.active].epoch \in Epochs
      BY Written DEF Enforced, Generations, SafeInv, TypeInv, Shape
  <2>4. SelectConfig(policy.active, 0)
    <3>1. CASE hash.active = policy.active
        BY <2>1, <3>1 DEF SelectConfig, Phase, NoRecovery
    <3>2. CASE /\ activation.state = "coordinator_armed"
               /\ hash.state = "active" /\ hash.prior = policy.active
      <4>1. hash.cutoff = 0 /\ hash.priorRecovery = 0
          BY <2>1, <3>2 DEF Phase, RowPhase, NoRecovery
      <4>2. 0 \notin elapsed
          BY Written DEF SafeInv, TypeInv, TypeOK, Generations
      <4> QED BY <3>2, <4>1, <4>2 DEF SelectConfig
    <3> QED BY <2>2, <3>1, <3>2
  <2>5. /\ ledger[versions[policy.active].epoch].present
        /\ ledger[versions[policy.active].epoch].recovery = 0
      BY <2>1, <2>2, <2>3 DEF Phase, Backed, HasLedger, NoRecovery
  <2> QED BY <2>1, <2>4, <2>5 DEF Allocatable, Enforced
<1> QED BY <1>1, HandshakeInvariant, PhaseInvariant, PTL

\* A finalized activation leaves one version that can be allocated from.
THEOREM OnlyOneAllocates == Spec => []OnlyPublishedAllocates
<1>1. QuietInv => OnlyPublishedAllocates
    BY DEF QuietInv, Calm, Phase, RowPhase, OnlyPublishedAllocates, Allocatable, SelectConfig
<1> QED BY <1>1, PhaseInvariant, PTL

-----------------------------------------------------------------------------
(* Recoveries and the ledgers they authorize                                *)

Numbers(e) == {r.number : r \in {x \in recoveries : x.epoch = e}}
Given(g) == {r.number : r \in {x \in recoveries : x.gen = g}}
HasHighest(S) == \E m \in {0} \cup S : \A x \in S : x <= m

\* The recoveries of an epoch and of a version have a highest number.
Numbered ==
    /\ \A r \in recoveries : r.number \in Nat \ {0} /\ r.epoch = versions[r.gen].epoch
    /\ \A e \in Epochs : HasHighest(Numbers(e))
    /\ \A g \in Generations : HasHighest(Given(g))

\* Recovery number n was read for version g.
Recorded(g, n) == n \in Nat /\ n <= HighestRecovery(versions[g].epoch)

\* What workers and Redis hold was read from recoveries, and before the version
\* could be given one of its own.
Preceded ==
    /\ \A w \in Workers : worker[w].step # "idle" =>
           /\ Recorded(worker[w].gen, worker[w].recovery)
           /\ worker[w].state # "active" =>
                  \A r \in recoveries : r.gen = worker[w].gen => r.number > worker[w].recovery
    /\ hash.active # 0 => Recorded(hash.active, hash.activeRecovery)
    /\ hash.prior # 0 => Recorded(hash.prior, hash.priorRecovery)

\* A version under a recovery it was given itself has the ledger of a recovery.
Allowed(g, n) ==
    \A r \in recoveries : r.gen = g /\ r.number = n =>
        ledger[r.epoch].present /\ ledger[r.epoch].opened = "allowance"

AllowanceInv ==
    /\ DOMAIN ledger = Epochs /\ Numbered /\ Preceded
    /\ Allowed(hash.active, hash.activeRecovery) /\ Allowed(hash.prior, hash.priorRecovery)

LEMMA MaxIs ==
    ASSUME NEW S \in SUBSET Nat, NEW m \in S, \A x \in S : x <= m
    PROVE  Max(S) = m
<1>1. ASSUME NEW y \in S, \A x \in S : y >= x PROVE y = m
  <2>1. y <= m /\ m <= y /\ y \in Nat /\ m \in Nat
      BY <1>1
  <2> QED BY <2>1
<1>2. \A x \in S : m >= x
    OBVIOUS
<1> QED BY <1>1, <1>2 DEF Max

LEMMA HighestIs ==
    ASSUME Numbered, NEW e \in Epochs
    PROVE  /\ HighestRecovery(e) \in {0} \cup Numbers(e) /\ HighestRecovery(e) \in Nat
           /\ \A r \in recoveries : r.epoch = e => r.number <= HighestRecovery(e)
<1>1. PICK m \in {0} \cup Numbers(e) : \A x \in Numbers(e) : x <= m
    BY DEF Numbered, HasHighest
<1>2. {0} \cup Numbers(e) \in SUBSET Nat
    BY DEF Numbered, Numbers
<1>3. Max({0} \cup Numbers(e)) = m
    BY <1>1, <1>2, MaxIs
<1>4. HighestRecovery(e) = m
    BY <1>3 DEF HighestRecovery, Numbers
<1> QED BY <1>1, <1>2, <1>4 DEF Numbers

\* A version that was given recoveries is read under the last of them.
LEMMA SnapshotIsGiven ==
    ASSUME Numbered, NEW g \in Generations, SnapshotRecovery(g) # 0
    PROVE  \E r \in recoveries : r.gen = g /\ r.number = SnapshotRecovery(g)
<1> DEFINE N == {r.number : r \in {x \in recoveries : x.epoch = versions[g].epoch /\ x.gen = g}}
<1>1. N = Given(g)
    BY DEF Numbered, Given
<1>2. PICK m \in {0} \cup Given(g) : \A x \in Given(g) : x <= m
    BY DEF Numbered, HasHighest
<1>3. {0} \cup Given(g) \in SUBSET Nat
    BY DEF Numbered, Given
<1>4. Max({0} \cup Given(g)) = m
    BY <1>2, <1>3, MaxIs
<1>5. SnapshotRecovery(g) = m
    BY <1>1, <1>4 DEF SnapshotRecovery
<1>6. m \in Given(g)
    BY <1>2, <1>5
<1> QED BY <1>5, <1>6 DEF Given

\* What a step of a worker does to what Redis allocates from: it activates its
\* own version, keeps what was active or forgets the prior one, and opens only
\* ledgers that were missing.
Holds(w, g, n) ==
    /\ worker[w].step # "idle" /\ worker[w].state # "active"
    /\ g = worker[w].gen /\ n = worker[w].recovery

LEMMA WorkerAllowance ==
    ASSUME SafeInv, AllowanceInv, UNCHANGED <<versions, recoveries>>,
           \A u \in Workers : Follows(u),
           \/ hash'.active = hash.active /\ hash'.activeRecovery = hash.activeRecovery
           \/ \E w \in Workers : Holds(w, hash'.active, hash'.activeRecovery),
           \/ hash'.prior = hash.prior /\ hash'.priorRecovery = hash.priorRecovery
           \/ hash'.prior = hash.active /\ hash'.priorRecovery = hash.activeRecovery
           \/ hash'.prior = 0,
           DOMAIN ledger' = Epochs, \A e \in Epochs : ledger[e].present => ledger'[e] = ledger[e]
    PROVE  AllowanceInv'
<1>1. Numbered' /\ \A g, n : Recorded(g, n)' <=> Recorded(g, n)
    BY DEF AllowanceInv, Numbered, Numbers, Given, Recorded, HighestRecovery, Generations
<1>2. \A g, n : Allowed(g, n) => Allowed(g, n)'
  <2>1. \A r \in recoveries : r.epoch \in Epochs
      BY Written DEF AllowanceInv, Numbered, SafeInv, TypeInv, Shape, Order, Generations
  <2> QED BY <2>1 DEF Allowed
<1>3. \A r \in recoveries : r.gen # 0
    BY Written DEF SafeInv, Order
<1>4. ASSUME NEW w \in Workers, NEW g, NEW n, Holds(w, g, n)
      PROVE  Recorded(g, n) /\ Allowed(g, n)
  <2>1. Recorded(g, n) /\ \A r \in recoveries : r.gen = g => r.number > n
      BY <1>4 DEF Holds, AllowanceInv, Preceded
  <2>2. \A r \in recoveries : r.number \in Nat
      BY DEF AllowanceInv, Numbered
  <2> QED BY <2>1, <2>2 DEF Allowed, Recorded
<1>5. (hash'.active # 0 => Recorded(hash'.active, hash'.activeRecovery))
      /\ Allowed(hash'.active, hash'.activeRecovery)
    BY <1>4 DEF AllowanceInv, Preceded
<1>6. (hash'.prior # 0 => Recorded(hash'.prior, hash'.priorRecovery))
      /\ Allowed(hash'.prior, hash'.priorRecovery)
    BY <1>3 DEF AllowanceInv, Preceded, Allowed
<1>7. ASSUME NEW w \in Workers, worker'[w].step # "idle"
      PROVE  /\ Recorded(worker'[w].gen, worker'[w].recovery)
             /\ worker'[w].state # "active" =>
                    \A r \in recoveries : r.gen = worker'[w].gen => r.number > worker'[w].recovery
    BY <1>7 DEF AllowanceInv, Preceded, Follows
<1>8. Preceded'
    BY <1>1, <1>5, <1>6, <1>7 DEF Preceded
<1> QED BY <1>1, <1>2, <1>5, <1>6, <1>8 DEF AllowanceInv

\* A script call that answers, or a worker that gives up.
LEMMA AnsweredAllowance ==
    ASSUME SafeInv, AllowanceInv, NEW w \in Workers, worker[w].step # "idle",
           NEW step, Answered(w, step),
           step \in {"idle", "persist"} \/ (step = "finalize" /\ worker[w].state = "active"),
           UNCHANGED <<versions, recoveries>>,
           \/ hash'.active = hash.active /\ hash'.activeRecovery = hash.activeRecovery
           \/ Holds(w, hash'.active, hash'.activeRecovery),
           \/ hash'.prior = hash.prior /\ hash'.priorRecovery = hash.priorRecovery
           \/ hash'.prior = hash.active /\ hash'.priorRecovery = hash.activeRecovery
           \/ hash'.prior = 0,
           DOMAIN ledger' = Epochs, \A e \in Epochs : ledger[e].present => ledger'[e] = ledger[e]
    PROVE  AllowanceInv'
<1>1. \A u \in Workers : Follows(u)
    BY AnsweredEffect DEF SafeInv, TypeInv
<1> QED BY <1>1, WorkerAllowance

LEMMA StageAllowance ==
    ASSUME SafeInv, AllowanceInv, NEW w \in Workers, Stage(w) PROVE AllowanceInv'
<1>1. /\ worker[w].step # "idle" /\ UNCHANGED <<versions, recoveries>>
      /\ HashTyped /\ DOMAIN ledger = Epochs
    BY Written DEF Stage, Calls, pgVars, AllowanceInv
<1>2. CASE /\ hash' = StagedHash(worker[w]) /\ ledger' = StagedLedger(worker[w])
           /\ Answered(w, "persist")
  <2>1. /\ hash'.active = hash.active /\ hash'.activeRecovery = hash.activeRecovery
        /\ hash'.prior = hash.prior /\ hash'.priorRecovery = hash.priorRecovery
      BY <1>1, <1>2, HashFields DEF StagedHash, Fields
  <2>2. DOMAIN ledger' = Epochs /\ \A e \in Epochs : ledger[e].present => ledger'[e] = ledger[e]
      BY <1>1, <1>2 DEF StagedLedger
  <2> QED BY <1>1, <1>2, <2>1, <2>2, AnsweredAllowance
<1>3. CASE Answered(w, "idle") /\ UNCHANGED redisVars
    BY <1>1, <1>3, AnsweredAllowance DEF redisVars
<1> QED BY <1>2, <1>3 DEF Stage

LEMMA ScriptAllowance ==
    ASSUME SafeInv, AllowanceInv, NEW w \in Workers,
           Arm(w) \/ Activate(w) \/ Retire(w) \/ Finalize(w)
    PROVE  AllowanceInv'
<1>1. /\ worker[w].step # "idle" /\ UNCHANGED <<versions, recoveries, ledger>>
      /\ HashTyped /\ DOMAIN ledger' = Epochs
    BY Written DEF Arm, Activate, Retire, Finalize, Calls, pgVars, AllowanceInv
<1>2. CASE Arm(w)
  <2>1. PICK step \in {"idle", "persist"} : Answered(w, step) /\ (hash' = hash \/ hash' = ArmedHash)
      BY <1>2 DEF Arm
  <2>2. /\ hash'.active = hash.active /\ hash'.activeRecovery = hash.activeRecovery
        /\ hash'.prior = hash.prior /\ hash'.priorRecovery = hash.priorRecovery
      BY <1>1, <2>1, HashFields DEF Fields
  <2> QED BY <1>1, <2>1, <2>2, AnsweredAllowance
<1>3. CASE Activate(w)
  <2>1. PICK step \in {"idle", "persist"} :
            Answered(w, step) /\ (hash' = hash \/ hash' = ActivatedHash(worker[w]))
      BY <1>3 DEF Activate
  <2>2. worker[w].state # "active"
      BY <1>3 DEF Activate, Calls
  <2>3. CASE hash' = hash
      BY <1>1, <2>1, <2>3, AnsweredAllowance
  <2>4. CASE hash' = ActivatedHash(worker[w]) /\ ~AlreadyActivated(worker[w])
    <3>1. /\ hash'.active = worker[w].gen /\ hash'.activeRecovery = worker[w].recovery
          /\ hash'.prior = hash.active /\ hash'.priorRecovery = hash.activeRecovery
        BY <1>1, <2>4, HashFields DEF Fields
    <3>2. Holds(w, hash'.active, hash'.activeRecovery)
        BY <1>1, <2>2, <3>1 DEF Holds
    <3> QED BY <1>1, <2>1, <3>1, <3>2, AnsweredAllowance
  <2> QED BY <2>1, <2>3, <2>4 DEF ActivatedHash
<1>4. CASE Retire(w)
  <2>1. worker[w].state = "active"
      BY <1>4 DEF Retire, Calls
  <2>2. PICK step \in {"idle", "finalize"} :
            Answered(w, step) /\ (hash' = hash \/ hash' = RetiringHash(worker[w]))
      BY <1>4 DEF Retire
  <2>3. /\ hash'.active = hash.active /\ hash'.activeRecovery = hash.activeRecovery
        /\ hash'.prior = hash.prior /\ hash'.priorRecovery = hash.priorRecovery
      BY <1>1, <2>2, HashFields DEF Fields
  <2> QED BY <1>1, <2>1, <2>2, <2>3, AnsweredAllowance
<1>5. CASE Finalize(w)
  <2>1. PICK step \in {"idle", "persist"} :
            Answered(w, step) /\ (hash' = hash \/ hash' = FinalizedHash)
      BY <1>5 DEF Finalize
  <2>2. /\ hash'.active = hash.active /\ hash'.activeRecovery = hash.activeRecovery
        /\ \/ hash'.prior = hash.prior /\ hash'.priorRecovery = hash.priorRecovery
           \/ hash'.prior = 0
      BY <1>1, <2>1, HashFields DEF Fields
  <2> QED BY <1>1, <2>1, <2>2, AnsweredAllowance
<1> QED BY <1>2, <1>3, <1>4, <1>5

\* Persisting and giving up change nothing that is allocated from.
LEMMA ReturnAllowance ==
    ASSUME SafeInv, AllowanceInv, NEW w \in Workers, Persist(w) \/ Abandon(w) PROVE AllowanceInv'
<1>1. /\ worker[w].step # "idle" /\ UNCHANGED <<versions, recoveries, hash, ledger>>
      /\ Answered(w, "idle") /\ DOMAIN ledger' = Epochs
    BY DEF Persist, Abandon, pgVars, redisVars, AllowanceInv
<1> QED BY <1>1, AnsweredAllowance

\* A work is loaded under the last recovery of its epoch; its version has none of
\* its own before it is durable.
LEMMA LoadAllowance ==
    ASSUME SafeInv, AllowanceInv, NEW w \in Workers, Load(w) PROVE AllowanceInv'
<1>1. UNCHANGED <<versions, recoveries, activation, hash, ledger>>
    BY DEF Load, pgVars, redisVars
<1>2. /\ activation.gen \in Generations /\ versions[activation.gen].epoch \in Epochs
      /\ activation.state \in Unfinished
    BY Written DEF Load, ActivationUnfinished, Unfinished, SafeInv, TypeInv, Shape, Order, Generations
<1>3. /\ \A u \in Workers : u # w => worker'[u] = worker[u]
      /\ worker'[w].gen = activation.gen /\ worker'[w].state = activation.state
      /\ worker'[w].recovery = HighestRecovery(versions[activation.gen].epoch)
    BY DEF Load, SafeInv, TypeInv, Shape
<1>4. Numbered' /\ \A g, n : (Recorded(g, n)' <=> Recorded(g, n)) /\ (Allowed(g, n)' <=> Allowed(g, n))
    BY <1>1 DEF AllowanceInv, Numbered, Numbers, Given, Recorded, HighestRecovery, Generations, Allowed
<1>5. Recorded(worker'[w].gen, worker'[w].recovery)
    BY <1>2, <1>3, HighestIs DEF Recorded, AllowanceInv
<1>6. worker'[w].state # "active" => \A r \in recoveries : r.gen # worker'[w].gen
    BY <1>2, <1>3 DEF SafeInv, Order, Durable, Unfinished
<1>7. \A u \in Workers : worker'[u].step # "idle" =>
          /\ Recorded(worker'[u].gen, worker'[u].recovery)
          /\ worker'[u].state # "active" =>
                 \A r \in recoveries : r.gen = worker'[u].gen => r.number > worker'[u].recovery
    BY <1>3, <1>5, <1>6 DEF AllowanceInv, Preceded
<1>8. Preceded'
    BY <1>1, <1>4, <1>7 DEF AllowanceInv, Preceded
<1> QED BY <1>1, <1>4, <1>8 DEF AllowanceInv

\* Versions are never rewritten, and nothing refers to one before it is written.
LEMMA UpdateAllowance ==
    ASSUME SafeInv, AllowanceInv,
           NEW status \in Statuses, NEW mode \in Modes, NEW epoch \in Epochs,
           NEW tightening \in BOOLEAN, Update(status, mode, epoch, tightening)
    PROVE  AllowanceInv'
<1>1. UNCHANGED <<recoveries, hash, ledger, worker>>
    BY DEF Update, redisVars
<1>2. latest \in Nat /\ \A g \in 1 .. latest : g \in Generations /\ versions'[g] = versions[g]
    BY Written DEF Update, Generations, SafeInv, TypeInv, Shape
<1>3. \A r \in recoveries : r.gen \in 1 .. latest
    BY DEF SafeInv, Order
<1>4. \A g, n : g \in 1 .. latest => (Recorded(g, n)' <=> Recorded(g, n))
    BY <1>1, <1>2 DEF Recorded, HighestRecovery
<1>5. Numbered' /\ \A g, n : Allowed(g, n)' <=> Allowed(g, n)
    BY <1>1, <1>2, <1>3 DEF AllowanceInv, Numbered, Numbers, Given, Generations, Allowed
<1>6. \A w \in Workers : worker[w].step # "idle" => worker[w].gen \in 1 .. latest
    BY Written
<1>7. /\ hash.active # 0 => hash.active \in 1 .. latest
      /\ hash.prior # 0 => hash.prior \in 1 .. latest
    BY Written DEF HashTyped
<1>8. Preceded'
    BY <1>1, <1>4, <1>6, <1>7 DEF AllowanceInv, Preceded
<1> QED BY <1>1, <1>5, <1>8 DEF AllowanceInv

\* A new recovery has a number that nobody holds yet.
LEMMA CreateRecoveryAllowance ==
    ASSUME SafeInv, AllowanceInv, CreateRecovery PROVE AllowanceInv'
<1> DEFINE g0 == policy.active
           e0 == versions[g0].epoch
           h == HighestRecovery(e0)
           r0 == [epoch |-> e0, number |-> h + 1, gen |-> g0, installed |-> FALSE]
<1>1. UNCHANGED <<versions, hash, ledger, worker>> /\ recoveries' = recoveries \cup {r0}
    BY DEF CreateRecovery, redisVars
<1>2. g0 \in 1 .. latest /\ g0 \in Generations /\ e0 \in Epochs
    BY Written DEF CreateRecovery, Generations, SafeInv, TypeInv, Shape
<1>3. /\ h \in Nat /\ h + 1 \in Nat \ {0} /\ \A r \in recoveries : r.epoch = e0 => r.number <= h
      /\ Numbered
    BY <1>2, HighestIs DEF AllowanceInv
<1>4. r0.epoch = e0 /\ r0.number = h + 1 /\ r0.gen = g0
    OBVIOUS
<1> HIDE DEF r0, h
<1>5. \A r \in recoveries' : r.number \in Nat \ {0} /\ r.epoch = versions'[r.gen].epoch
    BY <1>1, <1>3, <1>4 DEF Numbered
<1>6. ASSUME NEW e \in Epochs
      PROVE  /\ HasHighest(Numbers(e)')
             /\ e = e0 => HighestRecovery(e)' = h + 1
             /\ e # e0 => HighestRecovery(e)' = HighestRecovery(e)
  <2>1. CASE e = e0
    <3>1. Numbers(e)' = Numbers(e) \cup {h + 1}
        BY <1>1, <1>4, <2>1 DEF Numbers
    <3>2. \A x \in Numbers(e)' : x <= h + 1
        BY <1>3, <2>1, <3>1 DEF Numbers, Numbered
    <3>3. {0} \cup Numbers(e)' \in SUBSET Nat
        BY <1>3, <3>1 DEF Numbers, Numbered
    <3>4. Max({0} \cup Numbers(e)') = h + 1
        BY <1>3, <3>1, <3>2, <3>3, MaxIs
    <3>5. HighestRecovery(e)' = h + 1
        BY <3>4 DEF HighestRecovery, Numbers
    <3>6. HasHighest(Numbers(e)')
        BY <3>1, <3>2 DEF HasHighest
    <3> QED BY <2>1, <3>5, <3>6
  <2>2. CASE e # e0
    <3>1. Numbers(e)' = Numbers(e)
        BY <1>1, <1>4, <2>2 DEF Numbers
    <3>2. HighestRecovery(e)' = HighestRecovery(e)
        BY <3>1 DEF HighestRecovery, Numbers
    <3> QED BY <1>3, <2>2, <3>1, <3>2 DEF Numbered
  <2> QED BY <2>1, <2>2
<1>7. ASSUME NEW g \in Generations PROVE HasHighest(Given(g)')
  <2>1. CASE g = g0
    <3>1. Given(g)' = Given(g) \cup {h + 1}
        BY <1>1, <1>4, <2>1 DEF Given
    <3>2. \A x \in Given(g) : x \in Nat /\ x <= h
        BY <1>3, <2>1 DEF Given, Numbered
    <3>3. \A x \in Given(g)' : x <= h + 1
        BY <1>3, <3>1, <3>2
    <3> QED BY <3>1, <3>3 DEF HasHighest
  <2>2. CASE g # g0
    <3>1. Given(g)' = Given(g)
        BY <1>1, <1>4, <2>2 DEF Given
    <3> QED BY <1>3, <3>1 DEF Numbered
  <2> QED BY <2>1, <2>2
<1>8. Numbered'
    BY <1>5, <1>6, <1>7 DEF Numbered, HasHighest, Generations
<1>9. ASSUME NEW g \in 1 .. latest, NEW n, Recorded(g, n)
      PROVE  Recorded(g, n)' /\ (g = g0 => n <= h)
  <2>1. versions[g].epoch \in Epochs /\ n \in Nat /\ n <= HighestRecovery(versions[g].epoch)
      BY <1>9, Written DEF Recorded, Generations, SafeInv, TypeInv, Shape
  <2>2. n <= HighestRecovery(versions[g].epoch)'
    <3>1. CASE versions[g].epoch = e0
      <4>1. n <= h
          BY <2>1, <3>1 DEF h
      <4>2. HighestRecovery(versions[g].epoch)' = h + 1
          BY <1>1, <1>2, <1>6, <3>1
      <4> QED BY <1>3, <2>1, <4>1, <4>2
    <3>2. CASE versions[g].epoch # e0
        BY <1>1, <1>6, <2>1, <3>2
    <3> QED BY <3>1, <3>2
  <2> QED BY <1>1, <2>1, <2>2 DEF Recorded, h
<1>10. \A w \in Workers : worker[w].step # "idle" => worker[w].gen \in 1 .. latest
    BY Written
<1>11. /\ hash.active # 0 => hash.active \in 1 .. latest
       /\ hash.prior # 0 => hash.prior \in 1 .. latest
    BY Written DEF HashTyped
<1>12. \A w \in Workers : worker[w].step # "idle" /\ worker[w].gen = g0 => worker[w].recovery <= h
    BY <1>9, <1>10 DEF AllowanceInv, Preceded
<1>13. \A w \in Workers : worker[w].step # "idle" /\ worker[w].state # "active" =>
           \A r \in recoveries' : r.gen = worker[w].gen => r.number > worker[w].recovery
  <2>1. \A w \in Workers : worker[w].step # "idle" => worker[w].recovery \in Nat
      BY DEF AllowanceInv, Preceded, Recorded
  <2> QED BY <1>1, <1>3, <1>4, <1>12, <2>1 DEF AllowanceInv, Preceded
<1>14. \A g \in 1 .. latest : \A n : Recorded(g, n) => Recorded(g, n)'
    BY <1>9
<1>15. Preceded'
    BY <1>1, <1>10, <1>11, <1>13, <1>14 DEF AllowanceInv, Preceded
<1>16. ASSUME NEW g \in 0 .. latest, NEW n, g # 0 => Recorded(g, n), Allowed(g, n)
       PROVE  Allowed(g, n)'
  <2>1. ~(g0 = g /\ h + 1 = n)
    <3>1. SUFFICES ASSUME g0 = g, h + 1 = n PROVE FALSE
        OBVIOUS
    <3>2. g \in 1 .. latest
        BY <1>2, <3>1
    <3>3. n <= h
        BY <1>9, <1>16, <3>1, <3>2
    <3> QED BY <1>3, <3>1, <3>3
  <2> QED BY <1>1, <1>4, <1>16, <2>1 DEF Allowed
<1>17. Allowed(hash.active, hash.activeRecovery)' /\ Allowed(hash.prior, hash.priorRecovery)'
  <2>1. Allowed(hash.active, hash.activeRecovery)'
    <3>1. hash.active \in 0 .. latest
        BY Written DEF HashTyped
    <3> QED BY <1>1, <1>16, <3>1 DEF AllowanceInv, Preceded
  <2>2. Allowed(hash.prior, hash.priorRecovery)'
    <3>1. hash.prior \in 0 .. latest
        BY Written DEF HashTyped
    <3> QED BY <1>1, <1>16, <3>1 DEF AllowanceInv, Preceded
  <2> QED BY <2>1, <2>2
<1> QED BY <1>1, <1>8, <1>15, <1>17 DEF AllowanceInv

\* The ledger of the epoch becomes that of the recovery.
LEMMA InstallRecoveryAllowance ==
    ASSUME SafeInv, AllowanceInv, NEW r \in recoveries, InstallRecovery(r) PROVE AllowanceInv'
<1>1. UNCHANGED <<versions, worker>>
    BY DEF InstallRecovery
<1>2. /\ DOMAIN r = {"epoch", "number", "gen", "installed"} /\ HashTyped
      /\ r.epoch = versions[r.gen].epoch /\ r.epoch \in Epochs /\ DOMAIN ledger = Epochs
      /\ r.number \in Nat
    BY Written DEF AllowanceInv, Numbered, SafeInv, TypeInv, Shape, Order, Generations
<1>3. recoveries' = recoveries
      \/ recoveries' = (recoveries \ {r}) \cup {[r EXCEPT !.installed = TRUE]}
    BY DEF InstallRecovery
<1>4. /\ \A x \in recoveries' : \E y \in recoveries :
             y.epoch = x.epoch /\ y.number = x.number /\ y.gen = x.gen
      /\ \A x \in recoveries : \E y \in recoveries' :
             y.epoch = x.epoch /\ y.number = x.number /\ y.gen = x.gen
  <2> DEFINE r1 == [r EXCEPT !.installed = TRUE]
  <2>1. r1.epoch = r.epoch /\ r1.number = r.number /\ r1.gen = r.gen
      BY <1>2
  <2> HIDE DEF r1
  <2> QED BY <1>3, <2>1 DEF r1
<1>5. \A e, g : Numbers(e)' = Numbers(e) /\ Given(g)' = Given(g)
    BY <1>4 DEF Numbers, Given
<1>6. \A e : HighestRecovery(e)' = HighestRecovery(e)
    BY <1>5 DEF HighestRecovery, Numbers
<1>7. Numbered'
  <2>1. \A x \in recoveries' : x.number \in Nat \ {0} /\ x.epoch = versions'[x.gen].epoch
      BY <1>1, <1>4 DEF AllowanceInv, Numbered
  <2>2. \A e \in Epochs : HasHighest(Numbers(e))'
      BY <1>5 DEF AllowanceInv, Numbered, HasHighest
  <2>3. \A g \in Generations : HasHighest(Given(g))'
      BY <1>5 DEF AllowanceInv, Numbered, HasHighest
  <2> QED BY <2>1, <2>2, <2>3 DEF Numbered, Generations
<1>8. \A g, n : Recorded(g, n)' <=> Recorded(g, n)
    BY <1>1, <1>6 DEF Recorded
<1>9. \/ UNCHANGED <<hash, ledger>>
      \/ /\ hash'.active = r.gen /\ hash'.activeRecovery = r.number
         /\ hash'.prior = hash.prior /\ hash'.priorRecovery = hash.priorRecovery
         /\ ledger' = [ledger EXCEPT ![r.epoch] =
                [present |-> TRUE, recovery |-> r.number, opened |-> "allowance"]]
    BY <1>2 DEF InstallRecovery, redisVars, HashTyped
<1>10. /\ DOMAIN ledger' = Epochs
       /\ \A e \in Epochs : ledger'[e] = ledger[e]
                            \/ (ledger'[e].present /\ ledger'[e].opened = "allowance")
    BY <1>2, <1>9
<1>11. \A g, n : Allowed(g, n) => Allowed(g, n)'
  <2>1. \A x \in recoveries : x.epoch \in Epochs
      BY Written DEF AllowanceInv, Numbered, SafeInv, TypeInv, Shape, Order, Generations
  <2> QED BY <1>4, <1>10, <2>1 DEF Allowed
<1>12. Recorded(r.gen, r.number)
    BY <1>2, HighestIs DEF Recorded, AllowanceInv
<1>13. \A w \in Workers : worker[w].step # "idle" /\ worker[w].state # "active" =>
           \A x \in recoveries' : x.gen = worker[w].gen => x.number > worker[w].recovery
    BY <1>4 DEF AllowanceInv, Preceded
<1>14. CASE UNCHANGED <<hash, ledger>>
  <2>1. Preceded'
      BY <1>1, <1>8, <1>13, <1>14 DEF AllowanceInv, Preceded
  <2> QED BY <1>7, <1>10, <1>11, <1>14, <2>1 DEF AllowanceInv
<1>15. CASE /\ hash'.active = r.gen /\ hash'.activeRecovery = r.number
            /\ hash'.prior = hash.prior /\ hash'.priorRecovery = hash.priorRecovery
            /\ ledger' = [ledger EXCEPT ![r.epoch] =
                   [present |-> TRUE, recovery |-> r.number, opened |-> "allowance"]]
  <2>1. Preceded'
      BY <1>1, <1>8, <1>12, <1>13, <1>15 DEF AllowanceInv, Preceded
  <2>2. Allowed(hash.active, hash.activeRecovery)'
    <3>1. ledger'[r.epoch].present /\ ledger'[r.epoch].opened = "allowance"
        BY <1>2, <1>15
    <3>2. \A x \in recoveries' : x.gen = r.gen => x.epoch = r.epoch
        BY <1>2, <1>4 DEF AllowanceInv, Numbered
    <3> QED BY <1>15, <3>1, <3>2 DEF Allowed
  <2>3. Allowed(hash.prior, hash.priorRecovery)'
      BY <1>11, <1>15 DEF AllowanceInv
  <2> QED BY <1>7, <1>10, <2>1, <2>2, <2>3 DEF AllowanceInv
<1> QED BY <1>9, <1>14, <1>15

LEMMA LoseStateAllowance == ASSUME SafeInv, AllowanceInv, LoseState PROVE AllowanceInv'
<1>1. /\ UNCHANGED <<versions, recoveries, worker>>
      /\ hash'.active = 0 /\ hash'.prior = 0 /\ DOMAIN ledger' = Epochs
    BY DEF LoseState, pgVars, EmptyHash
<1>2. Numbered' /\ \A g, n : Recorded(g, n)' <=> Recorded(g, n)
    BY <1>1 DEF AllowanceInv, Numbered, Numbers, Given, Recorded, HighestRecovery, Generations
<1>3. Preceded'
    BY <1>1, <1>2 DEF AllowanceInv, Preceded
<1>4. \A r \in recoveries : r.gen # 0
    BY Written DEF SafeInv, Order
<1> QED BY <1>1, <1>2, <1>3, <1>4 DEF AllowanceInv, Allowed

LEMMA SameAllowance ==
    ASSUME AllowanceInv, UNCHANGED <<versions, recoveries, worker, hash, ledger>> PROVE AllowanceInv'
<1>1. Numbered' /\ \A g, n : (Recorded(g, n)' <=> Recorded(g, n)) /\ (Allowed(g, n)' <=> Allowed(g, n))
    BY DEF AllowanceInv, Numbered, Numbers, Given, Recorded, HighestRecovery, Generations, Allowed
<1>2. Preceded'
    BY <1>1 DEF AllowanceInv, Preceded
<1> QED BY <1>1, <1>2 DEF AllowanceInv

LEMMA AllowanceStep == SafeInv /\ AllowanceInv /\ [Next]_vars => AllowanceInv'
<1> SUFFICES ASSUME SafeInv, AllowanceInv, [Next]_vars PROVE AllowanceInv'
    OBVIOUS
<1>1. CASE \E status \in Statuses, mode \in Modes, epoch \in Epochs, tightening \in BOOLEAN :
               Update(status, mode, epoch, tightening)
    BY <1>1, UpdateAllowance
<1>2. CASE DeadlinePasses \/ CutoffPasses \/ UNCHANGED vars
    BY <1>2, SameAllowance DEF DeadlinePasses, CutoffPasses, vars, pgVars, redisVars
<1>3. ASSUME NEW w \in Workers, WorkerStep(w) \/ Abandon(w) PROVE AllowanceInv'
    BY <1>3, LoadAllowance, StageAllowance, ScriptAllowance, ReturnAllowance DEF WorkerStep
<1>4. CASE CreateRecovery
    BY <1>4, CreateRecoveryAllowance
<1>5. CASE \E r \in recoveries : InstallRecovery(r)
    BY <1>5, InstallRecoveryAllowance
<1>6. CASE LoseState
    BY <1>6, LoseStateAllowance
<1> QED BY <1>1, <1>2, <1>3, <1>4, <1>5, <1>6 DEF Next

\* A work, and what Redis serves, was read before its version was given a recovery
\* of its own; a version under its own recovery has the ledger of that recovery.
THEOREM RecoveryInvariant == Spec => []AllowanceInv
<1>1. Init => AllowanceInv
  <2> SUFFICES ASSUME Init PROVE AllowanceInv
      OBVIOUS
  <2>1. /\ recoveries = {} /\ DOMAIN ledger = Epochs /\ hash.active = 0 /\ hash.prior = 0
        /\ \A w \in Workers : worker[w].step = "idle"
      BY DEF Init, EmptyHash, Idle
  <2>2. Numbered
      BY <2>1 DEF Numbered, HasHighest, Numbers, Given
  <2> QED BY <2>1, <2>2 DEF AllowanceInv, Preceded, Allowed
<1> QED BY <1>1, AllowanceStep, HandshakeInvariant, PTL DEF Spec

\* Redis allocates for one published version, and under a recovery only from the
\* allowance that recovery authorized: install_coordinator_recovery replaces the
\* ledger, and no activation can reach the recovery's number without it.
THEOREM AllocationIsAlwaysPublished == Spec => []AllocationIsPublished
<1>1. SafeInv /\ AllowanceInv /\ OnlyPublishedAllocates => AllocationIsPublished
  <2> DEFINE g == policy.active
             n == SnapshotRecovery(g)
  <2> SUFFICES ASSUME SafeInv, AllowanceInv, Enforced, ActiveIsAllocatable, n > 0
               PROVE  ledger[versions[g].epoch].opened = "allowance"
      BY DEF AllocationIsPublished
  <2>1. g \in Generations /\ n # 0 /\ Numbered
      BY Written DEF Enforced, Generations, AllowanceInv
  <2>2. PICK r \in recoveries : r.gen = g /\ r.number = n
      BY <2>1, SnapshotIsGiven
  <2>3. SelectConfig(g, n)
      BY DEF ActiveIsAllocatable, Allocatable
  <2>4. Allowed(g, n)
      BY <2>3 DEF SelectConfig, AllowanceInv
  <2> QED BY <2>1, <2>2, <2>4 DEF Allowed, Numbered
<1> QED BY <1>1, HandshakeInvariant, RecoveryInvariant, OnlyOneAllocates, PTL

=============================================================================
