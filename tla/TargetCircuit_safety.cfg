SPECIFICATION Spec
CONSTANTS
    e1 = e1
    e2 = e2
    d1 = d1
    d2 = d2
    d3 = d3
    Attempts = {a1, a2}
    Candidates = {"l", "m", "n"}
    Domains = {e1, e2, d1, d2, d3}
    Ids = {e1, e2, d1, d2, d3}
    DomainsOf <- ManyTargets
    IdOf <- OwnId
    KindOf <- Kinds
    Limit = 1
    FailureThreshold = 1
    SuccessThreshold = 2
    HalfOpenMax = 2
    OpenDuration = 1
    MaxOpenDuration = 2
    RecoveryDuration = 1
    MaxTracked = 4
    MaxSemaphores = 2
    IdleSpan = 1
    MaxTime = 4
SYMMETRY AttemptSymmetry
INVARIANTS PermitsConserved
PROPERTIES ClosesOnOwnEvidence
CHECK_DEADLOCK FALSE
