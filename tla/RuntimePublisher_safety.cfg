SPECIFICATION FairSpec
CONSTANTS
    MaxAge = 1
    Latency = 1
    MaxAttempts = 3
    MaxRev = 2
    MaxNow = 4
    MaxFaults = 1
INVARIANTS
    AuthorityFresh
PROPERTIES
    FencedPublication
    EvidenceNeverWeakens
    CommitsAreApplied
CHECK_DEADLOCK FALSE
