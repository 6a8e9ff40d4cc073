SPECIFICATION FairSpec
CONSTANTS
    Workers = {w1, w2}
    Epochs = {"e1"}
    Modes = {"enforce", "record_only"}
    Statuses = {"active", "suspended"}
    MaxGeneration = 2
    MaxRecoveries = 1
    MaxFaults = 1
    MaxLosses = 1
INVARIANTS
    ActiveStaysAllocatable
    AllocationIsPublished
PROPERTIES
    DurableAfterCoordinator
    ActivationSettles
CHECK_DEADLOCK FALSE
