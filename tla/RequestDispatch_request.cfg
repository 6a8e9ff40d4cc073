SPECIFICATION WsSpec
CONSTANTS
    Targets = {t1, t2}
    MaxTotal = 3
    MaxSame = 2
    MaxFailover = 1
    RetryOn <- Transient
INVARIANTS AccountsAgree ChargesMatchEvidence RepeatsAreAllowed
PROPERTIES NoLateAttempt RequestEnds
CHECK_DEADLOCK FALSE
