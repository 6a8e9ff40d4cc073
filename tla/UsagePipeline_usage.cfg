SPECIFICATION TaskSpec
CONSTANTS
    Dimensions = {d1}
    MaxKeys = 1
    MaxPending = 1
    MaxMerged = 2
    AcceptWindow = 0
    ReceiptWindow = 1
    FlushTimeout = 1
    Skew = 1
    MaxFacts = 3
    MaxEpochs = 2
    MaxTime = 2
INVARIANTS AppliedOnce LossIsCounted
PROPERTIES FactsSettle
CHECK_DEADLOCK FALSE
