SPECIFICATION FairSpec
CONSTANTS
    Processes = {p1}
    Attempts = {a1, a2}
    Ledgers = {"key", "origin"}
    PolicyPairs <- OneOrigin
    Limit <- Three
    Slice <- Two
    Estimates = {1}
    Actuals = {0, 3}
    RecoveryAllowance = 1
    MaxGrants = 2
    MaxSettled = 1
    MaxFaults = 1
    MaxRecoveries = 1
INVARIANTS
    LedgerConserved
    ReservationsAreBacked
    SpendingIsCovered
PROPERTY
    GrantsAreReturned
CHECK_DEADLOCK FALSE
