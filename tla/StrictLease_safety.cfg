SPECIFICATION LeaseSpec
CONSTANTS
    Requests = {r1, r2, r3}
    ConcurrencyLimit = 2
    LeaseMillis = 2
    Resolution = 2
    MaxMillis = 7
    MaxLosses = 2
SYMMETRY RequestSymmetry
INVARIANTS RunsUnderLease StrictLimit
CHECK_DEADLOCK FALSE
