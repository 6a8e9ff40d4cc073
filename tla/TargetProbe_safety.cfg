SPECIFICATION ProbeSpec
CONSTANTS
    None = None
    Processes = {p1, p2}
    Workers = {p1}
    Operators = {p2}
    Bindings = {"b1", "b2"}
    BindingOf <- Rebound
    Interval = 1
    ProbeTimeout = 0
    StaleAfter = 1
    SummaryTtl = 1
    CommandTimeout = 0
    MaxTokens = 2
    MaxInstant = 4
INVARIANTS ExclusionHasEvidence
PROPERTIES SummariesMoveForward
CHECK_DEADLOCK FALSE
