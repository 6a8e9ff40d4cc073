SPECIFICATION KeysSpec
CONSTANTS
    k1 = k1
    k2 = k2
    s1 = s1
    c1 = c1
    Keys = {k1, k2}
    Sessions = {s1}
    SessionCallers = {c1}
    Policies <- MCPolicies
    DefaultPolicy <- Wide
    Requested = {{"r"}, {"r", "w"}}
    MemberValues = {"r"}
    Budgets = {1, 2}
    MaxTime = 1
    MaxCommands = 3
    Forever = 9
SYMMETRY Perms
INVARIANTS KeysFitPolicy
PROPERTIES SessionsNeverWiden
CHECK_DEADLOCK FALSE
