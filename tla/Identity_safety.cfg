SPECIFICATION Spec
CONSTANTS
    u1 = u1
    u2 = u2
    u3 = u3
    o1 = o1
    o2 = o2
    s1 = s1
    s2 = s2
    s3 = s3
    None = None
    Absent = Absent
    Users = {u1, u2, u3}
    Orgs = {o1, o2}
    Subjects = {s1, s2, s3}
    i1 = i1
    Invites = {i1}
    Logins = {l1}
    Callbacks = {c1, c2}
    Requests = {r1}
    Ceilings = {{"read", "members"}, {"read", "members", "owners", "system"}}
    Claims = {{"read"}}
    Sources = {j1, j2}
    Profiles = {p1, p2}
    NewUsers = {u3}
    NewOrgs = {o2}
    Installations <- MCInstallations
    InitUser <- MCUser
    MaxCommands = 2
    MaxStarts = 2
SYMMETRY Perms
INVARIANTS OwnersRemain SessionWithinLogin IssuerMaterialIsCurrent
PROPERTIES ProvisionedIdentityIsCurrent
CHECK_DEADLOCK FALSE
