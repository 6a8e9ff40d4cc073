SPECIFICATION FairSpec
CONSTANTS
    Callers = {c1, c2}
    Kinds = {"static", "external", "codex"}
    MaxVersion = 2
    MaxClaims = 1
    MaxLogins = 2
    MaxPolls = 2
INVARIANTS OnlySelectedMaterial ReadyTokenIsLive
PROPERTIES CredentialSettles
CHECK_DEADLOCK FALSE
