SPECIFICATION CatalogSpec
CONSTANTS
    None = None
    AllRoutes = AllRoutes
    Populations <- MCPopulations
    Ids <- MCIds
    IdempotencyKeys = {i1}
    NetworkInputs <- MCNetworks
    ReliabilityInputs <- MCReliabilities
    EndpointInputs <- MCEndpoints
    VersionInputs <- MCVersions
    DeploymentInputs <- MCDeployments
    RouteInputs <- MCRoutes
    GrantInputs <- MCGrants
    KeyRouteInputs <- MCKeyRoutes
    Requests <- MCRequests
    Exclusions <- MCExclusions
    MaxCommands = 2
    MaxOpen = 2
INVARIANTS OnlyKnownFaults AdmittedIsEntitled ReadinessAgrees
PROPERTIES VersionsGrow DoneOnce
CHECK_DEADLOCK FALSE
