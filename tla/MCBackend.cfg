SPECIFICATION BackendSpec
CONSTANTS
    Topologies <- MCTopologies
    StepSets <- MCStepSets
    Destroys <- MCDestroys
    Releases = {"3.3"}
    NewerImages = {"x86_64"}
    MaxSlots = 2
    MaxScripts = 3
    None = None
INVARIANTS
    ConfigNamesLiveHosts
    GatewaysReachTheirCluster
    BalancersReachTheirGateways
    LastEdgeServerIsTrusted
CHECK_DEADLOCK FALSE
