SPECIFICATION FairSpec
CONSTANTS
    linkDeployRetries = 3
    Faults <- FaultKind
    MaxFaults = 4
CHECK_DEADLOCK FALSE
INVARIANTS
    SuccessIsAttached
    StateMatchesKernel
    OrphansExplained
    NodeLinksAreRetried
PROPERTY
    LinkDeployReturns
