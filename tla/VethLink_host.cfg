SPECIFICATION FairSpec
CONSTANTS
    linkDeployRetries = 3
    Faults <- EarlyTransient
    MaxFaults = 4
CHECK_DEADLOCK FALSE
INVARIANT
    TransientErrorsAreRetried
