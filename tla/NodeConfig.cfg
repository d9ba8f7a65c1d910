SPECIFICATION Spec
CONSTANTS
    Topologies <- AllFiles
    MaxDeploys = 2
INVARIANTS
    PortsAsDocumented
    StartupIsBooted
    SavedConfigIsBooted
    EnforcedStartupIsBooted
    CertificatesVerify
    WaitsKeptOnce
CHECK_DEADLOCK FALSE
