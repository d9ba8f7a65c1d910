SPECIFICATION Spec
CONSTANTS
    Topologies <- SrlFiles
    MaxDeploys = 2
INVARIANTS
    StartupConfigEnforced
CHECK_DEADLOCK FALSE
