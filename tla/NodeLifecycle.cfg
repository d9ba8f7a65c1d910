SPECIFICATION Spec
CONSTANTS
    Iface = {eth1, eth2, eth3}
    Tracked = {eth1, eth2}
    Faults = {"pre-stop", "netns", "candidates", "move", "discover", "activate", "symlink", "cleanup",
              "stop", "start", "post-start", "remove", "delete", "kill", "exit", "docker-start"}
    MaxFaults = 2
INVARIANTS
    NoInterfaceLost
    StartRestores
    DeleteCleansUp
