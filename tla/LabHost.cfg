SPECIFICATION Spec
CONSTANTS
  Labs = {l1, l2}
  Nodes = {"n1"}
  Procs = {"p1", "p2"}
  Commands = {"deploy", "reconfigure", "cleanup", "cleanupAll", "redeploy", "attach", "detach"}
  Firewall = "nftables"
  MaxWorkers = 1
  MaxEvents = 3
  OverlapCost = 2
  MaxNetworks = 6
  SharedDir = FALSE
  SSHConfigDir = TRUE
SYMMETRY LabSymmetry
CHECK_DEADLOCK FALSE
INVARIANTS DeployedLabsStay HostFilesAreExact DestroyLeavesNothing
