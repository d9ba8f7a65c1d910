SPECIFICATION Spec
CONSTANTS
  Labs = {"l1", "l2"}
  Nodes = {"n1"}
  Procs = {"p1"}
  Commands = {"destroyAll", "cleanupAll"}
  Firewall = "nftables"
  MaxWorkers = 0
  MaxEvents = 1
  OverlapCost = 1
  MaxNetworks = 2
  SharedDir = FALSE
  SSHConfigDir = TRUE
CHECK_DEADLOCK FALSE
PROPERTY AbortRemovesNothing
