SPECIFICATION Spec
CONSTANTS
  Labs = {"l1"}
  Nodes = {"n1", "n2"}
  Procs = {"p1"}
  Commands = {"deploy", "reconfigure", "destroy", "destroyAll", "redeploy", "reattach"}
  Firewall = "iptables"
  MaxWorkers = 1
  MaxEvents = 3
  OverlapCost = 1
  MaxNetworks = 7
  SharedDir = TRUE
  SSHConfigDir = FALSE
CHECK_DEADLOCK FALSE
PROPERTY EveryCommandEnds
