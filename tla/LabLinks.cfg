SPECIFICATION Spec
CONSTANTS
  Containers = {"n1", "n2"}
  Bridges = {"br"}
  Topologies <- MCTopologies
  Filters <- MCFilters
  Commands = {"deploy", "reconfigure", "destroy", "destroyByName", "redeploy", "vxlanCreate", "vxlanDelete"}
  Foreign <- MCForeign
  MaxCommands = 3
  MaxFaults = 1
CHECK_DEADLOCK FALSE
INVARIANTS DeploymentIsWired DestroyClearsHost HostInterfacesKept
