SPECIFICATION Spec
CONSTANTS
  Containers = {"n1"}
  Bridges = {}
  Topologies <- MCRedeployTopologies
  Filters = {{}}
  Commands = {"deploy", "redeploy"}
  Foreign <- MCForeign
  MaxCommands = 2
  MaxFaults = 0
CHECK_DEADLOCK FALSE
INVARIANTS RedeployDeploys
