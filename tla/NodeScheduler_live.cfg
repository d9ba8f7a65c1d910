SPECIFICATION FairSpec
CONSTANTS
    n1 = n1
    n2 = n2
    n3 = n3
    Node = {n1, n2, n3}
    Absent = Absent
    NoNode = NoNode
    Topologies <- OneLateWaiter
    MaxWorkers = 2
    VCpus = 8
    Faults = {}
PROPERTIES
    DeployReturns
    AcceptedIsDeployed
