SPECIFICATION FairSpec
CONSTANTS
    n1 = n1
    n2 = n2
    n3 = n3
    Node = {n1, n2, n3}
    Absent = Absent
    NoNode = NoNode
    Topologies <- LateWaits
    MaxWorkers = 0
    VCpus = 2
    Faults = {}
CHECK_DEADLOCK FALSE
PROPERTIES
    DeployReturns
