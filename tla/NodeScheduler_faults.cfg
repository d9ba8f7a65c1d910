SPECIFICATION Spec
CONSTANTS
    n1 = n1
    n2 = n2
    n3 = n3
    Node = {n1, n2, n3}
    Absent = Absent
    NoNode = NoNode
    Topologies <- Triples
    MaxWorkers = 2
    VCpus = 8
    Faults = {"pre-deploy", "create-links", "health", "cancel"}
CHECK_DEADLOCK FALSE
INVARIANTS
    OneWorkerPerNode
    ChannelsAreSafe
    SuccessIsComplete
PROPERTIES
    KeepsPromise
