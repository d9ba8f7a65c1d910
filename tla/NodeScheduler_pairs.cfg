SPECIFICATION Spec
CONSTANTS
    n1 = n1
    n2 = n2
    n3 = n3
    Node = {n1, n2}
    Absent = Absent
    NoNode = NoNode
    Topologies <- Pairs
    MaxWorkers = 0
    VCpus = 2
    Faults = {}
SYMMETRY Symmetry
INVARIANTS
    TypeOK
    OrderRespected
    CountersExact
    NothingLeftToSignal
    StageExecsRun
