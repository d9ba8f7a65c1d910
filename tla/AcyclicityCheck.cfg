SPECIFICATION FairSpec
CONSTANT
    Node = {a, b, c, d}
CHECK_DEADLOCK FALSE
INVARIANTS
    AcceptedIsOrdered
    RejectedHasCore
    VerdictIsRight
PROPERTY
    Terminates
