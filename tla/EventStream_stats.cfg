SPECIFICATION Spec
CONSTANTS
    Containers = {c1}
    Interfaces = {1}
    Attrs = {"up", "down"}
    Capacity = 1
    Attempts = 2
    MaxRx = 1
    MaxChanges = 2
    World = {"link"}
    Flags = {{"interface-stats"}, {"initial-state", "interface-stats"}}
INVARIANT ChangesAreNotified
CHECK_DEADLOCK FALSE
