SPECIFICATION Spec
CONSTANTS
    Containers = {c1}
    Interfaces = {1}
    Attrs = {"up", "down"}
    Capacity = 1
    Attempts = 2
    MaxRx = 1
    MaxChanges = 3
    World = {"start", "exit", "signal", "unpause", "link", "netem", "traffic", "feed", "tc", "subscribe", "ns", "list", "updates"}
    Flags = {{"initial-state"}, {"interface-stats"}}
INVARIANTS EventsAreCurrent DeltasArePossible NothingLost
PROPERTIES AllEnd
CHECK_DEADLOCK FALSE
