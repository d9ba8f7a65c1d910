SPECIFICATION Spec
CONSTANTS
    Iface = {eth1, eth2}
    Tracked = {eth1, eth2}
    Faults = {"cleanup"}
    MaxFaults = 1
INVARIANT
    LinksKept
