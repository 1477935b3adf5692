SPECIFICATION PortsSpec
CONSTANTS
    Policies = {"base"}
    Bridges = {"br0"}
    Labels = {"worker"}
    Mtus = {1500, 9000}
    NoMtu = NoMtu
    Versions <- MCVersions
    Selector <- MCSelector
    MaxEvents = 1
    MaxChanges = 2
    Faults = {"crash"}
INVARIANT EveryPortGetsItsMtu
