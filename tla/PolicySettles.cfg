SPECIFICATION FairSpec
CONSTANTS
    Policies = {"base", "extra"}
    Bridges = {"br0", "br1"}
    Labels = {"worker", "infra"}
    Mtus = {NoMtu, 65536}
    NoMtu = NoMtu
    Versions <- MCVersions
    Selector <- MCSelector
    MaxEvents = 2
    MaxChanges = 4
    Faults = {"api", "server", "crash"}
INVARIANTS TypeOK SettledIsCurrent
PROPERTY PolicyTakesEffect
