SPECIFICATION FairSpec
CONSTANTS
    Bridges = {"br0", "br1"}
    Capacity = 1
    NoBridge = NoBridge
    MaxIfaces = 2
    MaxTxns = 3
    Faults = {"lookup"}
INVARIANTS TypeOK MapErrorsExplained ChangesAreTold
PROPERTIES ChangesAreAnnounced UplinksAreResolved
