SPECIFICATION FairSpec
CONSTANTS
    Bridges = {"br0", "br1"}
    Resources = {"res0"}
    Nodes = {0, 1}
    NoBridge = NoBridge
    NoResource = NoResource
    Invalid = Invalid
    MaxChanges = 2
    Faults = {"kubelet", "server", "register", "stop", "invalid", "publish"}
INVARIANTS TypeOK ServedIsCurrent AdvertisedIsServed StoppedForGood
PROPERTY AdvertisedUnlessMissed
