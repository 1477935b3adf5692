SPECIFICATION FairSpec
CONSTANTS
    Bridges = {"br0"}
    Resources = {"res0"}
    Nodes <- MCNodes
    NoBridge = NoBridge
    NoResource = NoResource
    Invalid = Invalid
    MaxChanges = 2
    Faults = {"kubelet", "register"}
PROPERTY TopologyIsAdvertised
