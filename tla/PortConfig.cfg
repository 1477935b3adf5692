SPECIFICATION Spec
CONSTANTS
    Requests = {"r1", "r2"}
    Vlans <- MCVlans
    MaxConfigs = 3
INVARIANT ParsedAsSpecified
