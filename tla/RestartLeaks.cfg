SPECIFICATION Spec
CONSTANTS
    p1 = p1  p2 = p2
    c1 = c1  c2 = c2
    d1 = d1  d2 = d2  d3 = d3
    b1 = b1  b2 = b2
    r1 = r1  r2 = r2
    u1 = u1  u2 = u2
    n1 = n1  n2 = n2
    NoClaim = NoClaim  NoDevice = NoDevice  NoPod = NoPod
    Pods = {p1}
    Claims = {c1, c2}
    Devices = {d1, d2, d3}
    Bridges = {b1, b2}
    Requests = {r1, r2}
    UIDPrefixes = {u1, u2}
    PodClaimNames = {n1, n2}
    ReservedFor <- BatchReservedFor
    PodClaimName <- BatchPodClaimName
    UIDPrefix <- MCUIDPrefix
    ClaimOf <- BatchClaimOf
    RequestOf <- BatchRequestOf
    BridgeOf <- BatchBridgeOf
    Faults = {"crash"}
INVARIANT PodDeletionRemovesAll
