SPECIFICATION FairSpec
CONSTANTS
    Devices = {d1}
    VhostUserSpecs <- Contents
    Users = {"ovs"}
    Groups = {"qemu"}
    Ids = {0, 1}
    WellFormed = {"container_file"}
    Entries = {"qemu"}
    SELinux = TRUE
    NoVhostUser = NoVhostUser
    MaxVersions = 2
    MaxAccountChanges = 2
    Faults = {"io", "api", "crash", "claim"}
INVARIANTS TypeOK PreparedUnderConfig PreparedAsConfigured
PROPERTIES ExistingKept ConfigTakesEffect BadConfigIsCured
CHECK_DEADLOCK FALSE
