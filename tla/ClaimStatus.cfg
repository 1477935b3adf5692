SPECIFICATION Spec
CONSTANTS
    Devices = {"d1", "d2"}
    Others = {"net", "gpu"}
    Steps = 5
    MaxWrites = 3
    MaxFaults = 2
    MaxRestarts = 2
INVARIANTS TypeOK OthersPreserved OwnEntriesWhole GivesUpOnlyWhenDisturbed
