SPECIFICATION SessionSpec
CONSTANTS
    r1 = r1
    r2 = r2
    Dicts = {"aci"}
    Keys = {"peer"}
    Devices = {1, 2}
    Records = {r1, r2}
    NoRecord = NoRecord
    Values <- MCValues
    NoValue = NoValue
    Torn = Torn
    NoEntry = NoEntry
    Tombstone = Tombstone
INVARIANTS
    SessionTypeOK
    CleanIsStored
    DeletedStaysDeleted
PROPERTIES
    RatchetNeverRewinds
SYMMETRY Symmetry
