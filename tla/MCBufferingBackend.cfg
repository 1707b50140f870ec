SPECIFICATION Spec
CONSTANTS
    d1 = d1
    d2 = d2
    k1 = k1
    k2 = k2
    v1 = v1
    Dicts = {d1, d2}
    Keys = {k1, k2}
    Values = {v1}
    NoValue = NoValue
    Torn = Torn
    NoEntry = NoEntry
    Tombstone = Tombstone
INVARIANTS
    ListAgreesWithGet
    NothingLeftBehind
    CommitTouchesOnlyItsWrites
    CommitExact
PROPERTIES
    ImplementsTransaction
SYMMETRY Symmetry
