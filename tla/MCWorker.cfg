SPECIFICATION Spec
CONSTANTS
    Accounts = {1, 2}
    Tasks = {1, 2}
    OpCapacity = 1
    NoAccount = 0
    NoTask = 0
INVARIANTS
    TypeOK
    NoMixing
PROPERTIES
    BatchCloses
    DispatcherReturns
