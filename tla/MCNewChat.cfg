SPECIFICATION Spec
CONSTANTS
    Names = {n1, n2}
    NoName = NoName
    MaxLinks = 2
    MaxCmds = 2
    MaxEvents = 2
INVARIANT ChatIsTheOneAskedFor
PROPERTY LookupEnds
CHECK_DEADLOCK FALSE
