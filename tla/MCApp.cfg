SPECIFICATION Spec
CONSTANTS
    MaxCmds = 2
    MaxEvents = 1
    MaxLookups = 1
INVARIANTS
    TypeOK
    LinkedAgrees
PROPERTIES
    LinkingEnds
    HeardWipeEnds
CHECK_DEADLOCK FALSE
