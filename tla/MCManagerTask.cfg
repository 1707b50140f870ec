SPECIFICATION Spec
CONSTANTS
    Senders = {"s1", "s2"}
    Timestamps = {1, 2}
    OpCapacity = 2
    MaxFailures = 3
    MaxReauth403s = 2
    MaxAttempts = 2
INVARIANTS
    TypeOK
    OneOutcome
    NoSendForgotten
PROPERTIES
    AnsweredOrExited
    DisconnectEnds
CHECK_DEADLOCK FALSE
